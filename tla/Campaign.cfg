SPECIFICATION Spec
CONSTANTS
  None = None
  Functions = {1, 2, 3}
  Files = {1, 2, 3}
  Scratch = {3}
  ReceiptLimit = 2
  Oversized = {3}
  GoalLists <- MCGoalLists
  Cases <- MCCases
INVARIANTS
  CoverageIsHonest
  ScheduleIsBottomUp
  DiffIsHonest
