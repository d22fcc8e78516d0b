SPECIFICATION Spec
CONSTANTS
  None = None
  Cases <- MCCases
  Other <- MCOther
  MaxFaults = 1
  MaxLoads = 2
INVARIANTS
  SaidToHoldHolds
  CleanIsProved
  AskedIsAnswered
  ProvedOnOwnGoals
CHECK_DEADLOCK FALSE
