CONSTANTS
  Calls = {c1, c2}
  Boot = boot
  Rows = {r1, r2}
  Page = 1
  None = None
  MaxRequests = 3
SPECIFICATION LiveSpec
CHECK_DEADLOCK FALSE
INVARIANTS
  AnswerIsOwn
  FetchIsWhole
  NothingBehindPartialFrame
PROPERTY EveryCallReturns
