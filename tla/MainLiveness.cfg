CONSTANTS
  Calls = {c1, c2}
  Goals = {g1}
  Entries = {main}
  Main = main
  RunRequests <- PlainOrProfiled
  Tools = {"run_wp", "check_eva", "reload", "lock", "annotate"}
  DefaultTimeout = 2
  None = None
  MaxLoads = 2
  MaxEdits = 1
  MaxEpoch = 0
  MaxFailures = 0
SPECIFICATION LiveSpec
PROPERTY EveryCallReturns
