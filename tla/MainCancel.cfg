CONSTANTS
  Calls = {c1, c2}
  Goals = {g1, g2}
  Entries = {main}
  Main = main
  RunRequests <- Retrying
  Tools = {"run_wp", "cancel"}
  DefaultTimeout = 2
  None = None
  MaxLoads = 1
  MaxEdits = 0
  MaxEpoch = 1
  MaxFailures = 0
SPECIFICATION Spec
INVARIANT NoCancelMissed
