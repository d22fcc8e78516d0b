CONSTANTS
  Calls = {c1, c2}
  Goals = {g1}
  Entries = {main, other}
  Main = main
  RunRequests <- AnyRetry
  Tools = {"run_wp", "cancel", "check_eva", "reload", "lock", "coverage"}
  DefaultTimeout = 2
  None = None
  MaxLoads = 2
  MaxEdits = 0
  MaxEpoch = 1
  MaxFailures = 1
SPECIFICATION Spec
SYMMETRY CallSymmetry
INVARIANTS
  LockedMeansQuiet
  AnswersAreOneRun
  SessionIsCurrent
  CleanDrainIsComplete
