CONSTANTS
  None = None
  Obligations = {"established", "preserved", "opaque", "terminates"}
  About <- MCAbout
  Worlds <- MCWorlds
  Requests <- MCRequests
  MaxRuns = 2
  MaxLoads = 2
  MaxHostChanges = 1
SPECIFICATION Spec
CHECK_DEADLOCK FALSE
INVARIANTS
  UnjudgedIsNotBlamed
  SureTimeoutsWereMeasured
  RetriedInVainIsTrue
  StableIdsFollowTheGoal
