CONSTANTS
  F = F
  G = G
  S0 = S0
  S1 = S1
  E0 = E0
  None = None
  NoSpecs = S0
  Functions <- TwoFunctions
  Sandboxed <- OneFunction
  Specs <- TwoSpecs
  Environments <- FirstEnvironment
  Receipts <- SentReceipts
  WpSummaries <- FullSummary
  CalleeLists <- CallsG
  StatusChoices <- VerifiedOnly
  Requests <- AgentRequests
  OldRows <- SomeOldRows
  Calls = {h1, h2}
  MaxClock = 3
  MaxFailures = 1
  MaxCrashes = 1
SPECIFICATION StoreSpec
SYMMETRY CallSymmetry
CHECK_DEADLOCK FALSE
INVARIANTS
  SessionEvidenceAdmissible
  DiskFollowsSession
PROPERTY ImplementsDurableRows
