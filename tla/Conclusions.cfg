CONSTANTS
  F = F
  G = G
  S0 = S0
  S1 = S1
  E0 = E0
  E1 = E1
  None = None
  NoSpecs = S0
  Functions <- TwoFunctions
  Sandboxed <- OneFunction
  Specs <- TwoSpecs
  Environments <- BothEnvironments
  Receipts <- GoodReceipts
  WpSummaries <- PartialOrFull
  CalleeLists <- RecursiveCallees
  StatusChoices <- VerifiedOnly
SPECIFICATION Spec
INVARIANTS
  VerifiedCalleesCurrent
  OneProofEnvironment
  StaleDependenciesExact
  VerifiedHasEvidence
PROPERTY SweepsNeverPromote
