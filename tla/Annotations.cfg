SPECIFICATION AnnotSpec
CHECK_DEADLOCK FALSE
CONSTANTS
  None = None
  Injections = {c1, c2}
  Cases <- MCCases
SYMMETRY MCSymmetry
INVARIANTS
  AnswerIsWhatHappened
  MatchIsReviewed
  InjectedIsNotClean
