CONSTANTS
  Files = {a, b}
  Options = {plain, forced}
  Outside = {forced}
  None = None
  Broken = Broken
  MaxSpawns = 2
  MaxEdits = 2
  MaxFailures = 1
SPECIFICATION Spec
SYMMETRY FileSymmetry
INVARIANTS
  RecordIsOfTheAst
  ReloadIsHonest
  BrokenNeverReused
