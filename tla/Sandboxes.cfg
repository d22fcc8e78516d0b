CONSTANTS
  Servers = {s1}
  Calls = {c1, c2}
  Ids = {x, y}
  Pids = {p1, p2}
  None = None
  MaxSandboxes = 2
  MaxSpawns = 2
  MaxFailures = 1
  MaxStops = 1
SPECIFICATION Spec
SYMMETRY AnySymmetry
INVARIANTS
  RunsAreExclusive
  RunningIsRecorded
  NoStrangerStruck
  DeleteReleasesId
  NoStrayProvers
