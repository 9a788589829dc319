SPECIFICATION Spec
CONSTANTS
  m1 = m1
  m2 = m2
  r1 = r1
  r2 = r2
  Managers = {m1, m2}
  Images = {1, 2}
  Groups = {"default", "app"}
  Default = "default"
  Paths <- MCPaths
  Layer <- MCLayer
  Known = {1, 2}
  Reporters = {r1, r2}
  MaxEvents = 2
  MaxSwitches = 1
  MaxActors = 3
SYMMETRY Interchangeable
INVARIANTS
  OnCoversAll
  TraceKept
  RankFollowsAccess
  RankOfItsFile
CHECK_DEADLOCK FALSE
