SPECIFICATION Spec
CONSTANTS
  p1 = p1
  p2 = p2
  imA = imA
  imB = imB
  l1 = l1
  l2 = l2
  l3 = l3
  None = None
  Pulls = {p1, p2}
  Containers = {c1}
  Images = {imA, imB}
  Layers = {l1, l2, l3}
  LayersOf <- MCLayersOf
  ImageOf <- MCImageOf
  MaxId = 5
  MaxCrashes = 1
  RemoveParents = FALSE
  Faults = TRUE
INVARIANTS
  InUseRegistered
  OneServer
  DirsKept
PROPERTY TeardownUnused
CHECK_DEADLOCK FALSE
