SPECIFICATION Spec
CONSTANTS
  f1 = f1
  f2 = f2
  c1 = c1
  c2 = c2
  Empty = Empty
  NoFile = NoFile
  Layers = {1, 2, 3}
  Names = {f1, f2}
  Contents = {c1, c2}
  Images <- MCImages
  Tocs <- MCTocs
  Rank <- MCRank
  MaxUpdates = 2
INVARIANTS
  EveryFileCovered
  BodyFromFetchedLayer
  PriorityOrder
  ReadableFromWhole
CHECK_DEADLOCK FALSE
