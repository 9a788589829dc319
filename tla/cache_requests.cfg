SPECIFICATION FairSpec
CONSTANTS
  r1 = r1
  r3 = r3
  l1 = l1
  l2 = l2
  Nil = Nil
  Requests = {r1, r3}
  Layers = {l1, l2}
  Needs <- MCNeeds
  Contents <- MCContents
  CacheTimeout = 1
  MaxTime = 2
  LoadFails = TRUE
  RequestFails = TRUE
INVARIANTS
  TypeOK
  SharedWithinTimeout
  ServedUnlessFailed
PROPERTY RequestEnds
