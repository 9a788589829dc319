SPECIFICATION Spec
CONSTANTS
  A = A
  B = B
  C = C
  L1 = L1
  L2 = L2
  L3 = L3
  d1 = d1
  d2 = d2
  p1 = p1
  p2 = p2
  None = None
  Images = {A, B}
  Layers = {L1, L2, L3}
  Digests = {d1, d2}
  Pulls = {p1, p2}
  NamedLike <- MCNamedLike
  LayersOf <- MCLayersOf
  Payload <- MCPayload
  MaxInFlight = 2
  MaxCrash = 0
  SameImage = TRUE
  EarlyStart = {FALSE}
  DownloadsFail = FALSE
  StoresFail = FALSE
  MountedImages = {}
INVARIANT NoFatalUnlock
