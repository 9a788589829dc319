SPECIFICATION Spec
CONSTANTS
  A = A
  B = B
  C = C
  L1 = L1
  L2 = L2
  L3 = L3
  d1 = d1
  d2 = d2
  p1 = p1
  p2 = p2
  p3 = p3
  None = None
  Images = {A, B, C}
  Layers = {L1, L2, L3}
  Digests = {d1, d2}
  Pulls = {p1, p2, p3}
  NamedLike <- MCNamedLike
  LayersOf <- MCLayersOf
  Payload <- MCPayload
  MaxInFlight = 1
  MaxCrash = 2
  SameImage = FALSE
  EarlyStart = {TRUE, FALSE}
  DownloadsFail = FALSE
  StoresFail = FALSE
  MountedImages = {A, B, C}
SYMMETRY Symmetry
INVARIANTS
  CompletedLayerExtracted
  ClosedMeansExtracted
  CompleteImageMountable
