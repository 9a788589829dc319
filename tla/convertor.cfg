SPECIFICATION Spec
CONSTANTS
  amd64 = amd64
  arm64 = arm64
  arm = arm
  base = base
  app = app
  lib = lib
  Empty = Empty
  Manifests <- MCManifests
  Platform <- MCPlatform
  Requested <- MCRequested
  History <- MCHistory
  Layers <- MCLayers
  Size <- MCSize
  Bytes = 2
INVARIANTS
  IndexIsRequested
  LayersInOrder
  FilesWhole
CHECK_DEADLOCK FALSE
