SPECIFICATION FairSpec
CONSTANTS
  imA = imA
  imB = imB
  l1 = l1
  None = None
  Notifies = {n1, n2}
  Reports = {p1}
  Builders = {b1}
  Images = {imA, imB}
  Digests = {l1}
  Files = {f1, f2}
  ImageLayers <- MCImageLayers
  Tags = {t1}
  TagOf <- MCTagOf
  Pushed <- MCPushed
  ReportImage <- MCReportImage
  MaxLayers = 2
  MaxPlatforms = 2
  MaxPushes = 1
  MaxCrashes = 1
  MaxRank = 1
  Faults = TRUE
  CommitsFail = FALSE
INVARIANTS
  ReadyImageExtracted
  OkMeansSaved
  OneExtractorPerImage
  ServedImageComplete
PROPERTY NotifyEnds
CHECK_DEADLOCK FALSE
