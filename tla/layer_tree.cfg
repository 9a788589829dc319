SPECIFICATION Spec
CONSTANTS
  Headers <- MCHeaders
  ChunkSize = 2
  MaxEntries = 3
INVARIANTS
  ExtractedIsContent
  ReadAtIsContent
  TreeIsLayer
  LookupFindsListed
CHECK_DEADLOCK FALSE
