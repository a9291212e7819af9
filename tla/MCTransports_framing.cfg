SPECIFICATION TransportsSpec
CONSTANTS
  Messages <- MCMessages
  Prefix = 2
  Width = 8
  ReadSize = 3
  MaxNoise = 1
CHECK_DEADLOCK FALSE
INVARIANTS
  TransportsTypeOK
  WholeChunks
PROPERTIES
  ChunksArrive
