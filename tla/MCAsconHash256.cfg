SPECIFICATION Spec
CONSTANTS
  LaneSz = 2
  Chunks <- MCChunks
  MaxMessage = 5
  NULL = NULL
INVARIANT TypeOK
PROPERTY HashImplementsSpec
