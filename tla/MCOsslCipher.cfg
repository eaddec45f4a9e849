SPECIFICATION Spec
CONSTANTS
  LaneSz = 1
  Handles = {h1, h2}
  Keys <- MCKeys
  Nonces <- MCNonces
  Chunks <- MCChunks
  MaxRecords = 2
  MaxCalls = 3
  SharedRecords = 1
  SharedCalls = 2
  MaxStray = 1
  NULL = NULL
INVARIANTS
  TypeOK
  RecordIsOneShot
  AcceptsOnlyItsOwnTag
SYMMETRY MCHandles
