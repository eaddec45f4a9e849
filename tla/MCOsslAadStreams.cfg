SPECIFICATION Spec
CONSTANTS
  LaneSz = 1
  Handles = {h1}
  Keys <- MCKeys
  Nonces <- MCNonces
  Chunks <- MCAadChunks
  MaxRecords = 1
  MaxCalls = 4
  SharedRecords = 0
  SharedCalls = 0
  MaxStray = 0
  NULL = NULL
INVARIANT AadStreams
