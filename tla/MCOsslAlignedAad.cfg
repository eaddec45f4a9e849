SPECIFICATION Spec
CONSTANTS
  LaneSz = 1
  Handles = {h1}
  Keys <- MCKeys
  Nonces <- MCNonces
  Chunks <- MCBlocks
  MaxRecords = 1
  MaxCalls = 3
  SharedRecords = 0
  SharedCalls = 0
  MaxStray = 0
  NULL = NULL
INVARIANT ByteExactPort
