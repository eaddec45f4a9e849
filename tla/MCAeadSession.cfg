SPECIFICATION Spec
CONSTANTS
  LaneSz = 1
  Keys <- MCKeys
  Nonces <- MCNonces
  Ads <- MCAds
  Chunks <- MCChunks
  Ivs <- MCIvs
  MaxData = 4
  MaxMisuse = 1
  NULL = NULL
INVARIANTS
  TypeOK
  StreamingIsOneShot
  AcceptsOnlyItsOwnTag
  MaskIsNotKeystream
PROPERTIES
  SessionFixed
  IvSurvives
