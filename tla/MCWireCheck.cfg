SPECIFICATION WireSpec
CONSTANTS
  StrayDatagrams <- MCStray
  MaxRepeats = 1
  MaxStrays = 1
INVARIANTS
  WireTypeOK
  VerdictIsConformance
  CleanSessionPasses
CHECK_DEADLOCK FALSE
