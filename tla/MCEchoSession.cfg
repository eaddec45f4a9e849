SPECIFICATION Spec
CONSTANTS
  MsgCount = 3
  MsgLoop = 5
  ClientTries = 1
  ServerTries = 1
  AcceptTries = 1
  Scenarios <- AllScenarios
  Indices <- MCIndices
INVARIANTS
  TypeOK
  EchoesGenuine
  LabelsMatch
PROPERTIES
  StreamStopsAtRejected
  ShortTimeoutEnds
CHECK_DEADLOCK FALSE
