SPECIFICATION Spec
CONSTANTS
  Modes <- MCModes
  Indices <- MCIndices
  AppHeaders = {h1, h2, h3}
  OtherHeaders = {hs}
  Bodies <- MCBodies
  Clients = {c1}
  MaxDatagrams = 4
  MaxReplies = 1
  NULL = NULL
INVARIANT ReplayForwardsTwice
CHECK_DEADLOCK FALSE
