SPECIFICATION PortTrial
CONSTANT Inputs <- MCInputs
INVARIANTS
  TypeOK
PROPERTIES
  ImplementsP64
  PortImplementsP64
CHECK_DEADLOCK FALSE
