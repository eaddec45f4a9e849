SPECIFICATION Spec
CONSTANTS
  Builds <- MCBuilds
  Period = 3
  MaxTicks = 6
  OUT_SIZE = 12
  DumpDefault = 6
  REC_ITERS = 3
  DropLimit = 1
  LineSizes <- MCLineSizes
  MaxText = 4
INVARIANTS TypeOK RecordTimeExact TimeErrorBounded HostSeesPrefix WarnedOrComplete DropsAccounted
CHECK_DEADLOCK FALSE
