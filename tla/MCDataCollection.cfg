SPECIFICATION LoopSpec
CONSTANTS
  Limits = {0, 7}
  Retries = 1
  Wrapped = TRUE
  Sizes = {2, 4, 6}
  MaxRecords = 2
  NTasks = 2
  Routed = {1}
  Eager = {2}
  MaxCycles = 2
INVARIANTS
  AtMostOnceInOrder
  SinkCannotEndLoop
PROPERTIES
  CycleEnds
