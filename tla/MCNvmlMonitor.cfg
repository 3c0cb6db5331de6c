SPECIFICATION Spec
CONSTANTS
  NumDevices = 2
  Utils = {0, 1, 2}
  Jobs = {7}
  PushInterval = 3
  CollectInterval = 2
  Interval = 5
  MaxLag = 1
INVARIANT RecordsOfInterval
INVARIANT BatchAgreesWithLogs
INVARIANT CyclesKeepPace
CHECK_DEADLOCK FALSE
