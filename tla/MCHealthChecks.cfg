\* All the health check commands, with at most two items each.
SPECIFICATION Spec
CONSTANTS
  Command <- AllCommands
  Thresholds = {0, 1, 2, 3, 4, 25, 50}
  MaxHosts = 6
INVARIANT ReportsAgree
INVARIANT CrashNotHealthy
INVARIANT WorstItemReported
INVARIANT BlindNotHealthy
INVARIANT NothingHidden
CHECK_DEADLOCK FALSE
