\* Without chunking the sink drives the generators, with it the chunker does.
SPECIFICATION SMSpec
CONSTANTS
  Limits = {0, 6}
  Retries = 1
  Wrapped = TRUE
  Sizes = {1, 3}
  MaxRecords = 2
  NTasks = 2
  Routed = {1, 2}
  Eager = {}
  MaxCycles = 3
INVARIANTS
  NoStaleSdiag
  CycleIsOneScrape
