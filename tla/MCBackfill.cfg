SPECIFICATION BackfillSpec
CONSTANTS
  Commands = {"new", "from_file"}
  Concurrencies = {0, 1, 2}
  Workers = 4
  MaxTime = 7
  Steps = {1, 2, 3}
  Rows <- TwoRows
  MaxRows = 3
INVARIANTS
  ConcurrencyBounded
  EverySecondOnce
PROPERTIES
  CommandEnds
  ImplementsPublishOnce
CHECK_DEADLOCK FALSE
