SPECIFICATION BackfillSpec
CONSTANTS
  Commands = {"new"}
  Concurrencies = {2}
  Workers = 4
  MaxTime = 2
  Steps = {1, 2}
  Rows <- TwoRows
  MaxRows = 1
PROPERTY
  InvocationFinishes
CHECK_DEADLOCK FALSE
