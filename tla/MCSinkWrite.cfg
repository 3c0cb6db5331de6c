\* With chunking, and with --chunk-size 0, where the sink reads the generator.
SPECIFICATION SinkWriteSpec
CONSTANTS
  Limits = {0, 9}
  Retries = 2
  Wrapped = FALSE
  Sizes = {1, 3, 7, 8}
  MaxRecords = 4
INVARIANTS
  ChunkingOptimal
  NothingSkipped
  ReturnMeansDelivered
  DuplicatesBounded
CHECK_DEADLOCK FALSE
