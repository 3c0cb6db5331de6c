SPECIFICATION ResponsiveSpec
CONSTANTS
  c1 = c1
  c2 = c2
  Calls = {c1, c2}
INVARIANTS
  NoChildLeft
  LogExact
PROPERTY
  ChunkEnds
