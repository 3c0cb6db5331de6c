SPECIFICATION RvSpec
CONSTANTS
  h1 = h1
  h2 = h2
  h3 = h3
  Procs = {h1, h2, h3}
  Parties = 3
  NChunks = 3
  Window <- SerialAndPool
  Bases = {1, 2}
INVARIANTS
  InStep
  SameDatesMeet
PROPERTY
  ClientsEnd
