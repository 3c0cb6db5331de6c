SPECIFICATION Spec
CONSTANTS
  edge = edge
  late = late
  odd = odd
  tardy = plain
  loud = loud
  Job <- MCJob
  End <- MCEnd
  Selected <- MCSelected
  Delims <- MCDelims
  N = 3
  Lower = 0
  Upper = 8
  Step = 3
  Slack = 2
  BatchSize = 2
  PipeCapacity = 2
INVARIANT PlTypeOK
INVARIANT PayloadsAreRows
INVARIANT NoJobTwice
INVARIANT NoneLost
PROPERTY PipelineEnds
CHECK_DEADLOCK FALSE
