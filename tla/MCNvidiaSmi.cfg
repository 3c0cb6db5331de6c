SPECIFICATION Spec
CONSTANTS
  p1 = p1
  p2 = p2
  Pid = {p1, p2}
  NumDevices = 2
  RetryCounts = {0, 2}
  MaxSelected = 2
  Companions = {"gpu_num"}
SYMMETRY Symmetry
INVARIANT OkMeansFree
INVARIANT WorstSubCheckReported
INVARIANT AnswersAreReal
PROPERTY KillIsLastResort
CHECK_DEADLOCK FALSE
