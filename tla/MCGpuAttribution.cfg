SPECIFICATION AttrSpec
CONSTANTS
  p1 = p1
  p2 = p2
  j1 = j1
  j2 = j2
  far = far
  Gpu = {0, 1}
  Job <- MCJob
  OnHost = {j1, j2}
  OwnGpus <- MCOwnGpus
  OtherGpus <- MCOtherGpus
  Uses <- MCUses
  Blocks <- MCBlocks
  Pipeline = {p1, p2}
  Sources = {"slurmctld", "slurmd", "nvml"}
  CacheDuration = 1
  CallLag = 1
INVARIANT LabelsRecent
INVARIANT LongRunningLabelled
INVARIANT NoArbitraryOwner
PROPERTY Converges
