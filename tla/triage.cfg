\* Any two inputs and any three that meet in a group, with a watchdog that is late, early or lost.
SPECIFICATION FairSpec
CONSTANTS
  Limits <- MCLimits
  Batches <- MCBatches
  ClockEvery = 2
  ByPc = FALSE
  Limit <- NoLimit
  None = None
INVARIANTS Truthful GroupsRight
PROPERTY BatchEnds
