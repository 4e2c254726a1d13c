SPECIFICATION FairSpec
CONSTANTS
  FifoDepth = 4
  Backlog = 3
  MaxOverflow = 1
  None = None
INVARIANTS LossNoticed StatisticsClean
PROPERTIES FramesGoOn
