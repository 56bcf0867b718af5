CONSTANTS
  Job = {j1, j2}
  QueueMax = 1
  MaxRetry = 1
  MaxTrouble = 1
  None = None
SPECIFICATION FairSpec
CHECK_DEADLOCK FALSE
INVARIANTS RefusalsHaveACause AnnouncedIsServable DeletedIsGone
PROPERTIES RunningEnds
