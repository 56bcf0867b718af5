CONSTANTS
  Modes = {"local", "student"}
  MaxSegment = 3
  MaxBatchSize = 2
  QueueLimit = 2
  Attempts = 2
  MaxReload = 1
  MaxTrouble = 2
SPECIFICATION Spec
CHECK_DEADLOCK FALSE
INVARIANTS StreamHoldsReceipts ReloadRecovers
