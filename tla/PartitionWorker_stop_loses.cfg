SPECIFICATION Spec
CONSTANTS
  t1 = t1
  t2 = t2
  Tables = {t1}
  Kinds <- RowKinds
  RouterType = "event"
  ChanCap = 2
  MaxBlockHold = 2
  MaxBatchFlush = 3
  InitialCommit = 0
  AllowStop = TRUE
  MaxLog = 3
  MaxLives = 2
INVARIANTS CommittedStored
CHECK_DEADLOCK FALSE
