SPECIFICATION FairSpec
CONSTANTS
  t1 = t1
  t2 = t2
  Tables = {t1}
  Kinds <- BalanceKinds
  RouterType = "balance"
  ChanCap = 1
  MaxBlockHold = 2
  MaxBatchFlush = 2
  InitialCommit = 0
  AllowStop = TRUE
  MaxLog = 2
  MaxLives = 2
PROPERTIES
  EventuallyStored
  StopTerminates
CHECK_DEADLOCK FALSE
