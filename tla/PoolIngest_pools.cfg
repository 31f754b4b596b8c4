SPECIFICATION Spec
CONSTANTS
  pa = pa
  pb = pb
  pc = pc
  Pools = {pa, pb, pc}
  Accounts = {1, 2}
  Tokens = {1, 2}
  Messages <- MCMessages
  CacheSize = 2
  MaxBatchFlush = 2
  MaxQueue = 3
  MaxWorkers = 2
  MinBatchSize = 1
  MaxLog = 3
  MaxLives = 2
INVARIANTS TypeOK SeenIsCovered PoolsStored CreationRecorded
PROPERTY CreationKept
CHECK_DEADLOCK FALSE
