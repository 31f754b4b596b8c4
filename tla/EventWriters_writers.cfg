SPECIFICATION FairSpec
CONSTANTS
  Members = {"a", "b"}
  Nobody = "none"
  Size <- MCSize
  MaxBatchFlush = 2
  MaxQueue = 2
  MinBatch = 1
  MaxWorkers = 2
  StatementRows = 1
  MaxRetries = 2
  MaxLog = 2
  MaxAssigns = 1
  MaxRestarts = 1
INVARIANTS
  TypeOK
  Accounted
PROPERTIES
  Implements
  EventuallySettled
CHECK_DEADLOCK FALSE
