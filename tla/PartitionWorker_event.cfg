SPECIFICATION Spec
CONSTANTS
  t1 = t1
  t2 = t2
  Tables = {t1, t2}
  Kinds <- TableKinds
  RouterType = "event"
  ChanCap = 2
  MaxBlockHold = 3
  MaxBatchFlush = 2
  InitialCommit <- NoCommit
  AllowStop = TRUE
  MaxLog = 3
  MaxLives = 2
INVARIANTS
  TypeOK
  CommittedAccounted
  DeliveredInOrder
  QueueBounded
  NothingForgotten
  DrainNeverNil
PROPERTIES
  Implements
CHECK_DEADLOCK FALSE
