SPECIFICATION FairSpec
CONSTANTS
  Tools = {"pools", "decimals", "chain"}
  Rows <- MCRows
  Sources <- MCSources
  Mints = {1, 2, 3}
  PageSize = 2
  MaxWorkers = 2
  MinBatchSize = 1
  ChainBatch = 2
  MaxLives = 2
INVARIANTS
  TypeOK
  Migrated
  CreationMigrated
  DecimalsLearnt
PROPERTIES
  Finishes
CHECK_DEADLOCK FALSE
