SPECIFICATION Spec
CONSTANTS
  a1 = a1
  a2 = a2
  Accounts = {a1, a2}
  Chains <- MixedChains
  MaxBatchFlush = 2
  MaxQueue = 3
  AllowBackfill = TRUE
  MaxLog = 4
  MaxLives = 2
INVARIANTS TypeOK WritersDisjoint CommittedReflected Converged
PROPERTIES BackOnlyOnRedelivery
CHECK_DEADLOCK FALSE
