SPECIFICATION Spec
CONSTANTS
  a = a
  b = b
  k1 = k1
  k2 = k2
  Clients = {a, b}
  Keys = {k1, k2}
  Entries = {e1, e2, e3, e4}
  None = None
  Requests <- MCAll
  MaxSize = 1
  TTL = 0
  EmptyTTL = 0
  MaxTime = 2
  MaxVersion = 1
INVARIANTS TypeOK UseCounted OneReadPerKey AnswersFresh AnswersMonotone
PROPERTY FailsOnlyOnExpiry
CHECK_DEADLOCK FALSE
