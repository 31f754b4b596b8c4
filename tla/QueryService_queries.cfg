SPECIFICATION ServiceSpec
CONSTANTS
  wa = wa
  wb = wb
  pl = pl
  tk = tk
  sol = sol
  native = native
  idSol = idSol
  None = None
  Events <- MCEvents
  Requests <- MCRequests
  Addresses = {wa, wb, pl, tk, sol, native}
  Known <- MCKnown
  Canonical <- MCCanonical
  DefaultLimit <- MCDefaultLimit
  MaxLimit = 2
  MaxIds = 4
  TTL = 1
  EmptyTTL = 0
  MaxId = 9
  MaxTime = 2
  MaxOthers = 1
  oa = oa
  ob = ob
  ta = ta
  tb = tb
  Accounts = {1, 2, 3}
  Owners = {oa, ob}
  Tokens = {ta, tb}
  KnownTokens = {tb}
  BalanceRows <- MCRows
  Tables <- MCTables
  HolderRequests <- MCHolderRequests
  DefaultHolders = 1
  MaxHolders = 2
  MaxResult = 2
  Extra <- MCExtra
  Wrap = 4
  OwnerTTL = 1
  TopTTL = 1
  CountTTL <- MCCountTTL
  MaxChanges = 2
INVARIANTS
  ServiceTypeOK
  NothingMissed
  PagesDescend
  AnswersFaithful
  AnswersWereTrue
  TopHoldersSound
CHECK_DEADLOCK FALSE
