----------------------------- MODULE QueryService -----------------------------
(***************************************************************************)
(* The query service (internal/query/service.go) hands each call to the    *)
(* service of events or to that of balances.  They have tables and caches  *)
(* of their own and share the clock only, so it is enough to look at each  *)
(* of them with the other at rest.  The calls that look up single keys are *)
(* those of LockCache.                                                     *)
(***************************************************************************)
EXTENDS EventQueries

CONSTANTS
  Accounts, Owners, Tokens, KnownTokens, BalanceRows, Tables, HolderRequests,
  DefaultHolders, MaxHolders, MaxResult, Extra, Wrap, OwnerTTL, TopTTL, CountTTL(_),
  MaxChanges      \* all of them as in HolderQueries

VARIABLES
  service,                           \* the service that is called
  table, holderCache, past, api, answer   \* of HolderQueries

balanceVars == <<table, holderCache, past, api, answer>>
serviceVars == <<vars, service, balanceVars>>

Balances == INSTANCE HolderQueries WITH
  Known <- KnownTokens, Rows <- BalanceRows, Requests <- HolderRequests, cache <- holderCache,
  DefaultLimit <- DefaultHolders, MaxLimit <- MaxHolders

ASSUME BalancesAssumption == Balances!WellFormed

-----------------------------------------------------------------------------
NewQueryService ==
  /\ service \in {"events", "balances"}
  /\ Init /\ Balances!Init
  /\ service = "events" => api = "owner" /\ table = CHOOSE T \in Tables : TRUE
  /\ service = "balances" => request = CHOOSE r \in Requests : TRUE

QueryEvents == service = "events" /\ Next /\ UNCHANGED <<service, balanceVars>>
QueryBalances == /\ service = "balances" /\ Balances!Next
                 /\ UNCHANGED <<service, storedAt, pages, session>>

Calls == QueryEvents \/ QueryBalances

ServiceSpec == NewQueryService /\ [][Calls]_serviceVars

-----------------------------------------------------------------------------
\* The variables of both services have their types.
ServiceTypeOK == TypeOK /\ Balances!TypeOK /\ service \in {"events", "balances"}

\* An answer about the balances was true at one moment of its TTL (HolderQueries).
AnswersWereTrue == Balances!AnswersWereTrue

\* The list of top holders was right at one moment of its TTL (HolderQueries).
TopHoldersSound == Balances!TopHoldersSound
=============================================================================
