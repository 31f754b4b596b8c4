---------------------------- MODULE HolderQueries ----------------------------
(***************************************************************************)
(* The queries over the table balance (internal/query/balance) that read   *)
(* many rows for one key: the balances of an owner, the top holders and    *)
(* the number of holders of a token, each behind a cache (LockCache) and   *)
(* against a table the ingest service changes row by row, so that a        *)
(* transfer between two accounts is two changes.                           *)
(*                                                                         *)
(* Addresses are those of EventQueries' codec already encoded.             *)
(***************************************************************************)
EXTENDS Integers, Sequences, FiniteSets

CONSTANTS
  Accounts,       \* account_address, the table's key
  Owners, Tokens,
  Known,          \* the tokens with an id of their own (IsKnownToken)
  None,           \* no row, no token given
  Rows,           \* the rows an account may have
  Tables,         \* the tables the queries may find
  Requests,       \* the requests clients make
  DefaultLimit,   \* defaultLimit of the top holders
  MaxLimit,       \* maxLimit of the top holders
  MaxResult,      \* maxResultLimit of an owner's balances
  Extra,          \* extraFetchFactor: <<11, 10>>
  Wrap,           \* 2^64
  OwnerTTL,       \* balancesByOwnerTTL
  TopTTL,         \* topHoldersByTokenTTL
  CountTTL(_),    \* getHolderCountTTL, by the count
  MaxTime,        \* bound: the last second
  MaxChanges      \* bound: changes of the table

Row == [owner : Owners, token : Tokens, balance : 1 .. Wrap - 1]
Apis == {"owner", "top", "count"}
OwnerReq == [api : {"owner"}, owner : Owners \union {None}, token : Tokens \union {None}]
TokenTopReq == [api : {"top"}, token : Tokens \union {None}, limit : Nat]
TokenReq == [api : {"count"}, token : Tokens \union {None}]
Request == OwnerReq \union TokenTopReq \union TokenReq

\* What an answer tells of a balance and of a holder.
Balance == [owner : Owners, token : Tokens, balance : 0 .. Wrap - 1]
Holder == [owner : Owners, balance : 0 .. Wrap - 1]

\* What QueryService assumes of the constants.
WellFormed ==
  /\ Requests \subseteq Request /\ IsFiniteSet(Accounts)
  /\ Rows \subseteq Row /\ Tables \subseteq [Accounts -> Rows \union {None}]
  /\ None \notin Owners \union Tokens \union Row
  /\ MaxLimit \in Nat /\ DefaultLimit \in 1 .. MaxLimit /\ MaxResult \in Nat \ {0} /\ Wrap \in Nat \ {0}
  /\ Extra \in (Nat \ {0}) \X (Nat \ {0}) /\ Extra[1] >= Extra[2]
  /\ MaxTime \in Nat /\ MaxChanges \in Nat /\ OwnerTTL \in Nat /\ TopTTL \in Nat
  /\ \A n \in 0 .. Cardinality(Accounts) : CountTTL(n) \in Nat

VARIABLES
  now,        \* time.Now().Unix()
  table,      \* the row of each account, or None
  cache,      \* the caches' entries: result and validity per key
  past,       \* history: the table after each change, and when it was made
  api,        \* the query asked for: the queries' caches share nothing
  answer      \* history: the answer given in the last step

vars == <<now, table, cache, past, api, answer>>

-----------------------------------------------------------------------------
(* What a query makes of a table                                            *)

IsKnownToken(t) == t \in Known

\* The accounts a table has rows of: of a token; of an owner, with a token or any.
AccountsOf(T) == {a \in Accounts : T[a] # None}
OfToken(T, t) == {a \in AccountsOf(T) : T[a].token = t}
OfOwner(T, o, t) == {a \in AccountsOf(T) : T[a].owner = o /\ (t = None \/ T[a].token = t)}

LimitOf(r) == IF r.limit = 0 THEN DefaultLimit ELSE IF r.limit > MaxLimit THEN MaxLimit ELSE r.limit

FetchLimit(r) == (LimitOf(r) * Extra[1]) \div Extra[2]

Least(a, b) == IF a < b THEN a ELSE b

\* The sequences that LIMIT n may give of a set in descending order of f: rows that are
\* equal come in any order.
TopOf(S, f, n) ==
  {s \in [1 .. Least(n, Cardinality(S)) -> S] :
     /\ \A i, j \in DOMAIN s : i < j => s[i] # s[j] /\ f[s[i]] >= f[s[j]]
     /\ \A x \in S : (\E i \in DOMAIN s : s[i] = x) \/ (\A i \in DOMAIN s : f[s[i]] >= f[x])}

\* The sum of the balances of a set of accounts.
Sum(T, S) ==
  LET sum[U \in SUBSET S] ==
        IF U = {} THEN 0 ELSE LET a == CHOOSE a \in U : TRUE IN T[a].balance + sum[U \ {a}]
  IN  sum[S]

\* holderMap, in 64 bits without a sign.
HolderMap(T, fetched) ==
  [o \in {T[a].owner : a \in fetched} |-> Sum(T, {a \in fetched : T[a].owner = o}) % Wrap]

\* QueryTopHoldersByToken reads a little more rows than holders are asked for, adds up
\* those of one owner, sorts the owners and cuts the list.
CutBeforeSort(T, r) ==                                  \* faulty variant
  LET f == [a \in Accounts |-> IF T[a] = None THEN 0 ELSE T[a].balance]
  IN  {[i \in DOMAIN s |-> [owner |-> T[s[i]].owner, balance |-> T[s[i]].balance]] :
         s \in TopOf(OfToken(T, r.token), f, LimitOf(r))}
TopHolders(T, r) ==
  LET f == [a \in Accounts |-> IF T[a] = None THEN 0 ELSE T[a].balance]
      fetches == TopOf(OfToken(T, r.token), f, FetchLimit(r))
      lists(s) == LET h == HolderMap(T, {s[i] : i \in DOMAIN s})
                  IN  {[i \in DOMAIN l |-> [owner |-> l[i], balance |-> h[l[i]]]] :
                         l \in TopOf(DOMAIN h, h, LimitOf(r))}
  IN  UNION {lists(s) : s \in fetches}

\* QueryBalancesByOwner, with a token or without: any MaxResult rows if there are more.
BalancesByOwner(T, r) ==
  LET all == OfOwner(T, r.owner, r.token)
  IN  {[a \in S |-> T[a]] : S \in {U \in SUBSET all : Cardinality(U) = Least(MaxResult, Cardinality(all))}}

HolderCount(T, r) == Cardinality({T[a].owner : a \in OfToken(T, r.token)})

\* The results a read of the table may have.
ResultsOf(T, r) ==
  CASE r.api = "owner" -> BalancesByOwner(T, r)
    [] r.api = "top"   -> TopHolders(T, r)
    [] r.api = "count" -> {HolderCount(T, r)}

\* The key a result is cached under.
KeyByFirst(r) == <<r.api, IF r.api = "owner" THEN r.owner ELSE r.token>>   \* faulty variant
Key(r) == CASE r.api = "owner" -> <<r.api, r.owner, r.token>>
            [] r.api = "top"   -> <<r.api, r.token, FetchLimit(r)>>
            [] r.api = "count" -> <<r.api, r.token>>

\* Owner or token is given.
Accepted(r) == r.api = api /\ IF r.api = "owner" THEN r.owner # None ELSE r.token # None

Cached(r) == Key(r) \in DOMAIN cache /\ now <= cache[Key(r)].validAt

Ttl(r, result) == CASE r.api = "owner" -> OwnerTTL
                    [] r.api = "top"   -> TopTTL
                    [] r.api = "count" -> CountTTL(result)

Answer(r, result) == answer' = [request |-> r, result |-> result, ttl |-> Ttl(r, result)]

-----------------------------------------------------------------------------
Init ==
  /\ now = 0
  /\ table \in Tables
  /\ cache = [k \in {} |-> None]
  /\ past = <<[table |-> table, at |-> 0]>>
  /\ api \in Apis
  /\ answer = None

\* External: seconds pass, and the ingest service upserts or deletes the row of an account.
Tick == now < MaxTime /\ now' = now + 1 /\ answer' = None /\ UNCHANGED <<table, cache, past, api>>

Change(a, row) ==
  /\ Len(past) <= MaxChanges /\ table[a] # row
  /\ table' = [table EXCEPT ![a] = row]
  /\ past' = Append(past, [table |-> table', at |-> now])
  /\ answer' = None
  /\ UNCHANGED <<now, cache, api>>

\* Do: a hit, ...
Hit(r) ==
  /\ Accepted(r) /\ Cached(r)
  /\ Answer(r, cache[Key(r)].result)
  /\ UNCHANGED <<now, table, cache, past, api>>

\* ... or a read whose result is cached.  A read that fails answers an error and leaves the entry.
Read(r) ==
  /\ Accepted(r) /\ ~Cached(r) /\ ~(r.api = "count" /\ IsKnownToken(r.token))
  /\ \E result \in ResultsOf(table, r) :
       /\ Answer(r, result)
       /\ cache' = [k \in DOMAIN cache \union {Key(r)} |->
                      IF k = Key(r) THEN [result |-> result, validAt |-> now + Ttl(r, result)] ELSE cache[k]]
  /\ UNCHANGED <<now, table, past, api>>

\* The holders of a best known token are not counted.
SkipCount(r) ==
  /\ Accepted(r) /\ r.api = "count" /\ IsKnownToken(r.token)
  /\ Answer(r, 0)
  /\ UNCHANGED <<now, table, cache, past, api>>

Next ==
  \/ Tick \/ (\E a \in Accounts, row \in Rows \union {None} : Change(a, row))
  \/ (\E r \in Requests : Hit(r) \/ Read(r) \/ SkipCount(r))

Spec == Init /\ [][Next]_vars
-----------------------------------------------------------------------------
\* The variables have their types.
TypeOK ==
  /\ now \in 0 .. MaxTime
  /\ table \in [Accounts -> Rows \union {None}]
  /\ \A k \in DOMAIN cache : cache[k].validAt \in Nat
  /\ answer # None =>
       CASE answer.request.api = "owner" -> \A a \in DOMAIN answer.result : answer.result[a] \in Balance
         [] answer.request.api = "top"   -> \A i \in DOMAIN answer.result : answer.result[i] \in Holder
         [] answer.request.api = "count" -> answer.result \in Nat
  /\ Len(past) \in 1 .. MaxChanges + 1 /\ past[Len(past)].table = table

\* The tables that were there at some moment of the TTL before the answer was given.
Window ==
  {past[i].table : i \in {j \in DOMAIN past : j = Len(past) \/ past[j + 1].at >= now - answer.ttl}}

\* An answer was true at one moment, all of it, and not longer ago than its TTL: of the
\* balances of an owner and of the number of holders, whatever the other requests that
\* share the cache ask for (query_by_owner.go, query_holder_count.go).
AnswersWereTrue ==
  answer # None =>
    LET r == answer.request
        result == answer.result
    IN  \E T \in Window :
          /\ r.api = "count" => result = IF r.token \in Known THEN 0
                                         ELSE Cardinality({o \in Owners : \E a \in Accounts :
                                                T[a] # None /\ T[a].owner = o /\ T[a].token = r.token})
          /\ r.api = "owner" =>
               /\ \A a \in DOMAIN result : /\ result[a] = T[a] /\ T[a].owner = r.owner
                                           /\ r.token \in {None, T[a].token}
               /\ Cardinality(DOMAIN result) < MaxResult =>
                    \A a \in Accounts \ DOMAIN result :
                      T[a] = None \/ T[a].owner # r.owner \/ r.token \notin {None, T[a].token}

\* The list of top holders, of a token whose supply fits 64 bits, was right at one moment
\* of its TTL as far as it goes: in order, each owner once, with no less than his largest
\* account and no more than all of them; whoever is missing has no account larger than the
\* last one listed; and if all the accounts were read, nothing is missing at all.
TopHoldersSound ==
  answer # None /\ answer.request.api = "top" =>
    \E T \in Window :
      LET r == answer.request
          list == answer.result
          held(o) == {a \in Accounts : T[a] # None /\ T[a].owner = o /\ T[a].token = r.token}
          accounts == UNION {held(o) : o \in Owners}
          holders == {o \in Owners : held(o) # {}}
          listed == {list[i].owner : i \in DOMAIN list}
      IN  Sum(T, accounts) < Wrap =>
            /\ Len(list) <= LimitOf(r) /\ Cardinality(listed) = Len(list)
            /\ \A i \in DOMAIN list :
                 /\ \A j \in 1 .. i : list[j].balance >= list[i].balance
                 /\ \A a \in held(list[i].owner) : list[i].balance >= T[a].balance
                 /\ list[i].balance <= Sum(T, held(list[i].owner))
            /\ \A o \in holders \ listed : \A a \in held(o), i \in DOMAIN list : T[a].balance <= list[i].balance
            /\ Cardinality(accounts) <= FetchLimit(r) =>
                 /\ Len(list) = Least(LimitOf(r), Cardinality(holders))
                 /\ \A i \in DOMAIN list : list[i].balance = Sum(T, held(list[i].owner))
                 /\ \A o \in holders \ listed, i \in DOMAIN list : Sum(T, held(o)) <= list[i].balance
=============================================================================
