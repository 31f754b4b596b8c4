------------------------------- MODULE LockCache -------------------------------
(***************************************************************************)
(* The query service's cache (internal/pkg/db/db_lockcache.go) with the    *)
(* callers it is written for (internal/query): one shard of LockCache,     *)
(* the goroutines that serve requests, and the cleanup goroutine.          *)
(*                                                                         *)
(* A query either wraps one key's database read in LockCache.Do ("query":  *)
(* by owner, by token, holder count, top holders, events by pool), or asks *)
(* for many keys, reads the cached ones by DoRead, the others by one       *)
(* statement, and puts what it read by Do with skipRead ("accounts":       *)
(* balances by accounts, "pools": pools by addresses).                     *)
(*                                                                         *)
(* The database is reduced to a version per key, which other processes     *)
(* raise; version 0 is an empty result.  Time is in seconds, as validAt.   *)
(*                                                                         *)
(* The entry's lock is not a variable: Reading and Locking say which       *)
(* goroutines are inside it.                                               *)
(***************************************************************************)
EXTENDS Integers, FiniteSets

CONSTANTS Clients,      \* goroutines that serve requests, one at a time each
          Keys,         \* keys of the shard
          Entries,      \* identities of Entry objects
          None,         \* no entry, no result
          Requests,     \* what may be asked: <<kind of query, goroutine, keys>>
          MaxSize,      \* shard.maxSize
          TTL, EmptyTTL,\* how long a result, an empty result is valid
          MaxTime,      \* bound: the last second
          MaxVersion    \* bound: updates of a key in the database

ASSUME ClientsAssumption == IsFiniteSet(Clients) /\ "sweeper" \notin Clients
ASSUME SizeAssumption == MaxSize \in Nat \ {0}
ASSUME TimesAssumption == /\ TTL \in Nat /\ EmptyTTL \in Nat /\ EmptyTTL <= TTL
                          /\ MaxTime \in Nat \ {0} /\ MaxVersion \in Nat
ASSUME RequestsAssumption ==
  /\ Requests \subseteq {"query", "accounts", "pools"} \X Clients \X SUBSET Keys
  /\ \A r \in Requests : r[3] # {} /\ (r[1] = "query" => \E k \in Keys : r[3] = {k})

VARIABLES now,          \* time.Now().Unix()
          table,        \* version of each key in the database
          api,          \* the kind of query this cache serves
          slot,         \* shard.entries: the entry of a key, or None
          entry,        \* the Entry objects
          client,       \* the goroutines
          expired,      \* expiredKeys of each goroutine in cleanupExpired
          newest,       \* history: newest version a request has been answered with
          orphaned      \* history: keys whose entry was removed under a goroutine

vars == <<now, table, api, slot, entry, client, expired, newest, orphaned>>

Sweeper == "sweeper"    \* the goroutine of startAutoCleanup
Apis == {r[1] : r \in Requests}
Versions == 0 .. MaxVersion

\* A result: its version, with two facts for the properties: was it read from the
\* database after the request that stored it had begun, and when was it stored?
Results == [version : Versions, own : BOOLEAN, stored : 1 .. MaxTime]
ASSUME NoneAssumption == None \notin Entries \union Keys \union Results

TtlOneLonger(version) == TTL + 1                       \* faulty variant
Ttl(version) == IF version = 0 THEN EmptyTTL ELSE TTL

Blank == [result |-> None, validAt |-> 0, inUse |-> 0]
NoAnswers == [k \in Keys |-> None]
Idle == [pc |-> "idle", keys |-> {}, todo |-> {}, key |-> None, at |-> None,
         got |-> NoAnswers, failed |-> FALSE,
         since |-> [time |-> 1, table |-> [k \in Keys |-> 0], newest |-> [k \in Keys |-> 0]]]

-----------------------------------------------------------------------------
Init == /\ now = 1
        /\ table = [k \in Keys |-> 0]
        /\ api \in Apis
        /\ slot = [k \in Keys |-> None]
        /\ entry = [e \in Entries |-> Blank]
        /\ client = [c \in Clients |-> Idle]
        /\ expired = [p \in Clients \union {Sweeper} |-> {}]
        /\ newest = [k \in Keys |-> 0]
        /\ orphaned = {}

\* The environment: seconds pass, and the ingest service writes rows.
Tick == /\ now < MaxTime
        /\ now' = now + 1
        /\ UNCHANGED <<table, api, slot, entry, client, expired, newest, orphaned>>

Update(k) == /\ table[k] < MaxVersion
             /\ table' = [table EXCEPT ![k] = @ + 1]
             /\ UNCHANGED <<now, api, slot, entry, client, expired, newest, orphaned>>

-----------------------------------------------------------------------------
IsExpiredLate(e) == now > entry[e].validAt + 1        \* faulty variant
IsExpired(e) == now > entry[e].validAt

\* The test that each fn makes of the entry it is given.
Usable(e) == ~IsExpired(e) /\ entry[e].result # None

Count == Cardinality({k \in Keys : slot[k] # None})   \* len(s.entries)

\* The goroutines inside the entry's read lock, and inside its write lock.
Reading(e) == {c \in Clients : client[c].at = e /\ client[c].pc = "ready"}
Locking(e) == {c \in Clients : client[c].at = e /\ client[c].pc \in {"fetch", "store"}}

\* A fresh object: neither in the map nor held by a goroutine.
Free == {e \in Entries : /\ \A k \in Keys : slot[k] # e
                         /\ \A c \in Clients : client[c].at # e}

\* Goroutine c goes on as the record r says, and touches nothing else.
Step(c, r) == /\ client' = [client EXCEPT ![c] = r]
              /\ UNCHANGED <<now, table, api, slot, expired, newest, orphaned>>

Used(e, n) == [entry EXCEPT ![e].inUse = @ + n]

\* The request is over: with its answers, or with an error.
Done(c, got, failed) == [client[c] EXCEPT !.pc = "done", !.key = None, !.at = None,
                                          !.todo = {}, !.got = got, !.failed = failed]

Fresh(k) == [version |-> table[k], own |-> TRUE, stored |-> now]

\* A function on the requested keys, zero elsewhere.
On(keys, f) == [k \in Keys |-> IF k \in keys THEN f[k] ELSE 0]

-----------------------------------------------------------------------------
\* A request arrives, for one key or for several.
Call(c, keys) ==
  /\ client[c].pc = "idle" /\ <<api, c, keys>> \in Requests
  /\ Step(c, [client[c] EXCEPT !.pc = IF api = "query" THEN "next" ELSE "read",
                               !.keys = keys, !.todo = keys,
                               !.since = [time |-> now, table |-> On(keys, table), newest |-> On(keys, newest)]])
  /\ UNCHANGED entry

Return(c) ==
  /\ client[c].pc = "done"
  /\ client' = [client EXCEPT ![c] = Idle]
  /\ newest' = [k \in Keys |-> IF /\ api = "query" /\ k \in client[c].keys /\ ~client[c].failed
                                  /\ client[c].got[k].version > newest[k]
                               THEN client[c].got[k].version ELSE newest[k]]
  /\ UNCHANGED <<now, table, api, slot, entry, expired, orphaned>>

-----------------------------------------------------------------------------
(* LockCache.DoRead, called for each key of a batch.                        *)

\* The read of a key is over: read the next key, select what is missing, or answer.
NextRead(c, got) ==
  LET rest == client[c].todo \ {client[c].key}
  IN  IF rest = {} /\ \A k \in client[c].keys : got[k] # None
      THEN Done(c, got, FALSE)
      ELSE [client[c] EXCEPT !.pc = IF rest = {} THEN "select" ELSE "read", !.key = None,
                             !.at = None, !.todo = rest, !.got = got]

Found(c) == client[c].at # None /\ ~IsExpired(client[c].at)

Peek(c, k) ==
  /\ client[c].pc = "read" /\ k \in client[c].todo
  /\ Step(c, [client[c] EXCEPT !.pc = "peek", !.key = k, !.at = slot[k]])
  /\ UNCHANGED entry

PeekMiss(c) ==
  /\ client[c].pc = "peek" /\ ~Found(c)
  /\ Step(c, NextRead(c, client[c].got))
  /\ UNCHANGED entry

PeekHit(c) ==
  /\ client[c].pc = "peek" /\ Found(c)
  /\ Step(c, [client[c] EXCEPT !.pc = "copy"])
  /\ entry' = Used(client[c].at, 1)

Copy(c) ==
  /\ client[c].pc = "copy"
  /\ Step(c, NextRead(c, [client[c].got EXCEPT ![client[c].key] = entry[client[c].at].result]))
  /\ entry' = Used(client[c].at, -1)

-----------------------------------------------------------------------------
(* The statement of a batch, and what it puts into the cache.               *)

\* Rows of the keys in arrived have been read when the iteration ends; it ends
\* with an error unless all have.
PutAll(c, got, arrived) ==
  LET missing == {k \in client[c].keys : client[c].got[k] = None}
      rows    == {k \in arrived : got[k].version > 0}
  IN  IF api = "accounts" THEN rows
      ELSE rows \union (client[c].keys \ missing)
                \union (IF arrived = missing THEN missing ELSE {})

Select(c) ==
  LET missing == {k \in client[c].keys : client[c].got[k] = None}
  IN  /\ client[c].pc = "select"
      /\ \E arrived \in SUBSET missing :
           LET got == [k \in Keys |-> IF k \in arrived THEN Fresh(k) ELSE client[c].got[k]]
               put == PutAll(c, got, arrived)
           IN  Step(c, IF put = {} THEN Done(c, got, arrived # missing)
                       ELSE [client[c] EXCEPT !.pc = "next", !.todo = put, !.got = got,
                                              !.failed = arrived # missing])
      /\ UNCHANGED entry

SelectFails(c) ==
  /\ client[c].pc = "select"
  /\ Step(c, Done(c, client[c].got, TRUE))
  /\ UNCHANGED entry

-----------------------------------------------------------------------------
(* LockCache.Do                                                             *)

At(c, e, pc) == [client[c] EXCEPT !.at = e, !.pc = pc]

AfterEnter == IF api = "query" THEN "check" ELSE "lock"    \* skipRead

\* The map is read under RLock; a miss in a full shard cleans up first.
Lookup(c, k) ==
  /\ client[c].pc = "next" /\ k \in client[c].todo
  /\ Step(c, [client[c] EXCEPT !.key = k, !.at = slot[k],
                               !.pc = IF slot[k] # None THEN "enter"
                                      ELSE IF Count >= MaxSize THEN "scan" ELSE "create"])
  /\ UNCHANGED entry

LookupAgain(c) ==
  /\ client[c].pc = "again"
  /\ LET e == slot[client[c].key]
     IN  Step(c, At(c, e, IF e # None THEN "enter" ELSE "create"))
  /\ UNCHANGED entry

\* The hit path counts itself in without the shard's lock.
Enter(c) ==
  /\ client[c].pc = "enter"
  /\ Step(c, At(c, client[c].at, AfterEnter))
  /\ entry' = Used(client[c].at, 1)

\* Faulty variant: only the goroutine that creates the entry is counted.
CountCreator(e, k, n) ==
  IF e = slot[k] THEN entry ELSE [entry EXCEPT ![e] = [Blank EXCEPT !.inUse = n]]
NewEntry(e, k, n) ==
  IF e = slot[k] THEN Used(e, n) ELSE [entry EXCEPT ![e] = [Blank EXCEPT !.inUse = n]]

Install(c, e) ==
  /\ client' = [client EXCEPT ![c] = At(c, e, AfterEnter)]
  /\ slot' = [slot EXCEPT ![client[c].key] = e]
  /\ entry' = NewEntry(e, client[c].key, 1)
  /\ UNCHANGED <<now, table, api, expired, newest, orphaned>>

\* Under the shard's lock: the entry another goroutine has created meanwhile,
\* or a new one.
CreateBlindly(c) ==                                        \* faulty variant
  /\ client[c].pc = "create"
  /\ Free # {} /\ Install(c, CHOOSE e \in Free : TRUE)

Create(c) ==
  /\ client[c].pc = "create"
  /\ IF slot[client[c].key] # None THEN Install(c, slot[client[c].key])
     ELSE Free # {} /\ Install(c, CHOOSE e \in Free : TRUE)

\* Under the entry's read lock: is there anything to read?
CheckNothing(c) ==                                     \* faulty variant
  /\ client[c].pc = "check" /\ Locking(client[c].at) = {}
  /\ Step(c, At(c, client[c].at, "ready"))
  /\ UNCHANGED entry

Check(c) ==
  /\ client[c].pc = "check" /\ Locking(client[c].at) = {}
  /\ Step(c, At(c, client[c].at, IF IsExpired(client[c].at) THEN "lock" ELSE "ready"))
  /\ UNCHANGED entry

\* Still there, fn(e, onlyReady) asks again.  Its answer is dropped and read once
\* more under the write lock; its error is the answer.
Ready(c) ==
  /\ client[c].pc = "ready" /\ Usable(client[c].at)
  /\ Step(c, At(c, client[c].at, "lock"))
  /\ UNCHANGED entry

NotReady(c) ==
  /\ client[c].pc = "ready" /\ ~Usable(client[c].at)
  /\ Step(c, Done(c, client[c].got, TRUE))
  /\ entry' = Used(client[c].at, -1)

\* Under the entry's write lock, fn(e, false): the result if it is valid, or a
\* database read.
LockShared(c) == client[c].pc = "lock"                  \* faulty variant
CanLock(c) == /\ client[c].pc = "lock"
              /\ Locking(client[c].at) = {} /\ Reading(client[c].at) = {}

FillHit(c) ==
  /\ CanLock(c) /\ api = "query" /\ Usable(client[c].at)
  /\ Step(c, Done(c, [client[c].got EXCEPT ![client[c].key] = entry[client[c].at].result], FALSE))
  /\ entry' = Used(client[c].at, -1)

FillMiss(c) ==
  /\ CanLock(c) /\ api = "query" /\ ~Usable(client[c].at)
  /\ Step(c, At(c, client[c].at, "fetch"))
  /\ UNCHANGED entry

Fetch(c) ==
  /\ client[c].pc = "fetch"
  /\ Step(c, [client[c] EXCEPT !.pc = "store", !.got[client[c].key] = Fresh(client[c].key)])
  /\ UNCHANGED entry

FetchFails(c) ==
  /\ client[c].pc = "fetch"
  /\ Step(c, Done(c, client[c].got, TRUE))
  /\ entry' = Used(client[c].at, -1)

\* e.Result = ..., e.SetValidAt(time.Now().Add(ttl)), and the deferred release.
Stored(c, result) ==
  [entry EXCEPT ![client[c].at] =
     [result  |-> [version |-> result.version, stored |-> now,
                  own |-> result.version >= client[c].since.table[client[c].key]],
      validAt |-> now + Ttl(result.version),
      inUse   |-> @.inUse - 1]]

Store(c) ==
  /\ client[c].pc = "store"
  /\ Step(c, Done(c, client[c].got, FALSE))
  /\ entry' = Stored(c, client[c].got[client[c].key])

Put(c) ==
  /\ CanLock(c) /\ api # "query"
  /\ LET rest == client[c].todo \ {client[c].key}
     IN  Step(c, IF rest = {} THEN Done(c, client[c].got, client[c].failed)
                 ELSE [client[c] EXCEPT !.pc = "next", !.key = None, !.at = None, !.todo = rest])
  /\ entry' = Stored(c, client[c].got[client[c].key])

-----------------------------------------------------------------------------
(* cleanupExpired, by the background goroutine or by a miss in a full shard. *)

Goto(p, pc) == IF p = Sweeper THEN client ELSE [client EXCEPT ![p].pc = pc]

\* Under RLock: which entries are unused and expired?
Stale == {k \in Keys : /\ slot[k] # None
                       /\ entry[slot[k]].inUse = 0 /\ IsExpired(slot[k])}

Scan(p) ==
  /\ IF p = Sweeper THEN expired[p] = {} ELSE client[p].pc = "scan"
  /\ LET found == IF Count >= MaxSize \div 2 THEN Stale ELSE {}
     IN  /\ p = Sweeper => found # {}
         /\ expired' = [expired EXCEPT ![p] = found]
         /\ client' = Goto(p, IF found = {} THEN "again" ELSE "delete")
  /\ UNCHANGED <<now, table, api, slot, entry, newest, orphaned>>

\* Under the lock, with no second look at the entries.
Delete(p) ==
  /\ expired[p] # {}
  /\ IF Count >= MaxSize \div 2
     THEN LET removed == {k \in expired[p] : slot[k] # None}
              held(e) == \E c \in Clients : client[c].at = e
          IN  /\ slot' = [k \in Keys |-> IF k \in removed THEN None ELSE slot[k]]
              /\ orphaned' = orphaned \union {k \in removed : held(slot[k])}
              /\ entry' = [e \in Entries |-> IF ~held(e) /\ (\E k \in removed : e = slot[k])
                                             THEN Blank ELSE entry[e]]    \* garbage
     ELSE UNCHANGED <<slot, orphaned, entry>>
  /\ expired' = [expired EXCEPT ![p] = {}]
  /\ client' = Goto(p, "again")
  /\ UNCHANGED <<now, table, api, newest>>

-----------------------------------------------------------------------------
DoStep(c) == \/ \E k \in Keys : Lookup(c, k)
             \/ LookupAgain(c) \/ Enter(c) \/ Create(c) \/ Check(c) \/ Ready(c) \/ NotReady(c)
             \/ FillHit(c) \/ FillMiss(c) \/ Fetch(c) \/ FetchFails(c) \/ Store(c) \/ Put(c)

ReadStep(c) == \/ \E k \in Keys : Peek(c, k)
               \/ PeekMiss(c) \/ PeekHit(c) \/ Copy(c) \/ Select(c) \/ SelectFails(c)

ClientStep(c) == DoStep(c) \/ ReadStep(c) \/ Return(c) \/ Scan(c) \/ Delete(c)

Next == \/ Tick
        \/ \E k \in Keys : Update(k)
        \/ \E c \in Clients, keys \in SUBSET Keys : Call(c, keys)
        \/ \E c \in Clients : ClientStep(c)
        \/ Scan(Sweeper) \/ Delete(Sweeper)

Spec == Init /\ [][Next]_vars

-----------------------------------------------------------------------------
Records == [pc : {"idle", "next", "scan", "delete", "again", "enter", "create", "check", "ready",
                  "lock", "fetch", "store", "read", "peek", "copy", "select", "done"},
            keys : SUBSET Keys, todo : SUBSET Keys,
            key : Keys \union {None}, at : Entries \union {None},
            got : [Keys -> Results \union {None}], failed : BOOLEAN,
            since : [time : 1 .. MaxTime, table : [Keys -> Versions], newest : [Keys -> Versions]]]

TypeOK ==
  /\ now \in 1 .. MaxTime /\ table \in [Keys -> Versions] /\ api \in Apis
  /\ slot \in [Keys -> Entries \union {None}]
  /\ entry \in [Entries -> [result : Results \union {None}, validAt : 0 .. MaxTime + TTL, inUse : Int]]
  /\ client \in [Clients -> Records]
  /\ expired \in [Clients \union {Sweeper} -> SUBSET Keys]
  /\ newest \in [Keys -> Versions] /\ orphaned \in SUBSET Keys

\* inUse is the number of goroutines that use the entry: what the cleanup relies on
\* (db_lockcache.go:78, 121, 128, 177).
InUse(e) == {c \in Clients : /\ client[c].at = e
                             /\ client[c].pc \in {"check", "ready", "lock", "fetch", "store", "copy"}}
UseCounted == \A e \in Entries : entry[e].inUse = Cardinality(InUse(e))

\* Requests for one key share one database read, but for a key whose entry the
\* cleanup has taken from a goroutine that had looked it up.
OneReadPerKey ==
  \A c, d \in Clients : /\ c # d
                        /\ client[c].pc \in {"fetch", "store"} /\ client[d].pc \in {"fetch", "store"}
                        /\ client[c].key = client[d].key
                        => client[c].key \in orphaned

\* An answer was read from the database in this very request, or by one that stored
\* it at most a TTL before this one began; it is no older than the table was when
\* the storing request began, but for the pools query, which puts cached answers back
\* (query_by_addresses.go:107): there only the time of the last put counts.
AnswersFresh ==
  \A c \in Clients : client[c].pc = "done" /\ ~client[c].failed =>
    \A k \in client[c].keys :
      LET answer == client[c].got[k]
      IN  /\ api = "pools" \/ answer.own
          /\ client[c].since.time <= answer.stored + Ttl(answer.version)

\* A client never goes back in time: the answer to a request is not older than that of
\* a request that had ended before it began.
GoesBack(c, k) == /\ client[c].pc = "done" /\ ~client[c].failed /\ k \in client[c].keys
                  /\ client[c].got[k].version < client[c].since.newest[k]

AnswersMonotone == \A c \in Clients, k \in Keys :
                     api = "query" /\ k \notin orphaned => ~GoesBack(c, k)

\* The comment on the hit path says that losing its entry to the cleanup costs one
\* more request and nothing else (db_lockcache.go:124): answers would still not go back.
OnlyOneMoreRequest == \A c \in Clients, k \in Keys : api = "query" => ~GoesBack(c, k)

\* A request fails only if its database read does, or if the result it found
\* expired while it was looking at it.
FailsOnlyOnExpiry == [][\A c \in Clients : NotReady(c) => now > client[c].since.time]_vars
=============================================================================
