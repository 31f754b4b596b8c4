---------------------------- MODULE LockCacheProofs ----------------------------
(***************************************************************************)
(* Theorems about LockCache, for all keys, goroutines, requests, sizes and *)
(* bounds.                                                                 *)
(***************************************************************************)
EXTENDS LockCache, FiniteSetTheorems, TLAPS

-----------------------------------------------------------------------------
(* What a goroutine knows at each point of its request.                     *)

\* Looking for the entry of its key; and with it.
Searching == {"scan", "delete", "again", "create"}
Holding == {"enter", "check", "ready", "lock", "fetch", "store", "copy"}

Shape(c) ==
  /\ client[c].todo \subseteq client[c].keys
  /\ client[c].pc \in {"idle", "next", "read", "select", "done"} \union Searching => client[c].at = None
  /\ client[c].pc \in Holding => client[c].at # None
  /\ client[c].pc \in {"idle", "next", "read", "select", "done"} => client[c].key = None
  /\ client[c].pc \in Searching \union Holding \union {"peek"} =>
       client[c].key # None /\ client[c].key \in client[c].todo
  /\ client[c].pc # "idle" => <<api, c, client[c].keys>> \in Requests
  /\ client[c].pc = "idle" => \A k \in Keys : client[c].got[k] = None
  /\ client[c].pc \in {"read", "peek", "copy", "select"} => api # "query"
  /\ client[c].pc \in {"check", "ready", "fetch", "store"} => api = "query"
  /\ expired[c] # {} => client[c].pc = "delete"

\* What is put or stored has been read before, and is complete unless reading failed.
Putting(c) ==
  api # "query" /\ client[c].pc \in {"next", "enter", "lock"} \union Searching =>
    /\ \A k \in client[c].todo : /\ client[c].got[k] # None
                                 /\ api = "accounts" =>
                                      client[c].got[k].version >= client[c].since.table[k]
    /\ ~client[c].failed => \A k \in client[c].keys : client[c].got[k] # None

Storing(c) ==
  client[c].pc = "store" => LET k == client[c].key
                            IN  /\ client[c].got[k] # None
                                /\ client[c].got[k].version >= client[c].since.table[k]

Complete(c) == client[c].pc = "done" /\ ~client[c].failed =>
                 \A k \in client[c].keys : client[c].got[k] # None

Known(c) == \A k \in Keys : client[c].got[k] # None =>
              LET answer == client[c].got[k]
              IN  /\ api # "pools" => answer.own
                  /\ client[c].since.time <= answer.stored + Ttl(answer.version)

Since(c) == /\ client[c].since.time <= now
            /\ \A k \in Keys : /\ client[c].since.table[k] <= table[k]
                               /\ client[c].since.newest[k] <= newest[k]

Request(c) == Shape(c) /\ Putting(c) /\ Storing(c) /\ Complete(c) /\ Known(c) /\ Since(c)
RequestOK == \A c \in Clients : Request(c)

EntryOK == \A e \in Entries :
             IF entry[e].result = None THEN entry[e].validAt = 0
             ELSE /\ entry[e].validAt = entry[e].result.stored + Ttl(entry[e].result.version)
                  /\ api # "pools" => entry[e].result.own

Static == TypeOK /\ RequestOK /\ EntryOK

USE SizeAssumption, TimesAssumption, NoneAssumption, RequestsAssumption, ClientsAssumption

-----------------------------------------------------------------------------
(* Types.                                                                   *)

\* Every step of a goroutine replaces its record by another one.
LEMMA RecordTypes ==
  ASSUME TypeOK, NEW c \in Clients
  PROVE  /\ client[c] \in Records
         /\ \A e \in Entries \union {None}, pc \in {"again", "enter", "create", "check", "ready", "lock", "fetch", "delete"} :
              At(c, e, pc) \in Records
         /\ \A got \in [Keys -> Results \union {None}], failed \in BOOLEAN :
              /\ Done(c, got, failed) \in Records
              /\ NextRead(c, got) \in Records
<1>1. client[c] \in Records
  BY DEF TypeOK
<1>2. ASSUME NEW e \in Entries \union {None},
             NEW pc \in {"again", "enter", "create", "check", "ready", "lock", "fetch", "delete"}
      PROVE  At(c, e, pc) \in Records
  BY <1>1 DEF At, Records
<1>3. ASSUME NEW got \in [Keys -> Results \union {None}], NEW failed \in BOOLEAN
      PROVE  Done(c, got, failed) \in Records /\ NextRead(c, got) \in Records
  <2>1. ASSUME NEW f \in BOOLEAN PROVE Done(c, got, f) \in Records
    BY <1>1 DEF Done, Records
  <2>2. ASSUME NEW pc \in {"select", "read"}, NEW rest \in SUBSET Keys
        PROVE  [client[c] EXCEPT !.pc = pc, !.key = None, !.at = None, !.todo = rest, !.got = got] \in Records
    BY <1>1 DEF Records
  <2>3. client[c].todo \ {client[c].key} \in SUBSET Keys
    BY <1>1 DEF Records
  <2> QED BY <2>1, <2>2, <2>3 DEF NextRead
<1> QED BY <1>1, <1>2, <1>3

LEMMA TtlType == \A v \in Versions : Ttl(v) \in Nat /\ Ttl(v) <= TTL
BY DEF Ttl, Versions

LEMMA FreshType ==
  ASSUME TypeOK, NEW k \in Keys
  PROVE  /\ Fresh(k) \in Results /\ Fresh(k).own /\ Fresh(k).version = table[k]
         /\ Fresh(k).stored = now /\ Ttl(Fresh(k).version) \in Nat
<1>1. table[k] \in Versions
  BY DEF TypeOK
<1> QED BY <1>1, TtlType DEF TypeOK, Fresh, Results

LEMMA StepType ==
  ASSUME TypeOK, NEW c \in Clients, NEW r \in Records, Step(c, r),
         entry' \in [Entries -> [result : Results \union {None}, validAt : 0 .. MaxTime + TTL, inUse : Int]]
  PROVE  TypeOK'
BY DEF TypeOK, Step

LEMMA UsedType ==
  ASSUME TypeOK, NEW e \in Entries, NEW n \in Int
  PROVE  Used(e, n) \in [Entries -> [result : Results \union {None}, validAt : 0 .. MaxTime + TTL, inUse : Int]]
BY DEF TypeOK, Used

LEMMA StoredType ==
  ASSUME TypeOK, NEW c \in Clients, client[c].at \in Entries, client[c].key \in Keys, NEW r \in Results
  PROVE  Stored(c, r) \in [Entries -> [result : Results \union {None}, validAt : 0 .. MaxTime + TTL, inUse : Int]]
<1>1. [version |-> r.version, stored |-> now, own |-> r.version >= client[c].since.table[client[c].key]] \in Results
  BY DEF TypeOK, Results
<1>2. now + Ttl(r.version) \in 0 .. MaxTime + TTL
  BY TtlType DEF TypeOK, Results
<1> QED BY <1>1, <1>2 DEF TypeOK, Stored

-----------------------------------------------------------------------------
(* Requests and entries, step by step.                                      *)

\* A goroutine that does not move keeps what it knows while the clock, the rows and
\* the answers go on.
LEMMA OthersKeep ==
  ASSUME TypeOK, TypeOK', NEW d \in Clients, Request(d), client'[d] = client[d], api' = api,
         expired'[d] = {} \/ expired'[d] = expired[d], now <= now',
         \A k \in Keys : table[k] <= table'[k] /\ newest[k] <= newest'[k]
  PROVE  Request(d)'
<1>1. Shape(d)' /\ Putting(d)' /\ Storing(d)' /\ Complete(d)'
  BY DEF Request, Shape, Putting, Storing, Complete, Searching, Holding
<1>2. client[d] \in Records /\ now \in Nat /\ now' \in Nat
      /\ \A k \in Keys : /\ table[k] \in Int /\ table'[k] \in Int
                         /\ newest[k] \in Int /\ newest'[k] \in Int
  BY DEF TypeOK, Versions
<1>3. Known(d)'
  BY <1>2 DEF Request, Known, Records, Results, Versions, Ttl
<1>4. Since(d)'
  BY <1>2 DEF Request, Since, Records, Versions
<1> QED BY <1>1, <1>3, <1>4 DEF Request

LEMMA StepRequest ==
  ASSUME Static, TypeOK', NEW c \in Clients, NEW r \in Records, Step(c, r),
         Request(c)'
  PROVE  RequestOK'
<1> SUFFICES ASSUME NEW d \in Clients, d # c PROVE Request(d)'
  BY DEF RequestOK
<1>1. client'[d] = client[d] /\ UNCHANGED <<api, expired, now, table, newest>>
  BY DEF Step, Static, TypeOK
<1>2. Request(d) /\ TypeOK
  BY DEF Static, RequestOK
<1> QED BY <1>1, <1>2, OthersKeep DEF TypeOK, Versions

\* The record of the goroutine after a step.
LEMMA Stepped ==
  ASSUME TypeOK, NEW c \in Clients, NEW r, Step(c, r)
  PROVE  client'[c] = r /\ UNCHANGED <<now, table, api, slot, expired, newest, orphaned>>
BY DEF TypeOK, Step

\* A step that only takes the goroutine to another place or entry.
LEMMA MoveRequest ==
  ASSUME Static, TypeOK', NEW c \in Clients, NEW e, NEW pc, At(c, e, pc) \in Records,
         Step(c, At(c, e, pc)), Shape(c)',
         pc \in {"enter", "lock"} \union Searching => client[c].pc \in {"enter", "check", "ready", "lock"} \union Searching,
         client[c].pc \in {"check", "ready"} => api = "query",
         pc \notin {"next", "store", "done"}
  PROVE  RequestOK'
<1>1. client'[c] = At(c, e, pc) /\ UNCHANGED <<now, table, api, expired, newest>>
  BY Stepped DEF Static
<1>2. client[c] \in Records /\ Request(c)
  BY DEF Static, TypeOK, RequestOK
<1>3. /\ client'[c].pc = pc /\ client'[c].todo = client[c].todo /\ client'[c].keys = client[c].keys
      /\ client'[c].got = client[c].got /\ client'[c].failed = client[c].failed
      /\ client'[c].since = client[c].since
  BY <1>1, <1>2 DEF At, Records
<1>4. Putting(c)'
  <2> SUFFICES ASSUME api # "query", pc \in {"enter", "lock"} \union Searching \union {"next"}
               PROVE  Putting(c)'
    BY <1>1, <1>3 DEF Putting
  <2>1. client[c].pc \in {"next", "enter", "lock"} \union Searching
    BY DEF Searching
  <2> QED BY <1>1, <1>2, <1>3, <2>1 DEF Request, Putting
<1>5. Storing(c)' /\ Complete(c)'
  BY <1>3 DEF Storing, Complete
<1>6. Known(c)' /\ Since(c)'
  BY <1>1, <1>2, <1>3 DEF Request, Known, Since, Ttl
<1> QED BY <1>4, <1>5, <1>6, StepRequest DEF Request

LEMMA SameEntries ==
  ASSUME Static, UNCHANGED <<entry, api>>
  PROVE  /\ EntryOK'
         /\ entry' \in [Entries -> [result : Results \union {None}, validAt : 0 .. MaxTime + TTL, inUse : Int]]
BY DEF Static, EntryOK, TypeOK, Ttl

LEMMA UsedEntries ==
  ASSUME Static, NEW e \in Entries, NEW n \in Int, entry' = Used(e, n), api' = api
  PROVE  /\ EntryOK'
         /\ entry' \in [Entries -> [result : Results \union {None}, validAt : 0 .. MaxTime + TTL, inUse : Int]]
<1>1. \A f \in Entries : entry'[f].result = entry[f].result /\ entry'[f].validAt = entry[f].validAt
  BY DEF Static, TypeOK, Used
<1>2. EntryOK'
  BY <1>1 DEF Static, EntryOK, Ttl
<1> QED BY <1>2, UsedType DEF Static

LEMMA StoredEntries ==
  ASSUME Static, NEW c \in Clients, client[c].at \in Entries, client[c].key \in Keys,
         NEW r \in Results, entry' = Stored(c, r), api' = api,
         api # "pools" => r.version >= client[c].since.table[client[c].key]
  PROVE  /\ EntryOK'
         /\ entry' \in [Entries -> [result : Results \union {None}, validAt : 0 .. MaxTime + TTL, inUse : Int]]
<1> DEFINE e == client[c].at
           s == [version |-> r.version, stored |-> now,
                 own |-> r.version >= client[c].since.table[client[c].key]]
<1>1. /\ entry'[e].result = s /\ entry'[e].validAt = now + Ttl(r.version)
      /\ \A f \in Entries \ {e} : entry'[f] = entry[f]
  BY DEF Static, TypeOK, Stored
<1>2. s # None
  <2>1. s \in Results
    BY DEF Static, TypeOK, Results
  <2> QED BY <2>1
<1>3. EntryOK'
  <2> SUFFICES ASSUME NEW f \in Entries
               PROVE  IF entry'[f].result = None THEN entry'[f].validAt = 0
                      ELSE /\ entry'[f].validAt = entry'[f].result.stored + Ttl(entry'[f].result.version)
                           /\ api # "pools" => entry'[f].result.own
    BY DEF EntryOK
  <2>1. CASE f # e
    BY <2>1, <1>1 DEF Static, EntryOK
  <2>2. CASE f = e
    <3>1. s.version = r.version /\ s.stored = now /\ s.own = (r.version >= client[c].since.table[client[c].key])
      OBVIOUS
    <3>2. entry'[f].result = s /\ entry'[f].validAt = now + Ttl(r.version)
      BY <1>1, <2>2
    <3> HIDE DEF s
    <3> QED BY <1>2, <3>1, <3>2
  <2> QED BY <2>1, <2>2
<1> QED BY <1>3, StoredType DEF Static

\* What the two lemmas above leave to show of a step that does not touch an entry's result.
LEMMA StaticStep ==
  ASSUME Static, NEW c \in Clients, NEW r \in Records, Step(c, r),
         UNCHANGED entry \/ \E e \in Entries, n \in Int : entry' = Used(e, n),
         Request(c)'
  PROVE  Static'
<1>1. api' = api
  BY DEF Step
<1>2. /\ EntryOK'
      /\ entry' \in [Entries -> [result : Results \union {None}, validAt : 0 .. MaxTime + TTL, inUse : Int]]
  BY <1>1, SameEntries, UsedEntries
<1>3. TypeOK'
  BY <1>2, StepType DEF Static
<1> QED BY <1>2, <1>3, StepRequest DEF Static

\* Moves: the goroutine goes to a place or entry, and knows what it knew.
LEMMA StaticMove ==
  ASSUME Static, NEW c \in Clients, NEW e, NEW pc, At(c, e, pc) \in Records,
         Step(c, At(c, e, pc)),
         UNCHANGED entry \/ \E f \in Entries, n \in Int : entry' = Used(f, n),
         Shape(c)',
         pc \in {"enter", "lock"} \union Searching => client[c].pc \in {"enter", "check", "ready", "lock"} \union Searching,
         client[c].pc \in {"check", "ready"} => api = "query",
         pc \notin {"next", "store", "done"}
  PROVE  Static'
<1>1. api' = api
  BY DEF Step
<1>2. /\ EntryOK'
      /\ entry' \in [Entries -> [result : Results \union {None}, validAt : 0 .. MaxTime + TTL, inUse : Int]]
  BY <1>1, SameEntries, UsedEntries
<1>3. TypeOK'
  BY <1>2, StepType DEF Static
<1> QED BY <1>2, <1>3, MoveRequest DEF Static

LEMMA DoMoves ==
  ASSUME Static, NEW c \in Clients,
         LookupAgain(c) \/ Enter(c) \/ Check(c) \/ Ready(c) \/ FillMiss(c)
  PROVE  Static'
<1> USE DEF Searching, Holding
<1>1. client[c] \in Records /\ Shape(c)
  BY DEF Static, TypeOK, RequestOK, Request
<1>2. ASSUME NEW e, NEW pc, At(c, e, pc) \in Records, Step(c, At(c, e, pc))
      PROVE  /\ client'[c].pc = pc /\ client'[c].at = e /\ UNCHANGED <<api, expired>>
             /\ client'[c].key = client[c].key /\ client'[c].todo = client[c].todo
             /\ client'[c].keys = client[c].keys
  <2>1. client'[c] = At(c, e, pc) /\ UNCHANGED <<api, expired>>
    BY <1>2, Stepped DEF Static
  <2>2. At(c, e, pc).pc = pc /\ At(c, e, pc).at = e /\ At(c, e, pc).key = client[c].key
        /\ At(c, e, pc).todo = client[c].todo /\ At(c, e, pc).keys = client[c].keys
    BY <1>1 DEF At, Records
  <2> QED BY <2>1, <2>2
<1>3. CASE LookupAgain(c)
  <2> DEFINE e == slot[client[c].key]
             pc == IF e # None THEN "enter" ELSE "create"
  <2>1. client[c].pc = "again" /\ client[c].key \in Keys /\ client[c].key \in client[c].todo
    BY <1>1, <1>3 DEF LookupAgain, Shape, Records
  <2>2. e \in Entries \union {None} /\ At(c, e, pc) \in Records /\ Step(c, At(c, e, pc))
    BY <1>3, <2>1, RecordTypes DEF LookupAgain, Static, TypeOK
  <2>3. Shape(c)'
    BY <1>1, <1>2, <2>1, <2>2, NoneAssumption DEF Shape
  <2> QED BY <1>3, <2>1, <2>2, <2>3, StaticMove DEF LookupAgain
<1>4. CASE Enter(c)
  <2>1. client[c].pc = "enter" /\ client[c].at \in Entries /\ client[c].key \in client[c].todo
    BY <1>1, <1>4 DEF Enter, Shape, Records
  <2>2. AfterEnter \in {"check", "lock"} /\ (AfterEnter = "check" => api = "query")
    BY DEF AfterEnter
  <2>3. At(c, client[c].at, AfterEnter) \in Records /\ Step(c, At(c, client[c].at, AfterEnter))
        /\ entry' = Used(client[c].at, 1)
    BY <1>4, <2>1, <2>2, RecordTypes DEF Enter, Static
  <2>4. Shape(c)'
    BY <1>1, <1>2, <2>1, <2>2, <2>3 DEF Shape
  <2> HIDE DEF AfterEnter
  <2> QED BY <2>1, <2>2, <2>3, <2>4, StaticMove
<1>5. CASE Check(c) \/ Ready(c) \/ FillMiss(c)
  <2>1. PICK pc \in {"lock", "ready", "fetch"} :
          /\ Step(c, At(c, client[c].at, pc)) /\ UNCHANGED entry
          /\ (client[c].pc \in {"check", "ready", "lock"} /\ api = "query") \/ client[c].pc \in {"check", "ready"}
          /\ pc = "lock" => client[c].pc \in {"check", "ready"}
    BY <1>5 DEF Check, Ready, FillMiss, CanLock
  <2>2. client[c].at \in Entries /\ api = "query"
    BY <1>1, <2>1 DEF Shape, Records
  <2>3. At(c, client[c].at, pc) \in Records
    BY <2>2, RecordTypes DEF Static
  <2>4. Shape(c)'
    BY <1>1, <1>2, <2>1, <2>2, <2>3 DEF Shape
  <2> QED BY <2>1, <2>2, <2>3, <2>4, StaticMove
<1> QED BY <1>3, <1>4, <1>5

\* A request that ends: its answers are known and, unless it failed, complete.
LEMMA StaticDone ==
  ASSUME Static, NEW c \in Clients, client[c].pc # "idle", expired[c] = {},
         NEW got \in [Keys -> Results \union {None}], NEW failed \in BOOLEAN,
         Step(c, Done(c, got, failed)),
         \A k \in Keys : got[k] # None =>
           /\ api # "pools" => got[k].own
           /\ client[c].since.time <= got[k].stored + Ttl(got[k].version),
         ~failed => \A k \in client[c].keys : got[k] # None
  PROVE  RequestOK' \/ ~TypeOK'
<1> SUFFICES ASSUME TypeOK' PROVE RequestOK'
  OBVIOUS
<1>1. client'[c] = Done(c, got, failed) /\ UNCHANGED <<now, table, api, expired, newest>>
  BY Stepped DEF Static
<1>2. client[c] \in Records /\ Request(c) /\ Done(c, got, failed) \in Records
  BY RecordTypes DEF Static, TypeOK, RequestOK
<1>3. /\ client'[c].pc = "done" /\ client'[c].todo = {} /\ client'[c].keys = client[c].keys
      /\ client'[c].got = got /\ client'[c].failed = failed /\ client'[c].since = client[c].since
      /\ client'[c].at = None /\ client'[c].key = None
  BY <1>1, <1>2 DEF Done, Records
<1>4. Shape(c)'
  BY <1>1, <1>2, <1>3 DEF Request, Shape, Searching, Holding
<1>5. Putting(c)' /\ Storing(c)' /\ Complete(c)'
  BY <1>3 DEF Putting, Storing, Complete, Searching
<1>6. Known(c)'
  BY <1>1, <1>3 DEF Known, Ttl
<1>7. Since(c)'
  BY <1>1, <1>2, <1>3 DEF Request, Since
<1> QED BY <1>2, <1>4, <1>5, <1>6, <1>7, StepRequest DEF Request

LEMMA DoEnds ==
  ASSUME Static, NEW c \in Clients,
         SelectFails(c) \/ NotReady(c) \/ FillHit(c) \/ FetchFails(c) \/ Store(c)
  PROVE  Static'
<1>1. client[c] \in Records /\ Request(c) /\ TypeOK
  BY DEF Static, TypeOK, RequestOK
<1>2. \A k \in Keys : client[c].got[k] # None =>
           LET got == client[c].got
           IN  /\ api # "pools" => got[k].own
               /\ client[c].since.time <= got[k].stored + Ttl(got[k].version)
  BY <1>1 DEF Request, Known
<1>3. expired[c] = {} \/ client[c].pc = "delete"
  BY <1>1 DEF Request, Shape
<1>4. CASE SelectFails(c) \/ NotReady(c) \/ FetchFails(c)
  <2>1. /\ Step(c, Done(c, client[c].got, TRUE)) /\ client[c].got \in [Keys -> Results \union {None}]
        /\ client[c].pc \in {"select", "ready", "fetch"}
        /\ UNCHANGED entry \/ (client[c].at \in Entries /\ entry' = Used(client[c].at, -1))
    BY <1>1, <1>4 DEF SelectFails, NotReady, FetchFails, Records, Request, Shape, Holding
  <2>2. api' = api
    BY <2>1 DEF Step
  <2>3. /\ EntryOK'
        /\ entry' \in [Entries -> [result : Results \union {None}, validAt : 0 .. MaxTime + TTL, inUse : Int]]
    BY <2>1, <2>2, SameEntries, UsedEntries
  <2>4. TypeOK'
    BY <1>1, <2>1, <2>3, StepType, RecordTypes
  <2> QED BY <1>2, <1>3, <2>1, <2>3, <2>4, StaticDone DEF Static
<1>5. CASE FillHit(c)
  <2> DEFINE k == client[c].key
             answer == entry[client[c].at].result
             got == [client[c].got EXCEPT ![k] = answer]
  <2>1. /\ client[c].at \in Entries /\ k \in Keys /\ client[c].keys = {k} /\ client[c].pc = "lock"
        /\ api = "query" /\ Usable(client[c].at) /\ Step(c, Done(c, got, FALSE))
        /\ entry' = Used(client[c].at, -1)
    <3>1. <<api, c, client[c].keys>> \in Requests /\ k \in client[c].keys /\ api = "query"
      BY <1>1, <1>5 DEF FillHit, CanLock, Request, Shape, Holding, Records
    <3>2. \E j \in Keys : client[c].keys = {j}
      BY <3>1, RequestsAssumption
    <3> QED BY <1>1, <1>5, <3>1, <3>2 DEF FillHit, CanLock, Request, Shape, Holding, Records
  <2>2. answer \in Results /\ answer.own /\ now <= answer.stored + Ttl(answer.version)
    BY <2>1 DEF Static, TypeOK, EntryOK, Usable, IsExpired, Ttl, Results, Versions
  <2>3. got \in [Keys -> Results \union {None}] /\ got[k] = answer /\ \A j \in Keys \ {k} : got[j] = client[c].got[j]
    BY <1>1, <2>1, <2>2 DEF Records
  <2>4. \A j \in Keys : got[j] # None =>
           /\ api # "pools" => got[j].own
           /\ client[c].since.time <= got[j].stored + Ttl(got[j].version)
    <3>1. client[c].since.time <= now /\ client[c].since.time \in Int /\ now \in Int
          /\ answer.stored + Ttl(answer.version) \in Int
      BY <1>1, <2>2, TtlType DEF Request, Since, Records, TypeOK, Results
    <3> HIDE DEF got, answer
    <3>2. client[c].since.time <= answer.stored + Ttl(answer.version)
      BY <2>2, <3>1
    <3> QED BY <1>2, <2>2, <2>3, <3>2
  <2>5. \A j \in client[c].keys : got[j] # None
    BY <2>1, <2>2, <2>3, NoneAssumption
  <2> HIDE DEF got
  <2>6. /\ TypeOK' /\ EntryOK'
    <3>1. api' = api
      BY <2>1 DEF Step
    <3>2. /\ EntryOK'
          /\ entry' \in [Entries -> [result : Results \union {None}, validAt : 0 .. MaxTime + TTL, inUse : Int]]
      BY <2>1, <3>1, UsedEntries
    <3> QED BY <1>1, <2>1, <2>3, <3>2, StepType, RecordTypes
  <2> QED BY <1>3, <2>1, <2>3, <2>4, <2>5, <2>6, StaticDone DEF Static
<1>6. CASE Store(c)
  <2> DEFINE k == client[c].key
  <2>1. /\ client[c].at \in Entries /\ k \in Keys /\ client[c].keys = {k} /\ client[c].pc = "store"
        /\ Step(c, Done(c, client[c].got, FALSE)) /\ client[c].got \in [Keys -> Results \union {None}]
        /\ entry' = Stored(c, client[c].got[k])
    <3>1. <<api, c, client[c].keys>> \in Requests /\ k \in client[c].keys /\ api = "query"
      BY <1>1, <1>6 DEF Store, Request, Shape, Holding, Records
    <3>2. \E j \in Keys : client[c].keys = {j}
      BY <3>1, RequestsAssumption
    <3> QED BY <1>1, <1>6, <3>1, <3>2, ZenonT(60) DEF Store, Request, Shape, Holding, Records
  <2>2. client[c].got[k] \in Results /\ client[c].got[k].version >= client[c].since.table[k]
    BY <1>1, <2>1 DEF Request, Storing
  <2>3. api' = api
    BY <2>1 DEF Step
  <2>4. /\ EntryOK'
        /\ entry' \in [Entries -> [result : Results \union {None}, validAt : 0 .. MaxTime + TTL, inUse : Int]]
    BY <2>1, <2>2, <2>3, StoredEntries
  <2>5. TypeOK'
    BY <1>1, <2>1, <2>4, StepType, RecordTypes
  <2>6. \A j \in client[c].keys : client[c].got[j] # None
    BY <2>1, <2>2, NoneAssumption
  <2> QED BY <1>2, <1>3, <2>1, <2>4, <2>5, <2>6, StaticDone DEF Static
<1> QED BY <1>4, <1>5, <1>6

\* A goroutine that holds a read lock, or counts on the result it is about to copy.
Reader(c) == client[c].pc \in {"ready", "copy"} =>
               /\ entry[client[c].at].result # None
               /\ client[c].since.time <= entry[client[c].at].validAt

LEMMA StaticCall ==
  ASSUME Static, NEW c \in Clients, NEW keys \in SUBSET Keys, Call(c, keys)
  PROVE  Static'
<1> DEFINE r == [client[c] EXCEPT
                   !.pc = IF api = "query" THEN "next" ELSE "read", !.keys = keys, !.todo = keys,
                   !.since = [time |-> now, table |-> On(keys, table), newest |-> On(keys, newest)]]
<1>1. client[c] \in Records /\ Request(c) /\ TypeOK
  BY DEF Static, TypeOK, RequestOK
<1>2. On(keys, table) \in [Keys -> Versions] /\ On(keys, newest) \in [Keys -> Versions]
  BY <1>1 DEF TypeOK, On, Versions
<1>3. r \in Records /\ Step(c, r) /\ UNCHANGED entry /\ client[c].pc = "idle" /\ <<api, c, keys>> \in Requests
  BY <1>1, <1>2 DEF Call, Records, TypeOK
<1>4. /\ r.pc = (IF api = "query" THEN "next" ELSE "read") /\ r.keys = keys /\ r.todo = keys
      /\ r.key = client[c].key /\ r.at = client[c].at /\ r.got = client[c].got /\ r.failed = client[c].failed
      /\ r.since = [time |-> now, table |-> On(keys, table), newest |-> On(keys, newest)]
  BY <1>1, <1>2 DEF Records
<1> HIDE DEF r
<1>5. client'[c] = r /\ UNCHANGED <<now, table, api, expired, newest>>
  BY <1>3, Stepped DEF Static
<1>6. Shape(c)'
  BY <1>1, <1>3, <1>4, <1>5 DEF Request, Shape, Searching, Holding
<1>7. Putting(c)' /\ Storing(c)' /\ Complete(c)'
  BY <1>4, <1>5 DEF Putting, Storing, Complete, Searching
<1>8. Since(c)'
  <2>1. \A k \in Keys : table[k] \in Nat /\ newest[k] \in Nat
    BY <1>1 DEF TypeOK, Versions
  <2> QED BY <1>1, <1>4, <1>5, <2>1 DEF Since, TypeOK, On
<1>9. Known(c)'
  BY <1>1, <1>3, <1>4, <1>5 DEF Known, Request, Shape
<1>10. Request(c)'
  BY <1>6, <1>7, <1>8, <1>9 DEF Request
<1> QED BY <1>3, <1>10, StaticStep

LEMMA StaticPeek ==
  ASSUME Static, NEW c \in Clients, (\E k \in Keys : Peek(c, k)) \/ PeekHit(c)
  PROVE  Static'
<1> USE DEF Searching, Holding
<1>1. client[c] \in Records /\ Request(c) /\ TypeOK
  BY DEF Static, TypeOK, RequestOK
<1>2. PICK r \in Records :
        /\ Step(c, r)
        /\ UNCHANGED entry \/ \E e \in Entries : entry' = Used(e, 1)
        /\ r.got = client[c].got /\ r.since = client[c].since /\ r.keys = client[c].keys
        /\ r.todo = client[c].todo /\ r.failed = client[c].failed
        /\ \/ r.pc = "peek" /\ r.key # None /\ r.key \in client[c].todo /\ client[c].pc = "read"
           \/ r.pc = "copy" /\ r.at # None /\ r.key = client[c].key /\ client[c].pc = "peek"
  <2>1. CASE \E k \in Keys : Peek(c, k)
    <3>1. PICK k \in Keys : Peek(c, k)
      BY <2>1
    <3> DEFINE r == [client[c] EXCEPT !.pc = "peek", !.key = k, !.at = slot[k]]
    <3>2. r \in Records /\ k # None /\ k \in client[c].todo /\ client[c].pc = "read" /\ Step(c, r) /\ UNCHANGED entry
      BY <1>1, <3>1, NoneAssumption DEF Peek, Records, TypeOK
    <3> QED BY <1>1, <3>2 DEF Records
  <2>2. CASE PeekHit(c)
    <3> DEFINE r == [client[c] EXCEPT !.pc = "copy"]
    <3>1. r \in Records /\ client[c].at # None /\ client[c].at \in Entries /\ client[c].pc = "peek"
          /\ Step(c, r) /\ entry' = Used(client[c].at, 1)
      BY <1>1, <2>2 DEF PeekHit, Found, Records
    <3> QED BY <1>1, <3>1 DEF Records
  <2> QED BY <2>1, <2>2
<1>3. client'[c] = r /\ UNCHANGED <<now, table, api, expired, newest>>
  BY <1>2, Stepped DEF Static
<1>4. Shape(c)'
  BY <1>1, <1>2, <1>3 DEF Request, Shape
<1>5. Putting(c)' /\ Storing(c)' /\ Complete(c)'
  BY <1>2, <1>3 DEF Putting, Storing, Complete
<1>6. Known(c)' /\ Since(c)'
  BY <1>1, <1>2, <1>3 DEF Request, Known, Since, Ttl
<1>7. Request(c)'
  BY <1>4, <1>5, <1>6 DEF Request
<1> QED BY <1>2, <1>7, StaticStep

\* The end of a key's read, with or without an answer.
LEMMA StaticRead ==
  ASSUME Static, NEW c \in Clients, PeekMiss(c) \/ (Copy(c) /\ Reader(c))
  PROVE  Static'
<1> USE DEF Searching, Holding
<1>1. client[c] \in Records /\ Request(c) /\ TypeOK
  BY DEF Static, TypeOK, RequestOK
<1>2. PICK got \in [Keys -> Results \union {None}] :
        /\ Step(c, NextRead(c, got)) /\ client[c].pc \in {"peek", "copy"}
        /\ UNCHANGED entry \/ \E e \in Entries, n \in Int : entry' = Used(e, n)
        /\ \A k \in Keys : got[k] # None =>
             /\ api # "pools" => got[k].own
             /\ client[c].since.time <= got[k].stored + Ttl(got[k].version)
  <2>1. CASE PeekMiss(c)
    BY <1>1, <2>1 DEF PeekMiss, Request, Known, Records
  <2>2. CASE Copy(c) /\ Reader(c)
    <3> DEFINE k == client[c].key
               got == [client[c].got EXCEPT ![k] = entry[client[c].at].result]
    <3>1. client[c].pc = "copy" /\ k \in Keys /\ client[c].at \in Entries
          /\ Step(c, NextRead(c, got)) /\ entry' = Used(client[c].at, -1)
      BY <1>1, <2>2 DEF Copy, Request, Shape, Records
    <3>2. /\ entry[client[c].at].result \in Results
          /\ api # "pools" => entry[client[c].at].result.own
          /\ client[c].since.time <= entry[client[c].at].result.stored
                                       + Ttl(entry[client[c].at].result.version)
      BY <1>1, <2>2, <3>1 DEF Reader, Static, EntryOK, TypeOK
    <3>3. got \in [Keys -> Results \union {None}] /\ got[k] = entry[client[c].at].result
          /\ \A j \in Keys \ {k} : got[j] = client[c].got[j]
      BY <1>1, <3>1, <3>2 DEF Records
    <3> HIDE DEF got
    <3>4. \A j \in Keys : got[j] # None =>
             /\ api # "pools" => got[j].own
             /\ client[c].since.time <= got[j].stored + Ttl(got[j].version)
      BY <1>1, <3>2, <3>3 DEF Request, Known
    <3> QED BY <3>1, <3>3, <3>4
  <2> QED BY <2>1, <2>2
<1>3. NextRead(c, got) \in Records /\ client'[c] = NextRead(c, got)
      /\ UNCHANGED <<now, table, api, expired, newest>>
  BY <1>1, <1>2, RecordTypes, Stepped
<1>4. expired[c] = {} /\ <<api, c, client[c].keys>> \in Requests /\ api # "query"
  BY <1>1, <1>2 DEF Request, Shape, Records
<1>5. /\ client'[c].got = got /\ client'[c].keys = client[c].keys /\ client'[c].since = client[c].since
      /\ client'[c].at = None /\ client'[c].key = None /\ client'[c].todo \subseteq client[c].todo
      /\ client'[c].pc \in {"read", "select", "done"}
      /\ client'[c].pc = "done" => \A k \in client[c].keys : got[k] # None
  <2> DEFINE rest == client[c].todo \ {client[c].key}
  <2>1. CASE rest = {} /\ \A k \in client[c].keys : got[k] # None
    BY <1>1, <1>3, <2>1 DEF NextRead, Done, Records
  <2>2. CASE ~(rest = {} /\ \A k \in client[c].keys : got[k] # None)
    <3> DEFINE pc == IF rest = {} THEN "select" ELSE "read"
    <3>1. client'[c] = [client[c] EXCEPT !.pc = pc, !.key = None, !.at = None, !.todo = rest, !.got = got]
      BY <1>3, <2>2 DEF NextRead
    <3>2. pc \in {"select", "read"} /\ rest \subseteq client[c].todo
      OBVIOUS
    <3> HIDE DEF pc, rest
    <3> QED BY <1>1, <3>1, <3>2 DEF Records
  <2> QED BY <2>1, <2>2
<1>6. Shape(c)'
  BY <1>1, <1>3, <1>4, <1>5 DEF Request, Shape
<1>7. Putting(c)' /\ Storing(c)' /\ Complete(c)'
  BY <1>5 DEF Putting, Storing, Complete
<1>8. Known(c)' /\ Since(c)'
  BY <1>1, <1>2, <1>3, <1>5 DEF Request, Known, Since, Ttl
<1>9. Request(c)'
  BY <1>6, <1>7, <1>8 DEF Request
<1> QED BY <1>2, <1>3, <1>9, StaticStep

LEMMA StaticSelect ==
  ASSUME Static, NEW c \in Clients, Select(c)
  PROVE  Static'
<1> USE DEF Searching, Holding
<1>1. client[c] \in Records /\ Request(c) /\ TypeOK
  BY DEF Static, TypeOK, RequestOK
<1> DEFINE missing == {k \in client[c].keys : client[c].got[k] = None}
<1>2. PICK arrived \in SUBSET missing :
        LET got == [k \in Keys |-> IF k \in arrived THEN Fresh(k) ELSE client[c].got[k]]
            put == PutAll(c, got, arrived)
        IN  Step(c, IF put = {} THEN Done(c, got, arrived # missing)
                    ELSE [client[c] EXCEPT !.pc = "next", !.todo = put, !.got = got,
                                           !.failed = arrived # missing])
  BY DEF Select
<1> DEFINE got == [k \in Keys |-> IF k \in arrived THEN Fresh(k) ELSE client[c].got[k]]
           put == PutAll(c, got, arrived)
           failed == arrived # missing
<1>3. client[c].pc = "select" /\ UNCHANGED entry /\ client[c].keys \subseteq Keys
  BY <1>1 DEF Select, Records
<1>4. /\ \A k \in arrived : got[k] = Fresh(k) /\ got[k] \in Results /\ got[k] # None
      /\ \A k \in Keys \ arrived : got[k] = client[c].got[k]
      /\ got \in [Keys -> Results \union {None}]
  <2>1. \A k \in Keys : Fresh(k) \in Results /\ Fresh(k) # None
    BY <1>1, FreshType, NoneAssumption
  <2> QED BY <1>1, <1>3, <2>1 DEF Records
<1> HIDE DEF got
<1>5. \A k \in Keys : got[k] # None =>
           /\ api # "pools" => got[k].own
           /\ client[c].since.time <= got[k].stored + Ttl(got[k].version)
  <2> SUFFICES ASSUME NEW k \in Keys, got[k] # None
               PROVE  /\ api # "pools" => got[k].own
                      /\ client[c].since.time <= got[k].stored + Ttl(got[k].version)
    OBVIOUS
  <2>1. CASE k \in arrived
    <3>1. got[k].own /\ got[k].stored = now /\ Ttl(got[k].version) \in Nat
      BY <1>1, <1>4, <2>1, FreshType
    <3> QED BY <1>1, <3>1 DEF Request, Since, TypeOK, Records
  <2>2. CASE k \notin arrived
    BY <1>1, <1>4, <2>2 DEF Request, Known
  <2> QED BY <2>1, <2>2
<1>6. ~failed => \A k \in client[c].keys : got[k] # None
  BY <1>3, <1>4
<1>7. /\ put \subseteq client[c].keys
      /\ \A k \in put : /\ got[k] # None
                        /\ api = "accounts" => got[k].version >= client[c].since.table[k]
  <2>1. ASSUME NEW k \in put
        PROVE  k \in client[c].keys /\ got[k] # None
    BY <1>3, <1>4 DEF PutAll
  <2>2. ASSUME NEW k \in put, api = "accounts"
        PROVE  got[k].version >= client[c].since.table[k]
    <3>1. k \in arrived /\ k \in Keys
      BY <1>3, <2>2 DEF PutAll
    <3>2. got[k].version = table[k]
      BY <1>1, <1>4, <3>1, FreshType
    <3>3. client[c].since.table[k] <= table[k] /\ table[k] \in Int /\ client[c].since.table[k] \in Int
      BY <1>1, <3>1 DEF Request, Since, TypeOK, Records, Versions
    <3> QED BY <3>2, <3>3
  <2> QED BY <2>1, <2>2
<1> HIDE DEF put, failed
<1>8. expired[c] = {} /\ <<api, c, client[c].keys>> \in Requests /\ api # "query"
  BY <1>1, <1>3 DEF Request, Shape
<1>9. failed \in BOOLEAN
  BY DEF failed
<1>10. CASE put = {}
  <2>1. Step(c, Done(c, got, failed))
    BY <1>2, <1>10 DEF put, got, failed
  <2>2. EntryOK' /\ TypeOK'
    <3>1. api' = api
      BY <2>1 DEF Step
    <3> QED BY <1>1, <1>3, <1>4, <1>9, <2>1, <3>1, SameEntries, StepType, RecordTypes
  <2> QED BY <1>3, <1>4, <1>5, <1>6, <1>8, <1>9, <2>1, <2>2, StaticDone DEF Static
<1>11. CASE put # {}
  <2> DEFINE r == [client[c] EXCEPT !.pc = "next", !.todo = put, !.got = got, !.failed = failed]
  <2>1. Step(c, r)
    BY <1>2, <1>11 DEF put, got, failed
  <2>2. /\ r \in Records /\ r.pc = "next" /\ r.todo = put /\ r.got = got /\ r.failed = failed
        /\ r.keys = client[c].keys /\ r.key = client[c].key /\ r.at = client[c].at /\ r.since = client[c].since
    BY <1>1, <1>3, <1>4, <1>7, <1>9 DEF Records
  <2> HIDE DEF r
  <2>3. client'[c] = r /\ UNCHANGED <<now, table, api, expired, newest>>
    BY <2>1, Stepped DEF Static
  <2>4. Shape(c)'
    BY <1>1, <1>3, <1>7, <1>8, <2>2, <2>3 DEF Request, Shape
  <2>5. Putting(c)' /\ Storing(c)' /\ Complete(c)'
    BY <1>6, <1>7, <2>2, <2>3 DEF Putting, Storing, Complete
  <2>6. Known(c)' /\ Since(c)'
    BY <1>1, <1>5, <2>2, <2>3 DEF Request, Known, Since, Ttl
  <2>7. Request(c)'
    BY <2>4, <2>5, <2>6 DEF Request
  <2> QED BY <1>3, <2>1, <2>2, <2>7, StaticStep
<1> QED BY <1>10, <1>11

LEMMA StaticLookup ==
  ASSUME Static, NEW c \in Clients, \E k \in Keys : Lookup(c, k)
  PROVE  Static'
<1> USE DEF Searching, Holding
<1>1. client[c] \in Records /\ Request(c) /\ TypeOK
  BY DEF Static, TypeOK, RequestOK
<1>2. PICK k \in Keys : Lookup(c, k)
  OBVIOUS
<1> DEFINE pc == IF slot[k] # None THEN "enter" ELSE IF Count >= MaxSize THEN "scan" ELSE "create"
           r == [client[c] EXCEPT !.key = k, !.at = slot[k], !.pc = pc]
<1>3. /\ client[c].pc = "next" /\ k \in client[c].todo /\ Step(c, r) /\ UNCHANGED entry
      /\ pc \in {"enter", "scan", "create"} /\ (pc = "enter" <=> slot[k] # None) /\ k # None
  BY <1>2, NoneAssumption DEF Lookup
<1> HIDE DEF pc
<1>4. /\ r \in Records /\ r.pc = pc /\ r.key = k /\ r.at = slot[k] /\ r.got = client[c].got /\ r.todo = client[c].todo
      /\ r.keys = client[c].keys /\ r.since = client[c].since /\ r.failed = client[c].failed
  BY <1>1, <1>3 DEF Records, TypeOK
<1> HIDE DEF r
<1>5. client'[c] = r /\ UNCHANGED <<now, table, api, expired, newest>>
  BY <1>3, Stepped DEF Static
<1>6. Shape(c)'
  BY <1>1, <1>3, <1>4, <1>5 DEF Request, Shape
<1>7. Putting(c)' /\ Storing(c)' /\ Complete(c)'
  BY <1>1, <1>3, <1>4, <1>5 DEF Request, Putting, Storing, Complete
<1>8. Known(c)' /\ Since(c)'
  BY <1>1, <1>3, <1>4, <1>5 DEF Request, Known, Since, Ttl
<1>9. Request(c)'
  BY <1>6, <1>7, <1>8 DEF Request
<1> QED BY <1>3, <1>4, <1>9, StaticStep

LEMMA StaticFetch ==
  ASSUME Static, NEW c \in Clients, Fetch(c)
  PROVE  Static'
<1> USE DEF Searching, Holding
<1>1. client[c] \in Records /\ Request(c) /\ TypeOK
  BY DEF Static, TypeOK, RequestOK
<1> DEFINE k == client[c].key
           got == [client[c].got EXCEPT ![k] = Fresh(k)]
           r == [client[c] EXCEPT !.pc = "store", !.got = got]
<1>2. client[c].pc = "fetch" /\ k \in Keys /\ Step(c, r) /\ UNCHANGED entry /\ Fresh(k) \in Results
  <2>1. client[c].pc = "fetch" /\ k \in Keys /\ UNCHANGED entry
    BY <1>1 DEF Fetch, Request, Shape, Records
  <2>2. Step(c, r)
    BY <1>1, <2>1 DEF Fetch, Records
  <2> QED BY <1>1, <2>1, <2>2, FreshType
<1>3. /\ got \in [Keys -> Results \union {None}] /\ got[k] = Fresh(k)
      /\ \A j \in Keys \ {k} : got[j] = client[c].got[j]
  BY <1>1, <1>2 DEF Records
<1> HIDE DEF got
<1>4. /\ r \in Records /\ r.pc = "store" /\ r.key = k /\ r.at = client[c].at /\ r.got = got
      /\ r.todo = client[c].todo /\ r.keys = client[c].keys /\ r.since = client[c].since
      /\ r.failed = client[c].failed
  BY <1>1, <1>3 DEF Records
<1> HIDE DEF r
<1>5. client'[c] = r /\ UNCHANGED <<now, table, api, expired, newest>>
  BY <1>2, Stepped DEF Static
<1>6. /\ got[k] # None /\ got[k].own /\ got[k].version = table[k] /\ got[k].stored = now
      /\ Ttl(got[k].version) \in Nat
  BY <1>1, <1>2, <1>3, FreshType, NoneAssumption
<1>7. Shape(c)'
  BY <1>1, <1>2, <1>4, <1>5 DEF Request, Shape
<1>8. Storing(c)'
  <2>1. client[c].since.table[k] <= table[k] /\ table[k] \in Int /\ client[c].since.table[k] \in Int
    BY <1>1, <1>2 DEF Request, Since, TypeOK, Records, Versions
  <2> QED BY <1>4, <1>5, <1>6, <2>1 DEF Storing
<1>9. Putting(c)' /\ Complete(c)'
  BY <1>4, <1>5 DEF Putting, Complete
<1>10. Known(c)'
  <2>1. client[c].since.time <= got[k].stored + Ttl(got[k].version)
    BY <1>1, <1>6 DEF Request, Since, TypeOK, Records
  <2> QED BY <1>1, <1>3, <1>4, <1>5, <1>6, <2>1 DEF Request, Known, Ttl
<1>11. Request(c)'
  BY <1>1, <1>4, <1>5, <1>7, <1>8, <1>9, <1>10 DEF Request, Since
<1> QED BY <1>2, <1>4, <1>11, StaticStep

LEMMA StaticCreate ==
  ASSUME Static, NEW c \in Clients, Create(c)
  PROVE  Static'
<1> USE DEF Searching, Holding
<1>1. client[c] \in Records /\ Request(c) /\ TypeOK
  BY DEF Static, TypeOK, RequestOK
<1> DEFINE k == client[c].key
<1>2. PICK e \in Entries : Install(c, e)
  <2>1. k \in Keys /\ slot[k] \in Entries \union {None}
    BY <1>1 DEF Create, Request, Shape, Records, TypeOK
  <2>2. Free # {} => (CHOOSE e \in Free : TRUE) \in Entries
    BY DEF Free
  <2> QED BY <2>1, <2>2 DEF Create
<1>3. client[c].pc = "create" /\ k \in Keys /\ k # None /\ k \in client[c].todo
  BY <1>1 DEF Create, Request, Shape, Records
<1>4. AfterEnter \in {"check", "lock"} /\ (AfterEnter = "check" => api = "query")
      /\ (AfterEnter = "lock" => api # "query")
  BY DEF AfterEnter
<1> DEFINE r == At(c, e, AfterEnter)
<1>5. /\ r \in Records /\ r.pc = AfterEnter /\ r.key = k /\ r.at = e /\ r.got = client[c].got
      /\ r.todo = client[c].todo /\ r.keys = client[c].keys /\ r.since = client[c].since
      /\ r.failed = client[c].failed
  BY <1>1, <1>4 DEF Records, At
<1> HIDE DEF r
<1>6. client' = [client EXCEPT ![c] = r] /\ slot' = [slot EXCEPT ![k] = e] /\ entry' = NewEntry(e, k, 1)
      /\ UNCHANGED <<now, table, api, expired, newest, orphaned>>
  BY <1>2 DEF Install, r
<1>7. \A f \in Entries : \/ entry'[f].result = entry[f].result /\ entry'[f].validAt = entry[f].validAt
                         \/ entry'[f].result = None /\ entry'[f].validAt = 0
  BY <1>1, <1>6 DEF NewEntry, Used, TypeOK, Blank
<1>8. entry' \in [Entries -> [result : Results \union {None}, validAt : 0 .. MaxTime + TTL, inUse : Int]]
  <2> DEFINE T == [result : Results \union {None}, validAt : 0 .. MaxTime + TTL, inUse : Int]
  <2>1. [Blank EXCEPT !.inUse = 1] \in T
    <3>1. MaxTime \in Nat /\ TTL \in Nat /\ 0 \in 0 .. MaxTime + TTL
      OBVIOUS
    <3>2. [Blank EXCEPT !.inUse = 1] = [result |-> None, validAt |-> 0, inUse |-> 1]
      BY DEF Blank
    <3> QED BY <3>1, <3>2
  <2>2. entry \in [Entries -> T] /\ Used(e, 1) \in [Entries -> T]
    <3>1. entry \in [Entries -> T]
      BY <1>1 DEF TypeOK
    <3>2. Used(e, 1) \in [Entries -> T]
      <4>1. 1 \in Int
        OBVIOUS
      <4> QED BY <1>1, <4>1, UsedType
    <3> QED BY <3>1, <3>2
  <2> HIDE DEF T
  <2>3. entry' \in [Entries -> T]
    BY <1>6, <2>1, <2>2 DEF NewEntry
  <2> QED BY <2>3 DEF T
<1>9. TypeOK'
  BY <1>1, <1>3, <1>5, <1>6, <1>8 DEF TypeOK
<1>10. EntryOK'
  BY <1>6, <1>7 DEF Static, EntryOK, Ttl
<1>11. client'[c] = r
  BY <1>1, <1>6 DEF TypeOK
<1>12. Shape(c)'
  BY <1>1, <1>3, <1>4, <1>5, <1>6, <1>11, NoneAssumption DEF Request, Shape
<1>13. Putting(c)' /\ Storing(c)' /\ Complete(c)'
  BY <1>1, <1>3, <1>4, <1>5, <1>6, <1>11 DEF Request, Putting, Storing, Complete
<1>14. Known(c)' /\ Since(c)'
  BY <1>1, <1>5, <1>6, <1>11 DEF Request, Known, Since, Ttl
<1>15. ASSUME NEW d \in Clients, d # c PROVE Request(d)'
  <2>1. client'[d] = client[d] /\ Request(d)
    BY <1>1, <1>6, <1>15 DEF Static, RequestOK, TypeOK
  <2> QED BY <1>1, <1>6, <1>9, <2>1, OthersKeep DEF TypeOK, Versions
<1> QED BY <1>9, <1>10, <1>12, <1>13, <1>14, <1>15 DEF Static, RequestOK, Request

LEMMA StaticPut ==
  ASSUME Static, NEW c \in Clients, Put(c)
  PROVE  Static'
<1> USE DEF Searching, Holding
<1>1. client[c] \in Records /\ Request(c) /\ TypeOK
  BY DEF Static, TypeOK, RequestOK
<1> DEFINE k == client[c].key
           rest == client[c].todo \ {k}
<1>2. /\ client[c].pc = "lock" /\ api # "query" /\ k \in Keys /\ k \in client[c].todo
      /\ client[c].at \in Entries /\ entry' = Stored(c, client[c].got[k])
      /\ Step(c, IF rest = {} THEN Done(c, client[c].got, client[c].failed)
                 ELSE [client[c] EXCEPT !.pc = "next", !.key = None, !.at = None, !.todo = rest])
  BY <1>1 DEF Put, CanLock, Request, Shape, Records
<1>3. /\ client[c].got[k] \in Results /\ client[c].got \in [Keys -> Results \union {None}]
      /\ client[c].failed \in BOOLEAN
      /\ ~client[c].failed => \A j \in client[c].keys : client[c].got[j] # None
      /\ api # "pools" => client[c].got[k].version >= client[c].since.table[k]
  <2>1. api \in {"accounts", "pools"}
    BY <1>1, <1>2, RequestsAssumption DEF TypeOK, Apis
  <2> QED BY <1>1, <1>2, <2>1 DEF Request, Putting, Records
<1>4. api' = api
  BY <1>2 DEF Step
<1>5. /\ EntryOK'
      /\ entry' \in [Entries -> [result : Results \union {None}, validAt : 0 .. MaxTime + TTL, inUse : Int]]
  BY <1>2, <1>3, <1>4, StoredEntries
<1>6. expired[c] = {} /\ <<api, c, client[c].keys>> \in Requests
  BY <1>1, <1>2 DEF Request, Shape
<1>7. CASE rest = {}
  <2>1. Step(c, Done(c, client[c].got, client[c].failed))
    BY <1>2, <1>7
  <2>2. TypeOK'
    BY <1>1, <1>3, <1>5, <2>1, StepType, RecordTypes
  <2>3. \A j \in Keys : client[c].got[j] # None =>
           /\ api # "pools" => client[c].got[j].own
           /\ client[c].since.time <= client[c].got[j].stored + Ttl(client[c].got[j].version)
    BY <1>1 DEF Request, Known
  <2> QED BY <1>2, <1>3, <1>5, <1>6, <2>1, <2>2, <2>3, StaticDone DEF Static
<1>8. CASE rest # {}
  <2> DEFINE r == [client[c] EXCEPT !.pc = "next", !.key = None, !.at = None, !.todo = rest]
  <2>1. Step(c, r)
    BY <1>2, <1>8
  <2>2. /\ r \in Records /\ r.pc = "next" /\ r.key = None /\ r.at = None /\ r.got = client[c].got
        /\ r.todo \subseteq client[c].todo /\ r.keys = client[c].keys /\ r.since = client[c].since
        /\ r.failed = client[c].failed
    BY <1>1 DEF Records
  <2> HIDE DEF r
  <2>3. client'[c] = r /\ UNCHANGED <<now, table, api, expired, newest>>
    BY <2>1, Stepped DEF Static
  <2>4. Shape(c)'
    BY <1>1, <1>2, <1>6, <2>2, <2>3 DEF Request, Shape
  <2>5. Putting(c)' /\ Storing(c)' /\ Complete(c)'
    BY <1>1, <1>2, <2>2, <2>3 DEF Request, Putting, Storing, Complete
  <2>6. Known(c)' /\ Since(c)'
    BY <1>1, <2>2, <2>3 DEF Request, Known, Since, Ttl
  <2>7. TypeOK'
    BY <1>1, <1>5, <2>1, <2>2, StepType
  <2> QED BY <1>5, <2>1, <2>2, <2>4, <2>5, <2>6, <2>7, StepRequest DEF Static, Request
<1> QED BY <1>7, <1>8

LEMMA StaticReturn ==
  ASSUME Static, NEW c \in Clients, Return(c)
  PROVE  Static'
<1> USE DEF Searching, Holding
<1>1. client[c] \in Records /\ Request(c) /\ TypeOK
  BY DEF Static, TypeOK, RequestOK
<1>2. \A k \in Keys : newest'[k] \in Versions /\ newest[k] <= newest'[k]
  <2> SUFFICES ASSUME NEW k \in Keys PROVE newest'[k] \in Versions /\ newest[k] <= newest'[k]
    OBVIOUS
  <2>1. newest[k] \in Versions
    BY <1>1 DEF TypeOK
  <2>2. CASE k \in client[c].keys /\ ~client[c].failed /\ client[c].got[k].version > newest[k]
    <3>1. client[c].got[k] \in Results
      BY <1>1, <2>2 DEF Return, Request, Complete, Records
    <3> QED BY <2>1, <3>1 DEF Return, Results, Versions
  <2>3. CASE ~(k \in client[c].keys /\ ~client[c].failed /\ client[c].got[k].version > newest[k])
    BY <2>1, <2>3 DEF Return, Versions
  <2> QED BY <2>2, <2>3
<1>3. newest' \in [Keys -> Versions]
  BY <1>2 DEF Return
<1>4. now \in Nat /\ 1 <= now /\ table \in [Keys -> Versions]
  BY <1>1 DEF TypeOK
<1>5. Idle \in Records
  <2>1. NoAnswers \in [Keys -> Results \union {None}] /\ [k \in Keys |-> 0] \in [Keys -> Versions]
        /\ 1 \in 1 .. MaxTime
    BY <1>1 DEF NoAnswers, Versions, TypeOK
  <2> QED BY <2>1 DEF Idle, Records
<1>6. TypeOK'
  BY <1>1, <1>3, <1>5 DEF Return, TypeOK
<1>7. EntryOK'
  BY DEF Return, Static, EntryOK, Ttl
<1>8. client'[c] = Idle /\ UNCHANGED <<now, table, api, expired>> /\ client[c].pc = "done"
  BY <1>1 DEF Return, TypeOK
<1>9. Request(c)'
  <2>1. Shape(c)'
    BY <1>1, <1>8 DEF Idle, NoAnswers, Request, Shape
  <2>2. Putting(c)' /\ Storing(c)' /\ Complete(c)' /\ Known(c)'
    BY <1>8 DEF Idle, NoAnswers, Putting, Storing, Complete, Known
  <2>3. \A k \in Keys : newest'[k] \in Nat /\ table[k] \in Nat
    BY <1>2, <1>4 DEF Versions
  <2>4. Since(c)'
    BY <1>4, <1>8, <2>3 DEF Idle, Since
  <2> QED BY <2>1, <2>2, <2>4 DEF Request
<1>10. ASSUME NEW d \in Clients, d # c PROVE Request(d)'
  <2>1. client'[d] = client[d] /\ Request(d)
    BY <1>1, <1>10 DEF Return, Static, RequestOK, TypeOK
  <2>2. \A k \in Keys : table[k] <= table'[k]
    BY <1>4, <1>8 DEF Versions
  <2> QED BY <1>1, <1>2, <1>4, <1>6, <1>8, <2>1, <2>2, OthersKeep
<1> QED BY <1>6, <1>7, <1>9, <1>10 DEF Static, RequestOK

LEMMA StaticWorld ==
  ASSUME Static, Tick \/ \E k \in Keys : Update(k)
  PROVE  Static'
<1>1. TypeOK'
  BY DEF Static, TypeOK, Tick, Update, Versions
<1>2. /\ now <= now' /\ UNCHANGED <<client, api, expired, entry, newest>>
      /\ \A k \in Keys : table[k] <= table'[k] /\ newest[k] <= newest'[k]
  BY DEF Static, TypeOK, Tick, Update, Versions
<1>3. RequestOK'
  BY <1>1, <1>2, OthersKeep DEF Static, RequestOK
<1>4. EntryOK'
  BY <1>2 DEF Static, EntryOK, Ttl
<1> QED BY <1>1, <1>3, <1>4 DEF Static

\* The cleanup moves its goroutine, if it is one that serves requests, and removes
\* entries; it knows nothing of answers.
LEMMA StaticCleanup ==
  ASSUME Static, NEW p \in Clients \union {Sweeper}, Scan(p) \/ Delete(p)
  PROVE  Static'
<1> USE DEF Searching, Holding
<1>1. TypeOK /\ (p \in Clients => client[p] \in Records /\ Request(p))
  BY DEF Static, TypeOK, RequestOK
<1>2. PICK found \in SUBSET Keys, pc \in {"again", "delete"} :
        /\ client' = Goto(p, pc) /\ expired' = [expired EXCEPT ![p] = found]
        /\ found # {} => pc = "delete"
        /\ p \in Clients => client[p].pc \in {"scan", "delete"}
        /\ UNCHANGED <<now, table, api, newest>>
  <2>1. CASE Scan(p)
    BY <2>1, ClientsAssumption DEF Scan, Stale, Sweeper
  <2>2. CASE Delete(p)
    BY <1>1, <2>2 DEF Delete, Request, Shape
  <2> QED BY <2>1, <2>2
<1>3. slot' \in [Keys -> Entries \union {None}] /\ orphaned' \in SUBSET Keys
  BY <1>1 DEF TypeOK, Scan, Delete
<1>4. /\ \A e \in Entries : entry'[e] = entry[e] \/ entry'[e] = Blank
      /\ entry' \in [Entries -> [result : Results \union {None}, validAt : 0 .. MaxTime + TTL, inUse : Int]]
  <2>1. CASE UNCHANGED entry
    BY <1>1, <2>1 DEF TypeOK
  <2>2. CASE ~UNCHANGED entry
    <3>1. Blank \in [result : Results \union {None}, validAt : 0 .. MaxTime + TTL, inUse : Int]
      BY DEF Blank
    <3>2. Delete(p) /\ Count >= MaxSize \div 2
      BY <2>2 DEF Scan, Delete
    <3>3. PICK blank \in SUBSET Entries : entry' = [e \in Entries |-> IF e \in blank THEN Blank ELSE entry[e]]
      <4> DEFINE blank == {e \in Entries : /\ ~(\E c \in Clients : client[c].at = e)
                                          /\ \E k \in {j \in expired[p] : slot[j] # None} : e = slot[k]}
      <4>1. entry' = [e \in Entries |-> IF e \in blank THEN Blank ELSE entry[e]]
        BY <3>2 DEF Delete
      <4> QED BY <4>1
    <3>4. entry \in [Entries -> [result : Results \union {None}, validAt : 0 .. MaxTime + TTL, inUse : Int]]
      BY <1>1 DEF TypeOK
    <3> HIDE DEF Blank
    <3> QED BY <3>1, <3>3, <3>4
  <2> QED BY <2>1, <2>2
<1>5. /\ \A c \in Clients \ {p} : client'[c] = client[c]
      /\ p \in Clients => client'[p] = [client[p] EXCEPT !.pc = pc]
      /\ client' \in [Clients -> Records]
  <2>1. CASE p = Sweeper
    BY <1>1, <1>2, <2>1, ClientsAssumption DEF Goto, TypeOK, Sweeper
  <2>2. CASE p \in Clients
    <3>1. client' = [client EXCEPT ![p].pc = pc] /\ p # Sweeper
      BY <1>2, <2>2, ClientsAssumption DEF Goto, Sweeper
    <3>2. [client[p] EXCEPT !.pc = pc] \in Records
      BY <1>1, <2>2 DEF Records
    <3> QED BY <1>1, <2>2, <3>1, <3>2 DEF TypeOK
  <2> QED BY <2>1, <2>2
<1>6. TypeOK'
  BY <1>1, <1>2, <1>3, <1>4, <1>5 DEF TypeOK
<1>7. EntryOK'
  BY <1>2, <1>4 DEF Static, EntryOK, Ttl, Blank
<1>8. ASSUME NEW c \in Clients, c # p PROVE Request(c)'
  <2>1. client'[c] = client[c] /\ Request(c) /\ expired'[c] = expired[c]
    BY <1>1, <1>2, <1>5, <1>8 DEF Static, RequestOK, TypeOK
  <2> QED BY <1>1, <1>2, <1>6, <2>1, OthersKeep DEF TypeOK, Versions
<1>9. ASSUME p \in Clients PROVE Request(p)'
  <2>1. /\ client'[p].pc = pc /\ client'[p].at = client[p].at /\ client'[p].key = client[p].key
        /\ client'[p].got = client[p].got /\ client'[p].todo = client[p].todo
        /\ client'[p].keys = client[p].keys /\ client'[p].since = client[p].since
        /\ client'[p].failed = client[p].failed
    BY <1>1, <1>5, <1>9 DEF Records
  <2>2. expired'[p] = found
    BY <1>1, <1>2 DEF TypeOK
  <2>3. Shape(p)'
    BY <1>1, <1>2, <1>9, <2>1, <2>2 DEF Request, Shape
  <2>4. Putting(p)' /\ Storing(p)' /\ Complete(p)'
    BY <1>1, <1>2, <1>9, <2>1 DEF Request, Putting, Storing, Complete
  <2>5. Known(p)' /\ Since(p)'
    BY <1>1, <1>2, <1>9, <2>1 DEF Request, Known, Since, Ttl
  <2> QED BY <2>3, <2>4, <2>5 DEF Request
<1> QED BY <1>6, <1>7, <1>8, <1>9 DEF Static, RequestOK

-----------------------------------------------------------------------------
(* How a step treats entries: what goroutine c does, seen from its place,   *)
(* its entry and its key alone.                                             *)

Using == {"check", "ready", "lock", "fetch", "store", "copy"}

\* It stays without an entry, or leaves one it has not been counted on.
Outside(c) == /\ client[c].pc \notin Using /\ client'[c].pc \notin Using
              /\ client'[c].at = None /\ UNCHANGED entry

\* It takes an entry from the map, or finds there is none.
Looks(c) == /\ client[c].pc \notin Using /\ client'[c].pc \notin Using
            /\ client'[c].key \in Keys /\ client'[c].at = slot[client'[c].key] /\ UNCHANGED entry

\* It is counted on its entry.
CountsIn(c) == /\ client[c].pc \in {"peek", "enter"} /\ client'[c].pc \in {"copy", "check", "lock"}
               /\ client[c].at \in Entries
               /\ client'[c].at = client[c].at /\ client'[c].key = client[c].key
               /\ client'[c].since = client[c].since
               /\ client'[c].pc = "copy" => ~IsExpired(client[c].at)
               /\ entry' = Used(client[c].at, 1)

\* It goes on with its entry, into or out of a lock.
Moves(c) == /\ client[c].pc \in Using \ {"copy"} /\ client'[c].pc \in Using \ {"copy"}
            /\ client[c].at \in Entries
            /\ client'[c].at = client[c].at /\ client'[c].key = client[c].key
            /\ client'[c].since = client[c].since
            /\ client'[c].pc = "ready" => Locking(client[c].at) = {} /\ ~IsExpired(client[c].at)
            /\ client'[c].pc = "fetch" => Locking(client[c].at) = {} /\ Reading(client[c].at) = {}
            /\ client'[c].pc = "store" => client[c].pc = "fetch"
            /\ UNCHANGED entry

\* It leaves its entry as it is, or with a new result.
Leaves(c) == /\ client[c].pc \in Using /\ client'[c].pc \notin Using /\ client'[c].at = None
             /\ client[c].at \in Entries
             /\ entry' = Used(client[c].at, -1)

Stores(c) == /\ client[c].pc \in {"store", "lock"} /\ client'[c].pc \notin Using /\ client'[c].at = None
             /\ client[c].pc = "lock" => CanLock(c)
             /\ client[c].at \in Entries
             /\ client[c].key \in Keys /\ client[c].got[client[c].key] \in Results
             /\ entry' = Stored(c, client[c].got[client[c].key])

Frame(c) == /\ UNCHANGED <<now, api, slot, orphaned, expired>>
            /\ \A d \in Clients \ {c} : client'[d] = client[d]

LEMMA Effects ==
  ASSUME Static, NEW c \in Clients,
         (DoStep(c) /\ ~Create(c)) \/ ReadStep(c) \/ Return(c) \/ \E keys \in SUBSET Keys : Call(c, keys)
  PROVE  Frame(c) /\ (Outside(c) \/ Looks(c) \/ CountsIn(c) \/ Moves(c) \/ Leaves(c) \/ Stores(c))
<1> USE DEF Searching, Holding, Using
<1>1. client[c] \in Records /\ Shape(c) /\ TypeOK
  BY DEF Static, TypeOK, RequestOK, Request
<1>2. ASSUME NEW r, Step(c, r) PROVE Frame(c) /\ client'[c] = r
  BY <1>1, <1>2 DEF Step, Frame, TypeOK
<1>3. ASSUME NEW e, NEW pc
      PROVE  /\ At(c, e, pc).pc = pc /\ At(c, e, pc).at = e /\ At(c, e, pc).key = client[c].key
             /\ At(c, e, pc).since = client[c].since
  BY <1>1 DEF At, Records
<1>4. ASSUME NEW got, NEW failed
      PROVE  Done(c, got, failed).pc = "done" /\ Done(c, got, failed).at = None
  BY <1>1 DEF Done, Records
<1>5. ASSUME NEW got
      PROVE  NextRead(c, got).pc \in {"done", "select", "read"} /\ NextRead(c, got).at = None
  <2> DEFINE pc == IF client[c].todo \ {client[c].key} = {} THEN "select" ELSE "read"
             r == [client[c] EXCEPT !.pc = pc, !.key = None, !.at = None,
                                    !.todo = client[c].todo \ {client[c].key}, !.got = got]
  <2>1. pc \in {"select", "read"}
    OBVIOUS
  <2> HIDE DEF pc
  <2>2. r.pc \in {"select", "read"} /\ r.at = None
    BY <1>1, <2>1 DEF Records
  <2>3. NextRead(c, got) \in {Done(c, got, FALSE), r}
    BY DEF NextRead, pc
  <2> QED BY <1>4, <2>2, <2>3
<1>6. CASE \E keys \in SUBSET Keys : Call(c, keys)
  <2>1. PICK keys \in SUBSET Keys : Call(c, keys)
    BY <1>6
  <2> DEFINE pc == IF api = "query" THEN "next" ELSE "read"
             r == [client[c] EXCEPT !.pc = pc, !.keys = keys, !.todo = keys,
                     !.since = [time |-> now, table |-> On(keys, table), newest |-> On(keys, newest)]]
  <2>2. Step(c, r) /\ UNCHANGED entry /\ client[c].pc = "idle"
    BY <2>1 DEF Call
  <2>3. pc \in {"next", "read"}
    OBVIOUS
  <2> HIDE DEF pc
  <2>4. r.pc = pc /\ r.at = None
    BY <1>1, <2>2 DEF Records, Shape
  <2> QED BY <1>2, <2>2, <2>3, <2>4 DEF Outside
<1>7. CASE Return(c)
  BY <1>1, <1>7 DEF Return, Frame, Outside, Idle, TypeOK
<1>8. CASE PeekMiss(c) \/ SelectFails(c)
  <2>1. CASE PeekMiss(c)
    <3>1. Step(c, NextRead(c, client[c].got)) /\ UNCHANGED entry /\ client[c].pc = "peek"
      BY <2>1 DEF PeekMiss
    <3>2. Frame(c) /\ client'[c] = NextRead(c, client[c].got)
      BY <1>2, <3>1
    <3> QED BY <1>5, <3>1, <3>2 DEF Outside
  <2>2. CASE SelectFails(c)
    <3>1. Step(c, Done(c, client[c].got, TRUE)) /\ UNCHANGED entry /\ client[c].pc = "select"
      BY <2>2 DEF SelectFails
    <3>2. Frame(c) /\ client'[c] = Done(c, client[c].got, TRUE)
      BY <1>2, <3>1
    <3> QED BY <1>4, <3>1, <3>2 DEF Outside
  <2> QED BY <1>8, <2>1, <2>2
<1>9. CASE Select(c)
  <2>1. PICK got, put, failed :
          /\ Step(c, IF put = {} THEN Done(c, got, failed)
                     ELSE [client[c] EXCEPT !.pc = "next", !.todo = put, !.got = got, !.failed = failed])
          /\ client[c].pc = "select" /\ UNCHANGED entry
    BY <1>9 DEF Select
  <2> DEFINE r == [client[c] EXCEPT !.pc = "next", !.todo = put, !.got = got, !.failed = failed]
  <2>2. r.pc = "next" /\ r.at = None
    BY <1>1, <2>1 DEF Records, Shape
  <2> HIDE DEF r
  <2>3. Step(c, Done(c, got, failed)) \/ Step(c, r)
    BY <2>1 DEF r
  <2> QED BY <1>2, <1>4, <2>1, <2>2, <2>3 DEF Outside
<1>10. CASE \E k \in Keys : Peek(c, k) \/ Lookup(c, k)
  <2>1. PICK k \in Keys : Peek(c, k) \/ Lookup(c, k)
    BY <1>10
  <2> DEFINE pc == IF client[c].pc = "read" THEN "peek" ELSE IF slot[k] # None THEN "enter"
                   ELSE IF Count >= MaxSize THEN "scan" ELSE "create"
  <2>2. pc \in {"peek", "enter", "scan", "create"} /\ client[c].pc \in {"read", "next"} /\ UNCHANGED entry
    BY <2>1 DEF Peek, Lookup
  <2> DEFINE r == [client[c] EXCEPT !.pc = pc, !.key = k, !.at = slot[k]]
  <2>5. Step(c, r)
    <3>1. CASE Peek(c, k)
      BY <3>1 DEF Peek
    <3>2. CASE Lookup(c, k)
      <4>1. client[c].pc = "next"
        BY <3>2 DEF Lookup
      <4>2. pc = IF slot[k] # None THEN "enter" ELSE IF Count >= MaxSize THEN "scan" ELSE "create"
        BY <4>1
      <4>3. Step(c, [client[c] EXCEPT !.key = k, !.at = slot[k],
                       !.pc = IF slot[k] # None THEN "enter" ELSE IF Count >= MaxSize THEN "scan" ELSE "create"])
        BY <3>2 DEF Lookup
      <4>4. r = [client[c] EXCEPT !.key = k, !.at = slot[k],
                       !.pc = IF slot[k] # None THEN "enter" ELSE IF Count >= MaxSize THEN "scan" ELSE "create"]
        <5> HIDE DEF pc
        <5> QED BY <1>1, <4>2 DEF Records
      <4> HIDE DEF r
      <4> QED BY <4>3, <4>4
    <3> QED BY <2>1, <3>1, <3>2
  <2> HIDE DEF pc
  <2>3. client'[c] = r /\ Frame(c)
    BY <1>2, <2>5
  <2>4. r.pc = pc /\ r.key = k /\ r.at = slot[k]
    BY <1>1 DEF Records
  <2> HIDE DEF r
  <2> QED BY <2>2, <2>3, <2>4 DEF Looks
<1>11. CASE LookupAgain(c)
  BY <1>1, <1>2, <1>3, <1>11 DEF LookupAgain, Looks, Shape, Records
<1>12. CASE PeekHit(c)
  <2>1. /\ client[c].at \in Entries /\ client[c].pc = "peek" /\ ~IsExpired(client[c].at)
        /\ entry' = Used(client[c].at, 1)
        /\ client'[c] = [client[c] EXCEPT !.pc = "copy"] /\ Frame(c)
    BY <1>1, <1>2, <1>12 DEF PeekHit, Found, Records
  <2> QED BY <1>1, <2>1 DEF CountsIn, Records
<1>13. CASE Enter(c)
  BY <1>1, <1>2, <1>3, <1>13 DEF Enter, CountsIn, AfterEnter, Shape, Records
<1>14. CASE Check(c) \/ Ready(c) \/ FillMiss(c)
  <2>1. PICK pc \in {"lock", "ready", "fetch"} :
          /\ Step(c, At(c, client[c].at, pc)) /\ UNCHANGED entry
          /\ client[c].pc \in {"check", "ready", "lock"}
          /\ pc = "ready" => Locking(client[c].at) = {} /\ ~IsExpired(client[c].at)
          /\ pc = "fetch" => Locking(client[c].at) = {} /\ Reading(client[c].at) = {}
    BY <1>14 DEF Check, Ready, FillMiss, CanLock
  <2>2. client[c].at \in Entries
    BY <1>1, <2>1 DEF Shape, Records
  <2> QED BY <1>2, <1>3, <2>1, <2>2 DEF Moves
<1>15. CASE Fetch(c)
  <2> DEFINE r == [client[c] EXCEPT !.pc = "store", !.got[client[c].key] = Fresh(client[c].key)]
  <2>1. Step(c, r) /\ client[c].pc = "fetch" /\ UNCHANGED entry /\ client[c].at \in Entries
    BY <1>1, <1>15 DEF Fetch, Shape, Records
  <2>2. r.pc = "store" /\ r.at = client[c].at /\ r.key = client[c].key /\ r.since = client[c].since
    BY <1>1 DEF Records
  <2> HIDE DEF r
  <2> QED BY <1>2, <2>1, <2>2 DEF Moves
<1>16. CASE Copy(c) \/ NotReady(c) \/ FillHit(c) \/ FetchFails(c)
  <2>1. client[c].pc \in Using /\ client[c].at \in Entries /\ entry' = Used(client[c].at, -1)
    BY <1>1, <1>16 DEF Copy, NotReady, FillHit, FetchFails, CanLock, Shape, Records
  <2>2. Frame(c) /\ client'[c].pc \notin Using /\ client'[c].at = None
    <3>1. \/ \E got : Step(c, NextRead(c, got))
          \/ \E got, failed : Step(c, Done(c, got, failed))
      BY <1>16 DEF Copy, NotReady, FillHit, FetchFails
    <3>2. ASSUME NEW got, Step(c, NextRead(c, got))
          PROVE  Frame(c) /\ client'[c].pc \notin Using /\ client'[c].at = None
      <4>1. Frame(c) /\ client'[c] = NextRead(c, got)
        BY <1>2, <3>2
      <4> QED BY <1>5, <4>1
    <3>3. ASSUME NEW got, NEW failed, Step(c, Done(c, got, failed))
          PROVE  Frame(c) /\ client'[c].pc \notin Using /\ client'[c].at = None
      <4>1. Frame(c) /\ client'[c] = Done(c, got, failed)
        BY <1>2, <3>3
      <4> QED BY <1>4, <4>1
    <3> QED BY <3>1, <3>2, <3>3
  <2> QED BY <2>1, <2>2 DEF Leaves
<1>17. CASE Store(c) \/ Put(c)
  <2>1. /\ client[c].pc \in {"store", "lock"} /\ client[c].at \in Entries /\ client[c].key \in Keys
        /\ client[c].key \in client[c].todo
        /\ (client[c].pc = "lock" => CanLock(c))
        /\ client[c].pc = "lock" => api # "query"
        /\ entry' = Stored(c, client[c].got[client[c].key])
    BY <1>1, <1>17 DEF Store, Put, CanLock, Shape, Records
  <2>2. client[c].got[client[c].key] \in Results
    <3>1. client[c].got[client[c].key] # None
      <4>1. Request(c) /\ client[c].key \in Keys
        BY <2>1 DEF Static, RequestOK
      <4>2. CASE client[c].pc = "store"
        BY <4>1, <4>2 DEF Request, Storing
      <4>3. CASE client[c].pc = "lock"
        BY <2>1, <4>1, <4>3 DEF Request, Putting
      <4> QED BY <2>1, <4>2, <4>3
    <3> QED BY <1>1, <2>1, <3>1 DEF Records
  <2>3. Frame(c) /\ client'[c].pc \notin Using /\ client'[c].at = None
    <3> DEFINE rest == client[c].todo \ {client[c].key}
               r == [client[c] EXCEPT !.pc = "next", !.key = None, !.at = None, !.todo = rest]
    <3>1. Step(c, Done(c, client[c].got, FALSE)) \/ Step(c, Done(c, client[c].got, client[c].failed)) \/ Step(c, r)
      BY <1>17 DEF Store, Put
    <3>2. r.pc = "next" /\ r.at = None
      BY <1>1 DEF Records
    <3> HIDE DEF r
    <3>3. PICK f \in {FALSE, client[c].failed} : Step(c, Done(c, client[c].got, f)) \/ Step(c, r)
      BY <3>1
    <3>4. CASE Step(c, r)
      BY <1>2, <3>2, <3>4
    <3>5. CASE Step(c, Done(c, client[c].got, f))
      <4>1. Frame(c) /\ client'[c] = Done(c, client[c].got, f)
        BY <1>2, <3>5
      <4> QED BY <1>4, <4>1
    <3> QED BY <3>3, <3>4, <3>5
  <2> QED BY <2>1, <2>2, <2>3 DEF Stores
<1> QED BY <1>6, <1>7, <1>8, <1>9, <1>10, <1>11, <1>12, <1>13, <1>14, <1>15, <1>16, <1>17 DEF DoStep, ReadStep

-----------------------------------------------------------------------------
(* The inductive invariant.                                                 *)

Readers == \A c \in Clients : Reader(c)

\* A goroutine in an entry's write lock is alone there.
Exclusive == \A c, d \in Clients :
               c # d /\ client[c].at = client[d].at /\ client[c].pc \in {"fetch", "store"}
                 => client[d].pc \notin {"fetch", "store", "ready"}

\* A goroutine's entry is the one in the map, unless the cleanup has taken it away.
Attached == \A c \in Clients : client[c].at # None =>
              client[c].key \in Keys /\ (slot[client[c].key] = client[c].at \/ client[c].key \in orphaned)

IInv == Static /\ Readers /\ UseCounted /\ Exclusive /\ Attached

\* The effects of a goroutine that does not change the map.
Effect(c) == Frame(c) /\ (Outside(c) \/ Looks(c) \/ CountsIn(c) \/ Moves(c) \/ Leaves(c) \/ Stores(c))

LEMMA HoldsEntry ==
  ASSUME Static, NEW c \in Clients, client[c].pc \in Using
  PROVE  client[c].at \in Entries
BY DEF Static, TypeOK, Records, RequestOK, Request, Shape, Holding, Using

\* A valid entry has a result.
LEMMA ValidResult ==
  ASSUME Static, NEW e \in Entries, ~IsExpired(e)
  PROVE  entry[e].result # None /\ now <= entry[e].validAt
<1>1. now \in 1 .. MaxTime /\ entry[e].validAt \in 0 .. MaxTime + TTL
  BY DEF Static, TypeOK
<1>2. now <= entry[e].validAt
  BY <1>1 DEF IsExpired
<1> QED BY <1>1, <1>2 DEF Static, EntryOK

\* Results stay, or are replaced by ones that are valid from now on.
LEMMA ResultsStay ==
  ASSUME Static, NEW c \in Clients, Effect(c), NEW e \in Entries
  PROVE  \/ entry'[e].result = entry[e].result /\ entry'[e].validAt = entry[e].validAt
         \/ entry'[e].result # None /\ now <= entry'[e].validAt
<1>1. CASE UNCHANGED entry
  BY <1>1
<1>2. CASE \E n \in {1, -1} : entry' = Used(client[c].at, n)
  BY <1>2 DEF Static, TypeOK, Used
<1>3. CASE Stores(c)
  <2> DEFINE r == client[c].got[client[c].key]
             s == [version |-> r.version, stored |-> now,
                   own |-> r.version >= client[c].since.table[client[c].key]]
  <2>1. r \in Results /\ client[c].at \in Entries /\ client[c].key \in Keys /\ entry' = Stored(c, r)
    BY <1>3 DEF Stores
  <2>2. s \in Results /\ Ttl(r.version) \in Nat /\ now \in Nat
    BY <2>1, TtlType DEF Static, TypeOK, Results
  <2> HIDE DEF r
  <2>3. CASE e = client[c].at
    <3>1. entry'[e].result = s /\ entry'[e].validAt = now + Ttl(r.version)
      BY <2>1, <2>3 DEF Static, TypeOK, Stored
    <3> HIDE DEF s
    <3> QED BY <2>2, <3>1
  <2>4. CASE e # client[c].at
    BY <2>1, <2>4 DEF Static, TypeOK, Stored
  <2> QED BY <2>3, <2>4
<1> QED BY <1>1, <1>2, <1>3 DEF Effect, Outside, Looks, CountsIn, Moves, Leaves

LEMMA ReadersKept ==
  ASSUME Static, Readers, NEW c \in Clients, Effect(c)
  PROVE  Readers'
<1> SUFFICES ASSUME NEW d \in Clients, client'[d].pc \in {"ready", "copy"}
             PROVE  entry'[client'[d].at].result # None /\ client'[d].since.time <= entry'[client'[d].at].validAt
  BY DEF Readers, Reader
<1>1. client[d].since.time <= now /\ client[d].since.time \in Nat /\ now \in Nat
  BY DEF Static, TypeOK, Records, RequestOK, Request, Since
<1>2. /\ client'[d].at = client[d].at /\ client'[d].since = client[d].since
      /\ client[d].at \in Entries
      /\ entry[client[d].at].result # None /\ client[d].since.time <= entry[client[d].at].validAt
  <2>1. CASE d # c
    <3>1. client'[d] = client[d]
      BY <2>1 DEF Effect, Frame
    <3> QED BY <3>1, HoldsEntry DEF Readers, Reader, Using
  <2>2. CASE d = c
    <3>1. CASE CountsIn(c)
      <4>1. client[c].at \in Entries /\ client'[c].at = client[c].at /\ client'[c].since = client[c].since
            /\ ~IsExpired(client[c].at)
        BY <2>2, <3>1 DEF CountsIn, Effect, Frame, IsExpired
      <4>2. entry[client[c].at].result # None /\ now <= entry[client[c].at].validAt
        BY <4>1, ValidResult
      <4>3. entry[client[c].at].validAt \in Int
        BY <4>1 DEF Static, TypeOK
      <4> QED BY <1>1, <2>2, <4>1, <4>2, <4>3
    <3>2. CASE Moves(c)
      <4>1. client[c].at \in Entries /\ client'[c].at = client[c].at /\ client'[c].since = client[c].since
            /\ ~IsExpired(client[c].at)
        BY <2>2, <3>2 DEF Moves, Effect, Frame, IsExpired, Using
      <4>2. entry[client[c].at].result # None /\ now <= entry[client[c].at].validAt
        BY <4>1, ValidResult
      <4>3. entry[client[c].at].validAt \in Int
        BY <4>1 DEF Static, TypeOK
      <4> QED BY <1>1, <2>2, <4>1, <4>2, <4>3
    <3> QED BY <2>2, <3>1, <3>2 DEF Effect, Outside, Looks, Leaves, Stores, Using
  <2> QED BY <2>1, <2>2
<1>3. \/ /\ entry'[client[d].at].result = entry[client[d].at].result
         /\ entry'[client[d].at].validAt = entry[client[d].at].validAt
      \/ entry'[client[d].at].result # None /\ now <= entry'[client[d].at].validAt
  BY <1>2, ResultsStay
<1>4. CASE entry'[client[d].at].result # None /\ now <= entry'[client[d].at].validAt
  <2>1. entry'[client[d].at].validAt \in Int
    <3>1. CASE UNCHANGED entry
      BY <1>2, <3>1 DEF Static, TypeOK
    <3>2. CASE \E n \in {1, -1} : entry' = Used(client[c].at, n)
      BY <1>2, <3>2 DEF Static, TypeOK, Used
    <3>3. CASE Stores(c)
      <4> DEFINE r == client[c].got[client[c].key]
      <4>1. r \in Results /\ client[c].at \in Entries /\ client[c].key \in Keys /\ entry' = Stored(c, r) /\ TypeOK
        BY <3>3 DEF Stores, Static
      <4> HIDE DEF r
      <4>2. entry' \in [Entries -> [result : Results \union {None}, validAt : 0 .. MaxTime + TTL, inUse : Int]]
        BY <4>1, StoredType
      <4> QED BY <1>2, <4>2
    <3> QED BY <3>1, <3>2, <3>3 DEF Effect, Outside, Looks, CountsIn, Moves, Leaves
  <2> QED BY <1>1, <1>2, <1>4, <2>1
<1> QED BY <1>2, <1>3, <1>4

LEMMA ExclusiveKept ==
  ASSUME Static, Exclusive, NEW c \in Clients, Effect(c)
  PROVE  Exclusive'
<1>1. \A d \in Clients \ {c} : client'[d] = client[d]
  BY DEF Effect, Frame
<1>2. CASE client'[c].pc \notin {"ready", "fetch", "store"}
  BY <1>1, <1>2 DEF Exclusive
<1>3. CASE client'[c].pc \in {"ready", "fetch", "store"}
  <2>1. Moves(c)
    BY <1>3 DEF Effect, Outside, Looks, CountsIn, Leaves, Stores, Using
  <2>2. CASE client'[c].pc = "ready"
    <3>1. client'[c].at = client[c].at /\ Locking(client[c].at) = {}
      BY <2>1, <2>2 DEF Moves
    <3> QED BY <1>1, <2>2, <3>1 DEF Exclusive, Locking
  <2>3. CASE client'[c].pc = "fetch"
    <3>1. client'[c].at = client[c].at /\ Locking(client[c].at) = {} /\ Reading(client[c].at) = {}
      BY <2>1, <2>3 DEF Moves
    <3> QED BY <1>1, <2>3, <3>1 DEF Exclusive, Locking, Reading
  <2>4. CASE client'[c].pc = "store"
    <3>1. client'[c].at = client[c].at /\ client[c].pc = "fetch"
      BY <2>1, <2>4 DEF Moves
    <3> QED BY <1>1, <2>4, <3>1 DEF Exclusive
  <2> QED BY <1>3, <2>2, <2>3, <2>4
<1> QED BY <1>2, <1>3

LEMMA AttachedKept ==
  ASSUME Static, Attached, NEW c \in Clients, Effect(c)
  PROVE  Attached'
<1>1. \A d \in Clients \ {c} : client'[d] = client[d]
  BY DEF Effect, Frame
<1>2. slot' = slot /\ orphaned' = orphaned
  BY DEF Effect, Frame
<1> SUFFICES ASSUME client'[c].at # None
             PROVE  /\ client'[c].key \in Keys
                    /\ slot[client'[c].key] = client'[c].at \/ client'[c].key \in orphaned
  BY <1>1, <1>2 DEF Attached
<1>3. CASE Looks(c)
  BY <1>3 DEF Looks
<1>4. CASE CountsIn(c) \/ Moves(c)
  BY <1>4 DEF CountsIn, Moves, Attached
<1> QED BY <1>3, <1>4 DEF Effect, Outside, Leaves, Stores

\* The use count of every entry follows the goroutines.
LEMMA UseKept ==
  ASSUME Static, UseCounted, NEW c \in Clients, Effect(c)
  PROVE  UseCounted'
<1>1. \A d \in Clients \ {c} : client'[d] = client[d]
  BY DEF Effect, Frame
<1> SUFFICES ASSUME NEW e \in Entries
             PROVE  entry'[e].inUse = Cardinality(InUse(e)')
  BY DEF UseCounted
<1>2. /\ entry[e].inUse = Cardinality(InUse(e)) /\ InUse(e) \subseteq Clients
      /\ IsFiniteSet(InUse(e)) /\ Cardinality(InUse(e)) \in Nat
  <2>1. InUse(e) \subseteq Clients
    BY DEF InUse
  <2> QED BY <2>1, FS_Subset, FS_CardinalityType DEF UseCounted
<1>3. CASE Outside(c) \/ Looks(c) \/ Moves(c)
  <2>1. entry' = entry
    BY <1>3 DEF Outside, Looks, Moves
  <2>2. \A d \in Clients : d \in InUse(e)' <=> d \in InUse(e)
    BY <1>1, <1>3 DEF InUse, Using, Outside, Looks, Moves
  <2>3. InUse(e)' = InUse(e)
    BY <2>2 DEF InUse
  <2> QED BY <1>2, <2>1, <2>3
<1>4. CASE CountsIn(c)
  <2>1. /\ client[c].pc \notin Using /\ client'[c].pc \in Using /\ client'[c].at = client[c].at
        /\ client[c].at \in Entries /\ entry' = Used(client[c].at, 1)
    BY <1>4 DEF CountsIn, Using
  <2>2. CASE e = client[c].at
    <3>1. c \notin InUse(e) /\ InUse(e)' = InUse(e) \union {c}
      BY <1>1, <2>1, <2>2 DEF InUse, Using
    <3>2. Cardinality(InUse(e)') = Cardinality(InUse(e)) + 1
      BY <1>2, <3>1, FS_AddElement
    <3>3. entry'[e].inUse = entry[e].inUse + 1
      BY <2>1, <2>2 DEF Used, Static, TypeOK
    <3> QED BY <1>2, <3>2, <3>3
  <2>3. CASE e # client[c].at
    <3>1. InUse(e)' = InUse(e)
      BY <1>1, <2>1, <2>3 DEF InUse, Using
    <3>2. entry'[e] = entry[e]
      BY <2>1, <2>3 DEF Used, Static, TypeOK
    <3> QED BY <1>2, <3>1, <3>2
  <2> QED BY <2>2, <2>3
<1>5. CASE Leaves(c) \/ Stores(c)
  <2>1. /\ client[c].pc \in Using /\ client'[c].pc \notin Using
        /\ client[c].at \in Entries
    BY <1>5 DEF Leaves, Stores, Using
  <2>2. CASE e = client[c].at
    <3>1. c \in InUse(e) /\ InUse(e)' = InUse(e) \ {c}
      BY <1>1, <2>1, <2>2 DEF InUse, Using
    <3>2. Cardinality(InUse(e)') = Cardinality(InUse(e)) - 1
      BY <1>2, <3>1, FS_RemoveElement
    <3>3. entry'[e].inUse = entry[e].inUse - 1
      BY <1>5, <2>1, <2>2 DEF Leaves, Stores, Used, Stored, Static, TypeOK
    <3> QED BY <1>2, <3>2, <3>3
  <2>3. CASE e # client[c].at
    <3>1. InUse(e)' = InUse(e)
      BY <1>1, <2>1, <2>3 DEF InUse, Using
    <3>2. entry'[e] = entry[e]
      BY <1>5, <2>1, <2>3 DEF Leaves, Stores, Used, Stored, Static, TypeOK
    <3> QED BY <1>2, <3>1, <3>2
  <2> QED BY <2>2, <2>3
<1> QED BY <1>3, <1>4, <1>5 DEF Effect


-----------------------------------------------------------------------------
(* The steps that change the map.                                           *)

\* A goroutine takes the entry it has found, or a new one, under the shard's lock.
LEMMA CreateKeeps ==
  ASSUME IInv, NEW c \in Clients, Create(c)
  PROVE  Readers' /\ UseCounted' /\ Exclusive' /\ Attached'
<1>1. client[c] \in Records /\ Shape(c) /\ TypeOK /\ client[c].pc = "create"
  BY DEF IInv, Static, TypeOK, RequestOK, Request, Create
<1>2. client[c].key \in Keys /\ client[c].at = None
  BY <1>1 DEF Shape, Searching, Records
<1> DEFINE k == client[c].key
<1>3. PICK e \in Entries : /\ Install(c, e)
                           /\ e = slot[k] \/ (slot[k] = None /\ e \in Free)
  <2>1. CASE slot[k] # None
    BY <1>1, <1>2, <2>1 DEF Create, TypeOK
  <2>2. CASE slot[k] = None
    <3> DEFINE e == CHOOSE f \in Free : TRUE
    <3>1. Free # {} /\ Install(c, e)
      BY <2>2 DEF Create
    <3>2. e \in Free
      BY <3>1
    <3> HIDE DEF e
    <3> QED BY <2>2, <3>1, <3>2 DEF Free
  <2> QED BY <2>1, <2>2
<1>4. e # slot[k] => slot[k] = None /\ \A d \in Clients : client[d].at # e
  BY <1>3 DEF Free
<1>5. /\ \A d \in Clients \ {c} : client'[d] = client[d]
      /\ client'[c].pc = AfterEnter /\ client'[c].at = e /\ client'[c].key = k
      /\ slot' = [slot EXCEPT ![k] = e] /\ orphaned' = orphaned
      /\ entry' = NewEntry(e, k, 1)
  BY <1>1, <1>3 DEF Install, At, Records, TypeOK
<1>6. client'[c].pc \in {"check", "lock"}
  BY <1>5 DEF AfterEnter
<1> HIDE DEF k
<1>7. Readers'
  <2> SUFFICES ASSUME NEW d \in Clients, client'[d].pc \in {"ready", "copy"}
               PROVE  entry'[client'[d].at].result # None /\ client'[d].since.time <= entry'[client'[d].at].validAt
    BY DEF Readers, Reader
  <2>1. d # c /\ client'[d] = client[d]
    BY <1>5, <1>6
  <2>2. client[d].at \in Entries /\ Reader(d)
    BY <2>1, HoldsEntry DEF IInv, Readers, Using
  <2>3. /\ entry'[client[d].at].result = entry[client[d].at].result
        /\ entry'[client[d].at].validAt = entry[client[d].at].validAt
    BY <1>1, <1>4, <1>5, <2>2 DEF NewEntry, Used, TypeOK
  <2> QED BY <2>1, <2>2, <2>3 DEF Reader
<1>8. UseCounted'
  <2> SUFFICES ASSUME NEW f \in Entries PROVE entry'[f].inUse = Cardinality(InUse(f)')
    BY DEF UseCounted
  <2>1. /\ entry[f].inUse = Cardinality(InUse(f)) /\ IsFiniteSet(InUse(f)) /\ Cardinality(InUse(f)) \in Nat
    <3>1. InUse(f) \subseteq Clients
      BY DEF InUse
    <3> QED BY <3>1, FS_Subset, FS_CardinalityType DEF UseCounted, IInv
  <2>2. CASE f # e
    <3>1. InUse(f)' = InUse(f)
      BY <1>1, <1>2, <1>5, <2>2 DEF InUse
    <3>2. entry'[f] = entry[f]
      BY <1>1, <1>5, <2>2 DEF NewEntry, Used, TypeOK
    <3> QED BY <2>1, <3>1, <3>2
  <2>3. CASE f = e /\ e = slot[k]
    <3>1. c \notin InUse(f) /\ InUse(f)' = InUse(f) \union {c}
      BY <1>1, <1>5, <1>6, <2>3 DEF InUse
    <3>2. Cardinality(InUse(f)') = Cardinality(InUse(f)) + 1
      BY <2>1, <3>1, FS_AddElement
    <3>3. entry'[f].inUse = entry[f].inUse + 1
      BY <1>1, <1>5, <2>3 DEF NewEntry, Used, TypeOK
    <3> QED BY <2>1, <3>2, <3>3
  <2>4. CASE f = e /\ e # slot[k]
    <3>1. InUse(f)' = {c}
      BY <1>4, <1>5, <1>6, <2>4 DEF InUse
    <3>2. Cardinality(InUse(f)') = 1
      BY <3>1, FS_Singleton
    <3>3. entry'[f].inUse = 1
      BY <1>1, <1>5, <2>4 DEF NewEntry, Blank, TypeOK
    <3> QED BY <3>2, <3>3
  <2> QED BY <2>2, <2>3, <2>4
<1>9. Exclusive'
  BY <1>5, <1>6 DEF IInv, Exclusive
<1>10. Attached'
  <2> SUFFICES ASSUME NEW d \in Clients, client'[d].at # None
               PROVE  /\ client'[d].key \in Keys
                      /\ slot'[client'[d].key] = client'[d].at \/ client'[d].key \in orphaned'
    BY DEF Attached
  <2>1. CASE d = c
    BY <1>1, <1>2, <1>5, <2>1 DEF TypeOK, k
  <2>2. CASE d # c
    <3>1. client'[d] = client[d]
      BY <1>5, <2>2
    <3>2. client[d].key \in Keys /\ (slot[client[d].key] = client[d].at \/ client[d].key \in orphaned)
      BY <3>1 DEF IInv, Attached
    <3>3. CASE client[d].key = k
      BY <1>1, <1>2, <1>4, <1>5, <3>1, <3>2, <3>3 DEF TypeOK
    <3>4. CASE client[d].key # k
      BY <1>1, <1>5, <3>1, <3>2, <3>4 DEF TypeOK
    <3> QED BY <3>3, <3>4
  <2> QED BY <2>1, <2>2
<1> QED BY <1>7, <1>8, <1>9, <1>10

\* The cleanup blanks only entries that nobody holds; keys it takes from a holder
\* are marked.
LEMMA CleanupKeeps ==
  ASSUME IInv, NEW p \in Clients \union {Sweeper}, Scan(p) \/ Delete(p)
  PROVE  Readers' /\ UseCounted' /\ Exclusive' /\ Attached'
<1> DEFINE held(e) == \E c \in Clients : client[c].at = e
<1>1. TypeOK /\ (p \in Clients => client[p] \in Records /\ Shape(p) /\ client[p].pc \in {"scan", "delete"})
  BY ClientsAssumption DEF IInv, Static, TypeOK, RequestOK, Request, Shape, Scan, Delete, Sweeper
<1>2. \A c \in Clients : /\ client'[c].at = client[c].at /\ client'[c].key = client[c].key
                         /\ client'[c].since = client[c].since
                         /\ \/ client'[c].pc = client[c].pc
                            \/ client[c].pc \in {"scan", "delete"} /\ client'[c].pc \in {"delete", "again"}
  <2>1. PICK pc \in {"delete", "again"} : client' = Goto(p, pc)
    BY DEF Scan, Delete
  <2>2. CASE p = Sweeper
    BY <2>1, <2>2 DEF Goto
  <2>3. CASE p # Sweeper
    <3>1. p \in Clients /\ client' = [client EXCEPT ![p].pc = pc]
      BY <2>1, <2>3 DEF Goto
    <3> QED BY <1>1, <3>1 DEF TypeOK, Records
  <2> QED BY <2>2, <2>3
<1>3. \A e \in Entries : entry'[e] = entry[e] \/ (~held(e) /\ entry'[e] = Blank)
  BY <1>1 DEF Scan, Delete, TypeOK
<1>4. \A k \in Keys : slot'[k] = slot[k] \/ (held(slot[k]) => k \in orphaned')
  BY <1>1 DEF Scan, Delete, TypeOK
<1>5. orphaned \subseteq orphaned'
  BY DEF Scan, Delete
<1>6. Readers'
  <2> SUFFICES ASSUME NEW d \in Clients, client'[d].pc \in {"ready", "copy"}
               PROVE  entry'[client'[d].at].result # None /\ client'[d].since.time <= entry'[client'[d].at].validAt
    BY DEF Readers, Reader
  <2>1. client[d].pc = client'[d].pc /\ client'[d].at = client[d].at /\ client'[d].since = client[d].since
    BY <1>2
  <2>2. client[d].at \in Entries /\ Reader(d)
    BY <2>1, HoldsEntry DEF IInv, Readers, Using
  <2>3. entry'[client[d].at] = entry[client[d].at]
    BY <1>3, <2>2
  <2> QED BY <2>1, <2>2, <2>3 DEF Reader
<1>7. UseCounted'
  <2> SUFFICES ASSUME NEW e \in Entries PROVE entry'[e].inUse = Cardinality(InUse(e)')
    BY DEF UseCounted
  <2>1. InUse(e)' = InUse(e)
    BY <1>2 DEF InUse
  <2>2. entry[e].inUse = Cardinality(InUse(e))
    BY DEF IInv, UseCounted
  <2>3. CASE entry'[e] = entry[e]
    BY <2>1, <2>2, <2>3
  <2>4. CASE ~held(e) /\ entry'[e] = Blank
    <3>1. InUse(e) = {}
      BY <2>4 DEF InUse
    <3>2. Cardinality(InUse(e)') = 0
      BY <2>1, <3>1, FS_EmptySet
    <3> QED BY <2>4, <3>2 DEF Blank
  <2> QED BY <1>3, <2>3, <2>4
<1>8. Exclusive'
  BY <1>2 DEF IInv, Exclusive
<1>9. Attached'
  <2> SUFFICES ASSUME NEW c \in Clients, client[c].at # None
               PROVE  /\ client[c].key \in Keys
                      /\ slot'[client[c].key] = client[c].at \/ client[c].key \in orphaned'
    BY <1>2 DEF Attached
  <2>1. client[c].key \in Keys /\ (slot[client[c].key] = client[c].at \/ client[c].key \in orphaned)
    BY DEF IInv, Attached
  <2> QED BY <1>4, <1>5, <2>1
<1> QED BY <1>6, <1>7, <1>8, <1>9

\* The clock and the rows touch no goroutine and no entry.
LEMMA WorldKeeps ==
  ASSUME IInv, Tick \/ \E k \in Keys : Update(k)
  PROVE  Readers' /\ UseCounted' /\ Exclusive' /\ Attached'
<1>1. UNCHANGED <<client, entry, slot, orphaned>>
  BY DEF Tick, Update
<1>2. \A e \in Entries : InUse(e)' = InUse(e)
  BY <1>1 DEF InUse
<1> QED BY <1>1, <1>2 DEF IInv, Readers, Reader, UseCounted, Exclusive, Attached

LEMMA EffectKeeps ==
  ASSUME IInv, NEW c \in Clients,
         (DoStep(c) /\ ~Create(c)) \/ ReadStep(c) \/ Return(c) \/ \E keys \in SUBSET Keys : Call(c, keys)
  PROVE  Readers' /\ UseCounted' /\ Exclusive' /\ Attached'
<1>1. Effect(c)
  BY Effects DEF IInv, Effect
<1> QED BY <1>1, ReadersKept, UseKept, ExclusiveKept, AttachedKept DEF IInv

LEMMA StaticClient ==
  ASSUME IInv, NEW c \in Clients, DoStep(c) \/ ReadStep(c) \/ Return(c)
  PROVE  Static'
<1>1. Static
  BY DEF IInv
<1>2. CASE DoStep(c)
  BY <1>1, <1>2, DoMoves, DoEnds, StaticLookup, StaticFetch, StaticCreate, StaticPut DEF DoStep
<1>3. CASE ReadStep(c)
  BY <1>1, <1>3, StaticPeek, StaticRead, StaticSelect, DoEnds DEF ReadStep, IInv, Readers
<1> QED BY <1>1, <1>2, <1>3, StaticReturn

-----------------------------------------------------------------------------
LEMMA IInvInit == Init => IInv
<1> SUFFICES ASSUME Init PROVE IInv
  OBVIOUS
<1>1. TypeOK
  <2>1. now \in 1 .. MaxTime
    BY DEF Init
  <2>2. Idle \in Records /\ Blank \in [result : Results \union {None}, validAt : 0 .. MaxTime + TTL, inUse : Int]
    BY <2>1 DEF Init, Idle, Records, NoAnswers, Blank, Versions
  <2> QED BY <2>1, <2>2 DEF Init, TypeOK, Versions
<1>2. /\ client = [c \in Clients |-> Idle] /\ \A c \in Clients : expired[c] = {}
      /\ now = 1 /\ table = [k \in Keys |-> 0] /\ newest = [k \in Keys |-> 0]
      /\ entry = [e \in Entries |-> Blank]
  BY DEF Init
<1>3. ASSUME NEW c \in Clients PROVE Request(c)
  BY <1>2 DEF Request, Shape, Putting, Storing, Complete, Known, Since, Searching, Holding, Idle, NoAnswers
<1>4. EntryOK
  BY <1>2 DEF EntryOK, Blank
<1>5. Readers /\ Exclusive /\ Attached
  BY <1>2 DEF Readers, Reader, Exclusive, Attached, Idle
<1>6. UseCounted
  <2>1. ASSUME NEW e \in Entries PROVE InUse(e) = {}
    BY <1>2 DEF InUse, Idle
  <2> QED BY <1>2, <2>1, FS_EmptySet DEF UseCounted, Blank
<1> QED BY <1>1, <1>3, <1>4, <1>5, <1>6 DEF IInv, Static, RequestOK

LEMMA IInvNext == IInv /\ [Next]_vars => IInv'
<1> SUFFICES ASSUME IInv, [Next]_vars PROVE IInv'
  OBVIOUS
<1>1. CASE Tick \/ \E k \in Keys : Update(k)
  BY <1>1, StaticWorld, WorldKeeps DEF IInv
<1>2. CASE \E c \in Clients, keys \in SUBSET Keys : Call(c, keys)
  <2>1. PICK c \in Clients : \E keys \in SUBSET Keys : Call(c, keys)
    BY <1>2
  <2>2. Static'
    BY <2>1, StaticCall DEF IInv
  <2> QED BY <2>1, <2>2, EffectKeeps DEF IInv
<1>3. CASE \E c \in Clients : DoStep(c) \/ ReadStep(c) \/ Return(c)
  <2>1. PICK c \in Clients : DoStep(c) \/ ReadStep(c) \/ Return(c)
    BY <1>3
  <2>2. Static'
    BY <2>1, StaticClient
  <2>3. Readers' /\ UseCounted' /\ Exclusive' /\ Attached'
    BY <2>1, CreateKeeps, EffectKeeps
  <2> QED BY <2>2, <2>3 DEF IInv
<1>4. CASE \E p \in Clients \union {Sweeper} : Scan(p) \/ Delete(p)
  BY <1>4, StaticCleanup, CleanupKeeps DEF IInv
<1>5. CASE UNCHANGED vars
  <2>1. UNCHANGED <<now, table, api, slot, entry, client, expired, newest, orphaned>>
    BY <1>5 DEF vars
  <2>2. TypeOK'
    BY <2>1 DEF IInv, Static, TypeOK
  <2>3. RequestOK'
    BY <2>1, <2>2, OthersKeep DEF IInv, Static, RequestOK, TypeOK, Versions
  <2>4. EntryOK' /\ Readers' /\ Exclusive' /\ Attached'
    BY <2>1 DEF IInv, Static, EntryOK, Ttl, Readers, Reader, Exclusive, Attached
  <2>5. UseCounted'
    BY <2>1 DEF IInv, UseCounted, InUse
  <2> QED BY <2>2, <2>3, <2>4, <2>5 DEF IInv, Static
<1> QED BY <1>1, <1>2, <1>3, <1>4, <1>5 DEF Next, ClientStep

-----------------------------------------------------------------------------
(* Theorems of the specification.                                           *)

\* The variables keep their types, whatever requests, clock and database do.
THEOREM TypeCorrect == Spec => []TypeOK
<1>1. IInv => TypeOK
  BY DEF IInv, Static
<1> QED BY <1>1, IInvInit, IInvNext, PTL DEF Spec

\* inUse is exactly the number of goroutines that use the entry, although three places
\* raise it and only one of them holds the shard's lock (db_lockcache.go:78, 121, 128): the scan never
\* sees an entry as unused while a goroutine reads or fills it.
THEOREM Counted == Spec => []UseCounted
<1>1. IInv => UseCounted
  BY DEF IInv
<1> QED BY <1>1, IInvInit, IInvNext, PTL DEF Spec

\* At most one goroutine reads the database for a key, unless the cleanup has taken
\* the key's entry from one that had looked it up (db_lockcache.go:114-145).
THEOREM OneRead == Spec => []OneReadPerKey
<1>1. IInv => OneReadPerKey
  <2> SUFFICES ASSUME IInv, NEW c \in Clients, NEW d \in Clients, c # d,
                      client[c].pc \in {"fetch", "store"}, client[d].pc \in {"fetch", "store"},
                      client[c].key = client[d].key, client[c].key \notin orphaned
               PROVE  FALSE
    BY DEF OneReadPerKey
  <2>1. client[c].at \in Entries /\ client[d].at \in Entries
    BY HoldsEntry DEF IInv, Using
  <2>2. slot[client[c].key] = client[c].at /\ slot[client[d].key] = client[d].at
    BY <2>1 DEF IInv, Attached
  <2> QED BY <2>2 DEF IInv, Exclusive
<1> QED BY <1>1, IInvInit, IInvNext, PTL DEF Spec

\* Every answer was read in this request or stored at most a TTL before it began, and, but
\* for pools, is no older than the table was when the request that stored it began.
THEOREM Freshness == Spec => []AnswersFresh
<1>1. IInv => AnswersFresh
  <2> SUFFICES ASSUME IInv, NEW c \in Clients, client[c].pc = "done", ~client[c].failed,
                      NEW k \in client[c].keys
               PROVE  /\ api = "pools" \/ client[c].got[k].own
                      /\ client[c].since.time <= client[c].got[k].stored + Ttl(client[c].got[k].version)
    BY DEF AnswersFresh
  <2>1. Request(c) /\ k \in Keys
    BY DEF IInv, Static, TypeOK, RequestOK, Records
  <2> QED BY <2>1 DEF Request, Complete, Known
<1> QED BY <1>1, IInvInit, IInvNext, PTL DEF Spec

\* fn(e, true) gives up only on a result that was valid when the request began and has
\* expired since (db_lockcache.go:134-138): a caller never sees "cache not ready" for an entry
\* that was found empty.
THEOREM OnExpiry == Spec => FailsOnlyOnExpiry
<1>1. IInv => \A c \in Clients : NotReady(c) => now > client[c].since.time
  <2> SUFFICES ASSUME IInv, NEW c \in Clients, NotReady(c)
               PROVE  now > client[c].since.time
    OBVIOUS
  <2>1. client[c].pc = "ready" /\ ~Usable(client[c].at) /\ Static /\ Reader(c)
    BY DEF NotReady, IInv, Readers
  <2>2. client[c].at \in Entries
    BY <2>1, HoldsEntry DEF Using
  <2>3. now > entry[client[c].at].validAt /\ client[c].since.time <= entry[client[c].at].validAt
    BY <2>1, <2>2 DEF Reader, Usable, IsExpired
  <2>4. now \in Int /\ entry[client[c].at].validAt \in Int /\ client[c].since.time \in Int
    BY <2>1, <2>2 DEF Static, TypeOK, Records
  <2> QED BY <2>3, <2>4
<1>2. IInv /\ [Next]_vars => [\A c \in Clients : NotReady(c) => now > client[c].since.time]_vars
  BY <1>1
<1> QED BY <1>2, IInvInit, IInvNext, PTL DEF Spec, FailsOnlyOnExpiry

-----------------------------------------------------------------------------
(* Versions of a key                                                       *)

\* The requests that are answered, and the versions clients have been given.
Answered(c, k) == client[c].pc = "done" /\ ~client[c].failed /\ k \in client[c].keys

Answers(k) == {newest[k]} \union
              {client[c].got[k].version : c \in {d \in Clients : Answered(d, k)}}

\* The versions a key may still be answered with: of the table, of its entry, and
\* of a read that is about to be stored.
Source(k) == {table[k]} \union
             (IF slot[k] # None /\ entry[slot[k]].result # None
              THEN {entry[slot[k]].result.version} ELSE {}) \union
             {client[c].got[k].version :
                c \in {d \in Clients : client[d].pc = "store" /\ client[d].key = k}}

\* What is yet to come is no older than what has been given, and no newer than
\* the table.
InOrder(k) == /\ \A x \in Answers(k), y \in Source(k) : x <= y
              /\ \A y \in Source(k) : y <= table[k]
              /\ \A c \in Clients : ~GoesBack(c, k)

\* An entry has one key: in the map, and for the goroutines that hold it.
Apart == /\ \A j, k \in Keys : slot[j] # None /\ slot[j] = slot[k] => j = k
         /\ \A c \in Clients, k \in Keys :
              client[c].at # None /\ slot[k] = client[c].at => client[c].key = k

Ordered == api = "query" => \A k \in Keys \ orphaned : InOrder(k)

MInv == IInv /\ Apart /\ Ordered

-----------------------------------------------------------------------------
(* An entry has one key                                                    *)

LEMMA ApartKept ==
  ASSUME Static, Apart, NEW c \in Clients, Effect(c)
  PROVE  Apart'
<1>1. \A d \in Clients \ {c} : client'[d] = client[d]
  BY DEF Effect, Frame
<1>2. slot' = slot
  BY DEF Effect, Frame
<1> SUFFICES ASSUME NEW k \in Keys, client'[c].at # None, slot[k] = client'[c].at
             PROVE  client'[c].key = k
  BY <1>1, <1>2 DEF Apart
<1>3. CASE Looks(c)
  BY <1>3 DEF Looks, Apart
<1>4. CASE CountsIn(c) \/ Moves(c)
  BY <1>4 DEF CountsIn, Moves, Apart
<1> QED BY <1>3, <1>4 DEF Effect, Outside, Leaves, Stores

LEMMA ApartCreate ==
  ASSUME IInv, Apart, NEW c \in Clients, Create(c)
  PROVE  Apart'
<1>1. /\ client[c].key \in Keys /\ client[c] \in Records /\ client[c].at = None
      /\ slot \in [Keys -> Entries \union {None}] /\ client \in [Clients -> Records]
  <2>1. Shape(c) /\ client[c].pc = "create" /\ TypeOK
    BY DEF IInv, Static, RequestOK, Request, Create
  <2> QED BY <2>1 DEF Shape, Searching, TypeOK, Records
<1>2. PICK e : /\ Install(c, e)
               /\ \/ slot[client[c].key] # None /\ e = slot[client[c].key]
                  \/ slot[client[c].key] = None /\ e \in Free
  BY DEF Create
<1>3. /\ slot' = [slot EXCEPT ![client[c].key] = e]
      /\ client'[c].at = e /\ client'[c].key = client[c].key
      /\ \A d \in Clients \ {c} : client'[d] = client[d]
  BY <1>1, <1>2 DEF Install, At, Records
<1>4. \A k \in Keys : slot'[k] = IF k = client[c].key THEN e ELSE slot[k]
  BY <1>1, <1>3
<1>5. CASE slot[client[c].key] # None /\ e = slot[client[c].key]
  <2>1. \A k \in Keys : slot'[k] = slot[k]
    BY <1>4, <1>5
  <2> QED BY <1>1, <1>3, <1>5, <2>1 DEF Apart
<1>6. CASE e \in Free
  <2>1. (\A k \in Keys : slot[k] # e) /\ (\A d \in Clients : client[d].at # e)
    BY <1>6 DEF Free
  <2> QED BY <1>1, <1>3, <1>4, <2>1 DEF Apart
<1> QED BY <1>2, <1>5, <1>6

\* The cleanup only takes entries out of the map.
LEMMA CleanupFrame ==
  ASSUME IInv, NEW p \in Clients \union {Sweeper}, Scan(p) \/ Delete(p)
  PROVE  /\ \A c \in Clients : /\ client'[c].at = client[c].at /\ client'[c].key = client[c].key
                               /\ client'[c].keys = client[c].keys /\ client'[c].got = client[c].got
                               /\ client'[c].since = client[c].since
                               /\ client'[c].failed = client[c].failed
                               /\ \/ client'[c].pc = client[c].pc
                                  \/ client'[c].pc \in {"delete", "again"}
         /\ \A k \in Keys : slot'[k] = slot[k] \/ slot'[k] = None
         /\ \A e \in Entries : entry'[e] = entry[e] \/ entry'[e] = Blank
         /\ orphaned \subseteq orphaned'
         /\ UNCHANGED <<table, api, newest>>
<1>1. TypeOK
  BY DEF IInv, Static
<1>2. PICK pc \in {"delete", "again"} : client' = Goto(p, pc)
  BY DEF Scan, Delete
<1>3. \A c \in Clients : /\ client'[c].at = client[c].at /\ client'[c].key = client[c].key
                         /\ client'[c].keys = client[c].keys /\ client'[c].got = client[c].got
                         /\ client'[c].since = client[c].since
                         /\ client'[c].failed = client[c].failed
                         /\ \/ client'[c].pc = client[c].pc
                            \/ client'[c].pc \in {"delete", "again"}
  <2>1. CASE p = Sweeper
    BY <1>2, <2>1 DEF Goto
  <2>2. CASE p # Sweeper
    <3>1. p \in Clients /\ client' = [client EXCEPT ![p].pc = pc]
      BY <1>2, <2>2 DEF Goto
    <3> QED BY <1>1, <1>2, <3>1 DEF TypeOK, Records
  <2> QED BY <2>1, <2>2
<1>4. \A k \in Keys : slot'[k] = slot[k] \/ slot'[k] = None
  BY <1>1 DEF Scan, Delete, TypeOK
<1>5. \A e \in Entries : entry'[e] = entry[e] \/ entry'[e] = Blank
  BY <1>1 DEF Scan, Delete, TypeOK
<1>6. orphaned \subseteq orphaned' /\ UNCHANGED <<table, api, newest>>
  BY DEF Scan, Delete
<1> QED BY <1>3, <1>4, <1>5, <1>6

LEMMA ApartCleanup ==
  ASSUME IInv, Apart, NEW p \in Clients \union {Sweeper}, Scan(p) \/ Delete(p)
  PROVE  Apart'
<1>1. /\ \A c \in Clients : client'[c].at = client[c].at /\ client'[c].key = client[c].key
      /\ \A k \in Keys : slot'[k] = slot[k] \/ slot'[k] = None
  BY CleanupFrame
<1> QED BY <1>1 DEF Apart

LEMMA ApartNext ==
  ASSUME IInv, Apart, [Next]_vars
  PROVE  Apart'
<1>1. CASE \E c \in Clients : Create(c)
  BY <1>1, ApartCreate
<1>2. CASE \E p \in Clients \union {Sweeper} : Scan(p) \/ Delete(p)
  BY <1>2, ApartCleanup
<1>3. CASE \E c \in Clients : \/ DoStep(c) /\ ~Create(c)
                              \/ ReadStep(c) \/ Return(c)
                              \/ \E keys \in SUBSET Keys : Call(c, keys)
  <2>1. PICK c \in Clients : Effect(c)
    BY <1>3, Effects DEF IInv, Effect
  <2> QED BY <2>1, ApartKept DEF IInv
<1>4. CASE UNCHANGED <<client, slot>>
  BY <1>4 DEF Apart
<1>5. CASE Tick \/ (\E k \in Keys : Update(k)) \/ UNCHANGED vars
  BY <1>4, <1>5 DEF Tick, Update, vars
<1> QED BY <1>1, <1>2, <1>3, <1>5 DEF Next, ClientStep

-----------------------------------------------------------------------------
(* Answers in order                                                        *)

LEMMA VersionTypes ==
  ASSUME Static, NEW k \in Keys
  PROVE  Answers(k) \subseteq Nat /\ Source(k) \subseteq Nat
<1>1. /\ newest[k] \in Nat /\ table[k] \in Nat
      /\ \A r \in Results : r.version \in Nat
      /\ \A e \in Entries : entry[e].result \in Results \union {None}
      /\ \A c \in Clients : client[c].got[k] \in Results \union {None}
      /\ slot[k] \in Entries \union {None}
  BY TimesAssumption DEF Static, TypeOK, Versions, Results, Records
<1>2. \A c \in Clients : Answered(c, k) => client[c].got[k] # None
  BY DEF Static, RequestOK, Request, Complete, Answered
<1>3. \A c \in Clients : client[c].pc = "store" /\ client[c].key = k => client[c].got[k] # None
  BY DEF Static, RequestOK, Request, Storing
<1> QED BY <1>1, <1>2, <1>3 DEF Answers, Source

\* A version that may still be read is answered, and none older is left.
LEMMA StaysInOrder ==
  ASSUME NEW k \in Keys, InOrder(k), NEW v \in Source(k),
         Answers(k)' \subseteq Answers(k) \union {v}, Source(k)' \subseteq Source(k),
         (\A y \in Source(k)' : v <= y) \/ Answers(k)' \subseteq Answers(k),
         table'[k] = table[k], \A c \in Clients : ~GoesBack(c, k)'
  PROVE  InOrder(k)'
<1>1. \A x \in Answers(k)', y \in Source(k)' : x <= y
  BY DEF InOrder
<1>2. \A y \in Source(k)' : y <= table'[k]
  BY DEF InOrder
<1> QED BY <1>1, <1>2 DEF InOrder

\* A step of goroutine c that answers nothing and stores nothing; what it has read
\* is what the table holds.
Quiet(c) == /\ UNCHANGED <<table, api, slot, newest, orphaned>>
            /\ \A d \in Clients \ {c} : client'[d] = client[d]
            /\ \A e \in Entries : entry'[e].result = entry[e].result
            /\ client'[c].pc = "done" => client'[c].failed
            /\ client'[c].pc = "store" =>
                 client'[c].got[client'[c].key].version = table[client'[c].key]

LEMMA QuietInOrder ==
  ASSUME Static, NEW c \in Clients, Quiet(c), NEW k \in Keys, InOrder(k)
  PROVE  InOrder(k)'
<1>1. slot[k] \in Entries \union {None}
  BY DEF Static, TypeOK
<1>2. \A d \in Clients : Answered(d, k)' => Answered(d, k) /\ client'[d] = client[d]
  BY DEF Quiet, Answered
<1>3. Answers(k)' \subseteq Answers(k)
  BY <1>2 DEF Answers, Quiet
<1>4. \A d \in Clients : client'[d].pc = "store" /\ client'[d].key = k =>
        \/ client'[d].got[k].version = table[k]
        \/ client'[d] = client[d]
  BY DEF Quiet
<1>5. Source(k)' \subseteq Source(k)
  BY <1>1, <1>4 DEF Source, Quiet
<1>6. \A d \in Clients : ~GoesBack(d, k)'
  <2> SUFFICES ASSUME NEW d \in Clients, GoesBack(d, k)' PROVE FALSE
    OBVIOUS
  <2>1. d # c /\ client'[d] = client[d]
    BY DEF GoesBack, Quiet
  <2> QED BY <2>1 DEF GoesBack, InOrder
<1>7. table[k] \in Source(k) /\ table'[k] = table[k]
  BY DEF Source, Quiet
<1> QED BY <1>3, <1>5, <1>6, <1>7, StaysInOrder

\* A request of a query is for one key.
LEMMA OneKey ==
  ASSUME Static, api = "query", NEW c \in Clients, client[c].key # None, client[c].pc \in Holding
  PROVE  client[c].keys = {client[c].key} /\ client[c].key \in Keys
<1>1. Shape(c) /\ client[c] \in Records
  BY DEF Static, RequestOK, Request, TypeOK
<1>2. /\ client[c].key \in client[c].keys /\ <<api, c, client[c].keys>> \in Requests
      /\ client[c].key \in Keys
  BY <1>1 DEF Shape, Holding, Records
<1>3. \E k \in Keys : client[c].keys = {k}
  BY <1>2, RequestsAssumption
<1> QED BY <1>2, <1>3

\* A hit under the write lock: nobody is about to store an older read.
LEMMA FillHitInOrder ==
  ASSUME IInv, Apart, api = "query", NEW c \in Clients, FillHit(c),
         NEW k \in Keys \ orphaned, InOrder(k)
  PROVE  InOrder(k)'
<1> USE DEF IInv
<1>1. /\ Shape(c) /\ client[c] \in Records /\ client[c].pc = "lock"
      /\ client[c].at \in Entries /\ client[c].key \in Keys /\ client[c].keys = {client[c].key}
      /\ entry[client[c].at].result # None
  <2>1. client[c].pc = "lock" /\ entry[client[c].at].result # None
    BY DEF FillHit, CanLock, Usable
  <2>2. Shape(c) /\ client[c] \in Records
    BY DEF Static, RequestOK, Request, TypeOK
  <2>3. client[c].at \in Entries /\ client[c].key # None
    BY <2>1, <2>2, HoldsEntry DEF Using, Shape, Holding
  <2> QED BY <2>1, <2>2, <2>3, OneKey DEF Holding
<1> DEFINE res == entry[client[c].at].result
<1>2. /\ client'[c] = Done(c, [client[c].got EXCEPT ![client[c].key] = res], FALSE)
      /\ \A d \in Clients \ {c} : client'[d] = client[d]
      /\ UNCHANGED <<table, api, slot, newest, orphaned>>
      /\ \A e \in Entries : entry'[e].result = entry[e].result
  BY <1>1 DEF FillHit, Step, Used, Static, TypeOK
<1>3. /\ client'[c].pc = "done" /\ ~client'[c].failed /\ client'[c].keys = {client[c].key}
      /\ client'[c].since = client[c].since
      /\ client'[c].got[client[c].key] = res
  BY <1>1, <1>2 DEF Done, Records
<1>4. slot[k] \in Entries \union {None}
  BY DEF Static, TypeOK
<1>5. Source(k)' \subseteq Source(k)
  <2>1. ASSUME NEW d \in Clients, client'[d].pc = "store", client'[d].key = k
        PROVE  d # c /\ client'[d] = client[d]
    BY <1>2, <1>3, <2>1
  <2>2. {client'[d].got[k].version : d \in {x \in Clients : client'[x].pc = "store" /\ client'[x].key = k}}
          \subseteq {client[d].got[k].version : d \in {x \in Clients : client[x].pc = "store" /\ client[x].key = k}}
    BY <2>1
  <2>3. slot[k] # None => entry'[slot[k]].result = entry[slot[k]].result
    BY <1>2, <1>4
  <2> QED BY <1>2, <2>2, <2>3 DEF Source
<1>6. CASE k # client[c].key
  <2>1. \A d \in Clients : Answered(d, k)' => Answered(d, k) /\ client'[d] = client[d]
    BY <1>2, <1>3, <1>6 DEF Answered
  <2>2. Answers(k)' \subseteq Answers(k)
    BY <1>2, <2>1 DEF Answers
  <2>3. \A d \in Clients : ~GoesBack(d, k)'
    BY <1>2, <1>3, <1>6 DEF GoesBack, InOrder
  <2>4. table[k] \in Source(k)
    BY DEF Source
  <2> QED BY <1>2, <1>5, <2>2, <2>3, <2>4, StaysInOrder
<1>7. CASE k = client[c].key
  <2>1. slot[k] = client[c].at
    BY <1>1, <1>7, NoneAssumption DEF Attached
  <2>2. res.version \in Source(k)
    BY <1>1, <2>1, NoneAssumption DEF Source
  <2>3. Answers(k)' \subseteq Answers(k) \union {res.version}
    <3>1. \A d \in Clients : Answered(d, k)' =>
            client'[d].got[k].version = res.version \/ (Answered(d, k) /\ client'[d] = client[d])
      BY <1>2, <1>3, <1>7 DEF Answered
    <3> QED BY <1>2, <3>1 DEF Answers
  <2>4. \A d \in Clients : ~(client[d].pc = "store" /\ client[d].key = k)
    <3> SUFFICES ASSUME NEW d \in Clients, client[d].pc = "store", client[d].key = k
                 PROVE  FALSE
      OBVIOUS
    <3>1. client[d].at \in Entries
      BY HoldsEntry DEF Using
    <3>2. client[d].at = slot[k]
      BY <3>1, NoneAssumption DEF Attached
    <3>3. d \in Locking(client[c].at)
      BY <2>1, <3>2 DEF Locking
    <3> QED BY <3>3 DEF FillHit, CanLock
  <2>5. \A y \in Source(k)' : res.version <= y
    <3>1. \A y \in Source(k)' : y = table[k] \/ y = res.version
      <4>1. \A d \in Clients : ~(client'[d].pc = "store" /\ client'[d].key = k)
        BY <1>2, <1>3, <2>4
      <4>2. entry'[slot'[k]].result = res
        BY <1>1, <1>2, <2>1
      <4> QED BY <1>2, <4>1, <4>2 DEF Source
    <3>2. res.version <= table[k]
      BY <2>2 DEF InOrder
    <3>3. res.version \in Nat
      BY <2>2, VersionTypes
    <3> QED BY <3>1, <3>2, <3>3
  <2>6. \A d \in Clients : ~GoesBack(d, k)'
    <3>1. newest[k] <= res.version
      BY <2>2 DEF Answers, InOrder
    <3>2. client[c].since.newest[k] <= newest[k]
      BY DEF Static, RequestOK, Request, Since
    <3>3. newest[k] \in Nat /\ res.version \in Nat /\ client[c].since.newest[k] \in Nat
      BY <1>1, <2>2, VersionTypes DEF Answers, Records, Versions
    <3>4. ~(client'[c].got[k].version < client'[c].since.newest[k])
      BY <1>3, <1>7, <3>1, <3>2, <3>3
    <3> QED BY <1>2, <3>4 DEF GoesBack, InOrder
  <2> QED BY <1>2, <1>5, <2>2, <2>3, <2>5, <2>6, StaysInOrder
<1> QED BY <1>6, <1>7

\* A read is stored and answered: the goroutine was alone with the entry, so all that
\* is answered since it read the table is no newer.
LEMMA StoreInOrder ==
  ASSUME IInv, Apart, api = "query", NEW c \in Clients, Store(c),
         NEW k \in Keys \ orphaned, InOrder(k)
  PROVE  InOrder(k)'
<1> USE DEF IInv
<1>1. /\ Shape(c) /\ client[c] \in Records /\ client[c].pc = "store"
      /\ client[c].at \in Entries /\ client[c].key \in Keys /\ client[c].keys = {client[c].key}
  <2>1. client[c].pc = "store"
    BY DEF Store
  <2>2. Shape(c) /\ client[c] \in Records
    BY DEF Static, RequestOK, Request, TypeOK
  <2>3. client[c].at \in Entries /\ client[c].key # None
    BY <2>1, <2>2, HoldsEntry DEF Using, Shape, Holding
  <2> QED BY <2>1, <2>2, <2>3, OneKey DEF Holding
<1> DEFINE ver == client[c].got[client[c].key].version
<1>2. /\ client'[c] = Done(c, client[c].got, FALSE)
      /\ \A d \in Clients \ {c} : client'[d] = client[d]
      /\ UNCHANGED <<table, api, slot, newest, orphaned>>
      /\ \A e \in Entries \ {client[c].at} : entry'[e] = entry[e]
      /\ entry'[client[c].at].result.version = ver
  BY <1>1 DEF Store, Step, Stored, Static, TypeOK
<1>3. /\ client'[c].pc = "done" /\ ~client'[c].failed /\ client'[c].keys = {client[c].key}
      /\ client'[c].since = client[c].since
      /\ client'[c].got = client[c].got
  BY <1>1, <1>2 DEF Done, Records
<1>4. slot[k] \in Entries \union {None}
  BY DEF Static, TypeOK
<1>6. CASE k # client[c].key
  <2>0. slot[k] # client[c].at
    BY <1>1, <1>6, NoneAssumption DEF Apart
  <2>1. \A d \in Clients : Answered(d, k)' => Answered(d, k) /\ client'[d] = client[d]
    BY <1>2, <1>3, <1>6 DEF Answered
  <2>2. Answers(k)' \subseteq Answers(k)
    BY <1>2, <2>1 DEF Answers
  <2>3. \A d \in Clients : ~GoesBack(d, k)'
    BY <1>2, <1>3, <1>6 DEF GoesBack, InOrder
  <2>4. table[k] \in Source(k)
    BY DEF Source
  <2>5. Source(k)' \subseteq Source(k)
    <3>1. slot[k] # None => entry'[slot[k]] = entry[slot[k]]
      BY <1>2, <1>4, <2>0
    <3>2. \A d \in Clients : client'[d].pc = "store" => client'[d] = client[d]
      BY <1>2, <1>3
    <3> QED BY <1>2, <3>1, <3>2 DEF Source
  <2> QED BY <1>2, <2>2, <2>3, <2>4, <2>5, StaysInOrder
<1>7. CASE k = client[c].key
  <2>1. slot[k] = client[c].at
    BY <1>1, <1>7, NoneAssumption DEF Attached
  <2>2. ver \in Source(k)
    BY <1>1, <1>7 DEF Source
  <2>3. Answers(k)' \subseteq Answers(k) \union {ver}
    <3>1. \A d \in Clients : Answered(d, k)' =>
            client'[d].got[k].version = ver \/ (Answered(d, k) /\ client'[d] = client[d])
      BY <1>2, <1>3, <1>7 DEF Answered
    <3> QED BY <1>2, <3>1 DEF Answers
  <2>4. \A d \in Clients \ {c} : ~(client[d].pc = "store" /\ client[d].key = k)
    <3> SUFFICES ASSUME NEW d \in Clients \ {c}, client[d].pc = "store", client[d].key = k
                 PROVE  FALSE
      OBVIOUS
    <3>1. client[d].at \in Entries
      BY HoldsEntry DEF Using
    <3>2. client[d].at = client[c].at
      BY <2>1, <3>1, NoneAssumption DEF Attached
    <3> QED BY <1>1, <3>2 DEF Exclusive
  <2>5. \A y \in Source(k)' : y = table[k] \/ y = ver
    <3>1. \A d \in Clients : ~(client'[d].pc = "store" /\ client'[d].key = k)
      BY <1>2, <1>3, <2>4
    <3>2. entry'[slot'[k]].result.version = ver
      BY <1>2, <2>1
    <3> QED BY <1>2, <3>1, <3>2 DEF Source
  <2>6. Source(k)' \subseteq Source(k)
    BY <2>2, <2>5 DEF Source
  <2>7. \A y \in Source(k)' : ver <= y
    <3>1. ver <= table[k] /\ ver \in Nat
      BY <2>2, VersionTypes DEF InOrder
    <3> QED BY <2>5, <3>1
  <2>8. \A d \in Clients : ~GoesBack(d, k)'
    <3>1. newest[k] <= ver
      BY <2>2 DEF Answers, InOrder
    <3>2. client[c].since.newest[k] <= newest[k]
      BY DEF Static, RequestOK, Request, Since
    <3>3. newest[k] \in Nat /\ ver \in Nat /\ client[c].since.newest[k] \in Nat
      BY <1>1, <2>2, VersionTypes DEF Answers, Records, Versions
    <3>4. ~(client'[c].got[k].version < client'[c].since.newest[k])
      BY <1>3, <1>7, <3>1, <3>2, <3>3
    <3> QED BY <1>2, <3>4 DEF GoesBack, InOrder
  <2> QED BY <1>2, <2>2, <2>3, <2>6, <2>7, <2>8, StaysInOrder
<1> QED BY <1>6, <1>7

\* A request that returns: the newest answer is one that was given.
LEMMA ReturnInOrder ==
  ASSUME IInv, api = "query", NEW c \in Clients, Return(c),
         NEW k \in Keys \ orphaned, InOrder(k)
  PROVE  InOrder(k)'
<1>1. /\ client[c].pc = "done" /\ client'[c] = Idle
      /\ \A d \in Clients \ {c} : client'[d] = client[d]
      /\ UNCHANGED <<table, api, slot, entry, orphaned>>
      /\ newest'[k] = newest[k] \/ (Answered(c, k) /\ newest'[k] = client[c].got[k].version)
  BY DEF Return, IInv, Static, TypeOK, Answered
<1>2. Idle.pc = "idle"
  BY DEF Idle
<1>3. \A d \in Clients : Answered(d, k)' => Answered(d, k) /\ client'[d] = client[d]
  BY <1>1, <1>2 DEF Answered
<1>4. newest'[k] \in Answers(k)
  BY <1>1 DEF Answers
<1>5. Answers(k)' \subseteq Answers(k)
  BY <1>3, <1>4 DEF Answers
<1>6. Source(k)' \subseteq Source(k)
  BY <1>1, <1>2 DEF Source
<1>7. \A d \in Clients : ~GoesBack(d, k)'
  BY <1>1, <1>2 DEF GoesBack, InOrder
<1>8. table[k] \in Source(k)
  BY DEF Source
<1> QED BY <1>1, <1>5, <1>6, <1>7, <1>8, StaysInOrder

\* A new entry has no result yet.
LEMMA CreateInOrder ==
  ASSUME IInv, api = "query", NEW c \in Clients, Create(c), NEW k \in Keys, InOrder(k)
  PROVE  InOrder(k)'
<1>1. /\ client[c].key \in Keys /\ client[c] \in Records
      /\ slot \in [Keys -> Entries \union {None}] /\ TypeOK
  <2>1. Shape(c) /\ client[c].pc = "create" /\ TypeOK
    BY DEF IInv, Static, RequestOK, Request, Create
  <2> QED BY <2>1 DEF Shape, Searching, TypeOK, Records
<1>2. PICK e : /\ Install(c, e)
               /\ \/ slot[client[c].key] # None /\ e = slot[client[c].key]
                  \/ slot[client[c].key] = None /\ e \in Free
  BY DEF Create
<1>3. e \in Entries
  BY <1>1, <1>2 DEF Free
<1>4. /\ client'[c].pc \notin {"done", "store"}
      /\ \A d \in Clients \ {c} : client'[d] = client[d]
      /\ UNCHANGED <<table, newest, api, orphaned>>
      /\ slot'[k] = IF k = client[c].key THEN e ELSE slot[k]
  BY <1>1, <1>2 DEF Install, At, AfterEnter, Records, TypeOK
<1>5. Answers(k)' \subseteq Answers(k)
  BY <1>4 DEF Answers, Answered
<1>6. \A d \in Clients : ~GoesBack(d, k)'
  BY <1>4 DEF GoesBack, InOrder
<1>7. slot'[k] # None /\ entry'[slot'[k]].result # None =>
        slot'[k] = slot[k] /\ entry'[slot[k]].result = entry[slot[k]].result
  <2>1. CASE slot[client[c].key] # None /\ e = slot[client[c].key]
    <3>1. entry' = Used(e, 1)
      BY <1>2, <2>1 DEF Install, NewEntry
    <3>2. slot'[k] = slot[k]
      BY <1>4, <2>1
    <3> QED BY <1>1, <1>3, <3>1, <3>2 DEF Used, TypeOK
  <2>2. CASE slot[client[c].key] = None /\ e \in Free
    <3>1. e # None /\ e # slot[client[c].key]
      BY <1>3, <2>2, NoneAssumption
    <3>2. entry' = [entry EXCEPT ![e] = [Blank EXCEPT !.inUse = 1]]
      BY <1>2, <3>1 DEF Install, NewEntry
    <3>3. entry'[e].result = None
      BY <1>1, <1>3, <3>2 DEF Blank, TypeOK
    <3>4. CASE k = client[c].key
      BY <1>4, <3>3, <3>4
    <3>5. CASE k # client[c].key
      <4>1. slot'[k] = slot[k] /\ slot[k] # e
        BY <1>1, <1>4, <2>2, <3>5 DEF Free
      <4>2. slot[k] # None => slot[k] \in Entries
        BY <1>1
      <4> QED BY <1>1, <3>2, <4>1, <4>2 DEF TypeOK
    <3> QED BY <3>4, <3>5
  <2> QED BY <1>2, <2>1, <2>2
<1>8. Source(k)' \subseteq Source(k)
  BY <1>4, <1>7 DEF Source
<1>9. table[k] \in Source(k)
  BY DEF Source
<1> QED BY <1>4, <1>5, <1>6, <1>8, <1>9, StaysInOrder

\* The cleanup leaves fewer versions to be read.
LEMMA CleanupInOrder ==
  ASSUME IInv, NEW p \in Clients \union {Sweeper}, Scan(p) \/ Delete(p),
         NEW k \in Keys, InOrder(k)
  PROVE  InOrder(k)'
<1>1. /\ \A c \in Clients : /\ client'[c].at = client[c].at /\ client'[c].key = client[c].key
                            /\ client'[c].keys = client[c].keys /\ client'[c].got = client[c].got
                            /\ client'[c].since = client[c].since
                            /\ client'[c].failed = client[c].failed
                            /\ \/ client'[c].pc = client[c].pc
                               \/ client'[c].pc \in {"delete", "again"}
      /\ slot'[k] = slot[k] \/ slot'[k] = None
      /\ \A e \in Entries : entry'[e] = entry[e] \/ entry'[e] = Blank
      /\ UNCHANGED <<table, api, newest>>
  BY CleanupFrame
<1>2. slot[k] \in Entries \union {None} /\ Blank.result = None
  BY DEF IInv, Static, TypeOK, Blank
<1>3. Answers(k)' \subseteq Answers(k)
  BY <1>1 DEF Answers, Answered
<1>4. slot'[k] # None /\ entry'[slot'[k]].result # None =>
        slot'[k] = slot[k] /\ entry'[slot[k]] = entry[slot[k]]
  BY <1>1, <1>2
<1>5. Source(k)' \subseteq Source(k)
  BY <1>1, <1>4 DEF Source
<1>6. \A c \in Clients : ~GoesBack(c, k)'
  BY <1>1 DEF GoesBack, InOrder
<1>7. table[k] \in Source(k)
  BY DEF Source
<1> QED BY <1>1, <1>3, <1>5, <1>6, <1>7, StaysInOrder

\* The table only gets newer.
LEMMA WorldInOrder ==
  ASSUME IInv, Tick \/ (\E j \in Keys : Update(j)) \/ UNCHANGED vars,
         NEW k \in Keys, InOrder(k)
  PROVE  InOrder(k)'
<1>1. UNCHANGED <<client, entry, slot, newest>>
  BY DEF Tick, Update, vars
<1>2. table[k] \in Nat /\ table'[k] \in Nat /\ table[k] <= table'[k]
  <2>1. table \in [Keys -> Nat]
    BY TimesAssumption DEF IInv, Static, TypeOK, Versions
  <2> QED BY <2>1 DEF Tick, Update, vars
<1>3. Answers(k) \subseteq Nat /\ Source(k) \subseteq Nat
  BY VersionTypes DEF IInv
<1>4. Answers(k)' = Answers(k)
  BY <1>1 DEF Answers, Answered
<1>5. \A y \in Source(k)' : y \in Source(k) \/ y = table'[k]
  BY <1>1 DEF Source
<1>6. table[k] \in Source(k)
  BY DEF Source
<1>7. \A y \in Source(k)' : y \in Nat /\ y <= table'[k]
  BY <1>2, <1>3, <1>5 DEF InOrder
<1>8. ASSUME NEW x \in Answers(k)', NEW y \in Source(k)'
      PROVE  x <= y
  <2>1. x \in Answers(k) /\ x \in Nat /\ x <= table[k]
    BY <1>3, <1>4, <1>6, <1>8 DEF InOrder
  <2>2. CASE y \in Source(k)
    BY <2>1, <2>2 DEF InOrder
  <2>3. CASE y = table'[k]
    BY <1>2, <2>1, <2>3
  <2> QED BY <1>5, <2>2, <2>3
<1>9. \A c \in Clients : ~GoesBack(c, k)'
  BY <1>1 DEF GoesBack, InOrder
<1> QED BY <1>7, <1>8, <1>9 DEF InOrder

\* All else a goroutine of a query does is quiet.
LEMMA QuietSteps ==
  ASSUME Static, api = "query", NEW c \in Clients,
         \/ DoStep(c) /\ ~Create(c) /\ ~FillHit(c) /\ ~Store(c)
         \/ ReadStep(c)
         \/ \E keys \in SUBSET Keys : Call(c, keys)
  PROVE  Quiet(c)
<1>1. Shape(c) /\ client[c] \in Records /\ TypeOK
  BY DEF Static, RequestOK, Request, TypeOK
<1>2. ~ReadStep(c) /\ ~Put(c)
  BY <1>1 DEF ReadStep, Peek, PeekMiss, PeekHit, Copy, Select, SelectFails, Put, Shape
<1>3. ASSUME NEW r, Step(c, r), NEW f, entry' = f,
             \A e \in Entries : f[e].result = entry[e].result,
             r.pc = "done" => r.failed,
             r.pc = "store" => r.got[r.key].version = table[r.key]
      PROVE  Quiet(c)
  BY <1>1, <1>3 DEF Step, Quiet, TypeOK
<1>4. \A e \in Entries, n \in {-1, 1} : \A d \in Entries : Used(e, n)[d].result = entry[d].result
  BY <1>1 DEF Used, TypeOK
<1>5. CASE \E keys \in SUBSET Keys : Call(c, keys)
  <2>1. PICK keys \in SUBSET Keys : Call(c, keys)
    BY <1>5
  <2> DEFINE r == [client[c] EXCEPT !.pc = IF api = "query" THEN "next" ELSE "read",
                               !.keys = keys, !.todo = keys,
                               !.since = [time |-> now, table |-> On(keys, table), newest |-> On(keys, newest)]]
  <2>2. Step(c, r) /\ entry' = entry
    BY <2>1 DEF Call
  <2>3. r.pc = "next"
    BY <1>1 DEF Records
  <2> QED BY <1>3, <2>2, <2>3
<1>6. CASE \E k \in Keys : Lookup(c, k)
  <2>1. PICK k \in Keys : Lookup(c, k)
    BY <1>6
  <2> DEFINE r == [client[c] EXCEPT !.key = k, !.at = slot[k],
                               !.pc = IF slot[k] # None THEN "enter"
                                      ELSE IF Count >= MaxSize THEN "scan" ELSE "create"]
  <2>2. Step(c, r) /\ entry' = entry
    BY <2>1 DEF Lookup
  <2>3. r.pc \in {"enter", "scan", "create"}
    BY <1>1 DEF Records
  <2> QED BY <1>3, <2>2, <2>3
<1>7. \A e, pc : At(c, e, pc).pc = pc
  BY <1>1 DEF At, Records
<1>8. CASE LookupAgain(c)
  <2>1. PICK pc \in {"enter", "create"} : Step(c, At(c, slot[client[c].key], pc)) /\ entry' = entry
    BY <1>8 DEF LookupAgain
  <2> QED BY <1>3, <1>7, <2>1
<1>9. CASE Check(c)
  <2>1. PICK pc \in {"lock", "ready"} : Step(c, At(c, client[c].at, pc)) /\ entry' = entry
    BY <1>9 DEF Check
  <2> QED BY <1>3, <1>7, <2>1
<1>10. CASE Ready(c)
  <2>1. Step(c, At(c, client[c].at, "lock")) /\ entry' = entry
    BY <1>10 DEF Ready
  <2> QED BY <1>3, <1>7, <2>1
<1>11. CASE FillMiss(c)
  <2>1. Step(c, At(c, client[c].at, "fetch")) /\ entry' = entry
    BY <1>11 DEF FillMiss
  <2> QED BY <1>3, <1>7, <2>1
<1>12. CASE Enter(c)
  <2>1. client[c].at \in Entries
    BY <1>1, <1>12 DEF Enter, Shape, Holding, Records
  <2>2. Step(c, At(c, client[c].at, "check")) /\ entry' = Used(client[c].at, 1)
    BY <1>12 DEF Enter, AfterEnter
  <2> QED BY <1>3, <1>4, <1>7, <2>1, <2>2
<1>13. CASE NotReady(c) \/ FetchFails(c)
  <2>1. client[c].at \in Entries
    BY <1>1, <1>13 DEF NotReady, FetchFails, Shape, Holding, Records
  <2> DEFINE r == Done(c, client[c].got, TRUE)
  <2>2. Step(c, r) /\ entry' = Used(client[c].at, -1)
    BY <1>13 DEF NotReady, FetchFails
  <2>3. r.pc = "done" /\ r.failed
    BY <1>1 DEF Done, Records
  <2> QED BY <1>3, <1>4, <2>1, <2>2, <2>3
<1>14. CASE Fetch(c)
  <2> DEFINE r == [client[c] EXCEPT !.pc = "store", !.got[client[c].key] = Fresh(client[c].key)]
  <2>1. Step(c, r) /\ entry' = entry /\ client[c].key \in Keys
    BY <1>1, <1>14 DEF Fetch, Shape, Holding, Records
  <2>2. r.pc = "store" /\ r.key = client[c].key /\ r.got[client[c].key] = Fresh(client[c].key)
    BY <1>1, <2>1 DEF Records
  <2> HIDE DEF r
  <2>3. r.got[r.key].version = table[r.key]
    BY <2>2 DEF Fresh
  <2> QED BY <1>3, <2>1, <2>2, <2>3
<1> QED BY <1>2, <1>5, <1>6, <1>8, <1>9, <1>10, <1>11, <1>12, <1>13, <1>14 DEF DoStep

LEMMA OrderedNext ==
  ASSUME IInv, Apart, Ordered, [Next]_vars
  PROVE  Ordered'
<1>1. api' = api /\ orphaned \subseteq orphaned'
  BY ZenonT(60) DEF Next, vars, ClientStep, DoStep, ReadStep, Tick, Update, Call, Return, Scan, Delete, Step,
         Install, Lookup, LookupAgain, Enter, Create, Check, Ready, NotReady, FillHit, FillMiss,
         Fetch, FetchFails, Store, Put, Peek, PeekMiss, PeekHit, Copy, Select, SelectFails
<1> SUFFICES ASSUME api = "query", NEW k \in Keys \ orphaned, InOrder(k)
             PROVE  InOrder(k)'
  BY <1>1 DEF Ordered
<1>2. CASE \E c \in Clients : Create(c)
  BY <1>2, CreateInOrder
<1>3. CASE \E c \in Clients : FillHit(c)
  BY <1>3, FillHitInOrder
<1>4. CASE \E c \in Clients : Store(c)
  BY <1>4, StoreInOrder
<1>5. CASE \E c \in Clients : Return(c)
  BY <1>5, ReturnInOrder
<1>6. CASE \E p \in Clients \union {Sweeper} : Scan(p) \/ Delete(p)
  BY <1>6, CleanupInOrder
<1>7. CASE Tick \/ (\E j \in Keys : Update(j)) \/ UNCHANGED vars
  BY <1>7, WorldInOrder
<1>8. CASE \E c \in Clients : \/ DoStep(c) /\ ~Create(c) /\ ~FillHit(c) /\ ~Store(c)
                              \/ ReadStep(c)
                              \/ \E keys \in SUBSET Keys : Call(c, keys)
  <2>1. PICK c \in Clients : Quiet(c)
    BY <1>8, QuietSteps DEF IInv
  <2> QED BY <2>1, QuietInOrder DEF IInv
<1> QED BY <1>2, <1>3, <1>4, <1>5, <1>6, <1>7, <1>8 DEF Next, ClientStep

-----------------------------------------------------------------------------
LEMMA MInvInit == Init => MInv
<1> SUFFICES ASSUME Init PROVE MInv
  OBVIOUS
<1>1. IInv
  BY IInvInit
<1>2. /\ \A c \in Clients : client[c] = Idle
      /\ \A k \in Keys : slot[k] = None /\ newest[k] = 0 /\ table[k] = 0
      /\ Idle.pc = "idle" /\ Idle.at = None
  BY DEF Init, Idle
<1>3. Apart
  BY <1>2 DEF Apart
<1>4. ASSUME NEW k \in Keys PROVE InOrder(k)
  <2>1. Answers(k) = {0} /\ Source(k) = {0}
    BY <1>2 DEF Answers, Source, Answered
  <2>2. \A c \in Clients : ~GoesBack(c, k)
    BY <1>2 DEF GoesBack
  <2>3. table[k] = 0
    BY <1>2
  <2> QED BY <2>1, <2>2, <2>3 DEF InOrder
<1> QED BY <1>1, <1>3, <1>4 DEF MInv, Ordered

LEMMA MInvNext == MInv /\ [Next]_vars => MInv'
BY IInvNext, ApartNext, OrderedNext DEF MInv

\* The answer to a request for one key is not older than that of a request that had ended
\* before it began, unless the cleanup has taken the key's entry from a goroutine that had
\* looked it up (db_lockcache.go:114-145).
THEOREM Monotone == Spec => []AnswersMonotone
<1>1. MInv => AnswersMonotone
  BY DEF MInv, Ordered, InOrder, AnswersMonotone
<1> QED BY <1>1, MInvInit, MInvNext, PTL DEF Spec
===============================================================================
