------------------------------ MODULE PoolIngest ------------------------------
(***************************************************************************)
(* How the worker of an event partition brings pools into the table pool:  *)
(* the cache of pools it has seen (handler/pool_cache.go), the rows built  *)
(* from the events (pool_model_builder.go), the deduplication, the batches *)
(* and the upserts of a flush (pool_model_writer.go), the commit, and what *)
(* a crash or a message that cannot be decoded makes of them.              *)
(*                                                                         *)
(* Channel, drains, stops, lost writes and a group that has never          *)
(* committed are the business of PartitionWorker.  A message is the        *)
(* sequence of its events that name a pool; a pool is a primary key,       *)
(* address and account_key.  A row of the table is abstracted to its       *)
(* create_at, zero when it has none.                                       *)
(***************************************************************************)
EXTENDS Integers, Sequences, FiniteSets

CONSTANTS
  Pools,          \* primary keys: <<pool_address, account_key>>
  Accounts,       \* <<token_account, quote_account>>
  Tokens,         \* <<dex, token_address, quote_address>>
  Messages,       \* what may be produced
  CacheSize,      \* cacheSize of the LRU
  MaxBatchFlush,  \* flush at most this many messages at once
  MaxQueue,       \* bound of the queue (PartitionWorker!QueueBounded)
  MaxWorkers,     \* maxWorkers of InsertPools
  MinBatchSize,   \* minBatchSize of InsertPools
  MaxLog,         \* bound: messages produced
  MaxLives        \* bound: lives of the process

\* A trade or liquidity event, and the row made of it; created is the block time of
\* a CREATE_POOL, else 0.
Row == [pool : Pools, accounts : Accounts, tokens : Tokens, created : Nat]

ASSUME MessagesAssumption == Messages \subseteq [events : Seq(Row), sound : BOOLEAN]
ASSUME LimitsAssumption == /\ CacheSize \in Nat \ {0} /\ MaxBatchFlush \in Nat \ {0}
                           /\ MaxQueue \in Nat \ {0}
                           /\ MaxWorkers \in Nat \ {0, 1} /\ MinBatchSize \in Nat \ {0}
ASSUME BoundAssumption == MaxLog \in Nat /\ MaxLives \in Nat \ {0}

VARIABLES
  log,        \* broker: the messages of the partition
  committed,  \* broker: last offset the group has committed, at first some earlier one
  table,      \* database: create_at of each pool's row, or NoRow
  lives,      \* lives the process has begun
  received,   \* last offset the worker has received
  phase,      \* where the worker is
  built,      \* events of the message in hand that have been looked at
  rows,       \* rows built from the message in hand
  place,      \* place of each pool in the LRU, 1 for the latest, 0 for none
  queue,      \* BatchQueue: offset and rows of each message
  writing     \* rows that each goroutine of InsertPools still has to write

broker == <<log, committed>>
build  == <<built, rows>>
vars   == <<broker, table, lives, received, phase, build, place, queue, writing>>

NoRow == -1

-----------------------------------------------------------------------------
(* PoolCache.CheckAndInsert                                                 *)

NewPoolCache == [p \in Pools |-> 0]

\* The cache of a new life.
CacheKept == place                                     \* faulty variant
CacheAtStart == NewPoolCache

Seen(p) == place[p] # 0

\* Get moves a pool to the front, Add puts it there and drops the last one.
NeverEvicts(p) ==                                      \* faulty variant
  [q \in Pools |-> IF q = p THEN 1 ELSE IF Seen(q) THEN place[q] + 1 ELSE 0]
Touch(p) ==
  LET from == IF Seen(p) THEN place[p] ELSE CacheSize + 1
  IN  [q \in Pools |-> IF q = p THEN 1
                       ELSE IF place[q] \notin 1 .. from - 1 THEN place[q]
                       ELSE IF place[q] = CacheSize THEN 0
                       ELSE place[q] + 1]

-----------------------------------------------------------------------------
(* dedupAndSplitPools and allocateBatchSize                                 *)

Least(S) == CHOOSE n \in S : \A m \in S : n <= m

EarliestOrNone(T) == Least(T)                          \* faulty variant
Earliest(T) == IF T \subseteq {0} THEN 0 ELSE Least(T \ {0})

SameKey(r, s) == r.pool = s.pool /\ r.accounts = s.accounts

FlushCount == IF Len(queue) < MaxBatchFlush THEN Len(queue) ELSE MaxBatchFlush

\* flushEventBatches joins the rows of its messages in order: a row's position is its
\* message and its place there.
Positions == UNION {{n} \X (1 .. Len(queue[n].rows)) : n \in 1 .. FlushCount}
RowAt(x) == queue[x[1]].rows[x[2]]
Before(x, y) == x[1] < y[1] \/ (x[1] = y[1] /\ x[2] < y[2])

\* The first row of each key, with the earliest time of those that agree with it.
Firsts == {x \in Positions : \A y \in Positions : Before(y, x) => ~SameKey(RowAt(y), RowAt(x))}

Agreeing(x) == {y \in Positions : SameKey(RowAt(y), RowAt(x)) /\ RowAt(y).tokens = RowAt(x).tokens}

Dedup == {[RowAt(x) EXCEPT !.created = Earliest({RowAt(y).created : y \in Agreeing(x)})] : x \in Firsts}

Ceiling(n, d) == (n + d - 1) \div d

\* How many of the workers write the rows that have create_at, and how many the others:
\* in proportion, rounded, but at least one if there are any rows.
WithWorkers(with, without) ==
  LET share == (2 * with * MaxWorkers + with + without) \div (2 * (with + without))
  IN  IF share = 0 /\ with > 0 THEN 1
      ELSE IF share = MaxWorkers /\ without > 0 THEN share - 1
      ELSE share

WithoutWorkers(with, without) ==
  LET share == (2 * with * MaxWorkers + with + without) \div (2 * (with + without))
  IN  IF share = MaxWorkers /\ without > 0 THEN 1 ELSE MaxWorkers - share

BatchSize(count, workers) ==
  IF count > MinBatchSize * workers THEN Ceiling(count, workers) ELSE MinBatchSize

\* dispatch: consecutive parts of the rows, in the order the map happened to give them.
FullBatchesOnly(s, size) == 0 .. (Len(s) \div size) - 1     \* faulty variant
Parts(s, size) == 0 .. (Len(s) - 1) \div size

Batches(s, size) ==
  {SubSeq(s, k * size + 1, IF (k + 1) * size > Len(s) THEN Len(s) ELSE (k + 1) * size) : k \in Parts(s, size)}

Orders(S) == {s \in [1 .. Cardinality(S) -> S] : \A r \in S : \E i \in 1 .. Cardinality(S) : s[i] = r}

Dispatched(S, workers) ==
  IF S = {} THEN {{}} ELSE {Batches(s, BatchSize(Cardinality(S), workers)) : s \in Orders(S)}

\* An upsert leaves the columns it does not name.
WrittenInFull(r, old) == r.created                     \* faulty variant
Written(r, old) == IF r.created > 0 THEN r.created ELSE IF old = NoRow THEN 0 ELSE old

-----------------------------------------------------------------------------
Init ==
  /\ log = <<>> /\ committed = 0
  /\ table = [p \in Pools |-> NoRow]
  /\ lives = 1 /\ received = 0
  /\ phase = "idle" /\ built = 0 /\ rows = <<>>
  /\ place = NewPoolCache
  /\ queue = <<>> /\ writing = {}

\* External: a message arrives.
Produce(m) ==
  /\ Len(log) < MaxLog
  /\ log' = Append(log, m)
  /\ UNCHANGED <<committed, table, lives, received, phase, build, place, queue, writing>>

\* handleMessage, event by event: buildBlockBatch.
Receive ==
  /\ phase = "idle" /\ received < Len(log) /\ Len(queue) < MaxQueue
  /\ received' = received + 1
  /\ phase' = "build" /\ built' = 0 /\ rows' = <<>>
  /\ UNCHANGED <<broker, table, lives, place, queue, writing>>

Events == log[received].events

\* The pool is marked as seen as soon as its row is built.
Build ==
  /\ phase = "build" /\ built < Len(Events)
  /\ LET r == Events[built + 1]
     IN  /\ rows' = IF Seen(r.pool) THEN rows ELSE Append(rows, r)
         /\ place' = Touch(r.pool)
  /\ built' = built + 1
  /\ UNCHANGED <<broker, table, lives, received, phase, queue, writing>>

EndOfBuild == phase' = "idle" /\ built' = 0 /\ rows' = <<>>

Enqueue ==
  /\ phase = "build" /\ log[received].sound /\ built = Len(Events)
  /\ queue' = Append(queue, [offset |-> received, rows |-> rows])
  /\ EndOfBuild
  /\ UNCHANGED <<broker, table, lives, received, place, writing>>

\* A panic drops the message, whatever part of its pools has been marked by then.
Panic ==
  /\ phase = "build" /\ ~log[received].sound
  /\ EndOfBuild
  /\ UNCHANGED <<broker, table, lives, received, place, queue, writing>>

\* InsertPools starts its goroutines.  A queue is flushed when it is long enough or by
\* the ticker, so at any time.
StartFlush ==
  /\ phase = "idle" /\ queue # <<>>
  /\ LET with == {r \in Dedup : r.created > 0}
         without == Dedup \ with
         n == Cardinality(with)
         m == Cardinality(without)
     IN  IF Dedup = {} THEN writing' = {}
         ELSE \E A \in Dispatched(with, WithWorkers(n, m)), B \in Dispatched(without, WithoutWorkers(n, m)) :
                writing' = A \union B
  /\ phase' = "write"
  /\ UNCHANGED <<broker, table, lives, received, build, place, queue>>

\* insertPoolsSerial, row by row: a statement need not be atomic.
WriteRow ==
  /\ phase = "write"
  /\ \E w \in writing :
       /\ table' = [table EXCEPT ![Head(w).pool] = Written(Head(w), @)]
       /\ writing' = (writing \ {w}) \union (IF Len(w) = 1 THEN {} ELSE {Tail(w)})
  /\ UNCHANGED <<broker, lives, received, phase, build, place, queue>>

\* commitLastMessage, which may fail, and the end of the flush.
CommitLastMessage ==
  /\ phase = "write" /\ writing = {}
  /\ committed' \in {committed, queue[FlushCount].offset}
  /\ queue' = SubSeq(queue, FlushCount + 1, Len(queue))
  /\ phase' = "idle"
  /\ UNCHANGED <<log, table, lives, received, build, place, writing>>

\* The process dies and starts again after the committed offset, with nothing of its
\* memory.
Crash ==
  /\ lives < MaxLives /\ lives' = lives + 1
  /\ received' = committed
  /\ EndOfBuild
  /\ place' = CacheAtStart
  /\ queue' = <<>> /\ writing' = {}
  /\ UNCHANGED <<broker, table>>

WorkerStep == \/ Receive \/ Build \/ Enqueue \/ Panic
              \/ StartFlush \/ WriteRow \/ CommitLastMessage

Next == (\E m \in Messages : Produce(m)) \/ WorkerStep \/ Crash

Spec == Init /\ [][Next]_vars

-----------------------------------------------------------------------------
TypeOK ==
  /\ log \in Seq(Messages) /\ committed \in 0 .. Len(log)
  /\ table \in [Pools -> Nat \union {NoRow}]
  /\ lives \in 1 .. MaxLives /\ received \in 0 .. Len(log)
  /\ phase \in {"idle", "build", "write"}
  /\ built \in Nat /\ rows \in Seq(Row)
  /\ place \in [Pools -> 0 .. CacheSize]
  /\ queue \in Seq([offset : 1 .. Len(log), rows : Seq(Row)])
  /\ writing \subseteq Seq(Row)

Mentions(o, p) == \E i \in 1 .. Len(log[o].events) : log[o].events[i].pool = p

\* A message that could not be decoded has named the pool.
Poisoned(p, o) == \E i \in 1 .. o : ~log[i].sound /\ Mentions(i, p)

\* The worker still holds a row of the pool.
Pending(p) == \/ \E i \in 1 .. Len(rows) : rows[i].pool = p
              \/ \E i \in 1 .. Len(queue) : \E j \in 1 .. Len(queue[i].rows) : queue[i].rows[j].pool = p

\* A pool that is skipped because it has been seen is in the table, or its row is on
\* the way; the cache is filled before the table is (pool_cache.go:44).
SeenIsCovered == \A p \in Pools : Seen(p) => table[p] # NoRow \/ Pending(p) \/ Poisoned(p, received)

\* Every pool named by a message up to the committed offset has its row, unless an
\* earlier message that named it could not be decoded.
PoolsStored ==
  \A o \in 1 .. committed, p \in Pools :
    log[o].sound /\ Mentions(o, p) => table[p] # NoRow \/ Poisoned(p, o)

\* The event is the first one of the partition that names its pool.
First(o, i) == LET p == log[o].events[i].pool
               IN  /\ \A n \in 1 .. o - 1 : ~Mentions(n, p)
                   /\ \A j \in 1 .. i - 1 : log[o].events[j].pool # p

\* The time of a pool's creation reaches the table if the partition begins with it; a
\* creation after another event of the pool may be skipped as seen.
CreationRecorded ==
  \A o \in 1 .. committed : log[o].sound =>
    \A i \in 1 .. Len(log[o].events) :
      log[o].events[i].created > 0 /\ First(o, i) => table[log[o].events[i].pool] > 0

\* A time of creation that the table has is never lost, not when an evicted or
\* redelivered pool is written again without one.
CreationKept == [][\A p \in Pools : table[p] > 0 => table'[p] > 0]_vars
=============================================================================
