--------------------------- MODULE BalanceIngest ---------------------------
(***************************************************************************)
(* How the worker of a balance partition brings its blocks into the table  *)
(* balance: the split of a flush into realtime and historical blocks       *)
(* (ingest/worker.go), the upserts, deletes and the filter by              *)
(* last_event_id (handler/balance_model_writer.go), the commit, and what a *)
(* crash makes of them.                                                    *)
(*                                                                         *)
(* Channel, drains, stops and lost writes are the business of              *)
(* PartitionWorker.  A message is a block: its slot and its source.  The   *)
(* chain says which updates a slot has, whoever delivers it.  A row is     *)
(* abstracted to its last_event_id, and a balance to whether it is zero.   *)
(***************************************************************************)
EXTENDS Integers, Sequences, FiniteSets

CONSTANTS
  Accounts,       \* token accounts
  Chains,         \* chains to check: the updates of slot s are chain[s]
  MaxBatchFlush,  \* flush at most this many blocks at once
  MaxQueue,       \* bound of the queue (PartitionWorker!QueueBounded)
  AllowBackfill,  \* are there blocks that the gRPC stream does not deliver
  MaxLog,         \* bound: blocks produced
  MaxLives        \* bound: lives of the process

NoRow == 0

Update == [acct: Accounts, id: Nat \ {NoRow}, zero: BOOLEAN]

\* event_id = slot << 32 | tx_index << 16 | inner_index: unique, and in the
\* order of the slots.
EventIdsOrdered(c) ==
  /\ \A s \in 1..Len(c) : \A u, v \in c[s] : u.id = v.id => u = v
  /\ \A r, s \in 1..Len(c) : r < s => \A u \in c[r], v \in c[s] : u.id < v.id

ASSUME ChainsAssumption ==
  \A c \in Chains :
    /\ c \in Seq(SUBSET Update) /\ EventIdsOrdered(c)
    /\ \A s \in 1..Len(c) : IsFiniteSet(c[s])
ASSUME FlushAssumption == MaxBatchFlush \in Nat \ {0} /\ MaxQueue \in Nat \ {0}
ASSUME SourceAssumption == AllowBackfill \in BOOLEAN
ASSUME BoundAssumption == MaxLog \in Nat /\ MaxLives \in Nat \ {0}

VARIABLES
  chain,      \* the chain, never changed
  log,        \* broker: the blocks of the partition
  committed,  \* broker: last offset the group has committed, at first some earlier one
  table,      \* database: last_event_id of each account's row, or NoRow
  lives,      \* lives the process has begun
  reached,    \* history: last offset an earlier life has received
  received,   \* last offset the worker has received
  queue,      \* BatchQueue, by offset
  lastSlot,   \* highest slot this life has flushed
  phase,      \* where the flush is
  selecting,  \* goroutines that have not asked for last_event_id yet
  upserts,    \* updates the running InsertBalances still has to write
  deletes     \* updates the running InsertBalances still has to delete

broker  == <<chain, log, committed>>
process == <<lives, reached>>
intake  == <<received, queue, lastSlot>>
writers == <<selecting, upserts, deletes>>
vars == <<broker, table, process, intake, phase, writers>>

-----------------------------------------------------------------------------
Least(a, b) == IF a < b THEN a ELSE b

UpdatesIn(O) == UNION {chain[log[o].slot] : o \in O}

\* flushIfNeeded: how many blocks a flush takes, and which.
FlushCount == Least(Len(queue), MaxBatchFlush)
ToFlush    == {queue[i] : i \in 1..FlushCount}

\* isRealtime: newer than all this life has flushed; a new life takes the
\* blocks of the gRPC stream for new.
IsRealtime(b) == IF lastSlot = 0 THEN b.grpc ELSE b.slot > lastSlot

Realtime   == {o \in ToFlush : IsRealtime(log[o])}
Historical == ToFlush \ Realtime

\* flushIfNeeded: lastSlot only grows.
SlotsSeen == {lastSlot} \cup {log[o].slot : o \in ToFlush}

SlotOfLast(s) == s = log[queue[FlushCount]].slot

HighestSlot(s) == \A r \in SlotsSeen : r <= s

\* InsertBalances: of an account's updates keep the one with the largest id.
AllOfAccount(U) == U

LatestPerAccount(U) == {u \in U : \A v \in U : v.acct = u.acct => v.id <= u.id}

ToUpdate(U) == {u \in LatestPerAccount(U) : ~u.zero}
ToDelete(U) == {u \in LatestPerAccount(U) : u.zero}

\* filterBalancesByLastEventID: a missing row is older than any update, and
\* there is nothing to delete in it.
UpdateIfFound(u) == table[u.acct] # NoRow => u.id # table[u.acct]

UpdateIfNewer(u) == table[u.acct] = NoRow \/ u.id > table[u.acct]

DeleteIfLater(u) == table[u.acct] # NoRow /\ u.id >= table[u.acct]

\* Where a new life begins to read: after the committed offset.
StartOneLater == committed + 1

StartOffset == committed

-----------------------------------------------------------------------------
TypeOK ==
  /\ chain \in Chains
  /\ log \in Seq([slot: 1..Len(chain), grpc: BOOLEAN])
  /\ committed \in 0..Len(log)
  /\ table \in [Accounts -> Nat]
  /\ lives \in Nat
  /\ reached \in Nat
  /\ received \in 0..Len(log)
  /\ queue \in Seq(1..Len(log))
  /\ lastSlot \in 0..Len(chain)
  /\ phase \in {"idle", "realtime", "historical"}
  /\ selecting \subseteq {"update", "delete"}
  /\ upserts \subseteq Update
  /\ deletes \subseteq Update

Init ==
  /\ chain \in Chains
  /\ log = <<>>
  /\ committed = 0
  /\ table = [a \in Accounts |-> NoRow]
  /\ lives = 1
  /\ reached = 0
  /\ received = 0
  /\ queue = <<>>
  /\ lastSlot = 0
  /\ phase = "idle"
  /\ selecting = {}
  /\ upserts = {}
  /\ deletes = {}

-----------------------------------------------------------------------------
\* External: a block arrives.  The gRPC stream is realtime: its blocks are
\* newer than all before them.  Any other block is backfill: of a slot the
\* stream has missed or not reached, or once more of one it has delivered.
Produce ==
  /\ Len(log) < MaxLog
  /\ \E s \in 1..Len(chain), grpc \in BOOLEAN :
       /\ IF grpc THEN \A i \in 1..Len(log) : log[i].slot < s ELSE AllowBackfill
       /\ log' = Append(log, [slot |-> s, grpc |-> grpc])
  /\ UNCHANGED <<chain, committed, table, process, intake, phase, writers>>

\* The worker takes the next message into its queue, in a receive or a drain.
Receive ==
  /\ phase = "idle"
  /\ received < Len(log)
  /\ Len(queue) < MaxQueue
  /\ received' = received + 1
  /\ queue' = Append(queue, received + 1)
  /\ UNCHANGED <<broker, table, process, lastSlot, phase, writers>>

\* The rest of flushIfNeeded, after flushBatches.
EndOfFlush ==
  /\ queue' = SubSeq(queue, FlushCount + 1, Len(queue))
  /\ lastSlot' \in {s \in SlotsSeen : HighestSlot(s)}
  /\ phase' = "idle"

\* flushBalanceBatches without a balance: neither a write nor a commit.
FlushNothing ==
  /\ phase = "idle"
  /\ queue # <<>>
  /\ UpdatesIn(ToFlush) = {}
  /\ EndOfFlush
  /\ UNCHANGED <<broker, table, process, received, writers>>

\* flushBalanceBatches begins with the balances of the realtime blocks.  A
\* queue is flushed when it is long enough or by the ticker, so at any time.
StartFlush ==
  /\ phase = "idle"
  /\ queue # <<>>
  /\ UpdatesIn(ToFlush) # {}
  /\ phase' = "realtime"
  /\ upserts' = ToUpdate(UpdatesIn(Realtime))
  /\ deletes' = ToDelete(UpdatesIn(Realtime))
  /\ UNCHANGED <<broker, table, process, intake, selecting>>

\* The realtime balances are written; then the historical ones.
StartHistorical ==
  /\ phase = "realtime"
  /\ upserts = {} /\ deletes = {}
  /\ phase' = "historical"
  /\ selecting' = {"update", "delete"}
  /\ upserts' = ToUpdate(UpdatesIn(Historical))
  /\ deletes' = ToDelete(UpdatesIn(Historical))
  /\ UNCHANGED <<broker, table, process, intake>>

\* The two goroutines of InsertBalances ask for the last_event_ids they need.
SelectForUpdate ==
  /\ "update" \in selecting
  /\ selecting' = selecting \ {"update"}
  /\ upserts' = {u \in upserts : UpdateIfNewer(u)}
  /\ UNCHANGED <<broker, table, process, intake, phase, deletes>>

SelectForDelete ==
  /\ "delete" \in selecting
  /\ selecting' = selecting \ {"delete"}
  /\ deletes' = {u \in deletes : DeleteIfLater(u)}
  /\ UNCHANGED <<broker, table, process, intake, phase, upserts>>

\* upsertBalancesRealtime, row by row: a statement need not be atomic.
UpsertRow ==
  /\ "update" \notin selecting
  /\ \E u \in upserts :
       /\ table' = [table EXCEPT ![u.acct] = u.id]
       /\ upserts' = upserts \ {u}
  /\ UNCHANGED <<broker, process, intake, phase, selecting, deletes>>

\* deleteBalancesRealtime, row by row, whatever the row holds by now.
DeleteRow ==
  /\ "delete" \notin selecting
  /\ \E u \in deletes :
       /\ table' = [table EXCEPT ![u.acct] = NoRow]
       /\ deletes' = deletes \ {u}
  /\ UNCHANGED <<broker, process, intake, phase, selecting, upserts>>

\* commitLastMessage, which may fail, and the end of the flush.
CommitLastMessage ==
  /\ phase = "historical"
  /\ selecting = {} /\ upserts = {} /\ deletes = {}
  /\ committed' \in {committed, queue[FlushCount]}
  /\ EndOfFlush
  /\ UNCHANGED <<chain, log, table, process, received, writers>>

\* The process dies and starts again after the committed offset, with
\* nothing of its memory.
Crash ==
  /\ lives < MaxLives
  /\ lives' = lives + 1
  /\ reached' = IF reached < received THEN received ELSE reached
  /\ received' = StartOffset
  /\ queue' = <<>>
  /\ lastSlot' = 0
  /\ phase' = "idle"
  /\ selecting' = {}
  /\ upserts' = {}
  /\ deletes' = {}
  /\ UNCHANGED <<broker, table>>

WorkerStep ==
  \/ Receive \/ FlushNothing \/ StartFlush \/ StartHistorical
  \/ SelectForUpdate \/ SelectForDelete \/ UpsertRow \/ DeleteRow
  \/ CommitLastMessage

Next == Produce \/ WorkerStep \/ Crash

Spec == Init /\ [][Next]_vars

-----------------------------------------------------------------------------
(* Properties *)

UpdatesOf(a, O) == {u \in UpdatesIn(O) : u.acct = a}

\* The last update of account a among offsets O: none or one.
Last(a, O) == {u \in UpdatesOf(a, O) : \A v \in UpdatesOf(a, O) : v.id <= u.id}

\* A deleted account has come back: its last update removed the row, and a
\* backfilled older one found no row and took itself for new.
Resurrected(a) ==
  \E o \in 1..Len(log) :
    /\ ~log[o].grpc
    /\ \E u \in chain[log[o].slot] : u.acct = a /\ ~u.zero /\ u.id = table[a]

\* The row of account a is not older than its last update among offsets O,
\* unless a later update has emptied the account: then the row is gone, or
\* came back.
Reflects(a, O) ==
  \A u \in Last(a, O) :
    \/ table[a] >= u.id
    \/ /\ \E v \in UpdatesOf(a, 1..Len(log)) : v.zero /\ v.id >= u.id
       /\ table[a] = NoRow \/ Resurrected(a)

\* The goroutines of InsertBalances, and the rows of one statement, never
\* meet on an account: their order does not matter (the deduplication).
WritersDisjoint ==
  \A u, v \in upserts \cup deletes : u.acct = v.acct => u = v

\* A worker that was restarted meets backfill: it begins with lastSlot = 0,
\* so backfill passes for realtime as soon as an older block is flushed.
Sheltered == lives = 1 \/ \A i \in 1..Len(log) : log[i].grpc

\* What a restarted worker will not read again is in the table: no row is
\* older than the last committed update of its account, whatever the split
\* into realtime and historical blocks, partial flushes and redeliveries
\* (flushBalanceBatches, InsertBalances).
CommittedReflected == Sheltered => \A a \in Accounts : Reflects(a, 1..committed)

\* With everything received flushed, the table is the state of the accounts
\* at their last updates, but for resurrected ones (LatestPerAccount and the
\* order of the two writes of a flush).
Settled == phase = "idle" /\ queue = <<>> /\ received = Len(log)

Converged ==
  Settled /\ Sheltered => \A a \in Accounts :
    \A u \in Last(a, 1..Len(log)) :
      IF u.zero THEN table[a] = NoRow \/ Resurrected(a) ELSE table[a] = u.id

\* The same without the exceptions: of an account's updates the one with the
\* largest id is kept ("AccountAddress 去重，保留 lastEventID 最大的记录").
LargestIdKept ==
  Settled => \A a \in Accounts :
    \A u \in Last(a, 1..Len(log)) :
      table[a] = IF u.zero THEN NoRow ELSE u.id

\* A row is replaced by an older update only while the worker reads again
\* what an earlier life had received: within a life the realtime path,
\* which asks nothing, only meets older rows (isRealtime, lastSlot).
BackOnlyOnRedelivery ==
  [][\A a \in Accounts :
       table'[a] # NoRow /\ table'[a] < table[a] /\ Sheltered =>
         \E o \in ToFlush : o <= reached]_vars

=============================================================================
