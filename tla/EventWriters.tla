----------------------------- MODULE EventWriters -----------------------------
(***************************************************************************)
(* The members of a consumer group that pass a partition of events to each *)
(* other, and how each of them writes: the rows of a flush are cut into    *)
(* batches for goroutines (handler/chain_event_writer.go,                  *)
(* transfer_event_writer.go), a batch into statements, and a statement is  *)
(* repeated until it succeeds (pkg/db/db_retry.go).                        *)
(*                                                                         *)
(* No callback tells a member of a rebalance (KafkaConsumer.Start): it     *)
(* goes on writing and committing what it has received, and a worker that  *)
(* gets its partition back still has its old queue.  Channel, drains and   *)
(* the order of a stop are those of PartitionWorker.                       *)
(***************************************************************************)
EXTENDS Integers, Sequences, FiniteSets

CONSTANTS
  Members,        \* processes of the group
  Nobody,         \* no member
  Size,           \* how many rows each message has, if it is produced
  MaxBatchFlush,  \* flush at most this many messages at once
  MaxQueue,       \* bound of the queue (PartitionWorker!QueueBounded)
  MinBatch,       \* batchSize, for few rows
  MaxWorkers,     \* maxWorkers
  StatementRows,  \* chainEventsBatchSize, transferEventsBatchSize
  MaxRetries,     \* maxRetries of RetryWithBackoff
  MaxLog,         \* bound: messages produced
  MaxAssigns,     \* bound: times the partition is assigned
  MaxRestarts     \* bound: restarts of members

ASSUME MembersAssumption == Nobody \notin Members
ASSUME LimitsAssumption ==
  /\ Size \in [1 .. MaxLog -> Nat \ {0}]
  /\ MaxBatchFlush \in Nat \ {0} /\ MaxQueue \in Nat \ {0}
  /\ MinBatch \in Nat \ {0} /\ MaxWorkers \in Nat \ {0} /\ StatementRows \in Nat \ {0}
  /\ MaxRetries \in Nat \ {0}
ASSUME BoundAssumption == MaxLog \in Nat /\ MaxAssigns \in Nat /\ MaxRestarts \in Nat

VARIABLES
  log,        \* broker: the number of rows of each message of the partition
  committed,  \* broker: last offset the group has committed, at first some earlier one
  owner,      \* broker: the member that reads the partition
  stored,     \* database: the rows written
  received,   \* last offset each member has received, since it got the partition
  queue,      \* BatchQueue of each member: offsets
  flushing,   \* messages in each member's running flush, 0 for none
  jobs,       \* goroutines of the flush: rows still to write, attempts so far
  cancelled,  \* the context of the member's workers
  lost,       \* history: rows of a batch that was given up
  assigns, restarts

broker == <<log, committed, owner>>
tables == <<stored, lost>>
worker == <<queue, flushing, jobs>>
counts == <<assigns, restarts>>
vars == <<broker, tables, received, worker, cancelled, counts>>

\* Row i of message o.
RowsOf(o) == {o} \X (1 .. log[o])
Row == (Nat \ {0}) \X (Nat \ {0})

-----------------------------------------------------------------------------
(* InsertChainEvents, InsertTransferEvents                                  *)

\* A row of the running flush is known by its message's place in the queue and its own
\* place there; the rows are joined in that order.
Flushed(m, count) == UNION {{n} \X (1 .. log[queue[m][n]]) : n \in 1 .. count}
RowAt(m, x) == <<queue[m][x[1]], x[2]>>
Before(x, y) == x[1] < y[1] \/ (x[1] = y[1] /\ x[2] < y[2])
Position(x, S) == Cardinality({y \in S : Before(y, x)})

\* ceil(eventsCount / workers) for many rows.
FloorBatchSize(count) ==                                  \* faulty variant
  IF count > MinBatch * MaxWorkers THEN count \div MaxWorkers ELSE MinBatch
BatchSize(count) ==
  IF count > MinBatch * MaxWorkers THEN (count + MaxWorkers - 1) \div MaxWorkers ELSE MinBatch

\* for i := 0; i < eventsCount; i += batchSize
Starts(count, size) == {k * size : k \in 0 .. count} \intersect 0 .. count - 1

\* The goroutines and their batches.
Batches(S) ==
  LET size == BatchSize(Cardinality(S))
  IN  {[rows |-> {x \in S : Position(x, S) \in i .. i + size - 1}, attempt |-> 0] :
         i \in Starts(Cardinality(S), size)}

\* The first statement of what a goroutine has left.
Statement(rows) == {x \in rows : Position(x, rows) < StatementRows}

\* The message whose offset a flush commits.
LastReceived(m) == received[m]                            \* faulty variant
LastQueued(m) == queue[m][Len(queue[m])]                  \* faulty variant
LastOfFlush(m) == queue[m][flushing[m]]

FlushCount(m) == IF Len(queue[m]) < MaxBatchFlush THEN Len(queue[m]) ELSE MaxBatchFlush

\* The queue is long enough, or the ticker finds something in it.
DueWhenLong(m) == Len(queue[m]) >= MaxBatchFlush          \* faulty variant
Due(m) == queue[m] # <<>>

-----------------------------------------------------------------------------
Init ==
  /\ log = <<>> /\ committed = 0 /\ owner = Nobody
  /\ stored = {} /\ lost = {}
  /\ received = [m \in Members |-> 0]
  /\ queue = [m \in Members |-> <<>>]
  /\ flushing = [m \in Members |-> 0]
  /\ jobs = [m \in Members |-> {}]
  /\ cancelled = [m \in Members |-> FALSE]
  /\ assigns = 0 /\ restarts = 0

\* External: a message arrives.
Produce ==
  /\ Len(log) < MaxLog
  /\ log' = Append(log, Size[Len(log) + 1])
  /\ UNCHANGED <<committed, owner, tables, received, worker, cancelled, counts>>

\* External: the group gives the partition to a member, which begins after the committed
\* offset, also if it has been reading it.
Assign(m) ==
  /\ ~cancelled[m]
  /\ IF owner = Nobody THEN UNCHANGED assigns ELSE assigns < MaxAssigns /\ assigns' = assigns + 1
  /\ owner' = m
  /\ received' = [received EXCEPT ![m] = committed]
  /\ UNCHANGED <<log, committed, tables, worker, cancelled, restarts>>

Receive(m) ==
  /\ owner = m /\ received[m] < Len(log) /\ Len(queue[m]) < MaxQueue
  /\ received' = [received EXCEPT ![m] = @ + 1]
  /\ queue' = [queue EXCEPT ![m] = Append(@, received[m] + 1)]
  /\ UNCHANGED <<broker, tables, flushing, jobs, cancelled, counts>>

\* flushEventBatches: goroutines are started.
StartFlush(m) ==
  /\ flushing[m] = 0 /\ Due(m)
  /\ flushing' = [flushing EXCEPT ![m] = FlushCount(m)]
  /\ jobs' = [jobs EXCEPT ![m] = Batches(Flushed(m, FlushCount(m)))]
  /\ UNCHANGED <<broker, tables, received, queue, cancelled, counts>>

\* insertChainEventsSerial, insertTransferEventsSerial: a statement succeeds, ...
WriteStatement(m) ==
  /\ ~cancelled[m]
  /\ \E j \in jobs[m] :
       LET rest == j.rows \ Statement(j.rows)
       IN  /\ stored' = stored \union {RowAt(m, x) : x \in Statement(j.rows)}
           /\ jobs' = [jobs EXCEPT ![m] = (@ \ {j}) \union
                          IF rest = {} THEN {} ELSE {[rows |-> rest, attempt |-> 0]}]
  /\ UNCHANGED <<broker, lost, received, queue, flushing, cancelled, counts>>

\* ... or fails, after some of its rows, and is repeated; ...
RetryStatement(m) ==
  /\ ~cancelled[m]
  /\ \E j \in jobs[m] : \E S \in SUBSET Statement(j.rows) :
       /\ j.attempt + 1 < MaxRetries
       /\ stored' = stored \union {RowAt(m, x) : x \in S}
       /\ jobs' = [jobs EXCEPT ![m] = (@ \ {j}) \union {[j EXCEPT !.attempt = @ + 1]}]
  /\ UNCHANGED <<broker, lost, received, queue, flushing, cancelled, counts>>

\* ... until the context is cancelled or the attempts are used up: the batch ends with an
\* error, and what is left of it is not written.
GiveUp(m) ==
  /\ \E j \in jobs[m] : \E S \in SUBSET Statement(j.rows) :
       /\ cancelled[m] \/ j.attempt + 1 = MaxRetries
       /\ stored' = stored \union {RowAt(m, x) : x \in S}
       /\ lost' = lost \union {RowAt(m, x) : x \in j.rows}
       /\ jobs' = [jobs EXCEPT ![m] = @ \ {j}]
  /\ UNCHANGED <<broker, received, queue, flushing, cancelled, counts>>

\* commitLastMessage; an error of the writers or of the commit is only logged.
CommitLastMessage(m) ==
  /\ flushing[m] # 0 /\ jobs[m] = {}
  /\ committed' \in {committed, LastOfFlush(m)}
  /\ queue' = [queue EXCEPT ![m] = SubSeq(@, flushing[m] + 1, Len(@))]
  /\ flushing' = [flushing EXCEPT ![m] = 0]
  /\ UNCHANGED <<log, owner, tables, received, jobs, cancelled, counts>>

Leave(m) == owner' = IF owner = m THEN Nobody ELSE owner

\* A member is stopped: its consumer leaves the group, and its context is cancelled.
Stop(m) ==
  /\ ~cancelled[m] /\ restarts < MaxRestarts /\ restarts' = restarts + 1
  /\ cancelled' = [cancelled EXCEPT ![m] = TRUE]
  /\ Leave(m)
  /\ UNCHANGED <<log, committed, tables, received, worker, assigns>>

\* It starts again with nothing of its memory.
Boot(m) ==
  /\ cancelled' = [cancelled EXCEPT ![m] = FALSE]
  /\ received' = [received EXCEPT ![m] = 0]
  /\ queue' = [queue EXCEPT ![m] = <<>>]
  /\ flushing' = [flushing EXCEPT ![m] = 0]
  /\ jobs' = [jobs EXCEPT ![m] = {}]
  /\ UNCHANGED <<log, committed, tables, assigns>>

Exit(m) == cancelled[m] /\ flushing[m] = 0 /\ Boot(m) /\ UNCHANGED <<owner, restarts>>

Crash(m) ==
  /\ ~cancelled[m] /\ restarts < MaxRestarts /\ restarts' = restarts + 1
  /\ Leave(m) /\ Boot(m)

MemberStep(m) ==
  \/ Receive(m) \/ StartFlush(m)
  \/ WriteStatement(m) \/ RetryStatement(m) \/ GiveUp(m)
  \/ CommitLastMessage(m) \/ Exit(m)

Next ==
  \/ Produce
  \/ (\E m \in Members : Assign(m) \/ MemberStep(m) \/ Stop(m) \/ Crash(m))

Spec == Init /\ [][Next]_vars

\* A member with a goroutine that can run goes on, and the group does not leave the
\* partition without a member: nothing is assumed of failures.
FairSpec ==
  /\ Spec
  /\ \A m \in Members : WF_vars(MemberStep(m))
  /\ WF_vars(owner = Nobody /\ \E m \in Members : Assign(m))

-----------------------------------------------------------------------------
\* However many rows a flush has, no more goroutines than maxWorkers write to the database
\* (chain_event_writer.go:33, transfer_event_writer.go:31).
WorkersBounded == \A m \in Members : Cardinality(jobs[m]) <= MaxWorkers

\* The variables have their types, and a flush keeps within its goroutines.
TypeOK ==
  /\ log \in Seq(Nat \ {0}) /\ committed \in 0 .. Len(log)
  /\ owner \in Members \union {Nobody}
  /\ stored \subseteq Row /\ lost \subseteq Row
  /\ received \in [Members -> 0 .. Len(log)]
  /\ queue \in [Members -> Seq(1 .. Len(log))]
  /\ flushing \in [Members -> Nat] /\ \A m \in Members : flushing[m] <= Len(queue[m])
  /\ jobs \in [Members -> SUBSET [rows : SUBSET Row, attempt : 0 .. MaxRetries - 1]]
  /\ cancelled \in [Members -> BOOLEAN]
  /\ assigns \in 0 .. MaxAssigns /\ restarts \in 0 .. MaxRestarts
  /\ WorkersBounded

\* Every row of the message has been written, or the member that had it gave it up.
Settled(o) == RowsOf(o) \subseteq stored \union lost

\* Whichever member has committed last, and however old its flush was when it did, nothing
\* at or below the committed offset is missing, but for batches that were given up: by a
\* stop or after maxRetries failures (worker.go:343, kafka_consumer.go:99).
Accounted == \A o \in 1 .. committed : Settled(o)

\* Members that pass the partition to each other implement at-least-once delivery
\* (AtLeastOnce): whoever writes, repeats or gives up a statement, the tables get nothing but
\* the rows of messages, and keep them, and the offset, which a late commit may take back,
\* moves only over messages that are settled (worker.go:343, chain_event_writer.go:27).
Promise == INSTANCE AtLeastOnce
             WITH Alone <- FALSE,
                  InitialCommit <- 0,
                  Kinds <- {[batch |-> TRUE, rows |-> 1 .. Size[o]] : o \in 1 .. MaxLog},
                  log <- [o \in 1 .. Len(log) |-> [batch |-> TRUE, rows |-> 1 .. log[o]]],
                  written <- {<<r[2], r[1]>> : r \in stored},
                  excused <- {<<r[2], r[1]>> : r \in lost}

Implements == Promise!Spec

\* In the end every message is settled, across rebalances, stops, crashes and failures.
EventuallySettled == <>[](\A o \in 1 .. Len(log) : Settled(o))
=============================================================================
