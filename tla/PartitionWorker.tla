-------------------------- MODULE PartitionWorker --------------------------
(***************************************************************************)
(* The ingest pipeline of one Kafka partition: the broker's log and        *)
(* committed offset, the consumer's read loop (mq/kafka_consumer.go), the  *)
(* partition router (ingest/router.go), the partition worker               *)
(* (ingest/worker.go), the database it writes and the stops, crashes and   *)
(* restarts of the process around them.                                    *)
(*                                                                         *)
(* A message is abstracted to what the pipeline does with it: whether      *)
(* buildBlockBatch yields a batch, and the set of tables the batch has     *)
(* rows for.  A row set of one message in one table is the pair <<t, o>>,  *)
(* "stored" once all of it is in the table.  Offsets start at 1; the       *)
(* committed offset is the last one consumed, not the next one.            *)
(*                                                                         *)
(* Some definitions are preceded by a faulty variant of themselves (at the *)
(* front, late, always, ...): with it in place a property below fails.     *)
(***************************************************************************)
EXTENDS Integers, Sequences, FiniteSets

CONSTANTS
  Tables,         \* tables a batch can have rows for
  Kinds,          \* the kinds of message producers send
  RouterType,     \* "event" or "balance": the two routers
  ChanCap,        \* capacity of the worker's channel (1000 in the code)
  MaxBlockHold,   \* flush when the queue holds this many batches
  MaxBatchFlush,  \* flush at most this many batches at once
  InitialCommit,  \* the group's committed offset at first: 0, or NoOffset
  AllowStop,      \* does SIGTERM reach the service group
  MaxLog,         \* bound: messages produced
  MaxLives        \* bound: lives of the process

NoOffset == -1

Message == [batch: BOOLEAN, rows: SUBSET Tables]

ASSUME KindsAssumption   == Kinds \subseteq Message
ASSUME RouterAssumption  == RouterType \in {"event", "balance"}
ASSUME ChanCapAssumption == ChanCap \in Nat \ {0}
ASSUME HoldAssumption    == MaxBlockHold \in Nat \ {0}
ASSUME FlushAssumption   == MaxBatchFlush \in Nat \ {0}
ASSUME CommitAssumption  == InitialCommit \in {NoOffset, 0}
ASSUME StopAssumption    == AllowStop \in BOOLEAN
ASSUME BoundAssumption   == MaxLog \in Nat /\ MaxLives \in Nat \ {0}

VARIABLES
  log,           \* broker: the messages of the partition
  committed,     \* broker: offset the group has committed, or NoOffset
  reset,         \* history: offsets up to it were skipped by auto.offset.reset
  stored,        \* database: row sets fully written
  lost,          \* history: row sets whose writer returned an error
  proc,          \* the ingest process
  lives,         \* lives the process has begun
  reader,        \* where the consumer goroutine is
  pos,           \* last offset ReadMessage returned
  channel,       \* the worker's channel
  closed,        \* has Stop closed it
  worker,        \* where the worker goroutine is
  queue,         \* BatchQueue, by offset
  space,         \* receives drainMessages has left
  todo,          \* row sets the running flush still has to write
  routerStop,    \* progress of PartitionRouter.Stop
  consumerStop   \* progress of ConsumerRunner.Stop

broker    == <<log, committed, reset>>
database  == <<stored, lost>>
process   == <<proc, lives>>
consumer  == <<reader, pos>>
chanVars  == <<channel, closed>>
workVars  == <<worker, queue, space, todo>>
stopVars  == <<routerStop, consumerStop>>
vars == <<broker, database, process, consumer, chanVars, workVars, stopVars>>

-----------------------------------------------------------------------------
MinOf(a, b) == IF a < b THEN a ELSE b
MaxOf(a, b) == IF a < b THEN b ELSE a

\* The tables the batch of offset o has rows for; a message without a batch
\* (unmarshal error, no events, panic while building) writes nothing.
Rows(o) == IF log[o].batch THEN log[o].rows ELSE {}

RowSets(O) == UNION {{<<t, o>> : t \in Rows(o)} : o \in O}

\* handleMessage: append the batch of a received message unless it is nil.
HandleAtFront(q, o) == IF log[o].batch THEN <<o>> \o q ELSE q

Handle(q, o) == IF log[o].batch THEN Append(q, o) ELSE q

\* The end of a receive in Run: flush when enough batches are held.
AfterReceiveLate(q) == IF Len(q) > MaxBlockHold THEN "flush" ELSE "select"

AfterReceive(q) == IF Len(q) >= MaxBlockHold THEN "flush" ELSE "select"

\* flushCount of flushIfNeeded, and the offsets of toFlush.
FlushCount == MinOf(Len(queue), MaxBatchFlush)
ToFlush    == {queue[i] : i \in 1..FlushCount}

\* Where the consumer starts when the partition is assigned.
StartAtFirst == 0

StartOffset == IF committed = NoOffset THEN Len(log) ELSE committed

\* Run drains when the channel fills the rest of a flush.
DrainAlways(n) == TRUE

DrainWorthwhile(n) == Len(channel) >= n

\* The loop of drainMessages ends with this receive.
LastTurnLate == space = 0

LastTurn == space = 1

\* The ticker finds something to flush.
TickAtHold == Len(queue) >= MaxBlockHold

TickDue == queue # <<>>

\* The select of Run sees that the worker is to leave.
LeaveWhenClosed == closed /\ channel = <<>>

Leave == routerStop # "run" \/ (closed /\ channel = <<>>)

\* wg.Wait: every writer of the flush has returned.
WritersDone == todo = {}

\* commitLastMessage commits the last message of the flushed batches.
LastOfQueue == queue[Len(queue)]

LastMessage == queue[FlushCount]

-----------------------------------------------------------------------------
TypeOK ==
  /\ log \in Seq(Message)
  /\ committed \in Nat \cup {NoOffset}
  /\ reset \in Nat
  /\ stored \subseteq Tables \X Nat
  /\ lost \subseteq Tables \X Nat
  /\ proc \in {"up", "exited", "sendPanic", "nilPanic"}
  /\ lives \in Nat
  /\ reader \in {"joining", "poll", "read", "dispatch", "send", "exited"}
  /\ pos \in Nat
  /\ channel \in Seq(Nat)
  /\ closed \in BOOLEAN
  /\ worker \in {"none", "select", "received", "drain", "flush", "write", "exited"}
  /\ queue \in Seq(Nat)
  /\ space \in Nat
  /\ todo \subseteq Tables \X Nat
  /\ routerStop \in {"run", "cancelled", "closed", "stopped"}
  /\ consumerStop \in {"run", "cancelled", "closed"}

Init ==
  /\ log = <<>>
  /\ committed = InitialCommit
  /\ reset = 0
  /\ stored = {}
  /\ lost = {}
  /\ proc = "up"
  /\ lives = 1
  /\ reader = "joining"
  /\ pos = 0
  /\ channel = <<>>
  /\ closed = FALSE
  /\ worker = "none"
  /\ queue = <<>>
  /\ space = 0
  /\ todo = {}
  /\ routerStop = "run"
  /\ consumerStop = "run"

-----------------------------------------------------------------------------
(* The broker and the consumer goroutine *)

\* External: a producer appends a message to the partition.
Produce ==
  /\ Len(log) < MaxLog
  /\ \E k \in Kinds : log' = Append(log, k)
  /\ UNCHANGED <<committed, reset, database, process, consumer, chanVars,
                 workVars, stopVars>>

\* External: the group assigns the partition.  Reading starts after the
\* committed offset or, without one, at the end of the log
\* (auto.offset.reset = latest).
Assign ==
  /\ proc = "up"
  /\ reader = "joining"
  /\ consumerStop # "closed"
  /\ reader' = "poll"
  /\ pos' = StartOffset
  /\ reset' = IF committed = NoOffset THEN Len(log) ELSE reset
  /\ UNCHANGED <<log, committed, database, process, chanVars, workVars, stopVars>>

\* Top of the read loop: go on while neither Done nor ctx is closed, ...
PollLoop ==
  /\ proc = "up"
  /\ reader = "poll"
  /\ consumerStop = "run"
  /\ reader' = "read"
  /\ UNCHANGED <<broker, database, process, pos, chanVars, workVars, stopVars>>

\* ... and leave otherwise.
ReaderExit ==
  /\ proc = "up"
  /\ reader \in {"joining", "poll"}
  /\ consumerStop # "run"
  /\ reader' = "exited"
  /\ UNCHANGED <<broker, database, process, pos, chanVars, workVars, stopVars>>

\* ReadMessage returns the next message, and the handler is called with it.
ReadMessage ==
  /\ proc = "up"
  /\ reader = "read"
  /\ consumerStop # "closed"
  /\ pos < Len(log)
  /\ pos' = pos + 1
  /\ reader' = "dispatch"
  /\ UNCHANGED <<broker, database, process, chanVars, workVars, stopVars>>

\* ReadMessage times out or fails: continue.
ReadError ==
  /\ proc = "up"
  /\ reader = "read"
  /\ reader' = "poll"
  /\ UNCHANGED <<broker, database, process, pos, chanVars, workVars, stopVars>>

\* Dispatch under the mutex: find the partition's channel, or make it and
\* start its worker.
Dispatch ==
  /\ proc = "up"
  /\ reader = "dispatch"
  /\ worker' = IF worker = "none" THEN "select" ELSE worker
  /\ reader' = "send"
  /\ UNCHANGED <<broker, database, process, pos, chanVars, queue, space, todo,
                 stopVars>>

\* Dispatch after the mutex: ch <- msg, which blocks while the channel is full.
SendToWorker ==
  /\ proc = "up"
  /\ reader = "send"
  /\ ~closed
  /\ Len(channel) < ChanCap
  /\ channel' = Append(channel, pos)
  /\ reader' = "poll"
  /\ UNCHANGED <<broker, database, process, pos, closed, workVars, stopVars>>

\* A send on a closed channel panics, also one that was blocked before the
\* close; nothing recovers the consumer goroutine.
SendOnClosed ==
  /\ proc = "up"
  /\ reader = "send"
  /\ closed
  /\ proc' = "sendPanic"
  /\ UNCHANGED <<broker, database, lives, consumer, chanVars, workVars, stopVars>>

-----------------------------------------------------------------------------
(* The worker goroutine: Run *)

\* select takes ctx.Done, or finds the channel closed and empty.
WorkerExit ==
  /\ proc = "up"
  /\ worker = "select"
  /\ Leave
  /\ worker' = "exited"
  /\ UNCHANGED <<broker, database, process, consumer, chanVars, queue, space,
                 todo, stopVars>>

\* select takes a message: handleMessage.
Receive ==
  /\ proc = "up"
  /\ worker = "select"
  /\ channel # <<>>
  /\ queue' = Handle(queue, Head(channel))
  /\ channel' = Tail(channel)
  /\ worker' = "received"
  /\ UNCHANGED <<broker, database, process, consumer, closed, space, todo, stopVars>>

\* Read len(MsgCh): drain when it fills the rest of a flush.
CheckSpace ==
  /\ proc = "up"
  /\ worker = "received"
  /\ LET spaceLeft == MaxBatchFlush - Len(queue)
     IN IF spaceLeft > 0 /\ DrainWorthwhile(spaceLeft)
          THEN worker' = "drain" /\ space' = spaceLeft
          ELSE worker' = AfterReceive(queue) /\ space' = 0
  /\ UNCHANGED <<broker, database, process, consumer, chanVars, queue, todo, stopVars>>

\* One turn of drainMessages.  A receive that finds nothing takes default
\* and returns; on a closed channel it hands out nil instead, and the recover
\* of buildBlockBatch reads the nil message again and panics for good.
DrainMessages ==
  /\ proc = "up"
  /\ worker = "drain"
  /\ IF channel # <<>>
       THEN /\ queue' = Handle(queue, Head(channel))
            /\ channel' = Tail(channel)
            /\ space' = space - 1
            /\ worker' = IF LastTurn THEN AfterReceive(queue') ELSE "drain"
            /\ UNCHANGED proc
       ELSE /\ space' = IF closed THEN space ELSE 0
            /\ worker' = IF closed THEN worker ELSE AfterReceive(queue)
            /\ proc' = IF closed THEN "nilPanic" ELSE proc
            /\ UNCHANGED <<queue, channel>>
  /\ UNCHANGED <<broker, database, lives, consumer, closed, todo, stopVars>>

\* select takes the ticker, FlushInterval after the last flush (time is
\* abstracted: the interval may or may not have passed).
Tick ==
  /\ proc = "up"
  /\ worker = "select"
  /\ TickDue
  /\ worker' = "flush"
  /\ UNCHANGED <<broker, database, process, consumer, chanVars, queue, space,
                 todo, stopVars>>

\* flushIfNeeded drops the flushed prefix of the queue.
DropAll ==
  /\ queue' = <<>>
  /\ worker' = "select"

DropFlushed ==
  /\ queue' = SubSeq(queue, FlushCount + 1, Len(queue))
  /\ worker' = "select"

\* flushIfNeeded begins: the balance router returns at once, without a
\* commit, when the batches hold no rows; otherwise the writers start.
StartFlush ==
  /\ proc = "up"
  /\ worker = "flush"
  /\ IF RouterType = "balance" /\ RowSets(ToFlush) = {}
       THEN DropFlushed /\ UNCHANGED todo
       ELSE worker' = "write" /\ todo' = RowSets(ToFlush) /\ UNCHANGED queue
  /\ UNCHANGED <<broker, database, process, consumer, chanVars, space, stopVars>>

\* A writer gets one row set into its table (retrying as often as it takes;
\* a write repeated after a lost answer is an upsert by primary key).
WriteRows ==
  /\ proc = "up"
  /\ worker = "write"
  /\ \E r \in todo :
       /\ stored' = stored \cup {r}
       /\ todo' = todo \ {r}
  /\ UNCHANGED <<broker, lost, process, consumer, chanVars, worker, queue, space,
                 stopVars>>

\* A writer returns an error, which is only logged: RetryWithBackoff gives
\* up when the router's ctx is cancelled.  (Its other way out, 100000 failed
\* attempts over eleven days, is left to the retry module.)
GiveUpRows ==
  /\ proc = "up"
  /\ worker = "write"
  /\ routerStop # "run"
  /\ \E r \in todo :
       /\ lost' = lost \cup {r}
       /\ todo' = todo \ {r}
  /\ UNCHANGED <<broker, stored, process, consumer, chanVars, worker, queue, space,
                 stopVars>>

\* All writers are done (wg.Wait): commitLastMessage, whose error is only
\* logged, and the rest of flushIfNeeded.
CommitLastMessage ==
  /\ proc = "up"
  /\ worker = "write"
  /\ WritersDone
  /\ \/ consumerStop # "closed" /\ committed' = LastMessage
     \/ UNCHANGED committed
  /\ DropFlushed
  /\ UNCHANGED <<log, reset, database, process, consumer, chanVars, space, todo,
                 stopVars>>

-----------------------------------------------------------------------------
(* Stops, crashes and restarts *)

\* PartitionRouter.Stop: cancel; close the channels under the mutex; wait
\* for the workers.  The service group runs the Stops concurrently.
RouterCancel ==
  /\ proc = "up"
  /\ AllowStop
  /\ routerStop = "run"
  /\ routerStop' = "cancelled"
  /\ UNCHANGED <<broker, database, process, consumer, chanVars, workVars, consumerStop>>

RouterClose ==
  /\ proc = "up"
  /\ routerStop = "cancelled"
  /\ routerStop' = "closed"
  /\ closed' = (worker # "none")
  /\ UNCHANGED <<broker, database, process, consumer, channel, workVars, consumerStop>>

RouterWait ==
  /\ proc = "up"
  /\ routerStop = "closed"
  /\ worker \in {"none", "exited"}
  /\ routerStop' = "stopped"
  /\ UNCHANGED <<broker, database, process, consumer, chanVars, workVars, consumerStop>>

\* ConsumerRunner.Stop: Cancel, then close the Kafka client.
ConsumerCancel ==
  /\ proc = "up"
  /\ AllowStop
  /\ consumerStop = "run"
  /\ consumerStop' = "cancelled"
  /\ UNCHANGED <<broker, database, process, consumer, chanVars, workVars, routerStop>>

ConsumerClose ==
  /\ proc = "up"
  /\ consumerStop = "cancelled"
  /\ consumerStop' = "closed"
  /\ UNCHANGED <<broker, database, process, consumer, chanVars, workVars, routerStop>>

\* Both Stops have returned: main returns.
ProcessExit ==
  /\ proc = "up"
  /\ routerStop = "stopped"
  /\ consumerStop = "closed"
  /\ proc' = "exited"
  /\ UNCHANGED <<broker, database, lives, consumer, chanVars, workVars, stopVars>>

\* A new process: nothing in memory survives.
Boot ==
  /\ lives < MaxLives
  /\ lives' = lives + 1
  /\ proc' = "up"
  /\ reader' = "joining"
  /\ pos' = 0
  /\ channel' = <<>>
  /\ closed' = FALSE
  /\ worker' = "none"
  /\ queue' = <<>>
  /\ space' = 0
  /\ todo' = {}
  /\ routerStop' = "run"
  /\ consumerStop' = "run"
  /\ UNCHANGED <<broker, database>>

Crash   == proc = "up" /\ Boot
Restart == proc # "up" /\ Boot

-----------------------------------------------------------------------------
ReaderStep ==
  \/ Assign \/ PollLoop \/ ReaderExit \/ ReadMessage \/ ReadError
  \/ Dispatch \/ SendToWorker \/ SendOnClosed

WorkerStep ==
  \/ WorkerExit \/ Receive \/ CheckSpace \/ DrainMessages
  \/ Tick \/ StartFlush \/ WriteRows \/ GiveUpRows \/ CommitLastMessage

StopStep ==
  \/ RouterCancel \/ RouterClose \/ RouterWait
  \/ ConsumerCancel \/ ConsumerClose \/ ProcessExit

Next == Produce \/ ReaderStep \/ WorkerStep \/ StopStep \/ Crash \/ Restart

Spec == Init /\ [][Next]_vars

\* Goroutines that can run do run; the broker delivers what it holds sooner
\* or later (ReadMessage may fail in between, hence SF); the database takes
\* a write sooner or later (WF of the worker in "write"); a stop that has
\* begun is carried out by both services; a supervisor restarts the process.
Stopping == routerStop # "run" \/ consumerStop # "run"

Fairness ==
  /\ WF_vars(Assign) /\ WF_vars(PollLoop) /\ WF_vars(ReaderExit) /\ WF_vars(ReadError)
  /\ SF_vars(ReadMessage)
  /\ WF_vars(Dispatch) /\ WF_vars(SendToWorker) /\ WF_vars(SendOnClosed)
  /\ WF_vars(WorkerStep)
  /\ WF_vars(Stopping /\ (RouterCancel \/ RouterClose \/ RouterWait))
  /\ WF_vars(Stopping /\ (ConsumerCancel \/ ConsumerClose))
  /\ WF_vars(ProcessExit)
  /\ WF_vars(Restart)

FairSpec == Spec /\ Fairness

-----------------------------------------------------------------------------
(* Properties *)

\* Row set <<t, o>> is in its table, or its message was skipped when a group
\* without a commit joined at the end of the log.
Durable(t, o)   == <<t, o>> \in stored \/ o <= reset
Accounted(t, o) == Durable(t, o) \/ <<t, o>> \in lost

\* Every row set of a message at or below the committed offset was written,
\* unless its writer returned an error: the commit at the end of a flush
\* never covers a batch that is still queued, in the channel or being
\* written (flushEventBatches, flushBalanceBatches, commitLastMessage).
CommittedAccounted ==
  \A o \in 1..committed : \A t \in Rows(o) : Accounted(t, o)

\* The same without the excuse of a writer's error: what a group that
\* resumes at the committed offset will not see again is in the tables.
CommittedStored ==
  \A o \in 1..committed : \A t \in Rows(o) : Durable(t, o)

\* Offsets handed to the channel, and offsets the worker took out of it.
Handed   == IF reader \in {"dispatch", "send"} THEN pos - 1 ELSE pos
Received == Handed - Len(channel)

\* Messages keep the order of the log: the channel holds the offsets between
\* the worker and the reader, every one of them, and the queue holds older
\* ones, in order and once (Dispatch, Run, drainMessages, flushIfNeeded).
DeliveredInOrder ==
  /\ \A i \in 1..Len(channel) : channel[i] = Received + i
  /\ \A i \in 1..Len(queue) : queue[i] \in 1..Received
  /\ \A i, j \in 1..Len(queue) : i < j => queue[i] < queue[j]

\* No message a process has received is forgotten: its row sets are written
\* (or reported lost by their writer), or its batch is still in the queue,
\* also while a flush is half done and after a flush of part of the queue.
NothingForgotten ==
  \A o \in 1..Received : \A t \in Rows(o) :
    Accounted(t, o) \/ \E i \in 1..Len(queue) : queue[i] = o

\* The queue's memory is bounded by the two limits whatever the sizes of
\* the drains and of the flushes (Run's spaceLeft, flushIfNeeded).
QueueBounded ==
  /\ Len(queue) <= MaxOf(MaxBlockHold, MaxBatchFlush)
  /\ worker = "select" => Len(queue) < MaxBlockHold

\* drainMessages never takes nil from a channel that Stop has closed: the
\* length it read before is still there, for the worker is the only receiver.
DrainNeverNil == proc # "nilPanic"

\* Stop closes the channels without a send on one of them being possible
\* ("graceful": PartitionRouter.Stop against Dispatch).
StopIsGraceful == proc # "sendPanic"

\* The group's offset never goes back and what was written stays: across
\* flushes, failed commits, crashes and redeliveries.
CommitMonotone ==
  [][/\ committed' >= committed
     /\ stored \subseteq stored']_vars

\* Every row set that producers send is written in the end, also the last
\* ones, which only the ticker flushes, and also across crashes, unless the
\* process is being stopped, or the message was skipped at a join without a
\* commit or reported lost by its writer.
EventuallyStored ==
  \A t \in Tables, o \in 1..MaxLog :
    (o <= Len(log) /\ t \in Rows(o)) ~> (Accounted(t, o) \/ Stopping)

\* A stop that has begun ends the process: the worker leaves a flush whose
\* database does not answer, and a consumer blocked on a full channel does
\* not keep the process alive.
StopTerminates == Stopping ~> (proc # "up" \/ ~Stopping)

\* The pipeline implements at-least-once delivery (AtLeastOnce): whatever the
\* drains, partial flushes, failed commits and crashes, the tables get nothing
\* but what messages hold, and the group's offset advances, only over rows that
\* were written, skipped by the join, or reported lost by their writer.
Promise == INSTANCE AtLeastOnce
             WITH Alone <- TRUE,
                  written <- stored,
                  excused <- lost \cup {r \in RowSets(1..Len(log)) : r[2] <= reset}

Implements == Promise!Spec

=============================================================================
