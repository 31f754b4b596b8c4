----------------------- MODULE PartitionWorkerProofs -----------------------
(* Theorems about PartitionWorker, for every value of its constants. *)
EXTENDS PartitionWorker, TLAPS

USE KindsAssumption, RouterAssumption, ChanCapAssumption, HoldAssumption,
    FlushAssumption, CommitAssumption, StopAssumption, BoundAssumption

(* Sequences of offsets *)

\* The empty sequence of offsets (a fresh channel, a fresh queue).
LEMMA EmptySeqNat == <<>> \in Seq(Nat) /\ Len(<<>>) = 0
  OBVIOUS

\* Receiving from a channel: its head and what is left.
LEMMA HeadTail ==
  ASSUME NEW s \in Seq(Nat), s # <<>>
  PROVE  /\ Len(s) >= 1
         /\ Head(s) = s[1]
         /\ Head(s) \in Nat
         /\ Tail(s) \in Seq(Nat)
         /\ Len(Tail(s)) = Len(s) - 1
         /\ \A i \in 1..Len(Tail(s)) : Tail(s)[i] = s[i + 1]
  OBVIOUS

\* Sending to a channel, and appending to the queue.
LEMMA AppendNat ==
  ASSUME NEW s \in Seq(Nat), NEW e \in Nat
  PROVE  /\ Append(s, e) \in Seq(Nat)
         /\ Len(Append(s, e)) = Len(s) + 1
         /\ \A i \in 1..Len(s) : Append(s, e)[i] = s[i]
         /\ Append(s, e)[Len(s) + 1] = e
  OBVIOUS

\* Cutting a prefix off the queue (flushIfNeeded).
LEMMA DropNat ==
  ASSUME NEW s \in Seq(Nat), NEW n \in Nat, n <= Len(s)
  PROVE  /\ SubSeq(s, n + 1, Len(s)) \in Seq(Nat)
         /\ Len(SubSeq(s, n + 1, Len(s))) = Len(s) - n
         /\ \A i \in 1..(Len(s) - n) : SubSeq(s, n + 1, Len(s))[i] = s[i + n]
  OBVIOUS
-----------------------------------------------------------------------------
(* The inductive invariant *)

\* How many batches the worker holds at each point of Run, and what
\* drainMessages still finds in the channel.
WorkerShape ==
  /\ worker \in {"none", "select", "exited"} => Len(queue) < MaxBlockHold
  /\ worker = "received" => Len(queue) <= MaxBlockHold
  /\ worker = "drain" => /\ space >= 1
                         /\ Len(queue) + space <= MaxBatchFlush
                         /\ Len(channel) >= space
  /\ worker \in {"flush", "write"} =>
       /\ 1 <= Len(queue)
       /\ Len(queue) <= MaxBlockHold \/ Len(queue) <= MaxBatchFlush

\* No offset is beyond the log, and the worker has received no more than
\* the reader handed out.
Bounds ==
  /\ pos <= Len(log)
  /\ Received >= 0
  /\ reset <= Len(log)
  /\ committed <= Len(log)
  /\ stored \subseteq Tables \X (1..Len(log))
  /\ lost \subseteq Tables \X (1..Len(log))
  /\ todo \subseteq Tables \X (1..Len(log))

\* While a flush writes, its row sets are the outstanding ones and those done.
FlushCovered ==
  worker = "write" =>
    \A i \in 1..FlushCount : \A t \in Rows(queue[i]) :
      <<t, queue[i]>> \in todo \cup stored \cup lost

\* What the worker holds or is yet to receive is beyond the committed
\* offset; a process that has not been assigned the partition holds nothing.
CommitBehind ==
  /\ \A i \in 1..Len(queue) : queue[i] > committed
  /\ \/ committed <= Received
     \/ /\ reader \in {"joining", "exited"}
        /\ pos = 0
        /\ channel = <<>>
        /\ queue = <<>>
  /\ reader = "joining" => channel = <<>> /\ queue = <<>>

IInv ==
  /\ TypeOK
  /\ WorkerShape
  /\ Bounds
  /\ DeliveredInOrder
  /\ NothingForgotten
  /\ FlushCovered
  /\ CommitBehind
  /\ CommittedAccounted

-----------------------------------------------------------------------------
\* handleMessage appends the batch or leaves the queue alone.
LEMMA HandleNat ==
  ASSUME NEW q \in Seq(Nat), NEW o \in Nat
  PROVE  /\ Handle(q, o) \in Seq(Nat)
         /\ \A i \in 1..Len(q) : Handle(q, o)[i] = q[i]
         /\ \/ log[o].batch /\ Len(Handle(q, o)) = Len(q) + 1 /\ Handle(q, o)[Len(q) + 1] = o
            \/ ~log[o].batch /\ Len(Handle(q, o)) = Len(q)
  BY AppendNat DEF Handle

\* The row sets of a set of offsets, one by one.
LEMMA RowSetsMember ==
  ASSUME NEW O, TypeOK, O \subseteq 1..Len(log)
  PROVE  /\ RowSets(O) \subseteq Tables \X O
         /\ \A o \in O : \A t \in Rows(o) : <<t, o>> \in RowSets(O)
<1>1. \A o \in O : Rows(o) \subseteq Tables
  <2>1. \A o \in O : log[o] \in Message
    BY DEF TypeOK
  <2>2. \A m \in Message : m.rows \subseteq Tables
    BY DEF Message
  <2>q. QED
    BY <2>1, <2>2 DEF Rows
<1>2. \A o \in O : {<<t, o>> : t \in Rows(o)} \subseteq Tables \X O
  BY <1>1
<1>q. QED
  BY <1>2 DEF RowSets

\* The offsets of a flush are offsets of the log.
LEMMA FlushedInLog ==
  ASSUME TypeOK, Bounds, DeliveredInOrder
  PROVE  /\ FlushCount \in 0..Len(queue)
         /\ Len(queue) >= 1 => FlushCount >= 1
         /\ ToFlush \subseteq 1..Len(log)
  BY SMTT(30) DEF TypeOK, Bounds, DeliveredInOrder, ToFlush, FlushCount, MinOf, Received, Handed

\* What is left of the queue after a flush.
LEMMA FlushedDropped ==
  ASSUME TypeOK, Bounds, DeliveredInOrder, DropFlushed
  PROVE  /\ queue' \in Seq(Nat)
         /\ Len(queue') = Len(queue) - FlushCount
         /\ \A i \in 1..Len(queue') : queue'[i] = queue[i + FlushCount]
<1>1. queue \in Seq(Nat) /\ FlushCount \in Nat /\ FlushCount <= Len(queue)
  BY FlushedInLog DEF TypeOK
<1>q. QED
  BY <1>1, DropNat DEF DropFlushed

\* Every step keeps the types.
LEMMA TypeStep == TypeOK /\ WorkerShape /\ Bounds /\ DeliveredInOrder /\ [Next]_vars => TypeOK'
<1> SUFFICES ASSUME TypeOK, WorkerShape, Bounds, DeliveredInOrder, [Next]_vars PROVE TypeOK'
  OBVIOUS
<1> USE DEF TypeOK, broker, database, process, consumer, chanVars, workVars, stopVars
<1>1. CASE Produce
  BY <1>1 DEF Produce, Message
<1>2. CASE Assign
  BY <1>2 DEF Assign, NoOffset, StartOffset
<1>3. CASE PollLoop
  BY <1>3 DEF PollLoop
<1>4. CASE ReaderExit
  BY <1>4 DEF ReaderExit
<1>5. CASE ReadMessage
  BY <1>5 DEF ReadMessage
<1>6. CASE ReadError
  BY <1>6 DEF ReadError
<1>7. CASE Dispatch
  BY <1>7 DEF Dispatch
<1>8. CASE SendToWorker
  BY <1>8, AppendNat DEF SendToWorker
<1>9. CASE SendOnClosed
  BY <1>9 DEF SendOnClosed
<1>10. CASE WorkerExit
  BY <1>10 DEF WorkerExit, Leave
<1>11. CASE Receive
  <2>1. queue' \in Seq(Nat) /\ channel' \in Seq(Nat)
    BY <1>11, HeadTail, HandleNat DEF Receive
  <2>q. QED
    BY <1>11, <2>1 DEF Receive
<1>12. CASE CheckSpace
  BY <1>12 DEF CheckSpace, AfterReceive, DrainWorthwhile
<1>13. CASE DrainMessages
  <2>1. queue' \in Seq(Nat) /\ channel' \in Seq(Nat)
    <3>1. CASE channel = <<>>
      BY <1>13, <3>1 DEF DrainMessages, LastTurn
    <3>2. CASE channel # <<>>
      <4>1. Head(channel) \in Nat /\ Tail(channel) \in Seq(Nat)
        BY <3>2, HeadTail
      <4>2. Handle(queue, Head(channel)) \in Seq(Nat)
        BY <4>1, HandleNat
      <4>q. QED
        BY <1>13, <3>2, <4>1, <4>2 DEF DrainMessages, LastTurn
    <3>q. QED
      BY <3>1, <3>2
  <2>2. space' \in Nat
    BY <1>13 DEF DrainMessages, WorkerShape, LastTurn
  <2>3. worker' \in {"drain", "flush", "select"}
    BY <1>13 DEF DrainMessages, AfterReceive, LastTurn
  <2>4. proc' \in {"up", "nilPanic"}
    BY <1>13 DEF DrainMessages, LastTurn
  <2>q. QED
    BY <1>13, <2>1, <2>2, <2>3, <2>4 DEF DrainMessages, LastTurn
<1>14. CASE Tick
  BY <1>14 DEF Tick, TickDue
<1>15. CASE StartFlush
  <2>1. queue' \in Seq(Nat)
    BY <1>15, FlushedDropped DEF StartFlush
  <2>2. RowSets(ToFlush) \subseteq Tables \X Nat
    <3>1. ToFlush \subseteq 1..Len(log)
      BY FlushedInLog
    <3>2. RowSets(ToFlush) \subseteq Tables \X ToFlush
      BY <3>1, RowSetsMember
    <3>3. ToFlush \subseteq Nat
      BY <3>1
    <3>q. QED
      BY <3>2, <3>3
  <2>q. QED
    BY <1>15, <2>1, <2>2 DEF StartFlush, DropFlushed
<1>16. CASE WriteRows
  BY <1>16 DEF WriteRows
<1>17. CASE GiveUpRows
  BY <1>17 DEF GiveUpRows
<1>18. CASE CommitLastMessage
  <2>1. queue' \in Seq(Nat) /\ worker' = "select"
    BY <1>18, FlushedDropped DEF CommitLastMessage, DropFlushed, WritersDone, LastMessage
  <2>2. queue[FlushCount] \in Nat
    BY <1>18, FlushedInLog DEF CommitLastMessage, WorkerShape, WritersDone, LastMessage
  <2>q. QED
    BY <1>18, <2>1, <2>2 DEF CommitLastMessage, WritersDone, LastMessage
<1>19. CASE RouterCancel
  BY <1>19 DEF RouterCancel
<1>20. CASE RouterClose
  BY <1>20 DEF RouterClose
<1>21. CASE RouterWait
  BY <1>21 DEF RouterWait
<1>22. CASE ConsumerCancel
  BY <1>22 DEF ConsumerCancel
<1>23. CASE ConsumerClose
  BY <1>23 DEF ConsumerClose
<1>24. CASE ProcessExit
  BY <1>24 DEF ProcessExit
<1>25. CASE Boot
  <2>1. channel' \in Seq(Nat) /\ queue' \in Seq(Nat)
    BY <1>25, EmptySeqNat DEF Boot
  <2>q. QED
    <3>1. log' \in Seq(Message) /\ committed' \in Nat \cup {NoOffset} /\ reset' \in Nat
          /\ stored' \subseteq Tables \X Nat /\ lost' \subseteq Tables \X Nat
      BY <1>25 DEF Boot
    <3>2. lives' \in Nat /\ pos' \in Nat /\ space' \in Nat /\ todo' \subseteq Tables \X Nat
      BY <1>25 DEF Boot
    <3>q. QED
      BY <1>25, <2>1, <3>1, <3>2 DEF Boot
<1>26. CASE UNCHANGED vars
  BY <1>26 DEF vars
<1>q. QED
  BY <1>1, <1>2, <1>3, <1>4, <1>5, <1>6, <1>7, <1>8, <1>9, <1>10, <1>11, <1>12, <1>13, <1>14,
       <1>15, <1>16, <1>17, <1>18, <1>19, <1>20, <1>21, <1>22, <1>23, <1>24, <1>25, <1>26
            DEF Next, ReaderStep, WorkerStep, StopStep, Crash, Restart

\* What a receive does: Run and drainMessages take the head of the channel.
LEMMA Take ==
  ASSUME TypeOK, Bounds, DeliveredInOrder, channel # <<>>, channel' = Tail(channel),
         queue' = Handle(queue, Head(channel)), UNCHANGED <<log, reader, pos>>
  PROVE  /\ Len(channel') = Len(channel) - 1
         /\ Received' = Received + 1
         /\ Received + 1 \in 1..Len(log)
         /\ \A i \in 1..Len(channel') : channel'[i] = Received' + i
         /\ \A i \in 1..Len(queue) : queue'[i] = queue[i]
         /\ \/ log[Received + 1].batch /\ Len(queue') = Len(queue) + 1
              /\ queue'[Len(queue) + 1] = Received + 1
            \/ ~log[Received + 1].batch /\ Len(queue') = Len(queue)
<1> USE DEF TypeOK
<1>1. /\ Len(channel) >= 1 /\ Len(channel') = Len(channel) - 1
      /\ Head(channel) = channel[1] /\ channel[1] \in Nat
      /\ \A i \in 1..Len(channel') : channel'[i] = channel[i + 1]
  BY HeadTail
<1>2. Head(channel) = Received + 1
  BY <1>1 DEF DeliveredInOrder
<1>3. Handed \in Int /\ Handed <= Len(log) /\ Received \in Int
  BY DEF Bounds, Handed, Received
<1>4. Received' = Received + 1
  BY <1>1, <1>3 DEF Received, Handed
<1>5. Received + 1 \in 1..Len(log)
  BY <1>1, <1>3 DEF Received, Bounds
<1>6. \A i \in 1..Len(channel') : channel'[i] = Received' + i
  BY <1>1, <1>3, <1>4 DEF DeliveredInOrder
<1>7. /\ \A i \in 1..Len(queue) : queue'[i] = queue[i]
      /\ \/ log[Received + 1].batch /\ Len(queue') = Len(queue) + 1
           /\ queue'[Len(queue) + 1] = Received + 1
         \/ ~log[Received + 1].batch /\ Len(queue') = Len(queue)
  <2>1. queue \in Seq(Nat) /\ Head(channel) \in Nat
    BY <1>1
  <2>2. /\ \A i \in 1..Len(queue) : Handle(queue, Head(channel))[i] = queue[i]
        /\ \/ log[Head(channel)].batch /\ Len(Handle(queue, Head(channel))) = Len(queue) + 1
              /\ Handle(queue, Head(channel))[Len(queue) + 1] = Head(channel)
           \/ ~log[Head(channel)].batch /\ Len(Handle(queue, Head(channel))) = Len(queue)
    BY <2>1, HandleNat
  <2>q. QED
    BY <2>2, <1>2
<1>q. QED
  BY <1>1, <1>4, <1>5, <1>6, <1>7


\* After a flush the queue is shorter than MaxBlockHold again.
LEMMA FlushedShort ==
  ASSUME TypeOK, WorkerShape, Bounds, DeliveredInOrder, DropFlushed, worker \in {"flush",
       "write"}
  PROVE  Len(queue') < MaxBlockHold
<1>1. Len(queue') = Len(queue) - FlushCount
  BY FlushedDropped
<1>2. Len(queue) \in Nat /\ 1 <= Len(queue) /\ (Len(queue) <= MaxBlockHold \/ Len(queue) <= MaxBatchFlush)
  BY DEF TypeOK, WorkerShape
<1>q. QED
  BY <1>1, <1>2 DEF FlushCount, MinOf

\* Every step keeps the bounds on the batches held at each point of Run.
LEMMA ShapeStep == TypeOK /\ WorkerShape /\ Bounds /\ DeliveredInOrder /\ [Next]_vars => WorkerShape'
<1> SUFFICES ASSUME TypeOK, WorkerShape, Bounds, DeliveredInOrder,
     [Next]_vars PROVE WorkerShape'
  OBVIOUS
<1> USE DEF TypeOK, WorkerShape, broker, database, process, consumer, chanVars, workVars, stopVars
<1>1. CASE Produce
  BY <1>1 DEF Produce
<1>2. CASE Assign
  BY <1>2 DEF Assign, StartOffset
<1>3. CASE PollLoop
  BY <1>3 DEF PollLoop
<1>4. CASE ReaderExit
  BY <1>4 DEF ReaderExit
<1>5. CASE ReadMessage
  BY <1>5 DEF ReadMessage
<1>6. CASE ReadError
  BY <1>6 DEF ReadError
<1>7. CASE Dispatch
  BY <1>7 DEF Dispatch
<1>8. CASE SendToWorker
  BY <1>8, AppendNat DEF SendToWorker
<1>9. CASE SendOnClosed
  BY <1>9 DEF SendOnClosed
<1>10. CASE WorkerExit
  BY <1>10 DEF WorkerExit, Leave
<1>11. CASE Receive
  <2>1. Len(queue') <= Len(queue) + 1
    BY <1>11, Take DEF Receive
  <2>2. Len(queue') \in Nat
    BY <1>11, HeadTail, HandleNat DEF Receive
  <2>q. QED
    BY <1>11, <2>1, <2>2 DEF Receive
<1>12. CASE CheckSpace
  BY <1>12 DEF CheckSpace, AfterReceive, DrainWorthwhile
<1>13. CASE DrainMessages
  <2>1. channel # <<>>
    BY <1>13 DEF DrainMessages, LastTurn
  <2>0. channel' = Tail(channel) /\ queue' = Handle(queue, Head(channel)) /\ UNCHANGED <<log,
       reader, pos>>
    BY <1>13, <2>1 DEF DrainMessages, LastTurn
  <2>2. Len(queue') <= Len(queue) + 1 /\ Len(channel') = Len(channel) - 1
    BY <2>0, <2>1, Take
  <2>3. Len(queue') \in Nat
    BY <1>13, <2>1, HeadTail, HandleNat DEF DrainMessages, LastTurn
  <2>q. QED
    <3>1. CASE space = 1
      BY <1>13, <2>1, <2>2, <2>3, <3>1, SMTT(30) DEF DrainMessages, AfterReceive, LastTurn
    <3>2. CASE space # 1
      BY <1>13, <2>1, <2>2, <2>3, <3>2 DEF DrainMessages, LastTurn
    <3>q. QED
      BY <3>1, <3>2
<1>14. CASE Tick
  BY <1>14 DEF Tick, TickDue
<1>15. CASE StartFlush
  <2>1. CASE worker' = "write"
    BY <1>15, <2>1 DEF StartFlush, DropFlushed
  <2>2. CASE worker' # "write"
    <3>1. DropFlushed
      BY <1>15, <2>2 DEF StartFlush
    <3>2. Len(queue') < MaxBlockHold
      BY <1>15, <3>1, FlushedShort DEF StartFlush
    <3>q. QED
      BY <3>1, <3>2 DEF DropFlushed
  <2>q. QED
    BY <2>1, <2>2
<1>16. CASE WriteRows
  BY <1>16 DEF WriteRows
<1>17. CASE GiveUpRows
  BY <1>17 DEF GiveUpRows
<1>18. CASE CommitLastMessage
  <2>1. DropFlushed
    BY <1>18 DEF CommitLastMessage, WritersDone, LastMessage
  <2>2. Len(queue') < MaxBlockHold
    BY <1>18, <2>1, FlushedShort DEF CommitLastMessage, WritersDone, LastMessage
  <2>q. QED
    BY <2>1, <2>2 DEF DropFlushed
<1>19. CASE RouterCancel
  BY <1>19 DEF RouterCancel
<1>20. CASE RouterClose
  BY <1>20 DEF RouterClose
<1>21. CASE RouterWait
  BY <1>21 DEF RouterWait
<1>22. CASE ConsumerCancel
  BY <1>22 DEF ConsumerCancel
<1>23. CASE ConsumerClose
  BY <1>23 DEF ConsumerClose
<1>24. CASE ProcessExit
  BY <1>24 DEF ProcessExit
<1>25. CASE Boot
  BY <1>25, EmptySeqNat DEF Boot
<1>26. CASE UNCHANGED vars
  BY <1>26 DEF vars, Received, Handed
<1>q. QED
  BY <1>1, <1>2, <1>3, <1>4, <1>5, <1>6, <1>7, <1>8, <1>9, <1>10, <1>11, <1>12, <1>13, <1>14,
       <1>15, <1>16, <1>17, <1>18, <1>19, <1>20, <1>21, <1>22, <1>23, <1>24, <1>25, <1>26
            DEF Next, ReaderStep, WorkerStep, StopStep, Crash, Restart

\* Producing leaves the messages of the log, and the offsets received, alone.
LEMMA LogGrows ==
  ASSUME TypeOK, Bounds, Produce
  PROVE  /\ Len(log') = Len(log) + 1
         /\ \A o \in 1..Len(log) : log'[o] = log[o]
         /\ \A o \in 1..Len(log) : Rows(o)' = Rows(o)
         /\ Received' = Received
<1>1. PICK k \in Kinds : log' = Append(log, k)
  BY DEF Produce
<1>2. log \in Seq(Message) /\ k \in Message
  BY <1>1 DEF TypeOK
<1>3. /\ Len(log') = Len(log) + 1
      /\ \A o \in 1..Len(log) : log'[o] = log[o]
  BY <1>1, <1>2
<1>4. Received' = Received
  BY DEF Produce, consumer, chanVars, Received, Handed
<1>q. QED
  BY <1>3, <1>4 DEF Rows

\* Every step keeps offsets within the log.
LEMMA BoundsStep == TypeOK /\ WorkerShape /\ Bounds /\ DeliveredInOrder /\ CommitBehind /\ [Next]_vars => Bounds'
<1> SUFFICES ASSUME TypeOK, WorkerShape, Bounds, DeliveredInOrder, CommitBehind,
     [Next]_vars PROVE Bounds'
  OBVIOUS
<1> USE DEF TypeOK, Bounds, broker, database, process, consumer, chanVars, workVars, stopVars
<1>1. CASE Produce
  <2>1. Len(log') = Len(log) + 1
    BY <1>1 DEF Produce, Message
  <2>q. QED
    BY <1>1, <2>1 DEF Produce, Received, Handed
<1>2. CASE Assign
  BY <1>2, EmptySeqNat DEF Assign, Received, Handed, CommitBehind, StartOffset
<1>3. CASE PollLoop
  BY <1>3 DEF PollLoop, Received, Handed
<1>4. CASE ReaderExit
  BY <1>4 DEF ReaderExit, Received, Handed
<1>5. CASE ReadMessage
  BY <1>5 DEF ReadMessage, Received, Handed
<1>6. CASE ReadError
  BY <1>6 DEF ReadError, Received, Handed
<1>7. CASE Dispatch
  BY <1>7 DEF Dispatch, Received, Handed
<1>8. CASE SendToWorker
  BY <1>8, AppendNat DEF SendToWorker, Received, Handed
<1>9. CASE SendOnClosed
  BY <1>9 DEF SendOnClosed, Received, Handed
<1>10. CASE WorkerExit
  BY <1>10 DEF WorkerExit, Received, Handed, Leave
<1>11. CASE Receive
  <2>1. Received' = Received + 1
    BY <1>11, Take DEF Receive
  <2>q. QED
    BY <1>11, <2>1 DEF Receive, Received, Handed
<1>12. CASE CheckSpace
  BY <1>12 DEF CheckSpace, AfterReceive, Received, Handed, DrainWorthwhile
<1>13. CASE DrainMessages
  <2>1. channel # <<>>
    BY <1>13 DEF DrainMessages, WorkerShape, LastTurn
  <2>2. channel' = Tail(channel) /\ queue' = Handle(queue, Head(channel)) /\ UNCHANGED <<log,
       reader, pos>>
    BY <1>13, <2>1 DEF DrainMessages, LastTurn
  <2>3. Received' = Received + 1
    BY <2>1, <2>2, Take
  <2>q. QED
    BY <1>13, <2>3, SMTT(30) DEF DrainMessages, Received, Handed, LastTurn
<1>14. CASE Tick
  BY <1>14 DEF Tick, Received, Handed, TickDue
<1>15. CASE StartFlush
  <2>1. RowSets(ToFlush) \subseteq Tables \X (1..Len(log))
    <3>1. ToFlush \subseteq 1..Len(log)
      BY FlushedInLog
    <3>2. RowSets(ToFlush) \subseteq Tables \X ToFlush
      BY <3>1, RowSetsMember
    <3>q. QED
      BY <3>1, <3>2
  <2>q. QED
    BY <1>15, <2>1 DEF StartFlush, DropFlushed, Received, Handed
<1>16. CASE WriteRows
  BY <1>16 DEF WriteRows, Received, Handed
<1>17. CASE GiveUpRows
  BY <1>17 DEF GiveUpRows, Received, Handed
<1>18. CASE CommitLastMessage
  <2>1. queue[FlushCount] \in 1..Len(log)
    BY <1>18, FlushedInLog DEF CommitLastMessage, WorkerShape, ToFlush, WritersDone, LastMessage
  <2>q. QED
    BY <1>18, <2>1, SMTT(30) DEF CommitLastMessage, DropFlushed, Received, Handed, WritersDone, LastMessage
<1>19. CASE RouterCancel
  BY <1>19 DEF RouterCancel, Received, Handed
<1>20. CASE RouterClose
  BY <1>20 DEF RouterClose, Received, Handed
<1>21. CASE RouterWait
  BY <1>21 DEF RouterWait, Received, Handed
<1>22. CASE ConsumerCancel
  BY <1>22 DEF ConsumerCancel, Received, Handed
<1>23. CASE ConsumerClose
  BY <1>23 DEF ConsumerClose, Received, Handed
<1>24. CASE ProcessExit
  BY <1>24 DEF ProcessExit, Received, Handed
<1>25. CASE Boot
  BY <1>25, EmptySeqNat DEF Boot, Received, Handed
<1>26. CASE UNCHANGED vars
  BY <1>26 DEF vars, Received, Handed
<1>q. QED
  BY <1>1, <1>2, <1>3, <1>4, <1>5, <1>6, <1>7, <1>8, <1>9, <1>10, <1>11, <1>12, <1>13, <1>14,
       <1>15, <1>16, <1>17, <1>18, <1>19, <1>20, <1>21, <1>22, <1>23, <1>24, <1>25, <1>26
            DEF Next, ReaderStep, WorkerStep, StopStep, Crash, Restart

\* The order of the messages after a receive.
LEMMA TakeInOrder ==
  ASSUME TypeOK, Bounds, DeliveredInOrder, channel # <<>>, channel' = Tail(channel),
         queue' = Handle(queue, Head(channel)), UNCHANGED <<log, reader, pos>>
  PROVE  DeliveredInOrder'
<1>1. queue \in Seq(Nat) /\ Received \in Nat
  BY DEF TypeOK, Bounds, Received, Handed
<1>2. /\ Received' = Received + 1
      /\ \A i \in 1..Len(channel') : channel'[i] = Received' + i
      /\ \A i \in 1..Len(queue) : queue'[i] = queue[i]
      /\ \/ Len(queue') = Len(queue) + 1 /\ queue'[Len(queue) + 1] = Received + 1
         \/ Len(queue') = Len(queue)
  BY Take
<1>3. \A i \in 1..Len(queue) : queue[i] \in 1..Received
  BY DEF DeliveredInOrder
<1>4. \A i \in 1..Len(queue') : queue'[i] \in 1..Received'
  BY <1>1, <1>2, <1>3, SMTT(30)
<1>5. \A i, j \in 1..Len(queue') : i < j => queue'[i] < queue'[j]
  <2> SUFFICES ASSUME NEW i \in 1..Len(queue'), NEW j \in 1..Len(queue'), i < j
               PROVE  queue'[i] < queue'[j]
    OBVIOUS
  <2>1. CASE j \in 1..Len(queue)
    BY <1>1, <1>2, <2>1 DEF DeliveredInOrder
  <2>2. CASE j \notin 1..Len(queue)
    <3>1. j = Len(queue) + 1 /\ i \in 1..Len(queue)
      BY <1>1, <1>2, <2>2
    <3>q. QED
      BY <1>1, <1>2, <1>3, <3>1
  <2>q. QED
    BY <2>1, <2>2
<1>q. QED
  BY <1>2, <1>4, <1>5 DEF DeliveredInOrder


\* The order of the messages after a flush.
LEMMA DropInOrder ==
  ASSUME TypeOK, Bounds, DeliveredInOrder, DropFlushed, UNCHANGED <<log, reader, pos, channel>>
  PROVE  DeliveredInOrder'
<1>1. /\ queue \in Seq(Nat) /\ FlushCount \in Nat
      /\ Len(queue') = Len(queue) - FlushCount
      /\ \A i \in 1..Len(queue') : queue'[i] = queue[i + FlushCount]
  BY FlushedDropped, FlushedInLog DEF TypeOK
<1>2. Received' = Received
  BY DEF Received, Handed
<1>3. \A i \in 1..Len(queue') : i + FlushCount \in 1..Len(queue)
  BY <1>1
<1>4. \A i \in 1..Len(queue') : queue'[i] \in 1..Received'
  BY <1>1, <1>2, <1>3 DEF DeliveredInOrder
<1>5. \A i, j \in 1..Len(queue') : i < j => queue'[i] < queue'[j]
  <2> SUFFICES ASSUME NEW i \in 1..Len(queue'), NEW j \in 1..Len(queue'), i < j
               PROVE  queue'[i] < queue'[j]
    OBVIOUS
  <2>1. i + FlushCount < j + FlushCount
    BY <1>1
  <2>2. queue[i + FlushCount] < queue[j + FlushCount]
    BY <1>3, <2>1 DEF DeliveredInOrder
  <2>q. QED
    BY <1>1, <2>2
<1>6. \A i \in 1..Len(channel') : channel'[i] = Received' + i
  BY <1>2 DEF DeliveredInOrder
<1>q. QED
  BY <1>4, <1>5, <1>6 DEF DeliveredInOrder

\* Every step keeps the messages in order.
LEMMA OrderStep == TypeOK /\ WorkerShape /\ Bounds /\ DeliveredInOrder /\ CommitBehind /\ [Next]_vars => DeliveredInOrder'
<1> SUFFICES ASSUME TypeOK, WorkerShape, Bounds, DeliveredInOrder, CommitBehind,
     [Next]_vars PROVE DeliveredInOrder'
  OBVIOUS
<1> USE DEF TypeOK, DeliveredInOrder, broker, database, process, consumer, chanVars, workVars, stopVars
<1>1. CASE Produce
  BY <1>1, LogGrows DEF Produce
<1>2. CASE Assign
  BY <1>2, EmptySeqNat DEF Assign, Received, Handed, CommitBehind, StartOffset
<1>3. CASE PollLoop
  BY <1>3 DEF PollLoop, Received, Handed
<1>4. CASE ReaderExit
  BY <1>4 DEF ReaderExit, Received, Handed
<1>5. CASE ReadMessage
  BY <1>5 DEF ReadMessage, Received, Handed
<1>6. CASE ReadError
  BY <1>6 DEF ReadError, Received, Handed
<1>7. CASE Dispatch
  BY <1>7 DEF Dispatch, Received, Handed
<1>8. CASE SendToWorker
  <2>1. /\ Len(channel') = Len(channel) + 1
        /\ \A i \in 1..Len(channel) : channel'[i] = channel[i]
        /\ channel'[Len(channel) + 1] = pos
    BY <1>8, AppendNat DEF SendToWorker
  <2>2. Received' = Received /\ pos = Received + Len(channel) + 1
    BY <1>8, <2>1 DEF SendToWorker, Received, Handed
  <2>3. \A i \in 1..Len(channel') : channel'[i] = Received' + i
    <3>1. Len(channel) \in Nat /\ Received \in Int
      BY DEF Received, Handed
    <3>2. \A i \in 1..Len(channel') : i \in 1..Len(channel) \/ i = Len(channel) + 1
      BY <2>1, <3>1
    <3>3. \A i \in 1..Len(channel) : channel'[i] = Received' + i
      BY <2>1, <2>2
    <3>4. channel'[Len(channel) + 1] = Received' + Len(channel) + 1
      BY <2>1, <2>2
    <3> SUFFICES ASSUME NEW i \in 1..Len(channel') PROVE channel'[i] = Received' + i
      OBVIOUS
    <3>5. CASE i \in 1..Len(channel)
      BY <3>3, <3>5
    <3>6. CASE i = Len(channel) + 1
      BY <2>2, <3>1, <3>4, <3>6
    <3>q. QED
      BY <3>2, <3>5, <3>6
  <2>4. UNCHANGED queue
    BY <1>8 DEF SendToWorker
  <2>q. QED
    BY <2>2, <2>3, <2>4
<1>9. CASE SendOnClosed
  BY <1>9 DEF SendOnClosed, Received, Handed
<1>10. CASE WorkerExit
  BY <1>10 DEF WorkerExit, Received, Handed, Leave
<1>11. CASE Receive
  <2>1. channel # <<>>
    BY <1>11 DEF Receive
  <2>2. channel' = Tail(channel) /\ queue' = Handle(queue, Head(channel)) /\ UNCHANGED <<log,
       reader, pos>>
    BY <1>11 DEF Receive
  <2>q. QED
    BY <2>1, <2>2, TakeInOrder
<1>12. CASE CheckSpace
  BY <1>12 DEF CheckSpace, AfterReceive, Received, Handed, DrainWorthwhile
<1>13. CASE DrainMessages
  <2>1. channel # <<>>
    BY <1>13 DEF DrainMessages, WorkerShape, LastTurn
  <2>2. channel' = Tail(channel) /\ queue' = Handle(queue, Head(channel)) /\ UNCHANGED <<log,
       reader, pos>>
    BY <1>13, <2>1 DEF DrainMessages, LastTurn
  <2>q. QED
    BY <2>1, <2>2, TakeInOrder
<1>14. CASE Tick
  BY <1>14 DEF Tick, Received, Handed, TickDue
<1>15. CASE StartFlush
  <2>1. CASE DropFlushed
    BY <1>15, <2>1, DropInOrder DEF StartFlush
  <2>2. CASE UNCHANGED queue
    BY <1>15, <2>2 DEF StartFlush, Received, Handed
  <2>q. QED
    BY <1>15, <2>1, <2>2 DEF StartFlush
<1>16. CASE WriteRows
  BY <1>16 DEF WriteRows, Received, Handed
<1>17. CASE GiveUpRows
  BY <1>17 DEF GiveUpRows, Received, Handed
<1>18. CASE CommitLastMessage
  BY <1>18, DropInOrder DEF CommitLastMessage, WritersDone, LastMessage
<1>19. CASE RouterCancel
  BY <1>19 DEF RouterCancel, Received, Handed
<1>20. CASE RouterClose
  BY <1>20 DEF RouterClose, Received, Handed
<1>21. CASE RouterWait
  BY <1>21 DEF RouterWait, Received, Handed
<1>22. CASE ConsumerCancel
  BY <1>22 DEF ConsumerCancel, Received, Handed
<1>23. CASE ConsumerClose
  BY <1>23 DEF ConsumerClose, Received, Handed
<1>24. CASE ProcessExit
  BY <1>24 DEF ProcessExit, Received, Handed
<1>25. CASE Boot
  BY <1>25, EmptySeqNat DEF Boot, Received, Handed
<1>26. CASE UNCHANGED vars
  BY <1>26 DEF vars, Received, Handed
<1>q. QED
  BY <1>1, <1>2, <1>3, <1>4, <1>5, <1>6, <1>7, <1>8, <1>9, <1>10, <1>11, <1>12, <1>13, <1>14,
       <1>15, <1>16, <1>17, <1>18, <1>19, <1>20, <1>21, <1>22, <1>23, <1>24, <1>25, <1>26
            DEF Next, ReaderStep, WorkerStep, StopStep, Crash, Restart

\* What is received is beyond the committed offset.
LEMMA TakeBehind ==
  ASSUME TypeOK, Bounds, DeliveredInOrder, CommitBehind, channel # <<>>,
         channel' = Tail(channel), queue' = Handle(queue, Head(channel)),
         UNCHANGED <<log, reader, pos, committed>>
  PROVE  CommitBehind'
<1>1. reader # "joining" /\ committed <= Received
  BY DEF CommitBehind
<1>2. Received' = Received + 1
  BY Take
<1>3. Received \in Int /\ committed \in Int /\ queue \in Seq(Nat)
  BY DEF TypeOK, Received, Handed, NoOffset
<1>4. \A i \in 1..Len(queue') : queue'[i] > committed
  <2>1. CASE log[Received + 1].batch
    <3>1. Len(queue') = Len(queue) + 1 /\ queue'[Len(queue) + 1] = Received + 1
      BY <2>1, Take
    <3>q. QED
      BY <1>1, <1>3, <3>1, Take, SMTT(30) DEF CommitBehind
  <2>2. CASE ~log[Received + 1].batch
    <3>1. Len(queue') = Len(queue)
      BY <2>2, Take
    <3>q. QED
      BY <1>1, <1>3, <3>1, Take DEF CommitBehind
  <2>q. QED
    BY <2>1, <2>2
<1>q. QED
  BY <1>1, <1>2, <1>3, <1>4 DEF CommitBehind

\* Every step keeps the committed offset behind what the worker holds.
LEMMA BehindStep == TypeOK /\ WorkerShape /\ Bounds /\ DeliveredInOrder /\ CommitBehind /\ [Next]_vars => CommitBehind'
<1> SUFFICES ASSUME TypeOK, WorkerShape, Bounds, DeliveredInOrder, CommitBehind,
     [Next]_vars PROVE CommitBehind'
  OBVIOUS
<1> USE DEF TypeOK, CommitBehind, broker, database, process, consumer, chanVars, workVars, stopVars
<1>1. CASE Produce
  BY <1>1, LogGrows DEF Produce
<1>2. CASE Assign
  BY <1>2, EmptySeqNat DEF Assign, Received, Handed, NoOffset, StartOffset
<1>3. CASE PollLoop
  BY <1>3 DEF PollLoop, Received, Handed
<1>4. CASE ReaderExit
  BY <1>4 DEF ReaderExit, Received, Handed
<1>5. CASE ReadMessage
  BY <1>5 DEF ReadMessage, Received, Handed
<1>6. CASE ReadError
  BY <1>6 DEF ReadError, Received, Handed
<1>7. CASE Dispatch
  BY <1>7 DEF Dispatch, Received, Handed
<1>8. CASE SendToWorker
  <2>1. Received' = Received
    BY <1>8, AppendNat DEF SendToWorker, Received, Handed
  <2>q. QED
    BY <1>8, <2>1 DEF SendToWorker
<1>9. CASE SendOnClosed
  BY <1>9 DEF SendOnClosed, Received, Handed
<1>10. CASE WorkerExit
  BY <1>10 DEF WorkerExit, Received, Handed, Leave
<1>11. CASE Receive
  <2>1. channel # <<>>
    BY <1>11 DEF Receive
  <2>2. channel' = Tail(channel) /\ queue' = Handle(queue, Head(channel)) /\ UNCHANGED <<log,
       reader, pos>>
    BY <1>11 DEF Receive
  <2>q. QED
    BY <1>11, <2>1, <2>2, TakeBehind DEF Receive
<1>12. CASE CheckSpace
  BY <1>12 DEF CheckSpace, AfterReceive, Received, Handed, DrainWorthwhile
<1>13. CASE DrainMessages
  <2>1. channel # <<>>
    BY <1>13 DEF DrainMessages, WorkerShape, LastTurn
  <2>2. channel' = Tail(channel) /\ queue' = Handle(queue, Head(channel)) /\ UNCHANGED <<log,
       reader, pos>>
    BY <1>13, <2>1 DEF DrainMessages, LastTurn
  <2>q. QED
    BY <1>13, <2>1, <2>2, TakeBehind DEF DrainMessages, LastTurn
<1>14. CASE Tick
  BY <1>14 DEF Tick, Received, Handed, TickDue
<1>15. CASE StartFlush
  <2>1. CASE DropFlushed
    <3>1. \A i \in 1..Len(queue') : queue'[i] > committed
      <4>1. /\ Len(queue') = Len(queue) - FlushCount /\ FlushCount \in Nat
            /\ \A i \in 1..Len(queue') : queue'[i] = queue[i + FlushCount]
        BY <2>1, FlushedDropped, FlushedInLog
      <4>2. \A i \in 1..Len(queue') : i + FlushCount \in 1..Len(queue)
        BY <4>1
      <4>q. QED
        BY <1>15, <4>1, <4>2 DEF StartFlush
    <3>2. Received' = Received /\ committed' = committed /\ (queue = <<>> => queue' = <<>>)
      BY <1>15, <2>1 DEF StartFlush, WorkerShape, Received, Handed
    <3>q. QED
      BY <1>15, <3>1, <3>2 DEF StartFlush, WorkerShape
  <2>2. CASE UNCHANGED queue
    BY <1>15, <2>2 DEF StartFlush, Received, Handed
  <2>q. QED
    BY <1>15, <2>1, <2>2 DEF StartFlush
<1>16. CASE WriteRows
  BY <1>16 DEF WriteRows, Received, Handed
<1>17. CASE GiveUpRows
  BY <1>17 DEF GiveUpRows, Received, Handed
<1>18. CASE CommitLastMessage
  <2>1. /\ FlushCount \in 1..Len(queue)
        /\ Len(queue') = Len(queue) - FlushCount
        /\ \A i \in 1..Len(queue') : queue'[i] = queue[i + FlushCount]
    BY <1>18, FlushedDropped, FlushedInLog DEF CommitLastMessage, WorkerShape, WritersDone, LastMessage
  <2>2. \A i \in 1..Len(queue') : queue'[i] > queue[FlushCount] /\ queue'[i] > committed
    <3>1. \A i \in 1..Len(queue') : i + FlushCount \in 1..Len(queue)
         /\ FlushCount < i + FlushCount
      BY <2>1
    <3>2. \A i \in 1..Len(queue') : queue[i + FlushCount] > queue[FlushCount]
      BY <2>1, <3>1 DEF DeliveredInOrder
    <3>q. QED
      BY <2>1, <3>1, <3>2
  <2>3. queue[FlushCount] <= Received /\ queue[FlushCount] > committed
    BY <2>1 DEF DeliveredInOrder
  <2>4. Received' = Received /\ reader # "joining"
    BY <1>18, EmptySeqNat DEF CommitLastMessage, DropFlushed, WorkerShape, Received, Handed, WritersDone, LastMessage
  <2>5. committed' \in {committed, queue[FlushCount]}
    BY <1>18 DEF CommitLastMessage, WritersDone, LastMessage
  <2>6. committed <= Received
    BY <2>3, <2>1 DEF Bounds, Received, Handed
  <2>7. reader' # "joining"
    BY <1>18, <2>4 DEF CommitLastMessage, WritersDone, LastMessage
  <2>q. QED
    BY <2>2, <2>3, <2>4, <2>5, <2>6, <2>7
<1>19. CASE RouterCancel
  BY <1>19 DEF RouterCancel, Received, Handed
<1>20. CASE RouterClose
  BY <1>20 DEF RouterClose, Received, Handed
<1>21. CASE RouterWait
  BY <1>21 DEF RouterWait, Received, Handed
<1>22. CASE ConsumerCancel
  BY <1>22 DEF ConsumerCancel, Received, Handed
<1>23. CASE ConsumerClose
  BY <1>23 DEF ConsumerClose, Received, Handed
<1>24. CASE ProcessExit
  BY <1>24 DEF ProcessExit, Received, Handed
<1>25. CASE Boot
  BY <1>25, EmptySeqNat DEF Boot, Received, Handed
<1>26. CASE UNCHANGED vars
  BY <1>26 DEF vars, Received, Handed
<1>q. QED
  BY <1>1, <1>2, <1>3, <1>4, <1>5, <1>6, <1>7, <1>8, <1>9, <1>10, <1>11, <1>12, <1>13, <1>14,
       <1>15, <1>16, <1>17, <1>18, <1>19, <1>20, <1>21, <1>22, <1>23, <1>24, <1>25, <1>26
            DEF Next, ReaderStep, WorkerStep, StopStep, Crash, Restart

\* What is accounted for stays accounted for.
LEMMA AccountedGrows == TypeOK /\ Bounds /\ [Next]_vars => (\A o \in Nat : \A t \in Tables : Accounted(t, o) => Accounted(t, o)')
<1> SUFFICES ASSUME TypeOK, Bounds, [Next]_vars PROVE (\A o \in Nat : \A t \in Tables : Accounted(t, o) => Accounted(t, o)')
  OBVIOUS
<1> USE DEF TypeOK, Accounted, Durable, Bounds, broker, database, process, consumer, chanVars, workVars, stopVars
<1>1. CASE Produce
  BY <1>1 DEF Produce
<1>2. CASE Assign
  BY <1>2 DEF Assign, StartOffset
<1>3. CASE PollLoop
  BY <1>3 DEF PollLoop
<1>4. CASE ReaderExit
  BY <1>4 DEF ReaderExit
<1>5. CASE ReadMessage
  BY <1>5 DEF ReadMessage
<1>6. CASE ReadError
  BY <1>6 DEF ReadError
<1>7. CASE Dispatch
  BY <1>7 DEF Dispatch
<1>8. CASE SendToWorker
  BY <1>8 DEF SendToWorker
<1>9. CASE SendOnClosed
  BY <1>9 DEF SendOnClosed
<1>10. CASE WorkerExit
  BY <1>10 DEF WorkerExit, Leave
<1>11. CASE Receive
  BY <1>11 DEF Receive
<1>12. CASE CheckSpace
  BY <1>12 DEF CheckSpace, AfterReceive, DrainWorthwhile
<1>13. CASE DrainMessages
  BY <1>13 DEF DrainMessages, AfterReceive, LastTurn
<1>14. CASE Tick
  BY <1>14 DEF Tick, TickDue
<1>15. CASE StartFlush
  BY <1>15 DEF StartFlush, DropFlushed
<1>16. CASE WriteRows
  BY <1>16 DEF WriteRows
<1>17. CASE GiveUpRows
  BY <1>17 DEF GiveUpRows
<1>18. CASE CommitLastMessage
  BY <1>18 DEF CommitLastMessage, DropFlushed, WritersDone, LastMessage
<1>19. CASE RouterCancel
  BY <1>19 DEF RouterCancel
<1>20. CASE RouterClose
  BY <1>20 DEF RouterClose
<1>21. CASE RouterWait
  BY <1>21 DEF RouterWait
<1>22. CASE ConsumerCancel
  BY <1>22 DEF ConsumerCancel
<1>23. CASE ConsumerClose
  BY <1>23 DEF ConsumerClose
<1>24. CASE ProcessExit
  BY <1>24 DEF ProcessExit
<1>25. CASE Boot
  BY <1>25 DEF Boot
<1>26. CASE UNCHANGED vars
  BY <1>26 DEF vars
<1>q. QED
  BY <1>1, <1>2, <1>3, <1>4, <1>5, <1>6, <1>7, <1>8, <1>9, <1>10, <1>11, <1>12, <1>13, <1>14,
       <1>15, <1>16, <1>17, <1>18, <1>19, <1>20, <1>21, <1>22, <1>23, <1>24, <1>25, <1>26
            DEF Next, ReaderStep, WorkerStep, StopStep, Crash, Restart

\* The log only grows.
LEMMA RowsKept ==
  ASSUME TypeOK, Bounds, [Next]_vars
  PROVE  \A o \in 1..Len(log) : Rows(o)' = Rows(o)
<1>1. CASE Produce
  BY <1>1, LogGrows
<1>2. CASE UNCHANGED log
  BY <1>2 DEF Rows
<1>q. QED
  BY <1>1, <1>2 DEF Next, ReaderStep, WorkerStep, StopStep, Crash, Restart, Boot, vars, broker,
     Assign, PollLoop, ReaderExit, ReadMessage, ReadError, Dispatch, SendToWorker, SendOnClosed,
     WorkerExit, Receive, CheckSpace, DrainMessages, Tick, StartFlush, WriteRows, GiveUpRows,
          CommitLastMessage,
     RouterCancel, RouterClose, RouterWait, ConsumerCancel, ConsumerClose, ProcessExit, StartOffset, DrainWorthwhile, LastTurn, TickDue, Leave, WritersDone, LastMessage

\* Rows are rows of some table.
LEMMA RowsTables ==
  ASSUME TypeOK, NEW o \in 1..Len(log)
  PROVE  Rows(o) \subseteq Tables
<1>1. log[o] \in Message
  BY DEF TypeOK
<1>2. \A m \in Message : m.rows \subseteq Tables
  BY DEF Message
<1>q. QED
  BY <1>1, <1>2 DEF Rows


\* A received message is in the queue or has no rows.
LEMMA TakeForgotten ==
  ASSUME TypeOK, Bounds, DeliveredInOrder, channel # <<>>, channel' = Tail(channel),
         queue' = Handle(queue, Head(channel)), UNCHANGED <<log, reader, pos>>,
         \A o \in 1..Received : \A t \in Rows(o) :
           Accounted(t, o)' \/ \E i \in 1..Len(queue) : queue[i] = o
  PROVE  NothingForgotten'
<1>1. Received' = Received + 1 /\ \A o : Rows(o)' = Rows(o)
  BY Take DEF Rows
<1>2. Received \in Nat /\ Len(queue) \in Nat
  BY DEF TypeOK, Bounds, Received, Handed
<1> SUFFICES ASSUME NEW o \in 1..Received', NEW t \in Rows(o)
             PROVE  Accounted(t, o)' \/ \E i \in 1..Len(queue') : queue'[i] = o
  BY <1>1 DEF NothingForgotten
<1>3. CASE o \in 1..Received
  <2>1. 1..Len(queue) \subseteq 1..Len(queue') /\ \A i \in 1..Len(queue) : queue'[i] = queue[i]
    BY <1>2, Take
  <2>q. QED
    BY <1>3, <2>1
<1>4. CASE o = Received + 1
  <2>1. log[o].batch
    BY <1>4 DEF Rows
  <2>2. Len(queue') = Len(queue) + 1 /\ queue'[Len(queue) + 1] = o
    BY <1>4, <2>1, Take
  <2>q. QED
    BY <1>2, <2>2
<1>q. QED
  BY <1>1, <1>2, <1>3, <1>4


\* A flush may drop the batches whose rows are accounted for.
LEMMA DropForgotten ==
  ASSUME TypeOK, Bounds, DeliveredInOrder, DropFlushed, Received' = Received,
         \A o \in 1..Len(log) : Rows(o)' = Rows(o) /\ Rows(o) \subseteq Tables,
         \A o \in Nat : \A t \in Tables : Accounted(t, o) => Accounted(t, o)',
         \A o \in 1..Received : \A t \in Rows(o) :
           Accounted(t, o)' \/ \E i \in 1..Len(queue) : queue[i] = o,
         \A i \in 1..FlushCount : \A t \in Rows(queue[i]) : Accounted(t, queue[i])
  PROVE  NothingForgotten'
<1>1. /\ Len(queue) \in Nat /\ FlushCount \in 0..Len(queue) /\ Len(queue') = Len(queue) - FlushCount
      /\ \A i \in 1..Len(queue') : queue'[i] = queue[i + FlushCount]
  BY FlushedDropped, FlushedInLog DEF TypeOK
<1>2. Received \in 0..Len(log) /\ Len(log) \in Nat
  BY DEF TypeOK, Bounds, Received, Handed
<1> SUFFICES ASSUME NEW o \in 1..Received, NEW t \in Rows(o)
             PROVE  Accounted(t, o)' \/ \E i \in 1..Len(queue') : queue'[i] = o
  BY <1>2 DEF NothingForgotten
<1>3. o \in 1..Len(log) /\ t \in Tables
  BY <1>2
<1>4. CASE \E i \in 1..FlushCount : queue[i] = o
  BY <1>3, <1>4
<1>5. CASE \E i \in (FlushCount + 1)..Len(queue) : queue[i] = o
  <2>1. PICK i \in (FlushCount + 1)..Len(queue) : queue[i] = o
    BY <1>5
  <2>2. i - FlushCount \in 1..Len(queue') /\ (i - FlushCount) + FlushCount = i
    BY <1>1
  <2>q. QED
    BY <1>1, <2>1, <2>2
<1>6. CASE Accounted(t, o)'
  BY <1>6
<1>q. QED
  BY <1>1, <1>4, <1>5, <1>6

\* No step forgets a received message.
LEMMA ForgottenStep == IInv /\ [Next]_vars => NothingForgotten'
<1> SUFFICES ASSUME IInv, [Next]_vars PROVE NothingForgotten'
  OBVIOUS
<1> USE DEF IInv, TypeOK, NothingForgotten, broker, database, process, consumer, chanVars, workVars, stopVars
<1>a. \A o \in Nat : \A t \in Tables : Accounted(t, o) => Accounted(t, o)'
  BY AccountedGrows
<1>b. /\ Received \in 0..Len(log) /\ Len(log) \in Nat
      /\ \A o \in 1..Len(log) : Rows(o)' = Rows(o) /\ Rows(o) \subseteq Tables
  BY RowsKept, RowsTables, SMTT(30) DEF Bounds, Received, Handed
<1>c. \A o \in 1..Received : \A t \in Rows(o) :
        Accounted(t, o)' \/ \E i \in 1..Len(queue) : queue[i] = o
  <2> SUFFICES ASSUME NEW o \in 1..Received, NEW t \in Rows(o)
               PROVE  Accounted(t, o)' \/ \E i \in 1..Len(queue) : queue[i] = o
    OBVIOUS
  <2>1. o \in Nat /\ t \in Tables
    BY <1>b
  <2>2. Accounted(t, o) \/ \E i \in 1..Len(queue) : queue[i] = o
    OBVIOUS
  <2>q. QED
    BY <1>a, <2>1, <2>2
<1>1. CASE Produce
  <2>1. Received' = Received /\ queue' = queue
    BY <1>1, LogGrows DEF Produce
  <2>q. QED
    BY <1>a, <1>b, <1>c, <2>1
<1>2. CASE Assign
  <2>1. Received' = pos' /\ pos' <= Len(log)
    BY <1>2, EmptySeqNat DEF Assign, Received, Handed, CommitBehind, Bounds, StartOffset
  <2>2. pos' = committed \/ pos' = reset'
    BY <1>2 DEF Assign, StartOffset
  <2>3. CASE pos' = committed
    BY <1>a, <1>b, <2>1, <2>3 DEF CommittedAccounted
  <2>4. CASE pos' = reset'
    <3>1. \A o \in 1..Received' : o <= reset'
      BY <1>2, <2>1, <2>4 DEF Assign, StartOffset
    <3>q. QED
      BY <3>1 DEF Accounted, Durable
  <2>q. QED
    BY <2>2, <2>3, <2>4
<1>3. CASE PollLoop
  <2>1. Received' = Received /\ queue' = queue
    BY <1>3 DEF PollLoop, Received, Handed
  <2>q. QED
    BY <1>a, <1>b, <1>c, <2>1
<1>4. CASE ReaderExit
  <2>1. Received' = Received /\ queue' = queue
    BY <1>4 DEF ReaderExit, Received, Handed
  <2>q. QED
    BY <1>a, <1>b, <1>c, <2>1
<1>5. CASE ReadMessage
  <2>1. Received' = Received /\ queue' = queue
    BY <1>5 DEF ReadMessage, Received, Handed
  <2>q. QED
    BY <1>a, <1>b, <1>c, <2>1
<1>6. CASE ReadError
  <2>1. Received' = Received /\ queue' = queue
    BY <1>6 DEF ReadError, Received, Handed
  <2>q. QED
    BY <1>a, <1>b, <1>c, <2>1
<1>7. CASE Dispatch
  <2>1. Received' = Received /\ queue' = queue
    BY <1>7 DEF Dispatch, Received, Handed
  <2>q. QED
    BY <1>a, <1>b, <1>c, <2>1
<1>8. CASE SendToWorker
  <2>1. Received' = Received /\ queue' = queue
    BY <1>8, AppendNat DEF SendToWorker, Received, Handed
  <2>q. QED
    BY <1>a, <1>b, <1>c, <2>1
<1>9. CASE SendOnClosed
  <2>1. Received' = Received /\ queue' = queue
    BY <1>9 DEF SendOnClosed, Received, Handed
  <2>q. QED
    BY <1>a, <1>b, <1>c, <2>1
<1>10. CASE WorkerExit
  <2>1. Received' = Received /\ queue' = queue
    BY <1>10 DEF WorkerExit, Received, Handed, Leave
  <2>q. QED
    BY <1>a, <1>b, <1>c, <2>1
<1>11. CASE Receive
  <2>1. channel # <<>>
    BY <1>11 DEF Receive
  <2>2. channel' = Tail(channel) /\ queue' = Handle(queue, Head(channel)) /\ UNCHANGED <<log,
       reader, pos>>
    BY <1>11 DEF Receive
  <2>q. QED
    BY <1>a, <1>b, <1>c, <2>1, <2>2, TakeForgotten
<1>12. CASE CheckSpace
  <2>1. Received' = Received /\ queue' = queue
    BY <1>12 DEF CheckSpace, Received, Handed, DrainWorthwhile
  <2>q. QED
    BY <1>a, <1>b, <1>c, <2>1
<1>13. CASE DrainMessages
  <2>1. channel # <<>>
    BY <1>13 DEF DrainMessages, WorkerShape, LastTurn
  <2>2. channel' = Tail(channel) /\ queue' = Handle(queue, Head(channel)) /\ UNCHANGED <<log,
       reader, pos>>
    BY <1>13, <2>1 DEF DrainMessages, LastTurn
  <2>q. QED
    BY <1>a, <1>b, <1>c, <2>1, <2>2, TakeForgotten
<1>14. CASE Tick
  <2>1. Received' = Received /\ queue' = queue
    BY <1>14 DEF Tick, Received, Handed, TickDue
  <2>q. QED
    BY <1>a, <1>b, <1>c, <2>1
<1>15. CASE StartFlush
  <2>1. Received' = Received
    BY <1>15 DEF StartFlush, Received, Handed
  <2>2. CASE UNCHANGED queue
    BY <1>a, <1>b, <1>c, <2>1, <2>2
  <2>3. CASE DropFlushed /\ RowSets(ToFlush) = {}
    <3>1. \A i \in 1..FlushCount : \A t \in Rows(queue[i]) : FALSE
      <4>1. ToFlush \subseteq 1..Len(log)
        BY FlushedInLog
      <4>2. \A o \in ToFlush : \A t \in Rows(o) : <<t, o>> \in RowSets(ToFlush)
        BY <4>1, RowSetsMember
      <4>q. QED
        BY <2>3, <4>2 DEF ToFlush
    <3>q. QED
      BY <1>a, <1>b, <1>c, <2>1, <2>3, <3>1, DropForgotten
  <2>q. QED
    BY <1>15, <2>2, <2>3 DEF StartFlush
<1>16. CASE WriteRows
  <2>1. Received' = Received /\ queue' = queue
    BY <1>16 DEF WriteRows, Received, Handed
  <2>q. QED
    BY <1>a, <1>b, <1>c, <2>1
<1>17. CASE GiveUpRows
  <2>1. Received' = Received /\ queue' = queue
    BY <1>17 DEF GiveUpRows, Received, Handed
  <2>q. QED
    BY <1>a, <1>b, <1>c, <2>1
<1>18. CASE CommitLastMessage
  <2>1. Received' = Received /\ DropFlushed
    BY <1>18 DEF CommitLastMessage, Received, Handed, WritersDone, LastMessage
  <2>2. \A i \in 1..FlushCount : \A t \in Rows(queue[i]) : Accounted(t, queue[i])
    BY <1>18 DEF CommitLastMessage, FlushCovered, Accounted, Durable, WritersDone, LastMessage
  <2>q. QED
    BY <1>a, <1>b, <1>c, <2>1, <2>2, DropForgotten
<1>19. CASE RouterCancel
  <2>1. Received' = Received /\ queue' = queue
    BY <1>19 DEF RouterCancel, Received, Handed
  <2>q. QED
    BY <1>a, <1>b, <1>c, <2>1
<1>20. CASE RouterClose
  <2>1. Received' = Received /\ queue' = queue
    BY <1>20 DEF RouterClose, Received, Handed
  <2>q. QED
    BY <1>a, <1>b, <1>c, <2>1
<1>21. CASE RouterWait
  <2>1. Received' = Received /\ queue' = queue
    BY <1>21 DEF RouterWait, Received, Handed
  <2>q. QED
    BY <1>a, <1>b, <1>c, <2>1
<1>22. CASE ConsumerCancel
  <2>1. Received' = Received /\ queue' = queue
    BY <1>22 DEF ConsumerCancel, Received, Handed
  <2>q. QED
    BY <1>a, <1>b, <1>c, <2>1
<1>23. CASE ConsumerClose
  <2>1. Received' = Received /\ queue' = queue
    BY <1>23 DEF ConsumerClose, Received, Handed
  <2>q. QED
    BY <1>a, <1>b, <1>c, <2>1
<1>24. CASE ProcessExit
  <2>1. Received' = Received /\ queue' = queue
    BY <1>24 DEF ProcessExit, Received, Handed
  <2>q. QED
    BY <1>a, <1>b, <1>c, <2>1
<1>25. CASE Boot
  <2>1. Received' = 0
    BY <1>25, EmptySeqNat DEF Boot, Received, Handed
  <2>q. QED
    BY <2>1
<1>26. CASE UNCHANGED vars
  <2>1. Received' = Received /\ queue' = queue
    BY <1>26 DEF vars, Received, Handed
  <2>q. QED
    BY <1>a, <1>b, <1>c, <2>1
<1>q. QED
  BY <1>1, <1>2, <1>3, <1>4, <1>5, <1>6, <1>7, <1>8, <1>9, <1>10, <1>11, <1>12, <1>13, <1>14,
       <1>15, <1>16, <1>17, <1>18, <1>19, <1>20, <1>21, <1>22, <1>23, <1>24, <1>25, <1>26
            DEF Next, ReaderStep, WorkerStep, StopStep, Crash, Restart

\* A running flush keeps track of all its row sets.
LEMMA FlushCoveredStep == TypeOK /\ Bounds /\ DeliveredInOrder /\ FlushCovered /\ [Next]_vars => FlushCovered'
<1> SUFFICES ASSUME TypeOK, Bounds, DeliveredInOrder, FlushCovered,
     [Next]_vars PROVE FlushCovered'
  OBVIOUS
<1> USE DEF TypeOK, FlushCovered, broker, database, process, consumer, chanVars, workVars, stopVars
<1>1. CASE Produce
  <2>1. \A i \in 1..FlushCount : queue[i] \in 1..Len(log)
    BY FlushedInLog DEF ToFlush
  <2>2. \A o \in 1..Len(log) : log'[o] = log[o]
    BY <1>1, LogGrows
  <2>3. UNCHANGED <<worker, queue, todo, stored, lost>> /\ FlushCount' = FlushCount
    BY <1>1 DEF Produce, FlushCount, MinOf
  <2>q. QED
    BY <2>1, <2>2, <2>3 DEF Rows
<1>2. CASE Assign
  BY <1>2 DEF Assign, FlushCount, MinOf, Rows, StartOffset
<1>3. CASE PollLoop
  BY <1>3 DEF PollLoop, FlushCount, MinOf, Rows
<1>4. CASE ReaderExit
  BY <1>4 DEF ReaderExit, FlushCount, MinOf, Rows
<1>5. CASE ReadMessage
  BY <1>5 DEF ReadMessage, FlushCount, MinOf, Rows
<1>6. CASE ReadError
  BY <1>6 DEF ReadError, FlushCount, MinOf, Rows
<1>7. CASE Dispatch
  BY <1>7 DEF Dispatch, FlushCount, MinOf, Rows
<1>8. CASE SendToWorker
  BY <1>8 DEF SendToWorker, FlushCount, MinOf, Rows
<1>9. CASE SendOnClosed
  BY <1>9 DEF SendOnClosed, FlushCount, MinOf, Rows
<1>10. CASE WorkerExit
  BY <1>10 DEF WorkerExit, FlushCount, MinOf, Rows, Leave
<1>11. CASE Receive
  BY <1>11 DEF Receive, FlushCount, MinOf, Rows
<1>12. CASE CheckSpace
  BY <1>12 DEF CheckSpace, AfterReceive, AfterReceive, DrainWorthwhile
<1>13. CASE DrainMessages
  BY <1>13 DEF DrainMessages, AfterReceive, AfterReceive, LastTurn
<1>14. CASE Tick
  BY <1>14 DEF Tick, FlushCount, MinOf, Rows, TickDue
<1>15. CASE StartFlush
  <2>1. CASE DropFlushed
    BY <2>1 DEF DropFlushed
  <2>2. CASE todo' = RowSets(ToFlush) /\ UNCHANGED queue
    <3>1. \A o \in ToFlush : \A t \in Rows(o) : <<t, o>> \in RowSets(ToFlush)
      BY FlushedInLog, RowSetsMember
    <3>2. \A i \in 1..FlushCount : \A t \in Rows(queue[i]) : <<t, queue[i]>> \in todo'
      BY <2>2, <3>1 DEF ToFlush
    <3>3. FlushCount' = FlushCount /\ \A o : Rows(o)' = Rows(o)
      BY <1>15, <2>2 DEF StartFlush, FlushCount, MinOf, Rows
    <3>q. QED
      BY <2>2, <3>2, <3>3
  <2>q. QED
    BY <1>15, <2>1, <2>2 DEF StartFlush
<1>16. CASE WriteRows
  BY <1>16 DEF WriteRows, FlushCount, MinOf, Rows
<1>17. CASE GiveUpRows
  BY <1>17 DEF GiveUpRows, FlushCount, MinOf, Rows
<1>18. CASE CommitLastMessage
  BY <1>18 DEF CommitLastMessage, DropFlushed, FlushCount, MinOf, Rows, WritersDone, LastMessage
<1>19. CASE RouterCancel
  BY <1>19 DEF RouterCancel, FlushCount, MinOf, Rows
<1>20. CASE RouterClose
  BY <1>20 DEF RouterClose, FlushCount, MinOf, Rows
<1>21. CASE RouterWait
  BY <1>21 DEF RouterWait, FlushCount, MinOf, Rows
<1>22. CASE ConsumerCancel
  BY <1>22 DEF ConsumerCancel, FlushCount, MinOf, Rows
<1>23. CASE ConsumerClose
  BY <1>23 DEF ConsumerClose, FlushCount, MinOf, Rows
<1>24. CASE ProcessExit
  BY <1>24 DEF ProcessExit, FlushCount, MinOf, Rows
<1>25. CASE Boot
  BY <1>25 DEF Boot, FlushCount, MinOf, Rows
<1>26. CASE UNCHANGED vars
  BY <1>26 DEF vars, FlushCount, MinOf, Rows
<1>q. QED
  BY <1>1, <1>2, <1>3, <1>4, <1>5, <1>6, <1>7, <1>8, <1>9, <1>10, <1>11, <1>12, <1>13, <1>14,
       <1>15, <1>16, <1>17, <1>18, <1>19, <1>20, <1>21, <1>22, <1>23, <1>24, <1>25, <1>26
            DEF Next, ReaderStep, WorkerStep, StopStep, Crash, Restart

\* What the group commits is accounted for.
LEMMA AccountedStep == IInv /\ [Next]_vars => CommittedAccounted'
<1> SUFFICES ASSUME IInv, [Next]_vars PROVE CommittedAccounted'
  OBVIOUS
<1> USE DEF IInv
<1>1. \A o \in Nat : \A t \in Tables : Accounted(t, o) => Accounted(t, o)'
  BY AccountedGrows
<1>2. /\ Len(log) \in Nat /\ committed <= Len(log) /\ committed \in Int
      /\ \A o \in 1..Len(log) : Rows(o)' = Rows(o) /\ Rows(o) \subseteq Tables
  BY RowsKept, RowsTables, SMTT(30) DEF TypeOK, Bounds, NoOffset
<1>3. CASE UNCHANGED committed
  BY <1>1, <1>2, <1>3 DEF CommittedAccounted
<1>4. CASE CommitLastMessage /\ committed' = queue[FlushCount]
  <2>1. FlushCount \in 1..Len(queue) /\ Len(queue) \in Nat
       /\ queue[FlushCount] \in 1..Received /\ Received \in 0..Len(log)
    <3>1. worker = "write"
      BY <1>4 DEF CommitLastMessage
    <3>2. FlushCount \in 1..Len(queue) /\ Len(queue) \in Nat
      <4>1. Len(queue) >= 1 /\ Len(queue) \in Nat
        BY <3>1 DEF WorkerShape, TypeOK
      <4>q. QED
        BY <4>1, FlushedInLog
    <3>3. queue[FlushCount] \in 1..Received
      BY <3>2 DEF DeliveredInOrder
    <3>4. Received \in 0..Len(log)
      BY DEF Bounds, TypeOK, Received, Handed
    <3>q. QED
      BY <3>2, <3>3, <3>4
  <2>2. \A i \in 1..FlushCount : \A t \in Rows(queue[i]) : Accounted(t, queue[i])
    BY <1>4 DEF CommitLastMessage, FlushCovered, Accounted, Durable, WritersDone, LastMessage
  <2> SUFFICES ASSUME NEW o \in 1..queue[FlushCount], NEW t \in Rows(o)
               PROVE  Accounted(t, o)
    BY <1>1, <1>2, <1>4, <2>1 DEF CommittedAccounted
  <2>3. o \in 1..Received
    BY <2>1
  <2>4. CASE \E i \in 1..Len(queue) : queue[i] = o
    <3>1. PICK i \in 1..Len(queue) : queue[i] = o
      BY <2>4
    <3>2. i \in 1..FlushCount
      BY <2>1, <3>1 DEF DeliveredInOrder
    <3>q. QED
      BY <2>2, <3>1, <3>2
  <2>q. QED
    BY <2>3, <2>4 DEF NothingForgotten
<1>5. UNCHANGED committed \/ (CommitLastMessage /\ committed' = queue[FlushCount])
  BY DEF Next, ReaderStep, WorkerStep, StopStep, Crash, Restart, Boot, vars, broker, Produce,
     Assign, PollLoop, ReaderExit, ReadMessage, ReadError, Dispatch, SendToWorker, SendOnClosed,
     WorkerExit, Receive, CheckSpace, DrainMessages, Tick, StartFlush, WriteRows, GiveUpRows,
          CommitLastMessage,
     RouterCancel, RouterClose, RouterWait, ConsumerCancel, ConsumerClose, ProcessExit, StartOffset, DrainWorthwhile, LastTurn, TickDue, Leave, WritersDone, LastMessage
<1>q. QED
  BY <1>3, <1>4, <1>5

\* The invariant holds at first ...
LEMMA IInvInit == Init => IInv
<1> SUFFICES ASSUME Init PROVE IInv
  OBVIOUS
<1>1. TypeOK
  <2>1. <<>> \in Seq(Message)
    OBVIOUS
  <2>q. QED
    <3>1. log \in Seq(Message) /\ channel \in Seq(Nat) /\ queue \in Seq(Nat)
      BY <2>1, EmptySeqNat DEF Init
    <3>2. committed \in Nat \cup {NoOffset}
      BY CommitAssumption DEF Init
    <3>q. QED
      BY <3>1, <3>2 DEF Init, TypeOK
<1>2. Received = 0
  BY EmptySeqNat DEF Init, Received, Handed
<1>q. QED
  BY <1>1, <1>2, EmptySeqNat DEF Init, IInv, WorkerShape, Bounds, DeliveredInOrder,
       NothingForgotten,
     FlushCovered, CommitBehind, CommittedAccounted, NoOffset

\* ... and every step keeps it, ...
LEMMA IInvStep == IInv /\ [Next]_vars => IInv'
BY TypeStep, ShapeStep, BoundsStep, OrderStep, BehindStep, ForgottenStep, FlushCoveredStep,
     AccountedStep DEF IInv

\* ... so it holds throughout.
LEMMA Invariance == Spec => []IInv
<1>1. Init => IInv
  BY IInvInit
<1>2. IInv /\ [Next]_vars => IInv'
  BY IInvStep
<1>q. QED
  BY <1>1, <1>2, PTL DEF Spec

-----------------------------------------------------------------------------
(* The theorems *)

\* Every variable keeps its type.
THEOREM TypeCorrect == Spec => []TypeOK
BY Invariance, PTL DEF IInv

\* Messages keep the order of the log from the channel to the queue
\* (Dispatch, Run, drainMessages, flushIfNeeded).
THEOREM Order == Spec => []DeliveredInOrder
BY Invariance, PTL DEF IInv

\* A message the worker has received is in a table, lost by its writer or
\* still queued (flushIfNeeded, flushEventBatches, flushBalanceBatches).
THEOREM Forgotten == Spec => []NothingForgotten
BY Invariance, PTL DEF IInv

\* The group commits only offsets whose rows are accounted for
\* (commitLastMessage at the end of a flush).
THEOREM Accountable == Spec => []CommittedAccounted
BY Invariance, PTL DEF IInv


\* The batches held stay within the limits of the configuration (Run's
\* spaceLeft against flushIfNeeded).
THEOREM Bounded == Spec => []QueueBounded
<1>1. IInv => QueueBounded
  BY DEF IInv, TypeOK, WorkerShape, QueueBounded, MaxOf
<1>q. QED
  BY <1>1, Invariance, PTL

\* drainMessages never takes nil from a closed channel: the worker is the only
\* receiver, so the length Run has read is still there.
THEOREM NeverNil == Spec => []DrainNeverNil
<1>1. Init => DrainNeverNil
  BY DEF Init, DrainNeverNil
<1>2. IInv /\ DrainNeverNil /\ [Next]_vars => DrainNeverNil'
  <2> SUFFICES ASSUME IInv, DrainNeverNil, [Next]_vars PROVE DrainNeverNil'
    OBVIOUS
  <2>1. CASE DrainMessages
    <3>1. channel # <<>>
      BY <2>1, EmptySeqNat DEF DrainMessages, IInv, TypeOK, WorkerShape, LastTurn
    <3>q. QED
      BY <2>1, <3>1 DEF DrainMessages, DrainNeverNil, LastTurn
  <2>2. CASE ~DrainMessages
    BY <2>2 DEF DrainNeverNil, Produce,
     Assign, PollLoop, ReaderExit, ReadMessage, ReadError, Dispatch, SendToWorker, SendOnClosed,
     WorkerExit, Receive, CheckSpace, DrainMessages, Tick, StartFlush, WriteRows, GiveUpRows,
          CommitLastMessage,
     RouterCancel, RouterClose, RouterWait, ConsumerCancel, ConsumerClose, ProcessExit,
          Crash, Restart, Boot,
     Next, ReaderStep, WorkerStep, StopStep, vars, broker, database, process, stopVars, StartOffset, DrainWorthwhile, LastTurn, TickDue, Leave, WritersDone, LastMessage
  <2>q. QED
    BY <2>1, <2>2
<1>q. QED
  BY <1>1, <1>2, Invariance, PTL DEF Spec

\* Without a stop of the service group no writer gives up, so every committed
\* row set is in its table, whatever crashes: at-least-once delivery.
THEOREM StoredBeforeCommit == ASSUME AllowStop = FALSE PROVE Spec => []CommittedStored
<1> DEFINE NoStop == routerStop = "run" /\ consumerStop = "run" /\ lost = {}
<1>1. Init => NoStop
  BY DEF Init
<1>2. NoStop /\ [Next]_vars => NoStop'
  BY DEF Produce,
     Assign, PollLoop, ReaderExit, ReadMessage, ReadError, Dispatch, SendToWorker, SendOnClosed,
     WorkerExit, Receive, CheckSpace, DrainMessages, Tick, StartFlush, WriteRows, GiveUpRows,
          CommitLastMessage,
     RouterCancel, RouterClose, RouterWait, ConsumerCancel, ConsumerClose, ProcessExit,
          Crash, Restart, Boot,
     Next, ReaderStep, WorkerStep, StopStep, vars, broker, database, process, stopVars, StartOffset, DrainWorthwhile, LastTurn, TickDue, Leave, WritersDone, LastMessage
<1>3. IInv /\ NoStop => CommittedStored
  BY DEF IInv, CommittedAccounted, CommittedStored, Accounted
<1>q. QED
  BY <1>1, <1>2, <1>3, Invariance, PTL DEF Spec

\* The committed offset never goes back and nothing written disappears.
LEMMA MonotoneStep == IInv /\ [Next]_vars => committed' >= committed /\ stored \subseteq stored'
<1> SUFFICES ASSUME IInv, [Next]_vars PROVE committed' >= committed /\ stored \subseteq stored'
  OBVIOUS
<1>1. committed \in Int
  BY DEF IInv, TypeOK, NoOffset
<1>2. CASE CommitLastMessage
  <2>1. queue[FlushCount] > committed
    BY <1>2, FlushedInLog DEF CommitLastMessage, IInv, CommitBehind, WorkerShape, WritersDone, LastMessage
  <2>2. queue[FlushCount] \in Nat
    BY <1>2, FlushedInLog DEF CommitLastMessage, IInv, TypeOK, WorkerShape, WritersDone, LastMessage
  <2>q. QED
    BY <1>1, <1>2, <2>1, <2>2 DEF CommitLastMessage, database, WritersDone, LastMessage
<1>3. CASE UNCHANGED committed /\ stored \subseteq stored'
  BY <1>1, <1>3
<1>4. CommitLastMessage \/ (UNCHANGED committed /\ stored \subseteq stored')
  BY DEF Produce,
     Assign, PollLoop, ReaderExit, ReadMessage, ReadError, Dispatch, SendToWorker, SendOnClosed,
     WorkerExit, Receive, CheckSpace, DrainMessages, Tick, StartFlush, WriteRows, GiveUpRows,
          CommitLastMessage,
     RouterCancel, RouterClose, RouterWait, ConsumerCancel, ConsumerClose, ProcessExit,
          Crash, Restart, Boot,
     Next, ReaderStep, WorkerStep, StopStep, vars, broker, database, process, stopVars, StartOffset, DrainWorthwhile, LastTurn, TickDue, Leave, WritersDone, LastMessage
<1>q. QED
  BY <1>2, <1>3, <1>4

\* The committed offset never goes back and nothing written disappears
\* (commitLastMessage, across restarts and redeliveries).
THEOREM Monotone == Spec => CommitMonotone
<1>1. IInv /\ [Next]_vars => [committed' >= committed /\ stored \subseteq stored']_vars
  BY MonotoneStep
<1>q. QED
  BY <1>1, Invariance, PTL DEF Spec, CommitMonotone

-----------------------------------------------------------------------------
(* The pipeline implements AtLeastOnce *)

\* The row sets of the log; the tables hold, lack and wait for no others.
Produced == RowSets(1..Len(log))
NothingInvented == stored \subseteq Produced /\ lost \subseteq Produced /\ todo \subseteq Produced

\* A row set is one of its offset's.
LEMMA ProducedMember == \A r : r \in Produced <=> \E o \in 1..Len(log) : \E t \in Rows(o) : r = <<t, o>>
BY DEF Produced, RowSets

\* The log grows at its end: what has been produced stays, and nothing is added below.
LEMMA ProducedGrows ==
  ASSUME IInv, [Next]_vars
  PROVE  /\ Produced \subseteq Produced'
         /\ \A r \in Produced' : r[2] <= Len(log) => r \in Produced
<1>1. /\ Len(log) \in Nat /\ Len(log') \in Nat /\ Len(log') >= Len(log)
      /\ \A o \in 1..Len(log) : Rows(o)' = Rows(o)
  <2>1. CASE Produce
    BY <2>1, LogGrows DEF IInv, TypeOK
  <2>2. CASE UNCHANGED log
    BY <2>2 DEF IInv, TypeOK, Rows
  <2>3. Produce \/ UNCHANGED log
    BY DEF Produce,
     Assign, PollLoop, ReaderExit, ReadMessage, ReadError, Dispatch, SendToWorker, SendOnClosed,
     WorkerExit, Receive, CheckSpace, DrainMessages, Tick, StartFlush, WriteRows, GiveUpRows,
          CommitLastMessage,
     RouterCancel, RouterClose, RouterWait, ConsumerCancel, ConsumerClose, ProcessExit,
          Crash, Restart, Boot,
     Next, ReaderStep, WorkerStep, StopStep, vars, broker, database, process, workVars, stopVars, StartOffset, DrainWorthwhile, LastTurn, TickDue, Leave, WritersDone, LastMessage
  <2>q. QED
    BY <2>1, <2>2, <2>3
<1>2. \A r : r \in Produced' <=> \E o \in 1..Len(log') : \E t \in Rows(o)' : r = <<t, o>>
  BY DEF Produced, RowSets
<1>3. ASSUME NEW r \in Produced PROVE r \in Produced'
  <2>1. PICK o \in 1..Len(log) : \E t \in Rows(o) : r = <<t, o>>
    BY ProducedMember
  <2>2. o \in 1..Len(log') /\ Rows(o)' = Rows(o)
    BY <1>1
  <2>q. QED
    BY <1>2, <2>1, <2>2
<1>4. ASSUME NEW r \in Produced', r[2] <= Len(log) PROVE r \in Produced
  <2>1. PICK o \in 1..Len(log') : \E t \in Rows(o)' : r = <<t, o>>
    BY <1>2
  <2>2. o \in 1..Len(log) /\ Rows(o)' = Rows(o)
    BY <1>1, <1>4, <2>1
  <2>q. QED
    BY <2>1, <2>2, ProducedMember
<1>q. QED
  BY <1>3, <1>4

\* No step writes, drops or queues a row set that no message holds.
LEMMA InventedStep == IInv /\ NothingInvented /\ [Next]_vars => NothingInvented'
<1> SUFFICES ASSUME IInv, NothingInvented, [Next]_vars PROVE NothingInvented'
  OBVIOUS
<1>1. Produced \subseteq Produced'
  BY ProducedGrows
<1>2. CASE todo' = RowSets(ToFlush) /\ UNCHANGED <<stored, lost>>
  <2>1. \A r \in RowSets(ToFlush) : \E o \in ToFlush : \E t \in Rows(o) : r = <<t, o>>
    BY DEF RowSets
  <2>2. ToFlush \subseteq 1..Len(log)
    BY FlushedInLog DEF IInv
  <2>3. RowSets(ToFlush) \subseteq Produced
    BY <2>1, <2>2, ProducedMember
  <2>q. QED
    BY <1>1, <1>2, <2>3 DEF NothingInvented
<1>3. CASE /\ todo' \subseteq todo
           /\ stored' \subseteq stored \cup todo /\ lost' \subseteq lost \cup todo
  BY <1>1, <1>3 DEF NothingInvented
<1>4. \/ todo' = RowSets(ToFlush) /\ UNCHANGED <<stored, lost>>
      \/ todo' \subseteq todo /\ stored' \subseteq stored \cup todo /\ lost' \subseteq lost \cup todo
  BY DEF Produce,
     Assign, PollLoop, ReaderExit, ReadMessage, ReadError, Dispatch, SendToWorker, SendOnClosed,
     WorkerExit, Receive, CheckSpace, DrainMessages, Tick, StartFlush, WriteRows, GiveUpRows,
          CommitLastMessage,
     RouterCancel, RouterClose, RouterWait, ConsumerCancel, ConsumerClose, ProcessExit,
          Crash, Restart, Boot,
     Next, ReaderStep, WorkerStep, StopStep, vars, broker, database, process, workVars, stopVars, StartOffset, DrainWorthwhile, LastTurn, TickDue, Leave, WritersDone, LastMessage
<1>q. QED
  BY <1>2, <1>3, <1>4

\* The excuse of a row set, in terms of AtLeastOnce.
Excused == lost \cup {r \in RowSets(1..Len(log)) : r[2] <= reset}

\* At first nothing is written, excused or committed.
LEMMA PromiseInit == Init => Promise!Init /\ NothingInvented
<1> SUFFICES ASSUME Init PROVE Promise!Init /\ NothingInvented
  OBVIOUS
<1>1. log = <<>> /\ stored = {} /\ lost = {} /\ todo = {} /\ committed = InitialCommit
  BY DEF Init
<1>2. RowSets(1..Len(log)) = {}
  BY <1>1, EmptySeqNat DEF RowSets
<1>q. QED
  BY <1>1, <1>2 DEF Promise!Init, NothingInvented

\* What AtLeastOnce calls rows are those of PartitionWorker.
LEMMA PromiseRows == (\A o : Promise!Rows(o) = Rows(o)) /\ Promise!RowSets = Produced
<1>1. \A o : Promise!Rows(o) = Rows(o)
  BY DEF Promise!Rows, Rows
<1>q. QED
  BY <1>1 DEF Promise!RowSets, Produced, RowSets

\* Every step of the pipeline is a step of AtLeastOnce or leaves its variables alone.
LEMMA PromiseStep ==
  IInv /\ IInv' /\ NothingInvented /\ NothingInvented' /\ [Next]_vars => [Promise!Next]_Promise!vars
<1> SUFFICES ASSUME IInv, IInv', NothingInvented, NothingInvented', [Next]_vars
             PROVE  [Promise!Next]_Promise!vars
  OBVIOUS
<1>1. Len(log) \in Nat /\ reset \in Nat /\ reset <= Len(log) /\ committed \in Int
  BY DEF IInv, TypeOK, Bounds, NoOffset
<1>2. stored' \subseteq Produced' /\ lost' \subseteq Produced' /\ Excused' \subseteq Produced'
  BY DEF NothingInvented, Produced, Excused
<1>3. CASE Produce
  <2>1. UNCHANGED <<committed, stored, lost, reset>>
    BY <1>3 DEF Produce, database
  <2>2. \A r : r \in Produced /\ r[2] <= reset <=> r \in Produced' /\ r[2] <= reset
    <3>1. \A r \in Produced' : r[2] <= reset => r[2] <= Len(log)
      <4>1. \A r \in Produced' : r[2] \in Int
        <5>1. Len(log') \in Nat
          BY DEF IInv, TypeOK
        <5>2. \A r \in Produced' : \E o \in 1..Len(log') : r[2] = o
          BY DEF Produced, RowSets
        <5>q. QED
          BY <5>1, <5>2
      <4>q. QED
        BY <1>1, <4>1
    <3>q. QED
      BY <3>1, ProducedGrows
  <2>3. UNCHANGED Excused
    BY <2>1, <2>2 DEF Excused, Produced
  <2>q. QED
    BY <1>3, <2>1, <2>3 DEF Produce, Promise!Next, Promise!Produce, Excused
<1>4. CASE Assign \/ WriteRows \/ GiveUpRows
  <2>1. UNCHANGED <<log, committed>> /\ stored \subseteq stored' /\ lost \subseteq lost'
        /\ reset' \in Nat /\ reset <= reset'
    BY <1>1, <1>4 DEF Assign, WriteRows, GiveUpRows, broker, database, StartOffset
  <2>2. RowSets(1..Len(log))' = RowSets(1..Len(log)) /\ Produced' = Produced
    BY <2>1 DEF Produced, RowSets, Rows
  <2>3. \A r \in Produced : r[2] \in Int
    <3>1. \A r \in Produced : \E o \in 1..Len(log) : r[2] = o
      BY ProducedMember
    <3>q. QED
      BY <1>1, <3>1
  <2>4. Excused \subseteq Excused'
    BY <1>1, <2>1, <2>2, <2>3 DEF Excused, Produced
  <2>5. Promise!Settle
    BY <1>2, <2>1, <2>2, <2>4, PromiseRows DEF Promise!Settle, Excused
  <2>q. QED
    BY <2>5 DEF Promise!Next
<1>5. CASE CommitLastMessage /\ committed' # committed
  <2>1. UNCHANGED <<log, stored, lost, reset>>
    BY <1>5 DEF CommitLastMessage, database, WritersDone, LastMessage
  <2>2. committed' \in 1..Len(log)
    <3>1. FlushCount \in 1..Len(queue)
      BY <1>5, FlushedInLog DEF CommitLastMessage, IInv, WorkerShape, WritersDone, LastMessage
    <3>2. queue[FlushCount] \in 1..Len(log)
      BY <3>1, FlushedInLog DEF IInv, ToFlush
    <3>q. QED
      BY <1>5, <3>2 DEF CommitLastMessage, WritersDone, LastMessage
  <2>3. committed' > committed
    BY <1>1, <1>5, <2>2, MonotoneStep
  <2>4. \A p \in 1..committed' : \A t \in Rows(p) : <<t, p>> \in stored \cup Excused
    <3> SUFFICES ASSUME NEW p \in 1..committed', NEW t \in Rows(p)
                 PROVE  <<t, p>> \in stored \cup Excused
      OBVIOUS
    <3>1. p \in 1..Len(log) /\ <<t, p>> \in Produced
      BY <2>2, ProducedMember
    <3>2. \A q \in 1..committed' : \A s \in Rows(q)' : Accounted(s, q)'
      BY DEF IInv, CommittedAccounted
    <3>3. Rows(p)' = Rows(p)
      BY <2>1 DEF Rows
    <3>4. Accounted(t, p)
      BY <2>1, <3>2, <3>3 DEF Accounted, Durable
    <3>q. QED
      BY <3>1, <3>4 DEF Accounted, Durable, Excused, Produced
  <2>5. UNCHANGED Excused
    BY <2>1 DEF Excused, RowSets, Rows
  <2>q. QED
    BY <2>1, <2>2, <2>3, <2>4, <2>5, PromiseRows DEF Promise!Next, Promise!Commit, Excused
<1>6. CASE UNCHANGED <<log, committed, stored, lost, reset>>
  <2>1. UNCHANGED Excused
    BY <1>6 DEF Excused, RowSets, Rows
  <2>q. QED
    BY <1>6, <2>1 DEF Promise!vars, Excused
<1>7. \/ Produce \/ Assign \/ GiveUpRows \/ WriteRows
      \/ CommitLastMessage /\ committed' # committed
      \/ UNCHANGED <<log, committed, stored, lost, reset>>
  BY DEF Produce,
     Assign, PollLoop, ReaderExit, ReadMessage, ReadError, Dispatch, SendToWorker, SendOnClosed,
     WorkerExit, Receive, CheckSpace, DrainMessages, Tick, StartFlush, WriteRows, GiveUpRows,
          CommitLastMessage,
     RouterCancel, RouterClose, RouterWait, ConsumerCancel, ConsumerClose, ProcessExit,
          Crash, Restart, Boot,
     Next, ReaderStep, WorkerStep, StopStep, vars, broker, database, process, workVars, stopVars, StartOffset, DrainWorthwhile, LastTurn, TickDue, Leave, WritersDone, LastMessage
<1>q. QED
  BY <1>3, <1>4, <1>5, <1>6, <1>7

\* The pipeline delivers at least once: it implements AtLeastOnce.
THEOREM Refinement == Spec => Implements
<1>1. Init => Promise!Init /\ NothingInvented
  BY PromiseInit
<1>2. IInv /\ IInv' /\ NothingInvented /\ NothingInvented' /\ [Next]_vars => [Promise!Next]_Promise!vars
  BY PromiseStep
<1>3. IInv /\ NothingInvented /\ [Next]_vars => NothingInvented'
  BY InventedStep
<1>q. QED
  BY <1>1, <1>2, <1>3, Invariance, PTL DEF Spec, Implements, Promise!Spec

=============================================================================
