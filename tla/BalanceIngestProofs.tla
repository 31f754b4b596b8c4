------------------------ MODULE BalanceIngestProofs ------------------------
(***************************************************************************)
(* Proofs about BalanceIngest, for every set of accounts and chains and    *)
(* every bound: types; that the goroutines and rows of a running           *)
(* InsertBalances never meet on an account; and that the table reflects    *)
(* what is committed, converges, and goes back only on a redelivery.       *)
(***************************************************************************)
EXTENDS BalanceIngest, FiniteSetTheorems, WellFoundedInduction, TLAPS

USE DEF NoRow

\* The blocks of a flush are blocks of the log.
LEMMA FlushedOffsets ==
  ASSUME TypeOK, queue # <<>>
  PROVE  /\ FlushCount \in 1..Len(queue)
         /\ ToFlush \subseteq 1..Len(log)
         /\ Realtime \subseteq 1..Len(log)
         /\ Historical \subseteq 1..Len(log)
         /\ queue[FlushCount] \in 1..Len(log)
  <1>1. queue \in Seq(1..Len(log)) BY DEF TypeOK
  <1>2. Len(queue) \in Nat \ {0} BY <1>1
  <1>3. FlushCount \in 1..Len(queue) BY <1>2, FlushAssumption DEF FlushCount, Least
  <1>4. \A i \in 1..Len(queue) : queue[i] \in 1..Len(log) BY <1>1
  <1>5. ToFlush \subseteq 1..Len(log) BY <1>2, <1>3, <1>4 DEF ToFlush
  <1> QED BY <1>3, <1>4, <1>5 DEF Realtime, Historical

\* Each block of the log is of a slot of the chain.
LEMMA SlotsTyped ==
  ASSUME TypeOK
  PROVE  \A o \in 1..Len(log) : log[o].slot \in 1..Len(chain)
  <1> DEFINE Block == [slot: 1..Len(chain), grpc: BOOLEAN]
  <1>1. log \in Seq(Block) BY DEF TypeOK
  <1>2. \A b \in Block : b.slot \in 1..Len(chain) OBVIOUS
  <1> HIDE DEF Block
  <1>3. \A o \in 1..Len(log) : log[o] \in Block BY <1>1
  <1> QED BY <1>2, <1>3

\* The updates of blocks of the log are updates of the chain.
LEMMA UpdatesTyped ==
  ASSUME TypeOK, NEW O, O \subseteq 1..Len(log)
  PROVE  /\ UpdatesIn(O) \subseteq Update
         /\ \A u, v \in UpdatesIn(O) : u.id = v.id => u = v
  <1>1. chain \in Seq(SUBSET Update) /\ EventIdsOrdered(chain)
    BY ChainsAssumption DEF TypeOK
  <1>2. \A o \in O : log[o].slot \in 1..Len(chain) BY SlotsTyped
  <1>3. \A s \in 1..Len(chain) : chain[s] \subseteq Update BY <1>1
  <1>4. UpdatesIn(O) \subseteq Update BY <1>2, <1>3 DEF UpdatesIn
  <1>5. SUFFICES ASSUME NEW u \in UpdatesIn(O), NEW v \in UpdatesIn(O), u.id = v.id
                 PROVE  u = v
    BY <1>4
  <1>6. PICK o \in O : u \in chain[log[o].slot] BY DEF UpdatesIn
  <1>7. PICK p \in O : v \in chain[log[p].slot] BY DEF UpdatesIn
  <1>8. /\ log[o].slot \in 1..Len(chain) /\ log[p].slot \in 1..Len(chain)
        /\ u.id \in Nat /\ v.id \in Nat /\ Len(chain) \in Nat
    BY <1>1, <1>2, <1>4 DEF Update
  <1>9. CASE log[o].slot = log[p].slot BY <1>1, <1>5, <1>6, <1>7, <1>8, <1>9 DEF EventIdsOrdered
  <1>10. CASE log[o].slot < log[p].slot
    <2>1. u.id < v.id BY <1>1, <1>6, <1>7, <1>8, <1>10 DEF EventIdsOrdered
    <2> QED BY <2>1, <1>5, <1>8
  <1>11. CASE log[p].slot < log[o].slot
    <2>1. v.id < u.id BY <1>1, <1>6, <1>7, <1>8, <1>11 DEF EventIdsOrdered
    <2> QED BY <2>1, <1>5, <1>8
  <1> QED BY <1>8, <1>9, <1>10, <1>11

\* What InsertBalances is to write for the blocks O: at most one update for
\* each account.
LEMMA OnePerAccount ==
  ASSUME TypeOK, NEW O, O \subseteq 1..Len(log)
  PROVE  /\ ToUpdate(UpdatesIn(O)) \subseteq Update
         /\ ToDelete(UpdatesIn(O)) \subseteq Update
         /\ \A u, v \in ToUpdate(UpdatesIn(O)) \cup ToDelete(UpdatesIn(O)) :
              u.acct = v.acct => u = v
  <1> DEFINE U == UpdatesIn(O)
  <1>1. U \subseteq Update /\ \A u, v \in U : u.id = v.id => u = v
    BY UpdatesTyped
  <1>2. ToUpdate(U) \cup ToDelete(U) \subseteq LatestPerAccount(U)
    BY DEF ToUpdate, ToDelete
  <1>3. LatestPerAccount(U) \subseteq U BY DEF LatestPerAccount
  <1>4. ASSUME NEW u \in LatestPerAccount(U), NEW v \in LatestPerAccount(U),
               u.acct = v.acct
        PROVE  u = v
    <2>1. u.id <= v.id /\ v.id <= u.id BY <1>4 DEF LatestPerAccount
    <2>2. u.id \in Nat /\ v.id \in Nat BY <1>1, <1>3 DEF Update
    <2>3. u.id = v.id BY <2>1, <2>2
    <2> QED BY <2>3, <1>1, <1>3
  <1> HIDE DEF U
  <1>5. ToUpdate(U) \subseteq Update /\ ToDelete(U) \subseteq Update
    BY <1>1, <1>2, <1>3
  <1>6. \A u, v \in ToUpdate(U) \cup ToDelete(U) : u.acct = v.acct => u = v
    BY <1>2, <1>4
  <1> QED BY <1>5, <1>6 DEF U

\* The end of a flush keeps the types of what it changes.
LEMMA EndOfFlushTyped ==
  ASSUME TypeOK, queue # <<>>, EndOfFlush
  PROVE  /\ queue' \in Seq(1..Len(log))
         /\ lastSlot' \in 0..Len(chain)
         /\ phase' = "idle"
  <1>1. /\ FlushCount \in 1..Len(queue)
        /\ ToFlush \subseteq 1..Len(log)
    BY FlushedOffsets
  <1>2. queue' \in Seq(1..Len(log))
    <2>1. queue \in Seq(1..Len(log)) BY DEF TypeOK
    <2>2. \A i \in 1..Len(queue) : queue[i] \in 1..Len(log) BY <2>1
    <2>3. Len(queue) \in Nat BY <2>1
    <2>4. SubSeq(queue, FlushCount + 1, Len(queue)) \in Seq(1..Len(log))
      BY <1>1, <2>1, <2>2, <2>3
    <2> QED BY <2>4 DEF EndOfFlush
  <1>3. lastSlot' \in 0..Len(chain)
    <2>1. SlotsSeen \subseteq 0..Len(chain)
      <3>1. \A o \in 1..Len(log) : log[o].slot \in 1..Len(chain) BY SlotsTyped
      <3>2. lastSlot \in 0..Len(chain) BY DEF TypeOK
      <3> QED BY <1>1, <3>1, <3>2 DEF SlotsSeen
    <2> QED BY <2>1 DEF EndOfFlush
  <1> QED BY <1>2, <1>3 DEF EndOfFlush

\* A flush that has begun has blocks to commit.
FlushHasBlocks == phase # "idle" => queue # <<>>

Typed == TypeOK /\ WritersDisjoint /\ FlushHasBlocks

\* Everything but the pending writes keeps its type; the pending writes are
\* one for each account.
LEMMA TypedStep ==
  ASSUME Typed, [Next]_vars
  PROVE  Typed'
  <1> USE DEF Typed
  <1>0. chain \in Seq(SUBSET Update) BY ChainsAssumption DEF TypeOK
  <1>a. Len(chain) \in Nat /\ Len(log) \in Nat BY <1>0 DEF TypeOK
  <1>1. CASE Produce
    <2>1. PICK b \in [slot: 1..Len(chain), grpc: BOOLEAN] : log' = Append(log, b)
      BY <1>1 DEF Produce
    <2>2. log' \in Seq([slot: 1..Len(chain), grpc: BOOLEAN]) /\ Len(log') = Len(log) + 1
      BY <2>1 DEF TypeOK
    <2>3. queue \in Seq(1..Len(log'))
      <3>1. queue \in Seq(1..Len(log)) BY DEF TypeOK
      <3>2. 1..Len(log) \subseteq 1..Len(log') BY <2>2, <1>a
      <3>3. \A i \in 1..Len(queue) : queue[i] \in 1..Len(log') BY <3>1, <3>2
      <3>4. queue = [i \in 1..Len(queue) |-> queue[i]] /\ Len(queue) \in Nat BY <3>1
      <3>5. [i \in 1..Len(queue) |-> queue[i]] \in Seq(1..Len(log')) BY <3>3, <3>4
      <3> QED BY <3>4, <3>5
    <2>4. TypeOK'
      BY <1>1, <1>a, <2>2, <2>3
      DEF TypeOK, Produce, process, intake, writers
    <2> QED BY <1>1, <2>4 DEF WritersDisjoint, FlushHasBlocks, Produce, intake, writers
  <1>2. CASE Receive
    <2>1. received' \in 1..Len(log) BY <1>2, <1>a DEF Receive, TypeOK
    <2>2. queue' \in Seq(1..Len(log)) BY <1>2, <2>1 DEF Receive, TypeOK
    <2>3. TypeOK' BY <1>2, <1>a, <2>1, <2>2 DEF TypeOK, Receive, broker, process, writers
    <2> QED BY <1>2, <2>3 DEF WritersDisjoint, FlushHasBlocks, Receive, intake, writers
  <1>3. CASE FlushNothing
    <2>1. /\ queue' \in Seq(1..Len(log)) /\ lastSlot' \in 0..Len(chain) /\ phase' = "idle"
      BY <1>3, EndOfFlushTyped DEF FlushNothing
    <2>2. TypeOK' BY <1>3, <2>1 DEF TypeOK, FlushNothing, broker, process, writers
    <2> QED BY <1>3, <2>1, <2>2 DEF WritersDisjoint, FlushHasBlocks, FlushNothing, intake, writers
  <1>4. CASE StartFlush
    <2>1. Realtime \subseteq 1..Len(log) BY <1>4, FlushedOffsets DEF StartFlush
    <2>2. /\ ToUpdate(UpdatesIn(Realtime)) \subseteq Update
          /\ ToDelete(UpdatesIn(Realtime)) \subseteq Update
          /\ \A u, v \in ToUpdate(UpdatesIn(Realtime)) \cup ToDelete(UpdatesIn(Realtime)) :
               u.acct = v.acct => u = v
      BY <2>1, OnePerAccount
    <2>3. TypeOK' BY <1>4, <2>2 DEF TypeOK, StartFlush, broker, process, intake
    <2> QED BY <1>4, <2>2, <2>3 DEF WritersDisjoint, FlushHasBlocks, StartFlush, intake, writers
  <1>5. CASE StartHistorical
    <2>1. queue # <<>> /\ Historical \subseteq 1..Len(log)
      BY <1>5, FlushedOffsets DEF StartHistorical, FlushHasBlocks
    <2>2. /\ ToUpdate(UpdatesIn(Historical)) \subseteq Update
          /\ ToDelete(UpdatesIn(Historical)) \subseteq Update
          /\ \A u, v \in ToUpdate(UpdatesIn(Historical)) \cup ToDelete(UpdatesIn(Historical)) :
               u.acct = v.acct => u = v
      BY <2>1, OnePerAccount
    <2>3. TypeOK' BY <1>5, <2>2 DEF TypeOK, StartHistorical, broker, process, intake
    <2> QED BY <1>5, <2>2, <2>3 DEF WritersDisjoint, FlushHasBlocks, StartHistorical, intake, writers
  <1>6. CASE SelectForUpdate
    <2>1. TypeOK' BY <1>6 DEF TypeOK, SelectForUpdate, broker, process, intake
    <2> QED BY <1>6, <2>1 DEF WritersDisjoint, FlushHasBlocks, SelectForUpdate, intake, writers
  <1>7. CASE SelectForDelete
    <2>1. TypeOK' BY <1>7 DEF TypeOK, SelectForDelete, broker, process, intake
    <2> QED BY <1>7, <2>1 DEF WritersDisjoint, FlushHasBlocks, SelectForDelete, intake, writers
  <1>8. CASE UpsertRow
    <2>1. PICK u \in upserts : /\ table' = [table EXCEPT ![u.acct] = u.id]
                               /\ upserts' = upserts \ {u}
      BY <1>8 DEF UpsertRow
    <2>2. u.id \in Nat BY DEF TypeOK, Update
    <2>3. table' \in [Accounts -> Nat] BY <2>1, <2>2 DEF TypeOK
    <2>4. TypeOK' BY <1>8, <2>1, <2>3 DEF TypeOK, UpsertRow, broker, process, intake
    <2> QED BY <1>8, <2>1, <2>4 DEF WritersDisjoint, FlushHasBlocks, UpsertRow, intake, writers
  <1>9. CASE DeleteRow
    <2>1. PICK u \in deletes : /\ table' = [table EXCEPT ![u.acct] = NoRow]
                               /\ deletes' = deletes \ {u}
      BY <1>9 DEF DeleteRow
    <2>2. table' \in [Accounts -> Nat] BY <2>1 DEF TypeOK
    <2>3. TypeOK' BY <1>9, <2>1, <2>2 DEF TypeOK, DeleteRow, broker, process, intake
    <2> QED BY <1>9, <2>1, <2>3 DEF WritersDisjoint, FlushHasBlocks, DeleteRow, intake, writers
  <1>10. CASE CommitLastMessage
    <2>0. queue # <<>> BY <1>10 DEF CommitLastMessage, FlushHasBlocks
    <2>1. /\ queue' \in Seq(1..Len(log)) /\ lastSlot' \in 0..Len(chain) /\ phase' = "idle"
      BY <1>10, <2>0, EndOfFlushTyped DEF CommitLastMessage
    <2>2. committed' \in 0..Len(log)
      <3>1. queue[FlushCount] \in 1..Len(log) BY <2>0, FlushedOffsets
      <3>2. committed \in 0..Len(log) BY DEF TypeOK
      <3> QED BY <1>10, <1>a, <3>1, <3>2 DEF CommitLastMessage
    <2>3. TypeOK' BY <1>10, <2>1, <2>2 DEF TypeOK, CommitLastMessage, process, writers
    <2> QED BY <1>10, <2>1, <2>3 DEF WritersDisjoint, FlushHasBlocks, CommitLastMessage, intake, writers
  <1>11. CASE Crash
    <2>1. queue' \in Seq(1..Len(log)) BY <1>11 DEF Crash
    <2>2. reached' \in Nat /\ received' \in 0..Len(log)
      BY <1>11, <1>a DEF Crash, TypeOK, StartOffset
    <2>3. TypeOK' BY <1>11, <1>a, <2>1, <2>2 DEF TypeOK, Crash, broker
    <2> QED BY <1>11, <2>3 DEF WritersDisjoint, FlushHasBlocks, Crash, intake, writers
  <1>12. CASE UNCHANGED vars
    BY <1>12 DEF TypeOK, WritersDisjoint, FlushHasBlocks, vars, broker, process, intake, writers
  <1> QED BY <1>1, <1>2, <1>3, <1>4, <1>5, <1>6, <1>7, <1>8, <1>9, <1>10, <1>11, <1>12
          DEF Next, WorkerStep


\* In the initial states nothing is pending.
LEMMA TypedInit == Init => Typed
  <1> SUFFICES ASSUME Init PROVE Typed
    OBVIOUS
  <1>1. /\ log \in Seq([slot: 1..Len(chain), grpc: BOOLEAN]) /\ Len(log) = 0
        /\ queue \in Seq(1..Len(log))
    BY DEF Init
  <1>2. chain \in Seq(SUBSET Update) BY ChainsAssumption DEF Init
  <1>3. Len(chain) \in Nat BY <1>2
  <1>4. TypeOK BY <1>1, <1>3 DEF Init, TypeOK
  <1> QED BY <1>4 DEF Init, Typed, WritersDisjoint, FlushHasBlocks

-----------------------------------------------------------------------------
(* The inductive invariant                                                 *)

\* The worker has done with the blocks up to here.
Done == received - Len(queue)

\* The blocks a running InsertBalances brings in, and the ones before it.
Flushing ==
  IF phase = "idle" THEN {} ELSE IF phase = "realtime" THEN Realtime ELSE Historical

Before == 1..Done \cup (IF phase = "historical" THEN Realtime ELSE {})

\* The updates of account a in those two sets of blocks, and those that an
\* earlier life has received.
Base(a)    == UpdatesOf(a, Before)
Brought(a) == UpdatesOf(a, Flushing)
Earlier(a) == UpdatesOf(a, 1..reached)

\* While account a has a pending write, its row has only what was before.
Pending(a) == \E u \in upserts \cup deletes : u.acct = a
Given(a)   == IF Pending(a) THEN Base(a) ELSE Base(a) \cup Brought(a)
Known(a)   == Given(a) \cup Earlier(a)

\* The ids that a backfilled block may bring back.
BackfilledIds(a) ==
  {u.id : u \in {v \in UpdatesOf(a, {o \in 1..Len(log) : ~log[o].grpc}) : ~v.zero}}

\* Last event id t of a row is that of a known update, and reflects each of
\* the given updates G: it is not older, or the account was emptied since,
\* and the row is gone or came back with a backfilled update of ids B.
FitsRow(t, G, K, B) ==
  /\ t # NoRow => \E v \in K : ~v.zero /\ v.id = t
  /\ \A u \in G : \/ t >= u.id
                  \/ (\E v \in K : v.zero /\ v.id >= u.id) /\ (t = NoRow \/ t \in B)

\* The queue holds the next offsets, and what is committed is done.
OffsetsInOrder ==
  /\ lives >= 1
  /\ reached <= Len(log)
  /\ committed <= Done
  /\ \A i \in 1..Len(queue) : queue[i] = Done + i

\* The gRPC stream only brings slots newer than all before them.
GrpcIsNew ==
  \A i, j \in 1..Len(log) : i < j /\ log[j].grpc => log[i].slot < log[j].slot

\* lastSlot is the slot of a block that is done; in the first life no block
\* that is done has a higher one.
LastSlotSeen ==
  /\ lastSlot # 0 => \E o \in 1..Done : log[o].slot = lastSlot
  /\ lives = 1 => \A o \in 1..Done : log[o].slot <= lastSlot

\* What is pending are the last updates of the blocks being brought in.
PendingFits ==
  /\ phase # "historical" => selecting = {}
  /\ phase = "idle" => upserts = {} /\ deletes = {}
  /\ \A u \in upserts : ~u.zero
  /\ \A u \in deletes : u.zero
  /\ \A u \in upserts \cup deletes :
       u \in Brought(u.acct) /\ \A v \in Brought(u.acct) : v.id <= u.id

\* What has passed the filter still passes it: nobody else writes its row.
Selected ==
  phase = "historical" =>
    /\ "update" \notin selecting => \A u \in upserts : UpdateIfNewer(u)
    /\ "delete" \notin selecting => \A u \in deletes : DeleteIfLater(u)

\* Each row fits what has been applied to it.
Reflected ==
  Sheltered =>
    \A a \in Accounts : FitsRow(table[a], Given(a), Known(a), BackfilledIds(a))

Bookkeeping == OffsetsInOrder /\ GrpcIsNew /\ LastSlotSeen
Writing == PendingFits /\ Selected

IInv == Typed /\ Bookkeeping /\ Writing /\ Reflected

-----------------------------------------------------------------------------
(* What becomes of a row                                                   *)

\* A row keeps fitting when less is asked of it or more is known.
LEMMA FitsMore ==
  ASSUME NEW t, NEW G, NEW K, NEW B, FitsRow(t, G, K, B),
         NEW H, H \subseteq G, NEW L, K \subseteq L, NEW C, B \subseteq C
  PROVE  FitsRow(t, H, L, C)
  BY DEF FitsRow

\* A realtime write: the new updates F are all newer.
LEMMA FitsNewest ==
  ASSUME NEW G \in SUBSET Update, NEW F \in SUBSET Update,
         NEW u \in F, \A v \in F : v.id <= u.id, \A v \in G : v.id <= u.id,
         NEW L, F \subseteq L, NEW C
  PROVE  FitsRow(IF u.zero THEN NoRow ELSE u.id, G \cup F, L, C)
  <1>1. \A v \in G \cup F : v.id <= u.id
    OBVIOUS
  <1>2. u \in L /\ u.zero \in BOOLEAN /\ u.id \in Nat
    BY DEF Update
  <1>3. CASE u.zero
    BY <1>1, <1>2, <1>3 DEF FitsRow
  <1>4. CASE ~u.zero
    <2>1. \A v \in G \cup F : v.id \in Nat
      BY DEF Update
    <2> QED BY <1>1, <1>2, <1>4, <2>1 DEF FitsRow
  <1> QED BY <1>2, <1>3, <1>4

\* A historical update of a row that is older or missing.
LEMMA FitsUpsert ==
  ASSUME NEW t \in Nat, NEW G \in SUBSET Update, NEW K \in SUBSET Update, NEW B,
         FitsRow(t, G, K, B),
         NEW F \in SUBSET Update, NEW u \in F, \A v \in F : v.id <= u.id,
         ~u.zero, t = NoRow \/ u.id > t, u.id \in B,
         NEW L, K \cup F \subseteq L
  PROVE  FitsRow(u.id, G \cup F, L, B)
  <1>1. u.id \in Nat /\ u \in L
    BY DEF Update
  <1>2. ASSUME NEW w \in G
        PROVE  \/ u.id >= w.id
               \/ \E v \in L : v.zero /\ v.id >= w.id
    <2>1. w.id \in Nat \ {0}
      BY DEF Update
    <2>2. CASE t >= w.id
      BY <1>1, <2>1, <2>2
    <2>3. CASE \E v \in K : v.zero /\ v.id >= w.id
      BY <2>3
    <2> QED BY <2>2, <2>3 DEF FitsRow
  <1>3. \A w \in F : u.id >= w.id
    <2>1. \A w \in F : w.id \in Nat
      BY DEF Update
    <2> QED BY <1>1, <2>1
  <1>4. \A w \in G \cup F : \/ u.id >= w.id
                            \/ \E v \in L : v.zero /\ v.id >= w.id
    BY <1>2, <1>3
  <1> QED BY <1>1, <1>4 DEF FitsRow

\* A historical delete of a row that is not newer.
LEMMA FitsDelete ==
  ASSUME NEW t \in Nat, NEW G \in SUBSET Update, NEW K \in SUBSET Update, NEW B,
         FitsRow(t, G, K, B),
         NEW F \in SUBSET Update, NEW u \in F, \A v \in F : v.id <= u.id,
         u.zero, u.id >= t,
         NEW L, K \cup F \subseteq L
  PROVE  FitsRow(NoRow, G \cup F, L, B)
  <1>1. u.id \in Nat /\ u \in L
    BY DEF Update
  <1>2. ASSUME NEW w \in G
        PROVE  \E v \in L : v.zero /\ v.id >= w.id
    <2>1. w.id \in Nat
      BY DEF Update
    <2>2. CASE t >= w.id
      BY <1>1, <2>1, <2>2
    <2>3. CASE \E v \in K : v.zero /\ v.id >= w.id
      BY <2>3
    <2> QED BY <2>2, <2>3 DEF FitsRow
  <1>3. \A w \in F : u.zero /\ u.id >= w.id
    <2>1. \A w \in F : w.id \in Nat
      BY DEF Update
    <2> QED BY <1>1, <2>1
  <1>4. \A w \in G \cup F : \E v \in L : v.zero /\ v.id >= w.id
    BY <1>1, <1>2, <1>3
  <1> QED BY <1>4 DEF FitsRow

\* An update that the filter drops has nothing to add to its row.
LEMMA FitsDropped ==
  ASSUME NEW t \in Nat, NEW G \in SUBSET Update, NEW K \in SUBSET Update, NEW B,
         FitsRow(t, G, K, B),
         NEW F \in SUBSET Update, NEW u \in F, \A v \in F : v.id <= u.id,
         u.id <= t \/ (u.zero /\ t = NoRow),
         NEW L, K \cup F \subseteq L
  PROVE  FitsRow(t, G \cup F, L, B)
  <1>1. u.id \in Nat /\ u \in L
    BY DEF Update
  <1>2. \A w \in F : w.id \in Nat /\ w.id <= u.id
    BY DEF Update
  <1>3. FitsRow(t, G, L, B)
    BY DEF FitsRow
  <1>4. CASE u.id <= t
    <2>1. \A w \in F : t >= w.id
      BY <1>1, <1>2, <1>4
    <2> QED BY <1>3, <2>1 DEF FitsRow
  <1>5. CASE u.zero /\ t = NoRow
    <2>1. \A w \in F : \E v \in L : v.zero /\ v.id >= w.id
      BY <1>1, <1>2, <1>5
    <2> QED BY <1>3, <1>5, <2>1 DEF FitsRow
  <1> QED BY <1>4, <1>5

-----------------------------------------------------------------------------
(* Last updates exist                                                      *)

\* A non-empty set of numbers has a least one.
LEMMA LeastNumber ==
  ASSUME NEW S \in SUBSET Nat, S # {}
  PROVE  \E n \in S : \A m \in S : n <= m
  <1>1. PICK n \in S : \A m \in S : ~(<<m, n>> \in OpToRel(<, Nat))
    BY NatLessThanWellFounded, WFMin
  <1>2. \A m \in S : ~(m < n)
    BY <1>1, Zenon DEF OpToRel
  <1>3. \A m \in S : n <= m
    BY <1>2
  <1> QED BY <1>3

\* Of finitely many updates one is the last: the one with the fewest later ones.
LEMMA LatestExists ==
  ASSUME NEW U \in SUBSET Update, IsFiniteSet(U), U # {}
  PROVE  \E u \in U : \A v \in U : v.id <= u.id
  <1> DEFINE Later(u) == {v \in U : v.id > u.id}
             Counts == {Cardinality(Later(u)) : u \in U}
  <1>1. \A u \in U : u.id \in Nat
    BY DEF Update
  <1>2. \A u \in U : IsFiniteSet(Later(u)) /\ Cardinality(Later(u)) \in Nat
    BY FS_Subset, FS_CardinalityType
  <1>3. Counts \in SUBSET Nat /\ Counts # {}
    BY <1>2
  <1>4. PICK n \in Counts : \A m \in Counts : n <= m
    BY <1>3, LeastNumber
  <1>5. PICK u \in U : n = Cardinality(Later(u))
    BY <1>4
  <1>6. SUFFICES ASSUME NEW v \in U, v.id > u.id
                 PROVE  FALSE
    BY <1>1
  <1>7. Later(v) \in SUBSET Later(u)
    BY <1>1, <1>6
  <1>8. v \in Later(u) /\ v \notin Later(v)
    BY <1>1, <1>6
  <1>9. /\ Cardinality(Later(v)) <= Cardinality(Later(u))
        /\ Cardinality(Later(v)) # Cardinality(Later(u))
    <2> HIDE DEF Later
    <2> QED BY <1>2, <1>7, <1>8, FS_Subset
  <1>10. Cardinality(Later(u)) <= Cardinality(Later(v))
    BY <1>4, <1>5
  <1> HIDE DEF Later, Counts
  <1> QED BY <1>2, <1>9, <1>10

-----------------------------------------------------------------------------
(* Offsets and the updates they bring                                      *)

\* What is done is within what is received, and that within the log.
LEMMA DoneBounds ==
  ASSUME TypeOK, OffsetsInOrder
  PROVE  /\ Done \in Nat /\ committed \in Nat /\ committed <= Done
         /\ received \in Nat /\ Done <= received
         /\ Len(log) \in Nat /\ received <= Len(log) /\ Len(queue) \in Nat
         /\ received = Done + Len(queue)
  <1>1. Len(log) \in Nat /\ Len(queue) \in Nat
    BY DEF TypeOK
  <1>2. committed \in 0..Len(log) /\ received \in 0..Len(log)
    BY DEF TypeOK
  <1>3. Done \in Int /\ committed <= Done
    BY <1>1, <1>2 DEF Done, OffsetsInOrder
  <1> QED BY <1>1, <1>2, <1>3 DEF Done

\* A flush takes the offsets that follow what is done.
LEMMA FlushRange ==
  ASSUME TypeOK, OffsetsInOrder, queue # <<>>
  PROVE  /\ FlushCount \in Nat \ {0}
         /\ ToFlush = Done + 1 .. Done + FlushCount
         /\ queue[FlushCount] = Done + FlushCount
         /\ Done + FlushCount <= received
  <1>1. FlushCount \in 1..Len(queue)
    BY FlushedOffsets
  <1>2. Done \in Nat /\ Len(queue) \in Nat /\ received = Done + Len(queue)
    BY DoneBounds
  <1>3. \A i \in 1..FlushCount : queue[i] = Done + i
    BY <1>1, <1>2 DEF OffsetsInOrder
  <1>4. \A o \in Done + 1 .. Done + FlushCount :
          o - Done \in 1..FlushCount /\ queue[o - Done] = o
    BY <1>1, <1>2, <1>3
  <1>5. \A i \in 1..FlushCount : queue[i] \in Done + 1 .. Done + FlushCount
    BY <1>1, <1>2, <1>3
  <1>6. ToFlush = Done + 1 .. Done + FlushCount
    BY <1>4, <1>5 DEF ToFlush
  <1> QED BY <1>1, <1>2, <1>3, <1>6

\* A flush splits into realtime and historical blocks.
LEMMA FlushSplit == Realtime \cup Historical = ToFlush
  BY DEF Realtime, Historical

\* The realtime blocks of a flush are newer than all that is done, unless a
\* restarted worker meets backfill.
LEMMA RealtimeNewer ==
  ASSUME TypeOK, Bookkeeping, Sheltered, queue # <<>>,
         NEW o \in 1..Done, NEW p \in Realtime
  PROVE  log[o].slot < log[p].slot
  <1>1. /\ Done \in Nat /\ Len(log) \in Nat /\ Done <= Len(log)
        /\ ToFlush = Done + 1 .. Done + FlushCount
        /\ FlushCount \in Nat /\ Done + FlushCount <= Len(log)
    BY DoneBounds, FlushRange DEF Bookkeeping
  <1>2. p \in ToFlush /\ IsRealtime(log[p])
    BY DEF Realtime
  <1>3. /\ o \in 1..Len(log) /\ p \in 1..Len(log) /\ o < p
    BY <1>1, <1>2
  <1>4. /\ log[o].slot \in Nat /\ log[o].slot > 0 /\ log[p].slot \in Nat
        /\ lastSlot \in Nat
    <2>1. log[o].slot \in 1..Len(chain) /\ log[p].slot \in 1..Len(chain)
      BY <1>3, SlotsTyped
    <2>2. lastSlot \in 0..Len(chain)
      BY DEF TypeOK
    <2>3. Len(chain) \in Nat
      BY ChainsAssumption DEF TypeOK
    <2> QED BY <2>1, <2>2, <2>3
  <1>5. CASE lives = 1
    <2>1. log[o].slot <= lastSlot
      BY <1>5 DEF Bookkeeping, LastSlotSeen
    <2>2. lastSlot # 0
      BY <1>4, <2>1
    <2>3. log[p].slot > lastSlot
      BY <1>2, <2>2 DEF IsRealtime
    <2> QED BY <1>4, <2>1, <2>3
  <1>6. CASE lives # 1
    <2>1. log[p].grpc
      BY <1>3, <1>6 DEF Sheltered
    <2> QED BY <1>3, <2>1 DEF Bookkeeping, GrpcIsNew
  <1> QED BY <1>5, <1>6

\* The historical blocks of a flush are backfill.
LEMMA HistoricalBackfilled ==
  ASSUME TypeOK, Bookkeeping, queue # <<>>, NEW p \in Historical
  PROVE  p \in 1..Len(log) /\ ~log[p].grpc
  <1>1. /\ Done \in Nat /\ Len(log) \in Nat /\ Done <= Len(log)
        /\ ToFlush = Done + 1 .. Done + FlushCount
        /\ FlushCount \in Nat /\ Done + FlushCount <= Len(log)
    BY DoneBounds, FlushRange DEF Bookkeeping
  <1>2. p \in ToFlush /\ ~IsRealtime(log[p])
    BY DEF Realtime, Historical
  <1>3. p \in 1..Len(log) /\ p > Done
    BY <1>1, <1>2
  <1>4. CASE lastSlot = 0
    BY <1>2, <1>3, <1>4 DEF IsRealtime
  <1>5. CASE lastSlot # 0
    <2>1. PICK o \in 1..Done : log[o].slot = lastSlot
      BY <1>5 DEF Bookkeeping, LastSlotSeen
    <2>2. o \in 1..Len(log) /\ o < p
      BY <1>1, <1>3
    <2>3. ~(log[p].slot > lastSlot)
      BY <1>2, <1>5 DEF IsRealtime
    <2>4. ~(log[o].slot < log[p].slot)
      BY <2>1, <2>3
    <2> QED BY <1>3, <2>2, <2>4 DEF Bookkeeping, GrpcIsNew
  <1> QED BY <1>4, <1>5

\* An account's updates in two sets of blocks; more blocks bring more.
LEMMA UpdatesOfUnion ==
  ASSUME NEW a, NEW O, NEW P
  PROVE  UpdatesOf(a, O \cup P) = UpdatesOf(a, O) \cup UpdatesOf(a, P)
  BY DEF UpdatesOf, UpdatesIn

LEMMA UpdatesOfMore ==
  ASSUME NEW a, NEW P, NEW O, O \subseteq P
  PROVE  UpdatesOf(a, O) \subseteq UpdatesOf(a, P)
  BY DEF UpdatesOf, UpdatesIn

LEMMA UpdatesOfTyped ==
  ASSUME TypeOK, NEW a, NEW O, O \subseteq 1..Len(log)
  PROVE  UpdatesOf(a, O) \in SUBSET Update
  BY UpdatesTyped DEF UpdatesOf

\* An account's updates in blocks of lower slots have lower ids.
LEMMA LowerSlotsLowerIds ==
  ASSUME TypeOK, NEW a, NEW O, O \subseteq 1..Len(log), NEW P, P \subseteq 1..Len(log),
         \A o \in O, p \in P : log[o].slot < log[p].slot,
         NEW u \in UpdatesOf(a, O), NEW v \in UpdatesOf(a, P)
  PROVE  u.id < v.id
  <1>1. PICK o \in O : u \in chain[log[o].slot]
    BY DEF UpdatesOf, UpdatesIn
  <1>2. PICK p \in P : v \in chain[log[p].slot]
    BY DEF UpdatesOf, UpdatesIn
  <1>3. log[o].slot \in 1..Len(chain) /\ log[p].slot \in 1..Len(chain)
    BY SlotsTyped
  <1>4. log[o].slot < log[p].slot
    OBVIOUS
  <1>5. EventIdsOrdered(chain)
    BY ChainsAssumption DEF TypeOK
  <1> QED BY <1>1, <1>2, <1>3, <1>4, <1>5 DEF EventIdsOrdered

\* An account with an update in a set of blocks has a last one.
LEMMA LastExists ==
  ASSUME TypeOK, NEW a, NEW O, O \subseteq 1..Len(log), UpdatesOf(a, O) # {}
  PROVE  \E u \in UpdatesOf(a, O) : \A v \in UpdatesOf(a, O) : v.id <= u.id
  <1> DEFINE f == [o \in O |-> chain[log[o].slot]]
             Blocks == {chain[log[o].slot] : o \in O}
  <1>1. IsFiniteSet(O)
    <2>1. Len(log) \in Nat
      BY DEF TypeOK
    <2>2. IsFiniteSet(1..Len(log))
      BY <2>1, FS_Interval
    <2> QED BY <2>2, FS_Subset
  <1>2. f \in Surjection(O, Blocks)
    BY DEF Surjection
  <1>3. IsFiniteSet(Blocks)
    <2> HIDE DEF f, Blocks
    <2> QED BY <1>1, <1>2, FS_Surjection
  <1>4. \A b \in Blocks : IsFiniteSet(b)
    <2>1. \A o \in O : log[o].slot \in 1..Len(chain)
      BY SlotsTyped
    <2>2. \A s \in 1..Len(chain) : IsFiniteSet(chain[s])
      BY ChainsAssumption DEF TypeOK
    <2> QED BY <2>1, <2>2
  <1>5. IsFiniteSet(UNION Blocks)
    <2> HIDE DEF Blocks
    <2> QED BY <1>3, <1>4, FS_UNION
  <1>6. UpdatesOf(a, O) \in SUBSET UNION Blocks
    BY DEF UpdatesOf, UpdatesIn
  <1>7. IsFiniteSet(UpdatesOf(a, O))
    <2> HIDE DEF Blocks
    <2> QED BY <1>5, <1>6, FS_Subset
  <1>8. UpdatesOf(a, O) \in SUBSET Update
    BY UpdatesOfTyped
  <1> QED BY <1>7, <1>8, LatestExists

\* InsertBalances writes the last update of each account that has one.
LEMMA WritesTheLast ==
  ASSUME TypeOK, NEW O, O \subseteq 1..Len(log)
  PROVE  LET W == ToUpdate(UpdatesIn(O)) \cup ToDelete(UpdatesIn(O))
         IN  /\ \A u \in W : u \in Last(u.acct, O)
             /\ \A u \in ToUpdate(UpdatesIn(O)) : ~u.zero
             /\ \A u \in ToDelete(UpdatesIn(O)) : u.zero
             /\ \A a : UpdatesOf(a, O) # {} => \E u \in W : u.acct = a
  <1> DEFINE W == ToUpdate(UpdatesIn(O)) \cup ToDelete(UpdatesIn(O))
  <1>1. W = LatestPerAccount(UpdatesIn(O))
    <2>1. UpdatesIn(O) \subseteq Update
      BY UpdatesTyped
    <2>2. \A u \in LatestPerAccount(UpdatesIn(O)) : u.zero \in BOOLEAN
      BY <2>1 DEF LatestPerAccount, Update
    <2> QED BY <2>2 DEF ToUpdate, ToDelete
  <1>2. \A u \in W : u \in Last(u.acct, O)
    BY <1>1 DEF LatestPerAccount, Last, UpdatesOf
  <1>3. ASSUME NEW a, UpdatesOf(a, O) # {}
        PROVE  \E u \in W : u.acct = a
    <2>1. PICK u \in UpdatesOf(a, O) : \A v \in UpdatesOf(a, O) : v.id <= u.id
      BY <1>3, LastExists
    <2>2. u \in LatestPerAccount(UpdatesIn(O)) /\ u.acct = a
      BY <2>1 DEF LatestPerAccount, UpdatesOf
    <2> QED BY <1>1, <2>2
  <1>4. /\ \A u \in ToUpdate(UpdatesIn(O)) : ~u.zero
        /\ \A u \in ToDelete(UpdatesIn(O)) : u.zero
    BY DEF ToUpdate, ToDelete
  <1> QED BY <1>2, <1>3, <1>4

-----------------------------------------------------------------------------
(* Offsets and slots                                                       *)

\* Steps that leave the blocks where they are.
Still == UNCHANGED <<chain, log, process, intake>>

LEMMA BookkeepingStill ==
  ASSUME Bookkeeping, Still, UNCHANGED committed
  PROVE  Bookkeeping'
  BY DEF Bookkeeping, OffsetsInOrder, GrpcIsNew, LastSlotSeen, Done, Still, process, intake

\* The end of a flush: its blocks are done.
LEMMA FlushEnds ==
  ASSUME TypeOK, OffsetsInOrder, queue # <<>>, EndOfFlush, received' = received
  PROVE  /\ Done' = Done + FlushCount
         /\ 1..Done' = 1..Done \cup ToFlush
         /\ \A i \in 1..Len(queue') : queue'[i] = Done' + i
  <1>1. /\ FlushCount \in Nat \ {0} /\ Done \in Nat
        /\ ToFlush = Done + 1 .. Done + FlushCount
        /\ Len(queue) \in Nat /\ received = Done + Len(queue) /\ received \in Nat
    BY DoneBounds, FlushRange
  <1>2. FlushCount \in 1..Len(queue)
    BY FlushedOffsets
  <1>3. queue \in Seq(1..Len(log)) /\ queue' = SubSeq(queue, FlushCount + 1, Len(queue))
    BY DEF TypeOK, EndOfFlush
  <1>4. Len(queue') = Len(queue) - FlushCount
    BY <1>1, <1>2, <1>3
  <1>5. Done' = Done + FlushCount
    BY <1>1, <1>4 DEF Done
  <1>6. ASSUME NEW i \in 1..Len(queue')
        PROVE  queue'[i] = Done' + i
    <2>1. queue'[i] = queue[FlushCount + i] /\ FlushCount + i \in 1..Len(queue)
      BY <1>1, <1>2, <1>3, <1>4
    <2>2. queue[FlushCount + i] = Done + (FlushCount + i)
      BY <2>1 DEF OffsetsInOrder
    <2> QED BY <1>1, <1>4, <1>5, <2>1, <2>2
  <1>7. 1..Done' = 1..Done \cup ToFlush
    BY <1>1, <1>5
  <1> QED BY <1>5, <1>6, <1>7

LEMMA BookkeepingAfterFlush ==
  ASSUME TypeOK, Bookkeeping, queue # <<>>, EndOfFlush,
         UNCHANGED <<chain, log, process, received>>,
         committed' \in {committed, queue[FlushCount]}
  PROVE  Bookkeeping'
  <1>1. /\ Done' = Done + FlushCount
        /\ 1..Done' = 1..Done \cup ToFlush
        /\ \A i \in 1..Len(queue') : queue'[i] = Done' + i
    BY FlushEnds DEF Bookkeeping
  <1>2. /\ FlushCount \in Nat /\ Done \in Nat /\ committed \in Nat /\ committed <= Done
        /\ queue[FlushCount] = Done + FlushCount
    BY DoneBounds, FlushRange DEF Bookkeeping
  <1>3. committed' <= Done'
    BY <1>1, <1>2
  <1>4. OffsetsInOrder'
    BY <1>1, <1>3 DEF Bookkeeping, OffsetsInOrder, process
  <1>5. GrpcIsNew'
    BY DEF Bookkeeping, GrpcIsNew
  <1>6. lastSlot' \in SlotsSeen /\ \A r \in SlotsSeen : r <= lastSlot'
    BY DEF EndOfFlush, HighestSlot
  <1>7. lastSlot' # 0 => \E o \in 1..Done' : log'[o].slot = lastSlot'
    BY <1>1, <1>6 DEF SlotsSeen, Bookkeeping, LastSlotSeen
  <1>8. ASSUME lives' = 1, NEW o \in 1..Done'
        PROVE  log'[o].slot <= lastSlot'
    <2>1. CASE o \in ToFlush
      BY <1>6, <2>1 DEF SlotsSeen
    <2>2. CASE o \in 1..Done
      <3>1. log[o].slot <= lastSlot /\ lastSlot <= lastSlot'
        BY <1>6, <1>8, <2>2 DEF SlotsSeen, Bookkeeping, LastSlotSeen, process
      <3>2. o \in 1..Len(log)
        BY <1>2, <2>2, DoneBounds DEF Bookkeeping
      <3>3. log[o].slot \in 1..Len(chain)
        BY <3>2, SlotsTyped
      <3>4. log[o].slot \in Nat /\ lastSlot \in Nat /\ lastSlot' \in Nat
        <4>1. Len(chain) \in Nat
          BY ChainsAssumption DEF TypeOK
        <4>2. lastSlot \in 0..Len(chain) /\ lastSlot' \in 0..Len(chain)
          BY EndOfFlushTyped DEF TypeOK
        <4> QED BY <3>3, <4>1, <4>2
      <3> QED BY <3>1, <3>4
    <2> QED BY <1>1, <1>8, <2>1, <2>2
  <1> QED BY <1>4, <1>5, <1>7, <1>8 DEF Bookkeeping, LastSlotSeen

LEMMA BookkeepingStep ==
  ASSUME TypeOK, FlushHasBlocks, Bookkeeping, [Next]_vars
  PROVE  Bookkeeping'
  <1> USE DEF Bookkeeping
  <1>0. /\ Done \in Nat /\ committed \in Nat /\ committed <= Done
        /\ received \in Nat /\ Done <= received
        /\ Len(log) \in Nat /\ received <= Len(log) /\ Len(queue) \in Nat
        /\ received = Done + Len(queue)
    BY DoneBounds
  <1>1. CASE Produce
    <2>1. PICK s \in 1..Len(chain), grpc \in BOOLEAN :
            /\ grpc => \A i \in 1..Len(log) : log[i].slot < s
            /\ log' = Append(log, [slot |-> s, grpc |-> grpc])
      BY <1>1 DEF Produce
    <2>2. Len(log') = Len(log) + 1
      BY <2>1 DEF TypeOK
    <2>3. \A i \in 1..Len(log) : log'[i] = log[i]
      BY <2>1 DEF TypeOK
    <2>4. log'[Len(log) + 1] = [slot |-> s, grpc |-> grpc]
      BY <1>0, <2>1 DEF TypeOK
    <2>5. Done' = Done
      BY <1>1 DEF Produce, intake, Done
    <2>6. OffsetsInOrder'
      <3>1. reached \in Nat
        BY DEF TypeOK
      <3> QED BY <1>0, <1>1, <2>2, <2>5, <3>1 DEF OffsetsInOrder, Produce, intake, process
    <2>7. ASSUME NEW i \in 1..Len(log'), NEW j \in 1..Len(log'), i < j, log'[j].grpc
          PROVE  log'[i].slot < log'[j].slot
      <3>1. i \in 1..Len(log)
        BY <1>0, <2>2, <2>7
      <3>2. CASE j \in 1..Len(log)
        BY <2>3, <2>7, <3>1, <3>2 DEF GrpcIsNew
      <3>3. CASE j = Len(log) + 1
        BY <2>1, <2>3, <2>4, <2>7, <3>1, <3>3
      <3> QED BY <1>0, <2>2, <3>2, <3>3
    <2>8. LastSlotSeen'
      <3>1. \A o \in 1..Done : log'[o] = log[o]
        BY <1>0, <2>3
      <3> QED BY <1>1, <2>5, <3>1 DEF LastSlotSeen, Produce, intake, process
    <2> QED BY <2>6, <2>7, <2>8 DEF GrpcIsNew
  <1>2. CASE Receive
    <2>1. /\ queue' = Append(queue, received + 1) /\ received' = received + 1
          /\ queue \in Seq(1..Len(log))
      BY <1>2 DEF Receive, TypeOK
    <2>2. Len(queue') = Len(queue) + 1 /\ queue'[Len(queue) + 1] = received + 1
      BY <2>1
    <2>3. Done' = Done
      BY <1>0, <2>1, <2>2 DEF Done
    <2>4. ASSUME NEW i \in 1..Len(queue')
          PROVE  queue'[i] = Done' + i
      <3>1. CASE i \in 1..Len(queue)
        BY <2>1, <2>3, <3>1 DEF OffsetsInOrder
      <3>2. CASE i = Len(queue) + 1
        BY <1>0, <2>2, <2>3, <3>2
      <3> QED BY <1>0, <2>2, <3>1, <3>2
    <2>5. OffsetsInOrder'
      BY <1>2, <2>3, <2>4 DEF OffsetsInOrder, Receive, broker, process
    <2> QED BY <1>2, <2>3, <2>5 DEF GrpcIsNew, LastSlotSeen, Receive, broker, process
  <1>3. CASE FlushNothing
    BY <1>3, BookkeepingAfterFlush DEF FlushNothing, broker
  <1>4. CASE CommitLastMessage
    BY <1>4, BookkeepingAfterFlush DEF CommitLastMessage, FlushHasBlocks
  <1>5. CASE StartFlush
    BY <1>5, BookkeepingStill DEF StartFlush, Still, broker
  <1>6. CASE StartHistorical
    BY <1>6, BookkeepingStill DEF StartHistorical, Still, broker
  <1>7. CASE SelectForUpdate
    BY <1>7, BookkeepingStill DEF SelectForUpdate, Still, broker
  <1>8. CASE SelectForDelete
    BY <1>8, BookkeepingStill DEF SelectForDelete, Still, broker
  <1>9. CASE UpsertRow
    BY <1>9, BookkeepingStill DEF UpsertRow, Still, broker
  <1>10. CASE DeleteRow
    BY <1>10, BookkeepingStill DEF DeleteRow, Still, broker
  <1>11. CASE Crash
    <2>1. Len(queue') = 0 /\ received' = committed /\ lastSlot' = 0
      BY <1>11 DEF Crash, StartOffset
    <2>2. Done' = committed
      BY <1>0, <2>1 DEF Done
    <2>3. lives' >= 1 /\ lives' # 1
      <3>1. lives \in Nat /\ lives' = lives + 1
        BY <1>11 DEF TypeOK, Crash
      <3> QED BY <3>1 DEF OffsetsInOrder
    <2>4. reached' <= Len(log)
      BY <1>0, <1>11 DEF Crash, OffsetsInOrder
    <2>5. OffsetsInOrder'
      BY <1>0, <1>11, <2>1, <2>2, <2>3, <2>4 DEF OffsetsInOrder, Crash, broker
    <2> QED BY <1>11, <2>1, <2>3, <2>5 DEF GrpcIsNew, LastSlotSeen, Crash, broker
  <1>12. CASE UNCHANGED vars
    BY <1>12, BookkeepingStill DEF vars, Still, broker
  <1> QED BY <1>1, <1>2, <1>3, <1>4, <1>5, <1>6, <1>7, <1>8, <1>9, <1>10, <1>11, <1>12
          DEF Next, WorkerStep

-----------------------------------------------------------------------------
(* What a step leaves of the blocks being brought in                       *)

\* While a flush goes on, and while blocks only arrive, an account's updates
\* before it and in it stay the same.
LEMMA Within ==
  ASSUME TypeOK, FlushHasBlocks, Bookkeeping, UNCHANGED <<chain, process, intake, phase>>,
         \A o \in 1..Len(log) : log'[o] = log[o], Len(log) <= Len(log'), Len(log') \in Nat,
         NEW a
  PROVE  /\ Base(a)' = Base(a) /\ Brought(a)' = Brought(a) /\ Earlier(a)' = Earlier(a)
         /\ BackfilledIds(a) \subseteq BackfilledIds(a)'
  <1>0. /\ Done \in Nat /\ Len(log) \in Nat /\ Done <= Len(log)
        /\ reached \in Nat /\ reached <= Len(log)
    BY DoneBounds DEF Bookkeeping, OffsetsInOrder, TypeOK
  <1>1. Done' = Done /\ FlushCount' = FlushCount /\ ToFlush' = ToFlush
    BY DEF Done, FlushCount, ToFlush, intake
  <1>2. queue # <<>> => ToFlush \subseteq 1..Len(log)
    BY FlushedOffsets
  <1>3. queue # <<>> => Realtime' = Realtime /\ Historical' = Historical
    <2> SUFFICES ASSUME queue # <<>>
                 PROVE  Realtime' = Realtime
      BY <1>1 DEF Historical
    <2>1. \A o \in ToFlush : log'[o] = log[o] /\ lastSlot' = lastSlot
      BY <1>2 DEF intake
    <2> QED BY <1>1, <2>1 DEF Realtime, IsRealtime
  <1>4. Flushing' = Flushing /\ Before' = Before
    BY <1>1, <1>3 DEF Flushing, Before, FlushHasBlocks
  <1>5. Flushing \subseteq 1..Len(log) /\ Before \subseteq 1..Len(log)
    BY <1>0, FlushedOffsets DEF Flushing, Before, FlushHasBlocks
  <1>6. Base(a)' = Base(a) /\ Brought(a)' = Brought(a)
    <2>1. \A o \in Flushing : chain'[log'[o].slot] = chain[log[o].slot]
      BY <1>5
    <2>2. \A o \in Before : chain'[log'[o].slot] = chain[log[o].slot]
      BY <1>5
    <2> QED BY <1>4, <2>1, <2>2 DEF Base, Brought, UpdatesOf, UpdatesIn
  <1>7. Earlier(a)' = Earlier(a)
    <2>1. \A o \in 1..reached : o \in 1..Len(log)
      BY <1>0
    <2>2. \A o \in 1..reached : chain'[log'[o].slot] = chain[log[o].slot]
      BY <2>1
    <2>3. reached' = reached
      BY DEF process
    <2> QED BY <2>2, <2>3 DEF Earlier, UpdatesOf, UpdatesIn
  <1>8. BackfilledIds(a) \subseteq BackfilledIds(a)'
    <2>1. 1..Len(log) \subseteq 1..Len(log')
      BY <1>0
    <2>2. \A o \in 1..Len(log) : log'[o] = log[o] /\ chain'[log'[o].slot] = chain[log[o].slot]
      OBVIOUS
    <2> DEFINE Ids == {o \in 1..Len(log) : ~log[o].grpc}
    <2>3. ASSUME NEW o \in Ids
          PROVE  /\ o \in 1..Len(log') /\ ~log'[o].grpc
                 /\ chain'[log'[o].slot] = chain[log[o].slot]
      BY <2>1, <2>2
    <2>4. ASSUME NEW u \in UpdatesOf(a, Ids)
          PROVE  u \in UpdatesOf(a, {o \in 1..Len(log) : ~log[o].grpc})'
      BY <2>3 DEF UpdatesOf, UpdatesIn
    <2> QED BY <2>4 DEF BackfilledIds
  <1> QED BY <1>6, <1>7, <1>8

LEMMA WithinStill ==
  ASSUME TypeOK, FlushHasBlocks, Bookkeeping, Still, phase' = phase, NEW a
  PROVE  /\ Base(a)' = Base(a) /\ Brought(a)' = Brought(a) /\ Earlier(a)' = Earlier(a)
         /\ BackfilledIds(a) \subseteq BackfilledIds(a)'
  <1>1. Len(log) \in Nat /\ Len(log') = Len(log)
    BY DEF TypeOK, Still
  <1> QED BY <1>1, Within DEF Still

\* The beginnings of the two halves of a flush.
LEMMA Begins ==
  ASSUME Still, NEW a
  PROVE  /\ phase' = "realtime" =>
              Base(a)' = UpdatesOf(a, 1..Done) /\ Brought(a)' = UpdatesOf(a, Realtime)
         /\ phase' = "historical" =>
              /\ Base(a)' = UpdatesOf(a, 1..Done \cup Realtime)
              /\ Brought(a)' = UpdatesOf(a, Historical)
         /\ Earlier(a)' = Earlier(a)
         /\ BackfilledIds(a)' = BackfilledIds(a)
  <1>1. Done' = Done /\ FlushCount' = FlushCount /\ ToFlush' = ToFlush
    BY DEF Done, FlushCount, ToFlush, intake, Still
  <1>2. Realtime' = Realtime /\ Historical' = Historical
    BY <1>1 DEF Realtime, Historical, IsRealtime, Still, intake
  <1>3. /\ phase' = "realtime" => Before' = 1..Done /\ Flushing' = Realtime
        /\ phase' = "historical" => Before' = 1..Done \cup Realtime /\ Flushing' = Historical
    BY <1>1, <1>2 DEF Before, Flushing
  <1>4. chain' = chain /\ log' = log /\ reached' = reached
    BY DEF Still, process
  <1> QED BY <1>3, <1>4 DEF Base, Brought, Earlier, BackfilledIds, UpdatesOf, UpdatesIn

\* The pending writes of an account are its last update brought in.
LEMMA WritingStep ==
  ASSUME Typed, Bookkeeping, Writing, [Next]_vars
  PROVE  Writing'
  <1> USE DEF Writing, Typed
  <1>1. ASSUME phase' = "idle", selecting' = {}, upserts' = {}, deletes' = {}
        PROVE  Writing'
    BY <1>1 DEF PendingFits, Selected
  <1>2. ASSUME Still, phase' = phase, selecting' \subseteq selecting,
               upserts' \subseteq upserts, deletes' \subseteq deletes
        PROVE  PendingFits'
    <2>1. \A a : Brought(a)' = Brought(a)
      BY <1>2, WithinStill
    <2> QED BY <1>2, <2>1 DEF PendingFits
  <1>3. CASE Produce
    <2>1. PICK b : log' = Append(log, b)
      BY <1>3 DEF Produce
    <2>2. /\ \A o \in 1..Len(log) : log'[o] = log[o]
          /\ Len(log) <= Len(log') /\ Len(log') \in Nat
      <3>1. log' = Append(log, b) /\ log \in Seq([slot: 1..Len(chain), grpc: BOOLEAN])
        BY <2>1 DEF TypeOK
      <3> QED BY <3>1
    <2>3. \A a : Brought(a)' = Brought(a)
      BY <1>3, <2>2, Within DEF Produce
    <2>4. PendingFits'
      BY <1>3, <2>3 DEF PendingFits, Produce, writers
    <2> QED BY <1>3, <2>4 DEF Selected, UpdateIfNewer, DeleteIfLater, Produce, writers
  <1>4. CASE Receive
    BY <1>1, <1>4 DEF Receive, writers, PendingFits
  <1>5. CASE FlushNothing
    BY <1>1, <1>5 DEF FlushNothing, EndOfFlush, writers, PendingFits
  <1>6. CASE StartFlush
    <2>1. Realtime \subseteq 1..Len(log)
      BY <1>6, FlushedOffsets DEF StartFlush
    <2>2. \A a : phase' = "realtime" => Brought(a)' = UpdatesOf(a, Realtime)
      BY <1>6, Begins DEF StartFlush, Still, broker
    <2>3. /\ upserts' = ToUpdate(UpdatesIn(Realtime)) /\ deletes' = ToDelete(UpdatesIn(Realtime))
          /\ phase' = "realtime" /\ selecting' = {}
      BY <1>6 DEF StartFlush, PendingFits
    <2>4. /\ \A u \in upserts' \cup deletes' : u \in Last(u.acct, Realtime)
          /\ \A u \in upserts' : ~u.zero
          /\ \A u \in deletes' : u.zero
      BY <2>1, <2>3, WritesTheLast
    <2>5. \A u \in upserts' \cup deletes' :
            u \in Brought(u.acct)' /\ \A v \in Brought(u.acct)' : v.id <= u.id
      BY <2>2, <2>3, <2>4 DEF Last
    <2> QED BY <2>3, <2>4, <2>5 DEF PendingFits, Selected
  <1>7. CASE StartHistorical
    <2>1. Historical \subseteq 1..Len(log)
      BY <1>7, FlushedOffsets DEF StartHistorical, FlushHasBlocks
    <2>2. \A a : phase' = "historical" => Brought(a)' = UpdatesOf(a, Historical)
      BY <1>7, Begins DEF StartHistorical, Still, broker
    <2>3. /\ upserts' = ToUpdate(UpdatesIn(Historical))
          /\ deletes' = ToDelete(UpdatesIn(Historical))
          /\ phase' = "historical" /\ selecting' = {"update", "delete"}
      BY <1>7 DEF StartHistorical
    <2>4. /\ \A u \in upserts' \cup deletes' : u \in Last(u.acct, Historical)
          /\ \A u \in upserts' : ~u.zero
          /\ \A u \in deletes' : u.zero
      BY <2>1, <2>3, WritesTheLast
    <2>5. \A u \in upserts' \cup deletes' :
            u \in Brought(u.acct)' /\ \A v \in Brought(u.acct)' : v.id <= u.id
      BY <2>2, <2>3, <2>4 DEF Last
    <2> QED BY <2>3, <2>4, <2>5 DEF PendingFits, Selected
  <1>8. CASE SelectForUpdate
    <2>1. PendingFits'
      BY <1>2, <1>8 DEF SelectForUpdate, Still, broker
    <2>2. Selected'
      BY <1>8 DEF SelectForUpdate, Selected, UpdateIfNewer, DeleteIfLater
    <2> QED BY <2>1, <2>2
  <1>9. CASE SelectForDelete
    <2>1. PendingFits'
      BY <1>2, <1>9 DEF SelectForDelete, Still, broker
    <2>2. Selected'
      BY <1>9 DEF SelectForDelete, Selected, UpdateIfNewer, DeleteIfLater
    <2> QED BY <2>1, <2>2
  <1>10. CASE UpsertRow
    <2>1. PICK u \in upserts : /\ table' = [table EXCEPT ![u.acct] = u.id]
                               /\ upserts' = upserts \ {u}
      BY <1>10 DEF UpsertRow
    <2>2. PendingFits'
      BY <1>2, <1>10, <2>1 DEF UpsertRow, Still, broker
    <2>3. upserts \cup deletes \subseteq Update /\ table \in [Accounts -> Nat]
      BY DEF TypeOK
    <2>4. ~u.zero /\ \A v \in deletes : v.zero
      BY DEF PendingFits
    <2>5. \A v \in upserts' \cup deletes : v.acct # u.acct /\ v.acct \in Accounts
      BY <2>1, <2>3, <2>4 DEF WritersDisjoint, Update
    <2>6. \A v \in upserts' \cup deletes : table'[v.acct] = table[v.acct]
      BY <2>1, <2>3, <2>5
    <2> QED BY <1>10, <2>1, <2>2, <2>6 DEF UpsertRow, Selected, UpdateIfNewer, DeleteIfLater
  <1>11. CASE DeleteRow
    <2>1. PICK u \in deletes : /\ table' = [table EXCEPT ![u.acct] = NoRow]
                               /\ deletes' = deletes \ {u}
      BY <1>11 DEF DeleteRow
    <2>2. PendingFits'
      BY <1>2, <1>11, <2>1 DEF DeleteRow, Still, broker
    <2>3. upserts \cup deletes \subseteq Update /\ table \in [Accounts -> Nat]
      BY DEF TypeOK
    <2>4. u.zero /\ \A v \in upserts : ~v.zero
      BY DEF PendingFits
    <2>5. \A v \in upserts \cup deletes' : v.acct # u.acct /\ v.acct \in Accounts
      BY <2>1, <2>3, <2>4 DEF WritersDisjoint, Update
    <2>6. \A v \in upserts \cup deletes' : table'[v.acct] = table[v.acct]
      BY <2>1, <2>3, <2>5
    <2> QED BY <1>11, <2>1, <2>2, <2>6 DEF DeleteRow, Selected, UpdateIfNewer, DeleteIfLater
  <1>12. CASE CommitLastMessage
    BY <1>1, <1>12 DEF CommitLastMessage, EndOfFlush, writers
  <1>13. CASE Crash
    BY <1>1, <1>13 DEF Crash
  <1>14. CASE UNCHANGED vars
    <2>1. PendingFits'
      BY <1>2, <1>14 DEF vars, Still, broker, writers
    <2> QED BY <1>14, <2>1 DEF vars, writers, Selected, UpdateIfNewer, DeleteIfLater
  <1> QED BY <1>3, <1>4, <1>5, <1>6, <1>7, <1>8, <1>9, <1>10, <1>11, <1>12, <1>13, <1>14
          DEF Next, WorkerStep

-----------------------------------------------------------------------------
(* Rows                                                                    *)

\* All updates in question are updates of the chain, of received blocks.
LEMMA SeenTyped ==
  ASSUME TypeOK, FlushHasBlocks, OffsetsInOrder, NEW a
  PROVE  /\ Before \cup Flushing \subseteq 1..received
         /\ Before \cup Flushing \cup 1..reached \subseteq 1..Len(log)
         /\ Base(a) \in SUBSET Update /\ Brought(a) \in SUBSET Update
         /\ Earlier(a) \in SUBSET Update
         /\ Given(a) \in SUBSET Update /\ Known(a) \in SUBSET Update
  <1>1. /\ Done \in Nat /\ received \in Nat /\ Done <= received
        /\ Len(log) \in Nat /\ received <= Len(log)
        /\ reached \in Nat /\ reached <= Len(log)
    BY DoneBounds DEF OffsetsInOrder, TypeOK
  <1>2. queue # <<>> => ToFlush \subseteq 1..received
    <2>1. queue # <<>> => /\ ToFlush = Done + 1 .. Done + FlushCount
                          /\ FlushCount \in Nat /\ Done + FlushCount <= received
      BY FlushRange
    <2> QED BY <1>1, <2>1
  <1>3. Before \cup Flushing \subseteq 1..received
    BY <1>1, <1>2, FlushSplit DEF Before, Flushing, FlushHasBlocks
  <1>4. 1..received \subseteq 1..Len(log) /\ 1..reached \subseteq 1..Len(log)
    BY <1>1
  <1>5. Before \cup Flushing \cup 1..reached \subseteq 1..Len(log)
    BY <1>3, <1>4
  <1>6. /\ Base(a) \in SUBSET Update /\ Brought(a) \in SUBSET Update
        /\ Earlier(a) \in SUBSET Update
    BY <1>5, UpdatesOfTyped DEF Base, Brought, Earlier
  <1> QED BY <1>3, <1>5, <1>6 DEF Given, Known

\* Who is sheltered after a step was sheltered before it.
LEMMA ShelteredBefore ==
  ASSUME TypeOK, OffsetsInOrder, [Next]_vars, Sheltered'
  PROVE  Sheltered
  <1>0. lives \in Nat /\ lives >= 1 /\ Len(log) \in Nat
    BY DEF TypeOK, OffsetsInOrder
  <1>1. lives' = 1 => lives = 1
    <2>1. lives' = lives \/ lives' = lives + 1
      BY DEF Next, WorkerStep, Produce, Receive, FlushNothing, StartFlush, StartHistorical,
             SelectForUpdate, SelectForDelete, UpsertRow, DeleteRow, CommitLastMessage,
             Crash, vars, process
    <2> QED BY <1>0, <2>1
  <1>2. \A i \in 1..Len(log) : i \in 1..Len(log') /\ log'[i] = log[i]
    <2>1. CASE Produce
      <3>1. PICK b : log' = Append(log, b)
        BY <2>1 DEF Produce
      <3>2. log \in Seq([slot: 1..Len(chain), grpc: BOOLEAN])
        BY DEF TypeOK
      <3> QED BY <3>1, <3>2
    <2>2. CASE log' = log
      BY <2>2
    <2> QED
      BY <2>1, <2>2
      DEF Next, WorkerStep, Receive, FlushNothing, StartFlush, StartHistorical,
          SelectForUpdate, SelectForDelete, UpsertRow, DeleteRow, CommitLastMessage,
          Crash, vars, broker
  <1> QED BY <1>1, <1>2 DEF Sheltered

\* When a step ends in an idle worker, what is given is what is done.
LEMMA IdleAfter ==
  ASSUME phase' = "idle", upserts' = {}, deletes' = {}, chain' = chain, log' = log, NEW a
  PROVE  Given(a)' = UpdatesOf(a, 1..Done')
  <1>1. ~Pending(a)'
    BY DEF Pending
  <1>2. Before' = 1..Done' /\ Flushing' = {}
    BY DEF Before, Flushing
  <1> QED BY <1>1, <1>2 DEF Given, Base, Brought, UpdatesOf, UpdatesIn

\* With nothing pending, what is given is what the phase has brought in.
LEMMA NothingPending ==
  ASSUME upserts = {}, deletes = {}, NEW a
  PROVE  /\ phase = "idle" => Given(a) = UpdatesOf(a, 1..Done)
         /\ phase = "realtime" => Given(a) = UpdatesOf(a, 1..Done \cup Realtime)
         /\ phase = "historical" => Given(a) = UpdatesOf(a, 1..Done \cup ToFlush)
  <1>1. ~Pending(a)
    BY DEF Pending
  <1>2. Given(a) = UpdatesOf(a, Before \cup Flushing)
    BY <1>1, UpdatesOfUnion DEF Given, Base, Brought
  <1>3. /\ phase = "idle" => Before \cup Flushing = 1..Done
        /\ phase = "realtime" => Before \cup Flushing = 1..Done \cup Realtime
        /\ phase = "historical" => Before \cup Flushing = 1..Done \cup ToFlush
    BY FlushSplit DEF Before, Flushing
  <1> QED BY <1>2, <1>3

\* While a flush goes on, a row is given the blocks brought in once its
\* account has nothing pending any more.
LEMMA Moves ==
  ASSUME TypeOK, FlushHasBlocks, Bookkeeping, Still, phase' = phase, NEW a
  PROVE  /\ (Pending(a)' <=> Pending(a)) => Given(a)' = Given(a) /\ Known(a)' = Known(a)
         /\ Pending(a) /\ ~Pending(a)' =>
              /\ Given(a) = Base(a)
              /\ Given(a)' = Given(a) \cup Brought(a)
              /\ Known(a) \cup Brought(a) \subseteq Known(a)'
  <1>1. Base(a)' = Base(a) /\ Brought(a)' = Brought(a) /\ Earlier(a)' = Earlier(a)
    BY WithinStill
  <1>2. /\ Given(a)' = IF Pending(a)' THEN Base(a) ELSE Base(a) \cup Brought(a)
        /\ Known(a)' = Given(a)' \cup Earlier(a)
    BY <1>1 DEF Given, Known
  <1>3. /\ Given(a) = IF Pending(a) THEN Base(a) ELSE Base(a) \cup Brought(a)
        /\ Known(a) = Given(a) \cup Earlier(a)
    BY DEF Given, Known
  <1> QED BY <1>2, <1>3

\* The row of an account that has nothing to do with a step.
LEMMA Undisturbed ==
  ASSUME TypeOK, FlushHasBlocks, Bookkeeping, Still, phase' = phase, NEW a,
         FitsRow(table[a], Given(a), Known(a), BackfilledIds(a)),
         table'[a] = table[a], Pending(a)' <=> Pending(a)
  PROVE  FitsRow(table'[a], Given(a)', Known(a)', BackfilledIds(a)')
  <1>1. Given(a)' = Given(a) /\ Known(a)' = Known(a)
    BY Moves
  <1>2. BackfilledIds(a) \subseteq BackfilledIds(a)'
    BY WithinStill
  <1> QED BY <1>1, <1>2, FitsMore

\* The row of an account whose pending write is dropped, or done.
LEMMA Resolved ==
  ASSUME TypeOK, FlushHasBlocks, Bookkeeping, Still, phase' = phase, NEW a,
         Pending(a), ~Pending(a)',
         FitsRow(table'[a], Given(a) \cup Brought(a), Known(a) \cup Brought(a), BackfilledIds(a))
  PROVE  FitsRow(table'[a], Given(a)', Known(a)', BackfilledIds(a)')
  <1>1. /\ Given(a)' = Given(a) \cup Brought(a)
        /\ Known(a) \cup Brought(a) \subseteq Known(a)'
    BY Moves
  <1>2. BackfilledIds(a) \subseteq BackfilledIds(a)'
    BY WithinStill
  <1> QED BY <1>1, <1>2, FitsMore

\* A realtime write is newer than what the row had been given.
LEMMA RealtimeWrite ==
  ASSUME TypeOK, FlushHasBlocks, Bookkeeping, Sheltered, phase = "realtime",
         NEW u \in upserts \cup deletes,
         NEW v \in Base(u.acct), u \in Brought(u.acct)
  PROVE  v.id < u.id
  <1>1. queue # <<>>
    BY DEF FlushHasBlocks
  <1>2. v \in UpdatesOf(u.acct, 1..Done) /\ u \in UpdatesOf(u.acct, Realtime)
    BY DEF Base, Brought, Before, Flushing
  <1>3. \A o \in 1..Done, p \in Realtime : log[o].slot < log[p].slot
    BY <1>1, RealtimeNewer
  <1>4. 1..Done \subseteq 1..Len(log) /\ Realtime \subseteq 1..Len(log)
    BY <1>1, DoneBounds, FlushedOffsets DEF Bookkeeping
  <1> QED BY <1>2, <1>3, <1>4, LowerSlotsLowerIds

\* A historical update is backfilled.
LEMMA HistoricalWrite ==
  ASSUME TypeOK, FlushHasBlocks, Bookkeeping, phase = "historical",
         NEW u \in upserts, u \in Brought(u.acct), ~u.zero
  PROVE  u.id \in BackfilledIds(u.acct)
  <1>1. queue # <<>>
    BY DEF FlushHasBlocks
  <1>2. Historical \subseteq {o \in 1..Len(log) : ~log[o].grpc}
    BY <1>1, HistoricalBackfilled
  <1>3. u \in UpdatesOf(u.acct, Historical)
    BY DEF Brought, Flushing
  <1>4. u \in UpdatesOf(u.acct, {o \in 1..Len(log) : ~log[o].grpc})
    BY <1>2, <1>3, UpdatesOfMore
  <1> QED BY <1>4 DEF BackfilledIds

\* Writing a pending update leaves its row fitting, and touches no other.
LEMMA ReflectedUpsert ==
  ASSUME Typed, Bookkeeping, Writing, Sheltered, UpsertRow, NEW a \in Accounts,
         FitsRow(table[a], Given(a), Known(a), BackfilledIds(a))
  PROVE  FitsRow(table'[a], Given(a)', Known(a)', BackfilledIds(a)')
  <1> USE DEF Typed, Writing
  <1>1. PICK u \in upserts : /\ table' = [table EXCEPT ![u.acct] = u.id]
                             /\ upserts' = upserts \ {u}
    BY DEF UpsertRow
  <1>2. /\ Still /\ phase' = phase /\ deletes' = deletes /\ "update" \notin selecting
        /\ table \in [Accounts -> Nat] /\ upserts \subseteq Update
    BY DEF UpsertRow, Still, broker, TypeOK
  <1>3. /\ ~u.zero /\ u \in Brought(u.acct) /\ \A v \in Brought(u.acct) : v.id <= u.id
        /\ u.id \in Nat /\ u.zero \in BOOLEAN
    BY <1>2 DEF PendingFits, Update
  <1>4. /\ Base(a) \in SUBSET Update /\ Brought(a) \in SUBSET Update
        /\ Known(a) \in SUBSET Update
    BY SeenTyped DEF Bookkeeping
  <1>5. CASE u.acct # a
    <2>1. table'[a] = table[a]
      BY <1>1, <1>2, <1>5
    <2>2. Pending(a)' <=> Pending(a)
      BY <1>1, <1>2, <1>5 DEF Pending
    <2> QED BY <1>2, <2>1, <2>2, Undisturbed
  <1>6. CASE u.acct = a
    <2>1. table'[a] = u.id
      BY <1>1, <1>2, <1>6
    <2>2. Pending(a) /\ ~Pending(a)'
      <3>1. u \notin deletes
        BY <1>3 DEF PendingFits
      <3>2. \A v \in upserts' \cup deletes' : v \in upserts \cup deletes /\ v # u
        BY <1>1, <1>2, <3>1
      <3>3. \A v \in upserts \cup deletes : v.acct = a => v = u
        BY <1>6 DEF WritersDisjoint
      <3> QED BY <1>6, <3>2, <3>3 DEF Pending
    <2>3. Given(a) = Base(a)
      BY <1>2, <2>2, Moves
    <2>4. CASE phase = "realtime"
      <3>1. \A v \in Base(a) : v.id <= u.id
        <4> SUFFICES ASSUME NEW v \in Base(a) PROVE v.id <= u.id
          OBVIOUS
        <4>1. v.id < u.id
          BY <1>3, <1>6, <2>4, RealtimeWrite
        <4> QED BY <1>3, <1>4, <4>1 DEF Update
      <3>2. FitsRow(IF u.zero THEN NoRow ELSE u.id, Base(a) \cup Brought(a),
                    Known(a) \cup Brought(a), BackfilledIds(a))
        BY <1>3, <1>4, <1>6, <3>1, FitsNewest
      <3> QED BY <1>2, <1>3, <2>1, <2>2, <2>3, <3>2, Resolved
    <2>5. CASE phase = "historical"
      <3>1. table[a] = NoRow \/ u.id > table[a]
        BY <1>2, <1>6, <2>5 DEF Selected, UpdateIfNewer
      <3>2. u.id \in BackfilledIds(a)
        BY <1>3, <1>6, <2>5, HistoricalWrite
      <3>3. FitsRow(u.id, Base(a) \cup Brought(a), Known(a) \cup Brought(a), BackfilledIds(a))
        <4>1. table[a] \in Nat
          BY <1>2
        <4>2. u \in Brought(a) /\ \A v \in Brought(a) : v.id <= u.id
          BY <1>3, <1>6
        <4>3. FitsRow(table[a], Base(a), Known(a), BackfilledIds(a))
          BY <2>3
        <4> QED BY <1>3, <1>4, <3>1, <3>2, <4>1, <4>2, <4>3, FitsUpsert
      <3> QED BY <1>2, <2>1, <2>2, <2>3, <3>3, Resolved
    <2>6. phase \in {"realtime", "historical"}
      BY DEF TypeOK, PendingFits
    <2> QED BY <2>4, <2>5, <2>6
  <1> QED BY <1>5, <1>6

LEMMA ReflectedDelete ==
  ASSUME Typed, Bookkeeping, Writing, Sheltered, DeleteRow, NEW a \in Accounts,
         FitsRow(table[a], Given(a), Known(a), BackfilledIds(a))
  PROVE  FitsRow(table'[a], Given(a)', Known(a)', BackfilledIds(a)')
  <1> USE DEF Typed, Writing
  <1>1. PICK u \in deletes : /\ table' = [table EXCEPT ![u.acct] = NoRow]
                             /\ deletes' = deletes \ {u}
    BY DEF DeleteRow
  <1>2. /\ Still /\ phase' = phase /\ upserts' = upserts /\ "delete" \notin selecting
        /\ table \in [Accounts -> Nat] /\ deletes \subseteq Update
    BY DEF DeleteRow, Still, broker, TypeOK
  <1>3. /\ u.zero /\ u \in Brought(u.acct) /\ \A v \in Brought(u.acct) : v.id <= u.id
        /\ u.id \in Nat
    BY <1>2 DEF PendingFits, Update
  <1>4. /\ Base(a) \in SUBSET Update /\ Brought(a) \in SUBSET Update
        /\ Known(a) \in SUBSET Update
    BY SeenTyped DEF Bookkeeping
  <1>5. CASE u.acct # a
    <2>1. table'[a] = table[a]
      BY <1>1, <1>2, <1>5
    <2>2. Pending(a)' <=> Pending(a)
      BY <1>1, <1>2, <1>5 DEF Pending
    <2> QED BY <1>2, <2>1, <2>2, Undisturbed
  <1>6. CASE u.acct = a
    <2>1. table'[a] = NoRow
      BY <1>1, <1>2, <1>6
    <2>2. Pending(a) /\ ~Pending(a)'
      <3>1. u \notin upserts
        BY <1>3 DEF PendingFits
      <3>2. \A v \in upserts' \cup deletes' : v \in upserts \cup deletes /\ v # u
        BY <1>1, <1>2, <3>1
      <3>3. \A v \in upserts \cup deletes : v.acct = a => v = u
        BY <1>6 DEF WritersDisjoint
      <3> QED BY <1>6, <3>2, <3>3 DEF Pending
    <2>3. Given(a) = Base(a)
      BY <1>2, <2>2, Moves
    <2>4. CASE phase = "realtime"
      <3>1. \A v \in Base(a) : v.id <= u.id
        <4> SUFFICES ASSUME NEW v \in Base(a) PROVE v.id <= u.id
          OBVIOUS
        <4>1. v.id < u.id
          BY <1>3, <1>6, <2>4, RealtimeWrite
        <4> QED BY <1>3, <1>4, <4>1 DEF Update
      <3>2. FitsRow(IF u.zero THEN NoRow ELSE u.id, Base(a) \cup Brought(a),
                    Known(a) \cup Brought(a), BackfilledIds(a))
        BY <1>3, <1>4, <1>6, <3>1, FitsNewest
      <3> QED BY <1>2, <1>3, <2>1, <2>2, <2>3, <3>2, Resolved
    <2>5. CASE phase = "historical"
      <3>1. u.id >= table[a]
        BY <1>2, <1>6, <2>5 DEF Selected, DeleteIfLater
      <3>2. FitsRow(NoRow, Base(a) \cup Brought(a), Known(a) \cup Brought(a), BackfilledIds(a))
        <4>1. table[a] \in Nat
          BY <1>2
        <4> QED BY <1>3, <1>4, <1>6, <2>3, <3>1, <4>1, FitsDelete
      <3> QED BY <1>2, <2>1, <2>2, <2>3, <3>2, Resolved
    <2>6. phase \in {"realtime", "historical"}
      BY DEF TypeOK, PendingFits
    <2> QED BY <2>4, <2>5, <2>6
  <1> QED BY <1>5, <1>6

\* A pending update that the filter drops was already reflected.
LEMMA ReflectedSelect ==
  ASSUME Typed, Bookkeeping, Writing, SelectForUpdate \/ SelectForDelete, NEW a \in Accounts,
         FitsRow(table[a], Given(a), Known(a), BackfilledIds(a))
  PROVE  FitsRow(table'[a], Given(a)', Known(a)', BackfilledIds(a)')
  <1> USE DEF Typed, Writing
  <1>1. /\ Still /\ phase' = phase /\ table' = table
        /\ upserts' \subseteq upserts /\ deletes' \subseteq deletes
        /\ table[a] \in Nat
    BY DEF SelectForUpdate, SelectForDelete, Still, broker, TypeOK
  <1>2. /\ Base(a) \in SUBSET Update /\ Brought(a) \in SUBSET Update
        /\ Known(a) \in SUBSET Update
    BY SeenTyped DEF Bookkeeping
  <1>3. CASE Pending(a)' <=> Pending(a)
    BY <1>1, <1>3, Undisturbed
  <1>4. CASE Pending(a) /\ ~Pending(a)'
    <2>1. PICK u \in upserts \cup deletes : u.acct = a
      BY <1>4 DEF Pending
    <2>2. u \notin upserts' /\ u \notin deletes'
      BY <1>4, <2>1 DEF Pending
    <2>3. \/ u \in upserts /\ ~UpdateIfNewer(u)
          \/ u \in deletes /\ ~DeleteIfLater(u)
      BY <2>1, <2>2 DEF SelectForUpdate, SelectForDelete
    <2>4. /\ u \in Brought(a) /\ \A v \in Brought(a) : v.id <= u.id
          /\ u \in deletes => u.zero
      BY <2>1 DEF PendingFits
    <2>5. u.id \in Nat
      BY <1>2, <2>4 DEF Update
    <2>6. u.id <= table[a] \/ (u.zero /\ table[a] = NoRow)
      BY <1>1, <2>1, <2>3, <2>4, <2>5 DEF UpdateIfNewer, DeleteIfLater
    <2>7. Given(a) = Base(a)
      BY <1>1, <1>4, Moves
    <2>8. FitsRow(table[a], Base(a) \cup Brought(a), Known(a) \cup Brought(a), BackfilledIds(a))
      BY <1>1, <1>2, <2>4, <2>6, <2>7, FitsDropped
    <2> QED BY <1>1, <1>4, <2>7, <2>8, Resolved
  <1>5. Pending(a)' => Pending(a)
    BY <1>1 DEF Pending
  <1> QED BY <1>3, <1>4, <1>5

\* With a new half of a flush, the rows without a pending write have nothing
\* to be given: an account with updates in it has one pending.
LEMMA ReflectedStart ==
  ASSUME Typed, Bookkeeping, Writing, StartFlush \/ StartHistorical, NEW a \in Accounts,
         FitsRow(table[a], Given(a), Known(a), BackfilledIds(a))
  PROVE  FitsRow(table'[a], Given(a)', Known(a)', BackfilledIds(a)')
  <1> USE DEF Typed, Writing
  <1>1. Still /\ table' = table /\ queue # <<>> /\ upserts = {} /\ deletes = {}
    BY DEF StartFlush, StartHistorical, Still, broker, FlushHasBlocks, PendingFits
  <1>2. Earlier(a)' = Earlier(a) /\ BackfilledIds(a)' = BackfilledIds(a)
    BY <1>1, Begins
  <1>3. Realtime \subseteq 1..Len(log) /\ Historical \subseteq 1..Len(log)
    BY <1>1, FlushedOffsets
  <1>4. Base(a)' = Given(a)
    BY <1>1, Begins, NothingPending DEF StartFlush, StartHistorical
  <1>5. Pending(a)' \/ Brought(a)' = {}
    <2>1. CASE StartFlush
      <3>1. Brought(a)' = UpdatesOf(a, Realtime)
        BY <1>1, <2>1, Begins DEF StartFlush
      <3>2. UpdatesOf(a, Realtime) # {} => \E u \in upserts' \cup deletes' : u.acct = a
        BY <1>3, <2>1, WritesTheLast DEF StartFlush
      <3> QED BY <3>1, <3>2 DEF Pending
    <2>2. CASE StartHistorical
      <3>1. Brought(a)' = UpdatesOf(a, Historical)
        BY <1>1, <2>2, Begins DEF StartHistorical
      <3>2. UpdatesOf(a, Historical) # {} => \E u \in upserts' \cup deletes' : u.acct = a
        BY <1>3, <2>2, WritesTheLast DEF StartHistorical
      <3> QED BY <3>1, <3>2 DEF Pending
    <2> QED BY <2>1, <2>2
  <1>6. Given(a)' = Given(a) /\ Known(a)' = Known(a)
    BY <1>2, <1>4, <1>5 DEF Given, Known
  <1> QED BY <1>1, <1>2, <1>6

\* At the end of a flush its blocks are done, and were given.
LEMMA ReflectedEnd ==
  ASSUME Typed, Bookkeeping, Writing, FlushNothing \/ CommitLastMessage, NEW a \in Accounts,
         FitsRow(table[a], Given(a), Known(a), BackfilledIds(a))
  PROVE  FitsRow(table'[a], Given(a)', Known(a)', BackfilledIds(a)')
  <1> USE DEF Typed, Writing
  <1>1. /\ queue # <<>> /\ EndOfFlush /\ received' = received /\ table' = table
        /\ chain' = chain /\ log' = log /\ reached' = reached
        /\ upserts = {} /\ deletes = {} /\ upserts' = {} /\ deletes' = {} /\ phase' = "idle"
    BY DEF FlushNothing, CommitLastMessage, EndOfFlush, FlushHasBlocks, PendingFits,
           broker, process, writers
  <1>2. 1..Done' = 1..Done \cup ToFlush
    BY <1>1, FlushEnds DEF Bookkeeping
  <1>3. Given(a)' = UpdatesOf(a, 1..Done \cup ToFlush)
    BY <1>1, <1>2, IdleAfter
  <1>4. UpdatesOf(a, 1..Done \cup ToFlush) = Given(a)
    <2>1. CASE FlushNothing
      <3>1. UpdatesOf(a, ToFlush) = {}
        BY <2>1 DEF FlushNothing, UpdatesOf
      <3>2. Given(a) = UpdatesOf(a, 1..Done)
        BY <1>1, <2>1, NothingPending DEF FlushNothing
      <3>3. UpdatesOf(a, 1..Done \cup ToFlush) = UpdatesOf(a, 1..Done) \cup UpdatesOf(a, ToFlush)
        BY DEF UpdatesOf, UpdatesIn
      <3> QED BY <3>1, <3>2, <3>3
    <2>2. CASE CommitLastMessage
      BY <1>1, <2>2, NothingPending DEF CommitLastMessage
    <2> QED BY <2>1, <2>2
  <1>5. Earlier(a)' = Earlier(a) /\ BackfilledIds(a)' = BackfilledIds(a)
    BY <1>1 DEF Earlier, BackfilledIds, UpdatesOf, UpdatesIn
  <1>6. Known(a)' = Known(a)
    BY <1>3, <1>4, <1>5 DEF Known
  <1> QED BY <1>1, <1>3, <1>4, <1>5, <1>6

\* A new life is given what is committed, and knows what the last received.
LEMMA ReflectedCrash ==
  ASSUME Typed, Bookkeeping, Writing, Crash, NEW a \in Accounts,
         FitsRow(table[a], Given(a), Known(a), BackfilledIds(a))
  PROVE  FitsRow(table'[a], Given(a)', Known(a)', BackfilledIds(a)')
  <1> USE DEF Typed, Writing
  <1>1. /\ chain' = chain /\ log' = log /\ table' = table
        /\ upserts' = {} /\ deletes' = {} /\ phase' = "idle"
        /\ received' = committed /\ Len(queue') = 0
        /\ reached' = IF reached < received THEN received ELSE reached
    BY DEF Crash, broker, StartOffset
  <1>2. /\ Done \in Nat /\ committed \in Nat /\ committed <= Done
        /\ received \in Nat /\ reached \in Nat
    BY DoneBounds DEF Bookkeeping, TypeOK
  <1>3. Done' = committed
    BY <1>1, <1>2 DEF Done
  <1>4. Given(a)' = UpdatesOf(a, 1..committed)
    BY <1>1, <1>3, IdleAfter
  <1>5. Given(a)' \subseteq Given(a)
    <2>1. 1..committed \subseteq Before
      BY <1>2 DEF Before
    <2>2. UpdatesOf(a, 1..committed) \subseteq Base(a)
      BY <2>1, UpdatesOfMore DEF Base
    <2> QED BY <1>4, <2>2 DEF Given
  <1>6. Known(a) \subseteq Known(a)'
    <2>1. Before \cup Flushing \subseteq 1..received
      BY SeenTyped DEF Bookkeeping
    <2>2. 1..received \subseteq 1..reached' /\ 1..reached \subseteq 1..reached'
      BY <1>1, <1>2
    <2>3. Before \subseteq 1..reached' /\ Flushing \subseteq 1..reached'
      BY <2>1, <2>2
    <2>4. /\ Base(a) \subseteq UpdatesOf(a, 1..reached')
          /\ Brought(a) \subseteq UpdatesOf(a, 1..reached')
          /\ Earlier(a) \subseteq UpdatesOf(a, 1..reached')
      BY <2>2, <2>3, UpdatesOfMore DEF Base, Brought, Earlier
    <2>5. Earlier(a)' = UpdatesOf(a, 1..reached')
      BY <1>1 DEF Earlier, UpdatesOf, UpdatesIn
    <2> QED BY <2>4, <2>5 DEF Known, Given
  <1>7. BackfilledIds(a)' = BackfilledIds(a)
    BY <1>1 DEF BackfilledIds, UpdatesOf, UpdatesIn
  <1> QED BY <1>1, <1>5, <1>6, <1>7, FitsMore

LEMMA ReflectedStep ==
  ASSUME Typed, Bookkeeping, Writing, Reflected, [Next]_vars
  PROVE  Reflected'
  <1> USE DEF Typed, Writing
  <1>0. SUFFICES ASSUME Sheltered', NEW a \in Accounts
                 PROVE  FitsRow(table'[a], Given(a)', Known(a)', BackfilledIds(a)')
    BY DEF Reflected
  <1>1. Sheltered
    BY <1>0, ShelteredBefore DEF Bookkeeping
  <1>2. FitsRow(table[a], Given(a), Known(a), BackfilledIds(a))
    BY <1>1 DEF Reflected
  <1>3. CASE Produce
    <2>1. PICK b : log' = Append(log, b)
      BY <1>3 DEF Produce
    <2>2. /\ \A o \in 1..Len(log) : log'[o] = log[o]
          /\ Len(log) <= Len(log') /\ Len(log') \in Nat
      <3>1. log' = Append(log, b) /\ log \in Seq([slot: 1..Len(chain), grpc: BOOLEAN])
        BY <2>1 DEF TypeOK
      <3> QED BY <3>1
    <2>3. /\ Base(a)' = Base(a) /\ Brought(a)' = Brought(a) /\ Earlier(a)' = Earlier(a)
          /\ BackfilledIds(a) \subseteq BackfilledIds(a)'
      BY <1>3, <2>2, Within DEF Produce
    <2>4. Given(a)' = Given(a) /\ Known(a)' = Known(a)
      BY <1>3, <2>3 DEF Given, Known, Pending, Produce, writers
    <2> QED BY <1>2, <1>3, <2>3, <2>4, FitsMore DEF Produce
  <1>4. CASE Receive
    <2>1. /\ chain' = chain /\ log' = log /\ table' = table /\ reached' = reached
          /\ phase = "idle" /\ phase' = "idle" /\ upserts = {} /\ deletes = {}
          /\ upserts' = {} /\ deletes' = {}
      BY <1>4 DEF Receive, broker, process, writers, PendingFits
    <2>2. Done' = Done
      <3>1. /\ queue' = Append(queue, received + 1) /\ received' = received + 1
            /\ queue \in Seq(1..Len(log)) /\ received \in Nat /\ Len(queue) \in Nat
        BY <1>4, DoneBounds DEF Receive, TypeOK, Bookkeeping
      <3>2. Len(queue') = Len(queue) + 1
        BY <3>1
      <3> QED BY <3>1, <3>2 DEF Done
    <2>3. Given(a)' = Given(a)
      BY <2>1, <2>2, IdleAfter, NothingPending
    <2>4. Earlier(a)' = Earlier(a) /\ BackfilledIds(a)' = BackfilledIds(a)
      BY <2>1 DEF Earlier, BackfilledIds, UpdatesOf, UpdatesIn
    <2> QED BY <1>2, <2>1, <2>3, <2>4 DEF Known
  <1>5. CASE FlushNothing \/ CommitLastMessage
    BY <1>2, <1>5, ReflectedEnd
  <1>6. CASE StartFlush \/ StartHistorical
    BY <1>2, <1>6, ReflectedStart
  <1>7. CASE SelectForUpdate \/ SelectForDelete
    BY <1>2, <1>7, ReflectedSelect
  <1>8. CASE UpsertRow
    BY <1>1, <1>2, <1>8, ReflectedUpsert
  <1>9. CASE DeleteRow
    BY <1>1, <1>2, <1>9, ReflectedDelete
  <1>10. CASE Crash
    BY <1>2, <1>10, ReflectedCrash
  <1>11. CASE UNCHANGED vars
    <2>1. Still /\ phase' = phase /\ table' = table /\ (Pending(a)' <=> Pending(a))
      BY <1>11 DEF vars, Still, broker, writers, Pending
    <2> QED BY <1>2, <2>1, Undisturbed
  <1> QED BY <1>3, <1>4, <1>5, <1>6, <1>7, <1>8, <1>9, <1>10, <1>11 DEF Next, WorkerStep

-----------------------------------------------------------------------------
(* The invariant and the theorems                                          *)

LEMMA IInvInit == Init => IInv
  <1> SUFFICES ASSUME Init PROVE IInv
    OBVIOUS
  <1>1. Typed
    BY TypedInit
  <1>2. Len(queue) = 0 /\ Done = 0 /\ Len(log) = 0
    <2>1. queue = <<>> /\ log = <<>> /\ received = 0
      BY DEF Init
    <2>2. Len(queue) = 0 /\ Len(log) = 0
      BY <2>1
    <2>3. received = 0 /\ Len(queue) = 0
      BY <2>1, <2>2
    <2>4. Done = 0
      BY ONLY <2>3 DEF Done
    <2> QED BY <2>2, <2>4
  <1>3. Bookkeeping
    BY <1>2 DEF Init, Bookkeeping, OffsetsInOrder, GrpcIsNew, LastSlotSeen
  <1>4. Writing
    BY DEF Init, Writing, PendingFits, Selected
  <1>5. Reflected
    <2> SUFFICES ASSUME NEW a \in Accounts
                 PROVE  FitsRow(table[a], Given(a), Known(a), BackfilledIds(a))
      BY DEF Reflected
    <2>1. table[a] = NoRow /\ upserts = {} /\ deletes = {} /\ phase = "idle"
      BY DEF Init
    <2>2. Given(a) = UpdatesOf(a, 1..Done)
      BY <2>1, NothingPending
    <2>3. UpdatesOf(a, 1..Done) = {}
      BY <1>2 DEF UpdatesOf, UpdatesIn
    <2> QED BY <2>1, <2>2, <2>3 DEF FitsRow
  <1> QED BY <1>1, <1>3, <1>4, <1>5 DEF IInv

LEMMA IInvStep ==
  ASSUME IInv, [Next]_vars
  PROVE  IInv'
  <1>1. Typed'
    BY TypedStep DEF IInv
  <1>2. Bookkeeping'
    BY BookkeepingStep DEF IInv, Typed
  <1>3. Writing'
    BY WritingStep DEF IInv
  <1>4. Reflected'
    BY ReflectedStep DEF IInv
  <1> QED BY <1>1, <1>2, <1>3, <1>4 DEF IInv

THEOREM Inductive == Spec => []IInv
  BY IInvInit, IInvStep, PTL DEF Spec

\* The variables keep their types; no offset lies beyond the log (TypeOK).
THEOREM TypeCorrect == Spec => []TypeOK
  <1>1. IInv => TypeOK BY DEF IInv, Typed
  <1> QED BY <1>1, Inductive, PTL

\* The goroutines and the rows of a running InsertBalances never meet on an
\* account, for every chain whose event ids are unique and ordered by slot.
THEOREM Disjoint == Spec => []WritersDisjoint
  <1>1. IInv => WritersDisjoint BY DEF IInv, Typed
  <1> QED BY <1>1, Inductive, PTL

\* All that is known of an account is in the log.
LEMMA KnownInLog ==
  ASSUME IInv, NEW a
  PROVE  Known(a) \subseteq UpdatesOf(a, 1..Len(log))
  <1>1. Before \cup Flushing \cup 1..reached \subseteq 1..Len(log)
    BY SeenTyped DEF IInv, Typed, Bookkeeping
  <1> QED BY <1>1 DEF Known, Given, Base, Brought, Earlier, UpdatesOf, UpdatesIn

\* A row with the id of a backfilled update has come back.
LEMMA BackfilledResurrects ==
  ASSUME NEW a, table[a] \in BackfilledIds(a)
  PROVE  Resurrected(a)
  BY DEF BackfilledIds, Resurrected, UpdatesOf, UpdatesIn

\* The committed updates of an account are given to its row, also while a
\* flush is going on; so no row is older than the last of them, unless a
\* later update has emptied the account (CommittedReflected).
THEOREM CommittedIsReflected == Spec => []CommittedReflected
  <1>1. ASSUME IInv
        PROVE  CommittedReflected
    <2> SUFFICES ASSUME Sheltered, NEW a \in Accounts, NEW u \in Last(a, 1..committed)
                 PROVE  \/ table[a] >= u.id
                        \/ /\ \E v \in UpdatesOf(a, 1..Len(log)) : v.zero /\ v.id >= u.id
                           /\ table[a] = NoRow \/ Resurrected(a)
      BY DEF CommittedReflected, Reflects
    <2>1. FitsRow(table[a], Given(a), Known(a), BackfilledIds(a))
      BY <1>1 DEF IInv, Reflected
    <2>2. u \in Given(a)
      <3>1. 1..committed \subseteq 1..Done
        BY <1>1, DoneBounds DEF IInv, Typed, Bookkeeping
      <3>2. 1..committed \subseteq Before
        BY <3>1 DEF Before
      <3>3. u \in UpdatesOf(a, 1..committed)
        BY DEF Last
      <3>4. u \in Base(a)
        BY <3>2, <3>3, UpdatesOfMore DEF Base
      <3> QED BY <3>4 DEF Given
    <2>3. Known(a) \subseteq UpdatesOf(a, 1..Len(log))
      BY <1>1, KnownInLog
    <2> QED BY <2>1, <2>2, <2>3, BackfilledResurrects DEF FitsRow
  <1> QED BY <1>1, Inductive, PTL

\* When all is flushed, each row has the id of its account's last update, or
\* is gone when that update is zero, unless it came back (Converged).
THEOREM TableConverges == Spec => []Converged
  <1>1. ASSUME IInv
        PROVE  Converged
    <2> SUFFICES ASSUME Settled, Sheltered, NEW a \in Accounts,
                        NEW u \in Last(a, 1..Len(log))
                 PROVE  IF u.zero THEN table[a] = NoRow \/ Resurrected(a)
                                  ELSE table[a] = u.id
      BY DEF Converged
    <2>1. FitsRow(table[a], Given(a), Known(a), BackfilledIds(a))
      BY <1>1 DEF IInv, Reflected
    <2>2. Done = Len(log) /\ upserts = {} /\ deletes = {} /\ phase = "idle"
      <3>1. Len(queue) = 0 /\ received = Len(log) /\ Len(log) \in Nat
        BY <1>1, DoneBounds DEF Settled, IInv, Typed, Bookkeeping
      <3> QED BY <1>1, <3>1 DEF Done, Settled, IInv, Writing, PendingFits
    <2>3. Given(a) = UpdatesOf(a, 1..Len(log))
      BY <2>2, NothingPending
    <2>4. Known(a) \subseteq UpdatesOf(a, 1..Len(log))
      BY <1>1, KnownInLog
    <2>5. u \in UpdatesOf(a, 1..Len(log)) /\ \A v \in UpdatesOf(a, 1..Len(log)) : v.id <= u.id
      BY DEF Last
    <2>6. /\ UpdatesOf(a, 1..Len(log)) \in SUBSET Update
          /\ \A v, w \in UpdatesOf(a, 1..Len(log)) : v.id = w.id => v = w
      <3>1. TypeOK
        BY <1>1 DEF IInv, Typed
      <3> QED BY <3>1, UpdatesTyped DEF UpdatesOf
    <2>7. \A v \in Known(a) : v.id \in Nat /\ v.id <= u.id /\ (v.id >= u.id => v = u)
      <3>1. \A v \in UpdatesOf(a, 1..Len(log)) : v.id \in Nat
        BY <2>6 DEF Update
      <3> QED BY <2>4, <2>5, <2>6, <3>1
    <2>8. u.id \in Nat /\ u.id > 0 /\ u.zero \in BOOLEAN /\ table[a] \in Nat
      <3>1. u \in Update
        BY <2>5, <2>6
      <3>2. TypeOK
        BY <1>1 DEF IInv, Typed
      <3> QED BY <3>1, <3>2 DEF Update, TypeOK
    <2>9. \/ table[a] >= u.id
          \/ u.zero /\ (table[a] = NoRow \/ table[a] \in BackfilledIds(a))
      BY <2>1, <2>3, <2>5, <2>7 DEF FitsRow
    <2>10. CASE u.zero
      <3>1. CASE table[a] >= u.id
        <4>1. PICK v \in Known(a) : ~v.zero /\ v.id = table[a]
          BY <2>1, <2>8, <3>1 DEF FitsRow
        <4>2. v = u
          BY <2>7, <3>1, <4>1
        <4> QED BY <2>10, <4>1, <4>2
      <3> QED BY <2>9, <2>10, <3>1, BackfilledResurrects
    <2>11. CASE ~u.zero
      <3>1. table[a] >= u.id
        BY <2>9, <2>11
      <3>2. PICK v \in Known(a) : v.id = table[a]
        BY <2>1, <2>8, <3>1 DEF FitsRow
      <3>3. v = u
        BY <2>7, <3>1, <3>2
      <3> QED BY <2>11, <3>2, <3>3
    <2> QED BY <2>8, <2>10, <2>11
  <1> QED BY <1>1, Inductive, PTL

\* A row goes back only in a realtime write, and only when it is newer than
\* all that is done: then an earlier life has received the flushed block.
LEMMA BackOnRedelivery ==
  ASSUME IInv, [Next]_vars, Sheltered, NEW a \in Accounts,
         table'[a] # NoRow, table'[a] < table[a]
  PROVE  \E o \in ToFlush : o <= reached
  <1> USE DEF IInv, Typed, Writing
  <1>1. table \in [Accounts -> Nat] /\ upserts \subseteq Update
    BY DEF TypeOK
  <1>2. table'[a] # table[a]
    BY <1>1
  <1>3. ~DeleteRow
    BY <1>1, <1>2 DEF DeleteRow
  <1>4. UpsertRow
    BY <1>2, <1>3 DEF Next, WorkerStep, Produce, Receive, FlushNothing, StartFlush,
          StartHistorical, SelectForUpdate, SelectForDelete, CommitLastMessage, Crash, vars
  <1>5. PICK u \in upserts : table' = [table EXCEPT ![u.acct] = u.id]
    BY <1>4 DEF UpsertRow
  <1>6. u.acct = a /\ u.id < table[a] /\ u.id \in Nat /\ table[a] \in Nat
    BY <1>1, <1>2, <1>5 DEF Update
  <1>7. phase = "realtime"
    <2>1. phase # "historical"
      BY <1>4, <1>6 DEF UpsertRow, Selected, UpdateIfNewer
    <2> QED BY <2>1 DEF TypeOK, PendingFits
  <1>8. u \in Brought(a) /\ Pending(a)
    BY <1>6 DEF PendingFits, Pending
  <1>9. PICK v \in Known(a) : v.id = table[a]
    <2>1. FitsRow(table[a], Given(a), Known(a), BackfilledIds(a))
      BY DEF Reflected
    <2>2. table[a] # NoRow
      BY <1>6
    <2> QED BY <2>1, <2>2 DEF FitsRow
  <1>10. v \in Earlier(a) /\ v \notin Base(a)
    <2>1. v \notin Base(a)
      <3> SUFFICES ASSUME v \in Base(a) PROVE FALSE
        OBVIOUS
      <3>1. v.id < u.id
        BY <1>6, <1>7, <1>8, RealtimeWrite
      <3> QED BY <1>6, <1>9, <3>1
    <2> QED BY <1>8, <1>9, <2>1 DEF Known, Given
  <1>11. PICK o \in 1..reached : o \notin 1..Done
    <2>1. PICK o \in 1..reached : v \in chain[log[o].slot] /\ v.acct = a
      BY <1>10 DEF Earlier, UpdatesOf, UpdatesIn
    <2>2. o \notin Before
      BY <1>10, <2>1 DEF Base, UpdatesOf, UpdatesIn
    <2> QED BY <2>1, <2>2 DEF Before
  <1>12. queue # <<>>
    BY <1>7 DEF FlushHasBlocks
  <1>13. /\ Done \in Nat /\ reached \in Nat /\ FlushCount \in Nat \ {0}
         /\ ToFlush = Done + 1 .. Done + FlushCount
    BY <1>12, DoneBounds, FlushRange DEF Bookkeeping, TypeOK
  <1>14. Done + 1 \in ToFlush /\ Done + 1 <= reached
    BY <1>11, <1>13
  <1> QED BY <1>14

\* Within a life the realtime path only meets older rows: a row goes back
\* only while blocks of an earlier life are read again (BackOnlyOnRedelivery).
THEOREM BackOnly == Spec => BackOnlyOnRedelivery
  <1>1. IInv /\ [Next]_vars =>
          \A a \in Accounts :
            table'[a] # NoRow /\ table'[a] < table[a] /\ Sheltered =>
              \E o \in ToFlush : o <= reached
    BY BackOnRedelivery
  <1> QED BY <1>1, Inductive, PTL DEF Spec, BackOnlyOnRedelivery
===============================================================================
