--------------------------- MODULE PoolIngestProofs ---------------------------
(***************************************************************************)
(* Proofs about PoolIngest, for any pools, messages, sizes and bounds: the *)
(* types, that no pool is lost between the cache, the queue and the table, *)
(* and that the time of a pool's creation reaches the table.               *)
(***************************************************************************)
EXTENDS PoolIngest, FiniteSetTheorems, WellFoundedInduction, TLAPS

-----------------------------------------------------------------------------
(* Arithmetic                                                               *)

\* A non-empty set of numbers has a least one.
LEMMA LeastExists ==
  ASSUME NEW S \in SUBSET Nat, S # {}
  PROVE  /\ Least(S) \in S
         /\ \A m \in S : Least(S) <= m
  <1>1. PICK n \in S : \A m \in S : ~(<<m, n>> \in OpToRel(<, Nat))
    BY NatLessThanWellFounded, WFMin
  <1>2. \A m \in S : ~(m < n)
    BY <1>1, Zenon DEF OpToRel
  <1>3. \A m \in S : n <= m
    BY <1>2
  <1> QED BY <1>3 DEF Least

\* The earliest time is a time, and only none when there is no other.
LEMMA EarliestTyped ==
  ASSUME NEW T \in SUBSET Nat
  PROVE  /\ Earliest(T) \in Nat
         /\ (\E t \in T : t > 0) => Earliest(T) > 0
  <1>1. CASE T \subseteq {0}
    BY <1>1 DEF Earliest
  <1>2. CASE ~(T \subseteq {0})
    <2>1. T \ {0} # {} /\ T \ {0} \in SUBSET Nat
      BY <1>2
    <2>2. PICK l \in T \ {0} : l = Least(T \ {0})
      BY <2>1, LeastExists
    <2>3. Earliest(T) = Least(T \ {0})
      BY <1>2 DEF Earliest
    <2>4. Earliest(T) = l
      BY <2>2, <2>3
    <2> QED BY <2>4
  <1> QED BY <1>1, <1>2

\* Of two products with a common factor the lesser has the lesser other factor.
LEMMA FactorOrder ==
  ASSUME NEW k \in Nat, NEW w \in Nat, NEW d \in Nat, k * d < w * d
  PROVE  k < w
  <1> SUFFICES ASSUME k >= w PROVE FALSE
    OBVIOUS
  <1>1. PICK e \in Nat : k = w + e
    <2>1. k - w \in Nat /\ k = w + (k - w)
      OBVIOUS
    <2> QED BY <2>1
  <1>2. k * d = w * d + e * d /\ e * d \in Nat /\ w * d \in Nat
    BY <1>1
  <1> QED BY <1>2

\* What div computes.
LEMMA Quotient ==
  ASSUME NEW n \in Nat, NEW d \in Nat \ {0}
  PROVE  /\ n \div d \in Nat
         /\ (n \div d) * d <= n
         /\ n < (n \div d) * d + d
  OBVIOUS

-----------------------------------------------------------------------------
(* The batches of a flush                                                   *)

\* Rows of either kind have at least one goroutine.
LEMMA WorkersPositive ==
  ASSUME NEW n \in Nat, NEW m \in Nat, n + m > 0
  PROVE  /\ n > 0 => WithWorkers(n, m) \in Nat \ {0}
         /\ m > 0 => WithoutWorkers(n, m) \in Nat \ {0}
  <1> DEFINE d == 2 * (n + m)
             N == 2 * n * MaxWorkers + n + m
             share == N \div d
  <1>1. MaxWorkers \in Nat /\ MaxWorkers >= 2
    BY LimitsAssumption
  <1>2. d \in Nat \ {0} /\ N \in Nat
    BY <1>1
  <1>3. share \in Nat /\ share * d <= N
    BY <1>2, Quotient
  <1>4. ASSUME m > 0 PROVE share <= MaxWorkers
    <2>1. N < (MaxWorkers + 1) * d
      <3>1. PICK a \in Nat, b \in Nat : a = n * MaxWorkers /\ b = m * MaxWorkers
        BY <1>1
      <3>2. N = 2 * a + n + m
        BY <1>1, <3>1
      <3>3. (MaxWorkers + 1) * d = 2 * a + 2 * b + 2 * n + 2 * m
        BY <1>1, <3>1
      <3> HIDE DEF N, d
      <3> QED BY <1>4, <3>1, <3>2, <3>3
    <2> HIDE DEF d, N
    <2>2. share * d \in Nat /\ (MaxWorkers + 1) * d \in Nat
      <3> HIDE DEF share
      <3> QED BY <1>1, <1>2, <1>3
    <2> HIDE DEF share
    <2>3. share * d < (MaxWorkers + 1) * d
      BY <1>2, <1>3, <2>1, <2>2
    <2>4. share < MaxWorkers + 1
      BY <1>1, <1>2, <1>3, <2>3, FactorOrder
    <2> QED BY <1>1, <1>3, <2>4
  <1>5. WithWorkers(n, m) = IF share = 0 /\ n > 0 THEN 1
                            ELSE IF share = MaxWorkers /\ m > 0 THEN share - 1
                            ELSE share
    BY DEF WithWorkers
  <1>6. WithoutWorkers(n, m) = IF share = MaxWorkers /\ m > 0 THEN 1 ELSE MaxWorkers - share
    BY DEF WithoutWorkers
  <1> HIDE DEF share
  <1> QED BY <1>1, <1>3, <1>4, <1>5, <1>6

\* A batch has a size.
LEMMA SizePositive ==
  ASSUME NEW count \in Nat \ {0}, NEW workers \in Nat \ {0}
  PROVE  BatchSize(count, workers) \in Nat \ {0}
  <1>1. MinBatchSize \in Nat \ {0}
    BY LimitsAssumption
  <1> DEFINE q == (count + workers - 1) \div workers
  <1>2. count + workers - 1 \in Nat
    OBVIOUS
  <1>3. q \in Nat /\ count + workers - 1 < q * workers + workers
    BY <1>2, Quotient
  <1> HIDE DEF q
  <1>4. q # 0
    <2> SUFFICES ASSUME q = 0 PROVE FALSE
      OBVIOUS
    <2>1. q * workers = 0
      OBVIOUS
    <2> QED BY <1>3, <2>1
  <1> QED BY <1>1, <1>3, <1>4 DEF BatchSize, Ceiling, q

\* The batches of a sequence of rows are sequences of rows, none of them empty.
LEMMA BatchTyped ==
  ASSUME NEW s \in Seq(Row), s # <<>>, NEW size \in Nat \ {0}, NEW w \in Batches(s, size)
  PROVE  w \in Seq(Row) /\ w # <<>>
  <1> DEFINE L == Len(s)
             q == (L - 1) \div size
  <1>1. L \in Nat \ {0}
    OBVIOUS
  <1>2. q \in Nat /\ q * size <= L - 1
    <2>1. L - 1 \in Nat
      BY <1>1
    <2> QED BY <2>1, Quotient
  <1>3. PICK k \in 0 .. q : w = SubSeq(s, k * size + 1, IF (k + 1) * size > L THEN L ELSE (k + 1) * size)
    BY DEF Batches, Parts
  <1> HIDE DEF q
  <1>4. k * size \in Nat /\ k * size <= q * size
    <2>1. PICK e \in Nat : q = k + e
      <3>1. q - k \in Nat /\ q = k + (q - k)
        BY <1>2, <1>3
      <3> QED BY <3>1
    <2>2. q * size = k * size + e * size /\ e * size \in Nat /\ k * size \in Nat
      BY <1>3, <2>1
    <2> QED BY <2>2
  <1>5. PICK a \in Nat : a = k * size
    BY <1>4
  <1>6. (k + 1) * size = a + size
    BY <1>3, <1>5
  <1>7. a + 1 <= L
    <2>1. q * size \in Nat
      BY <1>2
    <2> QED BY <1>1, <1>2, <1>4, <1>5, <2>1
  <1>8. PICK b \in a + 1 .. L : w = SubSeq(s, a + 1, b)
    <2> DEFINE b == IF a + size > L THEN L ELSE a + size
    <2>1. b \in a + 1 .. L
      BY <1>1, <1>7
    <2>2. w = SubSeq(s, a + 1, b)
      BY <1>3, <1>5, <1>6
    <2> QED BY <2>1, <2>2
  <1> QED BY <1>1, <1>8, SMTT(30)

\* Every row of a sequence is in one of its batches.
LEMMA BatchesCover ==
  ASSUME NEW s \in Seq(Row), NEW size \in Nat \ {0}, NEW i \in 1 .. Len(s)
  PROVE  \E w \in Batches(s, size) : \E j \in 1 .. Len(w) : w[j] = s[i]
  <1> DEFINE L == Len(s)
             q == (L - 1) \div size
             k == (i - 1) \div size
  <1>1. L \in Nat \ {0} /\ L - 1 \in Nat /\ i - 1 \in Nat
    OBVIOUS
  <1>2. q \in Nat /\ L - 1 < q * size + size
    BY <1>1, Quotient
  <1>3. k \in Nat /\ k * size <= i - 1 /\ i - 1 < k * size + size
    BY <1>1, Quotient
  <1>4. Batches(s, size) =
          {SubSeq(s, n * size + 1, IF (n + 1) * size > L THEN L ELSE (n + 1) * size) : n \in 0 .. q}
    BY DEF Batches, Parts
  <1> HIDE DEF q, k
  <1>5. PICK a \in Nat : a = k * size
    BY <1>3
  <1>6. (k + 1) * size = a + size /\ (q + 1) * size = q * size + size /\ q * size \in Nat
    BY <1>2, <1>3, <1>5
  <1>7. k \in 0 .. q
    <2>1. k * size < (q + 1) * size
      BY <1>1, <1>2, <1>3, <1>5, <1>6
    <2>2. k < q + 1
      BY <1>2, <1>3, <2>1, FactorOrder
    <2> QED BY <1>2, <1>3, <2>2
  <1> DEFINE b == IF a + size > L THEN L ELSE a + size
             w == SubSeq(s, a + 1, b)
  <1>8. w \in Batches(s, size)
    <2>1. w = SubSeq(s, k * size + 1, IF (k + 1) * size > L THEN L ELSE (k + 1) * size)
      BY <1>5, <1>6
    <2> HIDE DEF w
    <2> QED BY <1>4, <1>7, <2>1
  <1>9. i \in a + 1 .. b /\ b \in 1 .. L
    BY <1>1, <1>3, <1>5
  <1>10. i - a \in 1 .. Len(w) /\ w[i - a] = s[i]
    BY <1>1, <1>9
  <1> HIDE DEF w
  <1> QED BY <1>8, <1>10

\* The goroutines that write a set of rows have sequences of rows, and all of them.
LEMMA DispatchedCovers ==
  ASSUME NEW S \in SUBSET Row, IsFiniteSet(S), NEW workers,
         S # {} => workers \in Nat \ {0}, NEW B \in Dispatched(S, workers)
  PROVE  /\ B \subseteq Seq(Row) /\ <<>> \notin B
         /\ \A r \in S : \E w \in B : \E j \in 1 .. Len(w) : w[j] = r
  <1>1. CASE S = {}
    BY <1>1 DEF Dispatched
  <1>2. CASE S # {}
    <2> DEFINE size == BatchSize(Cardinality(S), workers)
    <2>1. Cardinality(S) \in Nat \ {0}
      BY <1>2, FS_CardinalityType, FS_EmptySet
    <2>2. size \in Nat \ {0}
      BY <1>2, <2>1, SizePositive
    <2>3. PICK s \in Orders(S) : B = Batches(s, size)
      BY <1>2 DEF Dispatched
    <2>4. /\ s \in Seq(Row) /\ Len(s) = Cardinality(S) /\ s # <<>>
          /\ \A r \in S : \E i \in 1 .. Len(s) : s[i] = r
      <3>1. /\ s \in [1 .. Cardinality(S) -> S]
            /\ \A r \in S : \E i \in 1 .. Cardinality(S) : s[i] = r
        BY <2>3 DEF Orders
      <3>2. s \in Seq(Row) /\ Len(s) = Cardinality(S)
        BY <2>1, <3>1
      <3> QED BY <2>1, <3>1, <3>2
    <2> HIDE DEF size
    <2>5. B \subseteq Seq(Row) /\ <<>> \notin B
      BY <2>2, <2>3, <2>4, BatchTyped
    <2>6. ASSUME NEW r \in S PROVE \E w \in B : \E j \in 1 .. Len(w) : w[j] = r
      <3>1. PICK i \in 1 .. Len(s) : s[i] = r
        BY <2>4
      <3>2. \E w \in Batches(s, size) : \E j \in 1 .. Len(w) : w[j] = s[i]
        BY <2>2, <2>4, BatchesCover
      <3> QED BY <2>3, <3>1, <3>2
    <2> QED BY <2>5, <2>6
  <1> QED BY <1>1, <1>2
-----------------------------------------------------------------------------
(* The inductive invariant                                                  *)

\* The last message that the worker is done with, in this life or before.
Finished == IF phase = "build" THEN received - 1 ELSE received

\* A message of the queue up to this one has a row of the pool.
Queued(o, p) == \E k \in 1 .. Len(queue) :
                  /\ queue[k].offset <= o
                  /\ \E j \in 1 .. Len(queue[k].rows) : queue[k].rows[j].pool = p

\* The row is the first one of its pool in a sequence.
Leads(r, s) == \E j \in 1 .. Len(s) : s[j] = r /\ \A i \in 1 .. j - 1 : s[i].pool # r.pool

\* The partition begins with the pool's creation.
Creation(o, i) == log[o].events[i].created > 0 /\ First(o, i)

\* A deduplicated row is in the table, or with a goroutine.
Put(d)  == table[d.pool] # NoRow /\ (d.created > 0 => table[d.pool] > 0)
Held(d) == \E w \in writing : \E j \in 1 .. Len(w) : w[j] = d

\* Where the worker is, and what it has then.
Shape == /\ phase = "build" => received > 0 /\ built <= Len(Events)
         /\ phase # "build" => rows = <<>> /\ built = 0
         /\ phase = "write" => queue # <<>>
         /\ <<>> \notin writing

\* The queue is in the order of the log.
Ordered == \A i \in 1 .. Len(queue) : /\ queue[i].offset <= Finished
                                      /\ \A j \in 1 .. i - 1 : queue[j].offset < queue[i].offset

\* Rows are events of their messages.
RowsOf(o, s) == \A j \in 1 .. Len(s) : \E l \in 1 .. Len(log[o].events) : log[o].events[l] = s[j]
Named == /\ \A j \in 1 .. Len(rows) : \E l \in 1 .. built : Events[l] = rows[j]
         /\ \A i \in 1 .. Len(queue) : RowsOf(queue[i].offset, queue[i].rows)

\* A pool that has been seen was named by what the worker has read.
SeenNamed == \A p \in Pools : Seen(p) =>
               \/ \E n \in 1 .. Finished : Mentions(n, p)
               \/ \E l \in 1 .. built : Events[l].pool = p

\* The pools of the message in hand have been taken care of as far as it has been read, ...
BuildCovered == \A l \in 1 .. built :
                  LET p == Events[l].pool IN table[p] # NoRow \/ Pending(p) \/ Poisoned(p, received)

\* ... those of messages before it too, by a row that is no later, ...
Handled == \A o \in 1 .. Finished, p \in Pools :
             log[o].sound /\ Mentions(o, p) => table[p] # NoRow \/ Poisoned(p, o) \/ Queued(o, p)

\* ... and a creation is the first row of its pool.
CreationQueued(o, i) == \E k \in 1 .. Len(queue) : /\ queue[k].offset = o
                                                   /\ Leads(log[o].events[i], queue[k].rows)
CreationBuilt == \A l \in 1 .. built : Creation(received, l) => Leads(Events[l], rows)
CreationHandled ==
  \A o \in 1 .. Finished : log[o].sound =>
    \A i \in 1 .. Len(log[o].events) :
      Creation(o, i) => table[log[o].events[i].pool] > 0 \/ CreationQueued(o, i)

\* Every row of a running flush is in the table or with a goroutine.
FlushCovered == phase = "write" => \A d \in Dedup : Put(d) \/ Held(d)

IInv == /\ TypeOK /\ Shape /\ Ordered /\ Named /\ SeenNamed
        /\ BuildCovered /\ Handled /\ CreationBuilt /\ CreationHandled /\ FlushCovered
        /\ SeenIsCovered /\ PoolsStored /\ CreationRecorded

-----------------------------------------------------------------------------
(* The rows of a flush                                                      *)

\* What the types say of the queue.
LEMMA QueueTyped ==
  ASSUME TypeOK
  PROVE  /\ Len(queue) \in Nat /\ FlushCount \in 0 .. Len(queue) /\ (queue # <<>> => FlushCount > 0)
         /\ \A n \in 1 .. Len(queue) : /\ queue[n] = [offset |-> queue[n].offset, rows |-> queue[n].rows]
                                       /\ queue[n].offset \in 1 .. Len(log)
                                       /\ queue[n].rows \in Seq(Row) /\ Len(queue[n].rows) \in Nat
  <1> DEFINE Entry == [offset : 1 .. Len(log), rows : Seq(Row)]
  <1>1. queue \in Seq(Entry)
    BY DEF TypeOK
  <1> HIDE DEF Entry
  <1>2. Len(queue) \in Nat /\ (queue # <<>> => Len(queue) > 0)
    BY <1>1
  <1>3. FlushCount \in 0 .. Len(queue) /\ (queue # <<>> => FlushCount > 0)
    BY <1>2, LimitsAssumption DEF FlushCount
  <1>4. \A n \in 1 .. Len(queue) : queue[n] \in Entry
    BY <1>1
  <1>5. \A n \in 1 .. Len(queue) : /\ queue[n] = [offset |-> queue[n].offset, rows |-> queue[n].rows]
                                   /\ queue[n].offset \in 1 .. Len(log)
                                   /\ queue[n].rows \in Seq(Row)
    BY <1>4 DEF Entry
  <1>6. \A n \in 1 .. Len(queue) : Len(queue[n].rows) \in Nat
    BY <1>5
  <1> QED BY <1>2, <1>3, <1>5, <1>6

\* A position is a message of the flush and a place in it; there are finitely many.
LEMMA PositionsTyped ==
  ASSUME TypeOK
  PROVE  /\ IsFiniteSet(Positions)
         /\ \A x \in Positions : /\ x[1] \in 1 .. FlushCount /\ x[2] \in 1 .. Len(queue[x[1]].rows)
                                 /\ x = <<x[1], x[2]>> /\ RowAt(x) \in Row
         /\ \A n \in 1 .. FlushCount : \A j \in 1 .. Len(queue[n].rows) : <<n, j>> \in Positions
  <1> DEFINE slice(n) == {n} \X (1 .. Len(queue[n].rows))
             T == {slice(n) : n \in 1 .. FlushCount}
  <1>1. FlushCount \in Nat /\ \A n \in 1 .. FlushCount : n \in 1 .. Len(queue)
    BY QueueTyped
  <1>2. \A n \in 1 .. FlushCount : IsFiniteSet(slice(n))
    <2> SUFFICES ASSUME NEW n \in 1 .. FlushCount PROVE IsFiniteSet(slice(n))
      OBVIOUS
    <2>0. Len(queue[n].rows) \in Nat
      BY <1>1, QueueTyped
    <2>1. IsFiniteSet(1 .. Len(queue[n].rows))
      BY <2>0, FS_Interval
    <2>2. IsFiniteSet({n})
      BY FS_Singleton
    <2> QED BY <2>1, <2>2, FS_Product
  <1>3. IsFiniteSet(T)
    <2> HIDE DEF slice
    <2> DEFINE f == [n \in 1 .. FlushCount |-> slice(n)]
    <2>1. f \in Surjection(1 .. FlushCount, T)
      BY DEF Surjection
    <2>2. IsFiniteSet(1 .. FlushCount)
      BY <1>1, FS_Interval
    <2> QED BY <2>1, <2>2, FS_Surjection
  <1>4. IsFiniteSet(Positions)
    <2>1. \A t \in T : IsFiniteSet(t)
      BY <1>2
    <2>2. IsFiniteSet(UNION T)
      BY <1>3, <2>1, FS_UNION
    <2> QED BY <2>2 DEF Positions
  <1>5. ASSUME NEW x \in Positions
        PROVE  /\ x[1] \in 1 .. FlushCount /\ x[2] \in 1 .. Len(queue[x[1]].rows)
               /\ x = <<x[1], x[2]>> /\ RowAt(x) \in Row
    <2>1. PICK n \in 1 .. FlushCount : x \in {n} \X (1 .. Len(queue[n].rows))
      BY DEF Positions
    <2>2. x[1] = n /\ x[2] \in 1 .. Len(queue[n].rows) /\ x = <<x[1], x[2]>>
      BY <2>1
    <2>3. queue[n].rows \in Seq(Row)
      BY <1>1, QueueTyped
    <2>4. queue[n].rows[x[2]] \in Row
      BY <2>2, <2>3
    <2> QED BY <2>2, <2>4 DEF RowAt
  <1>6. \A n \in 1 .. FlushCount : \A j \in 1 .. Len(queue[n].rows) : <<n, j>> \in Positions
    BY DEF Positions
  <1> QED BY <1>4, <1>5, <1>6

\* The time that deduplication gives to a row.
LEMMA DedupTime ==
  ASSUME TypeOK, NEW x \in Positions
  PROVE  LET t == Earliest({RowAt(y).created : y \in Agreeing(x)})
         IN  /\ t \in Nat
             /\ RowAt(x).created > 0 => t > 0
  <1> DEFINE T == {RowAt(y).created : y \in Agreeing(x)}
  <1>1. T \in SUBSET Nat
    <2>1. \A y \in Agreeing(x) : RowAt(y) \in Row
      BY PositionsTyped DEF Agreeing
    <2>2. \A y \in Agreeing(x) : RowAt(y).created \in Nat
      BY <2>1 DEF Row
    <2> QED BY <2>2
  <1>2. RowAt(x).created \in T
    BY DEF Agreeing, SameKey
  <1> HIDE DEF T
  <1>3. Earliest(T) \in Nat /\ (RowAt(x).created > 0 => Earliest(T) > 0)
    BY <1>1, <1>2, EarliestTyped
  <1> QED BY <1>3 DEF T

\* Deduplication gives rows, and finitely many.
LEMMA DedupTyped ==
  ASSUME TypeOK
  PROVE  Dedup \in SUBSET Row /\ IsFiniteSet(Dedup)
  <1> DEFINE time(x) == Earliest({RowAt(y).created : y \in Agreeing(x)})
             first(x) == [RowAt(x) EXCEPT !.created = time(x)]
  <1>1. Dedup = {first(x) : x \in Firsts}
    BY DEF Dedup
  <1>2. Firsts \subseteq Positions
    BY DEF Firsts
  <1>3. ASSUME NEW x \in Firsts PROVE first(x) \in Row
    <2>1. RowAt(x) \in Row
      BY <1>2, PositionsTyped
    <2>2. time(x) \in Nat
      BY <1>2, DedupTime
    <2> HIDE DEF time
    <2> QED BY <2>1, <2>2 DEF Row
  <1>4. IsFiniteSet(Firsts)
    BY <1>2, PositionsTyped, FS_Subset
  <1>5. IsFiniteSet({first(x) : x \in Firsts})
    <2> HIDE DEF first
    <2> DEFINE f == [x \in Firsts |-> first(x)]
               S == {first(x) : x \in Firsts}
    <2>1. f \in Surjection(Firsts, S)
      BY DEF Surjection
    <2> QED BY <1>4, <2>1, FS_Surjection
  <1> HIDE DEF first
  <1> QED BY <1>1, <1>3, <1>5

\* The first row of a key stays, with a time if it has one.
LEMMA FirstStays ==
  ASSUME TypeOK, NEW x \in Firsts
  PROVE  \E d \in Dedup : /\ d.pool = RowAt(x).pool
                          /\ RowAt(x).created > 0 => d.created > 0
  <1> DEFINE t == Earliest({RowAt(y).created : y \in Agreeing(x)})
             d == [RowAt(x) EXCEPT !.created = t]
  <1>1. x \in Positions
    BY DEF Firsts
  <1>2. d \in Dedup
    BY DEF Dedup
  <1>3. t \in Nat /\ (RowAt(x).created > 0 => t > 0)
    BY <1>1, DedupTime
  <1>4. RowAt(x) \in Row
    BY <1>1, PositionsTyped
  <1> HIDE DEF t
  <1>5. d.pool = RowAt(x).pool /\ d.created = t
    BY <1>4 DEF Row
  <1> HIDE DEF d
  <1> QED BY <1>2, <1>3, <1>5

\* Every pool of the flush has a row left.
LEMMA PoolStays ==
  ASSUME TypeOK, NEW x \in Positions
  PROVE  \E d \in Dedup : d.pool = RowAt(x).pool
  <1> DEFINE Same == {y \in Positions : SameKey(RowAt(y), RowAt(x))}
             N == {y[1] : y \in Same}
             n == Least(N)
             J == {y[2] : y \in {z \in Same : z[1] = n}}
             j == Least(J)
  <1>1. x \in Same
    BY DEF SameKey
  <1>2. \A y \in Same : y[1] \in Nat /\ y[2] \in Nat /\ y = <<y[1], y[2]>>
    <2>1. \A y \in Same : y[1] \in 1 .. FlushCount /\ y[2] \in 1 .. Len(queue[y[1]].rows) /\ y = <<y[1], y[2]>>
      BY PositionsTyped
    <2> QED BY <2>1
  <1> HIDE DEF Same
  <1>3. N # {} /\ N \in SUBSET Nat
    BY <1>1, <1>2
  <1>4. n \in N /\ \A y \in Same : n <= y[1]
    <2>1. n \in N /\ \A m \in N : n <= m
      BY <1>3, LeastExists
    <2> QED BY <2>1
  <1> HIDE DEF n
  <1>5. J # {} /\ J \in SUBSET Nat
    BY <1>2, <1>4
  <1>6. j \in J /\ \A y \in Same : y[1] = n => j <= y[2]
    <2>1. j \in J /\ \A m \in J : j <= m
      BY <1>5, LeastExists
    <2> QED BY <2>1
  <1> HIDE DEF j
  <1>7. PICK f \in Same : f[1] = n /\ f[2] = j
    BY <1>6
  <1>8. \A y \in Same : ~Before(y, f)
    <2> SUFFICES ASSUME NEW y \in Same, Before(y, f) PROVE FALSE
      OBVIOUS
    <2>1. y[1] < n \/ (y[1] = n /\ y[2] < j)
      BY <1>7 DEF Before
    <2>2. n <= y[1] /\ (y[1] = n => j <= y[2])
      BY <1>4, <1>6
    <2>3. y[1] \in Nat /\ y[2] \in Nat /\ n \in Nat /\ j \in Nat
      BY <1>2, <1>7
    <2> QED BY <2>1, <2>2, <2>3
  <1>9. f \in Positions /\ SameKey(RowAt(f), RowAt(x))
    BY DEF Same
  <1>10. f \in Firsts
    <2> SUFFICES ASSUME NEW y \in Positions, Before(y, f), SameKey(RowAt(y), RowAt(f)) PROVE FALSE
      BY <1>9 DEF Firsts
    <2>1. SameKey(RowAt(y), RowAt(x))
      BY <1>9 DEF SameKey
    <2>2. y \in Same
      BY <2>1 DEF Same
    <2> QED BY <1>8, <2>2
  <1>11. \E d \in Dedup : d.pool = RowAt(f).pool
    BY <1>10, FirstStays
  <1> QED BY <1>9, <1>11 DEF SameKey

\* The goroutines of a flush that starts have the deduplicated rows, and no others.
LEMMA Started ==
  ASSUME TypeOK, StartFlush
  PROVE  /\ writing' \subseteq Seq(Row) /\ <<>> \notin writing'
         /\ \A d \in Dedup : \E w \in writing' : \E j \in 1 .. Len(w) : w[j] = d
  <1> DEFINE with == {r \in Dedup : r.created > 0}
             without == Dedup \ with
             n == Cardinality(with)
             m == Cardinality(without)
  <1>1. CASE Dedup = {}
    BY <1>1 DEF StartFlush
  <1>2. CASE Dedup # {}
    <2>1. PICK A \in Dispatched(with, WithWorkers(n, m)), B \in Dispatched(without, WithoutWorkers(n, m)) :
            writing' = A \union B
      BY <1>2 DEF StartFlush
    <2>2. with \in SUBSET Row /\ without \in SUBSET Row /\ IsFiniteSet(with) /\ IsFiniteSet(without)
      BY DedupTyped, FS_Subset
    <2>3. with \union without = Dedup
      OBVIOUS
    <2> HIDE DEF with, without
    <2>4. n \in Nat /\ m \in Nat /\ (with # {} => n > 0) /\ (without # {} => m > 0)
      <3>1. n \in Nat /\ m \in Nat
        BY <2>2, FS_CardinalityType
      <3>2. (n = 0 <=> with = {}) /\ (m = 0 <=> without = {})
        BY <2>2, FS_EmptySet
      <3> QED BY <3>1, <3>2
    <2> HIDE DEF n, m
    <2>5. n + m > 0
      BY <1>2, <2>3, <2>4
    <2>6. /\ with # {} => WithWorkers(n, m) \in Nat \ {0}
          /\ without # {} => WithoutWorkers(n, m) \in Nat \ {0}
      BY <2>4, <2>5, WorkersPositive
    <2>7. /\ A \subseteq Seq(Row) /\ <<>> \notin A
          /\ \A r \in with : \E w \in A : \E j \in 1 .. Len(w) : w[j] = r
      BY <2>1, <2>2, <2>6, DispatchedCovers
    <2>8. /\ B \subseteq Seq(Row) /\ <<>> \notin B
          /\ \A r \in without : \E w \in B : \E j \in 1 .. Len(w) : w[j] = r
      BY <2>1, <2>2, <2>6, DispatchedCovers
    <2>9. ASSUME NEW d \in Dedup PROVE \E w \in writing' : \E j \in 1 .. Len(w) : w[j] = d
      BY <2>1, <2>3, <2>7, <2>8
    <2> QED BY <2>1, <2>7, <2>8, <2>9
  <1> QED BY <1>1, <1>2

-----------------------------------------------------------------------------
(* What every step keeps                                                    *)

\* A sequence over a set is one over a larger set.
LEMMA SeqOfMore ==
  ASSUME NEW A, NEW B, A \subseteq B, NEW s \in Seq(A)
  PROVE  s \in Seq(B)
  OBVIOUS

\* A message of the log has events.
LEMMA MessageTyped ==
  ASSUME TypeOK, NEW o \in 1 .. Len(log)
  PROVE  /\ log[o].events \in Seq(Row) /\ Len(log[o].events) \in Nat
         /\ \A i \in 1 .. Len(log[o].events) : log[o].events[i] \in Row /\ log[o].events[i].pool \in Pools
         /\ log[o].sound \in BOOLEAN
  <1>1. log[o] \in Messages
    BY DEF TypeOK
  <1>2. log[o] \in [events : Seq(Row), sound : BOOLEAN]
    BY <1>1, MessagesAssumption
  <1>3. log[o].events \in Seq(Row) /\ log[o].sound \in BOOLEAN
    BY <1>2
  <1>4. Len(log[o].events) \in Nat /\ \A i \in 1 .. Len(log[o].events) : log[o].events[i] \in Row
    BY <1>3
  <1> QED BY <1>3, <1>4 DEF Row

\* The log only grows at its end.
LEMMA LogGrows ==
  ASSUME TypeOK, [Next]_vars
  PROVE  /\ Len(log) \in Nat /\ Len(log') \in Nat /\ Len(log) <= Len(log')
         /\ \A o \in 1 .. Len(log) : log'[o] = log[o]
         /\ log' \in Seq(Messages)
  <1>1. log \in Seq(Messages)
    BY DEF TypeOK
  <1>2. CASE \E m \in Messages : Produce(m)
    <2>1. PICK m \in Messages : log' = Append(log, m)
      BY <1>2 DEF Produce
    <2> QED BY <1>1, <2>1
  <1>3. CASE log' = log
    BY <1>1, <1>3
  <1>4. WorkerStep \/ Crash \/ UNCHANGED vars => log' = log
    BY DEF WorkerStep, Crash, Receive, Build, Enqueue, Panic, StartFlush, WriteRow, CommitLastMessage, vars, broker
  <1> QED BY <1>2, <1>3, <1>4 DEF Next

\* What has been said of a message stays so.
LEMMA History ==
  ASSUME TypeOK, [Next]_vars, NEW o \in 1 .. Len(log)
  PROVE  /\ log'[o] = log[o]
         /\ \A p : /\ Mentions(o, p)' <=> Mentions(o, p)
                   /\ Poisoned(p, o)' <=> Poisoned(p, o)
         /\ \A i : Creation(o, i)' <=> Creation(o, i)
  <1>1. \A n \in 1 .. o : log'[n] = log[n]
    BY LogGrows
  <1>2. \A n \in 1 .. o : \A p : Mentions(n, p)' <=> Mentions(n, p)
    BY <1>1 DEF Mentions
  <1>3. \A p : Poisoned(p, o)' <=> Poisoned(p, o)
    BY <1>1, <1>2 DEF Poisoned
  <1>4. o \in 1 .. o /\ log'[o] = log[o]
    BY <1>1
  <1>5. ASSUME NEW i PROVE First(o, i)' <=> First(o, i)
    <2>1. PICK p : p = log[o].events[i].pool
      OBVIOUS
    <2>2. log'[o].events[i].pool = p /\ \A j : log'[o].events[j] = log[o].events[j]
      BY <1>4, <2>1
    <2>3. \A n \in 1 .. o - 1 : Mentions(n, p)' <=> Mentions(n, p)
      <3>1. o \in Nat
        BY LogGrows
      <3>2. \A n \in 1 .. o - 1 : n \in 1 .. o
        BY <3>1
      <3> QED BY <1>2, <3>2
    <2>4. First(o, i) <=> /\ \A n \in 1 .. o - 1 : ~Mentions(n, p)
                          /\ \A j \in 1 .. i - 1 : log[o].events[j].pool # p
      BY <2>1 DEF First
    <2>5. First(o, i)' <=> /\ \A n \in 1 .. o - 1 : ~Mentions(n, p)'
                           /\ \A j \in 1 .. i - 1 : log'[o].events[j].pool # p
      BY <2>2 DEF First
    <2> QED BY <2>2, <2>3, <2>4, <2>5
  <1>6. \A i : Creation(o, i)' <=> Creation(o, i)
    BY <1>4, <1>5 DEF Creation
  <1> QED BY <1>2, <1>3, <1>4, <1>6

\* A row is written with the time it has, or keeps the one the table has.
LEMMA WrittenTyped ==
  ASSUME NEW r \in Row, NEW old \in Nat \union {NoRow}
  PROVE  /\ Written(r, old) \in Nat
         /\ r.created > 0 \/ old > 0 => Written(r, old) > 0
  BY DEF Written, NoRow, Row

\* What a row that is written does to the table.
LEMMA RowWritten ==
  ASSUME TypeOK, Shape, NEW w \in writing, table' = [table EXCEPT ![Head(w).pool] = Written(Head(w), @)]
  PROVE  /\ w \in Seq(Row) /\ Len(w) \in Nat \ {0} /\ Head(w) = w[1] /\ w[1] \in Row
         /\ table' \in [Pools -> Nat \union {NoRow}]
         /\ table'[Head(w).pool] \in Nat
         /\ Head(w).created > 0 => table'[Head(w).pool] > 0
         /\ \A p \in Pools : /\ table[p] # NoRow => table'[p] # NoRow
                             /\ table[p] > 0 => table'[p] > 0
  <1>1. w \in Seq(Row) /\ w # <<>>
    BY DEF TypeOK, Shape
  <1>2. w[1] \in Row /\ Head(w) = w[1] /\ Len(w) \in Nat \ {0}
    BY <1>1
  <1>3. PICK r \in Row : r = Head(w)
    BY <1>2
  <1>4. r.pool \in Pools
    BY DEF Row
  <1>5. table \in [Pools -> Nat \union {NoRow}]
    BY DEF TypeOK
  <1>6. PICK v : v = Written(r, table[r.pool])
    OBVIOUS
  <1>7. v \in Nat /\ (r.created > 0 \/ table[r.pool] > 0 => v > 0)
    BY <1>4, <1>5, <1>6, WrittenTyped
  <1>8. table' = [table EXCEPT ![r.pool] = v]
    BY <1>3, <1>6
  <1>9. table' \in [Pools -> Nat \union {NoRow}] /\ table'[r.pool] = v
    BY <1>4, <1>5, <1>7, <1>8
  <1>10. \A p \in Pools : p # r.pool => table'[p] = table[p]
    BY <1>5, <1>8
  <1>11. v # NoRow
    BY <1>7 DEF NoRow
  <1>12. ASSUME NEW p \in Pools
         PROVE  (table[p] # NoRow => table'[p] # NoRow) /\ (table[p] > 0 => table'[p] > 0)
    BY <1>7, <1>9, <1>10, <1>11
  <1> QED BY <1>1, <1>2, <1>3, <1>7, <1>9, <1>12

\* No step takes a pool's row or its time from the table.
LEMMA TableKept ==
  ASSUME TypeOK, Shape, [Next]_vars, NEW p \in Pools
  PROVE  /\ table[p] # NoRow => table'[p] # NoRow
         /\ table[p] > 0 => table'[p] > 0
  <1>1. CASE WriteRow
    <2>1. PICK w \in writing : table' = [table EXCEPT ![Head(w).pool] = Written(Head(w), @)]
      BY <1>1 DEF WriteRow
    <2> QED BY <2>1, RowWritten
  <1>2. CASE table' = table
    BY <1>2
  <1>3. WriteRow \/ table' = table
    BY DEF Next, WorkerStep, Crash, Produce, Receive, Build, Enqueue, Panic, StartFlush, CommitLastMessage, vars
  <1> QED BY <1>1, <1>2, <1>3

\* As long as no message is committed, what is promised of the committed ones holds.
LEMMA CommittedKept ==
  ASSUME TypeOK, Shape, PoolsStored, CreationRecorded, [Next]_vars, committed' = committed
  PROVE  PoolsStored' /\ CreationRecorded'
  <1>1. \A o \in 1 .. committed : o \in 1 .. Len(log)
    BY DEF TypeOK
  <1>2. PoolsStored'
    <2> SUFFICES ASSUME NEW o \in 1 .. committed, NEW p \in Pools, log'[o].sound, Mentions(o, p)'
                 PROVE  table'[p] # NoRow \/ Poisoned(p, o)'
      BY DEF PoolsStored
    <2>1. log[o].sound /\ Mentions(o, p)
      BY <1>1, History
    <2>2. table[p] # NoRow \/ Poisoned(p, o)
      BY <2>1 DEF PoolsStored
    <2> QED BY <1>1, <2>2, History, TableKept
  <1>3. CreationRecorded'
    <2> SUFFICES ASSUME NEW o \in 1 .. committed, log'[o].sound, NEW i \in 1 .. Len(log'[o].events),
                        Creation(o, i)'
                 PROVE  table'[log'[o].events[i].pool] > 0
      BY DEF CreationRecorded, Creation
    <2>1. log[o].sound /\ i \in 1 .. Len(log[o].events) /\ Creation(o, i) /\ log'[o] = log[o]
      BY <1>1, History
    <2>2. table[log[o].events[i].pool] > 0
      BY <2>1 DEF CreationRecorded, Creation
    <2>3. log[o].events[i].pool \in Pools
      BY <1>1, <2>1, MessageTyped
    <2> QED BY <2>1, <2>2, <2>3, TableKept
  <1> QED BY <1>2, <1>3

-----------------------------------------------------------------------------
(* The types                                                                *)

\* The places of the LRU are kept by Get and Add, and a pool is seen only if it was or is
\* the one that is looked up.
LEMMA TouchTyped ==
  ASSUME place \in [Pools -> 0 .. CacheSize], NEW p \in Pools
  PROVE  /\ Touch(p) \in [Pools -> 0 .. CacheSize]
         /\ \A q \in Pools : Touch(p)[q] # 0 => q = p \/ Seen(q)
  <1> CacheSize \in Nat \ {0}
    BY LimitsAssumption
  <1> DEFINE from == IF Seen(p) THEN place[p] ELSE CacheSize + 1
  <1>1. from \in Nat
    BY DEF Seen
  <1>2. Touch(p) = [q \in Pools |-> IF q = p THEN 1
                       ELSE IF place[q] \notin 1 .. from - 1 THEN place[q]
                       ELSE IF place[q] = CacheSize THEN 0
                       ELSE place[q] + 1]
    BY DEF Touch
  <1> HIDE DEF from
  <1> QED BY <1>1, <1>2 DEF Seen

\* Every step keeps the types.
LEMMA TypeStep == TypeOK /\ Shape /\ [Next]_vars => TypeOK'
  <1> SUFFICES ASSUME TypeOK, Shape, [Next]_vars PROVE TypeOK'
    OBVIOUS
  <1> DEFINE Entry(n) == [offset : 1 .. n, rows : Seq(Row)]
  <1>1. /\ Len(log) \in Nat /\ Len(log') \in Nat /\ Len(log) <= Len(log') /\ log' \in Seq(Messages)
    BY LogGrows
  <1>2. queue \in Seq(Entry(Len(log)))
    BY DEF TypeOK
  <1>3. /\ committed \in 0 .. Len(log) /\ table \in [Pools -> Nat \union {NoRow}]
        /\ lives \in 1 .. MaxLives /\ received \in 0 .. Len(log)
        /\ phase \in {"idle", "build", "write"}
        /\ built \in Nat /\ rows \in Seq(Row) /\ place \in [Pools -> 0 .. CacheSize]
        /\ writing \subseteq Seq(Row)
    BY DEF TypeOK
  <1>4. SUFFICES /\ committed' \in 0 .. Len(log') /\ table' \in [Pools -> Nat \union {NoRow}]
                 /\ lives' \in 1 .. MaxLives /\ received' \in 0 .. Len(log')
                 /\ phase' \in {"idle", "build", "write"}
                 /\ built' \in Nat /\ rows' \in Seq(Row) /\ place' \in [Pools -> 0 .. CacheSize]
                 /\ queue' \in Seq(Entry(Len(log')))
                 /\ writing' \subseteq Seq(Row)
    BY <1>1 DEF TypeOK
  <1>5. ASSUME NEW m \in Messages, Produce(m) PROVE queue' \in Seq(Entry(Len(log')))
    <2>1. Entry(Len(log)) \subseteq Entry(Len(log'))
      BY <1>1
    <2>2. queue' = queue
      BY <1>5 DEF Produce
    <2> HIDE DEF Entry
    <2> QED BY <1>2, <2>1, <2>2, SeqOfMore
  <1>6. CASE \E m \in Messages : Produce(m)
    <2>1. PICK m \in Messages : Produce(m)
      BY <1>6
    <2>2. committed' \in 0 .. Len(log') /\ received' \in 0 .. Len(log')
      BY <1>1, <1>3, <2>1 DEF Produce
    <2> HIDE DEF Entry
    <2> QED BY <1>1, <1>3, <1>5, <2>1, <2>2 DEF Produce, build
  <1>7. CASE Receive
    BY <1>1, <1>2, <1>3, <1>7 DEF Receive, broker
  <1>8. CASE Build
    <2>1. received \in 1 .. Len(log) /\ built + 1 \in 1 .. Len(Events)
      BY <1>3, <1>8 DEF Build, Shape
    <2>2. Events[built + 1] \in Row /\ Events[built + 1].pool \in Pools
      BY <2>1, MessageTyped DEF Events
    <2>3. place' \in [Pools -> 0 .. CacheSize]
      BY <1>3, <1>8, <2>2, TouchTyped DEF Build
    <2>4. rows' \in Seq(Row)
      BY <1>3, <1>8, <2>2 DEF Build
    <2> QED BY <1>2, <1>3, <1>8, <2>3, <2>4 DEF Build, broker
  <1>9. CASE Enqueue
    <2>1. received \in 1 .. Len(log)
      BY <1>3, <1>9 DEF Enqueue, Shape
    <2>2. [offset |-> received, rows |-> rows] \in Entry(Len(log))
      BY <1>3, <2>1
    <2> HIDE DEF Entry
    <2>3. queue' \in Seq(Entry(Len(log'))) /\ log' = log
      BY <1>2, <1>9, <2>2 DEF Enqueue, broker
    <2> QED BY <1>3, <1>9, <2>3 DEF Enqueue, EndOfBuild, broker
  <1>10. CASE Panic
    BY <1>2, <1>3, <1>10 DEF Panic, EndOfBuild, broker
  <1>11. CASE StartFlush
    <2>1. writing' \subseteq Seq(Row)
      BY <1>11, Started
    <2> QED BY <1>2, <1>3, <1>11, <2>1 DEF StartFlush, broker, build
  <1>12. CASE WriteRow
    <2>1. PICK w \in writing :
            /\ table' = [table EXCEPT ![Head(w).pool] = Written(Head(w), @)]
            /\ writing' = (writing \ {w}) \union (IF Len(w) = 1 THEN {} ELSE {Tail(w)})
      BY <1>12 DEF WriteRow
    <2>2. /\ table' \in [Pools -> Nat \union {NoRow}]
          /\ w \in Seq(Row) /\ Len(w) \in Nat \ {0}
      BY <2>1, RowWritten
    <2>3. Tail(w) \in Seq(Row)
      BY <2>2
    <2>4. writing' \subseteq Seq(Row)
      BY <1>3, <2>1, <2>3
    <2> QED BY <1>2, <1>3, <1>12, <2>2, <2>4 DEF WriteRow, broker, build
  <1>13. CASE CommitLastMessage
    <2>1. FlushCount \in 1 .. Len(queue)
      BY <1>13, QueueTyped DEF CommitLastMessage, Shape
    <2>2. queue[FlushCount].offset \in 1 .. Len(log)
      BY <2>1, QueueTyped
    <2>3. log' = log /\ committed' \in 0 .. Len(log')
      BY <1>3, <1>13, <2>2 DEF CommitLastMessage
    <2> HIDE DEF Entry
    <2>4. queue' \in Seq(Entry(Len(log')))
      BY <1>2, <1>13, <2>1, <2>3 DEF CommitLastMessage
    <2> QED BY <1>3, <1>13, <2>3, <2>4 DEF CommitLastMessage, build
  <1>14. CASE Crash
    <2>1. lives' \in 1 .. MaxLives
      BY <1>3, <1>14, BoundAssumption DEF Crash
    <2>2. place' \in [Pools -> 0 .. CacheSize]
      BY <1>14, LimitsAssumption DEF Crash, CacheAtStart, NewPoolCache
    <2>3. queue' \in Seq(Entry(Len(log')))
      BY <1>14 DEF Crash
    <2> QED BY <1>3, <1>14, <2>1, <2>2, <2>3 DEF Crash, EndOfBuild, broker
  <1>15. CASE UNCHANGED vars
    BY <1>2, <1>3, <1>15 DEF vars, broker, build
  <1> QED BY <1>6, <1>7, <1>8, <1>9, <1>10, <1>11, <1>12, <1>13, <1>14, <1>15 DEF Next, WorkerStep

-----------------------------------------------------------------------------
(* The invariant, step by step                                              *)

\* What the parts of IInv say, with the ranges of what they speak of.
LEMMA Ranges ==
  ASSUME IInv
  PROVE  /\ Len(log) \in Nat /\ received \in 0 .. Len(log) /\ Finished \in 0 .. received
         /\ Finished \in 0 .. Len(log) /\ committed \in 0 .. Len(log) /\ built \in Nat
         /\ phase = "build" => /\ received \in 1 .. Len(log) /\ Finished = received - 1
                               /\ Len(Events) \in Nat /\ Events \in Seq(Row)
                               /\ \A l \in 1 .. built : /\ l \in 1 .. Len(Events) /\ Events[l] \in Row
                                                        /\ Events[l].pool \in Pools
         /\ phase # "build" => Finished = received /\ built = 0 /\ rows = <<>>
  <1>1. /\ Len(log) \in Nat /\ received \in 0 .. Len(log) /\ committed \in 0 .. Len(log) /\ built \in Nat
        /\ phase = "build" => received > 0 /\ built <= Len(Events)
        /\ phase # "build" => built = 0 /\ rows = <<>>
    BY DEF IInv, TypeOK, Shape
  <1>2. ASSUME phase = "build"
        PROVE  /\ received \in 1 .. Len(log) /\ Len(Events) \in Nat /\ Events \in Seq(Row)
               /\ \A l \in 1 .. built : /\ l \in 1 .. Len(Events) /\ Events[l] \in Row
                                        /\ Events[l].pool \in Pools
    <2>1. received \in 1 .. Len(log)
      BY <1>1, <1>2
    <2>2. /\ Events \in Seq(Row) /\ Len(Events) \in Nat
          /\ \A i \in 1 .. Len(Events) : Events[i] \in Row /\ Events[i].pool \in Pools
      BY <2>1, MessageTyped DEF Events, IInv
    <2>3. \A l \in 1 .. built : l \in 1 .. Len(Events)
      BY <1>1, <1>2, <2>2
    <2> QED BY <2>1, <2>2, <2>3
  <1> QED BY <1>1, <1>2 DEF Finished

\* A message is produced, or nothing happens.
LEMMA ProduceStep ==
  ASSUME IInv, TypeOK', [Next]_vars,
         UNCHANGED <<committed, table, received, phase, build, place, queue, writing>>
  PROVE  IInv'
  <1>1. /\ committed' = committed /\ table' = table /\ received' = received /\ phase' = phase
        /\ built' = built /\ rows' = rows /\ place' = place /\ queue' = queue /\ writing' = writing
    BY DEF build
  <1>2. TypeOK /\ Shape
    BY DEF IInv
  <1>3. Finished' = Finished
    BY <1>1 DEF Finished
  <1>4. phase = "build" => Events' = Events
    <2>1. phase = "build" => log'[received] = log[received]
      BY <1>2, Ranges, History
    <2> QED BY <1>1, <2>1 DEF Events
  <1>5. \A o \in 1 .. Finished : o \in 1 .. Len(log)
    BY Ranges
  <1>6. \A i \in 1 .. Len(queue) : queue[i].offset \in 1 .. Len(log)
    BY <1>2, QueueTyped
  <1>7. Shape'
    BY <1>1, <1>4 DEF IInv, Shape
  <1>8. Ordered'
    BY <1>1, <1>3 DEF IInv, Ordered
  <1>9. Named'
    <2>1. \A j \in 1 .. Len(rows') : \E l \in 1 .. built' : Events'[l] = rows'[j]
      <3>1. CASE phase = "build"
        BY <1>1, <1>4, <3>1 DEF IInv, Named
      <3>2. CASE phase # "build"
        BY <1>1, <3>2 DEF IInv, Shape
      <3> QED BY <3>1, <3>2
    <2>2. \A i \in 1 .. Len(queue) : log'[queue[i].offset] = log[queue[i].offset]
      BY <1>2, <1>6, History
    <2>3. ASSUME NEW i \in 1 .. Len(queue) PROVE RowsOf(queue[i].offset, queue[i].rows)'
      <3>1. RowsOf(queue[i].offset, queue[i].rows)
        BY DEF IInv, Named
      <3> QED BY <1>1, <2>2, <3>1, SMTT(30) DEF RowsOf
    <2> QED BY <1>1, <2>1, <2>3 DEF Named
  <1>10. SeenNamed'
    <2> SUFFICES ASSUME NEW p \in Pools, Seen(p)
                 PROVE  \/ \E n \in 1 .. Finished : Mentions(n, p)'
                        \/ \E l \in 1 .. built : Events'[l].pool = p
      BY <1>1, <1>3 DEF SeenNamed, Seen
    <2>1. CASE \E n \in 1 .. Finished : Mentions(n, p)
      BY <1>2, <1>5, <2>1, History
    <2>2. CASE \E l \in 1 .. built : Events[l].pool = p
      <3>1. phase = "build"
        BY <2>2, Ranges
      <3> QED BY <1>4, <2>2, <3>1
    <2> QED BY <2>1, <2>2 DEF IInv, SeenNamed
  <1>11. \A p : Pending(p)' <=> Pending(p)
    BY <1>1 DEF Pending
  <1>12. \A o, p : Queued(o, p)' <=> Queued(o, p)
    BY <1>1 DEF Queued
  <1>13. phase = "build" => \A p : Poisoned(p, received)' <=> Poisoned(p, received)
    BY <1>1, <1>2, Ranges, History
  <1>14. BuildCovered'
    <2> SUFFICES ASSUME NEW l \in 1 .. built
                 PROVE  (LET p == Events[l].pool IN table[p] # NoRow \/ Pending(p) \/ Poisoned(p, received))'
      BY <1>1 DEF BuildCovered
    <2>1. phase = "build"
      BY Ranges
    <2>2. PICK p : p = Events[l].pool
      OBVIOUS
    <2>3. table[p] # NoRow \/ Pending(p) \/ Poisoned(p, received)
      BY <2>2 DEF IInv, BuildCovered
    <2>4. Events'[l].pool = p
      BY <1>4, <2>1, <2>2
    <2>5. table'[p] # NoRow \/ Pending(p)' \/ Poisoned(p, received)'
      BY <1>1, <1>11, <1>13, <2>1, <2>3
    <2> QED BY <2>4, <2>5
  <1>15. Handled'
    <2> SUFFICES ASSUME NEW o \in 1 .. Finished, NEW p \in Pools, log'[o].sound, Mentions(o, p)'
                 PROVE  table'[p] # NoRow \/ Poisoned(p, o)' \/ Queued(o, p)'
      BY <1>3 DEF Handled
    <2>1. log[o].sound /\ Mentions(o, p)
      BY <1>2, <1>5, History
    <2>2. table[p] # NoRow \/ Poisoned(p, o) \/ Queued(o, p)
      BY <2>1 DEF IInv, Handled
    <2> QED BY <1>1, <1>2, <1>5, <1>12, <2>2, History
  <1>16. CreationBuilt'
    <2> SUFFICES ASSUME NEW l \in 1 .. built, Creation(received, l)'
                 PROVE  Leads(Events[l], rows)'
      BY <1>1 DEF CreationBuilt
    <2>1. phase = "build"
      BY Ranges
    <2>2. Creation(received, l)
      BY <1>1, <1>2, <2>1, Ranges, History
    <2>3. Leads(Events[l], rows)
      BY <2>2 DEF IInv, CreationBuilt
    <2> QED BY <1>1, <1>4, <2>1, <2>3 DEF Leads
  <1>17. CreationHandled'
    <2> SUFFICES ASSUME NEW o \in 1 .. Finished, log'[o].sound,
                        NEW i \in 1 .. Len(log'[o].events), Creation(o, i)'
                 PROVE  table'[log'[o].events[i].pool] > 0 \/ CreationQueued(o, i)'
      BY <1>3 DEF CreationHandled
    <2>1. log'[o] = log[o] /\ Creation(o, i)
      BY <1>2, <1>5, History
    <2>2. table[log[o].events[i].pool] > 0 \/ CreationQueued(o, i)
      BY <2>1 DEF IInv, CreationHandled
    <2>3. CreationQueued(o, i) => CreationQueued(o, i)'
      BY <1>1, <2>1 DEF CreationQueued, Leads
    <2> QED BY <1>1, <2>1, <2>2, <2>3
  <1>18. FlushCovered'
    <2>1. Dedup' = Dedup
      BY <1>1 DEF Dedup, Firsts, Agreeing, Positions, FlushCount, RowAt
    <2>2. \A d : (Put(d)' <=> Put(d)) /\ (Held(d)' <=> Held(d))
      BY <1>1 DEF Put, Held
    <2> QED BY <1>1, <2>1, <2>2 DEF IInv, FlushCovered
  <1>19. SeenIsCovered'
    <2> SUFFICES ASSUME NEW p \in Pools, Seen(p)
                 PROVE  table[p] # NoRow \/ Pending(p) \/ Poisoned(p, received)'
      BY <1>1, <1>11 DEF SeenIsCovered, Seen
    <2>1. Poisoned(p, received) => Poisoned(p, received)'
      <3>1. CASE received = 0
        BY <3>1 DEF Poisoned
      <3>2. CASE received # 0
        <4>1. received \in 1 .. Len(log)
          BY <3>2, Ranges
        <4> QED BY <1>1, <1>2, <4>1, History
      <3> QED BY <3>1, <3>2
    <2> QED BY <2>1 DEF IInv, SeenIsCovered
  <1>20. PoolsStored' /\ CreationRecorded'
    BY <1>1, CommittedKept DEF IInv
  <1> QED BY <1>7, <1>8, <1>9, <1>10, <1>14, <1>15, <1>16, <1>17, <1>18, <1>19, <1>20 DEF IInv

\* With the log nothing changes that is said of it.
LEMMA SameLog ==
  ASSUME log' = log
  PROVE  /\ \A o, p : Mentions(o, p)' <=> Mentions(o, p)
         /\ \A o, p : Poisoned(p, o)' <=> Poisoned(p, o)
         /\ \A o, i : Creation(o, i)' <=> Creation(o, i)
  BY DEF Mentions, Poisoned, Creation, First

\* Poisoned by more.
LEMMA StillPoisoned ==
  ASSUME NEW n \in Nat, NEW o \in Nat, n <= o, NEW p, Poisoned(p, n)
  PROVE  Poisoned(p, o)
  BY DEF Poisoned

\* A step that leaves the log, the table and the queue, and finishes no message, leaves what
\* is promised of finished ones.
LEMMA HandledKept ==
  ASSUME IInv, [Next]_vars, log' = log, table' = table, queue' = queue, Finished' = Finished,
         committed' = committed
  PROVE  /\ Handled' /\ CreationHandled' /\ Ordered' /\ PoolsStored' /\ CreationRecorded'
         /\ \A o, p : Queued(o, p)' <=> Queued(o, p)
  <1>1. \A o, p : Queued(o, p)' <=> Queued(o, p)
    BY DEF Queued
  <1>2. Handled'
    BY <1>1, SameLog DEF IInv, Handled
  <1>3. CreationHandled'
    BY SameLog DEF IInv, CreationHandled, CreationQueued, Leads
  <1>4. Ordered'
    BY DEF IInv, Ordered
  <1>5. PoolsStored' /\ CreationRecorded'
    BY CommittedKept DEF IInv
  <1> QED BY <1>1, <1>2, <1>3, <1>4, <1>5

\* A message is taken up.
LEMMA ReceiveStep == ASSUME IInv, TypeOK', Receive PROVE IInv'
  <1>1. /\ log' = log /\ committed' = committed /\ table' = table /\ place' = place
        /\ queue' = queue /\ writing' = writing
        /\ phase = "idle" /\ phase' = "build" /\ received' = received + 1
        /\ built' = 0 /\ rows' = <<>>
    BY DEF Receive, broker
  <1>2. /\ received \in Nat /\ Finished = received /\ Finished' = Finished /\ built = 0 /\ rows = <<>>
    <2>1. received \in Nat /\ Finished = received /\ built = 0 /\ rows = <<>>
      BY <1>1, Ranges
    <2> QED BY <1>1, <2>1 DEF Finished
  <1>3. [Next]_vars
    BY DEF Next, WorkerStep
  <1>4. Handled' /\ CreationHandled' /\ Ordered' /\ PoolsStored' /\ CreationRecorded'
    BY <1>1, <1>2, <1>3, HandledKept
  <1>5. Shape'
    <2>1. Len(Events') \in Nat
      <3>1. received' \in 1 .. Len(log)
        BY <1>1, <1>2 DEF Receive, IInv, TypeOK
      <3> QED BY <1>1, <3>1, MessageTyped DEF Events, IInv
    <2> QED BY <1>1, <1>2, <2>1 DEF IInv, Shape
  <1>6. Named'
    BY <1>1 DEF IInv, Named, RowsOf
  <1>7. SeenNamed'
    BY <1>1, <1>2, SameLog DEF IInv, SeenNamed, Seen
  <1>8. BuildCovered' /\ CreationBuilt' /\ FlushCovered'
    BY <1>1 DEF BuildCovered, CreationBuilt, FlushCovered
  <1>9. SeenIsCovered'
    <2> SUFFICES ASSUME NEW p \in Pools, Seen(p)
                 PROVE  table[p] # NoRow \/ Pending(p)' \/ Poisoned(p, received)'
      BY <1>1 DEF SeenIsCovered, Seen
    <2>1. Pending(p) => Pending(p)'
      BY <1>1, <1>2 DEF Pending
    <2>2. Poisoned(p, received) => Poisoned(p, received')
      <3>1. received' \in Nat /\ received <= received'
        BY <1>1, <1>2
      <3> QED BY <1>2, <3>1, StillPoisoned
    <2>3. Poisoned(p, received') => Poisoned(p, received)'
      BY <1>1 DEF Poisoned, Mentions
    <2> QED BY <2>1, <2>2, <2>3 DEF IInv, SeenIsCovered
  <1> QED BY <1>4, <1>5, <1>6, <1>7, <1>8, <1>9 DEF IInv

\* A row that leads its pool still does with more rows behind it.
LEMMA LeadsKept ==
  ASSUME NEW s \in Seq(Row), NEW x, NEW r, Leads(r, s)
  PROVE  Leads(r, Append(s, x))
  BY DEF Leads

\* An event is looked at.
LEMMA BuildStep == ASSUME IInv, TypeOK', Build PROVE IInv'
  <1> DEFINE r == Events[built + 1]
  <1>1. /\ log' = log /\ committed' = committed /\ table' = table /\ received' = received
        /\ phase = "build" /\ phase' = phase /\ queue' = queue /\ writing' = writing
        /\ built < Len(Events) /\ built' = built + 1
        /\ rows' = (IF Seen(r.pool) THEN rows ELSE Append(rows, r))
        /\ place' = Touch(r.pool)
    BY DEF Build, broker
  <1>2. /\ built \in Nat /\ received \in 1 .. Len(log) /\ Finished = received - 1
        /\ Len(Events) \in Nat /\ Events \in Seq(Row) /\ rows \in Seq(Row)
        /\ \A l \in 1 .. built : l \in 1 .. Len(Events) /\ Events[l] \in Row /\ Events[l].pool \in Pools
    BY <1>1, Ranges DEF IInv, TypeOK
  <1>3. Finished' = Finished /\ Events' = Events
    BY <1>1 DEF Finished, Events
  <1>4. [Next]_vars
    BY DEF Next, WorkerStep
  <1>5. Handled' /\ CreationHandled' /\ Ordered' /\ PoolsStored' /\ CreationRecorded'
    BY <1>1, <1>3, <1>4, HandledKept
  <1>6. built + 1 \in 1 .. Len(Events) /\ r \in Row /\ r.pool \in Pools
    <2>1. built + 1 \in 1 .. Len(Events)
      BY <1>1, <1>2
    <2>2. r \in Row
      BY <1>2, <2>1
    <2> HIDE DEF r
    <2> QED BY <2>1, <2>2 DEF Row
  <1>7. PICK e \in Row, p \in Pools : e = r /\ p = r.pool /\ p = e.pool
    BY <1>6
  <1> HIDE DEF r
  \* What is appended, and what stays.
  <1>8. rows' = rows \/ rows' = Append(rows, e)
    BY <1>1, <1>7
  <1>9. /\ Len(rows) \in Nat /\ Len(rows') \in Nat /\ Len(rows) <= Len(rows')
        /\ \A j \in 1 .. Len(rows) : rows'[j] = rows[j]
        /\ rows' # rows => Len(rows') = Len(rows) + 1 /\ rows'[Len(rows) + 1] = e
    BY <1>2, <1>8
  <1>10. \A q : Pending(q) => Pending(q)'
    BY <1>1, <1>9 DEF Pending
  <1>11. ~Seen(p) => Pending(p)'
    <2> SUFFICES ASSUME ~Seen(p) PROVE \E i \in 1 .. Len(rows') : rows'[i].pool = p
      BY DEF Pending
    <2>1. rows' = Append(rows, e)
      BY <1>1, <1>7
    <2>2. Len(rows') = Len(rows) + 1 /\ rows'[Len(rows) + 1] = e
      BY <1>2, <2>1
    <2> QED BY <1>7, <1>9, <2>2
  <1>12. \A q \in Pools : Seen(q)' => q = p \/ Seen(q)
    BY <1>1, <1>7, TouchTyped DEF Seen, IInv, TypeOK
  <1>13. \A q \in Pools : Seen(q) => table[q] # NoRow \/ Pending(q) \/ Poisoned(q, received)
    BY DEF IInv, SeenIsCovered
  <1>14. Events[built + 1] = e
    BY <1>7 DEF r
  <1>15. Shape'
    BY <1>1, <1>2, <1>3, <1>6 DEF IInv, Shape
  <1>16. Named'
    <2> SUFFICES ASSUME NEW j \in 1 .. Len(rows')
                 PROVE  \E l \in 1 .. built + 1 : Events[l] = rows'[j]
      BY <1>1, <1>3 DEF IInv, Named, RowsOf
    <2>1. CASE j \in 1 .. Len(rows)
      <3>1. PICK l \in 1 .. built : Events[l] = rows[j]
        BY <2>1 DEF IInv, Named
      <3> QED BY <1>2, <1>9, <2>1, <3>1
    <2>2. CASE j \notin 1 .. Len(rows)
      <3>1. rows'[j] = e
        BY <1>9, <2>2
      <3>2. built + 1 \in 1 .. built + 1
        BY <1>2
      <3> QED BY <1>14, <3>1, <3>2
    <2> QED BY <2>1, <2>2
  <1>17. SeenNamed'
    <2> SUFFICES ASSUME NEW q \in Pools, Seen(q)'
                 PROVE  (\E n \in 1 .. Finished : Mentions(n, q)') \/ \E l \in 1 .. built + 1 : Events[l].pool = q
      BY <1>1, <1>3 DEF SeenNamed
    <2>1. CASE q = p
      BY <1>2, <1>7, <1>14, <2>1
    <2>2. CASE Seen(q)
      <3>1. (\E n \in 1 .. Finished : Mentions(n, q)) \/ \E l \in 1 .. built : Events[l].pool = q
        BY <2>2 DEF IInv, SeenNamed
      <3> QED BY <1>1, <1>2, <3>1, SameLog
    <2> QED BY <1>12, <2>1, <2>2
  <1>18. BuildCovered'
    <2> SUFFICES ASSUME NEW l \in 1 .. built + 1
                 PROVE  (LET q == Events[l].pool IN table[q] # NoRow \/ Pending(q) \/ Poisoned(q, received))'
      BY <1>1 DEF BuildCovered
    <2>1. PICK q : q = Events[l].pool
      OBVIOUS
    <2>2. table[q] # NoRow \/ Pending(q)' \/ Poisoned(q, received)
      <3>1. CASE l \in 1 .. built
        <4>1. table[q] # NoRow \/ Pending(q) \/ Poisoned(q, received)
          BY <2>1, <3>1 DEF IInv, BuildCovered
        <4> QED BY <1>10, <4>1
      <3>2. CASE l = built + 1
        <4>1. q = p
          BY <1>7, <1>14, <2>1, <3>2
        <4> QED BY <1>10, <1>11, <1>13, <4>1
      <3> QED BY <1>2, <3>1, <3>2
    <2>3. table'[q] # NoRow \/ Pending(q)' \/ Poisoned(q, received)'
      <3>1. Poisoned(q, received) => Poisoned(q, received)'
        BY <1>1 DEF Poisoned, Mentions
      <3> QED BY <1>1, <2>2, <3>1
    <2> QED BY <1>3, <2>1, <2>3
  <1>19. CreationBuilt'
    <2> SUFFICES ASSUME NEW l \in 1 .. built + 1, Creation(received, l)'
                 PROVE  Leads(Events[l], rows)'
      BY <1>1 DEF CreationBuilt
    <2>1. Creation(received, l)
      BY <1>1 DEF Creation, First, Mentions
    <2>2. Leads(Events[l], rows') => Leads(Events[l], rows)'
      BY <1>3 DEF Leads
    <2>3. CASE l \in 1 .. built
      <3>1. Leads(Events[l], rows)
        BY <2>1, <2>3 DEF IInv, CreationBuilt
      <3>2. Leads(Events[l], rows')
        BY <1>2, <1>8, <3>1, LeadsKept
      <3> QED BY <2>2, <3>2
    <2>4. CASE l = built + 1
      <3>1. /\ \A n \in 1 .. received - 1 : ~Mentions(n, p)
            /\ \A i \in 1 .. built : Events[i].pool # p
        <4>1. log[received].events[l].pool = p /\ l - 1 = built
          BY <1>2, <1>7, <1>14, <2>4 DEF Events
        <4> QED BY <2>1, <4>1 DEF Creation, First, Events
      <3>2. ~Seen(p)
        BY <1>2, <3>1 DEF IInv, SeenNamed
      <3>3. rows' = Append(rows, e)
        BY <1>1, <1>7, <3>2
      <3>4. \A j \in 1 .. Len(rows) : rows[j].pool # p
        BY <3>1 DEF IInv, Named
      <3>5. Len(rows) + 1 \in 1 .. Len(rows') /\ rows'[Len(rows) + 1] = e
        BY <1>2, <1>9, <3>3
      <3>6. \A i \in 1 .. (Len(rows) + 1) - 1 : rows'[i].pool # e.pool
        BY <1>7, <1>9, <3>4
      <3>7. Leads(e, rows')
        BY <3>5, <3>6 DEF Leads
      <3> QED BY <1>14, <2>2, <2>4, <3>7
    <2> QED BY <1>2, <2>3, <2>4
  <1>20. FlushCovered'
    BY <1>1 DEF FlushCovered
  <1>21. SeenIsCovered'
    <2> SUFFICES ASSUME NEW q \in Pools, Seen(q)'
                 PROVE  table[q] # NoRow \/ Pending(q)' \/ Poisoned(q, received)'
      BY <1>1 DEF SeenIsCovered
    <2>1. Poisoned(q, received) => Poisoned(q, received)'
      BY <1>1 DEF Poisoned, Mentions
    <2> QED BY <1>10, <1>11, <1>12, <1>13, <2>1
  <1> QED BY <1>5, <1>15, <1>16, <1>17, <1>18, <1>19, <1>20, <1>21 DEF IInv

\* The rows of a message join the queue.
LEMMA EnqueueStep == ASSUME IInv, TypeOK', Enqueue PROVE IInv'
  <1> DEFINE L == Len(queue)
  <1>1. /\ log' = log /\ committed' = committed /\ table' = table /\ received' = received
        /\ phase = "build" /\ phase' = "idle" /\ place' = place /\ writing' = writing
        /\ log[received].sound /\ built = Len(Events) /\ built' = 0 /\ rows' = <<>>
        /\ queue' = Append(queue, [offset |-> received, rows |-> rows])
    BY DEF Enqueue, EndOfBuild, broker
  <1>2. /\ built \in Nat /\ received \in 1 .. Len(log) /\ Finished = received - 1 /\ Finished' = received
        /\ Len(log) \in Nat
    BY <1>1, Ranges DEF Finished
  <1>3. [Next]_vars
    BY DEF Next, WorkerStep
  \* The old queue is the beginning of the new one.
  <1>4. /\ L \in Nat /\ Len(queue') = L + 1
        /\ \A i \in 1 .. L : queue'[i] = queue[i]
        /\ queue'[L + 1].offset = received /\ queue'[L + 1].rows = rows
    <2> DEFINE Entry == [offset : 1 .. Len(log), rows : Seq(Row)]
               e == [offset |-> received, rows |-> rows]
    <2>1. queue \in Seq(Entry)
      BY DEF IInv, TypeOK
    <2>2. e.offset = received /\ e.rows = rows /\ queue' = Append(queue, e)
      BY <1>1
    <2> HIDE DEF Entry, e
    <2> QED BY <2>1, <2>2
  <1>5. \A q : Pending(q) => Pending(q)'
    <2> SUFFICES ASSUME NEW q, Pending(q)
                 PROVE  \E i \in 1 .. L + 1 : \E j \in 1 .. Len(queue'[i].rows) : queue'[i].rows[j].pool = q
      BY <1>4 DEF Pending
    <2>1. CASE \E i \in 1 .. Len(rows) : rows[i].pool = q
      <3>1. L + 1 \in 1 .. L + 1
        BY <1>4
      <3> QED BY <1>4, <2>1, <3>1
    <2>2. CASE \E i \in 1 .. Len(queue) : \E j \in 1 .. Len(queue[i].rows) : queue[i].rows[j].pool = q
      BY <1>4, <2>2
    <2> QED BY <2>1, <2>2 DEF Pending
  <1>6. \A q : Pending(q) => Queued(received, q)'
    <2> SUFFICES ASSUME NEW q, Pending(q) PROVE Queued(received, q)'
      OBVIOUS
    <2>1. PICK i \in 1 .. L + 1 : \E j \in 1 .. Len(queue'[i].rows) : queue'[i].rows[j].pool = q
      BY <1>1, <1>4, <1>5 DEF Pending
    <2>2. queue'[i].offset <= received
      <3>1. \A k \in 1 .. L : queue[k].offset <= Finished /\ queue[k].offset \in 1 .. Len(log)
        BY QueueTyped DEF IInv, Ordered
      <3> QED BY <1>2, <1>4, <3>1
    <2> QED BY <1>1, <1>4, <2>1, <2>2 DEF Queued
  <1>7. Shape'
    BY <1>1 DEF IInv, Shape
  <1>8. Ordered'
    <2> SUFFICES ASSUME NEW i \in 1 .. L + 1
                 PROVE  queue'[i].offset <= received /\ \A j \in 1 .. i - 1 : queue'[j].offset < queue'[i].offset
      BY <1>2, <1>4 DEF Ordered
    <2>1. \A k \in 1 .. L : /\ queue[k].offset <= received - 1 /\ queue[k].offset \in 1 .. Len(log)
                            /\ \A j \in 1 .. k - 1 : queue[j].offset < queue[k].offset
      BY <1>2, QueueTyped DEF IInv, Ordered
    <2>2. CASE i \in 1 .. L
      <3>1. \A j \in 1 .. i - 1 : j \in 1 .. L
        BY <1>4, <2>2
      <3> QED BY <1>2, <1>4, <2>1, <2>2, <3>1
    <2>3. CASE i = L + 1
      <3>1. \A j \in 1 .. i - 1 : j \in 1 .. L
        BY <1>4, <2>3
      <3> QED BY <1>2, <1>4, <2>1, <2>3, <3>1
    <2> QED BY <1>4, <2>2, <2>3
  <1>9. Named'
    <2>1. RowsOf(received, rows)
      BY <1>1 DEF IInv, Named, RowsOf, Events
    <2>2. \A o, q : RowsOf(o, q)' <=> RowsOf(o, q)
      BY <1>1 DEF RowsOf
    <2>3. ASSUME NEW i \in 1 .. L + 1 PROVE RowsOf(queue'[i].offset, queue'[i].rows)
      <3>1. i \in 1 .. L \/ i = L + 1
        BY <1>4
      <3>2. CASE i \in 1 .. L
        BY <1>4, <3>2 DEF IInv, Named
      <3>3. CASE i = L + 1
        BY <1>4, <2>1, <3>3
      <3> QED BY <3>1, <3>2, <3>3
    <2>4. \A i \in 1 .. Len(queue') : RowsOf(queue[i].offset, queue[i].rows)'
      <3>1. \A i \in 1 .. L + 1 : RowsOf(queue[i].offset, queue[i].rows)'
        BY <1>1, <2>3 DEF RowsOf
      <3> QED BY <1>4, <3>1
    <2> QED BY <1>1, <2>4 DEF Named
  <1>10. SeenNamed'
    <2> SUFFICES ASSUME NEW p \in Pools, Seen(p)
                 PROVE  \E n \in 1 .. received : Mentions(n, p)
      BY <1>1, <1>2, SameLog DEF SeenNamed, Seen
    <2>1. CASE \E n \in 1 .. Finished : Mentions(n, p)
      BY <1>2, <2>1
    <2>2. CASE \E l \in 1 .. built : Events[l].pool = p
      BY <1>1, <1>2, <2>2 DEF Mentions, Events
    <2> QED BY <2>1, <2>2 DEF IInv, SeenNamed
  <1>11. BuildCovered' /\ CreationBuilt' /\ FlushCovered'
    BY <1>1 DEF BuildCovered, CreationBuilt, FlushCovered
  <1>12. Handled'
    <2> SUFFICES ASSUME NEW o \in 1 .. received, NEW p \in Pools, log[o].sound, Mentions(o, p)
                 PROVE  table[p] # NoRow \/ Poisoned(p, o) \/ Queued(o, p)'
      BY <1>1, <1>2, SameLog DEF Handled
    <2>1. CASE o = received
      <3>1. PICK l \in 1 .. built : Events[l].pool = p
        BY <1>1, <2>1 DEF Mentions, Events
      <3>2. table[p] # NoRow \/ Pending(p) \/ Poisoned(p, received)
        BY <3>1 DEF IInv, BuildCovered
      <3>3. Queued(received, p)' => Queued(o, p)'
        BY <1>1, <2>1 DEF Queued
      <3> QED BY <1>6, <2>1, <3>2, <3>3
    <2>2. CASE o # received
      <3>1. o \in 1 .. Finished
        BY <1>2, <2>2
      <3>2. table[p] # NoRow \/ Poisoned(p, o) \/ Queued(o, p)
        BY <3>1 DEF IInv, Handled
      <3>3. Queued(o, p) => Queued(o, p)'
        BY <1>4 DEF Queued
      <3> QED BY <3>2, <3>3
    <2> QED BY <2>1, <2>2
  <1>13. CreationHandled'
    <2> SUFFICES ASSUME NEW o \in 1 .. received, log[o].sound,
                        NEW i \in 1 .. Len(log[o].events), Creation(o, i)'
                 PROVE  table[log[o].events[i].pool] > 0 \/ CreationQueued(o, i)'
      BY <1>1, <1>2 DEF CreationHandled
    <2>0. Creation(o, i)
      BY <1>1, SameLog
    <2>1. CASE o = received
      <3>1. Leads(log[o].events[i], rows)
        BY <1>1, <2>0, <2>1 DEF IInv, CreationBuilt, Events
      <3>2. L + 1 \in 1 .. Len(queue')
        BY <1>4
      <3>3. CreationQueued(o, i)'
        BY <1>1, <1>4, <2>1, <3>1, <3>2 DEF CreationQueued, Leads
      <3> QED BY <3>3
    <2>2. CASE o # received
      <3>1. o \in 1 .. Finished
        BY <1>2, <2>2
      <3>2. table[log[o].events[i].pool] > 0 \/ CreationQueued(o, i)
        BY <2>0, <3>1 DEF IInv, CreationHandled
      <3>3. CreationQueued(o, i) => CreationQueued(o, i)'
        BY <1>1, <1>4 DEF CreationQueued, Leads
      <3> QED BY <3>2, <3>3
    <2> QED BY <2>1, <2>2
  <1>14. SeenIsCovered'
    <2> SUFFICES ASSUME NEW p \in Pools, Seen(p)
                 PROVE  table[p] # NoRow \/ Pending(p)' \/ Poisoned(p, received)'
      BY <1>1 DEF SeenIsCovered, Seen
    <2>1. Poisoned(p, received) => Poisoned(p, received)'
      BY <1>1 DEF Poisoned, Mentions
    <2> QED BY <1>5, <2>1 DEF IInv, SeenIsCovered
  <1>15. PoolsStored' /\ CreationRecorded'
    BY <1>1, <1>3, CommittedKept DEF IInv
  <1> QED BY <1>7, <1>8, <1>9, <1>10, <1>11, <1>12, <1>13, <1>14, <1>15 DEF IInv

\* A message that cannot be decoded is dropped with its rows: its pools are poisoned.
LEMMA PanicStep == ASSUME IInv, TypeOK', Panic PROVE IInv'
  <1>1. /\ log' = log /\ committed' = committed /\ table' = table /\ received' = received
        /\ phase = "build" /\ phase' = "idle" /\ place' = place /\ writing' = writing
        /\ queue' = queue /\ ~log[received].sound /\ built' = 0 /\ rows' = <<>>
    BY DEF Panic, EndOfBuild, broker
  <1>2. /\ built \in Nat /\ received \in 1 .. Len(log) /\ Finished = received - 1 /\ Finished' = received
        /\ \A l \in 1 .. built : l \in 1 .. Len(Events)
    BY <1>1, Ranges DEF Finished
  <1>3. [Next]_vars
    BY DEF Next, WorkerStep
  <1>4. \A l \in 1 .. built : Mentions(received, Events[l].pool)
    BY <1>2 DEF Mentions, Events
  <1>5. \A o, p : Queued(o, p)' <=> Queued(o, p)
    BY <1>1 DEF Queued
  <1>6. Shape'
    BY <1>1 DEF IInv, Shape
  <1>7. Ordered'
    <2>1. \A i \in 1 .. Len(queue) : queue[i].offset <= received
      <3>1. \A k \in 1 .. Len(queue) : queue[k].offset <= received - 1 /\ queue[k].offset \in 1 .. Len(log)
        BY <1>2, QueueTyped DEF IInv, Ordered
      <3> QED BY <1>2, <3>1
    <2> QED BY <1>1, <1>2, <2>1 DEF IInv, Ordered
  <1>8. Named'
    BY <1>1 DEF IInv, Named, RowsOf
  <1>9. SeenNamed'
    <2> SUFFICES ASSUME NEW p \in Pools, Seen(p)
                 PROVE  \E n \in 1 .. received : Mentions(n, p)
      BY <1>1, <1>2, SameLog DEF SeenNamed, Seen
    <2> QED BY <1>2, <1>4 DEF IInv, SeenNamed
  <1>10. BuildCovered' /\ CreationBuilt' /\ FlushCovered'
    BY <1>1 DEF BuildCovered, CreationBuilt, FlushCovered
  <1>11. Handled'
    <2> SUFFICES ASSUME NEW o \in 1 .. received, NEW p \in Pools, log[o].sound, Mentions(o, p)
                 PROVE  table[p] # NoRow \/ Poisoned(p, o) \/ Queued(o, p)
      BY <1>1, <1>2, <1>5, SameLog DEF Handled
    <2>1. o \in 1 .. Finished
      BY <1>1, <1>2
    <2> QED BY <2>1 DEF IInv, Handled
  <1>12. CreationHandled'
    <2> SUFFICES ASSUME NEW o \in 1 .. received, log[o].sound,
                        NEW i \in 1 .. Len(log[o].events), Creation(o, i)'
                 PROVE  table[log[o].events[i].pool] > 0 \/ CreationQueued(o, i)'
      BY <1>1, <1>2 DEF CreationHandled
    <2>0. Creation(o, i)
      BY <1>1, SameLog
    <2>1. o \in 1 .. Finished
      BY <1>1, <1>2
    <2>2. CreationQueued(o, i) => CreationQueued(o, i)'
      BY <1>1 DEF CreationQueued, Leads
    <2> QED BY <2>0, <2>1, <2>2 DEF IInv, CreationHandled
  <1>13. SeenIsCovered'
    <2> SUFFICES ASSUME NEW p \in Pools, Seen(p)
                 PROVE  table[p] # NoRow \/ Pending(p)' \/ Poisoned(p, received)'
      BY <1>1 DEF SeenIsCovered, Seen
    <2>1. Poisoned(p, received) => Poisoned(p, received)'
      BY <1>1 DEF Poisoned, Mentions
    <2>2. Pending(p) => Pending(p)' \/ Poisoned(p, received)
      <3>1. CASE \E i \in 1 .. Len(rows) : rows[i].pool = p
        <4>1. PICK l \in 1 .. built : Events[l].pool = p
          BY <3>1 DEF IInv, Named
        <4>2. Mentions(received, p)
          BY <1>4, <4>1
        <4> QED BY <1>1, <1>2, <4>2 DEF Poisoned
      <3>2. CASE \E i \in 1 .. Len(queue) : \E j \in 1 .. Len(queue[i].rows) : queue[i].rows[j].pool = p
        BY <1>1, <3>2 DEF Pending
      <3> QED BY <3>1, <3>2 DEF Pending
    <2> QED BY <2>1, <2>2 DEF IInv, SeenIsCovered
  <1>14. PoolsStored' /\ CreationRecorded'
    BY <1>1, <1>3, CommittedKept DEF IInv
  <1> QED BY <1>6, <1>7, <1>8, <1>9, <1>10, <1>11, <1>12, <1>13, <1>14 DEF IInv

\* With the queue nothing changes of a flush.
LEMMA SameQueue ==
  ASSUME queue' = queue
  PROVE  Dedup' = Dedup /\ FlushCount' = FlushCount
  BY DEF Dedup, Firsts, Agreeing, Positions, FlushCount, RowAt

\* A step between messages that leaves cache, log and queue, and takes no row from the table,
\* leaves what is said of them.
LEMMA BetweenMessages ==
  ASSUME IInv, [Next]_vars, phase # "build", phase' # "build",
         log' = log, committed' = committed, received' = received, place' = place, queue' = queue,
         built' = built, rows' = rows,
         \A p \in Pools : /\ table[p] # NoRow => table'[p] # NoRow
                          /\ table[p] > 0 => table'[p] > 0
  PROVE  /\ Ordered' /\ Named' /\ SeenNamed' /\ BuildCovered' /\ Handled' /\ CreationBuilt'
         /\ CreationHandled' /\ SeenIsCovered' /\ PoolsStored' /\ CreationRecorded'
  <1>1. /\ Finished = received /\ Finished' = received /\ built = 0 /\ rows = <<>>
        /\ \A o \in 1 .. received : o \in 1 .. Len(log)
    <2>1. Finished = received /\ built = 0 /\ rows = <<>> /\ \A o \in 1 .. received : o \in 1 .. Len(log)
      BY Ranges
    <2> QED BY <2>1 DEF Finished
  <1>2. /\ \A o, p : Queued(o, p)' <=> Queued(o, p)
        /\ \A p : Pending(p)' <=> Pending(p)
    BY DEF Queued, Pending
  <1>3. Ordered'
    BY <1>1 DEF IInv, Ordered
  <1>4. Named'
    BY <1>1 DEF IInv, Named, RowsOf
  <1>5. SeenNamed'
    BY <1>1, SameLog DEF IInv, SeenNamed, Seen
  <1>6. BuildCovered' /\ CreationBuilt'
    BY <1>1 DEF BuildCovered, CreationBuilt
  <1>7. Handled'
    <2> SUFFICES ASSUME NEW o \in 1 .. received, NEW p \in Pools, log[o].sound, Mentions(o, p)
                 PROVE  table'[p] # NoRow \/ Poisoned(p, o) \/ Queued(o, p)
      BY <1>1, <1>2, SameLog DEF Handled
    <2> QED BY <1>1 DEF IInv, Handled
  <1>8. CreationHandled'
    <2> SUFFICES ASSUME NEW o \in 1 .. received, log[o].sound,
                        NEW i \in 1 .. Len(log[o].events), Creation(o, i)'
                 PROVE  table'[log[o].events[i].pool] > 0 \/ CreationQueued(o, i)'
      BY <1>1 DEF CreationHandled
    <2>1. Creation(o, i)
      BY SameLog
    <2>2. table[log[o].events[i].pool] > 0 \/ CreationQueued(o, i)
      BY <1>1, <2>1 DEF IInv, CreationHandled
    <2>3. CreationQueued(o, i) => CreationQueued(o, i)'
      BY DEF CreationQueued, Leads
    <2>4. log[o].events[i].pool \in Pools
      BY <1>1, MessageTyped DEF IInv
    <2> QED BY <2>2, <2>3, <2>4
  <1>9. SeenIsCovered'
    <2> SUFFICES ASSUME NEW p \in Pools, Seen(p)
                 PROVE  table'[p] # NoRow \/ Pending(p) \/ Poisoned(p, received)'
      BY <1>2 DEF SeenIsCovered, Seen
    <2>1. Poisoned(p, received) => Poisoned(p, received)'
      BY DEF Poisoned, Mentions
    <2> QED BY <2>1 DEF IInv, SeenIsCovered
  <1>10. PoolsStored' /\ CreationRecorded'
    BY CommittedKept DEF IInv
  <1> QED BY <1>3, <1>4, <1>5, <1>6, <1>7, <1>8, <1>9, <1>10

\* A flush starts: every row that is to be written is with a goroutine.
LEMMA StartFlushStep == ASSUME IInv, TypeOK', StartFlush PROVE IInv'
  <1>1. /\ log' = log /\ committed' = committed /\ received' = received /\ place' = place
        /\ queue' = queue /\ built' = built /\ rows' = rows /\ table' = table
        /\ phase = "idle" /\ phase' = "write" /\ queue # <<>>
    BY DEF StartFlush, broker, build
  <1>2. [Next]_vars
    BY DEF Next, WorkerStep
  <1>3. /\ <<>> \notin writing'
        /\ \A d \in Dedup : \E w \in writing' : \E j \in 1 .. Len(w) : w[j] = d
    BY Started DEF IInv
  <1>4. Shape'
    BY <1>1, <1>3 DEF IInv, Shape
  <1>5. FlushCovered'
    <2>1. \A d \in Dedup : Held(d)'
      BY <1>3 DEF Held
    <2> QED BY <1>1, <2>1, SameQueue DEF FlushCovered
  <1>6. /\ Ordered' /\ Named' /\ SeenNamed' /\ BuildCovered' /\ Handled' /\ CreationBuilt'
        /\ CreationHandled' /\ SeenIsCovered' /\ PoolsStored' /\ CreationRecorded'
    <2>1. phase # "build" /\ phase' # "build"
      BY <1>1
    <2>2. \A p \in Pools : /\ table[p] # NoRow => table'[p] # NoRow
                           /\ table[p] > 0 => table'[p] > 0
      BY <1>1
    <2> QED BY <1>1, <1>2, <2>1, <2>2, BetweenMessages
  <1> QED BY <1>4, <1>5, <1>6 DEF IInv

\* A row is written: it is in the table, the others where they were.
LEMMA WriteRowStep == ASSUME IInv, TypeOK', WriteRow PROVE IInv'
  <1>1. /\ log' = log /\ committed' = committed /\ received' = received /\ place' = place
        /\ queue' = queue /\ built' = built /\ rows' = rows
        /\ phase = "write" /\ phase' = phase
    BY DEF WriteRow, broker, build
  <1>2. [Next]_vars
    BY DEF Next, WorkerStep
  <1>3. PICK w \in writing :
          /\ table' = [table EXCEPT ![Head(w).pool] = Written(Head(w), @)]
          /\ writing' = (writing \ {w}) \union (IF Len(w) = 1 THEN {} ELSE {Tail(w)})
    BY DEF WriteRow
  <1>4. /\ w \in Seq(Row) /\ Len(w) \in Nat \ {0} /\ Head(w) = w[1] /\ w[1] \in Row
        /\ table'[w[1].pool] \in Nat /\ (w[1].created > 0 => table'[w[1].pool] > 0)
        /\ \A p \in Pools : /\ table[p] # NoRow => table'[p] # NoRow
                            /\ table[p] > 0 => table'[p] > 0
    BY <1>3, RowWritten DEF IInv
  <1>5. Len(w) # 1 => /\ Tail(w) \in Seq(Row) /\ Len(Tail(w)) = Len(w) - 1 /\ Tail(w) # <<>>
                      /\ \A j \in 2 .. Len(w) : j - 1 \in 1 .. Len(Tail(w)) /\ Tail(w)[j - 1] = w[j]
    <2>1. w # <<>> /\ w \in Seq(Row)
      BY <1>4
    <2>2. Tail(w) \in Seq(Row) /\ Len(Tail(w)) = Len(w) - 1
      BY <2>1
    <2>3. \A n \in 1 .. Len(w) - 1 : Tail(w)[n] = w[n + 1]
      BY <2>1
    <2>4. ASSUME NEW j \in 2 .. Len(w) PROVE j - 1 \in 1 .. Len(w) - 1 /\ (j - 1) + 1 = j
      BY <1>4
    <2>5. ASSUME Len(w) # 1, Tail(w) = <<>> PROVE FALSE
      <3>1. Len(<<>>) = 0 /\ Len(w) - 1 # 0
        BY <1>4, <2>5
      <3> QED BY <2>2, <2>5, <3>1
    <2> QED BY <2>2, <2>3, <2>4, <2>5
  <1>6. Shape'
    BY <1>1, <1>3, <1>5 DEF IInv, Shape
  <1>7. FlushCovered'
    <2> SUFFICES ASSUME NEW d \in Dedup PROVE Put(d)' \/ Held(d)'
      BY <1>1, SameQueue DEF FlushCovered
    <2>1. d.pool \in Pools
      BY DedupTyped DEF Row, IInv
    <2>2. Put(d) \/ Held(d)
      BY <1>1 DEF IInv, FlushCovered
    <2>3. CASE Put(d)
      BY <1>4, <2>1, <2>3 DEF Put
    <2>4. CASE Held(d)
      <3>1. PICK v \in writing : \E j \in 1 .. Len(v) : v[j] = d
        BY <2>4 DEF Held
      <3>2. CASE v # w
        BY <1>3, <3>1, <3>2 DEF Held
      <3>3. CASE v = w
        <4>1. PICK j \in 1 .. Len(w) : w[j] = d
          BY <3>1, <3>3
        <4>2. CASE j = 1
          BY <1>4, <4>1, <4>2 DEF Put, NoRow
        <4>3. CASE j # 1
          <5>1. Len(w) # 1 /\ j \in 2 .. Len(w)
            BY <1>4, <4>1, <4>3
          <5>2. Tail(w) \in writing' /\ j - 1 \in 1 .. Len(Tail(w)) /\ Tail(w)[j - 1] = d
            BY <1>3, <1>5, <4>1, <5>1
          <5> QED BY <5>2 DEF Held
        <4> QED BY <4>2, <4>3
      <3> QED BY <3>2, <3>3
    <2> QED BY <2>2, <2>3, <2>4
  <1>8. /\ Ordered' /\ Named' /\ SeenNamed' /\ BuildCovered' /\ Handled' /\ CreationBuilt'
        /\ CreationHandled' /\ SeenIsCovered' /\ PoolsStored' /\ CreationRecorded'
    <2>1. phase # "build" /\ phase' # "build"
      BY <1>1
    <2> QED BY <1>1, <1>2, <1>4, <2>1, BetweenMessages
  <1> QED BY <1>6, <1>7, <1>8 DEF IInv

\* When a flush has written all its rows, its pools are in the table.
LEMMA FlushStored ==
  ASSUME IInv, phase = "write", writing = {}, NEW k \in 1 .. FlushCount, NEW j \in 1 .. Len(queue[k].rows)
  PROVE  table[queue[k].rows[j].pool] # NoRow
  <1>1. <<k, j>> \in Positions /\ RowAt(<<k, j>>) = queue[k].rows[j]
    BY PositionsTyped DEF RowAt, IInv
  <1>2. PICK d \in Dedup : d.pool = queue[k].rows[j].pool
    BY <1>1, PoolStays DEF IInv
  <1>3. Put(d)
    BY DEF IInv, FlushCovered, Held
  <1> QED BY <1>2, <1>3 DEF Put

\* So is the time of a creation: no row of its pool comes before it.
LEMMA FlushRecorded ==
  ASSUME IInv, phase = "write", writing = {}, NEW o \in 1 .. Len(log), NEW i \in 1 .. Len(log[o].events),
         Creation(o, i), NEW k \in 1 .. FlushCount, queue[k].offset = o,
         Leads(log[o].events[i], queue[k].rows)
  PROVE  table[log[o].events[i].pool] > 0
  <1>1. PICK e : e = log[o].events[i]
    OBVIOUS
  <1>2. PICK j \in 1 .. Len(queue[k].rows) : /\ queue[k].rows[j] = e
                                             /\ \A n \in 1 .. j - 1 : queue[k].rows[n].pool # e.pool
    BY <1>1 DEF Leads
  <1>3. e.created > 0 /\ \A n \in 1 .. o - 1 : ~Mentions(n, e.pool)
    BY <1>1 DEF Creation, First
  <1> DEFINE x == <<k, j>>
  <1>4. x \in Positions /\ RowAt(x) = e
    BY <1>2, PositionsTyped DEF RowAt, IInv
  <1>5. ASSUME NEW y \in Positions, Before(y, x) PROVE RowAt(y).pool # e.pool
    <2>1. /\ y[1] \in 1 .. FlushCount /\ y[2] \in 1 .. Len(queue[y[1]].rows)
          /\ RowAt(y) = queue[y[1]].rows[y[2]]
      BY PositionsTyped DEF RowAt, IInv
    <2>2. FlushCount \in 0 .. Len(queue) /\ Len(queue) \in Nat /\ Len(queue[k].rows) \in Nat
      <3>1. FlushCount \in 0 .. Len(queue) /\ Len(queue) \in Nat
        BY QueueTyped DEF IInv
      <3>2. k \in 1 .. Len(queue)
        BY <3>1
      <3> QED BY <3>1, <3>2, QueueTyped DEF IInv
    <2>3. CASE y[1] < k
      <3>1. PICK n \in Nat : n = y[1]
        BY <2>1
      <3>2. n \in 1 .. k - 1 /\ n \in 1 .. Len(queue) /\ k \in 1 .. Len(queue)
        BY <2>1, <2>2, <2>3, <3>1, SMTT(30)
      <3>3. queue[n].offset < o /\ queue[n].offset \in 1 .. Len(log)
        BY <3>2, QueueTyped DEF IInv, Ordered
      <3>4. PICK l \in 1 .. Len(log[queue[n].offset].events) :
              log[queue[n].offset].events[l] = RowAt(y)
        <4>1. RowsOf(queue[n].offset, queue[n].rows)
          BY <3>2 DEF IInv, Named
        <4>2. y[2] \in 1 .. Len(queue[n].rows) /\ RowAt(y) = queue[n].rows[y[2]]
          BY <2>1, <3>1
        <4> QED BY <4>1, <4>2 DEF RowsOf
      <3>5. Mentions(queue[n].offset, RowAt(y).pool)
        BY <3>4 DEF Mentions
      <3>6. queue[n].offset \in 1 .. o - 1
        BY <3>3
      <3> QED BY <1>3, <3>5, <3>6
    <2>4. CASE y[1] = k /\ y[2] < j
      <3>1. y[2] \in 1 .. j - 1
        BY <1>2, <2>1, <2>2, <2>4
      <3> QED BY <1>2, <2>1, <2>4, <3>1
    <2>5. x[1] = k /\ x[2] = j
      OBVIOUS
    <2> QED BY <1>5, <2>3, <2>4, <2>5 DEF Before
  <1>6. x \in Firsts
    BY <1>4, <1>5 DEF Firsts, SameKey
  <1>7. PICK d \in Dedup : d.pool = e.pool /\ d.created > 0
    BY <1>3, <1>4, <1>6, FirstStays DEF IInv
  <1>8. Put(d)
    BY DEF IInv, FlushCovered, Held
  <1> QED BY <1>1, <1>7, <1>8 DEF Put

\* A flush ends: what leaves the queue is in the table, so the commit may cover it.
LEMMA CommitStep == ASSUME IInv, TypeOK', CommitLastMessage PROVE IInv'
  <1> DEFINE F == FlushCount
             L == Len(queue)
  <1>1. /\ log' = log /\ table' = table /\ received' = received /\ place' = place
        /\ built' = built /\ rows' = rows /\ writing' = writing
        /\ phase = "write" /\ phase' = "idle" /\ writing = {}
        /\ committed' \in {committed, queue[F].offset}
        /\ queue' = SubSeq(queue, F + 1, Len(queue))
    BY DEF CommitLastMessage, build
  <1>2. /\ Finished = received /\ Finished' = received /\ built = 0 /\ rows = <<>>
        /\ received \in Nat /\ Len(log) \in Nat /\ \A o \in 1 .. received : o \in 1 .. Len(log)
    <2>1. /\ Finished = received /\ built = 0 /\ rows = <<>>
          /\ received \in 0 .. Len(log) /\ Len(log) \in Nat
      BY <1>1, Ranges
    <2>2. Finished' = received
      BY <1>1 DEF Finished
    <2> QED BY <2>1, <2>2
  <1>3. F \in 1 .. L /\ L \in Nat
    BY <1>1, QueueTyped DEF IInv, Shape
  <1>4. /\ Len(queue') = L - F
        /\ \A k \in 1 .. L - F : k + F \in 1 .. L /\ queue'[k] = queue[k + F]
    <2> DEFINE Entry == [offset : 1 .. Len(log), rows : Seq(Row)]
    <2>1. queue \in Seq(Entry) /\ F \in 1 .. Len(queue)
      BY <1>3 DEF IInv, TypeOK
    <2> HIDE DEF Entry, F
    <2> QED BY <1>1, <2>1
  <1>5. \A k \in 1 .. L : k \in 1 .. F \/ (k - F \in 1 .. L - F /\ queue'[k - F] = queue[k])
    <2> SUFFICES ASSUME NEW k \in 1 .. L, k \notin 1 .. F
                 PROVE  k - F \in 1 .. L - F /\ queue'[k - F] = queue[k]
      OBVIOUS
    <2> HIDE DEF F, L
    <2>1. k - F \in 1 .. L - F /\ (k - F) + F = k
      BY <1>3
    <2>2. queue'[k - F] = queue[(k - F) + F]
      BY <1>4, <2>1
    <2> QED BY <2>1, <2>2
  <1>0. \A k \in 1 .. L : queue[k].offset \in Nat
    <2>1. \A k \in 1 .. L : queue[k].offset \in 1 .. Len(log)
      BY QueueTyped DEF IInv
    <2> QED BY <2>1
  \* What is in the queue stays there, or is in the table.
  <1>6. \A k \in 1 .. F : \A j \in 1 .. Len(queue[k].rows) : table[queue[k].rows[j].pool] # NoRow
    BY <1>1, FlushStored
  <1> HIDE DEF F, L
  <1>7. ASSUME NEW p, Pending(p) PROVE table[p] # NoRow \/ Pending(p)'
    <2>1. PICK k \in 1 .. L : \E j \in 1 .. Len(queue[k].rows) : queue[k].rows[j].pool = p
      BY <1>2, <1>7 DEF Pending, L
    <2>2. CASE k \in 1 .. F
      BY <1>6, <2>1, <2>2
    <2>3. CASE k \notin 1 .. F
      BY <1>4, <1>5, <2>1, <2>3 DEF Pending
    <2> QED BY <2>2, <2>3
  <1>8. ASSUME NEW o, NEW p, Queued(o, p) PROVE table[p] # NoRow \/ Queued(o, p)'
    <2>1. PICK k \in 1 .. L : /\ queue[k].offset <= o
                              /\ \E j \in 1 .. Len(queue[k].rows) : queue[k].rows[j].pool = p
      BY <1>8 DEF Queued, L
    <2>2. CASE k \in 1 .. F
      BY <1>6, <2>1, <2>2
    <2>3. CASE k \notin 1 .. F
      BY <1>4, <1>5, <2>1, <2>3 DEF Queued
    <2> QED BY <2>2, <2>3
  <1>9. ASSUME NEW o \in 1 .. received, NEW i \in 1 .. Len(log[o].events), Creation(o, i), CreationQueued(o, i)
        PROVE  table[log[o].events[i].pool] > 0 \/ CreationQueued(o, i)'
    <2>1. PICK k \in 1 .. L : queue[k].offset = o /\ Leads(log[o].events[i], queue[k].rows)
      BY <1>9 DEF CreationQueued, L
    <2>2. CASE k \in 1 .. F
      BY <1>1, <1>2, <1>9, <2>1, <2>2, FlushRecorded DEF F
    <2>3. CASE k \notin 1 .. F
      <3>1. PICK n \in 1 .. Len(queue') : queue'[n] = queue[k]
        BY <1>4, <1>5, <2>3
      <3>2. Leads(log[o].events[i], queue[n].rows)'
        BY <1>1, <2>1, <3>1 DEF Leads
      <3>3. (queue[n].offset = o)'
        BY <2>1, <3>1
      <3> QED BY <3>1, <3>2, <3>3 DEF CreationQueued
    <2> QED BY <2>2, <2>3
  <1>10. Shape'
    BY <1>1, <1>2 DEF IInv, Shape
  <1>11. Ordered'
    <2> SUFFICES ASSUME NEW k \in 1 .. L - F
                 PROVE  queue'[k].offset <= received /\ \A j \in 1 .. k - 1 : queue'[j].offset < queue'[k].offset
      BY <1>2, <1>4 DEF Ordered
    <2>1. k + F \in 1 .. L /\ queue'[k] = queue[k + F]
      BY <1>4
    <2>2. /\ queue[k + F].offset <= received
          /\ \A n \in 1 .. (k + F) - 1 : queue[n].offset < queue[k + F].offset
      BY <1>2, <2>1 DEF IInv, Ordered, L
    <2>3. ASSUME NEW j \in 1 .. k - 1 PROVE queue'[j].offset < queue'[k].offset
      <3>1. j \in 1 .. L - F /\ j + F \in 1 .. (k + F) - 1
        BY <1>3
      <3>2. queue'[j] = queue[j + F]
        BY <1>4, <3>1
      <3> QED BY <2>1, <2>2, <3>1, <3>2
    <2> QED BY <2>1, <2>2, <2>3
  <1>12. Named'
    <2>1. ASSUME NEW k \in 1 .. L - F PROVE RowsOf(queue[k].offset, queue[k].rows)'
      <3>1. k + F \in 1 .. L /\ queue'[k] = queue[k + F]
        BY <1>4
      <3>2. RowsOf(queue[k + F].offset, queue[k + F].rows)
        BY <3>1 DEF IInv, Named, L
      <3> QED BY <1>1, <3>1, <3>2 DEF RowsOf
    <2>2. \A j \in 1 .. Len(rows') : \E l \in 1 .. built' : Events'[l] = rows'[j]
      BY <1>1, <1>2
    <2>3. \A k \in 1 .. Len(queue') : RowsOf(queue[k].offset, queue[k].rows)'
      BY <1>4, <2>1
    <2> QED BY <2>2, <2>3 DEF Named
  <1>13. SeenNamed'
    BY <1>1, <1>2, SameLog DEF IInv, SeenNamed, Seen
  <1>14. BuildCovered' /\ CreationBuilt' /\ FlushCovered'
    BY <1>1, <1>2 DEF BuildCovered, CreationBuilt, FlushCovered
  <1>15. Handled'
    <2> SUFFICES ASSUME NEW o \in 1 .. received, NEW p \in Pools, log[o].sound, Mentions(o, p)
                 PROVE  table[p] # NoRow \/ Poisoned(p, o) \/ Queued(o, p)'
      BY <1>1, <1>2, SameLog DEF Handled
    <2> QED BY <1>2, <1>8 DEF IInv, Handled
  <1>16. CreationHandled'
    <2> SUFFICES ASSUME NEW o \in 1 .. received, log[o].sound,
                        NEW i \in 1 .. Len(log[o].events), Creation(o, i)'
                 PROVE  table[log[o].events[i].pool] > 0 \/ CreationQueued(o, i)'
      BY <1>1, <1>2 DEF CreationHandled
    <2>1. Creation(o, i)
      BY <1>1, SameLog
    <2>2. table[log[o].events[i].pool] > 0 \/ CreationQueued(o, i)
      BY <1>2, <2>1 DEF IInv, CreationHandled
    <2> QED BY <1>9, <2>1, <2>2
  <1>17. SeenIsCovered'
    <2> SUFFICES ASSUME NEW p \in Pools, Seen(p)
                 PROVE  table[p] # NoRow \/ Pending(p)' \/ Poisoned(p, received)'
      BY <1>1 DEF SeenIsCovered, Seen
    <2>1. Poisoned(p, received) => Poisoned(p, received)'
      BY <1>1 DEF Poisoned, Mentions
    <2> QED BY <1>7, <2>1 DEF IInv, SeenIsCovered
  \* The offset that is committed is that of the last message of the flush.
  <1>18. PICK c \in Nat : c = queue[F].offset
    BY <1>0, <1>3
  <1>19. c <= received /\ \A k \in 1 .. L : queue[k].offset <= c => k \in 1 .. F
    <2>1. c <= received
      BY <1>2, <1>3, <1>18 DEF IInv, Ordered, L
    <2>2. ASSUME NEW k \in 1 .. L, queue[k].offset <= c, k \notin 1 .. F PROVE FALSE
      <3>1. F \in 1 .. k - 1
        BY <1>3, <2>2
      <3>2. c < queue[k].offset /\ queue[k].offset \in Nat
        BY <1>0, <1>18, <3>1 DEF IInv, Ordered, L
      <3> QED BY <2>2, <3>2
    <2> QED BY <2>1, <2>2
  <1>20. PoolsStored'
    <2> SUFFICES ASSUME NEW o \in 1 .. committed', NEW p \in Pools, log[o].sound, Mentions(o, p)
                 PROVE  table[p] # NoRow \/ Poisoned(p, o)
      BY <1>1, SameLog DEF PoolsStored
    <2>1. CASE o \in 1 .. committed
      BY <2>1 DEF IInv, PoolsStored
    <2>2. CASE o \in 1 .. c
      <3>1. o \in 1 .. Finished /\ o \in Nat
        BY <1>2, <1>18, <1>19, <2>2
      <3>2. table[p] # NoRow \/ Poisoned(p, o) \/ Queued(o, p)
        BY <3>1 DEF IInv, Handled
      <3>3. ASSUME Queued(o, p) PROVE table[p] # NoRow
        <4>1. PICK k \in 1 .. L : /\ queue[k].offset <= o
                                  /\ \E j \in 1 .. Len(queue[k].rows) : queue[k].rows[j].pool = p
          BY <3>3 DEF Queued, L
        <4>2. queue[k].offset \in Nat
          BY <1>0, <4>1
        <4>3. k \in 1 .. F
          BY <1>18, <1>19, <2>2, <3>1, <4>1, <4>2
        <4> QED BY <1>6, <4>1, <4>3
      <3> QED BY <3>2, <3>3
    <2> QED BY <1>1, <1>18, <2>1, <2>2
  <1>21. CreationRecorded'
    <2> SUFFICES ASSUME NEW o \in 1 .. committed', log[o].sound, NEW i \in 1 .. Len(log[o].events),
                        Creation(o, i)'
                 PROVE  table[log[o].events[i].pool] > 0
      BY <1>1 DEF CreationRecorded, Creation
    <2>1. Creation(o, i)
      BY <1>1, SameLog
    <2>2. CASE o \in 1 .. committed
      BY <2>1, <2>2 DEF IInv, CreationRecorded, Creation
    <2>3. CASE o \in 1 .. c
      <3>1. o \in 1 .. Finished /\ o \in 1 .. Len(log) /\ o <= c
        BY <1>2, <1>18, <1>19, <2>3
      <3>2. table[log[o].events[i].pool] > 0 \/ CreationQueued(o, i)
        BY <2>1, <3>1 DEF IInv, CreationHandled
      <3>3. ASSUME CreationQueued(o, i) PROVE table[log[o].events[i].pool] > 0
        <4>1. PICK k \in 1 .. L : queue[k].offset = o /\ Leads(log[o].events[i], queue[k].rows)
          BY <3>3 DEF CreationQueued, L
        <4>2. k \in 1 .. F
          BY <1>19, <3>1, <4>1
        <4> QED BY <1>1, <2>1, <3>1, <4>1, <4>2, FlushRecorded DEF F
      <3> QED BY <3>2, <3>3
    <2> QED BY <1>1, <1>18, <2>2, <2>3
  <1> QED BY <1>10, <1>11, <1>12, <1>13, <1>14, <1>15, <1>16, <1>17, <1>20, <1>21 DEF IInv

\* A new life begins after the committed messages, which are in the table.
LEMMA CrashStep == ASSUME IInv, TypeOK', Crash PROVE IInv'
  <1>1. /\ log' = log /\ committed' = committed /\ table' = table /\ received' = committed
        /\ phase' = "idle" /\ built' = 0 /\ rows' = <<>> /\ queue' = <<>> /\ writing' = {}
        /\ place' = [p \in Pools |-> 0]
    BY DEF Crash, EndOfBuild, CacheAtStart, NewPoolCache, broker
  <1>2. Finished' = committed
    BY <1>1 DEF Finished
  <1>3. [Next]_vars
    BY DEF Next
  <1>4. Len(queue') = 0
    BY <1>1
  <1>5. \A p \in Pools : ~Seen(p)'
    BY <1>1 DEF Seen
  <1>6. Shape'
    BY <1>1 DEF Shape
  <1>7. Ordered' /\ Named' /\ BuildCovered' /\ CreationBuilt' /\ FlushCovered'
    BY <1>1, <1>4 DEF Ordered, Named, BuildCovered, CreationBuilt, FlushCovered
  <1>8. SeenNamed' /\ SeenIsCovered'
    BY <1>5 DEF SeenNamed, SeenIsCovered
  <1>9. Handled'
    <2> SUFFICES ASSUME NEW o \in 1 .. committed, NEW p \in Pools, log[o].sound, Mentions(o, p)
                 PROVE  table[p] # NoRow \/ Poisoned(p, o)
      BY <1>1, <1>2, SameLog DEF Handled
    <2> QED BY DEF IInv, PoolsStored
  <1>10. CreationHandled'
    <2> SUFFICES ASSUME NEW o \in 1 .. committed, log[o].sound,
                        NEW i \in 1 .. Len(log[o].events), Creation(o, i)'
                 PROVE  table[log[o].events[i].pool] > 0
      BY <1>1, <1>2 DEF CreationHandled
    <2>1. Creation(o, i)
      BY <1>1, SameLog
    <2> QED BY <2>1 DEF IInv, CreationRecorded, Creation
  <1>11. PoolsStored' /\ CreationRecorded'
    BY <1>1, <1>3, CommittedKept DEF IInv
  <1> QED BY <1>6, <1>7, <1>8, <1>9, <1>10, <1>11 DEF IInv

-----------------------------------------------------------------------------
(* The theorems                                                             *)

\* At first there is nothing.
LEMMA IInvInit == Init => IInv
  <1> SUFFICES ASSUME Init PROVE IInv
    OBVIOUS
  <1>1. /\ log = <<>> /\ Len(log) = 0 /\ committed = 0 /\ received = 0 /\ phase = "idle" /\ built = 0
        /\ rows = <<>> /\ queue = <<>> /\ Len(queue) = 0 /\ writing = {} /\ lives = 1
        /\ table = [p \in Pools |-> NoRow] /\ place = [p \in Pools |-> 0]
    BY DEF Init, NewPoolCache
  <1>2. Finished = 0
    BY <1>1 DEF Finished
  <1>3. TypeOK
    <2>1. log \in Seq(Messages) /\ rows \in Seq(Row) /\ queue \in Seq([offset : 1 .. Len(log), rows : Seq(Row)])
      BY <1>1
    <2>2. place \in [Pools -> 0 .. CacheSize]
      BY <1>1, LimitsAssumption
    <2> QED BY <1>1, <2>1, <2>2, BoundAssumption DEF TypeOK
  <1>4. \A p \in Pools : ~Seen(p)
    BY <1>1 DEF Seen
  <1>5. Shape /\ Ordered /\ Named /\ BuildCovered /\ CreationBuilt /\ FlushCovered
    BY <1>1 DEF Shape, Ordered, Named, BuildCovered, CreationBuilt, FlushCovered
  <1>6. SeenNamed /\ SeenIsCovered
    BY <1>4 DEF SeenNamed, SeenIsCovered
  <1>7. Handled /\ CreationHandled /\ PoolsStored /\ CreationRecorded
    BY <1>1, <1>2 DEF Handled, CreationHandled, PoolsStored, CreationRecorded
  <1> QED BY <1>3, <1>5, <1>6, <1>7 DEF IInv

\* Every step keeps the invariant.
LEMMA IInvStep == IInv /\ [Next]_vars => IInv'
  <1> SUFFICES ASSUME IInv, [Next]_vars PROVE IInv'
    OBVIOUS
  <1>1. TypeOK'
    BY TypeStep DEF IInv
  <1>2. CASE \E m \in Messages : Produce(m)
    BY <1>1, <1>2, ProduceStep DEF Produce
  <1>3. CASE Receive
    BY <1>1, <1>3, ReceiveStep
  <1>4. CASE Build
    BY <1>1, <1>4, BuildStep
  <1>5. CASE Enqueue
    BY <1>1, <1>5, EnqueueStep
  <1>6. CASE Panic
    BY <1>1, <1>6, PanicStep
  <1>7. CASE StartFlush
    BY <1>1, <1>7, StartFlushStep
  <1>8. CASE WriteRow
    BY <1>1, <1>8, WriteRowStep
  <1>9. CASE CommitLastMessage
    BY <1>1, <1>9, CommitStep
  <1>10. CASE Crash
    BY <1>1, <1>10, CrashStep
  <1>11. CASE UNCHANGED vars
    BY <1>1, <1>11, ProduceStep DEF vars, broker
  <1> QED BY <1>2, <1>3, <1>4, <1>5, <1>6, <1>7, <1>8, <1>9, <1>10, <1>11 DEF Next, WorkerStep

\* IInv holds in every state.
THEOREM Inductive == Spec => []IInv
  BY IInvInit, IInvStep, PTL DEF Spec

\* The variables have their types: the places of the LRU stay within its size, and the batches
\* of a flush are sequences of rows (TypeOK; pool_cache.go:32, pool_model_writer.go:28).
THEOREM TypeCorrect == Spec => []TypeOK
  <1>1. IInv => TypeOK
    BY DEF IInv
  <1> QED BY <1>1, Inductive, PTL

\* For any pools, messages, cache size and cut of the batches, a pool that is skipped as seen
\* is in the table, or the worker has its row, or a message that named it could not be
\* decoded (SeenIsCovered; pool_cache.go:44).
THEOREM Covered == Spec => []SeenIsCovered
  <1>1. IInv => SeenIsCovered
    BY DEF IInv
  <1> QED BY <1>1, Inductive, PTL

\* A commit covers no pool that is not in the table, after any number of crashes (PoolsStored;
\* worker.go:398).
THEOREM Stored == Spec => []PoolsStored
  <1>1. IInv => PoolsStored
    BY DEF IInv
  <1> QED BY <1>1, Inductive, PTL

\* The time of a creation that the partition begins with gets through cache, deduplication and
\* batches to the table before it is committed (CreationRecorded; pool_model_writer.go:187).
THEOREM Recorded == Spec => []CreationRecorded
  <1>1. IInv => CreationRecorded
    BY DEF IInv
  <1> QED BY <1>1, Inductive, PTL

\* No row that is written later takes a time from the table (CreationKept;
\* pool_model_writer.go:92).
THEOREM Kept == Spec => CreationKept
  <1>1. IInv /\ [Next]_vars => [\A p \in Pools : table[p] > 0 => table'[p] > 0]_vars
    BY TableKept DEF IInv
  <1> QED BY <1>1, Inductive, PTL DEF Spec, CreationKept
===============================================================================
