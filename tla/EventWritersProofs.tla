-------------------------- MODULE EventWritersProofs --------------------------
(***************************************************************************)
(* Proofs about EventWriters, for any members, any sizes of messages and   *)
(* batches and every bound: the types and the number of goroutines, and    *)
(* that a rebalance never lets a commit cover a row that was not dealt     *)
(* with.                                                                   *)
(***************************************************************************)
EXTENDS EventWriters, FiniteSetTheorems, TLAPS

-----------------------------------------------------------------------------
(* The batches of a flush                                                   *)

\* Of two products with a common factor the lesser has the lesser other factor.
LEMMA LessFactor ==
  ASSUME NEW k \in Nat, NEW w \in Nat, NEW size \in Nat \ {0}, k * size < w * size
  PROVE  k < w
  <1> SUFFICES ASSUME k >= w PROVE FALSE
    OBVIOUS
  <1>1. PICK d \in Nat : k = w + d
    <2>1. k - w \in Nat /\ k = w + (k - w)
      OBVIOUS
    <2> QED BY <2>1
  <1>2. k * size = w * size + d * size
    BY <1>1
  <1>3. d * size \in Nat /\ w * size \in Nat
    OBVIOUS
  <1> QED BY <1>2, <1>3

\* What div computes.
LEMMA Division ==
  ASSUME NEW n \in Nat, NEW d \in Nat \ {0}
  PROVE  /\ n \div d \in Nat
         /\ (n \div d) * d <= n
         /\ n < (n \div d) * d + d
  OBVIOUS

\* Batches of this size are enough for all rows, with at most maxWorkers of them.
LEMMA SizeSuffices ==
  ASSUME NEW count \in Nat
  PROVE  /\ BatchSize(count) \in Nat \ {0}
         /\ count <= MaxWorkers * BatchSize(count)
  <1>1. MinBatch \in Nat \ {0} /\ MaxWorkers \in Nat \ {0}
    BY LimitsAssumption
  <1>2. CASE count > MinBatch * MaxWorkers
    <2> DEFINE q == (count + MaxWorkers - 1) \div MaxWorkers
    <2>1. BatchSize(count) = q
      BY <1>2 DEF BatchSize
    <2>2. count + MaxWorkers - 1 \in Nat
      BY <1>1
    <2>3. /\ q \in Nat
          /\ count + MaxWorkers - 1 < q * MaxWorkers + MaxWorkers
      BY <1>1, <2>2, Division
    <2> HIDE DEF q
    <2>4. q * MaxWorkers = MaxWorkers * q /\ q * MaxWorkers \in Nat
      BY <1>1, <2>3
    <2>5. count <= MaxWorkers * q
      BY <1>1, <2>3, <2>4
    <2>6. q # 0
      <3> SUFFICES ASSUME q = 0 PROVE FALSE
        OBVIOUS
      <3>1. MinBatch * MaxWorkers \in Nat
        BY <1>1
      <3>2. q * MaxWorkers = 0
        BY <1>1
      <3> QED BY <1>2, <3>1, <3>2, <2>4, <2>5
    <2> QED BY <2>1, <2>3, <2>5, <2>6
  <1>3. CASE ~(count > MinBatch * MaxWorkers)
    <2>1. BatchSize(count) = MinBatch
      BY <1>3 DEF BatchSize
    <2>2. MinBatch * MaxWorkers = MaxWorkers * MinBatch /\ MinBatch * MaxWorkers \in Nat
      BY <1>1
    <2> QED BY <1>1, <1>3, <2>1, <2>2
  <1> QED BY <1>2, <1>3

\* A row of a finite set has as many rows before it as its place says.
LEMMA PositionTyped ==
  ASSUME NEW S, IsFiniteSet(S), S \subseteq Row, NEW x \in S
  PROVE  Position(x, S) \in 0 .. Cardinality(S) - 1
  <1> DEFINE B == {y \in S : Before(y, x)}
  <1>1. ~Before(x, x)
    BY DEF Before, Row
  <1>2. B \subseteq S \ {x}
    BY <1>1
  <1>3. IsFiniteSet(S \ {x}) /\ Cardinality(S \ {x}) = Cardinality(S) - 1
    BY FS_RemoveElement
  <1>4. IsFiniteSet(B) /\ Cardinality(B) <= Cardinality(S) - 1
    BY <1>2, <1>3, FS_Subset
  <1>5. Cardinality(B) \in Nat /\ Cardinality(S) \in Nat
    BY <1>4, FS_CardinalityType
  <1>6. Position(x, S) = Cardinality(B)
    BY DEF Position
  <1> HIDE DEF B
  <1> QED BY <1>4, <1>5, <1>6

\* Every row of a flush is in one of its batches.
LEMMA BatchesCover ==
  ASSUME NEW S, IsFiniteSet(S), S \subseteq Row, NEW x \in S
  PROVE  \E j \in Batches(S) : x \in j.rows
  <1> DEFINE count == Cardinality(S)
             size == BatchSize(count)
             p == Position(x, S)
             k == p \div size
             i == k * size
  <1>1. count \in Nat
    BY FS_CardinalityType
  <1>2. size \in Nat \ {0}
    BY <1>1, SizeSuffices
  <1>3. p \in 0 .. count - 1
    BY PositionTyped
  <1> HIDE DEF count, size, p
  <1>4. k \in Nat /\ k * size <= p /\ p < k * size + size
    BY <1>1, <1>2, <1>3, Division
  <1> HIDE DEF k
  <1>5. k <= k * size /\ k * size \in Nat
    <2>1. PICK d \in Nat : size = 1 + d
      <3>1. size - 1 \in Nat /\ size = 1 + (size - 1)
        BY <1>2
      <3> QED BY <3>1
    <2>2. k * size = k + k * d /\ k * d \in Nat
      BY <1>4, <2>1
    <2> QED BY <1>4, <2>2
  <1>6. i \in Starts(count, size)
    <2>1. k \in 0 .. count /\ i \in 0 .. count - 1
      BY <1>1, <1>3, <1>4, <1>5
    <2> QED BY <2>1 DEF Starts
  <1>7. p \in i .. i + size - 1
    BY <1>1, <1>2, <1>3, <1>4, <1>5
  <1> DEFINE j == [rows |-> {y \in S : Position(y, S) \in i .. i + size - 1}, attempt |-> 0]
  <1>8. j \in Batches(S)
    BY <1>6 DEF Batches, size, count
  <1>9. x \in j.rows
    BY <1>7 DEF p
  <1> QED BY <1>8, <1>9

\* There are no more batches than maxWorkers, and they are batches of the rows.
LEMMA BatchesBounded ==
  ASSUME NEW S, IsFiniteSet(S), S \subseteq Row
  PROVE  /\ Batches(S) \subseteq [rows : SUBSET Row, attempt : {0}]
         /\ \A j \in Batches(S) : j.rows \subseteq S
         /\ IsFiniteSet(Batches(S))
         /\ Cardinality(Batches(S)) <= MaxWorkers
  <1> DEFINE count == Cardinality(S)
             size == BatchSize(count)
             part(i) == [rows |-> {x \in S : Position(x, S) \in i .. i + size - 1}, attempt |-> 0]
             nth(k) == part(k * size)
             K == {k \in 0 .. MaxWorkers - 1 : k * size \in Starts(count, size)}
  <1>1. count \in Nat
    BY FS_CardinalityType
  <1>2. size \in Nat \ {0} /\ count <= MaxWorkers * size
    BY <1>1, SizeSuffices
  <1>3. MaxWorkers \in Nat \ {0}
    BY LimitsAssumption
  <1>4. Batches(S) = {part(i) : i \in Starts(count, size)}
    BY DEF Batches
  <1> HIDE DEF count, size
  <1>5. \A i \in Starts(count, size) : \E k \in K : i = k * size
    <2> SUFFICES ASSUME NEW i \in Starts(count, size)
                 PROVE  \E k \in K : i = k * size
      OBVIOUS
    <2>1. PICK k \in 0 .. count : i = k * size
      BY DEF Starts
    <2>2. i \in 0 .. count - 1
      BY DEF Starts
    <2>3. k \in Nat /\ k * size < MaxWorkers * size
      <3>1. k * size \in Nat /\ MaxWorkers * size \in Nat
        BY <1>1, <1>2, <1>3, <2>1
      <3> QED BY <1>1, <1>2, <2>1, <2>2, <3>1
    <2>4. k < MaxWorkers
      BY <1>2, <1>3, <2>3, LessFactor
    <2> QED BY <1>3, <2>1, <2>3, <2>4
  <1>6. Batches(S) = {nth(k) : k \in K}
    BY <1>4, <1>5
  <1>7. IsFiniteSet(K) /\ Cardinality(K) <= MaxWorkers
    <2>1. IsFiniteSet(0 .. MaxWorkers - 1) /\ Cardinality(0 .. MaxWorkers - 1) = MaxWorkers
      BY <1>3, FS_Interval
    <2>2. K \in SUBSET (0 .. MaxWorkers - 1)
      OBVIOUS
    <2> QED BY <2>1, <2>2, FS_Subset
  <1>8. /\ IsFiniteSet({nth(k) : k \in K})
        /\ Cardinality({nth(k) : k \in K}) <= Cardinality(K)
    <2> HIDE DEF nth, K
    <2> DEFINE f == [k \in K |-> nth(k)]
               T == {nth(k) : k \in K}
    <2>1. f \in Surjection(K, T)
      BY DEF Surjection
    <2> QED BY <1>7, <2>1, FS_Surjection
  <1>9. IsFiniteSet(Batches(S)) /\ Cardinality(Batches(S)) \in Nat
    BY <1>6, <1>8, FS_CardinalityType
  <1>10. Cardinality(K) \in Nat
    BY <1>7, FS_CardinalityType
  <1>11. Cardinality(Batches(S)) <= MaxWorkers
    BY <1>3, <1>6, <1>7, <1>8, <1>9, <1>10
  <1>12. /\ Batches(S) \subseteq [rows : SUBSET Row, attempt : {0}]
         /\ \A j \in Batches(S) : j.rows \subseteq S
    BY <1>4
  <1> QED BY <1>9, <1>11, <1>12

\* The rows of a flush are finitely many.
LEMMA FlushedFinite ==
  ASSUME TypeOK, NEW m \in Members, NEW count \in Nat, count <= Len(queue[m])
  PROVE  IsFiniteSet(Flushed(m, count)) /\ Flushed(m, count) \subseteq Row
  <1> DEFINE slice(n) == {n} \X (1 .. log[queue[m][n]])
             T == {slice(n) : n \in 1 .. count}
  <1>1. queue[m] \in Seq(1 .. Len(log)) /\ log \in Seq(Nat \ {0})
    BY DEF TypeOK
  <1>2. \A n \in 1 .. Len(queue[m]) : log[queue[m][n]] \in Nat
    BY <1>1
  <1>3. \A n \in 1 .. count : IsFiniteSet(slice(n))
    <2> SUFFICES ASSUME NEW n \in 1 .. count PROVE IsFiniteSet(slice(n))
      OBVIOUS
    <2>1. log[queue[m][n]] \in Nat
      BY <1>1, <1>2
    <2>2. IsFiniteSet(1 .. log[queue[m][n]])
      <3>1. \A k \in Nat : IsFiniteSet(1 .. k)
        BY FS_Interval
      <3> QED BY <2>1, <3>1
    <2>3. IsFiniteSet({n})
      BY FS_Singleton
    <2> QED BY <2>2, <2>3, FS_Product
  <1>4. IsFiniteSet(T)
    <2> HIDE DEF slice
    <2> DEFINE f == [n \in 1 .. count |-> slice(n)]
    <2>1. f \in Surjection(1 .. count, T)
      BY DEF Surjection
    <2>2. IsFiniteSet(1 .. count)
      BY FS_Interval
    <2> QED BY <2>1, <2>2, FS_Surjection
  <1>5. IsFiniteSet(Flushed(m, count))
    <2>1. \A t \in T : IsFiniteSet(t)
      BY <1>3
    <2>2. IsFiniteSet(UNION T)
      BY <1>4, <2>1, FS_UNION
    <2> QED BY <2>2 DEF Flushed
  <1>6. Flushed(m, count) \subseteq Row
    BY DEF Flushed, Row
  <1> QED BY <1>5, <1>6

-----------------------------------------------------------------------------
(* The inductive invariant                                                  *)

\* A member holds the message at one of the first n places of its queue.
Holds(m, o, n) == \E i \in 1 .. n : queue[m][i] = o

\* What comes before a message in a queue has been settled, by whatever member, or waits
\* in front of it: a queue has gaps only where the group had committed already.
QueueReaches == \A m \in Members : \A n \in 1 .. Len(queue[m]) : \A o \in 1 .. queue[m][n] :
                  Settled(o) \/ Holds(m, o, n)

\* So it is with what a member has received.
ReceivedReaches == \A m \in Members : \A o \in 1 .. received[m] :
                     Settled(o) \/ Holds(m, o, Len(queue[m]))

\* The rows of a running flush are in the tables, given up, or still with a goroutine.
FlushCovered == \A m \in Members : \A x \in Flushed(m, flushing[m]) :
                  \/ RowAt(m, x) \in stored \union lost
                  \/ \E j \in jobs[m] : x \in j.rows

\* A job's rows are rows of the flush, and its goroutines can be counted.
JobsOfFlush == \A m \in Members : /\ IsFiniteSet(jobs[m])
                                  /\ \A j \in jobs[m] : j.rows \subseteq Flushed(m, flushing[m])

IInv == /\ TypeOK /\ QueueReaches /\ ReceivedReaches /\ FlushCovered /\ JobsOfFlush
        /\ Accounted

\* A row of the flush is a row of the log.
LEMMA RowAtTyped ==
  ASSUME TypeOK, NEW m \in Members, NEW x \in Flushed(m, flushing[m])
  PROVE  RowAt(m, x) \in Row
  <1>1. PICK n \in 1 .. flushing[m] : x \in {n} \X (1 .. log[queue[m][n]])
    BY DEF Flushed
  <1>2. queue[m] \in Seq(1 .. Len(log)) /\ flushing[m] \in Nat /\ flushing[m] <= Len(queue[m])
    BY DEF TypeOK
  <1>3. queue[m][n] \in 1 .. Len(log)
    BY <1>1, <1>2
  <1>4. log \in Seq(Nat \ {0})
    BY DEF TypeOK
  <1>5. log[queue[m][n]] \in Nat
    BY <1>3, <1>4
  <1>6. x[1] = n /\ x[2] \in 1 .. log[queue[m][n]]
    BY <1>1
  <1> QED BY <1>3, <1>5, <1>6 DEF RowAt, Row

\* When no goroutine is left, the messages of the flush are settled.
LEMMA FlushSettles ==
  ASSUME IInv, NEW m \in Members, jobs[m] = {}, NEW i \in 1 .. flushing[m]
  PROVE  Settled(queue[m][i])
  <1> SUFFICES ASSUME NEW r \in RowsOf(queue[m][i]) PROVE r \in stored \union lost
    BY DEF Settled
  <1> DEFINE x == <<i, r[2]>>
  <1>1. x \in Flushed(m, flushing[m])
    BY DEF Flushed, RowsOf
  <1>2. RowAt(m, x) = r
    BY DEF RowAt, RowsOf
  <1> QED BY <1>1, <1>2 DEF IInv, FlushCovered

\* With the log and the queue growing only at their ends and the tables only growing,
\* what was settled stays settled.
LEMMA SettledStays ==
  ASSUME TypeOK, NEW o \in 1 .. Len(log), log'[o] = log[o],
         stored \subseteq stored', lost \subseteq lost', Settled(o)
  PROVE  Settled(o)'
  BY DEF Settled, RowsOf

-----------------------------------------------------------------------------
(* What each step does to the goroutines of a flush                         *)

\* A member that is not part of the step keeps its jobs; every job is one of the step's.
LEMMA JobTyped ==
  ASSUME TypeOK, NEW m \in Members, NEW j \in jobs[m]
  PROVE  j \in [rows : SUBSET Row, attempt : 0 .. MaxRetries - 1]
  BY DEF TypeOK

\* The goroutines of a flush that starts.
LEMMA StartedJobs ==
  ASSUME TypeOK, NEW m \in Members, StartFlush(m)
  PROVE  /\ flushing'[m] = FlushCount(m) /\ FlushCount(m) \in 1 .. Len(queue[m])
         /\ jobs'[m] = Batches(Flushed(m, FlushCount(m)))
         /\ jobs'[m] \subseteq [rows : SUBSET Row, attempt : 0 .. MaxRetries - 1]
         /\ IsFiniteSet(jobs'[m]) /\ Cardinality(jobs'[m]) <= MaxWorkers
         /\ \A j \in jobs'[m] : j.rows \subseteq Flushed(m, FlushCount(m))
         /\ \A x \in Flushed(m, FlushCount(m)) : \E j \in jobs'[m] : x \in j.rows
  <1> DEFINE S == Flushed(m, FlushCount(m))
  <1>1. queue[m] \in Seq(1 .. Len(log)) /\ Len(queue[m]) \in Nat \ {0}
    BY DEF TypeOK, StartFlush, Due
  <1>2. FlushCount(m) \in 1 .. Len(queue[m])
    BY <1>1, LimitsAssumption DEF FlushCount
  <1>3. IsFiniteSet(S) /\ S \subseteq Row
    BY <1>1, <1>2, FlushedFinite
  <1>4. jobs'[m] = Batches(S) /\ flushing'[m] = FlushCount(m)
    BY DEF StartFlush, TypeOK
  <1> HIDE DEF S
  <1>5. /\ Batches(S) \subseteq [rows : SUBSET Row, attempt : {0}]
        /\ \A j \in Batches(S) : j.rows \subseteq S
        /\ IsFiniteSet(Batches(S)) /\ Cardinality(Batches(S)) <= MaxWorkers
    BY <1>3, BatchesBounded
  <1>6. \A x \in S : \E j \in Batches(S) : x \in j.rows
    BY <1>3, BatchesCover
  <1>7. 0 \in 0 .. MaxRetries - 1
    BY LimitsAssumption
  <1>8. jobs'[m] \subseteq [rows : SUBSET Row, attempt : 0 .. MaxRetries - 1]
    BY <1>4, <1>5, <1>7
  <1> QED BY <1>2, <1>4, <1>5, <1>6, <1>8 DEF S

\* A job that is replaced by at most one keeps the number of goroutines.
LEMMA OneForOne ==
  ASSUME NEW J, IsFiniteSet(J), NEW j \in J, NEW k
  PROVE  /\ IsFiniteSet((J \ {j}) \union {k}) /\ IsFiniteSet(J \ {j})
         /\ Cardinality((J \ {j}) \union {k}) <= Cardinality(J)
         /\ Cardinality(J \ {j}) <= Cardinality(J)
  <1>1. IsFiniteSet(J \ {j}) /\ Cardinality(J \ {j}) = Cardinality(J) - 1
    BY FS_RemoveElement
  <1>2. /\ IsFiniteSet((J \ {j}) \union {k})
        /\ \/ Cardinality((J \ {j}) \union {k}) = Cardinality(J \ {j})
           \/ Cardinality((J \ {j}) \union {k}) = Cardinality(J \ {j}) + 1
    BY <1>1, FS_AddElement
  <1>3. Cardinality(J) \in Nat
    BY FS_CardinalityType
  <1> QED BY <1>1, <1>2, <1>3

\* A step of a goroutine: a job j gives way to the jobs K, at most one, that keep the rows
\* of j that are not in the tables afterwards.
JobStep(m, j, K) ==
  /\ jobs' = [jobs EXCEPT ![m] = (@ \ {j}) \union K]
  /\ stored \subseteq stored' /\ lost \subseteq lost'
  /\ K = {} \/ \E k \in [rows : SUBSET j.rows, attempt : 0 .. MaxRetries - 1] : K = {k}
  /\ \A x \in j.rows : RowAt(m, x) \in stored' \union lost' \/ \E k \in K : x \in k.rows
  /\ stored' \union lost' \subseteq stored \union lost \union {RowAt(m, x) : x \in j.rows}
  /\ UNCHANGED <<broker, received, queue, flushing, cancelled, counts>>

\* The three ends of a statement are such steps.
LEMMA JobSteps ==
  ASSUME IInv, NEW m \in Members, WriteStatement(m) \/ RetryStatement(m) \/ GiveUp(m)
  PROVE  \E j \in jobs[m] : \E K : JobStep(m, j, K)
  <1>1. CASE WriteStatement(m)
    <2>1. PICK j \in jobs[m] :
            /\ stored' = stored \union {RowAt(m, x) : x \in Statement(j.rows)}
            /\ jobs' = [jobs EXCEPT ![m] = (@ \ {j}) \union
                          IF j.rows \ Statement(j.rows) = {} THEN {}
                          ELSE {[rows |-> j.rows \ Statement(j.rows), attempt |-> 0]}]
      BY <1>1 DEF WriteStatement
    <2> DEFINE rest == j.rows \ Statement(j.rows)
               K == IF rest = {} THEN {} ELSE {[rows |-> rest, attempt |-> 0]}
    <2>2. Statement(j.rows) \subseteq j.rows
      BY DEF Statement
    <2>3. 0 \in 0 .. MaxRetries - 1
      BY LimitsAssumption
    <2>4. K = {} \/ \E k \in [rows : SUBSET j.rows, attempt : 0 .. MaxRetries - 1] : K = {k}
      BY <2>3
    <2>5. \A x \in j.rows : RowAt(m, x) \in stored' \union lost' \/ \E k \in K : x \in k.rows
      BY <2>1
    <2>6. stored' \union lost' \subseteq stored \union lost \union {RowAt(m, x) : x \in j.rows}
      BY <1>1, <2>1, <2>2 DEF WriteStatement
    <2>7. JobStep(m, j, K)
      BY <1>1, <2>1, <2>4, <2>5, <2>6 DEF JobStep, WriteStatement
    <2> QED BY <2>7
  <1>2. CASE RetryStatement(m)
    <2>0. PICK j \in jobs[m] : \E S \in SUBSET Statement(j.rows) :
            /\ j.attempt + 1 < MaxRetries
            /\ stored' = stored \union {RowAt(m, x) : x \in S}
            /\ jobs' = [jobs EXCEPT ![m] = (@ \ {j}) \union {[j EXCEPT !.attempt = @ + 1]}]
      BY <1>2 DEF RetryStatement
    <2>1. PICK S \in SUBSET Statement(j.rows) :
            /\ j.attempt + 1 < MaxRetries
            /\ stored' = stored \union {RowAt(m, x) : x \in S}
            /\ jobs' = [jobs EXCEPT ![m] = (@ \ {j}) \union {[j EXCEPT !.attempt = @ + 1]}]
      BY <2>0
    <2> DEFINE k == [j EXCEPT !.attempt = @ + 1]
    <2>2. Statement(j.rows) \subseteq j.rows
      BY DEF Statement
    <2>3. j \in [rows : SUBSET Row, attempt : 0 .. MaxRetries - 1]
      BY JobTyped DEF IInv
    <2>4. k.rows = j.rows /\ k \in [rows : SUBSET j.rows, attempt : 0 .. MaxRetries - 1]
      BY <2>1, <2>3, LimitsAssumption
    <2>5. stored' \union lost' \subseteq stored \union lost \union {RowAt(m, x) : x \in j.rows}
      BY <1>2, <2>1, <2>2 DEF RetryStatement
    <2> HIDE DEF k
    <2>6. jobs' = [jobs EXCEPT ![m] = (@ \ {j}) \union {k}]
      BY <2>1 DEF k
    <2>7. JobStep(m, j, {k})
      BY <1>2, <2>1, <2>4, <2>5, <2>6 DEF JobStep, RetryStatement
    <2> QED BY <2>7
  <1>3. CASE GiveUp(m)
    <2>0. PICK j \in jobs[m] : \E S \in SUBSET Statement(j.rows) :
            /\ stored' = stored \union {RowAt(m, x) : x \in S}
            /\ lost' = lost \union {RowAt(m, x) : x \in j.rows}
            /\ jobs' = [jobs EXCEPT ![m] = @ \ {j}]
      BY <1>3 DEF GiveUp
    <2>1. PICK S \in SUBSET Statement(j.rows) :
            /\ stored' = stored \union {RowAt(m, x) : x \in S}
            /\ lost' = lost \union {RowAt(m, x) : x \in j.rows}
            /\ jobs' = [jobs EXCEPT ![m] = @ \ {j}]
      BY <2>0
    <2>2. Statement(j.rows) \subseteq j.rows
      BY DEF Statement
    <2>3. stored' \union lost' \subseteq stored \union lost \union {RowAt(m, x) : x \in j.rows}
      BY <2>1, <2>2
    <2>4. jobs' = [jobs EXCEPT ![m] = (@ \ {j}) \union {}]
      BY <2>1
    <2>5. JobStep(m, j, {})
      BY <1>3, <2>1, <2>3, <2>4 DEF JobStep, GiveUp
    <2> QED BY <2>5
  <1> QED BY <1>1, <1>2, <1>3

-----------------------------------------------------------------------------
(* Types                                                                    *)

\* A step of a goroutine keeps the types.
LEMMA JobTypes ==
  ASSUME IInv, NEW m \in Members, NEW j \in jobs[m], NEW K, JobStep(m, j, K)
  PROVE  TypeOK' /\ JobsOfFlush'
  <1> DEFINE Job == [rows : SUBSET Row, attempt : 0 .. MaxRetries - 1]
  <1>1. TypeOK /\ JobsOfFlush
    BY DEF IInv
  <1>2. j \in Job /\ j.rows \subseteq Row
    BY <1>1, JobTyped
  <1>3. /\ jobs'[m] = (jobs[m] \ {j}) \union K
        /\ \A n \in Members \ {m} : jobs'[n] = jobs[n]
        /\ DOMAIN jobs' = Members /\ jobs' = [n \in Members |-> jobs'[n]]
    BY <1>1 DEF JobStep, TypeOK
  <1>4. K \subseteq Job /\ \A k \in K : k.rows \subseteq j.rows
    BY <1>2 DEF JobStep
  <1>5. jobs'[m] \subseteq Job
    BY <1>1, <1>3, <1>4 DEF TypeOK
  <1>6. IsFiniteSet(jobs'[m]) /\ Cardinality(jobs'[m]) <= Cardinality(jobs[m])
    <2>1. IsFiniteSet(jobs[m])
      BY <1>1 DEF JobsOfFlush
    <2>2. CASE K = {}
      <3>1. jobs'[m] = jobs[m] \ {j}
        BY <1>3, <2>2
      <3> QED BY <2>1, <3>1, OneForOne
    <2>3. CASE K # {}
      <3>1. PICK k : K = {k}
        BY <2>3 DEF JobStep
      <3>2. jobs'[m] = (jobs[m] \ {j}) \union {k}
        BY <1>3, <3>1
      <3>3. /\ IsFiniteSet((jobs[m] \ {j}) \union {k})
            /\ Cardinality((jobs[m] \ {j}) \union {k}) <= Cardinality(jobs[m])
        BY <2>1, OneForOne
      <3> QED BY <3>2, <3>3
    <2> QED BY <2>2, <2>3
  <1>7. jobs' \in [Members -> SUBSET Job]
    <2> HIDE DEF Job
    <2>1. \A n \in Members : jobs'[n] \in SUBSET Job
      BY <1>1, <1>3, <1>5 DEF TypeOK, Job
    <2> QED BY <1>3, <2>1
  <1>8. stored' \union lost' \subseteq Row
    <2>1. j.rows \subseteq Flushed(m, flushing[m])
      BY <1>1 DEF JobsOfFlush
    <2>2. \A x \in j.rows : RowAt(m, x) \in Row
      BY <1>1, <2>1, RowAtTyped
    <2> QED BY <1>1, <2>2 DEF JobStep, TypeOK
  <1>9. WorkersBounded'
    <2> SUFFICES ASSUME NEW n \in Members PROVE Cardinality(jobs'[n]) <= MaxWorkers
      BY DEF WorkersBounded
    <2>1. Cardinality(jobs[n]) <= MaxWorkers /\ Cardinality(jobs[n]) \in Nat
      BY <1>1, FS_CardinalityType DEF TypeOK, WorkersBounded, JobsOfFlush
    <2>2. Cardinality(jobs'[m]) \in Nat
      BY <1>6, FS_CardinalityType
    <2>3. MaxWorkers \in Nat
      BY LimitsAssumption
    <2> QED BY <1>3, <1>6, <2>1, <2>2, <2>3
  <1>10. TypeOK'
    <2> HIDE DEF Job
    <2> QED BY <1>1, <1>7, <1>8, <1>9 DEF TypeOK, JobStep, broker, counts, Job
  <1>11. JobsOfFlush'
    <2> SUFFICES ASSUME NEW n \in Members
                 PROVE  IsFiniteSet(jobs'[n]) /\ \A i \in jobs'[n] : i.rows \subseteq Flushed(n, flushing[n])'
      BY DEF JobsOfFlush
    <2>1. Flushed(n, flushing[n])' = Flushed(n, flushing[n])
      BY DEF JobStep, Flushed, broker
    <2>2. CASE n # m
      BY <1>1, <1>3, <2>1, <2>2 DEF JobsOfFlush
    <2>3. CASE n = m
      <3>1. \A i \in jobs[m] : i.rows \subseteq Flushed(m, flushing[m])
        BY <1>1 DEF JobsOfFlush
      <3> QED BY <1>3, <1>4, <1>6, <2>1, <2>3, <3>1
    <2> QED BY <2>2, <2>3
  <1> QED BY <1>10, <1>11

\* A queue of offsets of a log is one of a longer log.
LEMMA SeqOfMore ==
  ASSUME NEW k \in Nat, NEW n \in Nat, k <= n, NEW s \in Seq(1 .. k)
  PROVE  s \in Seq(1 .. n)
  <1>1. \A i \in 1 .. Len(s) : s[i] \in 1 .. n
    <2>1. \A i \in 1 .. Len(s) : s[i] \in 1 .. k
      OBVIOUS
    <2> QED BY <2>1
  <1>2. s = [i \in 1 .. Len(s) |-> s[i]] /\ Len(s) \in Nat
    OBVIOUS
  <1>3. [i \in 1 .. Len(s) |-> s[i]] \in Seq(1 .. n)
    BY <1>1, <1>2
  <1> QED BY <1>2, <1>3

\* The log grows at its end.
LEMMA LogGrows ==
  ASSUME TypeOK, Produce
  PROVE  /\ log' \in Seq(Nat \ {0}) /\ Len(log') = Len(log) + 1 /\ Len(log) \in Nat
         /\ \A o \in 1 .. Len(log) : log'[o] = log[o]
  <1>1. log \in Seq(Nat \ {0}) /\ Len(log) + 1 \in 1 .. MaxLog
    BY BoundAssumption DEF TypeOK, Produce
  <1>2. Size[Len(log) + 1] \in Nat \ {0}
    BY <1>1, LimitsAssumption
  <1> QED BY <1>1, <1>2 DEF Produce

LEMMA TypeStep == IInv /\ [Next]_vars => TypeOK' /\ JobsOfFlush'
  <1> SUFFICES ASSUME IInv, [Next]_vars PROVE TypeOK' /\ JobsOfFlush'
    OBVIOUS
  <1> DEFINE Job == [rows : SUBSET Row, attempt : 0 .. MaxRetries - 1]
  <1>a. TypeOK /\ JobsOfFlush
    BY DEF IInv
  <1>b. /\ Len(log) \in Nat /\ log \in Seq(Nat \ {0})
        /\ \A m \in Members : /\ queue[m] \in Seq(1 .. Len(log)) /\ Len(queue[m]) \in Nat
                              /\ received[m] \in 0 .. Len(log)
                              /\ flushing[m] \in Nat /\ flushing[m] <= Len(queue[m])
    BY <1>a DEF TypeOK
  <1>c. \A m \in Members : IsFiniteSet({}) /\ Cardinality({}) <= MaxWorkers
    BY FS_EmptySet, LimitsAssumption
  <1>1. CASE Produce
    <2>1. /\ log' \in Seq(Nat \ {0}) /\ Len(log') = Len(log) + 1
          /\ \A o \in 1 .. Len(log) : log'[o] = log[o]
      BY <1>1, <1>a, LogGrows
    <2>2. queue' \in [Members -> Seq(1 .. Len(log'))]
      <3>1. \A m \in Members : queue[m] \in Seq(1 .. Len(log'))
        BY <1>b, <2>1, SeqOfMore
      <3> QED BY <1>1, <1>a, <3>1 DEF Produce, worker, TypeOK
    <2>3. received' \in [Members -> 0 .. Len(log')] /\ committed' \in 0 .. Len(log')
      BY <1>1, <1>a, <1>b, <2>1 DEF Produce, TypeOK
    <2>4. TypeOK'
      BY <1>1, <1>a, <2>1, <2>2, <2>3
      DEF Produce, TypeOK, WorkersBounded, tables, worker, counts
    <2>5. \A m \in Members : Flushed(m, flushing[m])' = Flushed(m, flushing[m])
      <3> SUFFICES ASSUME NEW m \in Members PROVE Flushed(m, flushing[m])' = Flushed(m, flushing[m])
        OBVIOUS
      <3>1. \A n \in 1 .. flushing[m] : queue[m][n] \in 1 .. Len(log)
        BY <1>b, SMTT(30)
      <3> QED BY <1>1, <2>1, <3>1 DEF Produce, worker, Flushed
    <2> QED BY <1>1, <1>a, <2>4, <2>5 DEF Produce, JobsOfFlush, worker
  <1>2. ASSUME NEW m \in Members, Assign(m)
        PROVE  TypeOK' /\ JobsOfFlush'
    <2>1. received' \in [Members -> 0 .. Len(log)]
      BY <1>2, <1>a DEF Assign, TypeOK
    <2>2. assigns' \in 0 .. MaxAssigns
      <3>1. assigns \in 0 .. MaxAssigns /\ MaxAssigns \in Nat
        BY <1>a, BoundAssumption DEF TypeOK
      <3> QED BY <1>2, <3>1 DEF Assign
    <2>3. TypeOK'
      BY <1>2, <1>a, <2>1, <2>2 DEF Assign, TypeOK, WorkersBounded, tables, worker
    <2> QED BY <1>2, <1>a, <2>3 DEF Assign, JobsOfFlush, Flushed, worker
  <1>3. ASSUME NEW m \in Members, Receive(m)
        PROVE  TypeOK' /\ JobsOfFlush'
    <2>1. received[m] + 1 \in 1 .. Len(log)
      BY <1>3, <1>b DEF Receive
    <2>2. Append(queue[m], received[m] + 1) \in Seq(1 .. Len(log))
      BY <1>b, <2>1
    <2>3. /\ queue' \in [Members -> Seq(1 .. Len(log))] /\ received' \in [Members -> 0 .. Len(log)]
          /\ \A n \in Members : Len(queue'[n]) >= Len(queue[n])
          /\ \A n \in Members : \A i \in 1 .. Len(queue[n]) : queue'[n][i] = queue[n][i]
      <3>1. queue' \in [Members -> Seq(1 .. Len(log))] /\ received' \in [Members -> 0 .. Len(log)]
        BY <1>3, <1>a, <2>1, <2>2 DEF Receive, TypeOK
      <3>2. /\ queue'[m] = Append(queue[m], received[m] + 1)
            /\ \A n \in Members \ {m} : queue'[n] = queue[n]
        BY <1>3, <1>a DEF Receive, TypeOK
      <3>3. /\ Len(queue'[m]) >= Len(queue[m])
            /\ \A i \in 1 .. Len(queue[m]) : queue'[m][i] = queue[m][i]
        BY <1>b, <2>1, <3>2
      <3>4. \A n \in Members \ {m} : Len(queue'[n]) >= Len(queue[n])
        BY <1>b, <3>2
      <3> QED BY <3>1, <3>2, <3>3, <3>4
    <2>4. TypeOK'
      <3>1. \A n \in Members : flushing[n] <= Len(queue'[n])
        <4> SUFFICES ASSUME NEW n \in Members PROVE flushing[n] <= Len(queue'[n])
          OBVIOUS
        <4>1. queue'[n] \in Seq(1 .. Len(log))
          BY <2>3
        <4>2. Len(queue'[n]) \in Nat
          BY <4>1
        <4>3. flushing[n] <= Len(queue[n]) /\ flushing[n] \in Nat /\ Len(queue[n]) \in Nat
          BY <1>b
        <4>4. Len(queue[n]) <= Len(queue'[n])
          BY <2>3, <4>2, <4>3
        <4> QED BY <4>2, <4>3, <4>4
      <3> QED BY <1>3, <1>a, <2>3, <3>1 DEF Receive, TypeOK, WorkersBounded, tables, broker, counts
    <2>5. \A n \in Members : Flushed(n, flushing[n])' = Flushed(n, flushing[n])
      <3> SUFFICES ASSUME NEW n \in Members PROVE Flushed(n, flushing[n])' = Flushed(n, flushing[n])
        OBVIOUS
      <3>1. 1 .. flushing[n] \subseteq 1 .. Len(queue[n])
        BY <1>b
      <3>2. \A i \in 1 .. flushing[n] : queue'[n][i] = queue[n][i]
        BY <2>3, <3>1
      <3> QED BY <1>3, <3>2 DEF Receive, broker, Flushed
    <2> QED BY <1>3, <1>a, <2>4, <2>5 DEF Receive, JobsOfFlush
  <1>4. ASSUME NEW m \in Members, StartFlush(m)
        PROVE  TypeOK' /\ JobsOfFlush'
    <2>1. /\ flushing'[m] = FlushCount(m) /\ FlushCount(m) \in 1 .. Len(queue[m])
          /\ jobs'[m] \subseteq Job
          /\ IsFiniteSet(jobs'[m]) /\ Cardinality(jobs'[m]) <= MaxWorkers
          /\ \A j \in jobs'[m] : j.rows \subseteq Flushed(m, FlushCount(m))
      BY <1>4, <1>a, StartedJobs
    <2>2. /\ DOMAIN jobs' = Members /\ jobs' = [n \in Members |-> jobs'[n]]
          /\ flushing' = [n \in Members |-> flushing'[n]]
          /\ \A n \in Members \ {m} : jobs'[n] = jobs[n] /\ flushing'[n] = flushing[n]
      BY <1>4, <1>a DEF StartFlush, TypeOK
    <2>3. jobs' \in [Members -> SUBSET Job]
      <3> HIDE DEF Job
      <3>1. \A n \in Members : jobs'[n] \in SUBSET Job
        BY <1>a, <2>1, <2>2 DEF TypeOK, Job
      <3> QED BY <2>2, <3>1
    <2>4. flushing' \in [Members -> Nat] /\ \A n \in Members : flushing'[n] <= Len(queue[n])
      <3>1. flushing'[m] \in Nat /\ flushing'[m] <= Len(queue[m])
        BY <1>b, <2>1
      <3>2. \A n \in Members : flushing'[n] \in Nat /\ flushing'[n] <= Len(queue[n])
        BY <1>b, <2>2, <3>1
      <3> QED BY <2>2, <3>2
    <2>5. WorkersBounded'
      BY <1>a, <2>1, <2>2 DEF WorkersBounded, TypeOK
    <2>6. TypeOK'
      <3> HIDE DEF Job
      <3> QED BY <1>4, <1>a, <2>3, <2>4, <2>5 DEF StartFlush, TypeOK, tables, broker, counts, Job
    <2>7. JobsOfFlush'
      <3> SUFFICES ASSUME NEW n \in Members
                   PROVE  IsFiniteSet(jobs'[n]) /\ \A j \in jobs'[n] : j.rows \subseteq Flushed(n, flushing[n])'
        BY DEF JobsOfFlush
      <3>1. Flushed(n, flushing[n])' = Flushed(n, flushing'[n])
        BY <1>4 DEF StartFlush, Flushed, broker
      <3> QED BY <1>a, <2>1, <2>2, <3>1 DEF JobsOfFlush
    <2> QED BY <2>6, <2>7
  <1>5. ASSUME NEW m \in Members, WriteStatement(m) \/ RetryStatement(m) \/ GiveUp(m)
        PROVE  TypeOK' /\ JobsOfFlush'
    <2>1. PICK j \in jobs[m] : \E K : JobStep(m, j, K)
      BY <1>5, JobSteps
    <2>2. PICK K : JobStep(m, j, K)
      BY <2>1
    <2> QED BY <2>2, JobTypes
  <1>6. ASSUME NEW m \in Members, CommitLastMessage(m)
        PROVE  TypeOK' /\ JobsOfFlush'
    <2>1. LastOfFlush(m) \in 1 .. Len(log)
      <3>1. flushing[m] \in 1 .. Len(queue[m])
        BY <1>6, <1>b DEF CommitLastMessage
      <3> QED BY <1>b, <3>1 DEF LastOfFlush
    <2>2. SubSeq(queue[m], flushing[m] + 1, Len(queue[m])) \in Seq(1 .. Len(log))
      BY <1>b
    <2>3. queue' \in [Members -> Seq(1 .. Len(log))]
      BY <1>6, <1>a, <2>2 DEF CommitLastMessage, TypeOK
    <2>4. /\ flushing' \in [Members -> Nat]
          /\ \A n \in Members : flushing'[n] <= Len(queue'[n])
      <3>1. \A n \in Members : Len(queue'[n]) \in Nat
        BY <2>3
      <3>2. flushing'[m] = 0 /\ \A n \in Members \ {m} : flushing'[n] = flushing[n] /\ queue'[n] = queue[n]
        BY <1>6, <1>a DEF CommitLastMessage, TypeOK
      <3> QED BY <1>6, <1>a, <1>b, <3>1, <3>2 DEF CommitLastMessage, TypeOK
    <2>5. committed' \in 0 .. Len(log)
      BY <1>6, <1>a, <2>1, SMTT(30) DEF CommitLastMessage, TypeOK
    <2>6. TypeOK'
      BY <1>6, <1>a, <2>3, <2>4, <2>5 DEF CommitLastMessage, TypeOK, WorkersBounded, tables, counts
    <2>7. \A n \in Members : n # m => Flushed(n, flushing[n])' = Flushed(n, flushing[n])
      BY <1>6, <1>a DEF CommitLastMessage, Flushed, TypeOK
    <2> QED BY <1>6, <1>a, <2>6, <2>7 DEF CommitLastMessage, JobsOfFlush
  <1>7. ASSUME NEW m \in Members, Stop(m)
        PROVE  TypeOK' /\ JobsOfFlush'
    <2>1. TypeOK'
      BY <1>7, <1>a, BoundAssumption DEF Stop, Leave, TypeOK, WorkersBounded, tables, worker
    <2> QED BY <1>7, <1>a, <2>1 DEF Stop, JobsOfFlush, Flushed, worker
  <1>8. ASSUME NEW m \in Members, Exit(m) \/ Crash(m)
        PROVE  TypeOK' /\ JobsOfFlush'
    <2>1. Boot(m) /\ owner' \in Members \union {Nobody} /\ restarts' \in 0 .. MaxRestarts
      BY <1>8, <1>a, BoundAssumption DEF Exit, Crash, Leave, TypeOK
    <2>2. /\ queue' \in [Members -> Seq(1 .. Len(log))] /\ received' \in [Members -> 0 .. Len(log)]
          /\ flushing' \in [Members -> Nat] /\ cancelled' \in [Members -> BOOLEAN]
          /\ \A n \in Members : flushing'[n] <= Len(queue'[n])
      <3>1. <<>> \in Seq(1 .. Len(log)) /\ Len(<<>>) = 0
        OBVIOUS
      <3> QED BY <1>a, <1>b, <2>1, <3>1 DEF Boot, TypeOK
    <2>3. /\ \A n \in Members \ {m} : jobs'[n] = jobs[n]
          /\ jobs'[m] = {}
          /\ jobs' \in [Members -> SUBSET Job]
      BY <1>a, <2>1 DEF Boot, TypeOK
    <2>4. WorkersBounded'
      BY <1>a, <1>c, <2>3 DEF WorkersBounded, TypeOK
    <2>5. TypeOK'
      <3> HIDE DEF Job
      <3> QED BY <1>a, <2>1, <2>2, <2>3, <2>4 DEF Boot, TypeOK, tables, Job
    <2>6. \A n \in Members : n # m => Flushed(n, flushing[n])' = Flushed(n, flushing[n])
      BY <2>1, <1>a DEF Boot, Flushed, TypeOK
    <2>7. JobsOfFlush'
      <3> SUFFICES ASSUME NEW n \in Members
                   PROVE  IsFiniteSet(jobs'[n]) /\ \A j \in jobs'[n] : j.rows \subseteq Flushed(n, flushing[n])'
        BY DEF JobsOfFlush
      <3> QED BY <1>a, <1>c, <2>3, <2>6 DEF JobsOfFlush
    <2> QED BY <2>5, <2>7
  <1>9. CASE UNCHANGED vars
    BY <1>9, <1>a DEF vars, broker, tables, worker, counts, TypeOK, WorkersBounded, JobsOfFlush, Flushed
  <1> QED BY <1>1, <1>2, <1>3, <1>4, <1>5, <1>6, <1>7, <1>8, <1>9 DEF Next, MemberStep

-----------------------------------------------------------------------------
(* What is settled, held and covered                                        *)

\* What was settled stays settled, whatever any member does.
LEMMA SettledForever ==
  ASSUME IInv, [Next]_vars, NEW o \in 1 .. Len(log), Settled(o)
  PROVE  Settled(o)'
  <1>1. TypeOK
    BY DEF IInv
  <1>2. CASE Produce
    <2>1. log'[o] = log[o]
      BY <1>1, <1>2, LogGrows
    <2> QED BY <1>1, <1>2, <2>1, SettledStays DEF Produce, tables
  <1>3. ASSUME NEW m \in Members, WriteStatement(m) \/ RetryStatement(m) \/ GiveUp(m)
        PROVE  Settled(o)'
    <2>1. PICK j \in jobs[m] : \E K : JobStep(m, j, K)
      BY <1>3, JobSteps
    <2>2. PICK K : JobStep(m, j, K)
      BY <2>1
    <2> QED BY <1>1, <2>2, SettledStays DEF JobStep, broker
  <1>4. CASE UNCHANGED <<log, tables>>
    BY <1>4 DEF Settled, RowsOf, tables
  <1> QED BY <1>2, <1>3, <1>4
          DEF Next, MemberStep, Assign, Receive, StartFlush, CommitLastMessage, Stop, Exit, Crash, Boot,
              vars, broker

\* A step that leaves a member's queue keeps what the queue reaches.
LEMMA QueueKept ==
  ASSUME IInv, [Next]_vars, NEW m \in Members, queue'[m] = queue[m],
         NEW n \in 1 .. Len(queue[m]), NEW o \in 1 .. queue[m][n]
  PROVE  Settled(o)' \/ Holds(m, o, n)'
  <1>1. queue[m] \in Seq(1 .. Len(log)) /\ Len(log) \in Nat
    BY DEF IInv, TypeOK
  <1>2. queue[m][n] \in 1 .. Len(log)
    BY <1>1
  <1>3. o \in 1 .. Len(log)
    BY <1>1, <1>2
  <1>4. Settled(o) \/ Holds(m, o, n)
    BY DEF IInv, QueueReaches
  <1> QED BY <1>3, <1>4, SettledForever DEF Holds

\* So does one that also leaves what the member has received.
LEMMA ReceivedKept ==
  ASSUME IInv, [Next]_vars, NEW m \in Members, queue'[m] = queue[m], received'[m] = received[m],
         NEW o \in 1 .. received[m]
  PROVE  Settled(o)' \/ Holds(m, o, Len(queue[m]))'
  <1>1. o \in 1 .. Len(log)
    BY DEF IInv, TypeOK
  <1>2. Settled(o) \/ Holds(m, o, Len(queue[m]))
    BY DEF IInv, ReceivedReaches
  <1> QED BY <1>1, <1>2, SettledForever DEF Holds

\* At or below the committed offset everything is settled when a flush has ended, and so it
\* stays.
LEMMA AccountedStep == IInv /\ [Next]_vars => Accounted'
  <1> SUFFICES ASSUME IInv, [Next]_vars, NEW o \in 1 .. committed' PROVE Settled(o)'
    BY DEF Accounted
  <1>1. TypeOK
    BY DEF IInv
  <1>a. Len(log) \in Nat /\ committed \in 0 .. Len(log)
    BY <1>1 DEF TypeOK
  <1>2. CASE o \in 1 .. committed
    <2>1. Settled(o) /\ o \in 1 .. Len(log)
      BY <1>a, <1>2 DEF IInv, Accounted
    <2> QED BY <2>1, SettledForever
  <1>3. CASE o \notin 1 .. committed
    <2>1. committed' # committed
      BY <1>3
    <2>2. PICK m \in Members : CommitLastMessage(m)
      <3>1. \A m \in Members : WriteStatement(m) \/ RetryStatement(m) \/ GiveUp(m) => committed' = committed
        BY DEF WriteStatement, RetryStatement, GiveUp, broker
      <3> QED BY <2>1, <3>1
              DEF Next, MemberStep, Produce, Assign, Receive, StartFlush, Stop, Exit, Crash, Boot,
                  vars, broker
    <2>3. /\ flushing[m] # 0 /\ jobs[m] = {} /\ committed' = queue[m][flushing[m]]
      BY <2>1, <2>2 DEF CommitLastMessage, LastOfFlush
    <2>4. queue[m] \in Seq(1 .. Len(log)) /\ flushing[m] \in 1 .. Len(queue[m])
      BY <1>1, <2>3 DEF TypeOK
    <2>5. queue[m][flushing[m]] \in 1 .. Len(log)
      BY <2>4
    <2>6. o \in 1 .. Len(log)
      BY <1>a, <2>3, <2>5
    <2>7. Settled(o) \/ \E i \in 1 .. flushing[m] : queue[m][i] = o
      BY <2>3, <2>4 DEF IInv, QueueReaches, Holds
    <2>8. Settled(o)
      BY <2>3, <2>7, FlushSettles
    <2> QED BY <2>6, <2>8, SettledForever
  <1> QED BY <1>2, <1>3

\* The steps that change a queue or what has been received.
LEMMA ReachStep == IInv /\ [Next]_vars => QueueReaches' /\ ReceivedReaches'
  <1> SUFFICES ASSUME IInv, [Next]_vars, NEW m \in Members
               PROVE  /\ \A n \in 1 .. Len(queue'[m]) : \A o \in 1 .. queue'[m][n] : Settled(o)' \/ Holds(m, o, n)'
                      /\ \A o \in 1 .. received'[m] : Settled(o)' \/ Holds(m, o, Len(queue[m]))'
    BY DEF QueueReaches, ReceivedReaches
  <1>a. TypeOK
    BY DEF IInv
  <1>b. /\ Len(log) \in Nat
        /\ queue[m] \in Seq(1 .. Len(log))
        /\ received[m] \in 0 .. Len(log)
    BY <1>a DEF TypeOK
  <1>0. /\ TypeOK /\ Len(log) \in Nat
        /\ queue[m] \in Seq(1 .. Len(log)) /\ Len(queue[m]) \in Nat
        /\ received[m] \in 0 .. Len(log)
        /\ \A i \in 1 .. Len(queue[m]) : queue[m][i] \in 1 .. Len(log)
    BY <1>a, <1>b
  <1>1. CASE queue'[m] = queue[m] /\ received'[m] = received[m]
    BY <1>1, QueueKept, ReceivedKept
  <1>2. CASE Assign(m)
    <2>1. queue'[m] = queue[m] /\ received'[m] = committed /\ committed' = committed
      BY <1>0, <1>2 DEF Assign, worker, TypeOK
    <2>2. \A o \in 1 .. committed : Settled(o)'
      BY <2>1, AccountedStep DEF Accounted
    <2> QED BY <2>1, <2>2, QueueKept
  <1>3. CASE Receive(m)
    <2>0. /\ queue'[m] = Append(queue[m], received[m] + 1) /\ received'[m] = received[m] + 1
          /\ received[m] < Len(log)
      BY <1>a, <1>3 DEF Receive, TypeOK
    <2>1. /\ queue'[m] = Append(queue[m], received[m] + 1) /\ received'[m] = received[m] + 1
          /\ received[m] + 1 \in 1 .. Len(log)
      BY <1>b, <2>0
    <2>2. /\ Len(queue'[m]) = Len(queue[m]) + 1
          /\ queue'[m][Len(queue[m]) + 1] = received[m] + 1
          /\ \A i \in 1 .. Len(queue[m]) : queue'[m][i] = queue[m][i]
      BY <1>0, <2>1
    <2>3. ASSUME NEW o \in 1 .. received[m] + 1
          PROVE  Settled(o)' \/ \E i \in 1 .. Len(queue[m]) + 1 : queue'[m][i] = o
      <3>1. CASE o = received[m] + 1
        <4>1. Len(queue[m]) + 1 \in 1 .. Len(queue[m]) + 1
          BY <1>0
        <4> QED BY <2>2, <3>1, <4>1
      <3>2. CASE o # received[m] + 1
        <4>1. o \in 1 .. received[m] /\ o \in 1 .. Len(log)
          BY <1>0, <3>2
        <4>2. Settled(o) \/ Holds(m, o, Len(queue[m]))
          BY <4>1 DEF IInv, ReceivedReaches
        <4>3. CASE Settled(o)
          BY <4>1, <4>3, SettledForever
        <4>4. CASE Holds(m, o, Len(queue[m]))
          <5>1. PICK i \in 1 .. Len(queue[m]) : queue[m][i] = o
            BY <4>4 DEF Holds
          <5>2. i \in 1 .. Len(queue[m]) + 1 /\ queue'[m][i] = o
            BY <1>0, <2>2, <5>1, SMTT(30)
          <5> QED BY <5>2
        <4> QED BY <4>2, <4>3, <4>4
      <3> QED BY <3>1, <3>2
    <2>4. ASSUME NEW n \in 1 .. Len(queue[m]), NEW o \in 1 .. queue'[m][n]
          PROVE  Settled(o)' \/ Holds(m, o, n)'
      <3>1. o \in 1 .. queue[m][n] /\ queue[m][n] \in 1 .. Len(log) /\ o \in 1 .. Len(log)
        BY <1>0, <2>2, SMTT(30)
      <3>2. Settled(o) \/ Holds(m, o, n)
        BY <3>1 DEF IInv, QueueReaches
      <3>3. CASE Settled(o)
        BY <3>1, <3>3, SettledForever
      <3>4. CASE Holds(m, o, n)
        <4>1. PICK i \in 1 .. n : queue[m][i] = o
          BY <3>4 DEF Holds
        <4>2. i \in 1 .. Len(queue[m])
          BY <1>0
        <4>3. queue'[m][i] = o
          BY <2>2, <4>1, <4>2
        <4> QED BY <4>3 DEF Holds
      <3> QED BY <3>2, <3>3, <3>4
    <2>5. ASSUME NEW n \in 1 .. Len(queue'[m]), NEW o \in 1 .. queue'[m][n]
          PROVE  Settled(o)' \/ Holds(m, o, n)'
      <3>1. n \in 1 .. Len(queue[m]) \/ n = Len(queue[m]) + 1
        BY <1>0, <2>2
      <3>2. CASE n = Len(queue[m]) + 1
        <4>1. o \in 1 .. received[m] + 1
          BY <2>2, <3>2
        <4> QED BY <2>3, <3>2, <4>1 DEF Holds
      <3> QED BY <2>4, <3>1, <3>2
    <2>6. \A o \in 1 .. received'[m] : Settled(o)' \/ Holds(m, o, Len(queue[m]))'
      <3> SUFFICES ASSUME NEW o \in 1 .. received'[m] PROVE Settled(o)' \/ Holds(m, o, Len(queue[m]))'
        OBVIOUS
      <3>1. Settled(o)' \/ \E i \in 1 .. Len(queue[m]) + 1 : queue'[m][i] = o
        BY <2>1, <2>3
      <3> QED BY <2>2, <3>1 DEF Holds
    <2> QED BY <2>5, <2>6
  <1>4. CASE CommitLastMessage(m)
    <2> DEFINE f == flushing[m]
               L == Len(queue[m])
    <2>1. f \in 1 .. L /\ jobs[m] = {} /\ received'[m] = received[m]
      BY <1>0, <1>4 DEF CommitLastMessage, TypeOK
    <2>2. queue'[m] = SubSeq(queue[m], f + 1, L)
      BY <1>0, <1>4 DEF CommitLastMessage, TypeOK
    <2> HIDE DEF f, L
    <2>3. Len(queue'[m]) = L - f /\ \A i \in 1 .. L - f : queue'[m][i] = queue[m][i + f]
      BY <1>0, <2>1, <2>2 DEF L
    <2>4. \A i \in 1 .. f : Settled(queue[m][i]) /\ queue[m][i] \in 1 .. Len(log)
      <3>1. \A i \in 1 .. f : Settled(queue[m][i])
        BY <2>1, FlushSettles DEF f
      <3>2. \A i \in 1 .. f : i \in 1 .. L
        BY <1>0, <2>1 DEF L
      <3> QED BY <1>0, <3>1, <3>2 DEF L
    <2>5. ASSUME NEW n \in f .. L, NEW o \in 1 .. Len(log), Settled(o) \/ Holds(m, o, n)
          PROVE  Settled(o)' \/ \E i \in 1 .. n - f : queue'[m][i] = o
      <3>1. CASE Settled(o)
        BY <3>1, SettledForever
      <3>2. CASE Holds(m, o, n)
        <4>1. PICK i \in 1 .. n : queue[m][i] = o
          BY <3>2 DEF Holds
        <4>2. CASE i \in 1 .. f
          <5>1. Settled(o)
            BY <2>4, <4>1, <4>2
          <5> QED BY <5>1, SettledForever
        <4>3. CASE i \notin 1 .. f
          <5>1. i - f \in 1 .. n - f /\ i - f \in 1 .. L - f /\ (i - f) + f = i
            BY <1>0, <2>1, <4>1, <4>3, SMTT(30) DEF L
          <5>2. queue'[m][i - f] = o
            BY <2>3, <4>1, <5>1
          <5> QED BY <5>1, <5>2
        <4> QED BY <4>2, <4>3
      <3> QED BY <2>5, <3>1, <3>2
    <2>6. ASSUME NEW n \in 1 .. Len(queue'[m]), NEW o \in 1 .. queue'[m][n]
          PROVE  Settled(o)' \/ Holds(m, o, n)'
      <3>1. n + f \in f .. L /\ n + f \in 1 .. L /\ (n + f) - f = n /\ queue'[m][n] = queue[m][n + f]
        <4>1. n \in 1 .. L - f
          BY <2>3
        <4>2. f \in Nat /\ L \in Nat
          BY <1>0, <2>1 DEF L
        <4> QED BY <2>1, <2>3, <4>1, <4>2
      <3>2. queue[m][n + f] \in 1 .. Len(log)
        BY <1>0, <3>1 DEF L
      <3>3. o \in 1 .. Len(log) /\ o \in 1 .. queue[m][n + f]
        BY <1>0, <3>1, <3>2
      <3>4. Settled(o) \/ Holds(m, o, n + f)
        BY <3>1, <3>3 DEF IInv, QueueReaches, L
      <3>5. Settled(o)' \/ \E i \in 1 .. (n + f) - f : queue'[m][i] = o
        BY <2>5, <3>1, <3>3, <3>4
      <3> QED BY <3>1, <3>5 DEF Holds
    <2>7. ASSUME NEW o \in 1 .. received'[m]
          PROVE  Settled(o)' \/ Holds(m, o, Len(queue[m]))'
      <3>1. o \in 1 .. received[m] /\ o \in 1 .. Len(log)
        BY <1>0, <2>1
      <3>2. Settled(o) \/ Holds(m, o, L)
        BY <3>1 DEF IInv, ReceivedReaches, L
      <3>3. L \in f .. L
        BY <1>0, <2>1 DEF L
      <3>4. Settled(o)' \/ \E i \in 1 .. L - f : queue'[m][i] = o
        BY <2>5, <3>1, <3>2, <3>3
      <3> QED BY <2>3, <3>4 DEF Holds
    <2> QED BY <2>6, <2>7
  <1>5. CASE Exit(m) \/ Crash(m)
    <2>1. queue'[m] = <<>> /\ received'[m] = 0
      BY <1>0, <1>5 DEF Exit, Crash, Boot, TypeOK
    <2> QED BY <2>1
  <1>6. ASSUME NEW k \in Members, k # m,
               Assign(k) \/ Receive(k) \/ CommitLastMessage(k) \/ Exit(k) \/ Crash(k)
        PROVE  queue'[m] = queue[m] /\ received'[m] = received[m]
    BY <1>0, <1>6 DEF Assign, Receive, CommitLastMessage, Exit, Crash, Boot, TypeOK, worker
  <1>7. ASSUME NEW k \in Members,
               \/ StartFlush(k) \/ WriteStatement(k) \/ RetryStatement(k) \/ GiveUp(k) \/ Stop(k)
        PROVE  queue'[m] = queue[m] /\ received'[m] = received[m]
    BY <1>7 DEF StartFlush, WriteStatement, RetryStatement, GiveUp, Stop, worker
  <1>8. CASE Produce \/ UNCHANGED vars
    <2>1. queue'[m] = queue[m] /\ received'[m] = received[m]
      BY <1>8 DEF Produce, vars, worker
    <2> QED BY <1>1, <2>1
  <1>9. CASE \E k \in Members : Assign(k) \/ MemberStep(k) \/ Stop(k) \/ Crash(k)
    <2>1. PICK k \in Members : Assign(k) \/ MemberStep(k) \/ Stop(k) \/ Crash(k)
      BY <1>9
    <2>2. CASE StartFlush(k) \/ WriteStatement(k) \/ RetryStatement(k) \/ GiveUp(k) \/ Stop(k)
      BY <1>1, <1>7, <2>2
    <2>3. CASE (Assign(k) \/ Receive(k) \/ CommitLastMessage(k) \/ Exit(k) \/ Crash(k)) /\ k # m
      BY <1>1, <1>6, <2>3
    <2>4. CASE (Assign(k) \/ Receive(k) \/ CommitLastMessage(k) \/ Exit(k) \/ Crash(k)) /\ k = m
      BY <1>2, <1>3, <1>4, <1>5, <2>4
    <2> QED BY <2>1, <2>2, <2>3, <2>4 DEF MemberStep
  <1> QED BY <1>8, <1>9 DEF Next

\* No row of a running flush is dropped.
LEMMA CoverStep == IInv /\ [Next]_vars => FlushCovered'
  <1> SUFFICES ASSUME IInv, [Next]_vars, NEW m \in Members, NEW x \in Flushed(m, flushing[m])'
               PROVE  RowAt(m, x)' \in stored' \union lost' \/ \E j \in jobs'[m] : x \in j.rows
    BY DEF FlushCovered
  <1>a. TypeOK
    BY DEF IInv
  <1>b. /\ Len(log) \in Nat /\ queue[m] \in Seq(1 .. Len(log)) /\ Len(queue[m]) \in Nat
        /\ flushing[m] \in Nat /\ flushing[m] <= Len(queue[m])
    BY <1>a DEF TypeOK
  <1>c. \A i \in 1 .. flushing[m] : queue[m][i] \in 1 .. Len(log)
    BY <1>b
  <1>d. \A y \in Flushed(m, flushing[m]) : y[1] \in 1 .. flushing[m]
    BY DEF Flushed
  \* A step of another kind leaves the flush and what it flushes.
  <1>1. ASSUME flushing'[m] = flushing[m], jobs'[m] = jobs[m],
               stored \subseteq stored', lost \subseteq lost',
               \A i \in 1 .. flushing[m] : queue'[m][i] = queue[m][i] /\ log'[queue[m][i]] = log[queue[m][i]]
        PROVE  RowAt(m, x)' \in stored' \union lost' \/ \E j \in jobs'[m] : x \in j.rows
    <2>1. x \in Flushed(m, flushing[m])
      BY <1>1 DEF Flushed
    <2>2. RowAt(m, x)' = RowAt(m, x)
      BY <1>1, <1>d, <2>1 DEF RowAt
    <2> QED BY <1>1, <2>1, <2>2 DEF IInv, FlushCovered
  <1>2. CASE Produce
    <2>1. \A o \in 1 .. Len(log) : log'[o] = log[o]
      BY <1>2, <1>a, LogGrows
    <2>2. /\ flushing'[m] = flushing[m] /\ jobs'[m] = jobs[m] /\ queue'[m] = queue[m]
          /\ stored' = stored /\ lost' = lost
      BY <1>2 DEF Produce, worker, tables
    <2>3. \A i \in 1 .. flushing[m] : queue'[m][i] = queue[m][i] /\ log'[queue[m][i]] = log[queue[m][i]]
      BY <1>c, <2>1, <2>2
    <2> QED BY <1>1, <2>2, <2>3
  <1>3. CASE Receive(m)
    <2>1. /\ queue'[m] = Append(queue[m], received[m] + 1) /\ log' = log
          /\ flushing'[m] = flushing[m] /\ jobs'[m] = jobs[m]
          /\ stored' = stored /\ lost' = lost
      BY <1>3, <1>a DEF Receive, TypeOK, broker, tables
    <2>2. \A i \in 1 .. Len(queue[m]) : queue'[m][i] = queue[m][i]
      <3>1. received[m] + 1 \in 1 .. Len(log)
        BY <1>3, <1>a DEF Receive, TypeOK
      <3> QED BY <1>b, <2>1, <3>1
    <2>3. \A i \in 1 .. flushing[m] : queue'[m][i] = queue[m][i]
      BY <1>b, <2>2
    <2> QED BY <1>1, <2>1, <2>3
  <1>4. CASE StartFlush(m)
    <2>1. /\ flushing'[m] = FlushCount(m)
          /\ \A y \in Flushed(m, FlushCount(m)) : \E j \in jobs'[m] : y \in j.rows
      BY <1>4, <1>a, StartedJobs
    <2>2. x \in Flushed(m, FlushCount(m))
      BY <1>4, <2>1 DEF Flushed, StartFlush, broker
    <2> QED BY <2>1, <2>2
  <1>5. ASSUME NEW k \in Members, WriteStatement(k) \/ RetryStatement(k) \/ GiveUp(k)
        PROVE  RowAt(m, x)' \in stored' \union lost' \/ \E j \in jobs'[m] : x \in j.rows
    <2>1. PICK j \in jobs[k] : \E K : JobStep(k, j, K)
      BY <1>5, JobSteps
    <2>2. PICK K : JobStep(k, j, K)
      BY <2>1
    <2>3. log' = log /\ queue' = queue /\ flushing' = flushing /\ stored \subseteq stored' /\ lost \subseteq lost'
      BY <2>2 DEF JobStep, broker
    <2>4. CASE k # m
      <3>1. jobs'[m] = jobs[m]
        BY <1>a, <2>2, <2>4 DEF JobStep, TypeOK
      <3> QED BY <1>1, <2>3, <3>1
    <2>5. CASE k = m
      <3>1. jobs'[m] = (jobs[m] \ {j}) \union K
        BY <1>a, <2>2, <2>5 DEF JobStep, TypeOK
      <3>2. x \in Flushed(m, flushing[m]) /\ RowAt(m, x)' = RowAt(m, x)
        BY <2>3 DEF Flushed, RowAt
      <3>3. RowAt(m, x) \in stored \union lost \/ \E i \in jobs[m] : x \in i.rows
        BY <3>2 DEF IInv, FlushCovered
      <3>4. CASE x \in j.rows
        BY <2>2, <2>5, <3>1, <3>2, <3>4 DEF JobStep
      <3>5. CASE \E i \in jobs[m] \ {j} : x \in i.rows
        BY <3>1, <3>5
      <3>6. CASE RowAt(m, x) \in stored \union lost
        BY <2>3, <3>2, <3>6
      <3> QED BY <3>3, <3>4, <3>5, <3>6
    <2> QED BY <2>4, <2>5
  <1>6. CASE CommitLastMessage(m) \/ Exit(m) \/ Crash(m)
    <2>1. flushing'[m] = 0
      BY <1>6, <1>a DEF CommitLastMessage, Exit, Crash, Boot, TypeOK
    <2> QED BY <2>1 DEF Flushed
  <1>7. ASSUME NEW k \in Members,
               \/ k # m /\ (Receive(k) \/ StartFlush(k) \/ CommitLastMessage(k) \/ Exit(k) \/ Crash(k))
               \/ Assign(k) \/ Stop(k)
        PROVE  RowAt(m, x)' \in stored' \union lost' \/ \E j \in jobs'[m] : x \in j.rows
    <2>1. /\ log' = log /\ queue'[m] = queue[m] /\ flushing'[m] = flushing[m] /\ jobs'[m] = jobs[m]
          /\ stored' = stored /\ lost' = lost
      BY <1>7, <1>a DEF Receive, StartFlush, CommitLastMessage, Exit, Crash, Boot, Assign, Stop,
                        TypeOK, broker, tables, worker
    <2> QED BY <1>1, <2>1
  <1>8. CASE UNCHANGED vars
    <2>1. /\ log' = log /\ queue'[m] = queue[m] /\ flushing'[m] = flushing[m] /\ jobs'[m] = jobs[m]
          /\ stored' = stored /\ lost' = lost
      BY <1>8 DEF vars, broker, tables, worker
    <2> QED BY <1>1, <2>1
  <1>9. CASE \E k \in Members : Assign(k) \/ MemberStep(k) \/ Stop(k) \/ Crash(k)
    <2>1. PICK k \in Members : Assign(k) \/ MemberStep(k) \/ Stop(k) \/ Crash(k)
      BY <1>9
    <2>2. CASE WriteStatement(k) \/ RetryStatement(k) \/ GiveUp(k)
      BY <1>5, <2>2
    <2>3. CASE k = m /\ (Receive(k) \/ StartFlush(k) \/ CommitLastMessage(k) \/ Exit(k) \/ Crash(k))
      BY <1>3, <1>4, <1>6, <2>3
    <2>4. CASE \/ k # m /\ (Receive(k) \/ StartFlush(k) \/ CommitLastMessage(k) \/ Exit(k) \/ Crash(k))
               \/ Assign(k) \/ Stop(k)
      BY <1>7, <2>4
    <2> QED BY <2>1, <2>2, <2>3, <2>4 DEF MemberStep
  <1> QED BY <1>2, <1>8, <1>9 DEF Next

-----------------------------------------------------------------------------
(* The theorems                                                             *)

\* At first there is nothing.
LEMMA IInvInit == Init => IInv
  <1> SUFFICES ASSUME Init PROVE IInv
    OBVIOUS
  <1>1. /\ log \in Seq(Nat \ {0}) /\ Len(log) = 0
        /\ \A m \in Members : /\ queue[m] = <<>> /\ flushing[m] = 0 /\ received[m] = 0
                              /\ jobs[m] = {} /\ queue[m] \in Seq(1 .. Len(log))
    BY DEF Init
  <1>2. IsFiniteSet({}) /\ Cardinality({}) = 0 /\ MaxWorkers \in Nat
    BY FS_EmptySet, LimitsAssumption
  <1>3. WorkersBounded /\ JobsOfFlush
    <2>1. ASSUME NEW m \in Members
          PROVE  IsFiniteSet(jobs[m]) /\ Cardinality(jobs[m]) <= MaxWorkers /\ jobs[m] = {}
      <3>1. jobs[m] = {}
        BY <1>1
      <3>2. IsFiniteSet(jobs[m]) /\ Cardinality(jobs[m]) = 0
        BY <1>2, <3>1, Zenon
      <3> QED BY <1>2, <3>1, <3>2
    <2> QED BY <2>1 DEF WorkersBounded, JobsOfFlush
  <1>4. TypeOK
    <2>1. queue \in [Members -> Seq(1 .. Len(log))]
      BY <1>1 DEF Init
    <2> QED BY <1>1, <1>3, <2>1, BoundAssumption DEF Init, TypeOK
  <1>5. FlushCovered
    BY <1>1 DEF FlushCovered, Flushed
  <1>6. QueueReaches /\ ReceivedReaches /\ Accounted
    BY <1>1 DEF Init, QueueReaches, ReceivedReaches, Accounted
  <1> QED BY <1>3, <1>4, <1>5, <1>6 DEF IInv

LEMMA IInvStep == IInv /\ [Next]_vars => IInv'
  BY TypeStep, AccountedStep, ReachStep, CoverStep DEF IInv

\* IInv holds in every state.
THEOREM Inductive == Spec => []IInv
  BY IInvInit, IInvStep, PTL DEF Spec

\* The variables have their types, no queue is shorter than its flush, and however many rows
\* a flush has, it starts at most maxWorkers goroutines (TypeOK; chain_event_writer.go:33).
THEOREM TypeCorrect == Spec => []TypeOK
  <1>1. IInv => TypeOK
    BY DEF IInv
  <1> QED BY <1>1, Inductive, PTL

\* For any number of members, of rebalances at any moment, of stops, crashes and failures,
\* every row of a message at or below the committed offset was written or its batch was given
\* up (Accounted; worker.go:343).
THEOREM Accountable == Spec => []Accounted
  <1>1. IInv => Accounted
    BY DEF IInv
  <1> QED BY <1>1, Inductive, PTL

\* What has been settled is settled for good: no later step of any member, nor a restart,
\* takes it back.
THEOREM SettledIsFinal == Spec => [][\A o \in 1 .. Len(log) : Settled(o) => Settled(o)']_vars
  <1>1. IInv /\ [Next]_vars => [\A o \in 1 .. Len(log) : Settled(o) => Settled(o)']_vars
    BY SettledForever
  <1> QED BY <1>1, Inductive, PTL DEF Spec

-----------------------------------------------------------------------------
(* The members implement AtLeastOnce                                        *)

\* The rows of all messages; nothing else is written or given up.
LogRows == UNION {RowsOf(o) : o \in 1 .. Len(log)}
NothingInvented == stored \subseteq LogRows /\ lost \subseteq LogRows

\* The state as AtLeastOnce sees it: messages with their rows, and rows before offsets.
Messages == [o \in 1 .. Len(log) |-> [batch |-> TRUE, rows |-> 1 .. log[o]]]
Flip(S) == {<<r[2], r[1]>> : r \in S}

\* A row is one of its message's.
LEMMA LogRowsMember ==
  \A r : r \in LogRows <=> \E o \in 1 .. Len(log) : \E i \in 1 .. log[o] : r = <<o, i>>
  BY DEF LogRows, RowsOf

\* A row that a goroutine has is a row of a message.
LEMMA RowAtInLog ==
  ASSUME IInv, NEW m \in Members, NEW j \in jobs[m], NEW x \in j.rows
  PROVE  RowAt(m, x) \in LogRows
  <1>1. x \in Flushed(m, flushing[m])
    BY DEF IInv, JobsOfFlush
  <1>2. PICK n \in 1 .. flushing[m] : x \in {n} \X (1 .. log[queue[m][n]])
    BY <1>1 DEF Flushed
  <1>3. queue[m] \in Seq(1 .. Len(log)) /\ flushing[m] \in Nat /\ flushing[m] <= Len(queue[m])
    BY DEF IInv, TypeOK
  <1>4. queue[m][n] \in 1 .. Len(log)
    BY <1>2, <1>3
  <1>5. x[1] = n /\ x[2] \in 1 .. log[queue[m][n]]
    BY <1>2
  <1>6. RowAt(m, x) = <<queue[m][n], x[2]>>
    BY <1>5 DEF RowAt
  <1> QED BY <1>4, <1>5, <1>6, LogRowsMember

\* What a step does to log, offset and tables.
LEMMA PromiseSteps ==
  ASSUME IInv, [Next]_vars
  PROVE  \/ Produce /\ UNCHANGED <<committed, stored, lost>>
         \/ /\ UNCHANGED <<log, committed>>
            /\ stored \subseteq stored' /\ lost \subseteq lost'
            /\ stored' \subseteq stored \union LogRows /\ lost' \subseteq lost \union LogRows
         \/ /\ UNCHANGED <<log, stored, lost>>
            /\ \E m \in Members : CommitLastMessage(m) /\ committed' = LastOfFlush(m)
  <1>1. CASE Produce
    BY <1>1 DEF Produce, tables
  <1>2. ASSUME NEW m \in Members, WriteStatement(m) \/ RetryStatement(m) \/ GiveUp(m)
        PROVE  /\ UNCHANGED <<log, committed>>
               /\ stored \subseteq stored' /\ lost \subseteq lost'
               /\ stored' \subseteq stored \union LogRows /\ lost' \subseteq lost \union LogRows
    <2>1. \A j \in jobs[m] : {RowAt(m, x) : x \in j.rows} \subseteq LogRows
      BY RowAtInLog
    <2>2. \A j \in jobs[m] : Statement(j.rows) \subseteq j.rows
      BY DEF Statement
    <2>3. \A j \in jobs[m] : \A S \in SUBSET Statement(j.rows) : {RowAt(m, x) : x \in S} \subseteq LogRows
      BY <2>1, <2>2
    <2>4. CASE WriteStatement(m)
      BY <2>3, <2>4 DEF WriteStatement, broker
    <2>5. CASE RetryStatement(m)
      BY <2>3, <2>5 DEF RetryStatement, broker
    <2>6. CASE GiveUp(m)
      BY <2>1, <2>3, <2>6 DEF GiveUp, broker
    <2> QED BY <1>2, <2>4, <2>5, <2>6
  <1>3. ASSUME NEW m \in Members, CommitLastMessage(m)
        PROVE  /\ UNCHANGED <<log, stored, lost>>
               /\ committed' = committed \/ committed' = LastOfFlush(m)
    BY <1>3 DEF CommitLastMessage, tables
  <1>4. ASSUME NEW m \in Members, Assign(m) \/ Receive(m) \/ StartFlush(m) \/ Exit(m) \/ Stop(m) \/ Crash(m)
        PROVE  UNCHANGED <<log, committed, stored, lost>>
    BY <1>4 DEF Assign, Receive, StartFlush, Exit, Stop, Crash, Boot, broker, tables
  <1>5. CASE UNCHANGED vars
    BY <1>5 DEF vars, broker, tables
  <1> QED BY <1>1, <1>2, <1>3, <1>4, <1>5 DEF Next, MemberStep

\* No step writes or gives up a row that no message holds.
LEMMA InventedStep == IInv /\ NothingInvented /\ [Next]_vars => NothingInvented'
  <1> SUFFICES ASSUME IInv, NothingInvented, [Next]_vars PROVE NothingInvented'
    OBVIOUS
  <1>1. LogRows \subseteq LogRows'
    <2>1. CASE Produce
      <3>1. /\ Len(log') = Len(log) + 1 /\ Len(log) \in Nat
            /\ \A o \in 1 .. Len(log) : log'[o] = log[o]
        BY <2>1, LogGrows DEF IInv
      <3>2. \A o \in 1 .. Len(log) : o \in 1 .. Len(log') /\ RowsOf(o)' = RowsOf(o)
        BY <3>1 DEF RowsOf
      <3> QED BY <3>2 DEF LogRows
    <2>2. CASE UNCHANGED log
      BY <2>2 DEF LogRows, RowsOf
    <2> QED BY <2>1, <2>2, PromiseSteps
  <1>2. stored' \subseteq stored \union LogRows /\ lost' \subseteq lost \union LogRows
    BY PromiseSteps
  <1> QED BY <1>1, <1>2 DEF NothingInvented

\* AtLeastOnce's rows are the rows of the messages, the other way round.
LEMMA FlipMember ==
  ASSUME NEW S, S \subseteq LogRows, NEW o, NEW i
  PROVE  <<i, o>> \in Flip(S) <=> <<o, i>> \in S
  <1>1. ASSUME <<i, o>> \in Flip(S) PROVE <<o, i>> \in S
    <2>1. PICK r \in S : <<i, o>> = <<r[2], r[1]>>
      BY <1>1 DEF Flip
    <2>2. \E p, k : r = <<p, k>>
      BY LogRowsMember
    <2>3. PICK p, k : r = <<p, k>>
      BY <2>2
    <2>4. r[1] = p /\ r[2] = k
      BY <2>3
    <2>5. i = k /\ o = p
      BY <2>1, <2>4
    <2> QED BY <2>3, <2>5
  <1>2. ASSUME <<o, i>> \in S PROVE <<i, o>> \in Flip(S)
    <2>1. <<o, i>>[2] = i /\ <<o, i>>[1] = o
      OBVIOUS
    <2> QED BY <1>2, <2>1 DEF Flip
  <1> QED BY <1>1, <1>2

LEMMA PromiseRows ==
  ASSUME TypeOK
  PROVE  /\ Len(Messages) = Len(log)
         /\ \A o \in 1 .. Len(log) : Promise!Rows(o) = 1 .. log[o]
         /\ Promise!RowSets = Flip(LogRows)
  <1>1. Len(log) \in Nat /\ Messages \in Seq([batch : {TRUE}, rows : SUBSET Int]) /\ Len(Messages) = Len(log)
    BY DEF TypeOK, Messages
  <1>2. ASSUME NEW o \in 1 .. Len(log) PROVE Promise!Rows(o) = 1 .. log[o]
    BY DEF Promise!Rows
  <1>3. Promise!RowSets = UNION {{<<i, o>> : i \in 1 .. log[o]} : o \in 1 .. Len(log)}
    <2>1. Promise!RowSets = UNION {{<<i, o>> : i \in Promise!Rows(o)} : o \in 1 .. Len(log)}
      BY <1>1 DEF Promise!RowSets, Messages
    <2>2. \A o \in 1 .. Len(log) : {<<i, o>> : i \in Promise!Rows(o)} = {<<i, o>> : i \in 1 .. log[o]}
      BY <1>2
    <2> HIDE DEF Messages
    <2> QED BY <2>1, <2>2
  <1>4. ASSUME NEW x \in Promise!RowSets PROVE x \in Flip(LogRows)
    <2>1. PICK o \in 1 .. Len(log) : x \in {<<i, o>> : i \in 1 .. log[o]}
      BY <1>3
    <2>2. PICK i \in 1 .. log[o] : x = <<i, o>>
      BY <2>1
    <2>3. <<o, i>> \in LogRows
      BY <2>1, <2>2, LogRowsMember
    <2> QED BY <2>2, <2>3, FlipMember
  <1>5. ASSUME NEW x \in Flip(LogRows) PROVE x \in Promise!RowSets
    <2>1. PICK r \in LogRows : x = <<r[2], r[1]>>
      BY <1>5 DEF Flip
    <2>2. PICK o \in 1 .. Len(log) : \E i \in 1 .. log[o] : r = <<o, i>>
      BY LogRowsMember
    <2>3. PICK i \in 1 .. log[o] : r = <<o, i>>
      BY <2>2
    <2>4. r[1] = o /\ r[2] = i
      BY <2>3
    <2>5. x = <<i, o>>
      BY <2>1, <2>4
    <2>6. x \in {<<k, o>> : k \in 1 .. log[o]}
      BY <2>3, <2>5
    <2> QED BY <1>3, <2>2, <2>6
  <1> QED BY <1>1, <1>2, <1>4, <1>5

LEMMA PromiseInit == Init => Promise!Init /\ NothingInvented
  <1> SUFFICES ASSUME Init PROVE Promise!Init /\ NothingInvented
    OBVIOUS
  <1>1. log = <<>> /\ stored = {} /\ lost = {} /\ committed = 0
    BY DEF Init
  <1>2. Messages = <<>>
    BY <1>1 DEF Messages
  <1> QED BY <1>1, <1>2 DEF Promise!Init, NothingInvented, Messages

\* A message that arrives is one of the kinds.
LEMMA PromiseProduce ==
  ASSUME TypeOK, Produce
  PROVE  \E o \in 1 .. MaxLog : Messages' = Append(Messages, [batch |-> TRUE, rows |-> 1 .. Size[o]])
  <1> DEFINE n == Len(log)
             k == [batch |-> TRUE, rows |-> 1 .. Size[n + 1]]
  <1>1. n \in Nat /\ n < MaxLog /\ log' = Append(log, Size[n + 1])
    BY DEF TypeOK, Produce
  <1>2. log \in Seq(Nat \ {0}) /\ n + 1 \in 1 .. MaxLog /\ Size[n + 1] \in Nat \ {0}
    BY <1>1, LimitsAssumption, BoundAssumption DEF TypeOK
  <1>3. /\ Len(log') = n + 1 /\ log'[n + 1] = Size[n + 1]
        /\ \A o \in 1 .. n : log'[o] = log[o]
    BY <1>1, <1>2
  <1>4. Messages \in Seq([batch : {TRUE}, rows : SUBSET Int]) /\ Len(Messages) = n
    BY <1>1 DEF Messages
  <1> HIDE DEF n
  <1>5. Messages' = [o \in 1 .. n + 1 |-> [batch |-> TRUE, rows |-> 1 .. log'[o]]]
    BY <1>3 DEF Messages
  <1>6. /\ Append(Messages, k) = [o \in 1 .. n + 1 |-> IF o = n + 1 THEN k ELSE Messages[o]]
    BY <1>1, <1>4
  <1>7. ASSUME NEW o \in 1 .. n + 1
        PROVE  [batch |-> TRUE, rows |-> 1 .. log'[o]] = IF o = n + 1 THEN k ELSE Messages[o]
    <2>1. CASE o = n + 1
      BY <1>3, <2>1
    <2>2. CASE o # n + 1
      <3>1. o \in 1 .. n
        BY <1>1, <2>2
      <3>2. Messages[o] = [batch |-> TRUE, rows |-> 1 .. log[o]]
        BY <3>1 DEF Messages, n
      <3> QED BY <1>3, <2>2, <3>1, <3>2
    <2> QED BY <2>1, <2>2
  <1>8. Messages' = Append(Messages, k)
    BY <1>5, <1>6, <1>7
  <1> QED BY <1>2, <1>8

\* Every step of any member is a step of AtLeastOnce or leaves its variables alone.
LEMMA PromiseStep ==
  IInv /\ IInv' /\ NothingInvented /\ NothingInvented' /\ [Next]_vars => [Promise!Next]_Promise!vars
  <1> SUFFICES ASSUME IInv, IInv', NothingInvented, NothingInvented', [Next]_vars
               PROVE  [Promise!Next]_Promise!vars
    OBVIOUS
  <1>1. TypeOK /\ TypeOK'
    BY DEF IInv
  <1>2. Flip(stored') \subseteq Flip(LogRows') /\ Flip(lost') \subseteq Flip(LogRows')
    BY DEF NothingInvented, Flip
  <1>3. CASE Produce /\ UNCHANGED <<committed, stored, lost>>
    <2>1. \E k \in {[batch |-> TRUE, rows |-> 1 .. Size[o]] : o \in 1 .. MaxLog} :
            Messages' = Append(Messages, k)
      BY <1>1, <1>3, PromiseProduce
    <2> QED BY <1>3, <2>1 DEF Promise!Next, Promise!Produce, Messages
  <1>4. CASE /\ UNCHANGED <<log, committed>>
             /\ stored \subseteq stored' /\ lost \subseteq lost'
    <2>1. LogRows' = LogRows /\ Messages' = Messages
      BY <1>4 DEF LogRows, RowsOf, Messages
    <2>2. Flip(stored) \subseteq Flip(stored') /\ Flip(lost) \subseteq Flip(lost')
      BY <1>4 DEF Flip
    <2>3. Promise!RowSets = Flip(LogRows)
      BY <1>1, PromiseRows
    <2>4. Promise!Settle
      BY <1>2, <1>4, <2>1, <2>2, <2>3 DEF Promise!Settle, Messages, Flip
    <2> QED BY <2>4 DEF Promise!Next
  <1>5. CASE /\ UNCHANGED <<log, stored, lost>>
             /\ \E m \in Members : CommitLastMessage(m) /\ committed' = LastOfFlush(m)
    <2>1. committed' \in 1 .. Len(log)
      <3>1. PICK m \in Members : CommitLastMessage(m) /\ committed' = LastOfFlush(m)
        BY <1>5
      <3>2. queue[m] \in Seq(1 .. Len(log)) /\ flushing[m] \in 1 .. Len(queue[m])
        BY <1>1, <3>1 DEF TypeOK, CommitLastMessage
      <3> QED BY <3>1, <3>2 DEF LastOfFlush
    <2>2. ASSUME NEW p \in 1 .. committed', NEW i \in Promise!Rows(p)
          PROVE  <<i, p>> \in Flip(stored) \union Flip(lost)
      <3>1. p \in 1 .. Len(log)
        BY <1>1, <2>1 DEF TypeOK
      <3>2. i \in 1 .. log[p]
        BY <1>1, <2>2, <3>1, PromiseRows
      <3>3. Settled(p)'
        BY DEF IInv, Accounted
      <3>4. <<p, i>> \in stored \union lost
        BY <1>5, <3>2, <3>3 DEF Settled, RowsOf
      <3> QED BY <3>4, FlipMember DEF NothingInvented
    <2>3. Len(Messages) = Len(log) /\ Messages' = Messages
      BY <1>1, <1>5, PromiseRows DEF Messages
    <2>4. Flip(stored') = Flip(stored) /\ Flip(lost') = Flip(lost)
      BY <1>5 DEF Flip
    <2>5. Promise!Commit
      BY <2>1, <2>2, <2>3, <2>4 DEF Promise!Commit, Messages, Flip
    <2> QED BY <2>5 DEF Promise!Next
  <1> QED BY <1>3, <1>4, <1>5, PromiseSteps

\* However the partition is passed on, and whatever fails, the group delivers at least once:
\* nothing is written that no message holds, what is written stays, and the offset moves only
\* over messages of which every row was written or given up (Implements; worker.go:343).
THEOREM Refinement == Spec => Implements
  <1>1. Init => Promise!Init /\ NothingInvented
    BY PromiseInit
  <1>2. IInv /\ NothingInvented /\ [Next]_vars => NothingInvented'
    BY InventedStep
  <1>3. IInv /\ IInv' /\ NothingInvented /\ NothingInvented' /\ [Next]_vars => [Promise!Next]_Promise!vars
    BY PromiseStep
  <1> QED BY <1>1, <1>2, <1>3, Inductive, PTL DEF Spec, Implements, Promise!Spec
=============================================================================
