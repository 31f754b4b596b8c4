-------------------------- MODULE PoolMigrationProofs --------------------------
(***************************************************************************)
(* Proofs about PoolMigration, for any rows, page, batch and bound: the    *)
(* types, that no address the tool has passed is missing, that the time of *)
(* a creation comes along, and that the loaders learn what they promise.   *)
(***************************************************************************)
EXTENDS PoolMigration, FiniteSetTheorems, WellFoundedInduction, TLAPS

-----------------------------------------------------------------------------
(* The inductive invariant                                                  *)

Addresses == {r.address : r \in Rows}

\* Between two pages nothing is being written, ...
Resting == phase # "write" => writing = {}

\* ... and what is written goes to a row the target may have.
WritingNamed == \A b \in writing : \A r \in b : r.address \in Addresses

\* A token that the node knows is known, or has been asked for in vain, or will be asked for.
Asked == tool = "chain" => Tokens \intersect Mints \subseteq tokenMap \union unanswered \union list

IInv == /\ TypeOK /\ Resting /\ WritingNamed /\ Asked
        /\ Migrated /\ CreationMigrated /\ DecimalsLearnt

-----------------------------------------------------------------------------
(* Times                                                                    *)

\* Of a non-empty set of numbers one is the least.
LEMMA LeastExists ==
  ASSUME NEW S \in SUBSET Nat, S # {}
  PROVE  \E n \in S : \A m \in S : n <= m
  <1>1. PICK n \in S : \A m \in S : ~(<<m, n>> \in OpToRel(<, Nat))
    BY NatLessThanWellFounded, WFMin
  <1>2. \A m \in S : ~(m < n)
    BY <1>1, Zenon DEF OpToRel
  <1>3. \A m \in S : n <= m
    BY <1>2
  <1> QED BY <1>3

\* The earliest time is a time, and only none when there is no other.
LEMMA EarliestTyped ==
  ASSUME NEW T \in SUBSET Nat
  PROVE  /\ Earliest(T) \in Nat
         /\ (\E t \in T : t > 0) => Earliest(T) > 0
  <1>1. CASE T \subseteq {0}
    BY <1>1 DEF Earliest
  <1>2. CASE ~(T \subseteq {0})
    <2>1. T \ {0} # {} /\ T \ {0} \in SUBSET Nat
      BY <1>2
    <2>2. \E n \in T \ {0} : \A m \in T \ {0} : n <= m
      BY <2>1, LeastExists
    <2> DEFINE U == T \ {0}
               l == CHOOSE n \in U : \A m \in U : n <= m
    <2>3. l \in U
      <3> HIDE DEF U
      <3> QED BY <2>2 DEF U
    <2>4. Earliest(T) = l
      BY <1>2 DEF Earliest
    <2> HIDE DEF l
    <2> QED BY <2>1, <2>3, <2>4
  <1> QED BY <1>1, <1>2

-----------------------------------------------------------------------------
(* A page                                                                   *)

\* The column of a page is a number from 1.
LEMMA ColumnTyped ==
  ASSUME NEW r \in Row
  PROVE  Column(r) \in Nat \ {0}
  BY DEF Column, Row

\* A page has rows of the source past the cursor, in order; it is empty only if there are
\* none.
LEMMA PageTyped ==
  ASSUME TypeOK, NEW s \in Pages
  PROVE  /\ s \in Seq(source) /\ Len(s) \in Nat
         /\ \A i \in 1 .. Len(s) : s[i] \in source /\ s[i] \in Row /\ Column(s[i]) > cursor
         /\ \A i, j \in 1 .. Len(s) : i < j => Column(s[i]) <= Column(s[j])
         /\ \A r \in source : PastCursor(r) =>
              (\E i \in 1 .. Len(s) : s[i] = r) \/ (\A i \in 1 .. Len(s) : Column(s[i]) <= Column(r))
         /\ s = <<>> => \A r \in source : Column(r) <= cursor
  <1> DEFINE rest == {r \in source : PastCursor(r)}
             n == IF Cardinality(rest) < PageSize THEN Cardinality(rest) ELSE PageSize
  <1>1. /\ source \subseteq Rows /\ Rows \subseteq Row /\ cursor \in Nat
        /\ IsFiniteSet(rest)
    <2>1. source \subseteq Rows /\ Rows \subseteq Row /\ cursor \in Nat /\ IsFiniteSet(Rows)
      BY RowsAssumption DEF TypeOK
    <2> QED BY <2>1, FS_Subset
  <1>2. Cardinality(rest) \in Nat /\ (Cardinality(rest) = 0 <=> rest = {})
    BY <1>1, FS_CardinalityType, FS_EmptySet
  <1>3. /\ s \in [1 .. n -> rest]
        /\ \A i, j \in 1 .. n : i < j => Column(s[i]) <= Column(s[j])
        /\ \A r \in rest : (\E i \in 1 .. n : s[i] = r) \/ (\A i \in 1 .. n : Column(s[i]) <= Column(r))
    BY DEF Pages
  <1>4. n \in Nat /\ (n = 0 => rest = {})
    BY <1>2, LimitsAssumption
  <1> HIDE DEF n
  <1>5. s \in Seq(rest) /\ Len(s) = n
    BY <1>3, <1>4
  <1>6. rest \subseteq source /\ \A r \in source : PastCursor(r) => r \in rest
    OBVIOUS
  <1>7. \A r \in rest : r \in Row /\ Column(r) > cursor
    BY <1>1 DEF PastCursor
  <1>8. s \in Seq(source)
    BY <1>5, <1>6
  <1>9. \A i \in 1 .. n : s[i] \in rest
    BY <1>3
  <1>10. ASSUME s = <<>>, NEW r \in source PROVE Column(r) <= cursor
    <2>1. rest = {}
      BY <1>4, <1>5, <1>10
    <2>2. Column(r) \in Nat
      BY <1>1, ColumnTyped
    <2> QED BY <1>1, <2>1, <2>2 DEF PastCursor
  <1> HIDE DEF rest
  <1> QED BY <1>3, <1>4, <1>5, <1>6, <1>7, <1>8, <1>9, <1>10

\* The cursor moves on over rows of the page only.
LEMMA CursorTyped ==
  ASSUME TypeOK, NEW s \in Pages, NEW n \in 0 .. Len(s)
  PROVE  /\ CursorAfter(s, n) \in Nat
         /\ RowsIn(s, n) \subseteq source /\ RowsIn(s, n) \subseteq Row
  <1>1. cursor \in Nat
    BY DEF TypeOK
  <1>2. /\ Len(s) \in Nat
        /\ \A i \in 1 .. Len(s) : s[i] \in source /\ s[i] \in Row
    BY PageTyped
  <1>3. \A i \in 1 .. n : s[i] \in source /\ s[i] \in Row
    BY <1>2
  <1>4. n # 0 => Column(s[n]) \in Nat
    <2>1. n # 0 => s[n] \in Row
      BY <1>3
    <2> QED BY <2>1, ColumnTyped
  <1> QED BY <1>1, <1>3, <1>4 DEF CursorAfter, RowsIn

\* Nothing is passed over: a row up to the new cursor was passed before, or one that is equal
\* in the column has been scanned.
LEMMA NothingBetween ==
  ASSUME TypeOK, NEW s \in Pages, NEW n \in 0 .. Len(s), NEW r \in source,
         Column(r) <= CursorAfter(s, n)
  PROVE  Column(r) <= cursor \/ \E q \in RowsIn(s, n) : Column(q) = Column(r)
  <1>1. cursor \in Nat /\ r \in Row /\ Column(r) \in Nat
    <2>1. cursor \in Nat /\ r \in Row
      BY RowsAssumption DEF TypeOK
    <2> QED BY <2>1, ColumnTyped
  <1> SUFFICES ASSUME Column(r) > cursor PROVE \E i \in 1 .. n : Column(s[i]) = Column(r)
    BY <1>1 DEF RowsIn
  <1>2. n # 0 /\ Column(r) <= Column(s[n])
    BY <1>1 DEF CursorAfter
  <1>3. /\ Len(s) \in Nat
        /\ \A i \in 1 .. Len(s) : s[i] \in Row
        /\ \A i, j \in 1 .. Len(s) : i < j => Column(s[i]) <= Column(s[j])
        /\ (\E i \in 1 .. Len(s) : s[i] = r) \/ (\A i \in 1 .. Len(s) : Column(s[i]) <= Column(r))
    BY PageTyped DEF PastCursor
  <1>4. n \in 1 .. Len(s) /\ Column(s[n]) \in Nat
    <2>1. n \in 1 .. Len(s)
      BY <1>2, <1>3
    <2> QED BY <1>3, <2>1, ColumnTyped
  <1>5. CASE \E i \in 1 .. Len(s) : s[i] = r
    <2>1. PICK i \in 1 .. Len(s) : s[i] = r
      BY <1>5
    <2>2. CASE i <= n
      BY <2>1, <2>2, <1>4
    <2>3. CASE i > n
      <3>1. Column(s[n]) <= Column(r)
        BY <1>3, <1>4, <2>1, <2>3
      <3>2. Column(s[n]) = Column(r)
        BY <1>1, <1>2, <1>4, <3>1
      <3> QED BY <1>4, <3>2
    <2> QED BY <1>3, <1>4, <2>1, <2>2, <2>3
  <1>6. CASE \A i \in 1 .. Len(s) : Column(s[i]) <= Column(r)
    <2>1. Column(s[n]) = Column(r)
      BY <1>1, <1>2, <1>4, <1>6
    <2> QED BY <1>4, <2>1
  <1> QED BY <1>3, <1>5, <1>6
-----------------------------------------------------------------------------
(* What InsertPools makes of a page                                         *)

\* Deduplication gives rows of the page's addresses.
LEMMA DedupTyped ==
  ASSUME NEW s \in Seq(Row), NEW d \in Dedup(s)
  PROVE  d \in Row /\ \E i \in 1 .. Len(s) : d.address = s[i].address
  <1> DEFINE times(i) == {s[j].created : j \in {k \in DOMAIN s : SameKey(s[k], s[i]) /\ Agree(s[k], s[i])}}
  <1>1. DOMAIN s = 1 .. Len(s) /\ \A i \in 1 .. Len(s) : s[i] \in Row
    OBVIOUS
  <1>2. PICK i \in DOMAIN s : d = [s[i] EXCEPT !.created = Earliest(times(i))]
    BY DEF Dedup
  <1>3. times(i) \in SUBSET Nat
    BY <1>1 DEF Row
  <1> HIDE DEF times
  <1>4. Earliest(times(i)) \in Nat
    BY <1>3, EarliestTyped
  <1>5. s[i] \in Row
    BY <1>1, <1>2
  <1>6. d \in Row /\ d.address = s[i].address
    BY <1>2, <1>4, <1>5 DEF Row
  <1> QED BY <1>1, <1>2, <1>6

\* Every row of the page leaves one of its address, with a time of creation if it has one and
\* nothing of the same key contradicts it.
LEMMA DedupKeeps ==
  ASSUME NEW s \in Seq(Row), NEW i \in 1 .. Len(s)
  PROVE  \E d \in Dedup(s) :
           /\ d.address = s[i].address
           /\ s[i].created > 0 =>
                d.created > 0 \/ \E j \in 1 .. Len(s) : SameKey(s[i], s[j]) /\ ~Agree(s[i], s[j])
  <1> DEFINE S == {j \in 1 .. Len(s) : SameKey(s[j], s[i])}
  <1>1. DOMAIN s = 1 .. Len(s) /\ Len(s) \in Nat /\ \A j \in 1 .. Len(s) : s[j] \in Row
    OBVIOUS
  <1>2. S \in SUBSET Nat /\ S # {}
    <2>1. i \in S
      BY DEF SameKey
    <2> QED BY <2>1
  <1>3. PICK f \in S : \A j \in S : f <= j
    BY <1>2, LeastExists
  <1>4. f \in DOMAIN s /\ SameKey(s[f], s[i])
    BY <1>1, <1>3
  <1>5. \A j \in 1 .. f - 1 : ~SameKey(s[j], s[f])
    <2> SUFFICES ASSUME NEW j \in 1 .. f - 1, SameKey(s[j], s[f]) PROVE FALSE
      OBVIOUS
    <2>1. j \in S
      BY <1>1, <1>3, <1>4 DEF SameKey
    <2> QED BY <1>3, <2>1
  <1> DEFINE T == {s[j].created : j \in {k \in DOMAIN s : SameKey(s[k], s[f]) /\ Agree(s[k], s[f])}}
             d == [s[f] EXCEPT !.created = Earliest(T)]
  <1>6. d \in Dedup(s)
    BY <1>4, <1>5 DEF Dedup
  <1>7. T \in SUBSET Nat
    BY <1>1 DEF Row
  <1>8. d.address = s[i].address /\ d.created = Earliest(T)
    <2> HIDE DEF T
    <2>1. s[f] \in Row
      BY <1>1, <1>4
    <2>2. d.address = s[f].address /\ d.created = Earliest(T)
      BY <2>1 DEF Row
    <2> QED BY <1>4, <2>2 DEF SameKey
  <1>9. CASE Agree(s[i], s[f])
    <2>1. s[i].created \in T
      BY <1>1, <1>4, <1>9 DEF SameKey
    <2> HIDE DEF T
    <2>2. s[i].created > 0 => Earliest(T) > 0
      BY <1>7, <2>1, EarliestTyped
    <2> HIDE DEF d
    <2> QED BY <1>6, <1>8, <2>2
  <1>10. CASE ~Agree(s[i], s[f])
    <2>1. f \in 1 .. Len(s) /\ SameKey(s[i], s[f])
      BY <1>1, <1>4 DEF SameKey
    <2> HIDE DEF d
    <2> QED BY <1>6, <1>8, <1>10, <2>1
  <1> QED BY <1>9, <1>10

\* The batches are not empty and have all rows between them.
LEMMA DispatchedCovers ==
  ASSUME NEW s, NEW W \in Dispatched(s)
  PROVE  /\ UNION W = Dedup(s) /\ {} \notin W
  <1> DEFINE with == {r \in Dedup(s) : r.created > 0}
             without == Dedup(s) \ with
             size == Allocated(Cardinality(with), Cardinality(without))
  <1>0. Dispatched(s) = {P \union Q : P \in Batches(with, size[1]), Q \in Batches(without, size[2])}
    BY SMT DEF Dispatched
  <1>1. PICK P \in Batches(with, size[1]), Q \in Batches(without, size[2]) : W = P \union Q
    <2> HIDE DEF with, without, size
    <2> QED BY <1>0
  <1> HIDE DEF size
  <1>2. UNION P = with /\ {} \notin P /\ UNION Q = without /\ {} \notin Q
    <2> HIDE DEF with, without
    <2>1. ASSUME NEW S, NEW n, NEW X \in Batches(S, n)
          PROVE  UNION X = S /\ {} \notin X
      BY <2>1, Zenon DEF Batches
    <2> QED BY <2>1
  <1>3. UNION W = with \union without
    BY <1>1, <1>2
  <1> QED BY <1>1, <1>2, <1>3

\* What is being written once a page is dispatched.
LEMMA PageWritten ==
  ASSUME TypeOK, NEW s \in Pages, NEW W \in Dispatched(s)
  PROVE  /\ W \subseteq (SUBSET Row) \ {{}}
         /\ \A b \in W : \A r \in b : r.address \in Addresses
         /\ \A q \in RowsIn(s, Len(s)) : \E b \in W : \E d \in b :
              /\ d.address = q.address
              /\ q.created > 0 => d.created > 0 \/ \E t \in RowsIn(s, Len(s)) : SameKey(q, t) /\ ~Agree(q, t)
  <1>1. Len(s) \in Nat /\ s \in Seq(source) /\ \A i \in 1 .. Len(s) : s[i] \in source
    BY PageTyped
  <1>2. source \subseteq Rows /\ Rows \subseteq Row
    BY RowsAssumption DEF TypeOK
  <1>3. s \in Seq(Row)
    BY <1>1, <1>2
  <1>4. UNION W = Dedup(s) /\ {} \notin W
    BY DispatchedCovers
  <1>5. \A b \in W : \A r \in b : r \in Dedup(s)
    BY <1>4
  <1>6. \A b \in W : \A r \in b : r \in Row /\ \E i \in 1 .. Len(s) : r.address = s[i].address
    BY <1>3, <1>5, DedupTyped
  <1>7. \A b \in W : \A r \in b : r.address \in Addresses
    BY <1>1, <1>2, <1>6 DEF Addresses
  <1>8. ASSUME NEW i \in 1 .. Len(s)
        PROVE  \E b \in W : \E d \in b :
                 /\ d.address = s[i].address
                 /\ s[i].created > 0 =>
                      d.created > 0 \/ \E j \in 1 .. Len(s) : SameKey(s[i], s[j]) /\ ~Agree(s[i], s[j])
    <2>1. PICK d \in Dedup(s) :
            /\ d.address = s[i].address
            /\ s[i].created > 0 =>
                 d.created > 0 \/ \E j \in 1 .. Len(s) : SameKey(s[i], s[j]) /\ ~Agree(s[i], s[j])
      BY <1>3, DedupKeeps
    <2>2. PICK b \in W : d \in b
      BY <1>4
    <2> QED BY <2>1, <2>2
  <1>9. \A q \in RowsIn(s, Len(s)) : \E i \in 1 .. Len(s) : q = s[i]
    BY DEF RowsIn
  <1>10. \A j \in 1 .. Len(s) : s[j] \in RowsIn(s, Len(s))
    BY DEF RowsIn
  <1>11. W \subseteq (SUBSET Row) \ {{}}
    BY <1>4, <1>6
  <1>12. ASSUME NEW q \in RowsIn(s, Len(s))
         PROVE  \E b \in W : \E d \in b :
                  /\ d.address = q.address
                  /\ q.created > 0 => d.created > 0 \/ \E t \in RowsIn(s, Len(s)) : SameKey(q, t) /\ ~Agree(q, t)
    <2>1. PICK i \in 1 .. Len(s) : q = s[i]
      BY <1>9
    <2> QED BY <1>8, <1>10, <2>1
  <1> QED BY <1>7, <1>11, <1>12
-----------------------------------------------------------------------------
(* What the steps keep                                                      *)

\* Rows of the source and what they name.
LEMMA RowTyped ==
  ASSUME NEW r \in Rows
  PROVE  /\ r \in Row /\ r.address \in Addresses /\ r.address \in Nat \ {0} /\ r.base \in Nat \ {0}
         /\ r.created \in Nat /\ r.base \in Tokens /\ r.quote \in Tokens
  BY RowsAssumption DEF Row, Addresses, Tokens

\* What a row of a batch makes of the target.
LEMMA RowWritten ==
  ASSUME TypeOK, WritingNamed, NEW b \in writing, NEW r \in b,
         target' = [target EXCEPT ![r.address] = Written(r, @)]
  PROVE  /\ target' \in [Addresses -> Nat \union {NoRow}]
         /\ target'[r.address] # NoRow
         /\ r.created > 0 => target'[r.address] > 0
         /\ \A a \in Addresses : /\ target[a] # NoRow => target'[a] # NoRow
                                 /\ target[a] > 0 => target'[a] > 0
  <1>1. target \in [Addresses -> Nat \union {NoRow}] /\ r.address \in Addresses /\ r.created \in Nat
    BY DEF TypeOK, WritingNamed, Addresses, Row
  <1>2. target'[r.address] = Written(r, target[r.address])
    BY <1>1
  <1>3. \A a \in Addresses : a # r.address => target'[a] = target[a]
    BY <1>1
  <1>4. /\ Written(r, target[r.address]) \in Nat
        /\ r.created > 0 => Written(r, target[r.address]) > 0
        /\ target[r.address] > 0 => Written(r, target[r.address]) > 0
    BY <1>1 DEF Written, NoRow
  <1>5. target' \in [Addresses -> Nat \union {NoRow}]
    BY <1>1, <1>2, <1>4
  <1>6. \A n \in Nat : n # NoRow
    BY DEF NoRow
  <1> QED BY <1>2, <1>3, <1>4, <1>5, <1>6

\* Types and batches.
LEMMA TypeStep ==
  ASSUME TypeOK, Resting, WritingNamed, [Next]_vars
  PROVE  TypeOK' /\ Resting' /\ WritingNamed'
  <1> USE DEF Resting, WritingNamed, tables, pools, tokens
  <1>0. /\ source \subseteq Rows /\ Rows \subseteq Row
        /\ \A r \in Rows : r \in Row /\ r.base \in Tokens /\ r.quote \in Tokens
    BY RowsAssumption, RowTyped DEF TypeOK
  <1>1. CASE \E r \in Rows : Add(r)
    BY <1>1 DEF TypeOK, Add
  <1>2. CASE LoadPools
    <2>1. PICK s \in Pages :
            /\ Scanned(s, Len(s))
            /\ cursor' = CursorAfter(s, Len(s))
            /\ loaded' = loaded \union RowsIn(s, Len(s))
            /\ IF s = <<>> THEN phase' = "done" /\ UNCHANGED writing
               ELSE phase' = "write" /\ writing' \in Dispatched(s)
      BY <1>2 DEF LoadPools
    <2>2. Len(s) \in Nat /\ \A i \in 1 .. Len(s) : s[i] \in source /\ s[i].known
      BY <2>1, PageTyped DEF Scanned
    <2>3. cursor' \in Nat /\ RowsIn(s, Len(s)) \subseteq {r \in Rows : r.known}
      <3>1. CursorAfter(s, Len(s)) \in Nat
        BY <2>2, CursorTyped
      <3>2. RowsIn(s, Len(s)) \subseteq {r \in Rows : r.known}
        BY <1>0, <2>2 DEF RowsIn
      <3> QED BY <2>1, <3>1, <3>2
    <2>4. writing' \subseteq (SUBSET Row) \ {{}} /\ \A b \in writing' : \A r \in b : r.address \in Addresses
      <3>1. CASE s = <<>>
        BY <1>2, <2>1, <3>1 DEF TypeOK
      <3>2. CASE s # <<>>
        BY <2>1, <3>2, PageWritten
      <3> QED BY <3>1, <3>2
    <2>5. phase' \in {"done", "write"} /\ (phase' = "done" => writing' = {})
      BY <1>2, <2>1 DEF LoadPools
    <2>6. /\ UNCHANGED <<tool, lives, source, target, tokenMap, list, unanswered, atStart, skipped>>
          /\ loaded' = loaded \union RowsIn(s, Len(s))
      BY <1>2, <2>1 DEF LoadPools
    <2> QED BY <2>3, <2>4, <2>5, <2>6 DEF TypeOK, Addresses
  <1>3. CASE LoadPoolsFails
    <2>0. PICK s \in Pages : \E n \in 0 .. Len(s) :
            cursor' = CursorAfter(s, n) /\ skipped' = skipped \union RowsIn(s, n)
      BY <1>3 DEF LoadPoolsFails
    <2>1. PICK n \in 0 .. Len(s) : cursor' = CursorAfter(s, n) /\ skipped' = skipped \union RowsIn(s, n)
      BY <2>0
    <2>2. cursor' \in Nat /\ RowsIn(s, n) \subseteq Row
      BY <2>1, CursorTyped
    <2> QED BY <1>3, <2>1, <2>2 DEF LoadPoolsFails, TypeOK
  <1>4. CASE InsertRow
    <2>0. PICK b \in writing : \E r \in b :
            /\ target' = [target EXCEPT ![r.address] = Written(r, @)]
            /\ writing' = (writing \ {b}) \union (IF b = {r} THEN {} ELSE {b \ {r}})
      BY <1>4 DEF InsertRow
    <2>1. PICK r \in b :
            /\ target' = [target EXCEPT ![r.address] = Written(r, @)]
            /\ writing' = (writing \ {b}) \union (IF b = {r} THEN {} ELSE {b \ {r}})
      BY <2>0
    <2>2. target' \in [Addresses -> Nat \union {NoRow}]
      BY <2>1, RowWritten
    <2>3. \A c \in writing' : c # {} /\ \E d \in writing : c \subseteq d
      BY <2>1 DEF TypeOK
    <2>4. writing' \subseteq (SUBSET Row) \ {{}} /\ \A c \in writing' : \A q \in c : q.address \in Addresses
      BY <2>3 DEF TypeOK
    <2> QED BY <1>4, <2>2, <2>4 DEF InsertRow, TypeOK, Addresses
  <1>5. CASE GiveUp
    BY <1>5 DEF GiveUp, TypeOK
  <1>6. CASE NextPage
    BY <1>6 DEF NextPage, TypeOK
  <1>7. CASE LoadTokenDecimals
    <2>0. PICK s \in Pages : \E n \in 0 .. Len(s), failed \in {TRUE, FALSE} :
            /\ cursor' = CursorAfter(s, n)
            /\ tokenMap' = tokenMap \union {s[i].base : i \in 1 .. n} \union {s[i].quote : i \in 1 .. n}
            /\ phase' = IF ~failed /\ n = 0 THEN "done" ELSE "load"
      BY <1>7 DEF LoadTokenDecimals
    <2>1. PICK n \in 0 .. Len(s), failed \in {TRUE, FALSE} :
            /\ cursor' = CursorAfter(s, n)
            /\ tokenMap' = tokenMap \union {s[i].base : i \in 1 .. n} \union {s[i].quote : i \in 1 .. n}
            /\ phase' = IF ~failed /\ n = 0 THEN "done" ELSE "load"
      BY <2>0
    <2>2. cursor' \in Nat
      BY <2>1, CursorTyped
    <2>3. \A i \in 1 .. n : s[i] \in Rows
      <3>1. Len(s) \in Nat /\ \A i \in 1 .. Len(s) : s[i] \in source
        BY PageTyped
      <3> QED BY <1>0, <3>1
    <2>4. tokenMap' \subseteq Tokens
      BY <1>0, <2>1, <2>3 DEF TypeOK
    <2>5. phase' \in {"done", "load"} /\ phase = "load"
      BY <1>7, <2>1 DEF LoadTokenDecimals
    <2> QED BY <1>7, <2>2, <2>4, <2>5 DEF LoadTokenDecimals, TypeOK
  <1>8. CASE Ask
    <2>1. PICK b \in SUBSET list :
            /\ list' = list \ b
            /\ \/ tokenMap' = tokenMap \union (b \intersect Mints) /\ UNCHANGED unanswered
               \/ unanswered' = unanswered \union b /\ UNCHANGED tokenMap
      BY <1>8 DEF Ask
    <2>2. list' \subseteq Tokens /\ tokenMap' \subseteq Tokens /\ unanswered' \subseteq Tokens
      BY <2>1 DEF TypeOK
    <2> QED BY <1>8, <2>2 DEF Ask, TypeOK
  <1>9. CASE Answered
    BY <1>9 DEF Answered, TypeOK
  <1>10. CASE Restart
    BY <1>10, LimitsAssumption DEF Restart, TypeOK
  <1>11. CASE UNCHANGED vars
    BY <1>11 DEF vars, TypeOK
  <1> QED BY <1>1, <1>2, <1>3, <1>4, <1>5, <1>6, <1>7, <1>8, <1>9, <1>10, <1>11 DEF Next

\* A row of the target stays, and a row that waits is written, waits on or is passed over.
LEMMA WaitingKept ==
  ASSUME TypeOK, WritingNamed, InsertRow \/ GiveUp, NEW c \in writing, NEW q \in c
  PROVE  \/ target'[q.address] # NoRow /\ (q.created > 0 => target'[q.address] > 0)
         \/ \E d \in writing' : q \in d
         \/ Skipped(q.address)'
  <1>1. CASE InsertRow
    <2>1. PICK b \in writing : \E r \in b :
            /\ target' = [target EXCEPT ![r.address] = Written(r, @)]
            /\ writing' = (writing \ {b}) \union (IF b = {r} THEN {} ELSE {b \ {r}})
      BY <1>1 DEF InsertRow
    <2>2. PICK r \in b :
            /\ target' = [target EXCEPT ![r.address] = Written(r, @)]
            /\ writing' = (writing \ {b}) \union (IF b = {r} THEN {} ELSE {b \ {r}})
      BY <2>1
    <2>3. target'[r.address] # NoRow /\ (r.created > 0 => target'[r.address] > 0)
      BY <2>2, RowWritten
    <2>4. CASE c # b
      BY <2>2, <2>4
    <2>5. CASE c = b /\ q = r
      BY <2>3, <2>5
    <2>6. CASE c = b /\ q # r
      <3>1. b # {r} /\ b \ {r} \in writing' /\ q \in b \ {r}
        BY <2>2, <2>6
      <3> QED BY <3>1
    <2> QED BY <2>4, <2>5, <2>6
  <1>2. CASE GiveUp
    <2>1. PICK b \in writing : writing' = writing \ {b} /\ skipped' = skipped \union b
      BY <1>2 DEF GiveUp
    <2> QED BY <2>1 DEF Skipped
  <1> QED BY <1>1, <1>2

\* Rows of the target stay as a batch is written.
LEMMA TargetKept ==
  ASSUME TypeOK, WritingNamed, InsertRow \/ GiveUp, NEW a \in Addresses
  PROVE  /\ target[a] # NoRow => target'[a] # NoRow
         /\ target[a] > 0 => target'[a] > 0
         /\ Skipped(a) => Skipped(a)'
  <1>1. CASE InsertRow
    <2>1. PICK b \in writing : \E r \in b : target' = [target EXCEPT ![r.address] = Written(r, @)]
      BY <1>1 DEF InsertRow
    <2>2. PICK r \in b : target' = [target EXCEPT ![r.address] = Written(r, @)]
      BY <2>1
    <2> QED BY <1>1, <2>2, RowWritten DEF InsertRow, Skipped
  <1>2. CASE GiveUp
    BY <1>2 DEF GiveUp, Skipped, tables
  <1> QED BY <1>1, <1>2

\* Steps that write nothing leave what Migrated and CreationMigrated speak of.
Untouched == UNCHANGED <<tool, target, writing, loaded, cursor, atStart, skipped>>

LEMMA QuietSteps ==
  ASSUME [Next]_vars, ~LoadPools, ~LoadPoolsFails, ~InsertRow, ~GiveUp, ~LoadTokenDecimals, ~Restart
  PROVE  Untouched /\ (phase' = "done" => phase = "done" \/ tool = "chain")
  <1> USE DEF Untouched, tables, pools, tokens
  <1>1. CASE \E r \in Rows : Add(r)
    BY <1>1 DEF Add
  <1>2. CASE NextPage
    BY <1>2 DEF NextPage
  <1>3. CASE Ask
    BY <1>3 DEF Ask
  <1>4. CASE Answered
    BY <1>4 DEF Answered
  <1>5. CASE UNCHANGED vars
    BY <1>5 DEF vars
  <1> QED BY <1>1, <1>2, <1>3, <1>4, <1>5 DEF Next

\* A page, or what is left of one that fails, leaves no address behind.
LEMMA MigratedStep ==
  ASSUME IInv, [Next]_vars
  PROVE  Migrated'
  <1> USE DEF tables, pools, tokens
  <1>0. /\ TypeOK /\ Resting /\ WritingNamed /\ Migrated
        /\ atStart \subseteq source /\ source \subseteq Rows /\ cursor \in Nat
    BY DEF IInv, TypeOK
  <1>1. CASE LoadPools
    <2>1. PICK s \in Pages :
            /\ cursor' = CursorAfter(s, Len(s))
            /\ IF s = <<>> THEN phase' = "done" /\ UNCHANGED writing
               ELSE phase' = "write" /\ writing' \in Dispatched(s)
      BY <1>1 DEF LoadPools
    <2>2. tool = "pools" /\ phase = "load" /\ UNCHANGED <<tool, source, target, atStart, skipped>>
      BY <1>1 DEF LoadPools
    <2>3. Len(s) \in Nat /\ s \in Seq(source)
      BY <1>0, PageTyped
    <2>4. SUFFICES ASSUME NEW r \in atStart, r.address <= cursor' \/ phase' = "done"
                   PROVE  target[r.address] # NoRow \/ Pending(r.address)' \/ Skipped(r.address)
      BY <2>2 DEF Migrated, Skipped
    <2>5. r \in source /\ Column(r) = r.address /\ r.address \in Nat
      BY <1>0, <2>2, RowTyped DEF Column
    <2>6. ASSUME r.address <= cursor PROVE target[r.address] # NoRow \/ Skipped(r.address)
      <3>1. ~Pending(r.address)
        BY <1>0, <2>2 DEF Resting, Pending
      <3> QED BY <1>0, <2>2, <2>6, <3>1 DEF Migrated
    <2>7. CASE s = <<>>
      BY <1>0, <2>5, <2>6, <2>7, PageTyped
    <2>8. CASE s # <<>>
      <3>1. r.address <= CursorAfter(s, Len(s))
        BY <2>1, <2>4, <2>8
      <3>2. r.address <= cursor \/ \E q \in RowsIn(s, Len(s)) : Column(q) = r.address
        BY <1>0, <2>3, <2>5, <3>1, NothingBetween
      <3>3. CASE r.address <= cursor
        BY <2>6, <3>3
      <3>4. ASSUME NEW q \in RowsIn(s, Len(s)), Column(q) = r.address PROVE Pending(r.address)'
        <4>1. q.address = r.address
          BY <2>2, <3>4 DEF Column
        <4>2. \E b \in writing' : \E d \in b : d.address = q.address
          BY <1>0, <2>1, <2>8, PageWritten
        <4> QED BY <4>1, <4>2 DEF Pending
      <3> QED BY <3>2, <3>3, <3>4
    <2> QED BY <2>7, <2>8
  <1>2. CASE LoadPoolsFails
    <2>1. PICK s \in Pages : \E n \in 0 .. Len(s) :
            cursor' = CursorAfter(s, n) /\ skipped' = skipped \union RowsIn(s, n)
      BY <1>2 DEF LoadPoolsFails
    <2>2. PICK n \in 0 .. Len(s) : cursor' = CursorAfter(s, n) /\ skipped' = skipped \union RowsIn(s, n)
      BY <2>1
    <2>3. tool = "pools" /\ phase = "load" /\ UNCHANGED <<tool, source, target, atStart, phase, writing>>
      BY <1>2 DEF LoadPoolsFails
    <2>4. SUFFICES ASSUME NEW r \in atStart, r.address <= cursor'
                   PROVE  target[r.address] # NoRow \/ Pending(r.address) \/ Skipped(r.address)'
      BY <2>3 DEF Migrated, Pending
    <2>5. r \in source /\ Column(r) = r.address
      BY <1>0, <2>3 DEF Column
    <2>6. CASE r.address <= cursor
      BY <1>0, <2>2, <2>3, <2>6 DEF Migrated, Skipped
    <2>7. ASSUME NEW q \in RowsIn(s, n), Column(q) = r.address PROVE Skipped(r.address)'
      BY <2>2, <2>3, <2>7 DEF Skipped, Column
    <2> QED BY <1>0, <2>2, <2>4, <2>5, <2>6, <2>7, NothingBetween
  <1>3. CASE InsertRow \/ GiveUp
    <2>1. UNCHANGED <<tool, atStart, cursor, phase>>
      BY <1>3 DEF InsertRow, GiveUp
    <2>2. SUFFICES ASSUME tool = "pools", NEW r \in atStart, r.address <= cursor \/ phase = "done"
                   PROVE  target'[r.address] # NoRow \/ Pending(r.address)' \/ Skipped(r.address)'
      BY <2>1 DEF Migrated
    <2>3. r.address \in Addresses
      BY <1>0, RowTyped
    <2>4. target[r.address] # NoRow \/ Pending(r.address) \/ Skipped(r.address)
      BY <1>0, <2>2 DEF Migrated
    <2>5. CASE Pending(r.address)
      <3>1. PICK c \in writing : \E q \in c : q.address = r.address
        BY <2>5 DEF Pending
      <3>2. PICK q \in c : q.address = r.address
        BY <3>1
      <3> QED BY <1>0, <1>3, <3>2, WaitingKept DEF Pending
    <2> QED BY <1>0, <1>3, <2>3, <2>4, <2>5, TargetKept
  <1>4. CASE LoadTokenDecimals
    BY <1>4 DEF LoadTokenDecimals, Migrated
  <1>5. CASE Restart
    <2>1. \A r \in atStart' : r.address \in Nat \ {0}
      BY <1>0, <1>5, RowTyped DEF Restart
    <2> QED BY <1>5, <2>1 DEF Restart, Migrated
  <1>6. CASE ~(LoadPools \/ LoadPoolsFails \/ InsertRow \/ GiveUp \/ LoadTokenDecimals \/ Restart)
    BY <1>0, <1>6, QuietSteps DEF Untouched, Migrated, Pending, Skipped
  <1> QED BY <1>1, <1>2, <1>3, <1>4, <1>5, <1>6

\* The time of a creation is in the batches once its page is dispatched, unless it was dropped.
LEMMA CreationStep ==
  ASSUME IInv, [Next]_vars
  PROVE  CreationMigrated'
  <1> USE DEF tables, pools, tokens
  <1>0. /\ TypeOK /\ Resting /\ WritingNamed /\ CreationMigrated
        /\ loaded \subseteq Rows
    BY DEF IInv, TypeOK
  <1>1. CASE LoadPools
    <2>1. PICK s \in Pages :
            /\ loaded' = loaded \union RowsIn(s, Len(s))
            /\ s # <<>> => writing' \in Dispatched(s)
      BY <1>1 DEF LoadPools
    <2>2. writing = {} /\ UNCHANGED <<target, skipped>>
      BY <1>0, <1>1 DEF LoadPools, Resting
    <2>3. ASSUME NEW r \in loaded, r.created > 0
          PROVE  target[r.address] > 0 \/ Skipped(r.address) \/ \E s2 \in loaded : SameKey(r, s2) /\ ~Agree(r, s2)
      BY <1>0, <2>2, <2>3 DEF CreationMigrated
    <2>4. ASSUME NEW r \in RowsIn(s, Len(s)), r.created > 0
          PROVE  \/ \E b \in writing' : \E d \in b : d.address = r.address /\ d.created > 0
                 \/ \E t \in loaded' : SameKey(r, t) /\ ~Agree(r, t)
      <3>1. s # <<>>
        <4>1. ASSUME s = <<>> PROVE FALSE
          <5>1. Len(s) = 0
            BY <4>1
          <5> QED BY <2>4, <5>1 DEF RowsIn
        <4> QED BY <4>1
      <3>2. PICK b \in writing' : \E d \in b :
              /\ d.address = r.address
              /\ d.created > 0 \/ \E t \in RowsIn(s, Len(s)) : SameKey(r, t) /\ ~Agree(r, t)
        BY <1>0, <2>1, <2>4, <3>1, PageWritten
      <3> QED BY <2>1, <3>2
    <2> QED BY <2>1, <2>2, <2>3, <2>4 DEF CreationMigrated, Skipped
  <1>2. CASE LoadPoolsFails
    BY <1>0, <1>2 DEF LoadPoolsFails, CreationMigrated, Skipped
  <1>3. CASE InsertRow \/ GiveUp
    <2>1. UNCHANGED loaded
      BY <1>3 DEF InsertRow, GiveUp
    <2>2. SUFFICES ASSUME NEW r \in loaded, r.created > 0
                   PROVE  \/ target'[r.address] > 0 \/ Skipped(r.address)'
                          \/ \E b \in writing' : \E s \in b : s.address = r.address /\ s.created > 0
                          \/ \E s \in loaded : SameKey(r, s) /\ ~Agree(r, s)
      BY <2>1 DEF CreationMigrated
    <2>3. r.address \in Addresses
      BY <1>0, RowTyped
    <2>4. CASE target[r.address] > 0 \/ Skipped(r.address)
      BY <1>0, <1>3, <2>3, <2>4, TargetKept
    <2>5. CASE \E b \in writing : \E s \in b : s.address = r.address /\ s.created > 0
      <3>1. PICK b \in writing : \E s \in b : s.address = r.address /\ s.created > 0
        BY <2>5
      <3>2. PICK s \in b : s.address = r.address /\ s.created > 0
        BY <3>1
      <3>3. \/ target'[s.address] # NoRow /\ (s.created > 0 => target'[s.address] > 0)
            \/ \E d \in writing' : s \in d
            \/ Skipped(s.address)'
        BY <1>0, <1>3, WaitingKept
      <3> QED BY <3>2, <3>3
    <2> QED BY <1>0, <2>2, <2>4, <2>5 DEF CreationMigrated
  <1>4. CASE LoadTokenDecimals
    BY <1>0, <1>4 DEF LoadTokenDecimals, CreationMigrated, Skipped
  <1>5. CASE Restart
    BY <1>5 DEF Restart, CreationMigrated
  <1>6. CASE ~(LoadPools \/ LoadPoolsFails \/ InsertRow \/ GiveUp \/ LoadTokenDecimals \/ Restart)
    BY <1>0, <1>6, QuietSteps DEF Untouched, CreationMigrated, Skipped
  <1> QED BY <1>1, <1>2, <1>3, <1>4, <1>5, <1>6

\* The loader of decimals goes over its pages as the copy does; the node is asked until
\* nothing is left.
LEMMA DecimalsStep ==
  ASSUME IInv, [Next]_vars
  PROVE  Asked' /\ DecimalsLearnt'
  <1> USE DEF tables, pools, tokens
  <1>0. /\ TypeOK /\ Asked /\ DecimalsLearnt
        /\ atStart \subseteq source /\ source \subseteq Rows /\ cursor \in Nat
    BY DEF IInv, TypeOK
  <1>1. CASE LoadTokenDecimals
    <2>1. PICK s \in Pages : \E n \in 0 .. Len(s), failed \in {TRUE, FALSE} :
            /\ failed \/ n = Len(s)
            /\ cursor' = CursorAfter(s, n)
            /\ tokenMap' = tokenMap \union {s[i].base : i \in 1 .. n} \union {s[i].quote : i \in 1 .. n}
            /\ phase' = IF ~failed /\ n = 0 THEN "done" ELSE "load"
      BY <1>1 DEF LoadTokenDecimals
    <2>2. PICK n \in 0 .. Len(s), failed \in {TRUE, FALSE} :
            /\ failed \/ n = Len(s)
            /\ cursor' = CursorAfter(s, n)
            /\ tokenMap' = tokenMap \union {s[i].base : i \in 1 .. n} \union {s[i].quote : i \in 1 .. n}
            /\ phase' = IF ~failed /\ n = 0 THEN "done" ELSE "load"
      BY <2>1
    <2>3. tool = "decimals" /\ UNCHANGED <<tool, source, atStart>>
      BY <1>1 DEF LoadTokenDecimals
    <2>4. SUFFICES ASSUME NEW r \in atStart, r.base <= cursor' \/ phase' = "done"
                   PROVE  r.base \in tokenMap'
      BY <2>3 DEF DecimalsLearnt, Asked
    <2>5. r \in source /\ Column(r) = r.base /\ r.base \in Nat
      BY <1>0, <2>3, RowTyped DEF Column
    <2>6. ASSUME r.base <= cursor PROVE r.base \in tokenMap'
      BY <1>0, <2>2, <2>3, <2>6 DEF DecimalsLearnt
    <2>7. CASE phase' = "done"
      <3>1. n = 0 /\ Len(s) = 0
        BY <2>2, <2>7
      <3>2. s = <<>>
        <4>1. s \in Seq(source)
          BY <1>0, PageTyped
        <4> QED BY <3>1, <4>1
      <3> QED BY <1>0, <2>5, <2>6, <3>2, PageTyped
    <2>8. CASE r.base <= cursor'
      <3>1. r.base <= cursor \/ \E q \in RowsIn(s, n) : Column(q) = r.base
        BY <1>0, <2>2, <2>5, <2>8, NothingBetween
      <3>2. \A q \in RowsIn(s, n) : Column(q) \in tokenMap'
        BY <2>2, <2>3 DEF RowsIn, Column
      <3> QED BY <2>6, <3>1, <3>2
    <2> QED BY <2>4, <2>7, <2>8
  <1>2. CASE Ask
    <2>1. PICK b \in SUBSET list :
            /\ list' = list \ b
            /\ \/ tokenMap' = tokenMap \union (b \intersect Mints) /\ UNCHANGED unanswered
               \/ unanswered' = unanswered \union b /\ UNCHANGED tokenMap
      BY <1>2 DEF Ask
    <2>2. tool = "chain" /\ phase = "ask" /\ UNCHANGED <<tool, phase>>
      BY <1>2 DEF Ask
    <2>3. Asked'
      BY <1>0, <2>1, <2>2 DEF Asked
    <2> QED BY <2>2, <2>3 DEF DecimalsLearnt
  <1>3. CASE Answered
    BY <1>0, <1>3 DEF Answered, Asked, DecimalsLearnt
  <1>4. CASE LoadPools \/ LoadPoolsFails \/ Restart
    BY <1>4 DEF LoadPools, LoadPoolsFails, Restart, Asked, DecimalsLearnt
  <1>5. CASE InsertRow \/ GiveUp
    BY <1>0, <1>5 DEF InsertRow, GiveUp, Asked, DecimalsLearnt
  <1>6. CASE NextPage
    BY <1>0, <1>6 DEF NextPage, Asked, DecimalsLearnt
  <1>7. CASE (\E r \in Rows : Add(r)) \/ UNCHANGED vars
    <2>1. UNCHANGED <<tool, phase, cursor, tokenMap, list, unanswered, atStart>>
      BY <1>7 DEF Add, vars
    <2> QED BY <1>0, <2>1 DEF Asked, DecimalsLearnt
  <1> QED BY <1>1, <1>2, <1>3, <1>4, <1>5, <1>6, <1>7 DEF Next

-----------------------------------------------------------------------------
(* The theorems                                                             *)

\* At first nothing is passed, and everything is still to be asked for.
LEMMA IInvInit == Init => IInv
  <1> SUFFICES ASSUME Init PROVE IInv
    OBVIOUS
  <1>1. /\ tool \in Tools /\ lives = 1 /\ source \in Sources /\ target = [a \in Addresses |-> NoRow]
        /\ phase = (IF tool = "chain" THEN "ask" ELSE "load") /\ cursor = 0 /\ writing = {} /\ loaded = {}
        /\ tokenMap \in (IF tool = "chain" THEN SUBSET Tokens ELSE {{}})
        /\ list = (IF tool = "chain" THEN Tokens \ tokenMap ELSE {})
        /\ atStart = source /\ skipped = {} /\ unanswered = {}
    BY DEF Init, Addresses
  <1>2. source \subseteq Rows
    BY <1>1, RowsAssumption
  <1>3. \A r \in atStart : ~(r.address <= cursor) /\ ~(r.base <= cursor)
    BY <1>1, <1>2, RowTyped
  <1>4. TypeOK
    <2>1. 1 \in 1 .. MaxLives
      BY LimitsAssumption
    <2>2. tokenMap \subseteq Tokens /\ list \subseteq Tokens
      BY <1>1
    <2> QED BY <1>1, <1>2, <2>1, <2>2 DEF TypeOK, Addresses
  <1>5. Resting /\ WritingNamed /\ Asked
    BY <1>1 DEF Resting, WritingNamed, Asked
  <1>6. Migrated /\ CreationMigrated /\ DecimalsLearnt
    BY <1>1, <1>3 DEF Migrated, CreationMigrated, DecimalsLearnt
  <1> QED BY <1>4, <1>5, <1>6 DEF IInv

\* Every step keeps the invariant.
LEMMA IInvStep == IInv /\ [Next]_vars => IInv'
  <1> SUFFICES ASSUME IInv, [Next]_vars PROVE IInv'
    OBVIOUS
  <1>1. TypeOK' /\ Resting' /\ WritingNamed'
    BY TypeStep DEF IInv
  <1> QED BY <1>1, MigratedStep, CreationStep, DecimalsStep DEF IInv

\* IInv holds in every state.
THEOREM Inductive == Spec => []IInv
  BY IInvInit, IInvStep, PTL DEF Spec

\* The variables have their types: batches are sets of rows, none of them empty, and only rows
\* with decimals are copied (TypeOK; load_pool.go:50, pool_model_writer.go:33).
THEOREM TypeCorrect == Spec => []TypeOK
  <1>1. IInv => TypeOK
    BY DEF IInv
  <1> QED BY <1>1, Inductive, PTL

\* For any table, size of a page and allotment of batches, an address that the cursor has passed
\* is in the target, on its way, or has been passed over by an error (Migrated;
\* load_pool.go:56, main.go:50).
THEOREM NothingLeftBehind == Spec => []Migrated
  <1>1. IInv => Migrated
    BY DEF IInv
  <1> QED BY <1>1, Inductive, PTL

\* However the rows of an address are split into pages and batches, and in whatever order they
\* are written, the time of a creation comes along (CreationMigrated; pool_model_writer.go:217).
THEOREM CreationComesAlong == Spec => []CreationMigrated
  <1>1. IInv => CreationMigrated
    BY DEF IInv
  <1> QED BY <1>1, Inductive, PTL

\* The cursor on a column that is not unique passes over no token, and what was asked of the
\* node is known, or no mint, or in a batch that failed (DecimalsLearnt; load.go:59).
THEOREM DecimalsKnown == Spec => []DecimalsLearnt
  <1>1. IInv => DecimalsLearnt
    BY DEF IInv
  <1> QED BY <1>1, Inductive, PTL
===============================================================================
