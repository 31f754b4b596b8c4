--------------------------- MODULE QueryServiceProofs ---------------------------
(***************************************************************************)
(* Proofs about QueryService, for any events, requests, limits and times:  *)
(* what a page, the merge of two and the codec do, that paging misses      *)
(* nothing and tells what was produced, and, from HolderQueriesProofs,     *)
(* that answers about balances were true.                                  *)
(***************************************************************************)
EXTENDS QueryService, FiniteSetTheorems, SequenceTheorems, WellFoundedInduction, TLAPS

HP == INSTANCE HolderQueriesProofs WITH
  Known <- KnownTokens, Rows <- BalanceRows, Requests <- HolderRequests, cache <- holderCache,
  DefaultLimit <- DefaultHolders, MaxLimit <- MaxHolders

-----------------------------------------------------------------------------
(* Numbers and sequences                                                    *)

\* There is a least number.
LEMMA LeastNumber ==
  ASSUME NEW X \in SUBSET Nat, X # {}
  PROVE  \E n \in X : \A m \in X : n <= m
  <1>1. PICK n \in X : \A m \in X : ~(<<m, n>> \in OpToRel(<, Nat))
    BY NatLessThanWellFounded, WFMin
  <1>2. \A m \in X : ~(m < n)
    BY <1>1, Zenon DEF OpToRel
  <1> QED BY <1>2

\* The numbers of events, which are all there is to know of events to order them.
LEMMA IdTyped ==
  /\ MaxId \in Nat
  /\ \A e \in ChainEvent : e.id \in 1 .. MaxId - 1
  /\ \A e \in Events : e.id \in 1 .. MaxId - 1
  <1>1. MaxId \in Nat
    BY LimitsAssumption
  <1>2. \A e \in ChainEvent : e.id \in 1 .. MaxId - 1
    BY DEF ChainEvent, Ids
  <1>3. \A e \in Event : e.id \in 1 .. MaxId - 1
    BY DEF Event, TradeEvent, LiquidityEvent, MintToEvent, BurnEvent, TransferEvent, Ids
  <1> QED BY <1>1, <1>2, <1>3, EventsAssumption

Desc(s) == \A i, j \in 1 .. Len(s) : i < j => s[i].id > s[j].id

\* Events in a sequence.
LEMMA ElementTyped ==
  ASSUME NEW s \in Seq(ChainEvent), NEW i \in 1 .. Len(s)
  PROVE  s[i] \in ChainEvent /\ s[i].id \in 1 .. MaxId - 1
  BY IdTyped

\* An event before others.
LEMMA Prefixed ==
  ASSUME NEW e \in ChainEvent, NEW s \in Seq(ChainEvent)
  PROVE  /\ <<e>> \o s \in Seq(ChainEvent) /\ Len(<<e>> \o s) = Len(s) + 1
         /\ (<<e>> \o s)[1] = e /\ \A i \in 1 .. Len(s) : (<<e>> \o s)[i + 1] = s[i]
  OBVIOUS

-----------------------------------------------------------------------------
(* The merge of two pages                                                   *)

\* The parts of the loop: the next event, and where the loop goes from there.
UseFrom(from, to, s) == s.i < Len(from) /\ (s.j = Len(to) \/ from[s.i + 1].id > to[s.j + 1].id)
Ev(from, to, s) == IF UseFrom(from, to, s) THEN from[s.i + 1] ELSE to[s.j + 1]
Skipped(from, to, s) == IF UseFrom(from, to, s) THEN [s EXCEPT !.i = @ + 1] ELSE [s EXCEPT !.j = @ + 1]
Taken(from, to, s) == [Skipped(from, to, s) EXCEPT !.last = Ev(from, to, s).id, !.room = @ - 1]
Over(from, to, s) == s.room = 0 \/ (s.i = Len(from) /\ s.j = Len(to))
LoopBody(from, to, g, s) ==
  IF Over(from, to, s) THEN <<>>
  ELSE IF Ev(from, to, s).id = s.last THEN g[Skipped(from, to, s)]
  ELSE <<Ev(from, to, s)>> \o g[Taken(from, to, s)]
Loops(from, to, g, D) == g = [s \in D |-> LoopBody(from, to, g, s)]
Loop(from, to, limit) == CHOOSE g : Loops(from, to, g, Merging(from, to, limit))

\* Events that are still to be looked at.
Left(from, to, s) == (Len(from) - s.i) + (Len(to) - s.j)

LEMMA MergeIsLoop ==
  ASSUME NEW from, NEW to, NEW limit
  PROVE  Merge(from, to, limit) = Loop(from, to, limit)[[i |-> 0, j |-> 0, last |-> MaxId, room |-> limit]]
  BY DEF Merge, Loop, Loops, LoopBody, Over, Taken, Skipped, Ev, UseFrom

\* One turn of the loop.
LEMMA LoopMoves ==
  ASSUME NEW from \in Seq(ChainEvent), NEW to \in Seq(ChainEvent), NEW limit \in Nat,
         NEW s \in Merging(from, to, limit), ~Over(from, to, s)
  PROVE  /\ Ev(from, to, s) \in ChainEvent
         /\ \A t \in {Skipped(from, to, s), Taken(from, to, s)} :
              /\ t \in Merging(from, to, limit) /\ Left(from, to, t) = Left(from, to, s) - 1
              /\ UseFrom(from, to, s) => t.i = s.i + 1 /\ t.j = s.j
              /\ ~UseFrom(from, to, s) => t.i = s.i /\ t.j = s.j + 1
         /\ Skipped(from, to, s).last = s.last /\ Skipped(from, to, s).room = s.room
         /\ Taken(from, to, s).last = Ev(from, to, s).id /\ Taken(from, to, s).room = s.room - 1
         /\ UseFrom(from, to, s) => s.i < Len(from) /\ Ev(from, to, s) = from[s.i + 1]
         /\ ~UseFrom(from, to, s) => s.j < Len(to) /\ Ev(from, to, s) = to[s.j + 1]
  <1> DEFINE m == Len(from)
             n == Len(to)
  <1>1. m \in Nat /\ n \in Nat /\ s \in [i : 0 .. m, j : 0 .. n, last : 1 .. MaxId, room : 0 .. limit]
    BY DEF Merging
  <1>2. s.i \in 0 .. m /\ s.j \in 0 .. n /\ s.room \in 1 .. limit /\ ~(s.i = m /\ s.j = n)
    BY <1>1 DEF Over
  <1>3. UseFrom(from, to, s) => s.i < m /\ Ev(from, to, s) = from[s.i + 1]
    BY DEF UseFrom, Ev
  <1>4. ~UseFrom(from, to, s) => s.j < n /\ Ev(from, to, s) = to[s.j + 1]
    BY <1>1, <1>2 DEF UseFrom, Ev
  <1>5. Ev(from, to, s) \in ChainEvent
    BY <1>1, <1>2, <1>3, <1>4
  <1>6. Ev(from, to, s).id \in 1 .. MaxId
    BY <1>5, IdTyped
  <1> HIDE DEF m, n
  <1>7. CASE UseFrom(from, to, s)
    <2>1. Skipped(from, to, s) = [i |-> s.i + 1, j |-> s.j, last |-> s.last, room |-> s.room]
      <3>1. Skipped(from, to, s) = [s EXCEPT !.i = @ + 1]
        BY <1>7 DEF Skipped
      <3> QED BY <1>1, <3>1
    <2>2. Taken(from, to, s) = [i |-> s.i + 1, j |-> s.j, last |-> Ev(from, to, s).id, room |-> s.room - 1]
      <3>1. PICK u : u = Skipped(from, to, s)
        OBVIOUS
      <3>2. u \in [i : Int, j : Int, last : Int, room : Int]
        BY <1>1, <1>2, <2>1, <3>1
      <3>3. PICK id : id = Ev(from, to, s).id
        OBVIOUS
      <3>4. Taken(from, to, s) = [u EXCEPT !.last = id, !.room = @ - 1]
        BY <3>1, <3>3 DEF Taken
      <3>5. Taken(from, to, s) = [i |-> u.i, j |-> u.j, last |-> id, room |-> u.room - 1]
        BY <3>2, <3>4
      <3> QED BY <2>1, <3>1, <3>3, <3>5
    <2>3. ASSUME NEW t \in {Skipped(from, to, s), Taken(from, to, s)}
          PROVE  /\ t \in [i : 0 .. m, j : 0 .. n, last : 1 .. MaxId, room : 0 .. limit]
                 /\ t.i = s.i + 1 /\ t.j = s.j
      <3>1. CASE t = Skipped(from, to, s)
        BY <1>1, <1>2, <1>3, <1>7, <2>1, <3>1
      <3>2. CASE t = Taken(from, to, s)
        BY <1>1, <1>2, <1>3, <1>6, <1>7, <2>2, <3>2
      <3> QED BY <3>1, <3>2
    <2>4. /\ Skipped(from, to, s).last = s.last /\ Skipped(from, to, s).room = s.room
          /\ Taken(from, to, s).last = Ev(from, to, s).id /\ Taken(from, to, s).room = s.room - 1
      BY <2>1, <2>2
    <2>5. ASSUME NEW t \in {Skipped(from, to, s), Taken(from, to, s)}
          PROVE  Left(from, to, t) = Left(from, to, s) - 1
      <3>1. t.i = s.i + 1 /\ t.j = s.j
        BY <2>3
      <3>2. Left(from, to, t) = (m - t.i) + (n - t.j) /\ Left(from, to, s) = (m - s.i) + (n - s.j)
        BY DEF Left, m, n
      <3> QED BY <1>1, <1>2, <3>1, <3>2
    <2> QED BY <1>3, <1>5, <1>7, <2>3, <2>4, <2>5 DEF Merging, m, n
  <1>8. CASE ~UseFrom(from, to, s)
    <2>1. Skipped(from, to, s) = [i |-> s.i, j |-> s.j + 1, last |-> s.last, room |-> s.room]
      <3>1. Skipped(from, to, s) = [s EXCEPT !.j = @ + 1]
        BY <1>8 DEF Skipped
      <3> QED BY <1>1, <3>1
    <2>2. Taken(from, to, s) = [i |-> s.i, j |-> s.j + 1, last |-> Ev(from, to, s).id, room |-> s.room - 1]
      <3>1. PICK u : u = Skipped(from, to, s)
        OBVIOUS
      <3>2. u \in [i : Int, j : Int, last : Int, room : Int]
        BY <1>1, <1>2, <2>1, <3>1
      <3>3. PICK id : id = Ev(from, to, s).id
        OBVIOUS
      <3>4. Taken(from, to, s) = [u EXCEPT !.last = id, !.room = @ - 1]
        BY <3>1, <3>3 DEF Taken
      <3>5. Taken(from, to, s) = [i |-> u.i, j |-> u.j, last |-> id, room |-> u.room - 1]
        BY <3>2, <3>4
      <3> QED BY <2>1, <3>1, <3>3, <3>5
    <2>3. ASSUME NEW t \in {Skipped(from, to, s), Taken(from, to, s)}
          PROVE  /\ t \in [i : 0 .. m, j : 0 .. n, last : 1 .. MaxId, room : 0 .. limit]
                 /\ t.i = s.i /\ t.j = s.j + 1
      <3>1. CASE t = Skipped(from, to, s)
        BY <1>1, <1>2, <1>4, <1>8, <2>1, <3>1
      <3>2. CASE t = Taken(from, to, s)
        BY <1>1, <1>2, <1>4, <1>6, <1>8, <2>2, <3>2
      <3> QED BY <3>1, <3>2
    <2>4. /\ Skipped(from, to, s).last = s.last /\ Skipped(from, to, s).room = s.room
          /\ Taken(from, to, s).last = Ev(from, to, s).id /\ Taken(from, to, s).room = s.room - 1
      BY <2>1, <2>2
    <2>5. ASSUME NEW t \in {Skipped(from, to, s), Taken(from, to, s)}
          PROVE  Left(from, to, t) = Left(from, to, s) - 1
      <3>1. t.i = s.i /\ t.j = s.j + 1
        BY <2>3
      <3>2. Left(from, to, t) = (m - t.i) + (n - t.j) /\ Left(from, to, s) = (m - s.i) + (n - s.j)
        BY DEF Left, m, n
      <3> QED BY <1>1, <1>2, <3>1, <3>2
    <2> QED BY <1>4, <1>5, <1>8, <2>3, <2>4, <2>5 DEF Merging, m, n
  <1> QED BY <1>7, <1>8

\* There is such a loop: it has fewer events to look at after each turn.
LEMMA LoopExists ==
  ASSUME NEW from \in Seq(ChainEvent), NEW to \in Seq(ChainEvent), NEW limit \in Nat
  PROVE  \E g : Loops(from, to, g, Merging(from, to, limit))
  <1> DEFINE M == Merging(from, to, limit)
             D(n) == {s \in M : Left(from, to, s) <= n}
             Bad == {n \in Nat : ~ \E g : Loops(from, to, g, D(n))}
             size == Len(from) + Len(to)
  <1>1. \A s \in M : Left(from, to, s) \in Nat /\ Left(from, to, s) <= size
    BY DEF Merging, Left
  <1>2. size \in Nat /\ D(size) = M
    BY <1>1
  <1>3. ASSUME NEW s \in M, ~Over(from, to, s)
        PROVE  \A t \in {Skipped(from, to, s), Taken(from, to, s)} : t \in M /\ Left(from, to, t) = Left(from, to, s) - 1
    BY <1>3, LoopMoves
  <1> HIDE DEF M
  <1>4. ASSUME NEW n \in Nat, \A m \in Nat : m < n => m \notin Bad
        PROVE  n \notin Bad
    <2>1. PICK g : \A s \in M : Left(from, to, s) < n => g[s] = LoopBody(from, to, g, s)
      <3>1. CASE n = 0
        BY <1>1, <3>1
      <3>2. CASE n # 0
        <4>1. n - 1 \in Nat /\ n - 1 < n
          BY <3>2
        <4>2. PICK g : Loops(from, to, g, D(n - 1))
          BY <1>4, <4>1
        <4>3. \A s \in M : Left(from, to, s) < n => s \in D(n - 1)
          BY <1>1, <4>1
        <4>4. \A s \in D(n - 1) : g[s] = LoopBody(from, to, g, s)
          <5> HIDE DEF D
          <5> QED BY <4>2 DEF Loops
        <4> HIDE DEF D
        <4> QED BY <4>3, <4>4
      <3> QED BY <3>1, <3>2
    <2> DEFINE h == [s \in D(n) |-> LoopBody(from, to, g, s)]
    <2>2. ASSUME NEW s \in D(n), ~Over(from, to, s), NEW t \in {Skipped(from, to, s), Taken(from, to, s)}
          PROVE  h[t] = g[t]
      <3>1. s \in M /\ Left(from, to, s) <= n /\ Left(from, to, s) \in Nat
        BY <1>1
      <3>2. t \in M /\ Left(from, to, t) = Left(from, to, s) - 1
        BY <1>3, <2>2, <3>1
      <3>3. t \in D(n) /\ Left(from, to, t) < n
        BY <3>1, <3>2
      <3> HIDE DEF D
      <3>4. h[t] = LoopBody(from, to, g, t)
        BY <3>3
      <3> QED BY <2>1, <3>2, <3>3, <3>4
    <2>3. ASSUME NEW s \in D(n) PROVE LoopBody(from, to, g, s) = LoopBody(from, to, h, s)
      <3>1. CASE Over(from, to, s)
        BY <3>1 DEF LoopBody
      <3>2. CASE ~Over(from, to, s)
        <4>1. h[Skipped(from, to, s)] = g[Skipped(from, to, s)] /\ h[Taken(from, to, s)] = g[Taken(from, to, s)]
          BY <2>2, <3>2
        <4> HIDE DEF h
        <4> QED BY <3>2, <4>1 DEF LoopBody
      <3> QED BY <3>1, <3>2
    <2>4. Loops(from, to, h, D(n))
      <3> HIDE DEF D
      <3>1. \A s \in D(n) : h[s] = LoopBody(from, to, h, s)
        BY <2>3
      <3>2. h = [s \in D(n) |-> h[s]]
        OBVIOUS
      <3> HIDE DEF h
      <3> QED BY <3>1, <3>2 DEF Loops
    <2> HIDE DEF h
    <2> QED BY <2>4
  <1>5. Bad = {}
    <2> SUFFICES ASSUME Bad # {} PROVE FALSE
      OBVIOUS
    <2>1. Bad \in SUBSET Nat
      OBVIOUS
    <2> HIDE DEF Bad
    <2>2. PICK n \in Bad : \A m \in Bad : n <= m
      BY <2>1, LeastNumber
    <2>3. n \in Nat /\ \A m \in Nat : m < n => m \notin Bad
      BY <2>1, <2>2
    <2> QED BY <1>4, <2>2, <2>3
  <1> QED BY <1>2, <1>5 DEF M

\* What it computes.
LEMMA LoopTurn ==
  ASSUME NEW from \in Seq(ChainEvent), NEW to \in Seq(ChainEvent), NEW limit \in Nat,
         NEW s \in Merging(from, to, limit)
  PROVE  Loop(from, to, limit)[s] = LoopBody(from, to, Loop(from, to, limit), s)
  <1>1. Loops(from, to, Loop(from, to, limit), Merging(from, to, limit))
    BY LoopExists DEF Loop
  <1> QED BY <1>1 DEF Loops

\* What is still to be looked at.
ToSee(from, to, s) ==
  {from[k] : k \in s.i + 1 .. Len(from)} \union {to[k] : k \in s.j + 1 .. Len(to)}

\* What a rest of the merge is: in order, from either page, and it leaves out nothing
\* that is not the last one again, or below a result that is full.
Rest(from, to, s, R) ==
  /\ R \in Seq(ChainEvent) /\ Len(R) <= s.room /\ Desc(R)
  /\ \A k \in 1 .. Len(R) : R[k].id < s.last /\ R[k] \in ToSee(from, to, s)
  /\ \A x \in ToSee(from, to, s) :
       \/ x.id = s.last \/ (\E k \in 1 .. Len(R) : R[k].id = x.id)
       \/ (Len(R) = s.room /\ \A k \in 1 .. Len(R) : x.id < R[k].id)

\* A turn looks at the event with the greatest number that is left.
LEMMA LoopLooks ==
  ASSUME NEW from \in Seq(ChainEvent), NEW to \in Seq(ChainEvent), NEW limit \in Nat,
         Desc(from), Desc(to), NEW s \in Merging(from, to, limit), ~Over(from, to, s),
         NEW t \in {Skipped(from, to, s), Taken(from, to, s)}
  PROVE  /\ ToSee(from, to, s) = {Ev(from, to, s)} \union ToSee(from, to, t)
         /\ \A x \in ToSee(from, to, s) : x \in ChainEvent /\ x.id <= Ev(from, to, s).id
  <1> DEFINE m == Len(from)
             n == Len(to)
             ev == Ev(from, to, s)
  <1>1. m \in Nat /\ n \in Nat /\ s.i \in 0 .. m /\ s.j \in 0 .. n /\ ~(s.i = m /\ s.j = n)
    BY DEF Merging, Over
  <1>2. /\ UseFrom(from, to, s) => t.i = s.i + 1 /\ t.j = s.j /\ s.i < m /\ ev = from[s.i + 1]
        /\ ~UseFrom(from, to, s) => t.i = s.i /\ t.j = s.j + 1 /\ s.j < n /\ ev = to[s.j + 1]
    BY LoopMoves
  <1>3. /\ \A k \in 1 .. m : from[k] \in ChainEvent /\ from[k].id \in 1 .. MaxId - 1
        /\ \A k \in 1 .. n : to[k] \in ChainEvent /\ to[k].id \in 1 .. MaxId - 1
    BY ElementTyped
  <1>4. /\ \A k \in s.i + 1 .. m : s.i < m /\ from[k].id <= from[s.i + 1].id
        /\ \A k \in s.j + 1 .. n : s.j < n /\ to[k].id <= to[s.j + 1].id
    <2>1. ASSUME NEW k \in s.i + 1 .. m PROVE s.i < m /\ from[k].id <= from[s.i + 1].id
      <3>1. k \in 1 .. m /\ s.i + 1 \in 1 .. m /\ s.i + 1 <= k
        BY <1>1
      <3>2. CASE k = s.i + 1
        BY <1>1, <1>3, <3>1, <3>2
      <3>3. CASE s.i + 1 < k
        <4>1. from[s.i + 1].id > from[k].id
          BY <3>1, <3>3 DEF Desc
        <4>2. from[k].id \in Int /\ from[s.i + 1].id \in Int
          BY <1>3, <3>1
        <4> QED BY <1>1, <3>1, <4>1, <4>2
      <3> QED BY <1>1, <3>1, <3>2, <3>3
    <2>2. ASSUME NEW k \in s.j + 1 .. n PROVE s.j < n /\ to[k].id <= to[s.j + 1].id
      <3>1. k \in 1 .. n /\ s.j + 1 \in 1 .. n /\ s.j + 1 <= k
        BY <1>1
      <3>2. CASE k = s.j + 1
        BY <1>1, <1>3, <3>1, <3>2
      <3>3. CASE s.j + 1 < k
        <4>1. to[s.j + 1].id > to[k].id
          BY <3>1, <3>3 DEF Desc
        <4>2. to[k].id \in Int /\ to[s.j + 1].id \in Int
          BY <1>3, <3>1
        <4> QED BY <1>1, <3>1, <4>1, <4>2
      <3> QED BY <1>1, <3>1, <3>2, <3>3
    <2> QED BY <2>1, <2>2
  <1>5. /\ \A k \in s.i + 1 .. m : k \in 1 .. m
        /\ \A k \in s.j + 1 .. n : k \in 1 .. n
    BY <1>1
  <1>6. CASE UseFrom(from, to, s)
    <2>1. s.j = n \/ from[s.i + 1].id > to[s.j + 1].id
      BY <1>6 DEF UseFrom
    <2>2. ASSUME NEW k \in s.j + 1 .. n PROVE to[k].id <= from[s.i + 1].id
      <3>1. s.i + 1 \in 1 .. m /\ s.j + 1 \in 1 .. n /\ k \in 1 .. n /\ s.j # n
        BY <1>1, <1>2, <1>4, <1>6
      <3>2. from[s.i + 1].id \in Int /\ to[s.j + 1].id \in Int /\ to[k].id \in Int
        BY <1>3, <3>1
      <3>3. to[k].id <= to[s.j + 1].id
        BY <1>4
      <3> QED BY <2>1, <3>1, <3>2, <3>3
    <2>3. \A x \in ToSee(from, to, s) : x \in ChainEvent /\ x.id <= ev.id
      BY <1>2, <1>3, <1>4, <1>5, <1>6, <2>2 DEF ToSee
    <2>4. \A k : k \in s.i + 1 .. m <=> k = s.i + 1 \/ k \in t.i + 1 .. m
      BY <1>1, <1>2, <1>6
    <2>5. ToSee(from, to, s) = {ev} \union ToSee(from, to, t)
      BY <1>2, <1>6, <2>4 DEF ToSee
    <2> QED BY <2>3, <2>5
  <1>7. CASE ~UseFrom(from, to, s)
    <2>1. s.i = m \/ from[s.i + 1].id <= to[s.j + 1].id
      <3> SUFFICES ASSUME s.i # m PROVE from[s.i + 1].id <= to[s.j + 1].id
        OBVIOUS
      <3>1. s.i < m /\ s.i + 1 \in 1 .. m /\ s.j + 1 \in 1 .. n
        BY <1>1, <1>2, <1>7
      <3>2. from[s.i + 1].id \in Int /\ to[s.j + 1].id \in Int
        BY <1>3, <3>1
      <3>3. ~(from[s.i + 1].id > to[s.j + 1].id)
        BY <1>7, <3>1 DEF UseFrom
      <3> QED BY <3>2, <3>3
    <2>2. ASSUME NEW k \in s.i + 1 .. m PROVE from[k].id <= to[s.j + 1].id
      <3>1. s.i + 1 \in 1 .. m /\ s.j + 1 \in 1 .. n /\ k \in 1 .. m /\ s.i # m
        BY <1>1, <1>2, <1>4, <1>7
      <3>2. from[s.i + 1].id \in Int /\ to[s.j + 1].id \in Int /\ from[k].id \in Int
        BY <1>3, <3>1
      <3>3. from[k].id <= from[s.i + 1].id
        BY <1>4
      <3> QED BY <2>1, <3>1, <3>2, <3>3
    <2>3. \A x \in ToSee(from, to, s) : x \in ChainEvent /\ x.id <= ev.id
      BY <1>2, <1>3, <1>4, <1>5, <1>7, <2>2 DEF ToSee
    <2>4. \A k : k \in s.j + 1 .. n <=> k = s.j + 1 \/ k \in t.j + 1 .. n
      BY <1>1, <1>2, <1>7
    <2>5. ToSee(from, to, s) = {ev} \union ToSee(from, to, t)
      BY <1>2, <1>7, <2>4 DEF ToSee
    <2> QED BY <2>3, <2>5
  <1> QED BY <1>6, <1>7

\* A rest is made of the rest after one turn.
LEMMA RestTurn ==
  ASSUME NEW from \in Seq(ChainEvent), NEW to \in Seq(ChainEvent), NEW limit \in Nat,
         Desc(from), Desc(to), NEW s \in Merging(from, to, limit), ~Over(from, to, s),
         \A x \in ToSee(from, to, s) : x.id <= s.last,
         NEW t, NEW R, Rest(from, to, t, R)
  PROVE  /\ Ev(from, to, s).id = s.last /\ t = Skipped(from, to, s) => Rest(from, to, s, R)
         /\ Ev(from, to, s).id # s.last /\ t = Taken(from, to, s) => Rest(from, to, s, <<Ev(from, to, s)>> \o R)
  <1> DEFINE ev == Ev(from, to, s)
  <1>1. ev \in ChainEvent /\ ev.id \in Int /\ ev.id <= s.last /\ s.last \in Int /\ s.room \in Nat /\ s.room # 0
    <2>1. ev \in ChainEvent
      BY LoopMoves
    <2>2. ev \in ToSee(from, to, s)
      BY LoopLooks
    <2> QED BY <2>1, <2>2, IdTyped DEF Merging, Over
  <1>2. R \in Seq(ChainEvent) /\ Len(R) \in Nat
    BY DEF Rest
  <1>3. ASSUME ev.id = s.last, t = Skipped(from, to, s) PROVE Rest(from, to, s, R)
    <2>1. ToSee(from, to, s) = {ev} \union ToSee(from, to, t)
      BY <1>3, LoopLooks
    <2>2. t.last = s.last /\ t.room = s.room
      BY <1>3, LoopMoves
    <2> HIDE DEF ev
    <2> QED BY <1>3, <2>1, <2>2 DEF Rest
  <1>4. ASSUME ev.id # s.last, t = Taken(from, to, s) PROVE Rest(from, to, s, <<ev>> \o R)
    <2> DEFINE Q == <<ev>> \o R
               n == Len(R)
    <2>1. /\ ToSee(from, to, s) = {ev} \union ToSee(from, to, t)
          /\ \A x \in ToSee(from, to, s) : x \in ChainEvent /\ x.id \in Int /\ x.id <= ev.id
      BY <1>4, LoopLooks, IdTyped
    <2>2. t.last = ev.id /\ t.room = s.room - 1
      BY <1>4, LoopMoves
    <2>3. Q \in Seq(ChainEvent) /\ Len(Q) = n + 1 /\ Q[1] = ev /\ \A i \in 1 .. n : Q[i + 1] = R[i]
      BY <1>1, <1>2, Prefixed
    <2>4. \A k \in 1 .. n : R[k] \in ToSee(from, to, t) /\ R[k].id < ev.id /\ R[k].id \in Int
      BY <2>1, <2>2 DEF Rest
    <2> HIDE DEF Q, ev
    <2>5. \A k \in 2 .. n + 1 : k - 1 \in 1 .. n /\ Q[k] = R[k - 1]
      <3> SUFFICES ASSUME NEW k \in 2 .. n + 1 PROVE k - 1 \in 1 .. n /\ Q[k] = R[k - 1]
        OBVIOUS
      <3>1. k - 1 \in 1 .. n /\ (k - 1) + 1 = k
        BY <1>2
      <3> QED BY <2>3, <3>1
    <2>6. Len(Q) <= s.room
      BY <1>1, <1>2, <2>2, <2>3 DEF Rest
    <2>7. Desc(Q)
      <3> SUFFICES ASSUME NEW i \in 1 .. n + 1, NEW j \in 1 .. n + 1, i < j PROVE Q[i].id > Q[j].id
        BY <2>3 DEF Desc
      <3>1. j \in 2 .. n + 1 /\ j - 1 \in 1 .. n /\ Q[j] = R[j - 1]
        BY <1>2, <2>5
      <3>2. CASE i = 1
        BY <1>1, <2>3, <2>4, <3>1, <3>2
      <3>3. CASE i # 1
        <4>1. i \in 2 .. n + 1 /\ i - 1 \in 1 .. n /\ Q[i] = R[i - 1] /\ i - 1 < j - 1
          BY <1>2, <2>5, <3>1, <3>3
        <4> QED BY <3>1, <4>1 DEF Rest, Desc
      <3> QED BY <3>2, <3>3
    <2>8. ASSUME NEW k \in 1 .. n + 1 PROVE Q[k].id < s.last /\ Q[k] \in ToSee(from, to, s)
      <3>1. CASE k = 1
        BY <1>1, <1>4, <2>1, <2>3, <3>1 DEF ev
      <3>2. CASE k # 1
        <4>1. k - 1 \in 1 .. n /\ Q[k] = R[k - 1]
          BY <1>2, <2>5, <3>2
        <4> QED BY <1>1, <2>1, <2>4, <4>1 DEF ev
      <3> QED BY <3>1, <3>2
    <2>9. ASSUME NEW x \in ToSee(from, to, s)
          PROVE  \/ x.id = s.last \/ (\E k \in 1 .. n + 1 : Q[k].id = x.id)
                 \/ (n + 1 = s.room /\ \A k \in 1 .. n + 1 : x.id < Q[k].id)
      <3>1. CASE x.id = ev.id
        <4>1. 1 \in 1 .. n + 1 /\ Q[1].id = x.id
          BY <1>2, <2>3, <3>1
        <4> QED BY <4>1
      <3>2. CASE x.id # ev.id
        <4>1. x \in ToSee(from, to, t) /\ x.id < ev.id
          BY <2>1, <1>1, <3>2 DEF ev
        <4>2. CASE \E k \in 1 .. n : R[k].id = x.id
          <5>1. PICK k \in 1 .. n : R[k].id = x.id
            BY <4>2
          <5>2. k + 1 \in 2 .. n + 1 /\ k + 1 \in 1 .. n + 1 /\ (k + 1) - 1 = k
            BY <1>2
          <5>3. Q[k + 1].id = x.id
            BY <2>5, <5>1, <5>2
          <5> QED BY <5>2, <5>3
        <4>3. CASE n = t.room /\ \A k \in 1 .. n : x.id < R[k].id
          <5>1. n + 1 = s.room
            BY <1>1, <1>2, <2>2, <4>3
          <5>2. \A k \in 1 .. n + 1 : x.id < Q[k].id
            <6> SUFFICES ASSUME NEW k \in 1 .. n + 1 PROVE x.id < Q[k].id
              OBVIOUS
            <6>1. CASE k = 1
              BY <2>3, <4>1, <6>1
            <6>2. CASE k # 1
              <7>1. k - 1 \in 1 .. n /\ Q[k] = R[k - 1]
                BY <1>2, <2>5, <6>2
              <7> QED BY <4>3, <7>1
            <6> QED BY <6>1, <6>2
          <5> QED BY <5>1, <5>2
        <4> QED BY <2>2, <3>2, <4>1, <4>2, <4>3 DEF Rest
      <3> QED BY <3>1, <3>2
    <2>10. Rest(from, to, s, Q)
      BY <2>3, <2>6, <2>7, <2>8, <2>9 DEF Rest
    <2> QED BY <2>10 DEF Q
  <1> QED BY <1>3, <1>4

\* So wherever the loop is, it computes the rest.
LEMMA LoopRests ==
  ASSUME NEW from \in Seq(ChainEvent), NEW to \in Seq(ChainEvent), NEW limit \in Nat, Desc(from), Desc(to),
         NEW s \in Merging(from, to, limit), \A x \in ToSee(from, to, s) : x.id <= s.last
  PROVE  Rest(from, to, s, Loop(from, to, limit)[s])
  <1> DEFINE M == Merging(from, to, limit)
             Fit(u) == \A x \in ToSee(from, to, u) : x.id <= u.last
             Bad == {u \in M : Fit(u) /\ ~Rest(from, to, u, Loop(from, to, limit)[u])}
             N == {Left(from, to, u) : u \in Bad}
  <1>1. SUFFICES ASSUME Bad # {} PROVE FALSE
    OBVIOUS
  <1>2. \A u \in M : Left(from, to, u) \in Nat
    BY DEF Merging, Left
  <1> HIDE DEF M
  <1>3. PICK n \in N : \A m \in N : n <= m
    <2>1. N # {} /\ N \in SUBSET Nat
      BY <1>1, <1>2
    <2> HIDE DEF N
    <2> QED BY <2>1, LeastNumber
  <1>4. PICK u \in Bad : n = Left(from, to, u)
    BY <1>3
  <1>5. u \in M /\ Fit(u) /\ ~Rest(from, to, u, Loop(from, to, limit)[u])
    BY <1>4
  <1>6. Loop(from, to, limit)[u] = LoopBody(from, to, Loop(from, to, limit), u)
    BY <1>5, LoopTurn DEF M
  <1>7. CASE Over(from, to, u)
    <2>1. Loop(from, to, limit)[u] = <<>>
      BY <1>6, <1>7 DEF LoopBody
    <2>2. u.room \in Nat /\ u.i \in Nat /\ u.j \in Nat
      BY <1>5 DEF M, Merging
    <2>3. u.room # 0 => ToSee(from, to, u) = {}
      <3>1. Len(from) \in Nat /\ Len(to) \in Nat
        OBVIOUS
      <3> QED BY <1>7, <2>2, <3>1 DEF Over, ToSee
    <2>4. <<>> \in Seq(ChainEvent) /\ Len(<<>>) = 0 /\ Desc(<<>>)
      BY DEF Desc
    <2>5. Rest(from, to, u, <<>>)
      BY <2>2, <2>3, <2>4 DEF Rest
    <2> QED BY <1>5, <2>1, <2>5
  <1>8. CASE ~Over(from, to, u)
    <2>1. ASSUME NEW t \in {Skipped(from, to, u), Taken(from, to, u)}, Fit(t)
          PROVE  Rest(from, to, t, Loop(from, to, limit)[t])
      <3>1. t \in M /\ Left(from, to, t) = n - 1
        BY <1>4, <1>5, <1>8, LoopMoves DEF M
      <3>2. n \in Nat /\ Left(from, to, t) < n
        BY <1>2, <1>4, <1>5, <3>1
      <3>3. t \notin Bad
        BY <1>2, <1>3, <3>1, <3>2
      <3> QED BY <2>1, <3>1, <3>3
    <2>2. \A x \in ToSee(from, to, u) : x.id <= Ev(from, to, u).id
      BY <1>5, <1>8, LoopLooks DEF M
    <2>3. \A t \in {Skipped(from, to, u), Taken(from, to, u)} : ToSee(from, to, t) \subseteq ToSee(from, to, u)
      BY <1>5, <1>8, LoopLooks DEF M
    <2>4. Skipped(from, to, u).last = u.last /\ Taken(from, to, u).last = Ev(from, to, u).id
      BY <1>5, <1>8, LoopMoves DEF M
    <2>5. Fit(Skipped(from, to, u)) /\ Fit(Taken(from, to, u))
      BY <1>5, <2>2, <2>3, <2>4
    <2>6. /\ Rest(from, to, Skipped(from, to, u), Loop(from, to, limit)[Skipped(from, to, u)])
          /\ Rest(from, to, Taken(from, to, u), Loop(from, to, limit)[Taken(from, to, u)])
      BY <2>1, <2>5
    <2>7. CASE Ev(from, to, u).id = u.last
      <3>1. Rest(from, to, u, Loop(from, to, limit)[Skipped(from, to, u)])
        BY <1>5, <1>8, <2>6, <2>7, RestTurn DEF M
      <3> QED BY <1>5, <1>6, <1>8, <2>7, <3>1 DEF LoopBody
    <2>8. CASE Ev(from, to, u).id # u.last
      <3>1. Rest(from, to, u, <<Ev(from, to, u)>> \o Loop(from, to, limit)[Taken(from, to, u)])
        BY <1>5, <1>8, <2>6, <2>8, RestTurn DEF M
      <3> QED BY <1>5, <1>6, <1>8, <2>8, <3>1 DEF LoopBody
    <2> QED BY <2>7, <2>8
  <1> QED BY <1>7, <1>8

\* The merge of two pages that go down goes down too, has nothing but what they have, and
\* leaves out of them only what is below a full result.
LEMMA MergeFacts ==
  ASSUME NEW from \in Seq(ChainEvent), NEW to \in Seq(ChainEvent), NEW limit \in Nat, Desc(from), Desc(to)
  PROVE  LET R == Merge(from, to, limit)
             All == {from[k] : k \in 1 .. Len(from)} \union {to[k] : k \in 1 .. Len(to)}
         IN  /\ R \in Seq(ChainEvent) /\ Len(R) <= limit /\ Desc(R)
             /\ \A k \in 1 .. Len(R) : R[k] \in All
             /\ \A x \in All : \/ \E k \in 1 .. Len(R) : R[k].id = x.id
                               \/ Len(R) = limit /\ \A k \in 1 .. Len(R) : x.id < R[k].id
  <1> DEFINE s == [i |-> 0, j |-> 0, last |-> MaxId, room |-> limit]
             All == {from[k] : k \in 1 .. Len(from)} \union {to[k] : k \in 1 .. Len(to)}
  <1>1. s \in Merging(from, to, limit)
    BY LimitsAssumption DEF Merging
  <1>2. ToSee(from, to, s) = All /\ s.last = MaxId /\ s.room = limit
    BY DEF ToSee
  <1>3. \A x \in All : x.id \in 1 .. MaxId - 1
    BY ElementTyped
  <1>4. Merge(from, to, limit) = Loop(from, to, limit)[s]
    BY MergeIsLoop
  <1> HIDE DEF s, All
  <1>5. \A x \in ToSee(from, to, s) : x.id <= s.last
    BY <1>2, <1>3, IdTyped
  <1>6. Rest(from, to, s, Merge(from, to, limit))
    BY <1>1, <1>4, <1>5, LoopRests
  <1>7. \A x \in All : x.id # MaxId
    BY <1>3, IdTyped
  <1> QED BY <1>2, <1>6, <1>7 DEF Rest, All

-----------------------------------------------------------------------------
(* From an event to a row, and from a row to an answer                      *)

ToOf(e) == IF e.kind = "transfer" THEN e.dest ELSE None
QuoteOf(e) == IF e.kind \in {"trade", "liquidity"} THEN e.quote ELSE None

\* The row of an event, of whatever kind, and what a query makes of it.
RowOf(e) == Built(e, WalletOf(e), ToOf(e), PoolOf(e), QuoteOf(e))
AnswerOf(e) == Answered(RowOf(e))

\* The wallet an event is listed under.
LEMMA WalletByKind ==
  ASSUME NEW e
  PROVE  /\ e.kind = "trade" => WalletOf(e) = e.user
         /\ e.kind = "liquidity" => WalletOf(e) = e.user
         /\ e.kind = "mint" => WalletOf(e) = e.to
         /\ e.kind = "burn" => WalletOf(e) = e.from
         /\ e.kind = "transfer" => WalletOf(e) = e.src
  BY Zenon DEF WalletOf

\* What the producer sends.
LEMMA EventTyped ==
  ASSUME NEW e \in Events
  PROVE  /\ e.id \in Ids /\ e.type \in Types /\ e.kind \in {"trade", "liquidity", "mint", "burn", "transfer"}
         /\ WalletOf(e) \in Addresses /\ e.token \in Addresses /\ e.signers[1] \in Addresses
         /\ e.kind \in {"trade", "liquidity"} => PoolOf(e) \in Addresses /\ QuoteOf(e) \in Addresses
         /\ e.kind \notin {"trade", "liquidity"} => PoolOf(e) = None /\ QuoteOf(e) = None
         /\ e.kind = "transfer" => ToOf(e) \in Addresses
         /\ e.kind # "transfer" => ToOf(e) = None
  <1>1. e \in Event
    BY EventsAssumption
  <1>2. /\ e.id \in Ids /\ e.token \in Addresses /\ e.signers \in Signers
        /\ e.kind \in {"trade", "liquidity", "mint", "burn", "transfer"}
    BY <1>1 DEF Event, TradeEvent, LiquidityEvent, MintToEvent, BurnEvent, TransferEvent
  <1>3. e.type \in Types
    BY <1>1 DEF Event, TradeEvent, LiquidityEvent, MintToEvent, BurnEvent, TransferEvent,
                Types, TradeTypes, LiquidityTypes
  <1>4. e.signers[1] \in Addresses
    BY <1>2 DEF Signers
  <1>5. CASE e.kind = "trade"
    BY <1>1, <1>2, <1>3, <1>4, <1>5, WalletByKind
       DEF Event, TradeEvent, LiquidityEvent, MintToEvent, BurnEvent, TransferEvent, PoolOf, QuoteOf, ToOf
  <1>6. CASE e.kind = "liquidity"
    BY <1>1, <1>2, <1>3, <1>4, <1>6, WalletByKind
       DEF Event, TradeEvent, LiquidityEvent, MintToEvent, BurnEvent, TransferEvent, PoolOf, QuoteOf, ToOf
  <1>7. CASE e.kind = "mint"
    BY <1>1, <1>2, <1>3, <1>4, <1>7, WalletByKind
       DEF Event, TradeEvent, LiquidityEvent, MintToEvent, BurnEvent, TransferEvent, PoolOf, QuoteOf, ToOf
  <1>8. CASE e.kind = "burn"
    BY <1>1, <1>2, <1>3, <1>4, <1>8, WalletByKind
       DEF Event, TradeEvent, LiquidityEvent, MintToEvent, BurnEvent, TransferEvent, PoolOf, QuoteOf, ToOf
  <1>9. CASE e.kind = "transfer"
    BY <1>1, <1>2, <1>3, <1>4, <1>9, WalletByKind
       DEF Event, TradeEvent, LiquidityEvent, MintToEvent, BurnEvent, TransferEvent, PoolOf, QuoteOf, ToOf
  <1> QED BY <1>2, <1>5, <1>6, <1>7, <1>8, <1>9

\* Each of the five builders makes that row.
LEMMA BuildersAgree ==
  ASSUME NEW e
  PROVE  /\ e.kind = "trade" => BuildTradeEvent(e) = RowOf(e)
         /\ e.kind = "liquidity" => BuildLiquidityEvent(e) = RowOf(e)
         /\ e.kind = "mint" => BuildMintEvent(e) = RowOf(e)
         /\ e.kind = "burn" => BuildBurnEvent(e) = RowOf(e)
         /\ e.kind = "transfer" => BuildTransferEvent(e) = RowOf(e)
  <1>1. \A k : e.kind = k => k \in {"trade", "liquidity"} \/ QuoteOf(e) = None
    BY DEF QuoteOf
  <1>2. CASE e.kind = "trade"
    BY <1>2, WalletByKind DEF BuildTradeEvent, RowOf, ToOf, PoolOf, QuoteOf
  <1>3. CASE e.kind = "liquidity"
    BY <1>3, WalletByKind DEF BuildLiquidityEvent, RowOf, ToOf, PoolOf, QuoteOf
  <1>4. CASE e.kind = "mint"
    BY <1>4, WalletByKind DEF BuildMintEvent, RowOf, ToOf, PoolOf, QuoteOf
  <1>5. CASE e.kind = "burn"
    BY <1>5, WalletByKind DEF BuildBurnEvent, RowOf, ToOf, PoolOf, QuoteOf
  <1>6. CASE e.kind = "transfer"
    BY <1>6, WalletByKind DEF BuildTransferEvent, RowOf, ToOf, PoolOf, QuoteOf
  <1> QED BY <1>2, <1>3, <1>4, <1>5, <1>6

\* The two codecs.
LEMMA CodecTyped ==
  /\ None \notin Addresses /\ None \notin DOMAIN Canonical
  /\ \A i \in DOMAIN Canonical : i \notin Addresses /\ Canonical[i] \in Addresses
  /\ \A a \in Addresses : /\ Encode(a) \in Addresses \union DOMAIN Canonical /\ Encode(a) # None
                          /\ Decode(Encode(a)) \in Addresses
                          /\ Optional(a) = Encode(a)
                          /\ Mapped(a) => Encode(a) \notin Addresses /\ Decode(Encode(a)) = Canonical[Known[a]]
                          /\ ~Mapped(a) => Encode(a) = a /\ Decode(Encode(a)) = a
  /\ Optional(None) = None /\ Decode(None) = None
  <1>1. None \notin Addresses /\ None \notin DOMAIN Canonical /\ DOMAIN Known \subseteq Addresses
    BY CodecAssumption
  <1>2. \A i \in DOMAIN Canonical : i \notin Addresses /\ Canonical[i] \in Addresses
    BY CodecAssumption
  <1>3. ASSUME NEW a \in Addresses, Mapped(a)
        PROVE  Encode(a) \in DOMAIN Canonical /\ Encode(a) \notin Addresses /\ Decode(Encode(a)) = Canonical[Known[a]]
    BY <1>3, CodecAssumption DEF Mapped, Encode, Decode
  <1>4. ASSUME NEW a \in Addresses, ~Mapped(a)
        PROVE  Encode(a) = a /\ Decode(Encode(a)) = a
    BY <1>2, <1>4 DEF Mapped, Encode, Decode
  <1>5. Optional(None) = None /\ Decode(None) = None /\ \A a \in Addresses : Optional(a) = Encode(a)
    BY <1>1 DEF Optional, Decode
  <1>6. ASSUME NEW a \in Addresses
        PROVE  /\ Encode(a) \in Addresses \union DOMAIN Canonical /\ Encode(a) # None
               /\ Decode(Encode(a)) \in Addresses
    <2>1. CASE Mapped(a)
      <3>1. Known[a] \in DOMAIN Canonical
        BY <2>1, CodecAssumption DEF Mapped
      <3> QED BY <1>1, <1>2, <1>3, <2>1, <3>1
    <2>2. CASE ~Mapped(a)
      BY <1>1, <1>4, <2>2
    <2> QED BY <2>1, <2>2
  <1> QED BY <1>1, <1>2, <1>3, <1>4, <1>5, <1>6

\* What is answered of an event, field by field.
LEMMA AnswerFields ==
  ASSUME NEW e \in Events
  PROVE  /\ AnswerOf(e) = [id |-> e.id, type |-> e.type, user |-> Encode(WalletOf(e)), to |-> Optional(ToOf(e)),
                           pool |-> Optional(PoolOf(e)), token |-> Decode(Encode(e.token)),
                           quote |-> Decode(Optional(QuoteOf(e))),
                           signer |-> IF e.signers[1] = WalletOf(e) THEN Encode(WalletOf(e))
                                      ELSE Encode(e.signers[1])]
         /\ RowOf(e).id = e.id /\ RowOf(e).type = e.type /\ RowOf(e).user = Encode(WalletOf(e))
         /\ RowOf(e).to = Optional(ToOf(e)) /\ RowOf(e).pool = Optional(PoolOf(e))
  <1> DEFINE row == RowOf(e)
             signer == Optional(SelectSigner(e, WalletOf(e)))
  <1>1. row = [id |-> e.id, type |-> e.type, user |-> Encode(WalletOf(e)), to |-> Optional(ToOf(e)),
               pool |-> Optional(PoolOf(e)), token |-> Encode(e.token), quote |-> Optional(QuoteOf(e)), signer |-> signer]
    BY DEF RowOf, Built
  <1>2. e.signers[1] = WalletOf(e) => signer = None
    BY CodecTyped DEF SelectSigner
  <1>3. e.signers[1] # WalletOf(e) => signer = Encode(e.signers[1]) /\ signer # None
    BY EventTyped, CodecTyped DEF SelectSigner
  <1> HIDE DEF row, signer
  <1>4. Answered(row) = [row EXCEPT !.token = Decode(@), !.quote = Decode(@), !.signer = IF @ = None THEN row.user ELSE @]
    BY DEF Answered
  <1>5. Answered(row) = [id |-> e.id, type |-> e.type, user |-> Encode(WalletOf(e)), to |-> Optional(ToOf(e)),
                         pool |-> Optional(PoolOf(e)), token |-> Decode(Encode(e.token)),
                         quote |-> Decode(Optional(QuoteOf(e))),
                         signer |-> IF signer = None THEN Encode(WalletOf(e)) ELSE signer]
    BY <1>1, <1>4
  <1>6. row.id = e.id /\ row.type = e.type /\ row.user = Encode(WalletOf(e))
        /\ row.to = Optional(ToOf(e)) /\ row.pool = Optional(PoolOf(e))
    BY <1>1
  <1> QED BY <1>2, <1>3, <1>5, <1>6 DEF row, AnswerOf

\* It is an answer, and tells what was produced unless the wallet, the pool or the signer
\* has the address of a known token.
LEMMA AnswerTells ==
  ASSUME NEW e \in Events
  PROVE  /\ AnswerOf(e) \in ChainEvent /\ AnswerOf(e).id = e.id
         /\ (\A a \in {WalletOf(e), PoolOf(e), e.signers[1], Told(e).to} : ~Mapped(a)) => AnswerOf(e) = Told(e)
  <1>1. /\ WalletOf(e) \in Addresses /\ e.token \in Addresses /\ e.signers[1] \in Addresses
        /\ ToOf(e) \in Addresses \union {None} /\ PoolOf(e) \in Addresses \union {None}
        /\ QuoteOf(e) \in Addresses \union {None} /\ (PoolOf(e) = None <=> QuoteOf(e) = None)
        /\ e.id \in Ids /\ e.type \in Types
    BY EventTyped, CodecTyped
  <1>2. \A a \in Addresses \union {None} : Optional(a) \in Shown /\ Decode(Optional(a)) \in Shown
    BY CodecTyped DEF Shown
  <1>3. \A a \in Addresses : Encode(a) \in Shown \ {None} /\ Decode(Encode(a)) \in Shown \ {None}
    BY CodecTyped DEF Shown
  <1>4. AnswerOf(e) \in ChainEvent
    BY <1>1, <1>2, <1>3, AnswerFields DEF ChainEvent
  <1>5. AnswerOf(e).id = e.id
    BY AnswerFields
  <1>6. ASSUME \A a \in {WalletOf(e), PoolOf(e), e.signers[1], Told(e).to} : ~Mapped(a)
        PROVE  AnswerOf(e) = Told(e)
    <2>1. Told(e).to = ToOf(e)
      BY DEF Told, ToOf
    <2>2. ~Mapped(WalletOf(e)) /\ ~Mapped(PoolOf(e)) /\ ~Mapped(e.signers[1]) /\ ~Mapped(ToOf(e))
      BY <1>6, <2>1
    <2>3. Encode(WalletOf(e)) = WalletOf(e) /\ Encode(e.signers[1]) = e.signers[1]
      BY <1>1, <2>2, CodecTyped
    <2>4. Optional(ToOf(e)) = ToOf(e) /\ Optional(PoolOf(e)) = PoolOf(e)
      BY <1>1, <2>2, CodecTyped
    <2>5. Decode(Encode(e.token)) = IF Mapped(e.token) THEN Canonical[Known[e.token]] ELSE e.token
      BY <1>1, CodecTyped
    <2>6. PoolOf(e) # None => QuoteOf(e) = e.quote
      BY EventTyped, CodecTyped DEF QuoteOf
    <2>7. Decode(Optional(QuoteOf(e))) =
            IF PoolOf(e) = None THEN None ELSE IF Mapped(e.quote) THEN Canonical[Known[e.quote]] ELSE e.quote
      BY <1>1, <2>6, CodecTyped
    <2> QED BY <2>3, <2>4, <2>5, <2>7, AnswerFields DEF Told, ToOf
  <1> QED BY <1>4, <1>5, <1>6

-----------------------------------------------------------------------------
(* A page                                                                   *)

\* What HolderQueriesProofs says of finite sets and sequences.
LEMMA MinimalSet ==
  ASSUME NEW S, IsFiniteSet(S), NEW X \in SUBSET (SUBSET S), X # {}
  PROVE  \E U \in X : IsFiniteSet(U) /\ \A a \in U : U \ {a} \notin X
  BY HP!MinimalSet DEF IsFiniteSet, HP!IsFiniteSet

Elems(s) == {s[i] : i \in DOMAIN s}

LEMMA DifferentElements ==
  ASSUME NEW n \in Nat, NEW S, NEW s \in [1 .. n -> S], \A i, j \in 1 .. n : i < j => s[i] # s[j]
  PROVE  IsFiniteSet(Elems(s)) /\ Cardinality(Elems(s)) = n
  <1> DEFINE R == {s[i] : i \in 1 .. n}
  <1>1. HP!IsFiniteSet(R) /\ HP!Cardinality(R) = n
    BY HP!DifferentElements, Zenon
  <1>2. DOMAIN s = 1 .. n
    OBVIOUS
  <1>3. R = Elems(s)
    BY <1>2, Zenon DEF Elems
  <1> HIDE DEF R
  <1>4. IsFiniteSet(R) /\ Cardinality(R) = n
    BY <1>1 DEF IsFiniteSet, HP!IsFiniteSet, Cardinality, HP!Cardinality
  <1> QED BY <1>3, <1>4

LEMMA SameSize ==
  ASSUME NEW S, IsFiniteSet(S), NEW U \in SUBSET S, Cardinality(U) >= Cardinality(S)
  PROVE  U = S
  BY HP!SameSize DEF IsFiniteSet, HP!IsFiniteSet, Cardinality, HP!Cardinality

\* A set of rows with different numbers can be put in order: the last is the least.
LEMMA DescendingExists ==
  ASSUME NEW S, IsFiniteSet(S), \A x \in S : x.id \in Nat, \A x, y \in S : x.id = y.id => x = y
  PROVE  \E s \in [1 .. Cardinality(S) -> S] : \A i, j \in 1 .. Cardinality(S) : i < j => s[i].id > s[j].id
  <1> DEFINE Sorts(U, s) == /\ s \in [1 .. Cardinality(U) -> U]
                            /\ \A i, j \in 1 .. Cardinality(U) : i < j => s[i].id > s[j].id
             X == {U \in SUBSET S : ~ \E s : Sorts(U, s)}
  <1>1. SUFFICES ASSUME X # {} PROVE FALSE
    <2>1. S \notin X => \E s : Sorts(S, s)
      OBVIOUS
    <2> QED BY <2>1
  <1>2. X \in SUBSET (SUBSET S)
    OBVIOUS
  <1>3. PICK U \in X : IsFiniteSet(U) /\ \A a \in U : U \ {a} \notin X
    <2> HIDE DEF X
    <2> QED BY <1>1, <1>2, MinimalSet
  <1>4. U # {}
    <2> SUFFICES ASSUME U = {} PROVE FALSE
      OBVIOUS
    <2> DEFINE s == [i \in 1 .. 0 |-> 0]
    <2>1. Cardinality(U) = 0
      BY FS_EmptySet
    <2>2. Sorts(U, s)
      BY <2>1
    <2> QED BY <1>3, <2>2
  <1>5. PICK u \in U : \A x \in U : u.id <= x.id
    <2> DEFINE N == {x.id : x \in U}
    <2>1. N # {} /\ N \in SUBSET Nat
      BY <1>2, <1>3, <1>4
    <2>2. PICK n \in N : \A m \in N : n <= m
      <3> HIDE DEF N
      <3> QED BY <2>1, LeastNumber
    <2> QED BY <2>2
  <1> DEFINE V == U \ {u}
             n == Cardinality(U)
  <1>6. n \in Nat /\ n # 0 /\ Cardinality(V) = n - 1
    BY <1>3, FS_CardinalityType, FS_RemoveElement, FS_EmptySet
  <1>7. PICK t : Sorts(V, t)
    BY <1>2, <1>3
  <1>8. \A x \in V : x \in U /\ x.id > u.id
    BY <1>2, <1>3, <1>5
  <1> DEFINE s == [i \in 1 .. n |-> IF i = n THEN u ELSE t[i]]
  <1>9. ASSUME NEW i \in 1 .. n
        PROVE  (i = n /\ s[i] = u) \/ (i \in 1 .. n - 1 /\ s[i] = t[i] /\ t[i] \in V)
    <2>1. CASE i = n
      BY <2>1
    <2>2. CASE i # n
      <3>1. i \in 1 .. Cardinality(V)
        <4> HIDE DEF n, V
        <4> QED BY <1>6, <2>2
      <3>2. t \in [1 .. Cardinality(V) -> V]
        BY <1>7
      <3>3. t[i] \in V
        <4> HIDE DEF V
        <4> QED BY <3>1, <3>2
      <3> QED BY <1>6, <2>2, <3>1, <3>3
    <2> QED BY <2>1, <2>2
  <1>10. s \in [1 .. n -> U]
    BY <1>8, <1>9
  <1>11. ASSUME NEW i \in 1 .. n, NEW j \in 1 .. n, i < j PROVE s[i].id > s[j].id
    <2>1. i \in 1 .. n - 1 /\ s[i] = t[i] /\ t[i] \in V
      BY <1>6, <1>9, <1>11
    <2>2. CASE j = n
      BY <1>8, <1>9, <2>1, <2>2
    <2>3. CASE j # n
      <3>1. j \in 1 .. n - 1 /\ s[j] = t[j]
        BY <1>9, <2>3
      <3>2. t[i].id > t[j].id
        <4> HIDE DEF V, n
        <4> QED BY <1>6, <1>7, <1>11, <2>1, <3>1
      <3> QED BY <2>1, <3>1, <3>2
    <2> QED BY <2>2, <2>3
  <1> HIDE DEF s
  <1>12. Sorts(U, s)
    BY <1>10, <1>11
  <1> QED BY <1>3, <1>12

\* In order, and all of them.
LEMMA DescendingFacts ==
  ASSUME NEW S, IsFiniteSet(S), \A x \in S : x.id \in Nat, \A x, y \in S : x.id = y.id => x = y
  PROVE  LET d == Descending(S)
         IN  /\ d \in Seq(S) /\ Desc(d)
             /\ \A x \in S : \E i \in 1 .. Len(d) : d[i] = x
  <1> DEFINE d == Descending(S)
             n == Cardinality(S)
  <1>1. d \in [1 .. n -> S] /\ \A i, j \in 1 .. n : i < j => d[i].id > d[j].id
    BY DescendingExists DEF Descending
  <1>2. n \in Nat
    BY FS_CardinalityType
  <1> HIDE DEF d, n
  <1>3. d \in Seq(S) /\ Len(d) = n
    <2>1. d = [i \in 1 .. n |-> d[i]]
      BY <1>1
    <2>2. Len(d) = n
      BY <1>2, <2>1, HP!LenOf
    <2> QED BY <1>1, <1>2, <2>2, SeqDef
  <1>4. \A i, j \in 1 .. n : i < j => d[i] # d[j]
    <2> SUFFICES ASSUME NEW i \in 1 .. n, NEW j \in 1 .. n, i < j, d[i] = d[j] PROVE FALSE
      OBVIOUS
    <2>1. d[i] \in S /\ d[i].id > d[j].id
      BY <1>1
    <2> QED BY <2>1
  <1> DEFINE R == Elems(d)
  <1>5. Cardinality(R) = n
    <2>1. d \in [1 .. n -> S]
      BY <1>1
    <2> QED BY <1>2, <1>4, <2>1, DifferentElements
  <1>6. DOMAIN d = 1 .. n /\ R \in SUBSET S
    BY <1>1 DEF Elems
  <1> HIDE DEF R
  <1>7. R = S
    <2>1. Cardinality(R) >= Cardinality(S)
      BY <1>2, <1>5 DEF n
    <2> QED BY <1>6, <2>1, SameSize
  <1>8. \A x \in S : \E i \in 1 .. n : d[i] = x
    BY <1>6, <1>7 DEF R, Elems
  <1> QED BY <1>1, <1>3, <1>8 DEF d, Desc

\* LIMIT n.
LEMMA CutFacts ==
  ASSUME NEW S, NEW s \in Seq(S), NEW n \in Nat
  PROVE  /\ Cut(s, n) \in Seq(S) /\ Len(Cut(s, n)) <= n
         /\ \A i \in 1 .. Len(Cut(s, n)) : i \in 1 .. Len(s) /\ Cut(s, n)[i] = s[i]
         /\ Len(Cut(s, n)) = Len(s) \/ Len(Cut(s, n)) = n
  <1>1. Len(s) \in Nat
    OBVIOUS
  <1>2. CASE Len(s) > n
    <2>1. SubSeq(s, 1, n) \in Seq(S) /\ Len(SubSeq(s, 1, n)) = n /\ \A i \in 1 .. n : SubSeq(s, 1, n)[i] = s[i]
      BY <1>1, <1>2, SubSeqProperties
    <2>2. \A i \in 1 .. n : i \in 1 .. Len(s)
      BY <1>1, <1>2
    <2> QED BY <1>2, <2>1, <2>2 DEF Cut
  <1>3. CASE ~(Len(s) > n)
    BY <1>1, <1>3 DEF Cut
  <1> QED BY <1>2, <1>3

\* Events are no more than their numbers.
LEMMA EventsFinite == IsFiniteSet(Events)
  <1> DEFINE f == [e \in Events |-> e.id]
             T == 1 .. MaxId - 1
  <1>1. IsFiniteSet(T)
    BY IdTyped, FS_Interval
  <1>2. f \in [Events -> T]
    BY IdTyped
  <1>3. \A a, b \in Events : f[a] = f[b] => a = b
    BY EventsAssumption
  <1>4. f \in Injection(Events, T)
    BY <1>2, <1>3 DEF Injection, IsInjective
  <1> HIDE DEF f, T
  <1> QED BY <1>1, <1>4, FS_Injection

\* event_id < ?, said of an event.
Under(e, c) == c = 0 \/ e.id < c

\* What a page is, of some events: in order, below the cursor, ...
PageOf(P, E, n, c) ==
  /\ P \in Seq(ChainEvent) /\ Len(P) <= n /\ Desc(P)
  /\ \A i \in 1 .. Len(P) : \E e \in E : P[i] = AnswerOf(e) /\ Under(e, c)

\* ... and with all of them there, up to its last one if it is full.
WholePage(P, E, n, c) ==
  \A e \in E : Under(e, c) => \/ \E i \in 1 .. Len(P) : P[i].id = e.id
                              \/ Len(P) = n /\ n > 0 /\ e.id < P[Len(P)].id

LEMMA PageFacts ==
  ASSUME NEW E \in SUBSET Events, NEW S, S = {RowOf(e) : e \in E}, NEW r, Limit(r) \in Nat \ {0}, NEW c \in Nat
  PROVE  PageOf(Page(S, r, c), E, Limit(r), c) /\ WholePage(Page(S, r, c), E, Limit(r), c)
  <1> DEFINE B == {row \in S : Below(row, c)}
             d == Descending(B)
             page == Cut(d, Limit(r))
             n == Len(page)
             P == Page(S, r, c)
  <1>1. \A e \in E : RowOf(e).id = e.id /\ e.id \in 1 .. MaxId - 1 /\ e \in Events
    BY AnswerFields, IdTyped
  <1>2. B = {RowOf(e) : e \in {f \in E : Under(f, c)}}
    BY <1>1 DEF Below, Under
  <1>3. IsFiniteSet(B)
    <2> DEFINE F == {f \in E : Under(f, c)}
               g == [e \in F |-> RowOf(e)]
    <2>1. IsFiniteSet(F)
      BY EventsFinite, FS_Subset
    <2>2. g \in Surjection(F, B)
      BY <1>2 DEF Surjection
    <2> HIDE DEF F, g, B
    <2> QED BY <2>1, <2>2, FS_Surjection
  <1>4. \A x \in B : \E e \in E : x = RowOf(e) /\ Under(e, c)
    BY <1>2
  <1>5. /\ \A x \in B : x.id \in Nat
        /\ \A x, y \in B : x.id = y.id => x = y
    <2>1. \A x \in B : x.id \in Nat
      BY <1>1, <1>4, IdTyped
    <2>2. ASSUME NEW x \in B, NEW y \in B, x.id = y.id PROVE x = y
      <3>1. PICK e \in E : x = RowOf(e)
        BY <1>4
      <3>2. PICK f \in E : y = RowOf(f)
        BY <1>4
      <3>3. e = f
        BY <1>1, <2>2, <3>1, <3>2, EventsAssumption
      <3> QED BY <3>1, <3>2, <3>3
    <2> QED BY <2>1, <2>2
  <1>6. ASSUME NEW e \in E, Under(e, c) PROVE RowOf(e) \in B
    BY <1>2, <1>6
  <1> HIDE DEF B
  <1>7. d \in Seq(B) /\ Desc(d) /\ \A x \in B : \E i \in 1 .. Len(d) : d[i] = x
    BY <1>3, <1>5, DescendingFacts
  <1> HIDE DEF d
  <1>8. /\ page \in Seq(B) /\ n <= Limit(r) /\ n \in Nat /\ (n = Len(d) \/ n = Limit(r))
        /\ \A i \in 1 .. n : i \in 1 .. Len(d) /\ page[i] = d[i]
    <2>1. Limit(r) \in Nat
      OBVIOUS
    <2>2. /\ page \in Seq(B) /\ n <= Limit(r) /\ (n = Len(d) \/ n = Limit(r))
          /\ \A i \in 1 .. n : i \in 1 .. Len(d) /\ page[i] = d[i]
      BY <1>7, <2>1, CutFacts, Zenon
    <2> QED BY <2>2
  <1>9. P = [i \in 1 .. n |-> Answered(page[i])]
    BY DEF Page, d, B
  <1> HIDE DEF page, n, P
  <1>10. ASSUME NEW i \in 1 .. n
         PROVE  \E e \in E : /\ Under(e, c) /\ page[i] = RowOf(e) /\ P[i] = AnswerOf(e)
                             /\ P[i] \in ChainEvent /\ P[i].id = page[i].id /\ P[i].id \in Nat
    <2>1. page[i] \in B
      BY <1>8 DEF n
    <2>2. PICK e \in E : page[i] = RowOf(e) /\ Under(e, c)
      BY <1>4, <2>1
    <2>3. P[i] = AnswerOf(e)
      BY <1>9, <2>2 DEF AnswerOf
    <2> QED BY <1>1, <2>2, <2>3, AnswerTells, IdTyped
  <1>11. Len(P) = n /\ P \in Seq(ChainEvent)
    <2>1. P \in [1 .. n -> ChainEvent] /\ P = [i \in 1 .. n |-> P[i]]
      BY <1>9, <1>10
    <2>2. Len(P) = n
      BY <1>8, <2>1, HP!LenOf
    <2> QED BY <1>8, <2>1, <2>2, SeqDef
  <1>12. Desc(P)
    <2> SUFFICES ASSUME NEW i \in 1 .. n, NEW j \in 1 .. n, i < j PROVE P[i].id > P[j].id
      BY <1>11 DEF Desc
    <2>1. d[i].id > d[j].id
      BY <1>7, <1>8 DEF Desc
    <2> QED BY <1>8, <1>10, <2>1
  <1>13. PageOf(P, E, Limit(r), c)
    BY <1>8, <1>10, <1>11, <1>12 DEF PageOf
  <1>14. ASSUME NEW e \in E, Under(e, c)
         PROVE  (\E i \in 1 .. n : P[i].id = e.id) \/ (n = Limit(r) /\ e.id < P[n].id)
    <2>1. PICK k \in 1 .. Len(d) : d[k] = RowOf(e)
      BY <1>6, <1>7, <1>14
    <2>2. d[k].id = e.id /\ Len(d) \in Nat
      BY <1>1, <1>7, <2>1
    <2>3. CASE k \in 1 .. n
      BY <1>8, <1>10, <2>2, <2>3
    <2>4. CASE k \notin 1 .. n
      <3>1. n = Limit(r) /\ n < k /\ n \in 1 .. n
        BY <1>8, <2>2, <2>4
      <3>2. d[n].id > d[k].id
        BY <1>7, <1>8, <2>1, <3>1 DEF Desc
      <3>3. P[n].id = d[n].id /\ P[n].id \in Nat /\ e.id \in Nat
        BY <1>1, <1>8, <1>10, <3>1, IdTyped
      <3> QED BY <2>2, <3>1, <3>2, <3>3
    <2> QED BY <2>3, <2>4
  <1>15. WholePage(P, E, Limit(r), c)
    BY <1>11, <1>14 DEF WholePage
  <1> QED BY <1>13, <1>15 DEF P

\* As many numbers as places in a sequence that goes down.
LEMMA DescendingNumbers ==
  ASSUME NEW s \in Seq(ChainEvent), Desc(s)
  PROVE  LET f == [i \in 1 .. Len(s) |-> s[i].id]
         IN  IsFiniteSet(Elems(f)) /\ Cardinality(Elems(f)) = Len(s) /\ \A x : x \in Elems(f) <=> \E i \in 1 .. Len(s) : x = s[i].id
  <1> DEFINE n == Len(s)
             f == [i \in 1 .. n |-> s[i].id]
  <1>1. n \in Nat
    OBVIOUS
  <1>2. \A i \in 1 .. n : s[i].id \in Nat
    BY ElementTyped, IdTyped
  <1>3. \A i, j \in 1 .. n : i < j => f[i] # f[j]
    BY <1>2 DEF Desc
  <1>4. f \in [1 .. n -> Nat] /\ DOMAIN f = 1 .. n
    BY <1>2
  <1>5. \A x : x \in Elems(f) <=> \E i \in 1 .. n : x = s[i].id
    BY <1>4 DEF Elems
  <1> HIDE DEF f, n
  <1>6. IsFiniteSet(Elems(f)) /\ Cardinality(Elems(f)) = n
    BY <1>1, <1>3, <1>4, DifferentElements
  <1> QED BY <1>5, <1>6 DEF f, n

\* What a side's page has, or leaves to the next one because it is full, the merge has, or
\* leaves to the next one because it is full.
LEMMA SideKept ==
  ASSUME NEW n \in Nat \ {0}, NEW F \in Seq(ChainEvent), Desc(F), Len(F) <= n,
         NEW R \in Seq(ChainEvent), Desc(R), Len(R) <= n,
         \A k \in 1 .. Len(F) : \/ \E i \in 1 .. Len(R) : R[i].id = F[k].id
                                \/ Len(R) = n /\ \A i \in 1 .. Len(R) : F[k].id < R[i].id,
         NEW id \in Nat,
         \/ \E i \in 1 .. Len(F) : F[i].id = id
         \/ Len(F) = n /\ n > 0 /\ id < F[Len(F)].id
  PROVE  \/ \E i \in 1 .. Len(R) : R[i].id = id
         \/ Len(R) = n /\ n > 0 /\ id < R[Len(R)].id
  <1>1. /\ Len(F) \in Nat /\ Len(R) \in Nat
        /\ \A i \in 1 .. Len(F) : F[i].id \in Nat
        /\ \A i \in 1 .. Len(R) : R[i].id \in Nat
    BY ElementTyped, IdTyped
  <1>2. CASE \E i \in 1 .. Len(F) : F[i].id = id
    BY <1>1, <1>2
  <1>3. CASE Len(F) = n /\ id < F[n].id
    <2>1. n \in 1 .. Len(F) /\ F[n].id \in Nat
      BY <1>1, <1>3
    <2>2. CASE Len(R) = n /\ \A i \in 1 .. Len(R) : F[n].id < R[i].id
      <3>1. n \in 1 .. Len(R) /\ F[n].id < R[n].id /\ R[n].id \in Nat
        BY <1>1, <2>2
      <3> QED BY <1>3, <2>1, <2>2, <3>1
    <2>3. CASE \E i \in 1 .. Len(R) : R[i].id = F[n].id
      <3>1. PICK i \in 1 .. Len(R) : R[i].id = F[n].id
        BY <2>3
      <3>2. ASSUME NEW k \in 1 .. n PROVE F[k].id >= F[n].id
        <4>1. k = n \/ k < n
          OBVIOUS
        <4> QED BY <1>1, <1>3, <2>1, <4>1 DEF Desc
      <3>3. \A k \in 1 .. n : \E j \in 1 .. Len(R) : R[j].id = F[k].id
        <4> SUFFICES ASSUME NEW k \in 1 .. n, ~ \E j \in 1 .. Len(R) : R[j].id = F[k].id PROVE FALSE
          OBVIOUS
        <4>1. F[k].id < R[i].id /\ F[k].id \in Nat
          BY <1>1, <1>3
        <4>2. F[k].id >= F[n].id
          BY <3>2
        <4> QED BY <2>1, <3>1, <4>1, <4>2
      <3> DEFINE f == [k \in 1 .. Len(F) |-> F[k].id]
                 g == [k \in 1 .. Len(R) |-> R[k].id]
      <3>4. /\ Cardinality(Elems(f)) = n /\ \A x : x \in Elems(f) <=> \E k \in 1 .. n : x = F[k].id
            /\ IsFiniteSet(Elems(g)) /\ Cardinality(Elems(g)) = Len(R)
            /\ \A x : x \in Elems(g) <=> \E k \in 1 .. Len(R) : x = R[k].id
        BY <1>3, DescendingNumbers
      <3> HIDE DEF f, g
      <3>5. Elems(f) \in SUBSET Elems(g)
        <4>1. ASSUME NEW x \in Elems(f) PROVE x \in Elems(g)
          <5>1. PICK k \in 1 .. n : x = F[k].id
            BY <3>4
          <5>2. PICK j \in 1 .. Len(R) : R[j].id = F[k].id
            BY <3>3
          <5>3. x = R[j].id
            BY <5>1, <5>2
          <5> QED BY <3>4, <5>3
        <4> QED BY <4>1
      <3>6. Len(R) = n
        <4>1. Cardinality(Elems(f)) <= Cardinality(Elems(g))
          BY <3>4, <3>5, FS_Subset
        <4> QED BY <1>1, <3>4, <4>1
      <3>7. Elems(f) = Elems(g)
        BY <3>4, <3>5, <3>6, FS_Subset
      <3>8. PICK k \in 1 .. n : R[n].id = F[k].id
        <4>1. PICK x : x = R[n].id
          OBVIOUS
        <4>2. n \in 1 .. Len(R)
          BY <3>6
        <4>3. x \in Elems(g)
          BY <3>4, <4>1, <4>2
        <4>4. x \in Elems(f)
          BY <3>7, <4>3
        <4> QED BY <3>4, <4>1, <4>4
      <3>9. F[k].id >= F[n].id /\ F[k].id \in Nat
        BY <1>1, <1>3, <3>2
      <3> QED BY <1>3, <2>1, <3>6, <3>8, <3>9
    <2> QED BY <2>1, <2>2, <2>3
  <1> QED BY <1>2, <1>3

\* So a merge of pages is a page.
LEMMA MergeKeeps ==
  ASSUME NEW n \in Nat \ {0}, NEW c \in Nat, NEW E \in SUBSET Events,
         NEW A \in SUBSET Events, NEW B \in SUBSET Events, NEW F, NEW T,
         PageOf(F, E, n, c), PageOf(T, E, n, c), WholePage(F, A, n, c), WholePage(T, B, n, c)
  PROVE  PageOf(Merge(F, T, n), E, n, c) /\ WholePage(Merge(F, T, n), A \union B, n, c)
  <1> DEFINE R == Merge(F, T, n)
             All == {F[k] : k \in 1 .. Len(F)} \union {T[k] : k \in 1 .. Len(T)}
  <1>1. /\ F \in Seq(ChainEvent) /\ Len(F) <= n /\ Desc(F)
        /\ T \in Seq(ChainEvent) /\ Len(T) <= n /\ Desc(T)
    BY DEF PageOf
  <1>2. n \in Nat
    OBVIOUS
  <1>3. /\ R \in Seq(ChainEvent) /\ Len(R) <= n /\ Desc(R)
        /\ \A k \in 1 .. Len(R) : R[k] \in All
        /\ \A x \in All : \/ \E k \in 1 .. Len(R) : R[k].id = x.id
                          \/ Len(R) = n /\ \A k \in 1 .. Len(R) : x.id < R[k].id
    BY <1>1, <1>2, MergeFacts
  <1> HIDE DEF R
  <1>4. PageOf(R, E, n, c)
    <2>1. \A x \in All : \E e \in E : x = AnswerOf(e) /\ Under(e, c)
      BY DEF PageOf
    <2> HIDE DEF All
    <2> QED BY <1>3, <2>1 DEF PageOf
  <1>5. /\ \A k \in 1 .. Len(F) : \/ \E i \in 1 .. Len(R) : R[i].id = F[k].id
                                  \/ Len(R) = n /\ \A i \in 1 .. Len(R) : F[k].id < R[i].id
        /\ \A k \in 1 .. Len(T) : \/ \E i \in 1 .. Len(R) : R[i].id = T[k].id
                                  \/ Len(R) = n /\ \A i \in 1 .. Len(R) : T[k].id < R[i].id
    <2>1. (\A k \in 1 .. Len(F) : F[k] \in All) /\ (\A k \in 1 .. Len(T) : T[k] \in All)
      OBVIOUS
    <2> HIDE DEF All
    <2> QED BY <1>3, <2>1
  <1>6. ASSUME NEW e \in A \union B, Under(e, c)
        PROVE  (\E i \in 1 .. Len(R) : R[i].id = e.id) \/ (Len(R) = n /\ n > 0 /\ e.id < R[Len(R)].id)
    <2>1. e.id \in Nat
      BY IdTyped
    <2>2. CASE e \in A
      <3>1. (\E i \in 1 .. Len(F) : F[i].id = e.id) \/ (Len(F) = n /\ n > 0 /\ e.id < F[Len(F)].id)
        BY <1>6, <2>2 DEF WholePage
      <3> QED BY <1>1, <1>3, <1>5, <2>1, <3>1, SideKept
    <2>3. CASE e \in B
      <3>1. (\E i \in 1 .. Len(T) : T[i].id = e.id) \/ (Len(T) = n /\ n > 0 /\ e.id < T[Len(T)].id)
        BY <1>6, <2>3 DEF WholePage
      <3> QED BY <1>1, <1>3, <1>5, <2>1, <3>1, SideKept
    <2> QED BY <2>2, <2>3
  <1> QED BY <1>4, <1>6 DEF WholePage, R

-----------------------------------------------------------------------------
(* What a request asks for                                                  *)

\* An event whose row one of the queries finds: those by user, by pool, by the sender and
\* by the recipient of a transfer.
Fits(r, q, e) ==
  /\ q \in {"user", "pool"} => e.kind # "transfer" /\ e.type \in EventTypes(r)
  /\ q \in {"from", "to"} => e.kind = "transfer"
  /\ q \in {"user", "from"} => RowOf(e).user = r.who
  /\ q = "pool" => RowOf(e).pool = r.who
  /\ q = "to" => RowOf(e).to = r.who

Queries(r) ==
  {q \in {"user", "pool", "from", "to"} :
     q = r.api \/ (r.api = "transfers" /\ q \in {"from", "to"} /\ r.side \in {q, "all"})}

Fitting(r, q) == {e \in Events : Fits(r, q, e)}
Found(r) == UNION {Fitting(r, q) : q \in Queries(r)}

\* A request, and its limit.
LEMMA RequestTyped ==
  ASSUME NEW r \in Requests, r.api # "ids"
  PROVE  /\ r.api \in {"user", "pool", "transfers"} /\ r.who \in Addresses \union {None}
         /\ r.api = "transfers" => r.side \in {"from", "to", "all"}
         /\ Accepted(r) => r.who \in Addresses /\ r.who # None
         /\ Limit(r) \in Nat \ {0}
  <1>1. r \in Request
    BY RequestsAssumption
  <1>2. /\ r.api \in {"user", "pool", "transfers"} /\ r.who \in Addresses \union {None} /\ r.limit \in Nat
        /\ r.api = "transfers" => r.side \in {"from", "to", "all"}
    BY <1>1 DEF Request, UserEventReq, PoolEventReq, TransferEventQueryReq, EventIDsReq
  <1>3. Accepted(r) => r.who \in Addresses /\ r.who # None
    BY <1>2 DEF Accepted
  <1>4. DefaultLimit[r.api] \in 1 .. MaxLimit /\ MaxLimit \in Nat
    BY <1>2, LimitsAssumption DEF Apis
  <1>5. Limit(r) \in Nat \ {0}
    BY <1>2, <1>4 DEF Limit
  <1> QED BY <1>2, <1>3, <1>5

\* The rows of the two tables.
LEMMA RowsOfTables ==
  /\ ChainEvents = {RowOf(e) : e \in {f \in Events : f.kind # "transfer" /\ storedAt[f] # Never}}
  /\ TransferEvents = {RowOf(e) : e \in {f \in Events : f.kind = "transfer" /\ storedAt[f] # Never}}
  <1>1. ASSUME NEW e \in Events
        PROVE  e.kind \in {"trade", "liquidity", "mint", "burn", "transfer"}
    BY EventTyped
  <1>2. {BuildTradeEvent(e) : e \in Stored("trade")} = {RowOf(e) : e \in Stored("trade")}
    BY BuildersAgree DEF Stored
  <1>3. {BuildLiquidityEvent(e) : e \in Stored("liquidity")} = {RowOf(e) : e \in Stored("liquidity")}
    BY BuildersAgree DEF Stored
  <1>4. {BuildMintEvent(e) : e \in Stored("mint")} = {RowOf(e) : e \in Stored("mint")}
    BY BuildersAgree DEF Stored
  <1>5. {BuildBurnEvent(e) : e \in Stored("burn")} = {RowOf(e) : e \in Stored("burn")}
    BY BuildersAgree DEF Stored
  <1>6. {BuildTransferEvent(e) : e \in Stored("transfer")} = {RowOf(e) : e \in Stored("transfer")}
    BY BuildersAgree DEF Stored
  <1>7. {f \in Events : f.kind # "transfer" /\ storedAt[f] # Never}
          = Stored("trade") \union Stored("liquidity") \union Stored("mint") \union Stored("burn")
    BY <1>1 DEF Stored
  <1>8. ChainEvents = {RowOf(e) : e \in Stored("trade") \union Stored("liquidity") \union Stored("mint") \union Stored("burn")}
    BY <1>2, <1>3, <1>4, <1>5 DEF ChainEvents
  <1>9. TransferEvents = {RowOf(e) : e \in Stored("transfer")}
    BY <1>6 DEF TransferEvents
  <1> QED BY <1>7, <1>8, <1>9 DEF Stored

\* The events that are in the table and found.
Chosen(r, q) == {e \in Fitting(r, q) : storedAt[e] # Never}

LEMMA RowsChosen ==
  ASSUME NEW r
  PROVE  /\ ByUser(r) = {RowOf(e) : e \in Chosen(r, "user")}
         /\ ByPool(r) = {RowOf(e) : e \in Chosen(r, "pool")}
         /\ BySide(r, "from") = {RowOf(e) : e \in Chosen(r, "from")}
         /\ BySide(r, "to") = {RowOf(e) : e \in Chosen(r, "to")}
  <1>1. \A e \in Events : RowOf(e).type = e.type
    BY AnswerFields
  <1>2. ByUser(r) = {RowOf(e) : e \in Chosen(r, "user")}
    BY <1>1, RowsOfTables DEF ByUser, Chosen, Fitting, Fits
  <1>3. ByPool(r) = {RowOf(e) : e \in Chosen(r, "pool")}
    BY <1>1, RowsOfTables DEF ByPool, Chosen, Fitting, Fits
  <1>4. BySide(r, "from") = {RowOf(e) : e \in Chosen(r, "from")}
    BY RowsOfTables DEF BySide, Chosen, Fitting, Fits
  <1>5. BySide(r, "to") = {RowOf(e) : e \in Chosen(r, "to")}
    BY RowsOfTables DEF BySide, Chosen, Fitting, Fits
  <1> QED BY <1>2, <1>3, <1>4, <1>5

\* The events a client wants, by the kind of its request.
LEMMA WantedByApi ==
  ASSUME NEW e
  PROVE  /\ request.api = "user" => (Wanted(e) <=> e.kind # "transfer" /\ WalletOf(e) = request.who /\ e.type \in EventTypes(request))
         /\ request.api = "pool" => (Wanted(e) <=> PoolOf(e) = request.who /\ e.type \in EventTypes(request))
         /\ request.api = "transfers" =>
              (Wanted(e) <=> e.kind = "transfer" /\ (\/ request.side # "to" /\ e.src = request.who
                                                     \/ request.side # "from" /\ e.dest = request.who))
         /\ request.api = "ids" => ~Wanted(e)
  BY Zenon DEF Wanted

\* What is found is wanted, as the address of no wallet is the id of a token; and what is
\* wanted is found, unless it is listed under the id of one.
LEMMA FoundIsWanted ==
  ASSUME request \in Requests, request.api # "ids", Accepted(request), NEW e \in Events
  PROVE  /\ e \in Found(request) => Wanted(e)
         /\ Wanted(e) /\ ~Mapped(request.who) => e \in Found(request)
  <1> DEFINE who == request.who
  <1>1. /\ who \in Addresses /\ who # None /\ request.api \in {"user", "pool", "transfers"}
        /\ request.api = "transfers" => request.side \in {"from", "to", "all"}
    BY RequestTyped
  <1>2. RowOf(e).user = Encode(WalletOf(e)) /\ RowOf(e).to = Optional(ToOf(e)) /\ RowOf(e).pool = Optional(PoolOf(e))
    BY AnswerFields
  <1>3. \A a \in Addresses : (Encode(a) = who => a = who) /\ (a = who /\ ~Mapped(who) => Encode(a) = who)
                             /\ Optional(a) = Encode(a)
    BY <1>1, CodecTyped
  <1>4. Optional(None) = None /\ None # who
    BY <1>1, CodecTyped
  <1>5. /\ WalletOf(e) \in Addresses
        /\ e.kind = "transfer" => WalletOf(e) = e.src /\ ToOf(e) = e.dest /\ ToOf(e) \in Addresses /\ PoolOf(e) = None
        /\ e.kind # "transfer" => ToOf(e) = None
        /\ PoolOf(e) \in Addresses \union {None}
    BY EventTyped, WalletByKind DEF ToOf
  <1>6. CASE request.api = "user"
    <2>1. Queries(request) = {"user"}
      BY <1>6 DEF Queries
    <2>2. e \in Found(request) <=> Fits(request, "user", e)
      BY <2>1 DEF Found, Fitting
    <2> QED BY <1>1, <1>2, <1>3, <1>5, <1>6, <2>2, WantedByApi DEF Fits
  <1>7. CASE request.api = "pool"
    <2>1. Queries(request) = {"pool"}
      BY <1>7 DEF Queries
    <2>2. e \in Found(request) <=> Fits(request, "pool", e)
      BY <2>1 DEF Found, Fitting
    <2> QED BY <1>1, <1>2, <1>3, <1>4, <1>5, <1>7, <2>2, WantedByApi DEF Fits
  <1>8. CASE request.api = "transfers"
    <2>1. \A q : q \in Queries(request) <=> q \in {"from", "to"} /\ request.side \in {q, "all"}
      BY <1>8 DEF Queries
    <2>2. e \in Found(request) <=> \/ request.side # "to" /\ Fits(request, "from", e)
                                   \/ request.side # "from" /\ Fits(request, "to", e)
      BY <1>1, <1>8, <2>1 DEF Found, Fitting
    <2>3. Fits(request, "from", e) <=> e.kind = "transfer" /\ Encode(e.src) = who
      BY <1>2, <1>5 DEF Fits
    <2>4. Fits(request, "to", e) <=> e.kind = "transfer" /\ Encode(e.dest) = who
      BY <1>2, <1>3, <1>5 DEF Fits
    <2> QED BY <1>1, <1>3, <1>5, <1>8, <2>2, <2>3, <2>4, WantedByApi
  <1> QED BY <1>1, <1>6, <1>7, <1>8

-----------------------------------------------------------------------------
(* The invariant of the event queries                                       *)

Typed == TypeOK /\ delivered \in Seq(ChainEvent \union {None}) /\ DOMAIN sides = {"from", "to"}

\* What the client may rely on was in the table, and a TTL before where a cache is asked.
Opened == \A e \in known : storedAt[e] # Never /\ (request.api = "pool" => storedAt[e] + TTL < now)

\* What was delivered goes down to the cursor, and has everything above it.
PagedDown ==
  /\ phase = "idle" => cursor = 0
  /\ request.api # "ids" =>
       /\ delivered \in Seq(ChainEvent) /\ Desc(delivered)
       /\ \A i \in 1 .. Len(delivered) : \E e \in Found(request) : delivered[i] = AnswerOf(e)
       /\ cursor = IF delivered = <<>> THEN 0 ELSE delivered[Len(delivered)].id
       /\ phase = "done" \/ delivered # <<>> => Accepted(request)
       /\ \A e \in known \intersect Found(request) : phase = "done" \/ (cursor # 0 /\ e.id >= cursor) => Got(e)

\* What was looked up is there, in the order of the ids.
LookedUp ==
  request.api = "ids" =>
    /\ cursor = 0
    /\ phase # "done" => delivered = <<>>
    /\ phase = "done" =>
         /\ Len(delivered) = Len(request.ids)
         /\ \A i \in 1 .. Len(request.ids) :
              \/ \E e \in Events : delivered[i] = AnswerOf(e) /\ e.id = request.ids[i]
              \/ delivered[i] = None /\ \A e \in known : e.kind # "transfer" => e.id # request.ids[i]

\* A side that was read lies below the cursor, with what the client knows of.
SideKnown(side) ==
  sides[side] # <<>> =>
    /\ phase = "ask" /\ request.api = "transfers" /\ request.side = "all" /\ Accepted(request)
    /\ PageOf(sides[side][1], Fitting(request, side), Limit(request), cursor)
    /\ WholePage(sides[side][1], known \intersect Fitting(request, side), Limit(request), cursor)

\* An entry of the cache was a page when it was read, which is its TTL before it ends.
EntryKnown(c) ==
  LET x == cache[Key(request, c)]
  IN  /\ request.api = "pool"
      /\ PageOf(x.page, Found(request), Limit(request), c)
      /\ x.validAt <= now + Ttl(x.page)
      /\ WholePage(x.page, {e \in Found(request) : storedAt[e] # Never /\ storedAt[e] + Ttl(x.page) < x.validAt},
                   Limit(request), c)

CacheKnown == \A c \in 0 .. MaxId - 1 : Key(request, c) \in DOMAIN cache => EntryKnown(c)

EventsInv == Typed /\ Opened /\ PagedDown /\ LookedUp /\ SideKnown("from") /\ SideKnown("to") /\ CacheKnown

\* A page of some is a page of more, and whole of less.
LEMMA PageOfMore ==
  ASSUME NEW P, NEW E, NEW F, E \subseteq F, NEW n, NEW c
  PROVE  /\ PageOf(P, E, n, c) => PageOf(P, F, n, c)
         /\ WholePage(P, F, n, c) => WholePage(P, E, n, c)
  BY DEF PageOf, WholePage

\* The events a request finds.
LEMMA FoundBy ==
  ASSUME NEW r \in Requests
  PROVE  /\ r.api = "user" => Found(r) = Fitting(r, "user")
         /\ r.api = "pool" => Found(r) = Fitting(r, "pool")
         /\ r.api = "transfers" /\ r.side = "from" => Found(r) = Fitting(r, "from")
         /\ r.api = "transfers" /\ r.side = "to" => Found(r) = Fitting(r, "to")
         /\ r.api = "transfers" /\ r.side = "all" => Found(r) = Fitting(r, "from") \union Fitting(r, "to")
         /\ Found(r) \subseteq Events
  <1>1. r.api = "user" => Queries(r) = {"user"}
    BY DEF Queries
  <1>2. r.api = "pool" => Queries(r) = {"pool"}
    BY DEF Queries
  <1>3. r.api = "transfers" /\ r.side = "from" => Queries(r) = {"from"}
    BY DEF Queries
  <1>4. r.api = "transfers" /\ r.side = "to" => Queries(r) = {"to"}
    BY DEF Queries
  <1>5. r.api = "transfers" /\ r.side = "all" => Queries(r) = {"from", "to"}
    BY DEF Queries
  <1>6. \A q : Fitting(r, q) \subseteq Events
    BY DEF Fitting
  <1>7. Found(r) = UNION {Fitting(r, q) : q \in Queries(r)}
    BY DEF Found
  <1> QED BY <1>1, <1>2, <1>3, <1>4, <1>5, <1>6, <1>7

\* A page that is read now.
LEMMA ReadNow ==
  ASSUME EventsInv, request.api # "ids", NEW q, NEW c \in Nat, NEW S, S = {RowOf(e) : e \in Chosen(request, q)}
  PROVE  /\ PageOf(Page(S, request, c), Fitting(request, q), Limit(request), c)
         /\ WholePage(Page(S, request, c), Chosen(request, q), Limit(request), c)
         /\ WholePage(Page(S, request, c), known \intersect Fitting(request, q), Limit(request), c)
  <1>1. Chosen(request, q) \subseteq Fitting(request, q) /\ Chosen(request, q) \in SUBSET Events
    BY DEF Chosen, Fitting
  <1>2. Limit(request) \in Nat \ {0}
    BY RequestTyped DEF EventsInv, Typed, TypeOK
  <1>3. known \intersect Fitting(request, q) \subseteq Chosen(request, q)
    BY DEF EventsInv, Opened, Chosen
  <1>4. /\ PageOf(Page(S, request, c), Chosen(request, q), Limit(request), c)
        /\ WholePage(Page(S, request, c), Chosen(request, q), Limit(request), c)
    BY <1>1, <1>2, PageFacts
  <1> QED BY <1>1, <1>3, <1>4, PageOfMore

\* The cache, if nothing it depends on changes.
LEMMA CacheRests ==
  ASSUME CacheKnown, UNCHANGED <<cache, request, now, storedAt>>
  PROVE  CacheKnown'
  BY DEF CacheKnown, EntryKnown, Key

\* The sides, if nothing they depend on changes.
LEMMA SideRests ==
  ASSUME NEW side, SideKnown(side), UNCHANGED <<sides, request, phase, known, cursor>>
  PROVE  SideKnown(side)'
  BY DEF SideKnown

\* What is delivered and looked up, if nothing it depends on changes.
LEMMA SessionRests ==
  ASSUME PagedDown, LookedUp, UNCHANGED session
  PROVE  PagedDown' /\ LookedUp'
  BY DEF PagedDown, LookedUp, session, Got, Desc, Accepted

LEMMA EventsInit ==
  ASSUME Init
  PROVE  EventsInv
  <1> USE DEF Init
  <1>1. /\ 0 \in 0 .. MaxTime /\ 0 \in 0 .. MaxOthers /\ 0 \in 0 .. MaxId - 1
    BY LimitsAssumption
  <1>2. DOMAIN cache = {} /\ DOMAIN sides = {"from", "to"} /\ sides["from"] = <<>> /\ sides["to"] = <<>>
    BY DEF NoSides
  <1>3. delivered \in Seq(ChainEvent) /\ delivered \in Seq(ChainEvent \union {None}) /\ Len(delivered) = 0 /\ DOMAIN delivered = {}
    OBVIOUS
  <1>4. Typed
    BY <1>1, <1>2, <1>3 DEF Typed, TypeOK
  <1>5. Opened /\ LookedUp
    BY DEF Opened, LookedUp
  <1>6. PagedDown
    BY <1>3 DEF PagedDown, Desc
  <1>7. SideKnown("from") /\ SideKnown("to") /\ CacheKnown
    BY <1>2 DEF SideKnown, CacheKnown
  <1> QED BY <1>4, <1>5, <1>6, <1>7 DEF EventsInv

\* Time passes.
LEMMA WaitKeeps ==
  ASSUME EventsInv, now' \in now .. MaxTime, UNCHANGED <<storedAt, pages, session>>
  PROVE  EventsInv'
  <1> USE DEF pages, session
  <1>1. now \in Nat /\ MaxTime \in Nat /\ TTL \in Nat /\ now' \in Nat /\ now <= now' /\ now' <= MaxTime
    BY LimitsAssumption DEF EventsInv, Typed, TypeOK
  <1>2. Typed'
    BY <1>1 DEF EventsInv, Typed, TypeOK
  <1>3. Opened'
    <2>1. \A e \in known : storedAt[e] \in Int
      BY <1>1 DEF EventsInv, Typed, TypeOK, Never
    <2> QED BY <1>1, <2>1 DEF EventsInv, Opened
  <1>4. SideKnown("from")' /\ SideKnown("to")' /\ PagedDown' /\ LookedUp'
    BY SideRests, SessionRests DEF EventsInv
  <1>5. CacheKnown'
    <2> SUFFICES ASSUME NEW c \in 0 .. MaxId - 1, Key(request, c) \in DOMAIN cache PROVE EntryKnown(c)'
      BY DEF CacheKnown, Key
    <2> DEFINE x == cache[Key(request, c)]
    <2>1. EntryKnown(c)
      BY DEF EventsInv, CacheKnown
    <2>2. x.validAt \in Int /\ Ttl(x.page) \in Int
      BY LimitsAssumption DEF EventsInv, Typed, TypeOK, Ttl
    <2>3. x.validAt <= now + Ttl(x.page)
      BY <2>1 DEF EntryKnown
    <2>4. x.validAt <= now' + Ttl(x.page)
      <3> HIDE DEF x
      <3> QED BY <1>1, <2>2, <2>3
    <2> QED BY <2>1, <2>4 DEF EntryKnown, Key, Ttl
  <1> QED BY <1>2, <1>3, <1>4, <1>5 DEF EventsInv

\* A row is written, which no page read before can have.
LEMMA InsertKeeps ==
  ASSUME EventsInv, NEW e \in Events, Insert(e)
  PROVE  EventsInv'
  <1> USE DEF Insert, pages, session
  <1>1. now \in Nat /\ MaxTime \in Nat /\ TTL \in Nat /\ now \in 0 .. MaxTime
    BY LimitsAssumption DEF EventsInv, Typed, TypeOK
  <1>2. /\ storedAt \in [Events -> 0 .. MaxTime \union {Never}] /\ storedAt'[e] = now /\ storedAt[e] = Never
        /\ \A f \in Events : f # e => storedAt'[f] = storedAt[f]
    BY DEF EventsInv, Typed, TypeOK
  <1>3. Typed'
    BY <1>1 DEF EventsInv, Typed, TypeOK
  <1>4. Opened'
    BY <1>2 DEF EventsInv, Opened, Typed, TypeOK
  <1>5. SideKnown("from")' /\ SideKnown("to")' /\ PagedDown' /\ LookedUp'
    BY SideRests, SessionRests DEF EventsInv
  <1>6. CacheKnown'
    <2> SUFFICES ASSUME NEW c \in 0 .. MaxId - 1, Key(request, c) \in DOMAIN cache PROVE EntryKnown(c)'
      BY DEF CacheKnown, Key
    <2>1. EntryKnown(c)
      BY DEF EventsInv, CacheKnown
    <2>2. PICK x : x = cache[Key(request, c)]
      OBVIOUS
    <2>3. x.validAt \in Int /\ Ttl(x.page) \in Int /\ x.validAt <= now + Ttl(x.page)
      BY <2>1, <2>2, LimitsAssumption DEF EventsInv, Typed, TypeOK, Ttl, EntryKnown
    <2>4. ~(now + Ttl(x.page) < x.validAt)
      BY <1>1, <2>3
    <2>5. PICK E : E = {f \in Found(request) : storedAt[f] # Never /\ storedAt[f] + Ttl(x.page) < x.validAt}
      OBVIOUS
    <2>6. E = {f \in Found(request) : storedAt'[f] # Never /\ storedAt'[f] + Ttl(x.page) < x.validAt}
      BY <1>2, <2>4, <2>5, FoundBy DEF EventsInv, Typed, TypeOK
    <2>7. WholePage(x.page, E, Limit(request), c)
      BY <2>1, <2>2, <2>5 DEF EntryKnown
    <2>8. x = cache'[Key(request', c)] /\ request' = request /\ now' = now
      BY <2>2
    <2> QED BY <2>1, <2>2, <2>6, <2>7, <2>8 DEF EntryKnown
  <1> QED BY <1>3, <1>4, <1>5, <1>6 DEF EventsInv

\* The client begins: nothing is read yet, and nothing is above its cursor.
LEMMA BeginKeeps ==
  ASSUME EventsInv, Begin
  PROVE  EventsInv'
  <1> USE DEF Begin, pages
  <1>1. cursor = 0 /\ phase' = "ask" /\ sides["from"] = <<>> /\ sides["to"] = <<>>
    BY DEF EventsInv, PagedDown, SideKnown
  <1>2. Typed'
    BY DEF EventsInv, Typed, TypeOK
  <1>3. Opened'
    BY DEF EventsInv, Opened
  <1>4. PagedDown'
    BY <1>1 DEF EventsInv, PagedDown, Desc, Accepted
  <1>5. LookedUp'
    BY <1>1 DEF EventsInv, LookedUp
  <1>6. SideKnown("from")' /\ SideKnown("to")' /\ CacheKnown'
    BY <1>1, CacheRests DEF EventsInv, SideKnown
  <1> QED BY <1>2, <1>3, <1>4, <1>5, <1>6 DEF EventsInv

\* The query refuses, which nothing has been delivered before.
LEMMA RefuseKeeps ==
  ASSUME EventsInv, Refuse
  PROVE  EventsInv'
  <1> USE DEF Refuse, pages
  <1>1. sides["from"] = <<>> /\ sides["to"] = <<>>
    BY DEF EventsInv, SideKnown
  <1>2. Typed' /\ Opened' /\ LookedUp'
    BY DEF EventsInv, Typed, TypeOK, Opened, LookedUp
  <1>3. PagedDown'
    BY DEF EventsInv, PagedDown, Desc, Accepted, Got
  <1>4. SideKnown("from")' /\ SideKnown("to")' /\ CacheKnown'
    BY <1>1, CacheRests DEF EventsInv, SideKnown
  <1> QED BY <1>2, <1>3, <1>4 DEF EventsInv

\* A page of what is found, whole of what the client knows of, is delivered: so everything
\* above the new cursor has been.
LEMMA DeliverKeeps ==
  ASSUME EventsInv, phase = "ask", request.api # "ids", Accepted(request), NEW page, Deliver(page),
         PageOf(page, Found(request), Limit(request), cursor),
         WholePage(page, known \intersect Found(request), Limit(request), cursor)
  PROVE  PagedDown' /\ LookedUp' /\ delivered' \in Seq(ChainEvent) /\ cursor' \in 0 .. MaxId - 1
  <1> DEFINE n == Len(delivered)
             m == Len(page)
  <1>1. /\ delivered \in Seq(ChainEvent) /\ Desc(delivered) /\ cursor \in 0 .. MaxId - 1
        /\ \A i \in 1 .. n : \E e \in Found(request) : delivered[i] = AnswerOf(e)
        /\ cursor = IF delivered = <<>> THEN 0 ELSE delivered[n].id
        /\ \A e \in known \intersect Found(request) : cursor # 0 /\ e.id >= cursor => Got(e)
    BY DEF EventsInv, PagedDown, Typed, TypeOK
  <1>2. /\ page \in Seq(ChainEvent) /\ m <= Limit(request) /\ Desc(page)
        /\ \A i \in 1 .. m : \E e \in Found(request) : page[i] = AnswerOf(e) /\ Under(e, cursor)
    BY DEF PageOf
  <1>3. /\ request' = request /\ known' = known /\ delivered' = delivered \o page
        /\ cursor' = (IF page = <<>> THEN cursor ELSE page[m].id)
        /\ phase' = (IF page = <<>> THEN "done" ELSE "ask")
    BY DEF Deliver
  <1>4. /\ delivered' \in Seq(ChainEvent) /\ Len(delivered') = n + m /\ n \in Nat /\ m \in Nat
        /\ \A i \in 1 .. n : delivered'[i] = delivered[i]
        /\ \A i \in 1 .. m : delivered'[n + i] = page[i]
        /\ \A k \in 1 .. n + m : k \in 1 .. n \/ (k - n \in 1 .. m /\ delivered'[k] = page[k - n])
    BY <1>1, <1>2, <1>3
  <1>5. /\ \A i \in 1 .. n : delivered[i].id \in 1 .. MaxId - 1
        /\ \A i \in 1 .. m : page[i].id \in 1 .. MaxId - 1
    BY <1>1, <1>2, ElementTyped
  <1>6. cursor' \in 0 .. MaxId - 1
    <2>1. page # <<>> => m \in 1 .. m
      BY <1>2
    <2> QED BY <1>1, <1>3, <1>5, <2>1, IdTyped
  <1>7. \A i \in 1 .. m : page[i].id < cursor \/ cursor = 0
    <2> SUFFICES ASSUME NEW i \in 1 .. m PROVE page[i].id < cursor \/ cursor = 0
      OBVIOUS
    <2>1. PICK e \in Found(request) : page[i] = AnswerOf(e) /\ Under(e, cursor)
      BY <1>2
    <2>2. page[i].id = e.id
      BY <2>1, AnswerTells, FoundBy DEF EventsInv, Typed, TypeOK
    <2> QED BY <2>1, <2>2 DEF Under
  <1>8. \A i \in 1 .. n : cursor # 0 /\ delivered[i].id >= cursor
    <2> SUFFICES ASSUME NEW i \in 1 .. n PROVE cursor # 0 /\ delivered[i].id >= cursor
      OBVIOUS
    <2>1. delivered # <<>> /\ n \in 1 .. n /\ cursor = delivered[n].id
      BY <1>1, <1>4
    <2>2. i = n \/ delivered[i].id > delivered[n].id
      BY <1>1, <2>1 DEF Desc
    <2>3. delivered[i].id \in Nat /\ delivered[n].id \in Nat /\ delivered[n].id # 0
      BY <1>5, <2>1, IdTyped
    <2> QED BY <2>1, <2>2, <2>3
  <1>9. Desc(delivered')
    <2> SUFFICES ASSUME NEW i \in 1 .. n + m, NEW j \in 1 .. n + m, i < j
                 PROVE  delivered'[i].id > delivered'[j].id
      BY <1>4 DEF Desc
    <2>1. CASE j \in 1 .. n
      <3>1. i \in 1 .. n
        BY <1>4, <2>1
      <3> QED BY <1>1, <1>4, <2>1, <3>1 DEF Desc
    <2>2. CASE i \notin 1 .. n
      <3>1. j \notin 1 .. n
        BY <1>4, <2>2
      <3>2. /\ i - n \in 1 .. m /\ j - n \in 1 .. m /\ i - n < j - n
            /\ delivered'[i] = page[i - n] /\ delivered'[j] = page[j - n]
        BY <1>4, <2>2, <3>1
      <3> QED BY <1>2, <3>2 DEF Desc
    <2>3. CASE i \in 1 .. n /\ j \notin 1 .. n
      <3>1. PICK k \in 1 .. m : delivered'[j] = page[k]
        BY <1>4, <2>3
      <3>2. delivered'[i] = delivered[i] /\ cursor # 0 /\ delivered[i].id >= cursor /\ page[k].id < cursor
        BY <1>4, <1>7, <1>8, <2>3
      <3> QED BY <1>1, <1>5, <2>3, <3>1, <3>2, IdTyped
    <2> QED BY <2>1, <2>2, <2>3
  <1>10. \A i \in 1 .. n + m : \E e \in Found(request) : delivered'[i] = AnswerOf(e)
    BY <1>1, <1>2, <1>4
  <1>11. cursor' = IF delivered' = <<>> THEN 0 ELSE delivered'[Len(delivered')].id
    <2>1. CASE page = <<>>
      <3>1. m = 0 /\ Len(delivered') = n /\ (delivered' = <<>> <=> delivered = <<>>)
        BY <1>1, <1>4, <2>1
      <3>2. delivered # <<>> => n \in 1 .. n
        BY <1>1
      <3> QED BY <1>1, <1>3, <1>4, <2>1, <3>1, <3>2
    <2>2. CASE page # <<>>
      <3>1. m \in 1 .. m /\ delivered'[n + m] = page[m] /\ delivered' # <<>>
        BY <1>2, <1>4, <2>2
      <3> QED BY <1>3, <1>4, <2>2, <3>1
    <2> QED BY <2>1, <2>2
  <1>12. ASSUME NEW e \in known \intersect Found(request), phase' = "done" \/ (cursor' # 0 /\ e.id >= cursor')
         PROVE  Got(e)'
    <2>1. Got(e) => Got(e)'
      BY <1>4 DEF Got
    <2>2. CASE ~Under(e, cursor)
      <3>1. cursor # 0 /\ e.id >= cursor
        BY <1>1, <2>2, IdTyped DEF Under, EventsInv, Typed, TypeOK
      <3> QED BY <1>1, <2>1, <3>1
    <2>3. CASE \E i \in 1 .. m : page[i].id = e.id
      BY <1>4, <2>3 DEF Got
    <2>4. CASE m = Limit(request) /\ Limit(request) > 0 /\ e.id < page[m].id
      <3>1. m \in 1 .. m /\ page # <<>>
        BY <1>4, <2>4
      <3>2. cursor' = page[m].id /\ phase' = "ask" /\ page[m].id \in Nat /\ e.id \in Nat
        BY <1>3, <1>5, <3>1, IdTyped DEF EventsInv, Typed, TypeOK
      <3> QED BY <1>12, <2>4, <3>2
    <2> QED BY <2>2, <2>3, <2>4 DEF WholePage
  <1>13. PagedDown'
    <2>1. Accepted(request)' /\ phase' # "idle"
      BY <1>3 DEF Accepted
    <2> HIDE DEF n, m
    <2> QED BY <1>3, <1>4, <1>9, <1>10, <1>11, <1>12, <2>1 DEF PagedDown
  <1>14. LookedUp'
    BY <1>3 DEF LookedUp
  <1> QED BY <1>4, <1>6, <1>13, <1>14

\* ... and with it the invariant is kept, if the cache and the sides allow.
LEMMA DeliverRest ==
  ASSUME EventsInv, phase = "ask", request.api # "ids", Accepted(request), NEW page, Deliver(page),
         PageOf(page, Found(request), Limit(request), cursor),
         WholePage(page, known \intersect Found(request), Limit(request), cursor),
         UNCHANGED <<now, storedAt, others>>,
         CacheKnown', \A k \in DOMAIN cache' : cache'[k].validAt \in 0 .. MaxTime + TTL,
         DOMAIN sides' = {"from", "to"}, sides'["from"] = <<>>, sides'["to"] = <<>>
  PROVE  EventsInv'
  <1>1. PagedDown' /\ LookedUp' /\ delivered' \in Seq(ChainEvent) /\ cursor' \in 0 .. MaxId - 1
    BY DeliverKeeps
  <1>2. request' = request /\ known' = known /\ phase' \in {"ask", "done"}
    BY DEF Deliver
  <1>3. /\ \A i \in DOMAIN delivered' : delivered'[i] \in ChainEvent
        /\ delivered' \in Seq(ChainEvent \union {None})
    BY <1>1
  <1>4. Typed'
    BY <1>1, <1>2, <1>3 DEF EventsInv, Typed, TypeOK
  <1>5. Opened' /\ SideKnown("from")' /\ SideKnown("to")'
    BY <1>2 DEF EventsInv, Opened, SideKnown
  <1> QED BY <1>1, <1>4, <1>5 DEF EventsInv

\* A page that was read now is put into the cache.
LEMMA FillKeeps ==
  ASSUME EventsInv, request.api = "pool", NEW c \in 0 .. MaxId - 1, NEW P,
         PageOf(P, Found(request), Limit(request), c), WholePage(P, Chosen(request, "pool"), Limit(request), c),
         cache' = Filled(request, c, P), UNCHANGED <<now, storedAt, request>>
  PROVE  CacheKnown' /\ \A k \in DOMAIN cache' : cache'[k].validAt \in 0 .. MaxTime + TTL
  <1> DEFINE entry == [page |-> P, validAt |-> now + Ttl(P)]
             k0 == Key(request, c)
  <1>1. now \in 0 .. MaxTime /\ MaxTime \in Nat /\ TTL \in Nat /\ Ttl(P) \in 0 .. TTL
    BY LimitsAssumption DEF EventsInv, Typed, TypeOK, Ttl
  <1>2. /\ DOMAIN cache' = DOMAIN cache \union {k0} /\ cache'[k0] = entry
        /\ \A k \in DOMAIN cache : k # k0 => cache'[k] = cache[k]
    BY DEF Filled
  <1>3. \A k \in DOMAIN cache' : cache'[k].validAt \in 0 .. MaxTime + TTL
    BY <1>1, <1>2 DEF EventsInv, Typed, TypeOK
  <1>4. ASSUME NEW d \in 0 .. MaxId - 1, Key(request, d) \in DOMAIN cache'
        PROVE  EntryKnown(d)'
    <2>1. CASE d = c
      <3> DEFINE E == {e \in Found(request) : storedAt[e] # Never /\ storedAt[e] + Ttl(P) < now + Ttl(P)}
      <3>1. E \subseteq Chosen(request, "pool")
        BY FoundBy DEF Chosen, EventsInv, Typed, TypeOK
      <3>2. WholePage(P, E, Limit(request), c)
        BY <3>1, PageOfMore
      <3>3. cache'[Key(request', d)] = entry /\ entry.page = P /\ entry.validAt = now + Ttl(P)
        BY <1>2, <2>1
      <3>4. entry.validAt <= now + Ttl(entry.page)
        BY <1>1
      <3> HIDE DEF entry
      <3> QED BY <2>1, <3>2, <3>3, <3>4 DEF EntryKnown
    <2>2. CASE d # c
      <3>1. Key(request, d) # k0
        BY <2>2 DEF Key
      <3>2. Key(request, d) \in DOMAIN cache /\ cache'[Key(request, d)] = cache[Key(request, d)]
        BY <1>2, <1>4, <3>1
      <3>3. EntryKnown(d)
        BY <3>2 DEF EventsInv, CacheKnown
      <3>4. cache'[Key(request', d)] = cache[Key(request, d)]
        BY <3>2
      <3> QED BY <3>3, <3>4 DEF EntryKnown
    <2> QED BY <2>1, <2>2
  <1>5. CacheKnown'
    BY <1>4 DEF CacheKnown, Key
  <1> QED BY <1>3, <1>5

\* The sides are empty but for a request of both.
LEMMA NoSideRead ==
  ASSUME EventsInv, ~(request.api = "transfers" /\ request.side = "all")
  PROVE  sides["from"] = <<>> /\ sides["to"] = <<>>
  BY DEF EventsInv, SideKnown

LEMMA QueryEventsByUserKeeps ==
  ASSUME EventsInv, QueryEventsByUser
  PROVE  EventsInv'
  <1> USE DEF QueryEventsByUser, Asks
  <1>1. PICK P : P = Page(ByUser(request), request, cursor)
    OBVIOUS
  <1>2. Deliver(P)
    BY <1>1 DEF ReadOf
  <1>3. /\ cursor \in Nat /\ request \in Requests
        /\ \A k \in DOMAIN cache : cache[k].validAt \in 0 .. MaxTime + TTL
    BY IdTyped DEF EventsInv, Typed, TypeOK
  <1>4. /\ PageOf(P, Found(request), Limit(request), cursor)
        /\ WholePage(P, known \intersect Found(request), Limit(request), cursor)
    BY <1>1, <1>3, RowsChosen, ReadNow, FoundBy
  <1>5. sides'["from"] = <<>> /\ sides'["to"] = <<>> /\ DOMAIN sides' = {"from", "to"}
    BY NoSideRead DEF EventsInv, Typed
  <1>6. CacheKnown'
    BY CacheRests DEF EventsInv, pages, Deliver
  <1> QED BY <1>2, <1>3, <1>4, <1>5, <1>6, DeliverRest DEF pages

LEMMA QueryOneSideKeeps ==
  ASSUME EventsInv, QueryOneSide
  PROVE  EventsInv'
  <1> USE DEF QueryOneSide, Asks
  <1>1. PICK P : P = Page(BySide(request, request.side), request, cursor)
    OBVIOUS
  <1>2. Deliver(P)
    BY <1>1 DEF ReadOf
  <1>3. /\ cursor \in Nat /\ request \in Requests
        /\ \A k \in DOMAIN cache : cache[k].validAt \in 0 .. MaxTime + TTL
    BY IdTyped DEF EventsInv, Typed, TypeOK
  <1>4. request.side = "from" \/ request.side = "to"
    BY <1>3, RequestTyped
  <1>5. /\ PageOf(P, Found(request), Limit(request), cursor)
        /\ WholePage(P, known \intersect Found(request), Limit(request), cursor)
    BY <1>1, <1>3, <1>4, RowsChosen, ReadNow, FoundBy
  <1>6. sides'["from"] = <<>> /\ sides'["to"] = <<>> /\ DOMAIN sides' = {"from", "to"}
    BY NoSideRead DEF EventsInv, Typed
  <1>7. CacheKnown'
    BY CacheRests DEF EventsInv, pages, Deliver
  <1> QED BY <1>2, <1>3, <1>5, <1>6, <1>7, DeliverRest DEF pages

LEMMA QueryEventsByPoolKeeps ==
  ASSUME EventsInv, QueryEventsByPool
  PROVE  EventsInv'
  <1> USE DEF QueryEventsByPool, Asks
  <1>1. PICK P : P = Page(ByPool(request), request, cursor)
    OBVIOUS
  <1>2. Deliver(P) /\ cache' = Filled(request, cursor, P)
    BY <1>1 DEF ReadOf
  <1>3. cursor \in Nat /\ cursor \in 0 .. MaxId - 1 /\ request \in Requests
    BY IdTyped DEF EventsInv, Typed, TypeOK
  <1>4. /\ PageOf(P, Found(request), Limit(request), cursor)
        /\ WholePage(P, known \intersect Found(request), Limit(request), cursor)
        /\ WholePage(P, Chosen(request, "pool"), Limit(request), cursor)
    BY <1>1, <1>3, RowsChosen, ReadNow, FoundBy
  <1>5. sides'["from"] = <<>> /\ sides'["to"] = <<>> /\ DOMAIN sides' = {"from", "to"}
    BY NoSideRead DEF EventsInv, Typed
  <1>6. CacheKnown' /\ \A k \in DOMAIN cache' : cache'[k].validAt \in 0 .. MaxTime + TTL
    <2>1. PICK c \in 0 .. MaxId - 1 : c = cursor
      BY <1>3
    <2>2. request' = request
      BY <1>2 DEF Deliver
    <2> QED BY <1>2, <1>4, <2>1, <2>2, FillKeeps
  <1> QED BY <1>2, <1>4, <1>5, <1>6, DeliverRest

LEMMA OtherQueryEventsByPoolKeeps ==
  ASSUME EventsInv, NEW c \in 0 .. MaxId - 1, OtherQueryEventsByPool(c)
  PROVE  EventsInv'
  <1> USE DEF OtherQueryEventsByPool, session
  <1>1. PICK P : P = Page(ByPool(request), request, c)
    OBVIOUS
  <1>2. c \in Nat /\ request \in Requests
    BY IdTyped DEF EventsInv, Typed, TypeOK
  <1>3. /\ PageOf(P, Found(request), Limit(request), c)
        /\ WholePage(P, Chosen(request, "pool"), Limit(request), c)
    BY <1>1, <1>2, RowsChosen, ReadNow, FoundBy
  <1>4. CacheKnown' /\ \A k \in DOMAIN cache' : cache'[k].validAt \in 0 .. MaxTime + TTL
    BY <1>1, <1>3, FillKeeps
  <1>5. Typed'
    BY <1>4, LimitsAssumption DEF EventsInv, Typed, TypeOK
  <1>6. Opened' /\ PagedDown' /\ LookedUp' /\ SideKnown("from")' /\ SideKnown("to")'
    BY SideRests, SessionRests DEF EventsInv, Opened
  <1> QED BY <1>4, <1>5, <1>6 DEF EventsInv

\* A hit: the page has what was written a TTL before.
LEMMA QueryEventsByPoolHitKeeps ==
  ASSUME EventsInv, QueryEventsByPoolHit
  PROVE  EventsInv'
  <1> USE DEF QueryEventsByPoolHit, Asks
  <1>1. PICK x : x = cache[Key(request, cursor)]
    OBVIOUS
  <1>2. Deliver(x.page) /\ now <= x.validAt /\ Key(request, cursor) \in DOMAIN cache
    BY <1>1 DEF Cached
  <1>3. /\ cursor \in 0 .. MaxId - 1 /\ now \in 0 .. MaxTime /\ request \in Requests
        /\ storedAt \in [Events -> 0 .. MaxTime \union {Never}]
        /\ \A k \in DOMAIN cache : cache[k].validAt \in 0 .. MaxTime + TTL
    BY DEF EventsInv, Typed, TypeOK
  <1>4. EntryKnown(cursor)
    BY <1>2, <1>3 DEF EventsInv, CacheKnown
  <1>5. PageOf(x.page, Found(request), Limit(request), cursor)
    BY <1>1, <1>4 DEF EntryKnown
  <1>6. WholePage(x.page, known \intersect Found(request), Limit(request), cursor)
    <2> DEFINE E == {e \in Found(request) : storedAt[e] # Never /\ storedAt[e] + Ttl(x.page) < x.validAt}
    <2>1. WholePage(x.page, E, Limit(request), cursor)
      BY <1>1, <1>4 DEF EntryKnown
    <2>2. x.validAt \in Int /\ Ttl(x.page) \in 0 .. TTL /\ TTL \in Nat /\ MaxTime \in Nat
      BY <1>1, <1>2, <1>3, LimitsAssumption DEF Ttl
    <2>3. ASSUME NEW e \in known \intersect Found(request) PROVE e \in E
      <3>1. storedAt[e] # Never /\ storedAt[e] + TTL < now
        BY DEF EventsInv, Opened
      <3>2. storedAt[e] \in Int
        BY <1>3, <2>2, FoundBy DEF Never
      <3>3. storedAt[e] + Ttl(x.page) < x.validAt
        BY <1>2, <1>3, <2>2, <3>1, <3>2
      <3> QED BY <3>1, <3>3
    <2> HIDE DEF E
    <2>4. known \intersect Found(request) \subseteq E
      BY <2>3
    <2> QED BY <2>1, <2>4, PageOfMore
  <1>7. sides'["from"] = <<>> /\ sides'["to"] = <<>> /\ DOMAIN sides' = {"from", "to"}
    BY NoSideRead DEF EventsInv, Typed
  <1>8. CacheKnown'
    BY <1>2, CacheRests DEF EventsInv, pages, Deliver
  <1> QED BY <1>2, <1>3, <1>5, <1>6, <1>7, <1>8, DeliverRest DEF pages

\* One of the two sides is read.
LEMMA ReadSideKeeps ==
  ASSUME EventsInv, NEW side \in {"from", "to"}, ReadSide(side)
  PROVE  EventsInv'
  <1> USE DEF ReadSide, Asks, pages
  <1>1. PICK P : P = Page(BySide(request, side), request, cursor)
    OBVIOUS
  <1>2. sides' = NoSides \/ sides' = [sides EXCEPT ![side] = <<P>>]
    BY <1>1 DEF ReadOf
  <1>3. cursor \in Nat /\ request \in Requests /\ DOMAIN sides = {"from", "to"}
    BY IdTyped DEF EventsInv, Typed, TypeOK
  <1>4. /\ PageOf(P, Fitting(request, side), Limit(request), cursor)
        /\ WholePage(P, known \intersect Fitting(request, side), Limit(request), cursor)
    <2>1. CASE side = "from"
      BY <1>1, <1>3, <2>1, RowsChosen, ReadNow
    <2>2. CASE side = "to"
      BY <1>1, <1>3, <2>2, RowsChosen, ReadNow
    <2> QED BY <2>1, <2>2
  <1>5. Typed'
    BY <1>2, <1>3 DEF EventsInv, Typed, TypeOK, NoSides
  <1>6. Opened' /\ PagedDown' /\ LookedUp' /\ CacheKnown'
    BY CacheRests, SessionRests DEF EventsInv, Opened, PagedDown, LookedUp, Got, Accepted
  <1>7. ASSUME NEW s \in {"from", "to"} PROVE SideKnown(s)'
    <2>1. CASE sides' = NoSides
      BY <2>1 DEF SideKnown, NoSides
    <2>2. CASE sides' = [sides EXCEPT ![side] = <<P>>] /\ s = side
      <3>1. sides'[s] = <<P>> /\ sides'[s][1] = P
        BY <1>3, <2>2
      <3> QED BY <1>4, <2>2, <3>1 DEF SideKnown, Accepted
    <2>3. CASE sides' = [sides EXCEPT ![side] = <<P>>] /\ s # side
      <3>1. sides'[s] = sides[s] /\ SideKnown(s)
        BY <1>3, <2>3 DEF EventsInv
      <3> QED BY <3>1 DEF SideKnown, Accepted
    <2> QED BY <1>2, <2>1, <2>2, <2>3
  <1> QED BY <1>5, <1>6, <1>7 DEF EventsInv

\* The two sides are merged.
LEMMA QueryTransferEventsKeeps ==
  ASSUME EventsInv, QueryTransferEvents
  PROVE  EventsInv'
  <1> USE DEF QueryTransferEvents, Asks
  <1>1. /\ cursor \in Nat /\ request \in Requests /\ known \subseteq Events /\ DOMAIN sides = {"from", "to"}
        /\ \A k \in DOMAIN cache : cache[k].validAt \in 0 .. MaxTime + TTL
    BY IdTyped DEF EventsInv, Typed, TypeOK
  <1>2. sides["from"] # <<>> /\ sides["to"] # <<>> /\ request.api = "transfers" /\ request.side = "all"
    BY <1>1 DEF EventsInv, SideKnown
  <1>3. PICK F, T : F = sides["from"][1] /\ T = sides["to"][1]
    OBVIOUS
  <1>4. PICK n, A, B, E : /\ n = Limit(request) /\ E = Found(request)
                          /\ A = known \intersect Fitting(request, "from") /\ B = known \intersect Fitting(request, "to")
    OBVIOUS
  <1>5. n \in Nat \ {0} /\ E \in SUBSET Events /\ A \in SUBSET Events /\ B \in SUBSET Events
    BY <1>1, <1>2, <1>4, RequestTyped, FoundBy
  <1>6. Found(request) = Fitting(request, "from") \union Fitting(request, "to")
    BY <1>1, <1>2, FoundBy
  <1>7. PageOf(F, E, n, cursor) /\ WholePage(F, A, n, cursor)
    BY <1>2, <1>3, <1>4, <1>6, PageOfMore DEF EventsInv, SideKnown
  <1>8. PageOf(T, E, n, cursor) /\ WholePage(T, B, n, cursor)
    BY <1>2, <1>3, <1>4, <1>6, PageOfMore DEF EventsInv, SideKnown
  <1>9. PageOf(Merge(F, T, n), E, n, cursor) /\ WholePage(Merge(F, T, n), A \union B, n, cursor)
    BY <1>1, <1>5, <1>7, <1>8, MergeKeeps
  <1>10. A \union B = known \intersect Found(request)
    BY <1>4, <1>6
  <1>11. PICK page : page = Merge(F, T, n)
    OBVIOUS
  <1>12. Deliver(page)
    BY <1>3, <1>4, <1>11
  <1>13. /\ PageOf(page, Found(request), Limit(request), cursor)
         /\ WholePage(page, known \intersect Found(request), Limit(request), cursor)
    BY <1>4, <1>9, <1>10, <1>11
  <1>14. sides'["from"] = <<>> /\ sides'["to"] = <<>> /\ DOMAIN sides' = {"from", "to"}
    BY DEF NoSides
  <1>15. CacheKnown'
    BY <1>12, CacheRests DEF EventsInv, pages, Deliver
  <1> QED BY <1>1, <1>2, <1>12, <1>13, <1>14, <1>15, DeliverRest DEF pages

\* The results of a list of ids.
LEMMA ResultsRight ==
  ASSUME EventsInv, request.api = "ids",
         NEW found, found = {row \in ChainEvents : \E i \in DOMAIN request.ids : row.id = request.ids[i]}
  PROVE  LET D == Results(request.ids, found)
         IN  /\ D \in Seq(ChainEvent \union {None}) /\ Len(D) = Len(request.ids)
             /\ \A i \in 1 .. Len(request.ids) :
                  \/ \E e \in Events : D[i] = AnswerOf(e) /\ e.id = request.ids[i]
                  \/ D[i] = None /\ \A e \in known : e.kind # "transfer" => e.id # request.ids[i]
  <1> DEFINE D == Results(request.ids, found)
             n == Len(request.ids)
  <1>1. request.ids \in Seq(Ids) /\ known \subseteq Events
    BY RequestsAssumption DEF Request, UserEventReq, PoolEventReq, TransferEventQueryReq, EventIDsReq,
                              EventsInv, Typed, TypeOK
  <1>2. n \in Nat /\ DOMAIN request.ids = 1 .. n
    BY <1>1
  <1>3. \A row \in found : \E e \in Events : row = RowOf(e)
    BY RowsOfTables
  <1>4. ASSUME NEW i \in 1 .. n
        PROVE  /\ D[i] \in ChainEvent \union {None}
               /\ \/ \E e \in Events : D[i] = AnswerOf(e) /\ e.id = request.ids[i]
                  \/ D[i] = None /\ \A e \in known : e.kind # "transfer" => e.id # request.ids[i]
    <2>1. CASE \E row \in found : row.id = request.ids[i]
      <3>1. PICK row : row = CHOOSE x \in found : x.id = request.ids[i]
        OBVIOUS
      <3>2. row \in found /\ row.id = request.ids[i]
        BY <2>1, <3>1
      <3>3. D[i] = Answered(row)
        BY <1>2, <2>1, <3>1 DEF Results
      <3>4. PICK e \in Events : row = RowOf(e)
        BY <1>3, <3>2
      <3>5. D[i] = AnswerOf(e) /\ e.id = request.ids[i] /\ AnswerOf(e) \in ChainEvent
        BY <3>2, <3>3, <3>4, AnswerFields, AnswerTells DEF AnswerOf
      <3> QED BY <3>5
    <2>2. CASE ~ \E row \in found : row.id = request.ids[i]
      <3>1. D[i] = None
        BY <1>2, <2>2 DEF Results
      <3>2. ASSUME NEW e \in known, e.kind # "transfer", e.id = request.ids[i] PROVE FALSE
        <4>1. storedAt[e] # Never /\ e \in Events
          BY <1>1 DEF EventsInv, Opened
        <4>2. RowOf(e) \in ChainEvents /\ RowOf(e).id = request.ids[i]
          BY <3>2, <4>1, RowsOfTables, AnswerFields
        <4> QED BY <1>2, <2>2, <4>2
      <3> QED BY <3>1, <3>2
    <2> QED BY <2>1, <2>2
  <1>5. D = [i \in 1 .. n |-> D[i]]
    BY <1>2 DEF Results
  <1> HIDE DEF D
  <1>6. Len(D) = n
    BY <1>2, <1>5, HP!LenOf
  <1>7. D \in Seq(ChainEvent \union {None})
    <2>1. D \in [1 .. n -> ChainEvent \union {None}]
      BY <1>4, <1>5
    <2> QED BY <1>2, <2>1, SeqDef
  <1> QED BY <1>4, <1>6, <1>7 DEF D

\* Events are looked up.
LEMMA QueryEventsByIDsKeeps ==
  ASSUME EventsInv, QueryEventsByIDs
  PROVE  EventsInv'
  <1> USE DEF QueryEventsByIDs, Asks, pages
  <1>1. PICK found : found = {row \in ChainEvents : \E i \in DOMAIN request.ids : row.id = request.ids[i]}
    OBVIOUS
  <1>2. delivered' = Results(request.ids, found)
    BY <1>1
  <1>3. /\ delivered' \in Seq(ChainEvent \union {None}) /\ Len(delivered') = Len(request.ids)
        /\ \A i \in 1 .. Len(request.ids) :
             \/ \E e \in Events : delivered'[i] = AnswerOf(e) /\ e.id = request.ids[i]
             \/ delivered'[i] = None /\ \A e \in known : e.kind # "transfer" => e.id # request.ids[i]
    <2>1. PICK D : D = Results(request.ids, found)
      OBVIOUS
    <2>2. /\ D \in Seq(ChainEvent \union {None}) /\ Len(D) = Len(request.ids)
          /\ \A i \in 1 .. Len(request.ids) :
               \/ \E e \in Events : D[i] = AnswerOf(e) /\ e.id = request.ids[i]
               \/ D[i] = None /\ \A e \in known : e.kind # "transfer" => e.id # request.ids[i]
      BY <1>1, <2>1, ResultsRight, Zenon
    <2>3. delivered' = D
      BY <1>2, <2>1
    <2> QED BY <2>2, <2>3
  <1>4. \A i \in DOMAIN delivered' : delivered'[i] \in ChainEvent \/ delivered'[i] = None
    BY <1>3
  <1>5. Typed'
    BY <1>3, <1>4 DEF EventsInv, Typed, TypeOK
  <1>6. sides'["from"] = <<>> /\ sides'["to"] = <<>>
    BY NoSideRead
  <1>7. Opened' /\ SideKnown("from")' /\ SideKnown("to")' /\ CacheKnown'
    BY <1>6, CacheRests DEF EventsInv, Opened, SideKnown
  <1>8. PagedDown' /\ LookedUp'
    BY <1>3 DEF EventsInv, PagedDown, LookedUp
  <1> QED BY <1>5, <1>7, <1>8 DEF EventsInv

\* Every step of the event queries keeps the invariant.
LEMMA EventsStep ==
  ASSUME EventsInv, [Next]_vars
  PROVE  EventsInv'
  <1>1. now \in 0 .. MaxTime /\ MaxTime \in Nat /\ DOMAIN sides = {"from", "to"}
    BY LimitsAssumption DEF EventsInv, Typed, TypeOK
  <1>2. CASE Tick
    <2>1. now' \in now .. MaxTime
      BY <1>1, <1>2 DEF Tick
    <2> QED BY <1>2, <2>1, WaitKeeps DEF Tick
  <1>3. CASE \E e \in Events : Insert(e)
    BY <1>3, InsertKeeps
  <1>4. CASE Begin
    BY <1>4, BeginKeeps
  <1>5. CASE Refuse
    BY <1>5, RefuseKeeps
  <1>6. CASE QueryEventsByUser
    BY <1>6, QueryEventsByUserKeeps
  <1>7. CASE QueryEventsByPoolHit
    BY <1>7, QueryEventsByPoolHitKeeps
  <1>8. CASE QueryEventsByPool
    BY <1>8, QueryEventsByPoolKeeps
  <1>9. CASE \E c \in {0} \union {e.id : e \in Events} : OtherQueryEventsByPool(c)
    <2>1. PICK c \in {0} \union {e.id : e \in Events} : OtherQueryEventsByPool(c)
      BY <1>9
    <2>2. c \in 0 .. MaxId - 1
      BY IdTyped, LimitsAssumption
    <2> QED BY <2>1, <2>2, OtherQueryEventsByPoolKeeps
  <1>10. CASE QueryOneSide
    BY <1>10, QueryOneSideKeeps
  <1>11. CASE \E side \in DOMAIN sides : ReadSide(side)
    BY <1>1, <1>11, ReadSideKeeps
  <1>12. CASE QueryTransferEvents
    BY <1>12, QueryTransferEventsKeeps
  <1>13. CASE QueryEventsByIDs
    BY <1>13, QueryEventsByIDsKeeps
  <1>14. CASE UNCHANGED vars
    <2>1. now' \in now .. MaxTime /\ UNCHANGED <<storedAt, pages, session>>
      BY <1>1, <1>14 DEF vars
    <2> QED BY <2>1, WaitKeeps
  <1> QED BY <1>2, <1>3, <1>4, <1>5, <1>6, <1>7, <1>8, <1>9, <1>10, <1>11, <1>12, <1>13, <1>14 DEF Next

\* What the invariant says of the answers.
LEMMA EventsSuffice ==
  ASSUME EventsInv
  PROVE  TypeOK /\ NothingMissed /\ PagesDescend /\ AnswersFaithful
  <1>1. request \in Requests /\ known \subseteq Events /\ Found(request) \subseteq Events
    BY FoundBy DEF EventsInv, Typed, TypeOK
  <1>2. NothingMissed
    <2> SUFFICES ASSUME NEW e \in known, Wanted(e), ~Mapped(request.who),
                        phase = "done" \/ (cursor # 0 /\ e.id >= cursor)
                 PROVE  Got(e)
      BY DEF NothingMissed
    <2>1. request.api # "ids"
      BY WantedByApi
    <2>2. Accepted(request)
      BY <2>1 DEF EventsInv, PagedDown
    <2>3. e \in Found(request)
      BY <1>1, <2>1, <2>2, FoundIsWanted
    <2> QED BY <2>1, <2>3 DEF EventsInv, PagedDown
  <1>3. PagesDescend
    <2> SUFFICES ASSUME request.api # "ids"
                 PROVE  /\ \A i, j \in 1 .. Len(delivered) : i < j => delivered[i].id > delivered[j].id
                        /\ \A i \in 1 .. Len(delivered) : \E e \in Events : e.id = delivered[i].id /\ Wanted(e)
      BY DEF PagesDescend
    <2>1. \A i, j \in 1 .. Len(delivered) : i < j => delivered[i].id > delivered[j].id
      BY DEF EventsInv, PagedDown, Desc
    <2>2. ASSUME NEW i \in 1 .. Len(delivered)
          PROVE  \E e \in Events : e.id = delivered[i].id /\ Wanted(e)
      <3>1. PICK e \in Found(request) : delivered[i] = AnswerOf(e)
        BY DEF EventsInv, PagedDown
      <3>2. Accepted(request)
        BY DEF EventsInv, PagedDown
      <3>3. Wanted(e) /\ delivered[i].id = e.id
        BY <1>1, <3>1, <3>2, FoundIsWanted, AnswerTells
      <3> QED BY <1>1, <3>3
    <2> QED BY <2>1, <2>2
  <1>4. ASSUME NEW i \in 1 .. Len(delivered)
        PROVE  (request.api = "ids" /\ delivered[i] = None) \/ \E e \in Events : delivered[i] = AnswerOf(e)
    BY <1>1 DEF EventsInv, PagedDown, LookedUp
  <1>5. ASSUME NEW i \in 1 .. Len(delivered), NEW e \in Events, delivered[i] # None, delivered[i].id = e.id,
               \A a \in {WalletOf(e), PoolOf(e), e.signers[1], Told(e).to} : ~Mapped(a)
        PROVE  delivered[i] = Told(e)
    <2>1. PICK f \in Events : delivered[i] = AnswerOf(f)
      BY <1>4, <1>5
    <2>2. f.id = e.id
      BY <1>5, <2>1, AnswerTells
    <2>3. f = e
      BY <2>2, EventsAssumption
    <2> QED BY <1>5, <2>1, <2>3, AnswerTells
  <1>6. ASSUME request.api = "ids", phase = "done", NEW i \in 1 .. Len(request.ids)
        PROVE  \/ delivered[i] # None /\ delivered[i].id = request.ids[i]
               \/ delivered[i] = None /\ \A e \in known : e.kind # "transfer" => e.id # request.ids[i]
    <2>1. \/ \E e \in Events : delivered[i] = AnswerOf(e) /\ e.id = request.ids[i]
          \/ delivered[i] = None /\ \A e \in known : e.kind # "transfer" => e.id # request.ids[i]
      BY <1>6 DEF EventsInv, LookedUp
    <2>2. \A e \in Events : AnswerOf(e) # None /\ AnswerOf(e).id = e.id
      BY AnswerTells, NilAssumption
    <2> QED BY <2>1, <2>2
  <1>7. AnswersFaithful
    BY <1>5, <1>6 DEF AnswersFaithful
  <1> QED BY <1>2, <1>3, <1>7 DEF EventsInv, Typed

-----------------------------------------------------------------------------
(* The service                                                              *)

\* The module of the proofs about balances is instantiated like that of the balances.
LEMMA SameBalances ==
  /\ Balances!WellFormed <=> HP!WellFormed
  /\ Balances!Init <=> HP!Init
  /\ Balances!Next <=> HP!Next
  /\ Balances!TypeOK <=> HP!TypeOK
  /\ Balances!AnswersWereTrue <=> HP!AnswersWereTrue
  /\ Balances!TopHoldersSound <=> HP!TopHoldersSound
  <1> USE DEF Balances!Row, HP!Row, Balances!Apis, HP!Apis, Balances!OwnerReq, HP!OwnerReq,
              Balances!TokenTopReq, HP!TokenTopReq, Balances!TokenReq, HP!TokenReq,
              Balances!Request, HP!Request, Balances!Balance, HP!Balance, Balances!Holder, HP!Holder,
              Balances!Least, HP!Least, Balances!LimitOf, HP!LimitOf, Balances!FetchLimit, HP!FetchLimit,
              Balances!AccountsOf, HP!AccountsOf, Balances!OfToken, HP!OfToken, Balances!OfOwner, HP!OfOwner,
              Balances!TopOf, HP!TopOf, Balances!Sum, HP!Sum, Balances!HolderMap, HP!HolderMap,
              Balances!TopHolders, HP!TopHolders, Balances!BalancesByOwner, HP!BalancesByOwner,
              Balances!HolderCount, HP!HolderCount, Balances!ResultsOf, HP!ResultsOf, Balances!Key, HP!Key,
              Balances!IsKnownToken, HP!IsKnownToken, Balances!Accepted, HP!Accepted,
              Balances!Cached, HP!Cached, Balances!Ttl, HP!Ttl, Balances!Answer, HP!Answer,
              Balances!Window, HP!Window, Balances!Cardinality, HP!Cardinality
  <1>1. Balances!WellFormed <=> HP!WellFormed
    BY DEF Balances!WellFormed, HP!WellFormed, Balances!IsFiniteSet, HP!IsFiniteSet
  <1>2. Balances!Init <=> HP!Init
    BY DEF Balances!Init, HP!Init
  <1>3. Balances!Next <=> HP!Next
    BY DEF Balances!Next, HP!Next, Balances!Tick, HP!Tick, Balances!Change, HP!Change, Balances!Hit, HP!Hit,
           Balances!Read, HP!Read, Balances!SkipCount, HP!SkipCount
  <1>4. Balances!TypeOK <=> HP!TypeOK
    BY DEF Balances!TypeOK, HP!TypeOK
  <1>5. Balances!AnswersWereTrue <=> HP!AnswersWereTrue
    BY DEF Balances!AnswersWereTrue, HP!AnswersWereTrue
  <1>6. Balances!TopHoldersSound <=> HP!TopHoldersSound
    BY DEF Balances!TopHoldersSound, HP!TopHoldersSound
  <1> QED BY <1>1, <1>2, <1>3, <1>4, <1>5, <1>6

\* The invariant of both services: while events are asked for no answer about balances is given.
ServiceInv ==
  /\ EventsInv /\ HP!IInv
  /\ service \in {"events", "balances"} /\ (service = "events" => answer = None)

LEMMA ServiceInit ==
  ASSUME NewQueryService
  PROVE  ServiceInv
  <1>1. EventsInv /\ service \in {"events", "balances"}
    BY EventsInit DEF NewQueryService
  <1>2. HP!Init /\ HP!WellFormed
    BY SameBalances, BalancesAssumption DEF NewQueryService
  <1>3. HP!IInv
    BY <1>2, HP!IInvInit
  <1>4. answer = None
    BY <1>2 DEF HP!Init
  <1> QED BY <1>1, <1>3, <1>4 DEF ServiceInv

\* Either service rests while the other is called, but for the clock.
LEMMA ServiceStep ==
  ASSUME ServiceInv, [Calls]_serviceVars
  PROVE  ServiceInv'
  <1>1. now \in 0 .. MaxTime /\ MaxTime \in Nat /\ now \in now .. MaxTime /\ HP!WellFormed
    BY LimitsAssumption, SameBalances, BalancesAssumption DEF ServiceInv, EventsInv, Typed, TypeOK
  <1>2. CASE QueryEvents
    <2>1. Next /\ service = "events" /\ UNCHANGED <<service, table, holderCache, past, api, answer>>
      BY <1>2 DEF QueryEvents, balanceVars
    <2>2. EventsInv'
      BY <2>1, EventsStep DEF ServiceInv
    <2>3. now' \in now .. MaxTime
      BY <1>1, <2>1 DEF Next, Tick, Insert, Begin, Refuse, QueryEventsByUser, QueryEventsByPoolHit, QueryEventsByPool,
                        OtherQueryEventsByPool, QueryOneSide, ReadSide, QueryTransferEvents, QueryEventsByIDs
    <2>4. answer' = None
      BY <2>1 DEF ServiceInv
    <2>5. HP!IInv'
      BY <1>1, <2>1, <2>3, <2>4, HP!ClockStep DEF ServiceInv
    <2> QED BY <2>1, <2>2, <2>4, <2>5 DEF ServiceInv
  <1>3. CASE QueryBalances
    <2>1. HP!Next /\ service = "balances" /\ UNCHANGED <<service, storedAt, pages, session>>
      BY <1>3, SameBalances DEF QueryBalances
    <2>2. HP!IInv'
      BY <1>1, <2>1, HP!IInvStep DEF ServiceInv
    <2>3. now' \in now .. MaxTime
      <3>1. HP!Tick \/ now' = now
        BY <2>1, Zenon DEF HP!Next, HP!Change, HP!Hit, HP!Read, HP!SkipCount
      <3> QED BY <1>1, <3>1 DEF HP!Tick
    <2>4. EventsInv'
      BY <2>1, <2>3, WaitKeeps DEF ServiceInv
    <2> QED BY <2>1, <2>2, <2>4 DEF ServiceInv
  <1>4. CASE UNCHANGED serviceVars
    <2>1. UNCHANGED <<vars, service, table, holderCache, past, api, answer>>
      BY <1>4 DEF serviceVars, balanceVars
    <2>2. EventsInv'
      BY <2>1, EventsStep DEF ServiceInv
    <2>3. now' = now
      BY <2>1 DEF vars
    <2>4. HP!IInv'
      BY <1>1, <2>1, <2>3, HP!IInvStep DEF ServiceInv, HP!vars
    <2> QED BY <2>1, <2>2, <2>4 DEF ServiceInv
  <1> QED BY <1>2, <1>3, <1>4 DEF Calls

\* The invariant holds in every state of the service.
THEOREM Inductive == ServiceSpec => []ServiceInv
  <1>1. NewQueryService => ServiceInv
    BY ServiceInit
  <1>2. ServiceInv /\ [Calls]_serviceVars => ServiceInv'
    BY ServiceStep
  <1> QED BY <1>1, <1>2, PTL DEF ServiceSpec

\* The variables of both services have their types.
THEOREM TypeCorrect == ServiceSpec => []ServiceTypeOK
  <1>1. ServiceInv => ServiceTypeOK
    <2> SUFFICES ASSUME ServiceInv PROVE ServiceTypeOK
      OBVIOUS
    <2>1. TypeOK
      BY EventsSuffice DEF ServiceInv
    <2>2. Balances!TypeOK
      BY SameBalances, BalancesAssumption, HP!IInvSuffices DEF ServiceInv
    <2> QED BY <2>1, <2>2 DEF ServiceTypeOK, ServiceInv
  <1> QED BY <1>1, Inductive, PTL

\* Paging misses nothing that was in the table when the client began, whatever is written,
\* cached by other clients or fails in between (query_by_user.go, query_by_pool.go,
\* query_transfer_event.go).
THEOREM PagingComplete == ServiceSpec => []NothingMissed
  <1>1. ServiceInv => NothingMissed
    BY EventsSuffice DEF ServiceInv
  <1> QED BY <1>1, Inductive, PTL

\* Nothing is delivered twice, nor what was not asked for.
THEOREM PagingDown == ServiceSpec => []PagesDescend
  <1>1. ServiceInv => PagesDescend
    BY EventsSuffice DEF ServiceInv
  <1> QED BY <1>1, Inductive, PTL

\* An answer tells what the producer sent (chain_event_builder.go, transfer_event_builder.go,
\* token_mapper.go, query_by_ids.go).
THEOREM EventsTold == ServiceSpec => []AnswersFaithful
  <1>1. ServiceInv => AnswersFaithful
    BY EventsSuffice DEF ServiceInv
  <1> QED BY <1>1, Inductive, PTL

\* An answer about balances was true at one moment of its TTL (query_by_owner.go,
\* query_holder_count.go).
THEOREM BalancesTrue == ServiceSpec => []AnswersWereTrue
  <1>1. ServiceInv => AnswersWereTrue
    BY SameBalances, BalancesAssumption, HP!IInvSuffices DEF ServiceInv, AnswersWereTrue
  <1> QED BY <1>1, Inductive, PTL

\* The list of top holders was right at one moment of its TTL (query_top_holders.go).
THEOREM HoldersSound == ServiceSpec => []TopHoldersSound
  <1>1. ServiceInv => TopHoldersSound
    BY SameBalances, BalancesAssumption, HP!IInvSuffices DEF ServiceInv, TopHoldersSound
  <1> QED BY <1>1, Inductive, PTL
===============================================================================
