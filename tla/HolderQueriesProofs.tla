-------------------------- MODULE HolderQueriesProofs --------------------------
(***************************************************************************)
(* Proofs about HolderQueries, for any accounts, owners, tokens, limits    *)
(* and times: sums of balances, what a list of top holders says of the     *)
(* table it was read from, and that every answer was true at one moment of *)
(* its TTL.  QueryServiceProofs takes them over for the service.           *)
(***************************************************************************)
EXTENDS HolderQueries, FiniteSetTheorems, SequenceTheorems, WellFoundedInduction, TLAPS

-----------------------------------------------------------------------------
(* Finite sets                                                              *)

\* A non-empty set of subsets of a finite set has one from which no element can be taken away.
LEMMA MinimalSet ==
  ASSUME NEW S, IsFiniteSet(S), NEW X \in SUBSET (SUBSET S), X # {}
  PROVE  \E U \in X : IsFiniteSet(U) /\ \A a \in U : U \ {a} \notin X
  <1> DEFINE N == {Cardinality(U) : U \in X}
  <1>1. \A U \in X : IsFiniteSet(U) /\ Cardinality(U) \in Nat
    BY FS_Subset, FS_CardinalityType
  <1>2. N # {} /\ N \in SUBSET Nat
    BY <1>1
  <1>3. PICK n \in N : \A m \in N : ~(<<m, n>> \in OpToRel(<, Nat))
    <2> HIDE DEF N
    <2> QED BY <1>2, NatLessThanWellFounded, WFMin
  <1>4. PICK U \in X : n = Cardinality(U)
    BY <1>3
  <1>5. \A m \in N : ~(m < n)
    BY <1>2, <1>3, Zenon DEF OpToRel
  <1>6. ASSUME NEW a \in U, U \ {a} \in X PROVE FALSE
    <2>1. Cardinality(U \ {a}) = n - 1
      BY <1>1, <1>4, FS_RemoveElement
    <2>2. n - 1 \in N
      BY <1>6, <2>1
    <2>3. n \in Nat /\ n - 1 < n
      BY <1>1, <1>4
    <2> HIDE DEF N
    <2> QED BY <1>5, <2>2, <2>3
  <1> QED BY <1>1, <1>4, <1>6

\* A set with as many elements as one it lies in is that set.
LEMMA SameSize ==
  ASSUME NEW S, IsFiniteSet(S), NEW U \in SUBSET S, Cardinality(U) >= Cardinality(S)
  PROVE  U = S
  <1>1. IsFiniteSet(U) /\ Cardinality(U) <= Cardinality(S) /\ Cardinality(U) \in Nat /\ Cardinality(S) \in Nat
    BY FS_Subset, FS_CardinalityType
  <1>2. Cardinality(U) = Cardinality(S)
    BY <1>1
  <1> QED BY <1>2, FS_Subset

-----------------------------------------------------------------------------
(* Sums                                                                     *)

Some(U) == CHOOSE a \in U : TRUE

\* The recursion of Sum, over a family of sets.
Adds(T, g, D) ==
  g = [U \in D |-> IF U = {} THEN 0 ELSE T[Some(U)].balance + g[U \ {Some(U)}]]
Adder(T, S) == CHOOSE g : Adds(T, g, SUBSET S)

\* The recursion has a solution.
LEMMA AdderExists ==
  ASSUME NEW T, NEW S, IsFiniteSet(S)
  PROVE  \E g : Adds(T, g, SUBSET S)
  <1> DEFINE D(n) == {U \in SUBSET S : Cardinality(U) <= n}
             Bad == {n \in Nat : ~ \E g : Adds(T, g, D(n))}
             size == Cardinality(S)
  <1>1. \A U \in SUBSET S : IsFiniteSet(U) /\ Cardinality(U) \in Nat /\ Cardinality(U) <= size
    BY FS_Subset, FS_CardinalityType
  <1>2. size \in Nat /\ D(size) = SUBSET S
    BY <1>1
  <1>3. ASSUME NEW n \in Nat, n \in Bad PROVE n # 0 /\ n - 1 \in Bad
    <2>1. n # 0
      <3> SUFFICES ASSUME n = 0 PROVE FALSE
        OBVIOUS
      <3>1. \A U \in D(0) : U = {}
        BY <1>1, FS_EmptySet
      <3> DEFINE g == [U \in D(0) |-> 0]
      <3>2. Adds(T, g, D(0))
        BY <3>1 DEF Adds
      <3> QED BY <1>3, <3>2
    <2>2. SUFFICES ASSUME NEW g, Adds(T, g, D(n - 1)) PROVE FALSE
      <3>1. n - 1 \in Nat
        BY <2>1
      <3>2. n - 1 \in Bad <=> ~ \E g : Adds(T, g, D(n - 1))
        BY <3>1
      <3> HIDE DEF Bad, D
      <3> QED BY <2>1, <3>2
    <2> DEFINE h == [U \in D(n) |-> IF U = {} THEN 0 ELSE T[Some(U)].balance + g[U \ {Some(U)}]]
    <2>3. \A V \in D(n - 1) : V \in D(n) /\ h[V] = g[V]
      <3>1. \A V \in D(n - 1) : V \in D(n)
        BY <1>1
      <3>2. \A V \in D(n - 1) : g[V] = IF V = {} THEN 0 ELSE T[Some(V)].balance + g[V \ {Some(V)}]
        <4> HIDE DEF D
        <4> QED BY <2>2 DEF Adds
      <3> HIDE DEF D
      <3> QED BY <3>1, <3>2
    <2>4. \A U \in D(n) : U # {} => U \ {Some(U)} \in D(n - 1)
      <3> SUFFICES ASSUME NEW U \in D(n), U # {} PROVE U \ {Some(U)} \in D(n - 1)
        OBVIOUS
      <3>1. Some(U) \in U
        BY DEF Some
      <3>2. Cardinality(U \ {Some(U)}) = Cardinality(U) - 1
        BY <1>1, <3>1, FS_RemoveElement
      <3> QED BY <1>1, <3>2
    <2>5. Adds(T, h, D(n))
      <3> HIDE DEF D
      <3>1. \A U \in D(n) : h[U] = IF U = {} THEN 0 ELSE T[Some(U)].balance + h[U \ {Some(U)}]
        BY <2>3, <2>4
      <3>2. h = [U \in D(n) |-> h[U]]
        OBVIOUS
      <3> HIDE DEF h
      <3> QED BY <3>1, <3>2 DEF Adds
    <2> HIDE DEF h
    <2> QED BY <1>3, <2>5
  <1>4. Bad = {}
    <2> SUFFICES ASSUME Bad # {} PROVE FALSE
      OBVIOUS
    <2>1. Bad \in SUBSET Nat
      OBVIOUS
    <2> HIDE DEF Bad
    <2>2. PICK n \in Bad : \A m \in Bad : ~(<<m, n>> \in OpToRel(<, Nat))
      BY <2>1, NatLessThanWellFounded, WFMin
    <2>3. n \in Nat /\ \A m \in Bad : ~(m < n)
      BY <2>1, <2>2, Zenon DEF OpToRel
    <2>4. n - 1 \in Bad
      BY <1>3, <2>2, <2>3
    <2>5. n - 1 < n
      BY <2>3
    <2> QED BY <2>3, <2>4, <2>5
  <1> QED BY <1>2, <1>4

\* What the recursion computes, ...
LEMMA AdderStep ==
  ASSUME NEW T, NEW S, IsFiniteSet(S), NEW U \in SUBSET S
  PROVE  Adder(T, S)[U] = IF U = {} THEN 0 ELSE T[Some(U)].balance + Adder(T, S)[U \ {Some(U)}]
  <1>1. Adds(T, Adder(T, S), SUBSET S)
    BY AdderExists DEF Adder
  <1> QED BY <1>1 DEF Adds

\* ... whatever set it starts from.
LEMMA AddersAgree ==
  ASSUME NEW T, NEW S, IsFiniteSet(S), NEW V \in SUBSET S, NEW U \in SUBSET V
  PROVE  Adder(T, S)[U] = Adder(T, V)[U]
  <1> DEFINE X == {W \in SUBSET V : Adder(T, S)[W] # Adder(T, V)[W]}
  <1>1. IsFiniteSet(V)
    BY FS_Subset
  <1>2. SUFFICES ASSUME X # {} PROVE FALSE
    OBVIOUS
  <1>3. X \in SUBSET (SUBSET V)
    OBVIOUS
  <1> HIDE DEF X
  <1>4. PICK W \in X : \A a \in W : W \ {a} \notin X
    BY <1>1, <1>2, <1>3, MinimalSet
  <1>5. W \in SUBSET V /\ W \in SUBSET S
    BY <1>3
  <1>6. Adder(T, S)[W] = IF W = {} THEN 0 ELSE T[Some(W)].balance + Adder(T, S)[W \ {Some(W)}]
    BY <1>5, AdderStep
  <1>7. Adder(T, V)[W] = IF W = {} THEN 0 ELSE T[Some(W)].balance + Adder(T, V)[W \ {Some(W)}]
    <2>1. ASSUME NEW Z, IsFiniteSet(Z), NEW Y \in SUBSET Z
          PROVE  Adder(T, Z)[Y] = IF Y = {} THEN 0 ELSE T[Some(Y)].balance + Adder(T, Z)[Y \ {Some(Y)}]
      BY <2>1, AdderStep
    <2> QED BY <1>1, <1>5, <2>1, Zenon
  <1>8. W # {} => Adder(T, S)[W \ {Some(W)}] = Adder(T, V)[W \ {Some(W)}]
    <2>1. W # {} => Some(W) \in W
      BY DEF Some
    <2> QED BY <1>4, <1>5, <2>1 DEF X
  <1> QED BY <1>4, <1>6, <1>7, <1>8 DEF X

\* A sum is a balance and the sum of the others.
LEMMA SumStep ==
  ASSUME NEW T, NEW S, IsFiniteSet(S)
  PROVE  Sum(T, S) = IF S = {} THEN 0 ELSE T[Some(S)].balance + Sum(T, S \ {Some(S)})
  <1>1. ASSUME NEW V PROVE Sum(T, V) = Adder(T, V)[V]
    BY DEF Sum, Adder, Adds, Some
  <1>2. S \ {Some(S)} \in SUBSET S
    OBVIOUS
  <1>3. Adder(T, S)[S \ {Some(S)}] = Adder(T, S \ {Some(S)})[S \ {Some(S)}]
    BY <1>2, AddersAgree
  <1> QED BY <1>1, <1>3, AdderStep

\* Accounts whose balances are numbers.
Balanced(T, S) == IsFiniteSet(S) /\ \A a \in S : T[a].balance \in Nat

\* Sums are numbers.
LEMMA SumTyped ==
  ASSUME NEW T, NEW S, Balanced(T, S)
  PROVE  Sum(T, S) \in Nat
  <1> DEFINE X == {W \in SUBSET S : Sum(T, W) \notin Nat}
  <1>1. SUFFICES ASSUME X # {} PROVE FALSE
    OBVIOUS
  <1>2. X \in SUBSET (SUBSET S)
    OBVIOUS
  <1> HIDE DEF X
  <1>3. PICK W \in X : IsFiniteSet(W) /\ \A a \in W : W \ {a} \notin X
    BY <1>1, <1>2, MinimalSet DEF Balanced
  <1>4. Sum(T, W) = IF W = {} THEN 0 ELSE T[Some(W)].balance + Sum(T, W \ {Some(W)})
    BY <1>3, SumStep
  <1>5. W # {} => Some(W) \in W
    BY DEF Some
  <1>6. W # {} => T[Some(W)].balance \in Nat /\ Sum(T, W \ {Some(W)}) \in Nat
    BY <1>2, <1>3, <1>5 DEF X, Balanced
  <1> QED BY <1>4, <1>6 DEF X

\* The order in which balances are added does not matter.
LEMMA SumRemove ==
  ASSUME NEW T, NEW S, Balanced(T, S), NEW b \in S
  PROVE  Sum(T, S) = T[b].balance + Sum(T, S \ {b})
  <1> DEFINE Splits(W, c) == Sum(T, W) = T[c].balance + Sum(T, W \ {c})
             X == {W \in SUBSET S : \E c \in W : ~Splits(W, c)}
  <1>1. SUFFICES ASSUME X # {} PROVE FALSE
    OBVIOUS
  <1>2. X \in SUBSET (SUBSET S)
    OBVIOUS
  <1>3. PICK W \in X : IsFiniteSet(W) /\ \A a \in W : W \ {a} \notin X
    <2> HIDE DEF X
    <2> QED BY <1>1, <1>2, MinimalSet DEF Balanced
  <1>4. PICK c \in W : ~Splits(W, c)
    BY <1>3
  <1> DEFINE d == Some(W)
  <1>5. d \in W
    BY <1>4 DEF Some
  <1>6. Splits(W, d)
    BY <1>3, <1>5, SumStep
  <1>7. c # d
    BY <1>4, <1>6
  <1>8. Splits(W \ {d}, c) /\ Splits(W \ {c}, d)
    BY <1>3, <1>4, <1>5, <1>7
  <1>9. (W \ {c}) \ {d} = (W \ {d}) \ {c}
    OBVIOUS
  <1> DEFINE rest == Sum(T, (W \ {d}) \ {c})
  <1>10. Sum(T, W) = T[d].balance + (T[c].balance + rest) /\ Sum(T, W \ {c}) = T[d].balance + rest
    BY <1>6, <1>8, <1>9
  <1>11. rest \in Nat /\ T[c].balance \in Nat /\ T[d].balance \in Nat
    <2>1. Balanced(T, (W \ {d}) \ {c})
      BY <1>2, <1>3, FS_Subset DEF Balanced
    <2>2. rest \in Nat
      BY <2>1, SumTyped
    <2> HIDE DEF rest, d
    <2> QED BY <1>2, <1>4, <1>5, <2>2 DEF Balanced
  <1> HIDE DEF rest, d
  <1>12. Sum(T, W) = T[c].balance + Sum(T, W \ {c})
    BY <1>10, <1>11
  <1> QED BY <1>4, <1>12

\* More accounts hold no less.
LEMMA SumMonotone ==
  ASSUME NEW T, NEW S, Balanced(T, S), NEW V \in SUBSET S
  PROVE  Sum(T, V) <= Sum(T, S)
  <1> DEFINE X == {W \in SUBSET S : V \subseteq W /\ ~(Sum(T, V) <= Sum(T, W))}
  <1>1. SUFFICES ASSUME X # {} PROVE FALSE
    OBVIOUS
  <1>2. X \in SUBSET (SUBSET S)
    OBVIOUS
  <1>3. PICK W \in X : IsFiniteSet(W) /\ \A a \in W : W \ {a} \notin X
    <2> HIDE DEF X
    <2> QED BY <1>1, <1>2, MinimalSet DEF Balanced
  <1>4. Balanced(T, W) /\ Balanced(T, V)
    BY <1>3, FS_Subset DEF Balanced
  <1>5. Sum(T, V) \in Nat
    BY <1>4, SumTyped
  <1>6. PICK a \in W : a \notin V
    BY <1>3, <1>5
  <1>7. Sum(T, W) = T[a].balance + Sum(T, W \ {a})
    BY <1>4, <1>6, SumRemove
  <1>8. Balanced(T, W \ {a})
    BY <1>4, FS_RemoveElement DEF Balanced
  <1>9. Sum(T, W \ {a}) \in Nat /\ T[a].balance \in Nat
    BY <1>4, <1>6, <1>8, SumTyped DEF Balanced
  <1>10. Sum(T, V) <= Sum(T, W \ {a})
    BY <1>3, <1>6
  <1>11. Sum(T, V) <= Sum(T, W)
    BY <1>5, <1>7, <1>9, <1>10
  <1> QED BY <1>3, <1>11

\* An account holds no more than all of them.
LEMMA SumMember ==
  ASSUME NEW T, NEW S, Balanced(T, S), NEW a \in S
  PROVE  T[a].balance <= Sum(T, S)
  <1>1. Sum(T, S) = T[a].balance + Sum(T, S \ {a})
    BY SumRemove
  <1>2. Balanced(T, S \ {a})
    BY FS_RemoveElement DEF Balanced
  <1>3. Sum(T, S \ {a}) \in Nat /\ T[a].balance \in Nat
    BY <1>2, SumTyped DEF Balanced
  <1> QED BY <1>1, <1>3
-----------------------------------------------------------------------------
(* The top of a set                                                         *)

\* The length of a sequence is that of its domain.
LEMMA LenOf ==
  ASSUME NEW n \in Nat, NEW s, s = [i \in 1 .. n |-> s[i]]
  PROVE  Len(s) = n
  <1> DEFINE S == {s[i] : i \in 1 .. n}
  <1>1. s \in [1 .. n -> S]
    OBVIOUS
  <1>2. s \in Seq(S)
    BY <1>1, SeqDef
  <1>3. Len(s) \in Nat /\ 1 .. Len(s) = 1 .. n
    BY <1>1, <1>2, LenProperties
  <1> QED BY <1>3

\* As many different elements as places.
LEMMA DifferentElements ==
  ASSUME NEW n \in Nat, NEW S, NEW s \in [1 .. n -> S], \A i, j \in 1 .. n : i < j => s[i] # s[j]
  PROVE  IsFiniteSet({s[i] : i \in 1 .. n}) /\ Cardinality({s[i] : i \in 1 .. n}) = n
  <1> DEFINE R == {s[i] : i \in 1 .. n}
  <1>1. s \in Surjection(1 .. n, R)
    BY DEF Surjection
  <1>2. \A i, j \in 1 .. n : s[i] = s[j] => i = j
    OBVIOUS
  <1>3. s \in Injection(1 .. n, R)
    BY <1>2 DEF Injection, IsInjective
  <1>4. IsFiniteSet(1 .. n) /\ Cardinality(1 .. n) = n
    BY FS_Interval
  <1> HIDE DEF R
  <1>5. IsFiniteSet(R) /\ Cardinality(R) = Cardinality(1 .. n)
    BY <1>1, <1>3, <1>4, FS_Surjection
  <1> QED BY <1>4, <1>5 DEF R

\* The number of rows read.
LEMMA LeastTyped ==
  ASSUME NEW a \in Nat, NEW b \in Nat
  PROVE  Least(a, b) \in Nat /\ Least(a, b) <= a /\ Least(a, b) <= b /\ (b <= a => Least(a, b) = b)
  BY DEF Least

\* The elements of a sequence.
Elems(s) == {s[i] : i \in DOMAIN s}

\* ORDER BY f DESC LIMIT n, of rows that are not too many, reads them all.
LEMMA TopRead ==
  ASSUME NEW S, IsFiniteSet(S), NEW f, NEW n \in Nat, NEW s \in TopOf(S, f, n)
  PROVE  LET m == Least(n, Cardinality(S))
         IN  /\ m \in 0 .. n /\ DOMAIN s = 1 .. m /\ s \in [1 .. m -> S]
             /\ \A i, j \in 1 .. m : i < j => s[i] # s[j] /\ f[s[i]] >= f[s[j]]
             /\ \A x \in S : (\E i \in 1 .. m : s[i] = x) \/ (\A i \in 1 .. m : f[s[i]] >= f[x])
             /\ Cardinality(Elems(s)) = m
             /\ Cardinality(S) <= n => Elems(s) = S
  <1> DEFINE m == Least(n, Cardinality(S))
  <1>1. m \in 0 .. n /\ (Cardinality(S) <= n => m = Cardinality(S))
    BY FS_CardinalityType, LeastTyped
  <1>2. DOMAIN s = 1 .. m /\ s \in [1 .. m -> S]
    BY DEF TopOf
  <1>3. \A i, j \in 1 .. m : i < j => s[i] # s[j] /\ f[s[i]] >= f[s[j]]
    BY <1>2, Zenon DEF TopOf
  <1>4. \A x \in S : (\E i \in 1 .. m : s[i] = x) \/ (\A i \in 1 .. m : f[s[i]] >= f[x])
    BY <1>2, Zenon DEF TopOf
  <1> HIDE DEF m
  <1>5. Cardinality({s[i] : i \in 1 .. m}) = m
    <2>1. m \in Nat
      BY <1>1
    <2>2. \A i, j \in 1 .. m : i < j => s[i] # s[j]
      BY <1>3
    <2> QED BY <1>2, <2>1, <2>2, DifferentElements
  <1>6. Cardinality(S) <= n => {s[i] : i \in 1 .. m} = S
    <2> DEFINE R == {s[i] : i \in 1 .. m}
    <2>1. R \in SUBSET S
      BY <1>2
    <2>2. Cardinality(S) <= n => Cardinality(R) = Cardinality(S)
      BY <1>1, <1>5
    <2> HIDE DEF R
    <2>3. Cardinality(S) <= n => R = S
      BY <2>1, <2>2, FS_Subset
    <2> QED BY <2>3 DEF R
  <1> QED BY <1>1, <1>2, <1>3, <1>4, <1>5, <1>6 DEF m, Elems
-----------------------------------------------------------------------------
(* The list of top holders                                                  *)

Table == [Accounts -> Rows \union {None}]

\* The rows of a table.
LEMMA RowsTyped ==
  ASSUME WellFormed, NEW T \in Table
  PROVE  /\ IsFiniteSet(AccountsOf(T)) /\ AccountsOf(T) \subseteq Accounts
         /\ \A a \in AccountsOf(T) : T[a] \in Row /\ T[a].owner \in Owners /\ T[a].token \in Tokens /\ T[a].balance \in 1 .. Wrap - 1
  <1>1. IsFiniteSet(AccountsOf(T)) /\ AccountsOf(T) \subseteq Accounts
    BY FS_Subset DEF WellFormed, AccountsOf
  <1>2. \A a \in AccountsOf(T) : T[a] \in Row
    BY DEF WellFormed, AccountsOf, Table
  <1> QED BY <1>1, <1>2 DEF Row

\* Any of them can be added up.
LEMMA AnyBalanced ==
  ASSUME WellFormed, NEW T \in Table, NEW S \in SUBSET AccountsOf(T)
  PROVE  Balanced(T, S)
  <1>1. IsFiniteSet(S)
    BY RowsTyped, FS_Subset
  <1>2. \A a \in S : T[a].balance \in Nat
    BY RowsTyped DEF WellFormed
  <1> QED BY <1>1, <1>2 DEF Balanced

\* The accounts of an owner among those read.
Of(T, F, o) == {a \in F : T[a].owner = o}

\* What holderMap has for each owner, if the supply fits.
LEMMA HolderMapTyped ==
  ASSUME WellFormed, NEW T \in Table, NEW F \in SUBSET AccountsOf(T)
  PROVE  /\ DOMAIN HolderMap(T, F) = {T[a].owner : a \in F} /\ DOMAIN HolderMap(T, F) \subseteq Owners
         /\ IsFiniteSet(DOMAIN HolderMap(T, F))
         /\ \A o \in DOMAIN HolderMap(T, F) :
              /\ HolderMap(T, F)[o] \in 0 .. Wrap - 1
              /\ Sum(T, F) < Wrap => HolderMap(T, F)[o] = Sum(T, Of(T, F, o))
  <1> DEFINE h == HolderMap(T, F)
  <1>1. h = [o \in {T[a].owner : a \in F} |-> Sum(T, Of(T, F, o)) % Wrap]
    BY DEF HolderMap, Of
  <1> HIDE DEF h
  <1>2. DOMAIN h = {T[a].owner : a \in F}
    BY <1>1
  <1>3. DOMAIN h \subseteq Owners
    BY <1>2, RowsTyped
  <1>4. IsFiniteSet(DOMAIN h)
    <2>1. IsFiniteSet(F)
      BY AnyBalanced DEF Balanced
    <2> DEFINE g == [a \in F |-> T[a].owner]
    <2>2. g \in Surjection(F, DOMAIN h)
      BY <1>2 DEF Surjection
    <2> HIDE DEF g
    <2> QED BY <2>1, <2>2, FS_Surjection
  <1>5. ASSUME NEW o \in DOMAIN h
        PROVE  h[o] \in 0 .. Wrap - 1 /\ (Sum(T, F) < Wrap => h[o] = Sum(T, Of(T, F, o)))
    <2>1. h[o] = Sum(T, Of(T, F, o)) % Wrap
      BY <1>1, <1>2
    <2>2. Balanced(T, Of(T, F, o)) /\ Balanced(T, F) /\ Of(T, F, o) \in SUBSET F
      BY AnyBalanced DEF Of
    <2>3. Sum(T, Of(T, F, o)) \in Nat /\ Sum(T, F) \in Nat /\ Sum(T, Of(T, F, o)) <= Sum(T, F)
      BY <2>2, SumTyped, SumMonotone
    <2>4. Wrap \in Nat \ {0}
      BY DEF WellFormed
    <2>5. ASSUME NEW x \in Nat, NEW y \in Nat, x <= y PROVE x % Wrap \in 0 .. Wrap - 1 /\ (y < Wrap => x % Wrap = x)
      BY <2>4, <2>5
    <2> QED BY <2>1, <2>3, <2>5
  <1> QED BY <1>2, <1>3, <1>4, <1>5 DEF h

\* The limits of a request.
LEMMA LimitsTyped ==
  ASSUME WellFormed, NEW r \in TokenTopReq
  PROVE  LimitOf(r) \in Nat \ {0} /\ FetchLimit(r) \in Nat
  <1>1. LimitOf(r) \in Nat \ {0}
    BY DEF WellFormed, TokenTopReq, LimitOf
  <1>2. LimitOf(r) * Extra[1] \in Nat /\ Extra[2] \in Nat \ {0}
    BY <1>1 DEF WellFormed
  <1>3. ASSUME NEW x \in Nat, NEW y \in Nat \ {0} PROVE x \div y \in Nat
    OBVIOUS
  <1> QED BY <1>1, <1>2, <1>3 DEF FetchLimit

\* What TopHoldersSound says of a table and a list.
RightAbout(T, r, list) ==
  LET held(o) == {a \in Accounts : T[a] # None /\ T[a].owner = o /\ T[a].token = r.token}
      accounts == UNION {held(o) : o \in Owners}
      holders == {o \in Owners : held(o) # {}}
      listed == {list[i].owner : i \in DOMAIN list}
  IN  Sum(T, accounts) < Wrap =>
        /\ Len(list) <= LimitOf(r) /\ Cardinality(listed) = Len(list)
        /\ \A i \in DOMAIN list :
             /\ \A j \in 1 .. i : list[j].balance >= list[i].balance
             /\ \A a \in held(list[i].owner) : list[i].balance >= T[a].balance
             /\ list[i].balance <= Sum(T, held(list[i].owner))
        /\ \A o \in holders \ listed : \A a \in held(o), i \in DOMAIN list : T[a].balance <= list[i].balance
        /\ Cardinality(accounts) <= FetchLimit(r) =>
             /\ Len(list) = Least(LimitOf(r), Cardinality(holders))
             /\ \A i \in DOMAIN list : list[i].balance = Sum(T, held(list[i].owner))
             /\ \A o \in holders \ listed, i \in DOMAIN list : Sum(T, held(o)) <= list[i].balance

Amount(T) == [a \in Accounts |-> IF T[a] = None THEN 0 ELSE T[a].balance]

\* A list and what was read for it.
ListOf(T, r, s, l, list) ==
  LET h == HolderMap(T, Elems(s))
  IN  /\ s \in TopOf(OfToken(T, r.token), Amount(T), FetchLimit(r))
      /\ l \in TopOf(DOMAIN h, h, LimitOf(r))
      /\ list = [i \in DOMAIN l |-> [owner |-> l[i], balance |-> h[l[i]]]]

\* Every list comes from such a read.
LEMMA ListRead ==
  ASSUME NEW T, NEW r, NEW list \in TopHolders(T, r)
  PROVE  \E s, l : ListOf(T, r, s, l, list)
  <1> DEFINE fetches == TopOf(OfToken(T, r.token), Amount(T), FetchLimit(r))
             h(s) == HolderMap(T, Elems(s))
             lists(s) == {[i \in DOMAIN l |-> [owner |-> l[i], balance |-> h(s)[l[i]]]] :
                            l \in TopOf(DOMAIN h(s), h(s), LimitOf(r))}
  <1>1. list \in UNION {lists(s) : s \in fetches}
    BY DEF TopHolders, Amount, Elems
  <1>2. PICK s \in fetches : list \in lists(s)
    <2> HIDE DEF fetches, lists
    <2> QED BY <1>1
  <1>3. PICK l \in TopOf(DOMAIN h(s), h(s), LimitOf(r)) :
          list = [i \in DOMAIN l |-> [owner |-> l[i], balance |-> h(s)[l[i]]]]
    BY <1>2
  <1> QED BY <1>2, <1>3 DEF ListOf

\* The accounts of a token.
LEMMA OfTokenTyped ==
  ASSUME WellFormed, NEW T \in Table, NEW t
  PROVE  /\ OfToken(T, t) \in SUBSET AccountsOf(T) /\ IsFiniteSet(OfToken(T, t))
         /\ \A a \in OfToken(T, t) : Amount(T)[a] = T[a].balance
  <1>1. OfToken(T, t) \in SUBSET AccountsOf(T)
    BY DEF OfToken
  <1>2. IsFiniteSet(OfToken(T, t))
    BY <1>1, RowsTyped, FS_Subset
  <1>3. \A a \in OfToken(T, t) : Amount(T)[a] = T[a].balance
    BY DEF OfToken, AccountsOf, Amount
  <1> QED BY <1>1, <1>2, <1>3

\* What the two readings that make a list are, and what the list is.
LEMMA ListFacts ==
  ASSUME WellFormed, NEW T \in Table, NEW r \in TokenTopReq, NEW s, NEW l, NEW list, ListOf(T, r, s, l, list)
  PROVE  LET S == OfToken(T, r.token)
             F == Elems(s)
             h == HolderMap(T, F)
             n == Least(LimitOf(r), Cardinality(DOMAIN h))
         IN  /\ F \in SUBSET S /\ F \in SUBSET AccountsOf(T)
             /\ \A a \in S \ F, b \in F : T[b].balance >= T[a].balance
             /\ Cardinality(S) <= FetchLimit(r) => F = S
             /\ n \in 0 .. LimitOf(r) /\ l \in [1 .. n -> DOMAIN h] /\ DOMAIN list = 1 .. n /\ Len(list) = n
             /\ \A i \in 1 .. n : list[i] = [owner |-> l[i], balance |-> h[l[i]]]
             /\ \A i, j \in 1 .. n : i < j => h[l[i]] >= h[l[j]]
             /\ \A o \in DOMAIN h : (\E i \in 1 .. n : l[i] = o) \/ (\A i \in 1 .. n : h[l[i]] >= h[o])
             /\ Cardinality(Elems(l)) = n
  <1> DEFINE S == OfToken(T, r.token)
             F == Elems(s)
             h == HolderMap(T, F)
             n == Least(LimitOf(r), Cardinality(DOMAIN h))
             m == Least(FetchLimit(r), Cardinality(S))
             f == Amount(T)
  <1>1. /\ s \in TopOf(S, f, FetchLimit(r)) /\ l \in TopOf(DOMAIN h, h, LimitOf(r))
        /\ list = [i \in DOMAIN l |-> [owner |-> l[i], balance |-> h[l[i]]]]
    BY DEF ListOf
  <1>2. LimitOf(r) \in Nat /\ FetchLimit(r) \in Nat
    BY LimitsTyped
  <1>3. S \in SUBSET AccountsOf(T) /\ IsFiniteSet(S) /\ \A a \in S : f[a] = T[a].balance
    BY OfTokenTyped
  <1>4. /\ DOMAIN s = 1 .. m /\ s \in [1 .. m -> S]
        /\ \A x \in S : (\E i \in 1 .. m : s[i] = x) \/ (\A i \in 1 .. m : f[s[i]] >= f[x])
        /\ Cardinality(S) <= FetchLimit(r) => F = S
    <2> HIDE DEF S, f, h
    <2> QED BY <1>1, <1>2, <1>3, TopRead
  <1>5. F \in SUBSET S /\ F \in SUBSET AccountsOf(T)
    BY <1>3, <1>4 DEF Elems
  <1>6. \A a \in S \ F, b \in F : T[b].balance >= T[a].balance
    <2> HIDE DEF S, f, h, m
    <2> QED BY <1>3, <1>4 DEF Elems
  <1>7. IsFiniteSet(DOMAIN h)
    BY <1>5, HolderMapTyped
  <1>8. /\ n \in 0 .. LimitOf(r) /\ DOMAIN l = 1 .. n /\ l \in [1 .. n -> DOMAIN h]
        /\ \A i, j \in 1 .. n : i < j => l[i] # l[j] /\ h[l[i]] >= h[l[j]]
        /\ \A o \in DOMAIN h : (\E i \in 1 .. n : l[i] = o) \/ (\A i \in 1 .. n : h[l[i]] >= h[o])
        /\ Cardinality(Elems(l)) = n
    <2> HIDE DEF h
    <2> QED BY <1>1, <1>2, <1>7, TopRead, SMTT(30)
  <1>9. /\ DOMAIN list = 1 .. n /\ list = [i \in 1 .. n |-> list[i]]
        /\ \A i \in 1 .. n : list[i] = [owner |-> l[i], balance |-> h[l[i]]]
    <2> HIDE DEF h, n
    <2> QED BY <1>1, <1>8
  <1>10. Len(list) = n
    <2> HIDE DEF n
    <2>1. n \in Nat
      BY <1>2, <1>8
    <2> QED BY <1>9, <2>1, LenOf
  <1> HIDE DEF S, F, h, n, f, m
  <1> QED BY <1>4, <1>5, <1>6, <1>8, <1>9, <1>10 DEF S, F, h, n

\* The list has its type.
LEMMA TopHoldersTyped ==
  ASSUME WellFormed, NEW T \in Table, NEW r \in TokenTopReq, NEW list \in TopHolders(T, r)
  PROVE  \A i \in DOMAIN list : list[i] \in Holder
  <1>1. PICK s, l : ListOf(T, r, s, l, list)
    BY ListRead
  <1> DEFINE F == Elems(s)
             h == HolderMap(T, F)
             n == Least(LimitOf(r), Cardinality(DOMAIN h))
  <1>2. /\ F \in SUBSET AccountsOf(T) /\ l \in [1 .. n -> DOMAIN h] /\ DOMAIN list = 1 .. n
        /\ \A i \in 1 .. n : list[i] = [owner |-> l[i], balance |-> h[l[i]]]
    BY <1>1, ListFacts
  <1>3. DOMAIN h \subseteq Owners /\ \A o \in DOMAIN h : h[o] \in 0 .. Wrap - 1
    BY <1>2, HolderMapTyped
  <1> HIDE DEF h, n
  <1> QED BY <1>2, <1>3 DEF Holder

\* The list is right about the table it was read from: an owner who is listed has his
\* largest account among those read or above all that were not, and so has one who is not.
LEMMA TopHoldersRight ==
  ASSUME WellFormed, NEW T \in Table, NEW r \in TokenTopReq, NEW list \in TopHolders(T, r)
  PROVE  RightAbout(T, r, list)
  <1>1. PICK s, l : ListOf(T, r, s, l, list)
    BY ListRead
  <1> DEFINE S == OfToken(T, r.token)
             F == Elems(s)
             h == HolderMap(T, F)
             n == Least(LimitOf(r), Cardinality(DOMAIN h))
             held(o) == {a \in Accounts : T[a] # None /\ T[a].owner = o /\ T[a].token = r.token}
             accounts == UNION {held(o) : o \in Owners}
             holders == {o \in Owners : held(o) # {}}
             listed == {list[i].owner : i \in DOMAIN list}
  <1>2. /\ F \in SUBSET S /\ F \in SUBSET AccountsOf(T)
        /\ \A a \in S \ F, b \in F : T[b].balance >= T[a].balance
        /\ Cardinality(S) <= FetchLimit(r) => F = S
    BY <1>1, ListFacts
  <1>3. /\ n \in 0 .. LimitOf(r) /\ l \in [1 .. n -> DOMAIN h] /\ DOMAIN list = 1 .. n /\ Len(list) = n
        /\ \A i \in 1 .. n : list[i] = [owner |-> l[i], balance |-> h[l[i]]]
        /\ \A i, j \in 1 .. n : i < j => h[l[i]] >= h[l[j]]
        /\ \A o \in DOMAIN h : (\E i \in 1 .. n : l[i] = o) \/ (\A i \in 1 .. n : h[l[i]] >= h[o])
        /\ Cardinality(Elems(l)) = n
    BY <1>1, ListFacts
  <1>4. S \in SUBSET AccountsOf(T) /\ IsFiniteSet(S)
    BY OfTokenTyped
  <1>5. \A a \in S : T[a].owner \in Owners /\ T[a].balance \in Nat /\ a \in Accounts
    <2> HIDE DEF S
    <2> QED BY <1>4, RowsTyped DEF WellFormed
  <1>6. \A o : held(o) = Of(T, S, o)
    BY DEF OfToken, AccountsOf, Of
  <1>7. accounts = S
    <2> HIDE DEF S, held
    <2>1. \A o : held(o) \subseteq S
      BY <1>6 DEF Of
    <2>2. \A a \in S : a \in held(T[a].owner)
      BY <1>6 DEF Of
    <2> QED BY <1>5, <2>1, <2>2
  <1>8. holders = {T[a].owner : a \in S}
    <2> HIDE DEF S, held
    <2> QED BY <1>5, <1>6 DEF Of
  <1>9. DOMAIN h = {T[a].owner : a \in F} /\ DOMAIN h \subseteq Owners
    BY <1>2, HolderMapTyped
  <1>10. listed = Elems(l) /\ listed \subseteq DOMAIN h
    <2> HIDE DEF h, n
    <2>1. DOMAIN l = 1 .. n /\ \A i \in 1 .. n : list[i].owner = l[i] /\ l[i] \in DOMAIN h
      BY <1>3
    <2> QED BY <1>3, <2>1 DEF Elems
  <1> HIDE DEF S, F, n, held, accounts, holders, listed
  <1>11. SUFFICES ASSUME Sum(T, S) < Wrap
         PROVE  /\ Len(list) <= LimitOf(r) /\ Cardinality(listed) = Len(list)
                /\ \A i \in DOMAIN list :
                     /\ \A j \in 1 .. i : list[j].balance >= list[i].balance
                     /\ \A a \in held(list[i].owner) : list[i].balance >= T[a].balance
                     /\ list[i].balance <= Sum(T, held(list[i].owner))
                /\ \A o \in holders \ listed : \A a \in held(o), i \in DOMAIN list : T[a].balance <= list[i].balance
                /\ Cardinality(accounts) <= FetchLimit(r) =>
                     /\ Len(list) = Least(LimitOf(r), Cardinality(holders))
                     /\ \A i \in DOMAIN list : list[i].balance = Sum(T, held(list[i].owner))
                     /\ \A o \in holders \ listed, i \in DOMAIN list : Sum(T, held(o)) <= list[i].balance
    <2> USE DEF accounts, holders, listed, held
    <2> QED BY <1>7 DEF RightAbout
  <1>12. Balanced(T, S) /\ Balanced(T, F)
    BY <1>2, <1>4, AnyBalanced
  <1>13. Sum(T, F) < Wrap
    <2>1. Sum(T, F) <= Sum(T, S) /\ Sum(T, F) \in Nat /\ Sum(T, S) \in Nat /\ Wrap \in Nat
      BY <1>2, <1>12, SumTyped, SumMonotone DEF WellFormed
    <2> QED BY <1>11, <2>1
  <1>14. ASSUME NEW o \in DOMAIN h
         PROVE  /\ h[o] \in Nat /\ h[o] = Sum(T, Of(T, F, o)) /\ o \in Owners
                /\ \A a \in Of(T, F, o) : T[a].balance <= h[o]
                /\ h[o] <= Sum(T, Of(T, S, o))
                /\ \E b \in F : T[b].owner = o /\ T[b].balance <= h[o]
    <2>1. h[o] = Sum(T, Of(T, F, o)) /\ o \in Owners
      BY <1>2, <1>9, <1>13, <1>14, HolderMapTyped
    <2>2. Balanced(T, Of(T, F, o)) /\ Balanced(T, Of(T, S, o)) /\ Of(T, F, o) \in SUBSET Of(T, S, o)
      BY <1>2, <1>4, AnyBalanced DEF Of
    <2>3. h[o] \in Nat /\ h[o] <= Sum(T, Of(T, S, o))
      BY <2>1, <2>2, SumTyped, SumMonotone
    <2>4. \A a \in Of(T, F, o) : T[a].balance <= h[o]
      BY <2>1, <2>2, SumMember
    <2>5. \E b \in Of(T, F, o) : TRUE
      <3> HIDE DEF h
      <3> QED BY <1>9, <1>14 DEF Of
    <2>6. \E b \in F : T[b].owner = o /\ T[b].balance <= h[o]
      BY <2>4, <2>5 DEF Of
    <2> QED BY <2>1, <2>3, <2>4, <2>6
  <1> HIDE DEF h
  \* an account that was not read is no larger than what any owner has
  <1>15. ASSUME NEW a \in S \ F, NEW o \in DOMAIN h PROVE T[a].balance <= h[o]
    <2>1. PICK b \in F : T[b].owner = o /\ T[b].balance <= h[o]
      BY <1>14
    <2>2. T[b].balance >= T[a].balance /\ T[a].balance \in Nat /\ T[b].balance \in Nat /\ h[o] \in Nat
      BY <1>2, <1>5, <1>14
    <2> QED BY <2>1, <2>2
  <1>16. \A i \in 1 .. n : list[i].owner = l[i] /\ list[i].balance = h[l[i]] /\ l[i] \in DOMAIN h /\ h[l[i]] \in Nat
    BY <1>3, <1>14
  <1>17. Len(list) <= LimitOf(r) /\ Cardinality(listed) = Len(list)
    <2>1. LimitOf(r) \in Nat
      BY LimitsTyped
    <2> QED BY <1>3, <1>10, <2>1
  <1>18. n \in Nat
    <2>1. LimitOf(r) \in Nat
      BY LimitsTyped
    <2> QED BY <1>3, <2>1
  <1>19. ASSUME NEW i \in 1 .. n
         PROVE  /\ \A j \in 1 .. i : list[j].balance >= list[i].balance
                /\ \A a \in held(list[i].owner) : list[i].balance >= T[a].balance
                /\ list[i].balance <= Sum(T, held(list[i].owner))
    <2>1. \A j \in 1 .. i : list[j].balance >= list[i].balance
      BY <1>3, <1>16, <1>18
    <2>2. ASSUME NEW a \in held(l[i]) PROVE h[l[i]] >= T[a].balance
      <3>1. a \in S /\ T[a].owner = l[i] /\ T[a].balance \in Nat
        BY <1>5, <1>6 DEF Of
      <3>2. CASE a \in F
        BY <1>14, <1>16, <3>1, <3>2 DEF Of
      <3>3. CASE a \notin F
        BY <1>15, <1>16, <3>1, <3>3
      <3> QED BY <3>2, <3>3
    <2>3. h[l[i]] <= Sum(T, held(l[i]))
      BY <1>6, <1>14, <1>16
    <2> QED BY <1>16, <2>1, <2>2, <2>3
  \* an owner who has an account among those read and is not listed has no more than the last one
  <1>20. ASSUME NEW o \in holders \ listed, NEW i \in 1 .. n, o \in DOMAIN h
         PROVE  h[o] <= h[l[i]]
    <2>1. \A j \in 1 .. n : l[j] # o
      <3>1. DOMAIN l = 1 .. n
        BY <1>3
      <3> QED BY <1>10, <3>1 DEF Elems
    <2>2. h[l[i]] >= h[o]
      BY <1>3, <1>20, <2>1
    <2> QED BY <1>14, <1>16, <1>20, <2>2
  <1>21. ASSUME NEW o \in holders \ listed, NEW a \in held(o), NEW i \in 1 .. n PROVE T[a].balance <= list[i].balance
    <2>1. a \in S /\ T[a].owner = o /\ T[a].balance \in Nat
      BY <1>5, <1>6 DEF Of
    <2>2. CASE a \in F
      <3>1. o \in DOMAIN h
        BY <1>9, <2>1, <2>2
      <3>2. T[a].balance <= h[o] /\ h[o] \in Nat
        BY <1>14, <2>1, <2>2, <3>1 DEF Of
      <3> QED BY <1>16, <1>20, <2>1, <3>1, <3>2
    <2>3. CASE a \notin F
      BY <1>15, <1>16, <2>1, <2>3
    <2> QED BY <2>2, <2>3
  <1>22. ASSUME Cardinality(accounts) <= FetchLimit(r)
         PROVE  /\ Len(list) = Least(LimitOf(r), Cardinality(holders))
                /\ \A i \in 1 .. n : list[i].balance = Sum(T, held(list[i].owner))
                /\ \A o \in holders \ listed, i \in 1 .. n : Sum(T, held(o)) <= list[i].balance
    <2>1. F = S
      BY <1>2, <1>7, <1>22
    <2>2. DOMAIN h = holders
      BY <1>8, <1>9, <2>1
    <2>3. \A o \in DOMAIN h : h[o] = Sum(T, held(o))
      BY <1>6, <1>14, <2>1
    <2>4. Len(list) = Least(LimitOf(r), Cardinality(holders))
      BY <1>3, <2>2 DEF n
    <2> QED BY <1>16, <1>20, <2>2, <2>3, <2>4
  <1> QED BY <1>3, <1>17, <1>19, <1>21, <1>22

-----------------------------------------------------------------------------
(* What a result says of the table it was read from                         *)

\* What AnswersWereTrue says of a table and a result.
TrueOf(T, r, result) ==
  /\ r.api = "count" => result = IF r.token \in Known THEN 0
                                 ELSE Cardinality({o \in Owners : \E a \in Accounts :
                                        T[a] # None /\ T[a].owner = o /\ T[a].token = r.token})
  /\ r.api = "owner" =>
       /\ \A a \in DOMAIN result : /\ result[a] = T[a] /\ T[a].owner = r.owner
                                   /\ r.token \in {None, T[a].token}
       /\ Cardinality(DOMAIN result) < MaxResult =>
            \A a \in Accounts \ DOMAIN result :
              T[a] = None \/ T[a].owner # r.owner \/ r.token \notin {None, T[a].token}

Typed(r, result) ==
  /\ r.api = "owner" => \A a \in DOMAIN result : result[a] \in Balance
  /\ r.api = "top" => \A i \in DOMAIN result : result[i] \in Holder
  /\ r.api = "count" => result \in Nat

\* What is said of an answer, all together.
Holds(T, r, result) == TrueOf(T, r, result) /\ Typed(r, result) /\ (r.api = "top" => RightAbout(T, r, result))

\* The kinds of requests.
LEMMA RequestTyped ==
  ASSUME WellFormed, NEW r \in Requests
  PROVE  /\ r.api \in Apis
         /\ r.api = "top" => r \in TokenTopReq
  BY DEF WellFormed, Request, Apis, OwnerReq, TokenTopReq, TokenReq

\* Any rows of the owner, all of them if they are few.
LEMMA BalancesRight ==
  ASSUME WellFormed, NEW T \in Table, NEW r, r.api = "owner", NEW result \in BalancesByOwner(T, r)
  PROVE  Holds(T, r, result)
  <1> DEFINE all == OfOwner(T, r.owner, r.token)
  <1>1. all \in SUBSET AccountsOf(T) /\ IsFiniteSet(all) /\ Cardinality(all) \in Nat
    <2>1. all \in SUBSET AccountsOf(T)
      BY DEF OfOwner
    <2> HIDE DEF all
    <2> QED BY <2>1, RowsTyped, FS_Subset, FS_CardinalityType
  <1>2. PICK S \in SUBSET all : /\ Cardinality(S) = Least(MaxResult, Cardinality(all))
                                /\ result = [a \in S |-> T[a]]
    BY DEF BalancesByOwner
  <1>3. DOMAIN result = S
    BY <1>2
  <1>4. \A a \in S : result[a] = T[a] /\ T[a].owner = r.owner /\ r.token \in {None, T[a].token}
    BY <1>2 DEF OfOwner
  <1>5. \A a \in S : result[a] \in Balance
    <2>1. \A a \in S : T[a] \in Row
      BY <1>1, RowsTyped
    <2>2. \A x \in Row : x \in Balance
      BY DEF WellFormed, Row, Balance
    <2> QED BY <1>4, <2>1, <2>2
  <1>6. Cardinality(S) < MaxResult => S = all
    <2> HIDE DEF all
    <2>1. Cardinality(S) < MaxResult => Cardinality(S) = Cardinality(all)
      BY <1>1, <1>2 DEF Least, WellFormed
    <2> QED BY <1>1, <2>1, FS_Subset
  <1>7. \A a \in Accounts \ all : T[a] = None \/ T[a].owner # r.owner \/ r.token \notin {None, T[a].token}
    BY DEF OfOwner, AccountsOf
  <1> HIDE DEF all
  <1> QED BY <1>3, <1>4, <1>5, <1>6, <1>7 DEF Holds, TrueOf, Typed

\* A count of owners of accounts of the token, of which there are no more than accounts.
LEMMA CountRight ==
  ASSUME WellFormed, NEW T \in Table, NEW r, r.api = "count", r.token \notin Known
  PROVE  Holds(T, r, HolderCount(T, r)) /\ HolderCount(T, r) \in 0 .. Cardinality(Accounts)
  <1> DEFINE S == OfToken(T, r.token)
             owners == {T[a].owner : a \in S}
             g == [a \in S |-> T[a].owner]
  <1>1. S \in SUBSET Accounts /\ \A a \in S : T[a].owner \in Owners
    <2>1. S \in SUBSET AccountsOf(T)
      BY DEF OfToken
    <2> HIDE DEF S
    <2> QED BY <2>1, RowsTyped
  <1>2. owners = {o \in Owners : \E a \in Accounts : T[a] # None /\ T[a].owner = o /\ T[a].token = r.token}
    BY <1>1 DEF OfToken, AccountsOf
  <1>3. IsFiniteSet(S) /\ Cardinality(S) <= Cardinality(Accounts) /\ Cardinality(S) \in Nat /\ Cardinality(Accounts) \in Nat
    <2> HIDE DEF S
    <2> QED BY <1>1, FS_Subset, FS_CardinalityType DEF WellFormed
  <1>4. IsFiniteSet(owners) /\ Cardinality(owners) <= Cardinality(S)
    <2>1. g \in Surjection(S, owners)
      BY DEF Surjection
    <2> HIDE DEF g, owners, S
    <2> QED BY <1>3, <2>1, FS_Surjection
  <1>5. Cardinality(owners) \in Nat
    BY <1>4, FS_CardinalityType
  <1>6. HolderCount(T, r) = Cardinality(owners)
    BY DEF HolderCount
  <1>7. HolderCount(T, r) \in 0 .. Cardinality(Accounts)
    BY <1>3, <1>4, <1>5, <1>6
  <1>8. TrueOf(T, r, HolderCount(T, r))
    BY <1>2, <1>6 DEF TrueOf
  <1> QED BY <1>7, <1>8 DEF Holds, Typed

\* The results of each query.
LEMMA ResultsByApi ==
  ASSUME NEW T, NEW r
  PROVE  /\ r.api = "owner" => ResultsOf(T, r) = BalancesByOwner(T, r)
         /\ r.api = "top" => ResultsOf(T, r) = TopHolders(T, r)
         /\ r.api = "count" => ResultsOf(T, r) = {HolderCount(T, r)}
  BY Zenon DEF ResultsOf

\* Their keys.
LEMMA KeyByApi ==
  ASSUME NEW r
  PROVE  /\ r.api = "owner" => Key(r) = <<r.api, r.owner, r.token>>
         /\ r.api = "top" => Key(r) = <<r.api, r.token, FetchLimit(r)>>
         /\ r.api = "count" => Key(r) = <<r.api, r.token>>
  BY Zenon DEF Key

\* How long they are kept.
LEMMA TtlByApi ==
  ASSUME NEW r, NEW result
  PROVE  /\ r.api = "owner" => Ttl(r, result) = OwnerTTL
         /\ r.api = "top" => Ttl(r, result) = TopTTL
         /\ r.api = "count" => Ttl(r, result) = CountTTL(result)
  BY Zenon DEF Ttl

\* A result says what is true of the table it was read from.
LEMMA ResultsRight ==
  ASSUME WellFormed, NEW T \in Table, NEW r \in Requests, ~(r.api = "count" /\ r.token \in Known),
         NEW result \in ResultsOf(T, r)
  PROVE  Holds(T, r, result) /\ Ttl(r, result) \in Nat
  <1>1. CASE r.api = "owner"
    <2>1. Holds(T, r, result)
      BY <1>1, ResultsByApi, BalancesRight
    <2> QED BY <1>1, <2>1, TtlByApi DEF WellFormed
  <1>2. CASE r.api = "top"
    <2>1. result \in TopHolders(T, r) /\ r \in TokenTopReq
      BY <1>2, ResultsByApi, RequestTyped
    <2>2. RightAbout(T, r, result)
      BY <2>1, TopHoldersRight
    <2>3. \A i \in DOMAIN result : result[i] \in Holder
      BY <2>1, TopHoldersTyped
    <2> QED BY <1>2, <2>2, <2>3, TtlByApi DEF WellFormed, Holds, TrueOf, Typed
  <1>3. CASE r.api = "count"
    <2>1. result = HolderCount(T, r)
      BY <1>3, ResultsByApi
    <2>2. Holds(T, r, result) /\ result \in 0 .. Cardinality(Accounts)
      BY <1>3, <2>1, CountRight
    <2> QED BY <1>3, <2>2, TtlByApi DEF WellFormed
  <1> QED BY <1>1, <1>2, <1>3, RequestTyped DEF Apis

-----------------------------------------------------------------------------
(* Requests that share a cached result                                      *)

\* More holders asked for are more rows read: a little more than one for each.
LEMMA FetchGrows ==
  ASSUME NEW a \in Nat, NEW b \in Nat, a < b, NEW p \in Nat, NEW q \in Nat \ {0}, p >= q
  PROVE  (a * p) \div q < (b * p) \div q
  <1> DEFINE x == (a * p) \div q
             y == (b * p) \div q
  <1>1. a * p \in Nat /\ b * p \in Nat
    OBVIOUS
  <1>2. ASSUME NEW m \in Nat PROVE m \div q \in Nat /\ q * (m \div q) <= m /\ m < q * (m \div q) + q
    OBVIOUS
  <1>3. x \in Nat /\ y \in Nat /\ q * x <= a * p /\ b * p < q * y + q
    BY <1>1, <1>2
  <1>4. b * p >= a * p + p
    <2>1. PICK d \in Nat : b = a + 1 + d
      <3>1. b - a - 1 \in Nat /\ b = a + 1 + (b - a - 1)
        OBVIOUS
      <3> QED BY <3>1
    <2>2. b * p = a * p + p + d * p
      BY <2>1
    <2>3. d * p \in Nat
      OBVIOUS
    <2> QED BY <1>1, <2>2, <2>3
  <1> HIDE DEF x, y
  <1>5. q * x < q * y
    <2>1. q * x \in Int /\ q * y \in Int
      BY <1>3
    <2> DEFINE m == a * p
               n == b * p
               u == q * x
               v == q * y
    <2>2. u <= m /\ m + p <= n /\ n < v + q /\ m \in Int /\ n \in Int /\ u \in Int /\ v \in Int
      BY <1>1, <1>3, <1>4, <2>1
    <2> HIDE DEF m, n, u, v
    <2>3. u < v
      BY <2>2
    <2> QED BY <2>3 DEF u, v
  <1>6. SUFFICES ASSUME x >= y PROVE FALSE
    BY <1>3 DEF x, y
  <1>7. PICK d \in Nat : x = y + d
    <2>1. x - y \in Nat /\ x = y + (x - y)
      BY <1>3, <1>6
    <2> QED BY <2>1
  <1>8. q * x = q * y + q * d /\ q * d \in Nat /\ q * y \in Nat
    BY <1>3, <1>7
  <1> QED BY <1>5, <1>8

\* Two lists of holders that share a key are of the same length.
LEMMA FetchSeparates ==
  ASSUME WellFormed, NEW r \in TokenTopReq, NEW q \in TokenTopReq, FetchLimit(r) = FetchLimit(q)
  PROVE  LimitOf(r) = LimitOf(q)
  <1> DEFINE a == LimitOf(r)
             b == LimitOf(q)
             f(n) == (n * Extra[1]) \div Extra[2]
  <1>1. a \in Nat /\ b \in Nat
    BY LimitsTyped
  <1>2. f(a) = f(b)
    BY DEF FetchLimit
  <1>3. Extra[1] \in Nat /\ Extra[2] \in Nat \ {0} /\ Extra[1] >= Extra[2]
    BY DEF WellFormed
  <1> HIDE DEF a, b
  <1>4. f(a) \in Nat /\ f(b) \in Nat
    <2>1. \A m \in Nat : m * Extra[1] \in Nat
      BY <1>3
    <2>2. \A m \in Nat, n \in Nat \ {0} : m \div n \in Nat
      OBVIOUS
    <2> QED BY <1>1, <1>3, <2>1, <2>2
  <1>5. ~(a < b)
    <2>1. a < b => f(a) < f(b)
      BY <1>1, <1>3, FetchGrows
    <2> HIDE DEF f
    <2> QED BY <1>2, <1>4, <2>1
  <1>6. ~(b < a)
    <2>1. b < a => f(b) < f(a)
      BY <1>1, <1>3, FetchGrows
    <2> HIDE DEF f
    <2> QED BY <1>2, <1>4, <2>1
  <1>7. a = b
    BY <1>1, <1>5, <1>6
  <1> QED BY <1>7 DEF a, b

\* Tuples that are equal have equal parts.
LEMMA Parts ==
  /\ \A x, y, u, v : <<x, y>> = <<u, v>> => y = v
  /\ \A x, y, z, u, v, w : <<x, y, z>> = <<u, v, w>> => y = v /\ z = w
  OBVIOUS

\* A key tells all that a result depends on.
LEMMA KeysAgree ==
  ASSUME WellFormed, NEW r \in Requests, NEW q \in Requests, Key(r) = Key(q)
  PROVE  /\ \A T : ResultsOf(T, r) = ResultsOf(T, q)
         /\ \A result : Ttl(r, result) = Ttl(q, result)
         /\ r.api = q.api /\ r.token = q.token
  <1>1. r.api \in Apis /\ q.api \in Apis
    BY RequestTyped
  <1>2. Key(r)[1] = r.api /\ Key(q)[1] = q.api
    BY <1>1, KeyByApi DEF Apis
  <1>3. r.api = q.api
    BY <1>2
  <1>4. CASE r.api = "owner"
    <2>1. r.owner = q.owner /\ r.token = q.token
      <3>1. Key(r) = <<r.api, r.owner, r.token>>
        BY <1>4, KeyByApi
      <3>2. Key(q) = <<q.api, q.owner, q.token>>
        BY <1>3, <1>4, KeyByApi
      <3>3. <<r.api, r.owner, r.token>> = <<q.api, q.owner, q.token>>
        BY <3>1, <3>2, Zenon
      <3> QED BY <3>3, Parts
    <2>2. \A T : BalancesByOwner(T, r) = BalancesByOwner(T, q)
      BY <2>1 DEF BalancesByOwner
    <2> QED BY <1>3, <1>4, <2>1, <2>2, ResultsByApi, TtlByApi, ZenonT(40)
  <1>5. CASE r.api = "top"
    <2>1. r.token = q.token /\ FetchLimit(r) = FetchLimit(q)
      <3>1. Key(r) = <<r.api, r.token, FetchLimit(r)>>
        BY <1>5, KeyByApi
      <3>2. Key(q) = <<q.api, q.token, FetchLimit(q)>>
        BY <1>3, <1>5, KeyByApi
      <3>3. <<r.api, r.token, FetchLimit(r)>> = <<q.api, q.token, FetchLimit(q)>>
        BY <3>1, <3>2, Zenon
      <3> QED BY <3>3, Parts
    <2>2. LimitOf(r) = LimitOf(q)
      BY <1>3, <1>5, <2>1, RequestTyped, FetchSeparates
    <2>3. ASSUME NEW T PROVE TopHolders(T, r) = TopHolders(T, q)
      <3> DEFINE f == [a \in Accounts |-> IF T[a] = None THEN 0 ELSE T[a].balance]
                 lists(s, n) == LET h == HolderMap(T, {s[i] : i \in DOMAIN s})
                                IN  {[i \in DOMAIN l |-> [owner |-> l[i], balance |-> h[l[i]]]] :
                                       l \in TopOf(DOMAIN h, h, n)}
                 top(t, m, n) == UNION {lists(s, n) : s \in TopOf(OfToken(T, t), f, m)}
      <3>1. /\ TopHolders(T, r) = top(r.token, FetchLimit(r), LimitOf(r))
            /\ TopHolders(T, q) = top(q.token, FetchLimit(q), LimitOf(q))
        BY DEF TopHolders
      <3> HIDE DEF top
      <3> QED BY <2>1, <2>2, <3>1
    <2> QED BY <1>3, <1>5, <2>1, <2>3, ResultsByApi, TtlByApi, ZenonT(60)
  <1>6. CASE r.api = "count"
    <2>1. r.token = q.token
      <3>1. Key(r) = <<r.api, r.token>>
        BY <1>6, KeyByApi
      <3>2. Key(q) = <<q.api, q.token>>
        BY <1>3, <1>6, KeyByApi
      <3> QED BY <3>1, <3>2, Parts, Zenon
    <2>2. \A T : HolderCount(T, r) = HolderCount(T, q)
      BY <2>1 DEF HolderCount
    <2> QED BY <1>3, <1>6, <2>1, <2>2, ResultsByApi, TtlByApi
  <1> QED BY <1>1, <1>4, <1>5, <1>6 DEF Apis

-----------------------------------------------------------------------------
(* The inductive invariant                                                  *)

\* Table j was there at t or later.
Recent(j, t) == j \in 1 .. Len(past) /\ (j = Len(past) \/ past[j + 1].at >= t)

\* An entry is a result of request r, of table j, that was there within the entry's time.
Backed(k, e, r, j) ==
  /\ r \in Requests /\ Key(r) = k /\ ~(r.api = "count" /\ r.token \in Known)
  /\ e.validAt \in Nat /\ e.validAt <= now + Ttl(r, e.result)
  /\ Recent(j, e.validAt - Ttl(r, e.result))
  /\ e.result \in ResultsOf(past[j].table, r)

History ==
  /\ now \in 0 .. MaxTime /\ table \in Table
  /\ past \in Seq([table : Table, at : Nat])
  /\ Len(past) \in 1 .. MaxChanges + 1 /\ past[Len(past)].table = table

EntriesBacked == \A k \in DOMAIN cache : \E r, j : Backed(k, cache[k], r, j)

AnswerBacked ==
  answer # None =>
    /\ answer.request \in Requests
    /\ \E j : /\ Recent(j, now - answer.ttl)
              /\ Holds(past[j].table, answer.request, answer.result)

IInv == History /\ EntriesBacked /\ AnswerBacked

\* It says what the properties say.
LEMMA IInvSuffices ==
  ASSUME WellFormed, IInv
  PROVE  TypeOK /\ AnswersWereTrue /\ TopHoldersSound
  <1>1. \A k \in DOMAIN cache : cache[k].validAt \in Nat
    BY DEF IInv, EntriesBacked, Backed
  <1>2. ASSUME answer # None
        PROVE  /\ answer.request.api \in Apis
               /\ \E T \in Window : Holds(T, answer.request, answer.result)
    <2>1. PICK j : /\ Recent(j, now - answer.ttl)
                   /\ Holds(past[j].table, answer.request, answer.result)
      BY <1>2 DEF IInv, AnswerBacked
    <2>2. DOMAIN past = 1 .. Len(past)
      BY LenProperties DEF IInv, History
    <2>3. past[j].table \in Window
      BY <2>1, <2>2 DEF Window, Recent
    <2>4. answer.request.api \in Apis
      BY <1>2, RequestTyped DEF IInv, AnswerBacked
    <2> QED BY <2>1, <2>3, <2>4
  <1>3. answer # None => Typed(answer.request, answer.result)
    BY <1>2 DEF Holds
  <1>4. ASSUME answer # None
        PROVE  CASE answer.request.api = "owner" -> \A a \in DOMAIN answer.result : answer.result[a] \in Balance
                 [] answer.request.api = "top"   -> \A i \in DOMAIN answer.result : answer.result[i] \in Holder
                 [] answer.request.api = "count" -> answer.result \in Nat
    <2>1. CASE answer.request.api = "owner"
      BY <1>3, <1>4, <2>1, Zenon DEF Typed
    <2>2. CASE answer.request.api = "top"
      BY <1>3, <1>4, <2>2, Zenon DEF Typed
    <2>3. CASE answer.request.api = "count"
      BY <1>3, <1>4, <2>3, Zenon DEF Typed
    <2>4. \/ answer.request.api = "owner" \/ answer.request.api = "top" \/ answer.request.api = "count"
      BY <1>2, <1>4 DEF Apis
    <2> QED BY <2>1, <2>2, <2>3, <2>4, Zenon
  <1>5. /\ now \in 0 .. MaxTime /\ table \in [Accounts -> Rows \union {None}]
        /\ Len(past) \in 1 .. MaxChanges + 1 /\ past[Len(past)].table = table
    BY DEF IInv, History, Table
  <1>6. TypeOK
    BY <1>1, <1>4, <1>5, Zenon DEF TypeOK
  <1>7. AnswersWereTrue
    BY <1>2, Zenon DEF Holds, TrueOf, AnswersWereTrue
  <1>8. TopHoldersSound
    BY <1>2, Zenon DEF Holds, RightAbout, TopHoldersSound
  <1> QED BY <1>6, <1>7, <1>8

\* At first nothing is cached and nothing answered.
LEMMA IInvInit ==
  ASSUME WellFormed, Init
  PROVE  IInv
  <1>1. table \in Table
    BY DEF WellFormed, Init, Table
  <1>2. past \in Seq([table : Table, at : Nat]) /\ Len(past) = 1 /\ past[1].table = table
    BY <1>1 DEF Init
  <1>3. History
    BY <1>1, <1>2 DEF History, Init, WellFormed
  <1>4. EntriesBacked
    BY DEF EntriesBacked, Init
  <1>5. AnswerBacked
    BY DEF AnswerBacked, Init
  <1> QED BY <1>3, <1>4, <1>5 DEF IInv

\* The tables there were.
LEMMA PastTyped ==
  ASSUME History, NEW j \in 1 .. Len(past)
  PROVE  past[j].table \in Table /\ past[j].at \in Nat
  <1> DEFINE R == [table : Table, at : Nat]
  <1>1. past \in Seq(R)
    BY DEF History
  <1>2. \A x \in R : x.table \in Table /\ x.at \in Nat
    OBVIOUS
  <1> HIDE DEF R
  <1>3. past[j] \in R
    BY <1>1
  <1> QED BY <1>2, <1>3

\* A table that was there is not forgotten, and the next one does not come before now.
LEMMA RecentKept ==
  ASSUME WellFormed, History, NEW j, NEW t \in Int, t <= now, Recent(j, t),
         \/ past' = past
         \/ \E T \in Table : past' = Append(past, [table |-> T, at |-> now])
  PROVE  Recent(j, t)' /\ past'[j] = past[j]
  <1>1. CASE past' = past
    BY <1>1 DEF Recent
  <1>2. ASSUME NEW T \in Table, past' = Append(past, [table |-> T, at |-> now]) PROVE Recent(j, t)' /\ past'[j] = past[j]
    <2> DEFINE p == [table |-> T, at |-> now]
               n == Len(past)
    <2>1. n \in Nat /\ Len(past') = n + 1 /\ past'[n + 1] = p /\ \A i \in 1 .. n : past'[i] = past[i]
      BY <1>2 DEF History
    <2>2. j \in 1 .. n /\ (j = n \/ past[j + 1].at >= t)
      BY DEF Recent
    <2>3. CASE j = n
      BY <2>1, <2>2, <2>3 DEF Recent, History
    <2>4. CASE j # n
      <3>1. j + 1 \in 1 .. n /\ past'[j + 1] = past[j + 1]
        BY <2>1, <2>2, <2>4
      <3> QED BY <2>1, <2>2, <2>4, <3>1 DEF Recent
    <2> QED BY <2>3, <2>4
  <1> QED BY <1>1, <1>2

\* So an entry stays backed.
LEMMA BackedKept ==
  ASSUME WellFormed, History, NEW k, NEW e, NEW r, NEW j, Backed(k, e, r, j),
         now' \in Nat, now <= now',
         \/ past' = past
         \/ \E T \in Table : past' = Append(past, [table |-> T, at |-> now])
  PROVE  Backed(k, e, r, j)'
  <1>1. past[j].table \in Table
    <2>1. j \in 1 .. Len(past)
      BY DEF Backed, Recent
    <2> QED BY <2>1, PastTyped
  <1>2. Ttl(r, e.result) \in Nat
    BY <1>1, ResultsRight DEF Backed
  <1>3. e.validAt \in Nat /\ e.validAt <= now + Ttl(r, e.result) /\ now \in Nat
    BY DEF Backed, History
  <1>4. e.validAt - Ttl(r, e.result) \in Int /\ e.validAt - Ttl(r, e.result) <= now
    BY <1>2, <1>3
  <1>5. Recent(j, e.validAt - Ttl(r, e.result))' /\ past'[j] = past[j]
    <2> DEFINE t == e.validAt - Ttl(r, e.result)
    <2>1. Recent(j, t)
      BY DEF Backed
    <2>2. t \in Int /\ t <= now
      BY <1>4
    <2> HIDE DEF t
    <2>3. Recent(j, t)' /\ past'[j] = past[j]
      BY <2>1, <2>2, RecentKept
    <2> QED BY <2>3 DEF t, Ttl
  <1>6. e.validAt <= now' + Ttl(r, e.result)
    BY <1>2, <1>3
  <1> QED BY <1>5, <1>6 DEF Backed

\* Answers and entries tell the same after a step that reads nothing.
LEMMA QuietStep ==
  ASSUME WellFormed, IInv, History', now' \in Nat, now <= now', cache' = cache, answer' = None,
         \/ past' = past
         \/ \E T \in Table : past' = Append(past, [table |-> T, at |-> now])
  PROVE  IInv'
  <1>1. ASSUME NEW k \in DOMAIN cache' PROVE (\E r, j : Backed(k, cache[k], r, j))'
    <2>1. PICK e : e = cache[k]
      OBVIOUS
    <2>2. PICK r, j : Backed(k, e, r, j)
      BY <2>1 DEF IInv, EntriesBacked
    <2>3. Backed(k, e, r, j)'
      BY <2>2, BackedKept DEF IInv
    <2>4. e = cache'[k]
      BY <2>1
    <2>5. Backed(k, cache[k], r, j)'
      BY <2>3, <2>4, Zenon DEF Backed
    <2> QED BY <2>5
  <1>2. EntriesBacked'
    BY <1>1 DEF EntriesBacked
  <1>3. AnswerBacked'
    BY DEF AnswerBacked
  <1> QED BY <1>2, <1>3 DEF IInv

\* The clock, which the queries share with those of events.
LEMMA ClockStep ==
  ASSUME WellFormed, IInv, now' \in now .. MaxTime, answer' = None, UNCHANGED <<table, cache, past, api>>
  PROVE  IInv'
  <1>1. History' /\ now' \in Nat /\ now <= now'
    BY DEF IInv, History, WellFormed
  <1> QED BY <1>1, QuietStep

\* A row of an account changes.
LEMMA ChangeStep ==
  ASSUME WellFormed, IInv, NEW a \in Accounts, NEW row \in Rows \union {None}, Change(a, row)
  PROVE  IInv'
  <1> DEFINE p == [table |-> table', at |-> now]
             n == Len(past)
  <1>1. table' \in Table
    BY DEF Change, IInv, History, Table
  <1>2. n \in Nat /\ n <= MaxChanges /\ p \in [table : Table, at : Nat] /\ MaxChanges \in Nat /\ now \in Nat
    BY <1>1 DEF Change, IInv, History, WellFormed
  <1>3. past' = Append(past, p)
    BY DEF Change
  <1>4. past' \in Seq([table : Table, at : Nat]) /\ Len(past') = n + 1 /\ past'[n + 1] = p
    <2> HIDE DEF p
    <2> QED BY <1>2, <1>3 DEF IInv, History
  <1>5. History'
    BY <1>1, <1>2, <1>4 DEF Change, IInv, History
  <1>6. now' \in Nat /\ now <= now' /\ cache' = cache /\ answer' = None
    BY <1>2 DEF Change
  <1> QED BY <1>1, <1>3, <1>5, <1>6, QuietStep

\* An answer that was backed a moment ago, with the entries there were or one more.
LEMMA AnswerStep ==
  ASSUME WellFormed, IInv, NEW r \in Requests, NEW result, Answer(r, result), UNCHANGED <<now, table, past, api>>,
         \E j : Recent(j, now - Ttl(r, result)) /\ Holds(past[j].table, r, result),
         EntriesBacked'
  PROVE  IInv'
  <1>1. answer' = [request |-> r, result |-> result, ttl |-> Ttl(r, result)] /\ now' = now /\ past' = past
    BY DEF Answer
  <1> DEFINE ttl == Ttl(r, result)
  <1>2. answer'.request = r /\ answer'.result = result /\ answer'.ttl = ttl
    BY <1>1
  <1>3. PICK j : Recent(j, now - ttl) /\ Holds(past[j].table, r, result)
    OBVIOUS
  <1> HIDE DEF ttl
  <1>4. Recent(j, now - ttl)' /\ Holds(past'[j].table, r, result)
    BY <1>1, <1>3 DEF Recent, ttl, Ttl
  <1>5. AnswerBacked'
    BY <1>2, <1>4 DEF AnswerBacked
  <1>6. History'
    BY DEF IInv, History
  <1> QED BY <1>5, <1>6 DEF IInv

\* A hit: the entry is of a request with the same key, and still valid.
LEMMA HitStep ==
  ASSUME WellFormed, IInv, NEW r \in Requests, Hit(r)
  PROVE  IInv'
  <1> DEFINE e == cache[Key(r)]
  <1>1. Key(r) \in DOMAIN cache /\ now <= e.validAt /\ Answer(r, e.result)
    BY DEF Hit, Cached
  <1>2. PICK q, j : Backed(Key(r), e, q, j)
    BY <1>1 DEF IInv, EntriesBacked
  <1>3. q \in Requests /\ Key(r) = Key(q)
    BY <1>2 DEF Backed
  <1>4. /\ ResultsOf(past[j].table, r) = ResultsOf(past[j].table, q)
        /\ Ttl(r, e.result) = Ttl(q, e.result) /\ r.api = q.api /\ r.token = q.token
    <2> HIDE DEF e
    <2> QED BY <1>3, KeysAgree
  <1>5. past[j].table \in Table /\ j \in 1 .. Len(past)
    <2>1. j \in 1 .. Len(past)
      BY <1>2 DEF Backed, Recent
    <2> QED BY <2>1, PastTyped DEF IInv
  <1> HIDE DEF e
  <1>6. Holds(past[j].table, r, e.result) /\ Ttl(r, e.result) \in Nat
    BY <1>2, <1>4, <1>5, ResultsRight DEF Backed
  <1>7. Recent(j, now - Ttl(r, e.result))
    <2>1. CASE j = Len(past)
      BY <1>5, <2>1 DEF Recent
    <2>2. CASE j # Len(past)
      <3>1. past[j + 1].at >= e.validAt - Ttl(r, e.result)
        BY <1>2, <1>4, <2>2 DEF Backed, Recent
      <3>2. past[j + 1].at \in Nat
        BY <1>5, <2>2, PastTyped DEF IInv, History
      <3>3. past[j + 1].at >= now - Ttl(r, e.result)
        BY <1>1, <1>2, <1>6, <3>1, <3>2 DEF Backed, IInv, History
      <3> QED BY <1>5, <3>3 DEF Recent
    <2> QED BY <2>1, <2>2
  <1>8. EntriesBacked'
    <2>1. cache' = cache /\ now' = now /\ past' = past
      BY DEF Hit
    <2> QED BY <2>1, Zenon DEF IInv, EntriesBacked, Backed, Recent
  <1>9. UNCHANGED <<now, table, past, api>>
    BY DEF Hit
  <1> QED BY <1>1, <1>6, <1>7, <1>8, <1>9, AnswerStep

\* A read, and the entry it leaves.
LEMMA ReadStep ==
  ASSUME WellFormed, IInv, NEW r \in Requests, Read(r)
  PROVE  IInv'
  <1>1. PICK result \in ResultsOf(table, r) :
          /\ Answer(r, result)
          /\ cache' = [k \in DOMAIN cache \union {Key(r)} |->
                         IF k = Key(r) THEN [result |-> result, validAt |-> now + Ttl(r, result)] ELSE cache[k]]
    BY DEF Read
  <1> DEFINE n == Len(past)
             e == [result |-> result, validAt |-> now + Ttl(r, result)]
  <1>2. UNCHANGED <<now, table, past, api>> /\ ~(r.api = "count" /\ r.token \in Known)
    BY DEF Read, IsKnownToken
  <1>3. past[n].table = table /\ n \in 1 .. Len(past) /\ table \in Table /\ now \in Nat
    BY DEF IInv, History
  <1>4. Holds(table, r, result) /\ Ttl(r, result) \in Nat
    BY <1>1, <1>2, <1>3, ResultsRight
  <1>5. Recent(n, now - Ttl(r, result)) /\ Recent(n, e.validAt - Ttl(r, e.result))
    BY <1>3 DEF Recent
  <1>6. Backed(Key(r), e, r, n)
    <2>1. e.validAt \in Nat /\ e.result = result /\ e.validAt = now + Ttl(r, e.result)
      BY <1>3, <1>4
    <2> HIDE DEF e, n
    <2>2. e.validAt <= now + Ttl(r, e.result)
      BY <2>1
    <2> QED BY <1>1, <1>2, <1>3, <1>5, <2>1, <2>2 DEF Backed
  <1> HIDE DEF e, n
  <1>7. ASSUME NEW k \in DOMAIN cache' PROVE \E q, j : Backed(k, cache'[k], q, j)
    <2>1. CASE k = Key(r)
      <3>1. cache'[k] = e
        BY <1>1, <2>1 DEF e
      <3> QED BY <1>6, <2>1, <3>1
    <2>2. CASE k # Key(r)
      <3>1. k \in DOMAIN cache /\ cache'[k] = cache[k]
        BY <1>1, <2>2
      <3> QED BY <3>1 DEF IInv, EntriesBacked
    <2> QED BY <2>1, <2>2
  <1>8. EntriesBacked'
    <2>1. now' = now /\ past' = past
      BY <1>2
    <2> QED BY <1>7, <2>1, Zenon DEF EntriesBacked, Backed, Recent
  <1> QED BY <1>1, <1>2, <1>3, <1>4, <1>5, <1>8, AnswerStep

\* The holders of a best known token are not counted.
LEMMA SkipCountStep ==
  ASSUME WellFormed, IInv, NEW r \in Requests, SkipCount(r)
  PROVE  IInv'
  <1> DEFINE n == Len(past)
  <1>1. /\ r.api = "count" /\ r.token \in Known /\ Answer(r, 0) /\ cache' = cache
        /\ UNCHANGED <<now, table, past, api>>
    BY DEF SkipCount, IsKnownToken
  <1>2. Recent(n, now - Ttl(r, 0))
    BY DEF Recent, IInv, History
  <1>3. Holds(past[n].table, r, 0)
    BY <1>1 DEF Holds, TrueOf, Typed
  <1>4. EntriesBacked'
    <2>1. cache' = cache /\ now' = now /\ past' = past
      BY <1>1
    <2> QED BY <2>1, Zenon DEF IInv, EntriesBacked, Backed, Recent
  <1> QED BY <1>1, <1>2, <1>3, <1>4, AnswerStep

\* Every step keeps it.
LEMMA IInvStep ==
  ASSUME WellFormed, IInv, [Next]_vars
  PROVE  IInv'
  <1>1. CASE Tick
    BY <1>1, ClockStep DEF Tick, IInv, History, WellFormed
  <1>2. ASSUME NEW a \in Accounts, NEW row \in Rows \union {None}, Change(a, row) PROVE IInv'
    BY <1>2, ChangeStep
  <1>3. ASSUME NEW r \in Requests, Hit(r) \/ Read(r) \/ SkipCount(r) PROVE IInv'
    BY <1>3, HitStep, ReadStep, SkipCountStep
  <1>4. CASE UNCHANGED vars
    BY <1>4, Zenon DEF vars, IInv, History, EntriesBacked, AnswerBacked, Backed, Recent
  <1> QED BY <1>1, <1>2, <1>3, <1>4 DEF Next

\* In every state, answers and entries are results of tables that were there within their TTL.
THEOREM Inductive == WellFormed => (Spec => []IInv)
  <1> SUFFICES ASSUME WellFormed PROVE Spec => []IInv
    OBVIOUS
  <1>1. Init => IInv
    BY IInvInit
  <1>2. IInv /\ [Next]_vars => IInv'
    BY IInvStep
  <1> QED BY <1>1, <1>2, PTL DEF Spec

\* The variables of the balance queries have their types (internal/query/balance).
THEOREM TypeCorrect == WellFormed => (Spec => []TypeOK)
  <1> SUFFICES ASSUME WellFormed PROVE Spec => []TypeOK
    OBVIOUS
  <1>1. IInv => TypeOK
    BY IInvSuffices
  <1>2. Spec => []IInv
    BY Inductive
  <1> QED BY <1>1, <1>2, PTL

\* Whatever requests share the cache and however the table changes, the balances of an
\* owner and the number of holders are those of one moment of the TTL
\* (query_by_owner.go, query_holder_count.go).
THEOREM AnswersTrue == WellFormed => (Spec => []AnswersWereTrue)
  <1> SUFFICES ASSUME WellFormed PROVE Spec => []AnswersWereTrue
    OBVIOUS
  <1>1. IInv => AnswersWereTrue
    BY IInvSuffices
  <1>2. Spec => []IInv
    BY Inductive
  <1> QED BY <1>1, <1>2, PTL

\* For any limits, and any factor of rows read for a holder that is at least one, a list of
\* top holders is right as far as it goes at one moment of its TTL (query_top_holders.go).
THEOREM HoldersSound == WellFormed => (Spec => []TopHoldersSound)
  <1> SUFFICES ASSUME WellFormed PROVE Spec => []TopHoldersSound
    OBVIOUS
  <1>1. IInv => TopHoldersSound
    BY IInvSuffices
  <1>2. Spec => []IInv
    BY Inductive
  <1> QED BY <1>1, <1>2, PTL
===============================================================================
