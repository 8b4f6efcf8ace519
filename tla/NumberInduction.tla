-------------------------- MODULE NumberInduction ---------------------------
(***************************************************************************)
(* Least and greatest elements of sets of numbers, lists of finite sets,   *)
(* and induction, in the form the other proof modules cite: about a set,   *)
(* not about a predicate.                                                  *)
(***************************************************************************)
EXTENDS Integers, Sequences, FiniteSets, SequencesExt, FiniteSetsExt, FiniteSetTheorems, WellFoundedInduction, TLAPS

\* Every nonempty set of natural numbers has a least element: its elements up
\* to one of them are finitely many, and the order on their intervals 0..m is
\* the one of strict subsets.
LEMMA LeastNumber ==
  ASSUME NEW T, T \subseteq Nat, T # {}
  PROVE  \E x \in T : \A y \in T : x <= y
  <1>1. PICK n \in T : TRUE
    OBVIOUS
  <1> DEFINE U == 0..n
             F == {0..m : m \in T \cap U}
  <1>2. IsFiniteSet(U)
    BY FS_Interval
  <1>3. IsWellFoundedOn(StrictSubsetOrdering(U), FiniteSubsetsOf(U))
    BY <1>2, FS_StrictSubsetOrderingWellFounded
  <1>4. F \subseteq FiniteSubsetsOf(U)
    <2>1. \A m \in U : IsFiniteSet(0..m) /\ 0..m \in SUBSET U
      BY FS_Interval
    <2>2. QED BY <2>1 DEF FiniteSubsetsOf
  <1>5. F # {}
    OBVIOUS
  <1>6. \E x \in F : \A y \in F : ~ (<<y, x>> \in StrictSubsetOrdering(U))
    <2> HIDE DEF F, U
    <2> QED BY <1>3, <1>4, <1>5, WFMin
  <1>7. PICK m \in T \cap U : \A k \in T \cap U : ~ (<<0..k, 0..m>> \in StrictSubsetOrdering(U))
    BY <1>6
  <1>8. \A k \in T : m <= k
    <2> SUFFICES ASSUME NEW k \in T, k < m PROVE FALSE
      BY <1>7
    <2>1. k \in T \cap U
      BY <1>7
    <2>2. 0..k \in SUBSET U /\ 0..m \in SUBSET U /\ 0..k \subseteq 0..m /\ 0..k # 0..m
      <3>1. m \in 0..m /\ m \notin 0..k
        BY <1>7
      <3>2. \A x \in 0..k : x \in U /\ x \in 0..m
        BY <1>7, <2>1
      <3>3. \A x \in 0..m : x \in U
        BY <1>7
      <3>4. QED BY <3>1, <3>2, <3>3
    <2>3. <<0..k, 0..m>> \in StrictSubsetOrdering(U)
      <3> DEFINE A == 0..k
                 B == 0..m
      <3>1. A \in SUBSET U /\ B \in SUBSET U /\ A \subseteq B /\ A # B
        BY <2>2
      <3> HIDE DEF A, B, U
      <3>2. <<A, B>> \in StrictSubsetOrdering(U)
        BY <3>1 DEF StrictSubsetOrdering
      <3>3. QED BY <3>2 DEF A, B
    <2>4. QED BY <1>7, <2>1, <2>3
  <1>9. QED BY <1>7, <1>8

\* Min of a nonempty set of natural numbers.
LEMMA MinExists ==
  ASSUME NEW T, T \subseteq Nat, T # {}
  PROVE  Min(T) \in T /\ \A x \in T : Min(T) <= x
  BY LeastNumber DEF Min

\* An element that is nowhere below the others is the least one.
LEMMA MinIs ==
  ASSUME NEW T, T \subseteq Int, NEW m \in T, \A x \in T : m <= x
  PROVE  Min(T) = m
  <1>1. Min(T) \in T /\ \A x \in T : Min(T) <= x
    BY DEF Min
  <1>2. m \in Int /\ Min(T) \in Int /\ m <= Min(T) /\ Min(T) <= m
    BY <1>1
  <1>3. QED BY <1>2

\* The same for Max.
LEMMA MaxIs ==
  ASSUME NEW T, T \subseteq Int, NEW m \in T, \A x \in T : x <= m
  PROVE  Max(T) = m
  <1>1. Max(T) \in T /\ \A x \in T : Max(T) >= x
    BY DEF Max
  <1>2. m \in Int /\ Max(T) \in Int /\ m <= Max(T) /\ Max(T) <= m
    BY <1>1
  <1>3. QED BY <1>2

\* The smaller of two numbers.
LEMMA MinOfTwo ==
  ASSUME NEW a \in Int, NEW b \in Int
  PROVE  Min({a, b}) = IF a <= b THEN a ELSE b
  <1>1. CASE a <= b
    BY <1>1, MinIs
  <1>2. CASE ~(a <= b)
    BY <1>2, MinIs
  <1>3. QED BY <1>1, <1>2

\* A list of a finite set has each of its elements at one place.
LEMMA ListOfSet ==
  ASSUME NEW S, IsFiniteSet(S), NEW s \in SetToSeqs(S)
  PROVE  /\ s \in Seq(S) /\ Len(s) = Cardinality(S) /\ Len(s) \in Nat
         /\ \A i, j \in 1..Len(s) : s[i] = s[j] => i = j
         /\ \A x \in S : \E i \in 1..Len(s) : s[i] = x
  <1> DEFINE n == Cardinality(S)
  <1>1. n \in Nat
    BY FS_CardinalityType
  <1>2. s \in [1..n -> S] /\ \A i, j \in 1..n : i # j => s[i] # s[j]
    BY DEF SetToSeqs
  <1>3. s \in Injection(1..n, S)
    BY <1>2 DEF Injection, IsInjective
  <1>4. Cardinality(1..n) = n
    BY <1>1, FS_Interval
  <1>5. s \in Surjection(1..n, S)
    BY <1>3, <1>4, FS_Injection
  <1>6. \A x \in S : \E i \in 1..n : s[i] = x
    BY <1>5 DEF Surjection
  <1> HIDE DEF n
  <1>7. s \in Seq(S) /\ Len(s) = n
    BY <1>1, <1>2
  <1>8. QED BY <1>1, <1>2, <1>6, <1>7 DEF n

\* Among one more numbers than a set has elements, one is not in the set.
LEMMA FreeNumber ==
  ASSUME NEW S, IsFiniteSet(S), NEW first \in Nat
  PROVE  \E g \in first..(first + Cardinality(S)) : g \notin S
  <1> DEFINE c == Cardinality(S)
             W == first..(first + c)
  <1>1. c \in Nat
    BY FS_CardinalityType
  <1>2. Cardinality(W) = c + 1
    BY <1>1, FS_Interval
  <1>3. SUFFICES ASSUME W \subseteq S PROVE FALSE
    OBVIOUS
  <1> HIDE DEF W
  <1>4. Cardinality(W) <= c
    BY <1>3, FS_Subset
  <1> HIDE DEF c
  <1>5. QED BY <1>1, <1>2, <1>4

\* A set with 0 and with every successor of its numbers has all numbers.
LEMMA InductionOnNumbers ==
  ASSUME NEW S, 0 \in S, \A n \in Nat : n \in S => n + 1 \in S
  PROVE  Nat \subseteq S
  <1> SUFFICES ASSUME NEW k \in Nat, k \notin S PROVE FALSE
    OBVIOUS
  <1>1. PICK x \in Nat \ S : \A y \in Nat \ S : x <= y
    <2> DEFINE T == Nat \ S
    <2>1. T \subseteq Nat /\ T # {}
      OBVIOUS
    <2> HIDE DEF T
    <2>2. \E x \in T : \A y \in T : x <= y
      BY <2>1, LeastNumber
    <2>3. QED BY <2>2 DEF T
  <1>2. x # 0
    OBVIOUS
  <1>3. x - 1 \in Nat /\ x - 1 \in S
    BY <1>1, <1>2
  <1>4. QED BY <1>3

\* f[n] is what F makes of x when it is applied n times.
Iterates(f, S, F, x) ==
  f \in [Nat -> S] /\ f[0] = x /\ \A n \in Nat : f[n + 1] = F[f[n]]

\* A function can be applied any number of times.
LEMMA Iteration ==
  ASSUME NEW S, NEW F \in [S -> S], NEW x \in S
  PROVE  \E f : Iterates(f, S, F, x)
  <1> DEFINE Runs(n) == {g \in [0..n -> S] : g[0] = x /\ \A i \in 0..(n - 1) : g[i + 1] = F[g[i]]}
             T == {n \in Nat : Runs(n) # {}}
             f == [n \in Nat |-> (CHOOSE g \in Runs(n) : TRUE)[n]]
  <1>1. 0 \in T
    <2> DEFINE g == [i \in 0..0 |-> x]
    <2>1. g \in Runs(0)
      OBVIOUS
    <2>2. QED BY <2>1
  <1>2. \A n \in Nat : n \in T => n + 1 \in T
    <2> SUFFICES ASSUME NEW n \in Nat, NEW g \in Runs(n) PROVE n + 1 \in T
      OBVIOUS
    <2> DEFINE h == [i \in 0..(n + 1) |-> IF i <= n THEN g[i] ELSE F[g[n]]]
    <2>1. h \in [0..(n + 1) -> S] /\ h[0] = x
      OBVIOUS
    <2>2. \A i \in 0..n : h[i + 1] = F[h[i]]
      <3> SUFFICES ASSUME NEW i \in 0..n PROVE h[i + 1] = F[h[i]]
        OBVIOUS
      <3>1. CASE i = n
        BY <3>1
      <3>2. CASE i < n
        <4>1. i \in 0..(n - 1) /\ i + 1 \in 0..n /\ i \in 0..n
          BY <3>2
        <4>2. h[i + 1] = g[i + 1] /\ h[i] = g[i] /\ g[i + 1] = F[g[i]]
          BY <4>1
        <4>3. QED BY <4>2
      <3>3. QED BY <3>1, <3>2
    <2>3. h \in Runs(n + 1)
      <3> HIDE DEF h
      <3>1. \A i \in 0..((n + 1) - 1) : i \in 0..n
        OBVIOUS
      <3>2. QED BY <2>1, <2>2, <3>1
    <2>4. QED BY <2>3
  <1>3. \A n \in Nat : Runs(n) # {}
    <2> HIDE DEF Runs
    <2>1. Nat \subseteq T
      BY <1>1, <1>2, InductionOnNumbers
    <2>2. QED BY <2>1
  \* Two runs agree as far as both go.
  <1>4. \A n, m \in Nat : \A g \in Runs(n), h \in Runs(m) : n <= m => \A i \in 0..n : g[i] = h[i]
    <2> SUFFICES ASSUME NEW n \in Nat, NEW m \in Nat, NEW g \in Runs(n), NEW h \in Runs(m), n <= m
                 PROVE  \A i \in 0..n : g[i] = h[i]
      OBVIOUS
    <2> DEFINE A == {i \in Nat : i <= n => g[i] = h[i]}
    <2>1. 0 \in A
      OBVIOUS
    <2>2. \A i \in Nat : i \in A => i + 1 \in A
      OBVIOUS
    <2> HIDE DEF Runs
    <2>3. Nat \subseteq A
      <3> HIDE DEF A
      <3>1. QED BY <2>1, <2>2, InductionOnNumbers
    <2>4. QED BY <2>3
  <1>5. \A n \in Nat : (CHOOSE g \in Runs(n) : TRUE) \in Runs(n)
    <2> HIDE DEF Runs
    <2>1. QED BY <1>3
  <1>6. f \in [Nat -> S]
    <2>1. \A n \in Nat : \A g \in Runs(n) : g[n] \in S
      OBVIOUS
    <2> HIDE DEF Runs
    <2>2. QED BY <1>5, <2>1
  <1>7. \A n \in Nat : \A g \in Runs(n) : f[n] = g[n]
    <2> HIDE DEF Runs
    <2>1. QED BY <1>4, <1>5
  <1>8. f[0] = x
    <2>1. \A g : g \in Runs(0) => g[0] = x
      OBVIOUS
    <2> HIDE DEF Runs, f
    <2>2. QED BY <1>3, <1>7, <2>1
  <1>9. \A n \in Nat : f[n + 1] = F[f[n]]
    <2> SUFFICES ASSUME NEW n \in Nat PROVE f[n + 1] = F[f[n]]
      OBVIOUS
    <2>1. PICK h \in Runs(n + 1) : TRUE
      <3> HIDE DEF Runs
      <3>1. QED BY <1>3
    <2> DEFINE g == [i \in 0..n |-> h[i]]
    <2>2. g \in Runs(n) /\ g[n] = h[n] /\ h[n + 1] = F[h[n]]
      OBVIOUS
    <2> HIDE DEF Runs, f, g
    <2>3. f[n + 1] = h[n + 1] /\ f[n] = g[n]
      BY <1>7, <2>1, <2>2
    <2>4. QED BY <2>2, <2>3
  <1>10. QED
    <2> HIDE DEF f, Runs
    <2>1. Iterates(f, S, F, x)
      BY <1>6, <1>8, <1>9 DEF Iterates
    <2>2. QED BY <2>1
=============================================================================
