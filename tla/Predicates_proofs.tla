-------------------------- MODULE Predicates_proofs -------------------------
(***************************************************************************)
(* Theorems about module Predicates, for any number of processes, gadgets  *)
(* and keys.                                                               *)
(***************************************************************************)
EXTENDS Predicates, NumberInduction, FiniteSetTheorems, SequenceTheorems, TLAPS

\* Callers ask for their keys in ascending order, as ensure_predicates does,
\* which sorts the list.
RequestsAscending == \A r \in Requests : Ascending(r)

Demand == [first : Nat, end : Nat, keys : Seq(Nat), create : BOOLEAN]
Busy(p) == pc[p] \in {"compute", "commit"}
Wanted(p) == Range(demand[p].keys)

TypeInv ==
  /\ create_alone \in BOOLEAN /\ max_id \in 0..MaxId /\ valid_before \in 1..(max_id + 1)
  /\ DOMAIN pred \subseteq Key /\ IsFiniteSet(DOMAIN pred)
  /\ \A k \in DOMAIN pred : pred[k] \subseteq 1..(valid_before - 1)
  /\ pc \in [Proc -> {"idle", "create_empty", "compute", "commit", "updated", "current", "threw"}]
  /\ demand \in [Proc -> Demand] /\ DOMAIN result = Proc

\* The result of p is that of its demand but for ids that failing tasks missed.
Computed(p) ==
  \E missed \in SUBSET lost :
    result[p] = Accumulate(demand[p], (demand[p].first..(demand[p].end - 1)) \ missed)

\* A demand is within the gadgets that exist, and a result is that of the
\* demand, also when gadgets were inserted while it was computed.
DemandInv ==
  \A p \in Proc :
    /\ Wanted(p) \subseteq Key
    /\ pc[p] = "create_empty" => demand[p].create
    /\ Busy(p) => demand[p].first >= 1 /\ demand[p].end <= max_id + 1
    /\ IF pc[p] = "commit" THEN Computed(p) ELSE result[p] = <<>>

OrderInv == RequestsAscending => \A p \in Proc : Busy(p) => Ascending(demand[p].keys)

\* What nobody can change between the two transactions of an operation when
\* create_alone holds: an update has all the keys, and a creation the ids that
\* are valid at its commit.
AloneInv ==
  create_alone =>
    \A p \in Proc :
      /\ pc[p] # "idle" /\ demand[p].create => \A q \in Proc \ {p} : pc[q] = "idle"
      /\ Busy(p) /\ ~demand[p].create => Wanted(p) = DOMAIN pred /\ demand[p].first <= valid_before
      /\ Busy(p) /\ demand[p].create =>
           /\ demand[p].first = 1 /\ demand[p].end = valid_before
           /\ Wanted(p) \cap DOMAIN pred = {}
      /\ pc[p] = "create_empty" => valid_before = 1

ContentInv == RequestsAscending => Sound /\ ExactWhenAlone

IInv == TypeInv /\ DemandInv /\ OrderInv /\ AloneInv /\ ContentInv

-----------------------------------------------------------------------------
(* The binary search.                                                      *)

\* i splits the range w: the keys before it are below datum, the others not.
Splits(keys, datum, w, i) ==
  /\ i \in (w[1] + 1)..(w[1] + w[2] + 1)
  /\ \A j \in (w[1] + 1)..(i - 1) : keys[j] < datum
  /\ \A j \in i..(w[1] + w[2]) : keys[j] >= datum

\* One pass of the loop of lower_bound, with f for the passes after it.
Pass(keys, datum, f, w) ==
  LET middle == w[1] + w[2] \div 2 + 1
  IN  IF w[2] = 0 THEN w[1] + 1
      ELSE IF keys[middle] < datum THEN f[<<middle, w[1] + w[2] - middle>>]
                                   ELSE f[<<w[1], w[2] \div 2>>]

\* A range and its two halves.
LEMMA Halves ==
  ASSUME NEW n \in Nat, NEW w \in KeyRange(n), w[2] # 0,
         NEW middle, middle = w[1] + w[2] \div 2 + 1
  PROVE  /\ w[1] \in Nat /\ w[2] \in Nat /\ w[1] + w[2] <= n
         /\ middle \in (w[1] + 1)..(w[1] + w[2]) /\ middle \in 1..n
         /\ w[2] \div 2 \in Nat /\ w[2] \div 2 < w[2]
         /\ w[1] + w[2] - middle \in Nat /\ w[1] + w[2] - middle < w[2]
         /\ <<middle, w[1] + w[2] - middle>> \in KeyRange(n)
         /\ <<w[1], w[2] \div 2>> \in KeyRange(n)
  <1>1. w[1] \in 0..n /\ w[2] \in 0..n /\ w[1] + w[2] <= n
    BY DEF KeyRange
  <1> DEFINE x == w[1]
             y == w[2]
             h == y \div 2
  <1> HIDE DEF x, y
  <1>2. x \in Nat /\ y \in Nat /\ x + y <= n /\ y # 0 /\ middle = x + h + 1
    BY <1>1 DEF x, y
  <1>3. h \in Nat /\ h < y
    BY <1>2
  <1> HIDE DEF h
  <1>4. /\ middle \in (x + 1)..(x + y) /\ middle \in 1..n
        /\ x + y - middle \in Nat /\ x + y - middle < y
    BY <1>2, <1>3
  <1>5. /\ middle \in 0..n /\ x + y - middle \in 0..n /\ middle + (x + y - middle) <= n
        /\ x \in 0..n /\ h \in 0..n /\ x + h <= n
    BY <1>2, <1>3, <1>4
  <1>6. <<middle, x + y - middle>> \in KeyRange(n) /\ <<x, h>> \in KeyRange(n)
    BY <1>5 DEF KeyRange
  <1>7. QED BY <1>2, <1>3, <1>4, <1>6 DEF x, y, h

\* Where a half is split, the whole range is.
LEMMA SplitOfHalf ==
  ASSUME NEW keys \in Seq(Nat), Ascending(keys), NEW datum \in Nat,
         NEW w \in KeyRange(Len(keys)), w[2] # 0,
         NEW middle, middle = w[1] + w[2] \div 2 + 1, NEW i
  PROVE  /\ keys[middle] < datum /\ Splits(keys, datum, <<middle, w[1] + w[2] - middle>>, i)
              => Splits(keys, datum, w, i)
         /\ ~(keys[middle] < datum) /\ Splits(keys, datum, <<w[1], w[2] \div 2>>, i)
              => Splits(keys, datum, w, i)
  <1> DEFINE n == Len(keys)
             x == w[1]
             y == w[2]
             h == y \div 2
  <1> HIDE DEF x, y, h
  <1>1. /\ n \in Nat /\ x \in Nat /\ y \in Nat /\ x + y <= n /\ h \in Nat
        /\ middle \in (x + 1)..(x + y) /\ middle = x + h + 1
    <2>1. n \in Nat
      OBVIOUS
    <2> HIDE DEF n
    <2>2. /\ w[1] \in Nat /\ w[2] \in Nat /\ w[1] + w[2] <= n /\ w[2] \div 2 \in Nat
          /\ middle \in (w[1] + 1)..(w[1] + w[2])
      <3>1. w \in KeyRange(n)
        BY DEF n
      <3>2. QED BY <2>1, <3>1, Halves
    <2>3. QED BY <2>1, <2>2 DEF x, y, h
  <1>2. \A j \in 1..n : keys[j] \in Nat
    OBVIOUS
  <1>3. \A j, k \in 1..n : j <= k => keys[j] <= keys[k]
    BY <1>2 DEF Ascending
  <1>4. ASSUME keys[middle] < datum, Splits(keys, datum, <<middle, x + y - middle>>, i)
        PROVE  Splits(keys, datum, w, i)
    <2>1. /\ i \in (middle + 1)..(x + y + 1)
          /\ \A j \in (middle + 1)..(i - 1) : keys[j] < datum
          /\ \A j \in i..(x + y) : keys[j] >= datum
      <3>1. middle + (x + y - middle) = x + y
        BY <1>1
      <3>2. QED BY <1>4, <3>1 DEF Splits
    <2>2. i \in (x + 1)..(x + y + 1)
      BY <1>1, <2>1
    <2>3. ASSUME NEW j \in (x + 1)..(i - 1) PROVE keys[j] < datum
      <3>1. CASE j > middle
        BY <1>1, <2>1, <3>1
      <3>2. CASE j <= middle
        <4>1. j \in 1..n /\ middle \in 1..n
          BY <1>1, <2>1, <3>2
        <4>2. QED BY <1>2, <1>3, <1>4, <3>2, <4>1
      <3>3. QED BY <1>1, <2>1, <3>1, <3>2
    <2>4. QED BY <2>1, <2>2, <2>3 DEF Splits, x, y
  <1>5. ASSUME ~(keys[middle] < datum), Splits(keys, datum, <<x, h>>, i)
        PROVE  Splits(keys, datum, w, i)
    <2>1. /\ i \in (x + 1)..(x + h + 1)
          /\ \A j \in (x + 1)..(i - 1) : keys[j] < datum
          /\ \A j \in i..(x + h) : keys[j] >= datum
      BY <1>5 DEF Splits
    <2>2. i \in (x + 1)..(x + y + 1)
      BY <1>1, <2>1
    <2>3. ASSUME NEW j \in i..(x + y) PROVE keys[j] >= datum
      <3>1. CASE j < middle
        BY <1>1, <2>1, <3>1
      <3>2. CASE j >= middle
        <4>1. j \in 1..n /\ middle \in 1..n
          BY <1>1, <2>1, <3>2
        <4>2. QED BY <1>2, <1>3, <1>5, <3>2, <4>1
      <3>3. QED BY <1>1, <2>1, <3>1, <3>2
    <2>4. QED BY <2>1, <2>2, <2>3 DEF Splits, x, y
  <1>6. QED BY <1>4, <1>5 DEF x, y, h

\* Every range of an ascending list is split, at one place.
LEMMA RangeIsSplit ==
  ASSUME NEW keys \in Seq(Nat), Ascending(keys), NEW datum \in Nat,
         NEW w \in KeyRange(Len(keys))
  PROVE  /\ \E i : Splits(keys, datum, w, i)
         /\ \A i, j : Splits(keys, datum, w, i) /\ Splits(keys, datum, w, j) => i = j
  <1> DEFINE n == Len(keys)
             x == w[1]
             y == w[2]
             T == {i \in (x + 1)..(x + y + 1) : i = x + y + 1 \/ keys[i] >= datum}
  <1>1. n \in Nat /\ x \in Nat /\ y \in Nat /\ x + y <= n
    BY DEF KeyRange
  <1>2. \A j \in 1..n : keys[j] \in Nat
    OBVIOUS
  <1> HIDE DEF x, y
  <1>3. \A j, k \in 1..n : j <= k => keys[j] <= keys[k]
    BY <1>2 DEF Ascending
  <1>4. T \subseteq Nat /\ T # {}
    <2>1. x + y + 1 \in T
      BY <1>1
    <2>2. \A i \in (x + 1)..(x + y + 1) : i \in Nat
      BY <1>1
    <2>3. QED BY <2>1, <2>2
  <1>5. PICK i \in T : \A j \in T : i <= j
    BY <1>4, LeastNumber
  <1>6. Splits(keys, datum, w, i)
    <2>1. i \in (x + 1)..(x + y + 1)
      BY <1>5
    <2>2. ASSUME NEW j \in (x + 1)..(i - 1) PROVE keys[j] < datum
      <3>1. j \in 1..n /\ j \in (x + 1)..(x + y + 1) /\ j < i
        BY <1>1, <2>1
      <3>2. j \notin T
        BY <1>1, <1>5, <2>1, <3>1
      <3>3. QED BY <1>2, <3>1, <3>2
    <2>3. ASSUME NEW j \in i..(x + y) PROVE keys[j] >= datum
      <3>1. j \in 1..n /\ i \in 1..n /\ i <= j /\ i # x + y + 1
        BY <1>1, <2>1
      <3>2. keys[i] >= datum
        BY <1>5, <3>1
      <3>3. QED BY <1>2, <1>3, <3>1, <3>2
    <2>4. QED BY <2>1, <2>2, <2>3 DEF Splits, x, y
  <1>7. ASSUME NEW j, NEW k, Splits(keys, datum, w, j), Splits(keys, datum, w, k), j < k PROVE FALSE
    <2>1. j \in (x + 1)..(x + y + 1) /\ k \in (x + 1)..(x + y + 1) /\ keys[j] < datum /\ keys[j] >= datum
      BY <1>1, <1>7 DEF Splits, x, y
    <2>2. j \in 1..n
      BY <1>1, <1>7, <2>1
    <2>3. QED BY <1>2, <2>1, <2>2
  <1>8. ASSUME NEW j, NEW k, Splits(keys, datum, w, j), Splits(keys, datum, w, k) PROVE j = k
    <2>1. j \in Int /\ k \in Int
      BY <1>1, <1>8 DEF Splits, x, y
    <2>2. CASE j < k
      BY <1>7, <1>8, <2>2
    <2>3. CASE k < j
      BY <1>7, <1>8, <2>3
    <2>4. QED BY <2>1, <2>2, <2>3
  <1>9. QED BY <1>6, <1>8

\* The search stops at the first key that is not below datum: for an ascending
\* list the gadgets that it counts at key i or before are those whose
\* statistic is at most the key.
LEMMA LowerBoundExact ==
  ASSUME NEW keys \in Seq(Nat), Ascending(keys), NEW datum \in Nat,
         NEW i \in 1..Len(keys)
  PROVE  LowerBound(keys, datum) <= i <=> datum <= keys[i]
  <1> DEFINE W == KeyRange(Len(keys))
             g == [w \in W |-> CHOOSE j : Splits(keys, datum, w, j)]
             search == CHOOSE f : f = [w \in W |-> Pass(keys, datum, f, w)]
  <1>1. \A w \in W : Splits(keys, datum, w, g[w])
    BY RangeIsSplit
  <1>2. ASSUME NEW w \in W PROVE g[w] = Pass(keys, datum, g, w)
    <2> HIDE DEF g
    <2>1. CASE w[2] = 0
      <3>1. w[1] \in Nat
        BY DEF KeyRange
      <3>2. g[w] \in (w[1] + 1)..(w[1] + 0 + 1)
        BY <1>1, <2>1 DEF Splits
      <3>3. g[w] = w[1] + 1
        BY <3>1, <3>2
      <3>4. QED BY <2>1, <3>3 DEF Pass
    <2>2. CASE w[2] # 0
      <3> DEFINE middle == w[1] + w[2] \div 2 + 1
                 right == <<middle, w[1] + w[2] - middle>>
                 left == <<w[1], w[2] \div 2>>
      <3>1. Len(keys) \in Nat /\ right \in W /\ left \in W
        BY <2>2, Halves
      <3>2. Splits(keys, datum, w, IF keys[middle] < datum THEN g[right] ELSE g[left])
        <4>1. Splits(keys, datum, right, g[right]) /\ Splits(keys, datum, left, g[left])
          BY <1>1, <3>1
        <4>2. QED BY <2>2, <4>1, SplitOfHalf
      <3>3. g[w] = IF keys[middle] < datum THEN g[right] ELSE g[left]
        <4> HIDE DEF middle, right, left
        <4>1. QED BY <1>1, <3>2, RangeIsSplit
      <3>4. QED BY <2>2, <3>3 DEF Pass
    <2>3. QED BY <2>1, <2>2
  <1>3. g = [w \in W |-> Pass(keys, datum, g, w)]
    <2>1. g = [w \in W |-> g[w]]
      OBVIOUS
    <2> HIDE DEF g
    <2>2. QED BY <1>2, <2>1
  <1>4. search = [w \in W |-> Pass(keys, datum, search, w)]
    BY <1>3
  <1> HIDE DEF g
  <1>5. \A w \in W : search[w] = Pass(keys, datum, search, w)
    <2> HIDE DEF search
    <2> QED BY <1>4
  <1>6. LowerBound(keys, datum) = search[<<0, Len(keys)>>]
    BY DEF LowerBound, Pass
  <1> HIDE DEF search
  <1>7. \A w \in W : Splits(keys, datum, w, search[w])
    <2> DEFINE Bad == {w \in W : ~Splits(keys, datum, w, search[w])}
               T == {w[2] : w \in Bad}
    <2> SUFFICES ASSUME Bad # {} PROVE FALSE
      OBVIOUS
    <2>1. T # {} /\ T \subseteq Nat
      BY DEF KeyRange
    <2>2. PICK w \in Bad : \A v \in Bad : w[2] <= v[2]
      <3> HIDE DEF Bad
      <3>1. PICK t \in T : \A u \in T : t <= u
        <4> HIDE DEF T
        <4> QED BY <2>1, LeastNumber
      <3>2. QED BY <3>1
    <2>3. w[1] \in Nat /\ w[2] \in Nat
      BY DEF KeyRange
    <2>4. CASE w[2] = 0
      <3>1. search[w] = w[1] + 1
        BY <1>5, <2>4 DEF Pass
      <3>2. Splits(keys, datum, w, w[1] + 1)
        BY <2>3, <2>4 DEF Splits
      <3>3. QED BY <3>1, <3>2
    <2>5. CASE w[2] # 0
      <3> DEFINE middle == w[1] + w[2] \div 2 + 1
                 right == <<middle, w[1] + w[2] - middle>>
                 left == <<w[1], w[2] \div 2>>
      <3>1. Len(keys) \in Nat /\ right \in W /\ left \in W
        BY <2>5, Halves
      <3>2. w[1] + w[2] - middle < w[2] /\ w[2] \div 2 < w[2]
            /\ w[1] + w[2] - middle \in Nat /\ w[2] \div 2 \in Nat
        BY <2>5, <3>1, Halves
      <3>3. right[2] < w[2] /\ left[2] < w[2] /\ right[2] \in Nat /\ left[2] \in Nat
        BY <3>2
      <3>4. right \notin Bad /\ left \notin Bad
        <4> HIDE DEF right, left, Bad
        <4> QED BY <2>2, <2>3, <3>3
      <3>5. Splits(keys, datum, right, search[right]) /\ Splits(keys, datum, left, search[left])
        BY <3>1, <3>4
      <3>6. search[w] = IF keys[middle] < datum THEN search[right] ELSE search[left]
        BY <1>5, <2>5 DEF Pass
      <3>7. Splits(keys, datum, w, IF keys[middle] < datum THEN search[right] ELSE search[left])
        <4>1. w \in W
          OBVIOUS
        <4>2. keys[middle] < datum => Splits(keys, datum, w, search[right])
          BY <2>5, <3>5, <4>1, SplitOfHalf
        <4>3. ~(keys[middle] < datum) => Splits(keys, datum, w, search[left])
          BY <2>5, <3>5, <4>1, SplitOfHalf
        <4>4. QED BY <4>2, <4>3
      <3>8. QED BY <3>6, <3>7
    <2>6. QED BY <2>4, <2>5
  <1> DEFINE n == Len(keys)
             b == LowerBound(keys, datum)
  <1>8. /\ b \in 1..(n + 1) /\ \A j \in 1..(b - 1) : keys[j] < datum
        /\ \A j \in b..n : keys[j] >= datum
    <2>1. <<0, n>> \in W /\ n \in Nat
      BY DEF KeyRange
    <2>2. Splits(keys, datum, <<0, n>>, b)
      BY <1>6, <1>7, <2>1
    <2> HIDE DEF b
    <2>3. QED BY <2>1, <2>2 DEF Splits
  <1>9. n \in Nat /\ keys[i] \in Nat
    OBVIOUS
  <1> HIDE DEF b
  <1>10. QED BY <1>8, <1>9 DEF b

-----------------------------------------------------------------------------
(* Lists of keys.                                                          *)

\* A list has finitely many keys.
LEMMA RangeFinite == ASSUME NEW r \in Seq(Nat) PROVE Range(r) \subseteq Nat /\ IsFiniteSet(Range(r))
  <1>1. Range(r) = {r[i] : i \in 1..Len(r)} /\ Range(r) \subseteq Nat
    BY DEF Range
  <1>2. IsFiniteSet(1..Len(r))
    BY FS_Interval
  <1>3. r \in Surjection(1..Len(r), Range(r))
    BY <1>1 DEF Surjection
  <1>4. QED BY <1>1, <1>2, <1>3, FS_Surjection

\* The keys are numbers, and each request has finitely many.
LEMMA KeysAreNumbers ==
  /\ Key \subseteq Nat /\ InitialKeys \subseteq Key
  /\ \A r \in Requests : r \in Seq(Nat) /\ Range(r) \subseteq Key /\ IsFiniteSet(Range(r))
  <1>1. ASSUME NEW r \in Requests PROVE r \in Seq(Nat) /\ Range(r) \subseteq Nat /\ IsFiniteSet(Range(r))
    <2>1. r \in Seq(Nat)
      BY PredicatesAssumption
    <2>2. QED BY <2>1, RangeFinite
  <1>2. QED BY <1>1, PredicatesAssumption DEF Key

\* A list of finitely many keys is a sequence of numbers.
LEMMA ListingType ==
  ASSUME NEW K \in SUBSET Nat, IsFiniteSet(K), NEW s \in Listings(K)
  PROVE  s \in Seq(Nat) /\ Range(s) = K
  <1>1. Cardinality(K) \in Nat
    BY FS_CardinalityType
  <1>2. s \in [1..Cardinality(K) -> K] /\ Range(s) = K
    BY DEF Listings
  <1> DEFINE c == Cardinality(K)
  <1> HIDE DEF c
  <1>3. s \in [1..c -> Nat] /\ c \in Nat
    BY <1>1, <1>2 DEF c
  <1>4. s \in Seq(Nat)
    BY <1>3, SeqDef
  <1>5. QED BY <1>2, <1>4

\* What create_predicates makes of the keys that are missing.
LEMMA MissingListing ==
  ASSUME NEW r \in Requests, NEW K \in SUBSET Range(r), NEW s \in Listings(K), OrderedAs(s, r)
  PROVE  s \in Seq(Nat) /\ Range(s) = K /\ (Ascending(r) => Ascending(s))
  <1>1. K \subseteq Nat /\ IsFiniteSet(K) /\ r \in Seq(Nat)
    <2>1. IsFiniteSet(Range(r))
      BY KeysAreNumbers
    <2>2. IsFiniteSet(K)
      BY <2>1, FS_Subset
    <2>3. QED BY <2>2, KeysAreNumbers
  <1>2. s \in Seq(Nat) /\ Range(s) = K
    BY <1>1, ListingType
  <1>3. ASSUME Ascending(r) PROVE Ascending(s)
    BY <1>1, <1>2, <1>3 DEF Ascending, OrderedAs
  <1>4. QED BY <1>2, <1>3

\* What a result has for key i of an ascending list.
LEMMA AccumulateExact ==
  ASSUME NEW d \in Demand, NEW ids \in SUBSET (1..MaxId)
  PROVE  /\ DOMAIN Accumulate(d, ids) = 1..Len(d.keys)
         /\ \A i \in 1..Len(d.keys) : Accumulate(d, ids)[i] \subseteq ids
         /\ Ascending(d.keys) =>
              \A i \in 1..Len(d.keys) : Accumulate(d, ids)[i] = {id \in ids : Stat[id] <= d.keys[i]}
  <1>1. d.keys \in Seq(Nat)
    BY DEF Demand
  <1>2. \A id \in ids : Stat[id] \in Nat
    BY PredicatesAssumption
  <1>3. ASSUME Ascending(d.keys), NEW i \in 1..Len(d.keys)
        PROVE  Accumulate(d, ids)[i] = {id \in ids : Stat[id] <= d.keys[i]}
    <2>1. \A id \in ids : LowerBound(d.keys, Stat[id]) <= i <=> Stat[id] <= d.keys[i]
      BY <1>1, <1>2, <1>3, LowerBoundExact
    <2>2. QED BY <2>1 DEF Accumulate
  <1>4. DOMAIN Accumulate(d, ids) = 1..Len(d.keys)
        /\ \A i \in 1..Len(d.keys) : Accumulate(d, ids)[i] \subseteq ids
    BY DEF Accumulate
  <1>5. QED BY <1>3, <1>4

-----------------------------------------------------------------------------
(* The steps.                                                              *)

\* A result stays that of its demand while both stay.
LEMMA ComputedStays ==
  ASSUME NEW q \in Proc, result'[q] = result[q], demand'[q] = demand[q], lost \subseteq lost', Computed(q)
  PROVE  Computed(q)'
  <1> DEFINE ids(missed) == (demand[q].first..(demand[q].end - 1)) \ missed
  <1>1. PICK missed \in SUBSET lost : result[q] = Accumulate(demand[q], ids(missed))
    BY DEF Computed
  <1>2. Accumulate(demand[q], ids(missed))' = Accumulate(demand[q], ids(missed))
    BY DEF Accumulate
  <1>3. missed \in SUBSET lost' /\ result'[q] = Accumulate(demand[q], ids(missed))'
    BY <1>1, <1>2
  <1>4. QED BY <1>3 DEF Computed

\* Steps that leave the database alone and move one process, which does not
\* have a result before or afterwards.
LEMMA GotoKeepsInv ==
  ASSUME IInv, NEW p \in Proc, NEW d \in Demand, NEW where,
         Goto(p, where, d), UNCHANGED <<create_alone, max_id, db>>,
         pc[p] # "commit", where \in {"idle", "create_empty", "compute", "current"},
         Range(d.keys) \subseteq Key,
         where = "create_empty" => d.create /\ (create_alone => valid_before = 1),
         where = "compute" => d.first >= 1 /\ d.end <= max_id + 1 /\ (RequestsAscending => Ascending(d.keys)),
         create_alone /\ where # "idle" =>
           \A q \in Proc \ {p} : pc[q] = "idle" \/ (~d.create /\ ~demand[q].create),
         create_alone /\ where = "compute" =>
           IF d.create THEN d.first = 1 /\ d.end = valid_before /\ Range(d.keys) \cap DOMAIN pred = {}
                       ELSE Range(d.keys) = DOMAIN pred /\ d.first <= valid_before
  PROVE  IInv'
  <1>1. /\ UNCHANGED <<create_alone, max_id, valid_before, pred, result, lost>>
        /\ pc' = [pc EXCEPT ![p] = where] /\ demand' = [demand EXCEPT ![p] = d]
    BY DEF Goto, db
  <1>2. TypeInv'
    BY <1>1 DEF IInv, TypeInv
  <1>3. \A q \in Proc : /\ pc'[q] = IF q = p THEN where ELSE pc[q]
                        /\ demand'[q] = IF q = p THEN d ELSE demand[q]
    BY <1>1 DEF IInv, TypeInv
  <1>4. DemandInv'
    <2> SUFFICES ASSUME NEW q \in Proc
                 PROVE  /\ Wanted(q)' \subseteq Key
                        /\ pc'[q] = "create_empty" => demand'[q].create
                        /\ Busy(q)' => demand'[q].first >= 1 /\ demand'[q].end <= max_id' + 1
                        /\ IF pc'[q] = "commit" THEN Computed(q)' ELSE result'[q] = <<>>
      BY DEF DemandInv, Key
    <2>1. CASE q = p
      <3>1. pc'[q] = where /\ demand'[q] = d /\ result'[q] = result[p]
        BY <1>1, <1>3, <2>1
      <3>2. result[p] = <<>>
        BY DEF IInv, DemandInv
      <3>3. QED BY <1>1, <3>1, <3>2 DEF Wanted, Busy
    <2>2. CASE q # p
      <3>1. pc'[q] = pc[q] /\ demand'[q] = demand[q] /\ result'[q] = result[q] /\ max_id' = max_id
        BY <1>1, <1>3, <2>2
      <3>2. Computed(q) => Computed(q)'
        BY <1>1, <3>1, ComputedStays
      <3>3. QED BY <3>1, <3>2 DEF IInv, DemandInv, Wanted, Busy
    <2>3. QED BY <2>1, <2>2
  <1>5. OrderInv'
    BY <1>1, <1>3 DEF IInv, OrderInv, Busy, RequestsAscending
  <1>6. AloneInv'
    <2> SUFFICES ASSUME create_alone, NEW q \in Proc
                 PROVE  /\ pc'[q] # "idle" /\ demand'[q].create => \A o \in Proc \ {q} : pc'[o] = "idle"
                        /\ Busy(q)' /\ ~demand'[q].create =>
                             Wanted(q)' = DOMAIN pred /\ demand'[q].first <= valid_before
                        /\ Busy(q)' /\ demand'[q].create =>
                             /\ demand'[q].first = 1 /\ demand'[q].end = valid_before
                             /\ Wanted(q)' \cap DOMAIN pred = {}
                        /\ pc'[q] = "create_empty" => valid_before = 1
      BY <1>1 DEF AloneInv
    <2>1. CASE q = p
      BY <1>3, <2>1 DEF Wanted, Busy
    <2>2. CASE q # p
      BY <1>3, <2>2 DEF IInv, AloneInv, Wanted, Busy
    <2>3. QED BY <2>1, <2>2
  <1>7. ContentInv'
    BY <1>1 DEF IInv, ContentInv, Sound, ExactWhenAlone, Matching, RequestsAscending
  <1>8. QED BY <1>2, <1>4, <1>5, <1>6, <1>7 DEF IInv

\* Nobody asks anything.
LEMMA NoDemandType == NoDemand \in Demand /\ Range(NoDemand.keys) = {} /\ ~NoDemand.create
  <1>1. <<>> \in Seq(Nat)
    BY EmptySeq
  <1>2. Range(<<>>) = {}
    BY DEF Range
  <1>3. QED BY <1>1, <1>2 DEF NoDemand, Demand

\* discover
LEMMA DiscoverKeepsInv ==
  ASSUME IInv, NEW p \in Proc, NEW asked \in 1..(MaxId + 1), update_SL_predicates_discover(p, asked)
  PROVE  IInv'
  <1> DEFINE end == IF asked < max_id + 1 THEN asked ELSE max_id + 1
  <1>1. /\ max_id \in Nat /\ valid_before \in Nat \ {0} /\ MaxId \in Nat
        /\ DOMAIN pred \in SUBSET Nat /\ IsFiniteSet(DOMAIN pred) /\ DOMAIN pred \subseteq Key
    <2>1. max_id \in Nat /\ valid_before \in Nat \ {0} /\ MaxId \in Nat
      BY PredicatesAssumption DEF IInv, TypeInv
    <2>2. DOMAIN pred \subseteq Key /\ IsFiniteSet(DOMAIN pred)
      BY DEF IInv, TypeInv
    <2>3. QED BY <2>1, <2>2, KeysAreNumbers
  <1>2. end \in Nat /\ end <= max_id + 1
    BY <1>1
  <1>3. /\ pc[p] = "idle" /\ UNCHANGED <<create_alone, max_id, db>>
        /\ create_alone => \A q \in Proc \ {p} : pc[q] = "idle" \/ ~demand[q].create
    BY DEF update_SL_predicates_discover, MayUpdate
  <1>4. CASE Goto(p, "current", NoDemand)
    BY <1>3, <1>4, NoDemandType, GotoKeepsInv
  <1>5. ASSUME NEW keys \in Listings(DOMAIN pred), Ascending(keys),
               Goto(p, "compute", [first |-> valid_before, end |-> end, create |-> FALSE, keys |-> keys])
        PROVE  IInv'
    <2> DEFINE d == [first |-> valid_before, end |-> end, create |-> FALSE, keys |-> keys]
    <2>1. keys \in Seq(Nat) /\ Range(keys) = DOMAIN pred
      BY <1>1, ListingType
    <2>2. d \in Demand /\ d.first = valid_before /\ d.end = end /\ d.create = FALSE /\ d.keys = keys
      <3> HIDE DEF end
      <3> QED BY <1>1, <1>2, <2>1 DEF Demand
    <2>3. Goto(p, "compute", d)
      BY <1>5
    <2> HIDE DEF d, end
    <2>4. d.first >= 1 /\ d.end <= max_id + 1 /\ d.first <= valid_before
      BY <1>1, <1>2, <2>2
    <2>5. QED BY <1>1, <1>3, <1>5, <2>1, <2>2, <2>3, <2>4, GotoKeepsInv
  <1>6. QED BY <1>4, <1>5 DEF update_SL_predicates_discover

\* The read transaction of create_predicates.
LEMMA CreateKeepsInv ==
  ASSUME IInv, NEW p \in Proc, NEW required \in Requests, create_predicates(p, required)
  PROVE  IInv'
  <1> DEFINE create(keys) == [first |-> 1, end |-> valid_before, create |-> TRUE, keys |-> keys]
  <1>1. /\ valid_before \in Nat \ {0} /\ valid_before <= max_id + 1
        /\ required \in Seq(Nat) /\ Range(required) \subseteq Key
    BY PredicatesAssumption, KeysAreNumbers DEF IInv, TypeInv
  <1>2. /\ pc[p] = "idle" /\ UNCHANGED <<create_alone, max_id, db>>
        /\ create_alone => \A q \in Proc \ {p} : pc[q] = "idle"
    BY DEF create_predicates, MayCreate, Quiet
  <1>3. ASSUME NEW keys \in Seq(Nat)
        PROVE  /\ create(keys) \in Demand /\ create(keys).first = 1 /\ create(keys).end = valid_before
               /\ create(keys).create /\ create(keys).keys = keys
    BY <1>1 DEF Demand
  <1> HIDE DEF create
  <1>4. CASE valid_before = 1 /\ Goto(p, "create_empty", create(required))
    BY <1>1, <1>2, <1>3, <1>4, GotoKeepsInv
  <1>5. CASE Goto(p, "current", create(required))
    BY <1>1, <1>2, <1>3, <1>5, GotoKeepsInv
  <1>6. ASSUME NEW keys \in Listings(Range(required) \ DOMAIN pred), OrderedAs(keys, required),
               Goto(p, "compute", create(keys))
        PROVE  IInv'
    <2>1. keys \in Seq(Nat) /\ Range(keys) = Range(required) \ DOMAIN pred
          /\ (Ascending(required) => Ascending(keys))
      BY <1>6, MissingListing
    <2>2. RequestsAscending => Ascending(keys)
      BY <2>1 DEF RequestsAscending
    <2> DEFINE d == create(keys)
    <2>3. /\ d \in Demand /\ d.first = 1 /\ d.end = valid_before /\ d.create /\ d.keys = keys
          /\ Goto(p, "compute", d)
      BY <1>3, <1>6, <2>1
    <2> HIDE DEF d
    <2>4. d.first >= 1 /\ d.end <= max_id + 1 /\ Range(d.keys) \subseteq Key
          /\ Range(d.keys) \cap DOMAIN pred = {}
      BY <1>1, <2>1, <2>3
    <2>5. QED BY <1>2, <2>2, <2>3, <2>4, GotoKeepsInv
  <1>7. QED BY <1>4, <1>5, <1>6 DEF create_predicates, create

\* The end of a call.
LEMMA ReturnKeepsInv ==
  ASSUME IInv, NEW p \in Proc, return(p)
  PROVE  IInv'
  <1>1. pc[p] # "commit" /\ Goto(p, "idle", NoDemand) /\ UNCHANGED <<create_alone, max_id, db>>
    BY DEF return
  <1>2. QED BY <1>1, NoDemandType, GotoKeepsInv

\* A new gadget is in no demand.
LEMMA InsertKeepsInv == ASSUME IInv, insert_gadget PROVE IInv'
  <1>1. /\ UNCHANGED <<create_alone, valid_before, pred, pc, demand, result, lost>>
        /\ max_id \in 0..MaxId /\ max_id' = max_id + 1 /\ max_id < MaxId /\ MaxId \in Nat
    BY PredicatesAssumption DEF IInv, TypeInv, insert_gadget, db
  <1>2. TypeInv'
    <2>1. max_id' \in 0..MaxId /\ valid_before \in 1..(max_id' + 1)
      BY <1>1 DEF IInv, TypeInv
    <2>2. QED BY <1>1, <2>1 DEF IInv, TypeInv
  <1>3. DemandInv'
    <2>1. \A p \in Proc : demand[p].end \in Nat
      BY DEF IInv, TypeInv, Demand
    <2>2. \A p \in Proc : demand[p].end <= max_id + 1 => demand[p].end <= max_id' + 1
      BY <1>1, <2>1
    <2>3. \A p \in Proc : Computed(p) => Computed(p)'
      BY <1>1, ComputedStays
    <2>4. QED BY <1>1, <2>2, <2>3 DEF IInv, DemandInv, Wanted, Busy
  <1>4. OrderInv' /\ AloneInv' /\ ContentInv'
    BY <1>1 DEF IInv, OrderInv, AloneInv, ContentInv, Sound, ExactWhenAlone, Matching,
                RequestsAscending, Wanted, Busy
  <1>5. QED BY <1>2, <1>3, <1>4 DEF IInv

\* The gadgets of a demand are all there, so that the result has what no failing
\* task missed.
LEMMA ComputeKeepsInv ==
  ASSUME IInv, NEW p \in Proc, NEW missed \in SUBSET (1..MaxId), meet_update_demand(p, missed)
  PROVE  IInv'
  <1> DEFINE d == demand[p]
             ids == d.first..(d.end - 1)
  <1>1. /\ UNCHANGED <<create_alone, max_id, valid_before, pred, demand>> /\ lost' = lost \cup missed
        /\ pc[p] = "compute" /\ pc' = [pc EXCEPT ![p] = "commit"]
        /\ result' = [result EXCEPT ![p] = Accumulate(d, {id \in ids : id <= max_id} \ missed)]
    BY DEF meet_update_demand, db
  <1>2. {id \in ids : id <= max_id} = ids
    <2>1. d.first \in Nat /\ d.end \in Nat /\ d.end <= max_id + 1 /\ max_id \in Nat
      BY <1>1 DEF IInv, TypeInv, Demand, DemandInv, Busy
    <2> HIDE DEF d
    <2>2. QED BY <2>1
  <1>3. \A q \in Proc : /\ pc'[q] = IF q = p THEN "commit" ELSE pc[q]
                        /\ result'[q] = IF q = p THEN Accumulate(d, ids \ missed) ELSE result[q]
    BY <1>1, <1>2 DEF IInv, TypeInv
  <1>4. TypeInv'
    BY <1>1 DEF IInv, TypeInv
  <1>5. \A q \in Proc : Busy(q)' = Busy(q) /\ Wanted(q)' = Wanted(q)
    BY <1>1, <1>3 DEF Busy, Wanted
  <1>6. DemandInv'
    <2> SUFFICES ASSUME NEW q \in Proc
                 PROVE  /\ Wanted(q)' \subseteq Key
                        /\ pc'[q] = "create_empty" => demand'[q].create
                        /\ Busy(q)' => demand'[q].first >= 1 /\ demand'[q].end <= max_id' + 1
                        /\ IF pc'[q] = "commit" THEN Computed(q)' ELSE result'[q] = <<>>
      BY DEF DemandInv, Key
    <2>1. CASE q = p
      <3>1. pc'[q] = "commit" /\ demand'[q] = d /\ result'[q] = Accumulate(d, ids \ missed) /\ max_id' = max_id
        BY <1>1, <1>3, <2>1
      <3>2. Wanted(q)' \subseteq Key /\ (Busy(q)' => d.first >= 1 /\ d.end <= max_id + 1)
        BY <1>5, <2>1 DEF IInv, DemandInv
      <3>3. missed \in SUBSET lost' /\ Accumulate(d, ids \ missed)' = Accumulate(d, ids \ missed)
        BY <1>1 DEF Accumulate
      <3>4. Computed(q)'
        <4> HIDE DEF d, ids
        <4>1. /\ missed \in SUBSET lost'
              /\ result'[q] = Accumulate(demand'[q], (demand'[q].first..(demand'[q].end - 1)) \ missed)
          BY <3>1, <3>3 DEF ids
        <4>2. QED BY <4>1 DEF Computed, Accumulate
      <3>5. QED BY <3>1, <3>2, <3>4
    <2>2. CASE q # p
      <3>1. Computed(q) => Computed(q)'
        BY <1>1, <1>3, <2>2, ComputedStays
      <3>2. QED BY <1>1, <1>3, <1>5, <2>2, <3>1 DEF IInv, DemandInv
    <2>3. QED BY <2>1, <2>2
  <1>7. OrderInv' /\ ContentInv'
    BY <1>1, <1>5 DEF IInv, OrderInv, ContentInv, Sound, ExactWhenAlone, Matching, RequestsAscending
  <1>8. AloneInv'
    <2>1. \A q \in Proc : /\ (pc'[q] = "idle") = (pc[q] = "idle")
                          /\ pc'[q] = "create_empty" => pc[q] = "create_empty"
      BY <1>1, <1>3
    <2>2. QED BY <1>1, <1>5, <2>1 DEF IInv, AloneInv
  <1>9. QED BY <1>4, <1>6, <1>7, <1>8 DEF IInv

\* A process ends its operation, and the database changes in a way that all
\* others can live with.
LEMMA EndKeepsInv ==
  ASSUME IInv, NEW p \in Proc, NEW how \in {"updated", "current", "threw"},
         pc[p] \in {"compute", "commit", "create_empty"}, Finish(p, how),
         UNCHANGED <<create_alone, max_id, demand, lost>>,
         result' = [result EXCEPT ![p] = <<>>] \/ (pc[p] = "create_empty" /\ result' = result),
         valid_before' \in valid_before..(max_id + 1),
         DOMAIN pred' \in {DOMAIN pred, DOMAIN pred \cup Wanted(p)},
         \A k \in DOMAIN pred' : pred'[k] \subseteq 1..(valid_before' - 1),
         RequestsAscending => Sound' /\ ExactWhenAlone'
  PROVE  IInv'
  <1>1. \A q \in Proc : /\ pc'[q] = IF q = p THEN how ELSE pc[q]
                        /\ result'[q] = IF q = p THEN <<>> ELSE result[q]
    BY DEF Finish, IInv, TypeInv, DemandInv
  <1>2. TypeInv'
    <2>1. IsFiniteSet(DOMAIN pred') /\ DOMAIN pred' \subseteq Key
      <3>1. demand[p].keys \in Seq(Nat) /\ Wanted(p) \subseteq Key
        BY DEF IInv, TypeInv, Demand, DemandInv
      <3>2. IsFiniteSet(Wanted(p))
        BY <3>1, RangeFinite DEF Wanted
      <3>3. IsFiniteSet(DOMAIN pred) /\ DOMAIN pred \subseteq Key
        BY DEF IInv, TypeInv
      <3>4. IsFiniteSet(DOMAIN pred \cup Wanted(p))
        BY <3>2, <3>3, FS_Union
      <3>5. QED BY <3>1, <3>3, <3>4
    <2>2. valid_before' \in 1..(max_id' + 1)
      BY DEF IInv, TypeInv
    <2>3. DOMAIN result' = Proc
      BY DEF IInv, TypeInv
    <2>4. pc' \in [Proc -> {"idle", "create_empty", "compute", "commit", "updated", "current", "threw"}]
      BY DEF IInv, TypeInv, Finish
    <2>5. Key' = Key
      BY DEF Key
    <2>6. QED BY <2>1, <2>2, <2>3, <2>4, <2>5 DEF IInv, TypeInv
  <1>3. \A q \in Proc : Wanted(q)' = Wanted(q) /\ (Busy(q)' <=> q # p /\ Busy(q))
    BY <1>1 DEF Busy, Wanted
  <1>4. DemandInv'
    <2> SUFFICES ASSUME NEW q \in Proc
                 PROVE  /\ Wanted(q)' \subseteq Key
                        /\ pc'[q] = "create_empty" => demand'[q].create
                        /\ Busy(q)' => demand'[q].first >= 1 /\ demand'[q].end <= max_id' + 1
                        /\ IF pc'[q] = "commit" THEN Computed(q)' ELSE result'[q] = <<>>
      BY DEF DemandInv, Key
    <2>1. CASE q = p
      BY <1>1, <1>3, <2>1 DEF IInv, DemandInv
    <2>2. CASE q # p
      <3>1. Computed(q) => Computed(q)'
        BY <1>1, <2>2, ComputedStays
      <3>2. QED BY <1>1, <1>3, <2>2, <3>1 DEF IInv, DemandInv
    <2>3. QED BY <2>1, <2>2
  <1>5. OrderInv'
    BY <1>3 DEF IInv, OrderInv, RequestsAscending
  <1>6. ASSUME create_alone, NEW q \in Proc
        PROVE  /\ pc'[q] # "idle" /\ demand[q].create => \A o \in Proc \ {q} : pc'[o] = "idle"
               /\ Busy(q)' /\ ~demand[q].create => Wanted(q) = DOMAIN pred' /\ demand[q].first <= valid_before'
               /\ Busy(q)' /\ demand[q].create =>
                    /\ demand[q].first = 1 /\ demand[q].end = valid_before'
                    /\ Wanted(q) \cap DOMAIN pred' = {}
               /\ pc'[q] = "create_empty" => valid_before' = 1
    <2>1. CASE q = p
      BY <1>1, <1>3, <1>6, <2>1 DEF IInv, AloneInv
    <2>2. CASE q # p /\ pc[q] = "idle"
      BY <1>1, <1>3, <2>2 DEF Busy
    <2>3. CASE q # p /\ pc[q] # "idle"
      <3>1. ~demand[q].create /\ ~demand[p].create
        BY <1>6, <2>3 DEF IInv, AloneInv
      <3>2. Busy(p) /\ pc[q] # "create_empty"
        BY <3>1 DEF IInv, DemandInv, Busy
      <3>3. Wanted(p) = DOMAIN pred /\ DOMAIN pred' = DOMAIN pred
        BY <1>6, <3>1, <3>2 DEF IInv, AloneInv
      <3>4. Busy(q) => Wanted(q) = DOMAIN pred /\ demand[q].first <= valid_before
        BY <1>6, <3>1 DEF IInv, AloneInv
      <3>5. demand[q].first \in Nat /\ valid_before \in Nat
        BY DEF IInv, TypeInv, Demand
      <3>6. QED BY <1>1, <1>3, <3>1, <3>2, <3>3, <3>4, <3>5
    <2>4. QED BY <2>1, <2>2, <2>3
  <1>7. AloneInv'
    BY <1>3, <1>6 DEF AloneInv
  <1>8. ContentInv'
    BY DEF ContentInv, RequestsAscending
  <1>9. QED BY <1>2, <1>4, <1>5, <1>7, <1>8 DEF IInv

\* What a commit makes of a key, among those it had and those of the demand.
LEMMA PutContents ==
  ASSUME IInv, NEW p \in Proc, pc[p] = "commit", demand[p].end >= valid_before,
         NEW k \in DOMAIN pred \cup Wanted(p)
  PROVE  LET new == Put(demand[p], result[p], k)
         IN  /\ k \in DOMAIN pred => pred[k] \subseteq new
             /\ new \subseteq 1..(demand[p].end - 1)
             /\ RequestsAscending =>
                  /\ Sound => new \subseteq Matching(k, demand[p].end)
                  /\ ExactWhenAlone /\ create_alone => Matching(k, demand[p].end) \ lost \subseteq new
  <1> DEFINE d == demand[p]
             e == d.end
             all == d.first..(e - 1)
             r == result[p]
             new == Put(d, r, k)
             i == CHOOSE j \in 1..Len(d.keys) : d.keys[j] = k
  <1>1. /\ d \in Demand /\ d.keys \in Seq(Nat) /\ d.first \in Nat /\ e \in Nat /\ d.create \in BOOLEAN
        /\ d.first >= 1 /\ e <= max_id + 1 /\ (RequestsAscending => Ascending(d.keys))
    BY DEF IInv, TypeInv, Demand, DemandInv, OrderInv, Busy
  <1>0. PICK missed \in SUBSET lost : r = Accumulate(d, all \ missed)
    BY DEF IInv, DemandInv, Computed
  <1> DEFINE ids == all \ missed
  <1>2. valid_before \in Nat \ {0} /\ max_id \in Nat /\ max_id <= MaxId /\ MaxId \in Nat
    BY PredicatesAssumption DEF IInv, TypeInv
  <1>3. k \in Wanted(p) => i \in 1..Len(d.keys) /\ d.keys[i] = k
    <2>1. k \in Wanted(p) => \E j \in 1..Len(d.keys) : d.keys[j] = k
      BY <1>1 DEF Wanted, Range
    <2>2. QED BY <2>1
  <1> HIDE DEF i
  <1>4. new = IF k \notin Wanted(p) THEN pred[k]
              ELSE IF k \notin DOMAIN pred THEN r[i]
              ELSE IF e = valid_before THEN pred[k] ELSE pred[k] \cup r[i]
    BY DEF Put, Wanted, i
  <1> HIDE DEF new, d, e, r
  <1>5. ids \in SUBSET (1..MaxId) /\ ids \subseteq 1..(e - 1)
    <2>1. all \in SUBSET (1..MaxId) /\ all \subseteq 1..(e - 1)
      BY <1>1, <1>2
    <2>2. QED BY <2>1
  <1>6. ASSUME k \in Wanted(p)
        PROVE  r[i] \subseteq ids /\ (RequestsAscending => r[i] = {id \in ids : Stat[id] <= k})
    <2> HIDE DEF ids
    <2>1. Accumulate(d, ids)[i] \subseteq ids
      BY <1>1, <1>3, <1>5, <1>6, AccumulateExact
    <2>2. Ascending(d.keys) => Accumulate(d, ids)[i] = {id \in ids : Stat[id] <= d.keys[i]}
      BY <1>1, <1>3, <1>5, <1>6, AccumulateExact
    <2>3. r = Accumulate(d, ids)
      BY <1>0 DEF ids
    <2>4. QED BY <1>1, <1>3, <1>6, <2>1, <2>2, <2>3
  <1>7. k \in DOMAIN pred => pred[k] \subseteq 1..(valid_before - 1) /\ pred[k] \subseteq 1..(e - 1)
    <2>1. k \in DOMAIN pred => pred[k] \subseteq 1..(valid_before - 1)
      BY DEF IInv, TypeInv
    <2>2. e >= valid_before
      BY DEF e, d
    <2>3. 1..(valid_before - 1) \subseteq 1..(e - 1)
      BY <1>1, <1>2, <2>2
    <2>4. QED BY <2>1, <2>3
  <1>8. (k \in DOMAIN pred => pred[k] \subseteq new) /\ new \subseteq 1..(e - 1)
    BY <1>4, <1>5, <1>6, <1>7
  <1>9. ASSUME RequestsAscending, Sound PROVE new \subseteq Matching(k, e)
    <2>1. k \in DOMAIN pred => \A id \in pred[k] : Stat[id] <= k
      BY <1>9 DEF Sound, Matching
    <2>2. \A id \in new : Stat[id] <= k
      BY <1>4, <1>6, <1>9, <2>1
    <2>3. QED BY <1>8, <2>2 DEF Matching
  <1>10. ASSUME RequestsAscending, ExactWhenAlone, create_alone PROVE Matching(k, e) \ lost \subseteq new
    <2>1. k \in DOMAIN pred => {id \in 1..(valid_before - 1) : Stat[id] <= k} \ lost \subseteq pred[k]
      BY <1>10 DEF ExactWhenAlone, Matching
    <2>2. e >= valid_before
      BY DEF e, d
    <2>3. all \ lost \subseteq ids
      BY DEF ids
    <2>4. CASE ~d.create
      <3>1. Wanted(p) = DOMAIN pred /\ d.first <= valid_before
        BY <1>10, <2>4 DEF IInv, AloneInv, Busy, d
      <3>2. CASE e = valid_before
        BY <1>4, <2>1, <3>1, <3>2 DEF Matching
      <3>3. CASE e # valid_before
        <4>1. new = pred[k] \cup r[i] /\ r[i] = {id \in ids : Stat[id] <= k} /\ k \in DOMAIN pred
          BY <1>4, <1>6, <1>10, <3>1, <3>3
        <4>2. 1..(e - 1) = 1..(valid_before - 1) \cup all
          BY <1>1, <1>2, <2>2, <3>1
        <4> HIDE DEF ids, all
        <4>3. QED BY <2>1, <2>3, <4>1, <4>2 DEF Matching
      <3>4. QED BY <3>2, <3>3
    <2>5. CASE d.create
      <3>1. d.first = 1 /\ e = valid_before /\ Wanted(p) \cap DOMAIN pred = {}
        BY <1>10, <2>5 DEF IInv, AloneInv, Busy, d, e
      <3>2. CASE k \in Wanted(p)
        <4>1. new = r[i] /\ r[i] = {id \in ids : Stat[id] <= k} /\ all = 1..(e - 1)
          BY <1>4, <1>6, <1>10, <3>1, <3>2
        <4> HIDE DEF ids, all
        <4>2. QED BY <2>3, <4>1 DEF Matching
      <3>3. CASE k \notin Wanted(p)
        BY <1>4, <2>1, <3>1, <3>3 DEF Matching
      <3>4. QED BY <3>2, <3>3
    <2>6. QED BY <1>1, <2>4, <2>5
  <1>11. QED BY <1>8, <1>9, <1>10 DEF new, d, e, r

\* The write transaction of an update or a creation.
LEMMA CommitKeepsInv == ASSUME IInv, NEW p \in Proc, update_SL_predicates_commit(p) PROVE IInv'
  <1> DEFINE d == demand[p]
             r == result[p]
             unchanged == IF d.create THEN "threw" ELSE "current"
             how == IF Written(d, r) THEN "updated" ELSE unchanged
  <1>1. /\ pc[p] = "commit" /\ UNCHANGED <<create_alone, max_id, demand, lost>>
        /\ result' = [result EXCEPT ![p] = <<>>]
    BY DEF update_SL_predicates_commit
  <1>2. CASE d.end >= valid_before /\ valid_before' = d.end
             /\ pred' = [k \in DOMAIN pred \cup Range(d.keys) |-> Put(d, r, k)] /\ Finish(p, how)
    <2>1. d.end \in valid_before..(max_id + 1)
      <3>1. d.end \in Nat /\ d.end <= max_id + 1 /\ valid_before \in Nat /\ max_id \in Nat
        BY <1>1 DEF IInv, TypeInv, Demand, DemandInv, Busy
      <3> HIDE DEF d
      <3>2. QED BY <1>2, <3>1
    <2>2. DOMAIN pred' = DOMAIN pred \cup Wanted(p) /\ \A k \in DOMAIN pred' : pred'[k] = Put(d, r, k)
      BY <1>2 DEF Wanted
    <2>3. \A k \in DOMAIN pred' :
            /\ pred'[k] \subseteq 1..(d.end - 1)
            /\ RequestsAscending => /\ Sound => pred'[k] \subseteq Matching(k, d.end)
                                    /\ ExactWhenAlone /\ create_alone => Matching(k, d.end) \ lost \subseteq pred'[k]
      BY <1>1, <1>2, <2>2, PutContents
    <2>4. RequestsAscending => Sound' /\ ExactWhenAlone'
      <3>1. RequestsAscending => Sound /\ ExactWhenAlone
        BY DEF IInv, ContentInv
      <3>2. \A k \in DOMAIN pred' : Matching(k, valid_before)' = Matching(k, d.end)
        BY <1>2 DEF Matching
      <3>3. QED BY <1>1, <2>3, <3>1, <3>2 DEF Sound, ExactWhenAlone
    <2>5. how \in {"updated", "current", "threw"}
      OBVIOUS
    <2> HIDE DEF d, how
    <2>6. QED BY <1>1, <1>2, <2>1, <2>2, <2>3, <2>4, <2>5, EndKeepsInv
  <1>3. CASE d.end < valid_before /\ Finish(p, unchanged) /\ UNCHANGED db
    <2>1. UNCHANGED <<valid_before, pred>> /\ unchanged \in {"updated", "current", "threw"}
      BY <1>3 DEF db
    <2>2. /\ valid_before' \in valid_before..(max_id + 1)
          /\ \A k \in DOMAIN pred' : pred'[k] \subseteq 1..(valid_before' - 1)
      BY <2>1 DEF IInv, TypeInv
    <2>3. RequestsAscending => Sound' /\ ExactWhenAlone'
      BY <1>1, <2>1 DEF IInv, ContentInv, Sound, ExactWhenAlone, Matching
    <2> HIDE DEF unchanged
    <2>4. QED BY <1>1, <1>3, <2>1, <2>2, <2>3, EndKeepsInv
  <1>4. QED BY <1>2, <1>3 DEF update_SL_predicates_commit

\* New keys while nothing is valid yet.
LEMMA CreateEmptyKeepsInv == ASSUME IInv, NEW p \in Proc, create_empty(p) PROVE IInv'
  <1>1. /\ pc[p] = "create_empty" /\ Finish(p, "updated")
        /\ UNCHANGED <<create_alone, max_id, valid_before, demand, result, lost>>
        /\ DOMAIN pred' = DOMAIN pred \cup Wanted(p)
        /\ \A k \in DOMAIN pred' : pred'[k] = IF k \in DOMAIN pred THEN pred[k] ELSE {}
    BY DEF create_empty, Wanted
  <1>2. valid_before' \in valid_before..(max_id + 1)
    BY <1>1 DEF IInv, TypeInv
  <1>3. \A k \in DOMAIN pred' : pred'[k] \subseteq 1..(valid_before' - 1)
    BY <1>1 DEF IInv, TypeInv
  <1>4. RequestsAscending => Sound' /\ ExactWhenAlone'
    <2>1. \A k \in DOMAIN pred' : Matching(k, valid_before)' = Matching(k, valid_before)
      BY <1>1 DEF Matching
    <2>2. RequestsAscending => Sound'
      BY <1>1, <2>1 DEF IInv, ContentInv, Sound
    <2>3. ASSUME create_alone, RequestsAscending, NEW k \in DOMAIN pred' PROVE Matching(k, valid_before) \ lost \subseteq pred'[k]
      <3>1. CASE k \in DOMAIN pred
        BY <1>1, <2>3, <3>1 DEF IInv, ContentInv, ExactWhenAlone
      <3>2. CASE k \notin DOMAIN pred
        <4>1. valid_before = 1
          BY <1>1, <2>3 DEF IInv, AloneInv
        <4>2. Matching(k, valid_before) = {}
          BY <4>1 DEF Matching
        <4>3. QED BY <1>1, <3>2, <4>2
      <3>3. QED BY <3>1, <3>2
    <2>4. \A k \in DOMAIN pred' : RequestsAscending => pred'[k] \subseteq Matching(k, valid_before)
      BY <1>1 DEF IInv, ContentInv, Sound
    <2>5. QED BY <1>1, <2>1, <2>2, <2>3, <2>4 DEF ExactWhenAlone
  <1>5. QED BY <1>1, <1>2, <1>3, <1>4, EndKeepsInv

\* An operation that fails leaves the database as it is.
LEMMA FailKeepsInv == ASSUME IInv, NEW p \in Proc, operation_fails(p) PROVE IInv'
  <1>1. /\ pc[p] \in {"compute", "commit", "create_empty"} /\ Finish(p, "threw")
        /\ UNCHANGED <<create_alone, max_id, demand, lost, valid_before, pred>>
        /\ result' = [result EXCEPT ![p] = <<>>]
    BY DEF operation_fails, db
  <1>2. /\ valid_before' \in valid_before..(max_id + 1)
        /\ \A k \in DOMAIN pred' : pred'[k] \subseteq 1..(valid_before' - 1)
    BY <1>1 DEF IInv, TypeInv
  <1>3. RequestsAscending => Sound' /\ ExactWhenAlone'
    BY <1>1 DEF IInv, ContentInv, Sound, ExactWhenAlone, Matching
  <1>4. QED BY <1>1, <1>2, <1>3, EndKeepsInv

\* --delete and --reinitialize: when create_alone holds nobody is in the middle
\* of anything.
LEMMA RemoveKeepsInv ==
  ASSUME IInv, NEW p \in Proc, MayCreate, UNCHANGED <<create_alone, max_id, pc, demand, result, lost>>,
         valid_before' \in 1..(max_id + 1), DOMAIN pred' \subseteq Key, IsFiniteSet(DOMAIN pred'),
         \A k \in DOMAIN pred' : pred'[k] \subseteq 1..(valid_before' - 1),
         RequestsAscending => Sound' /\ ExactWhenAlone'
  PROVE  IInv'
  <1>1. TypeInv'
    BY DEF IInv, TypeInv, Key
  <1>2. DemandInv' /\ OrderInv' /\ ContentInv'
    <2>1. \A q \in Proc : Computed(q) => Computed(q)'
      BY ComputedStays
    <2>2. QED BY <2>1 DEF IInv, DemandInv, OrderInv, ContentInv, Wanted, Busy, Key, RequestsAscending
  <1>3. AloneInv'
    BY DEF MayCreate, Quiet, AloneInv, Busy
  <1>4. QED BY <1>1, <1>2, <1>3 DEF IInv

\* The initial states satisfy the invariant.
LEMMA InitHasInv == Init => IInv
  <1> SUFFICES ASSUME Init PROVE IInv
    OBVIOUS
  <1>1. /\ create_alone \in BOOLEAN /\ max_id = 0 /\ valid_before = 1 /\ DOMAIN pred = InitialKeys
        /\ \A k \in InitialKeys : pred[k] = {}
        /\ pc = [p \in Proc |-> "idle"] /\ demand = [p \in Proc |-> NoDemand] /\ result = [p \in Proc |-> <<>>]
        /\ lost = {}
    BY DEF Init
  <1>2. TypeInv
    BY <1>1, PredicatesAssumption, KeysAreNumbers, NoDemandType DEF TypeInv
  <1>3. DemandInv /\ OrderInv /\ AloneInv
    BY <1>1, NoDemandType DEF DemandInv, OrderInv, AloneInv, Busy, Wanted
  <1>4. ContentInv
    <2>1. \A k : Matching(k, 1) = {}
      BY DEF Matching
    <2>2. QED BY <1>1, <2>1 DEF ContentInv, Sound, ExactWhenAlone
  <1>5. QED BY <1>2, <1>3, <1>4 DEF IInv

\* Every step keeps the invariant.
LEMMA StepKeepsInv == IInv /\ [Next]_vars => IInv'
  <1> SUFFICES ASSUME IInv, [Next]_vars PROVE IInv'
    OBVIOUS
  <1>1. ASSUME NEW p \in Proc, NEW k \in Key, delete(p, k) PROVE IInv'
    <2>1. /\ MayCreate /\ UNCHANGED <<create_alone, max_id, valid_before, pc, demand, result, lost>>
          /\ DOMAIN pred' = DOMAIN pred \ {k} /\ \A j \in DOMAIN pred' : pred'[j] = pred[j]
      BY <1>1 DEF delete
    <2>2. /\ valid_before' \in 1..(max_id + 1) /\ DOMAIN pred' \subseteq Key
          /\ \A j \in DOMAIN pred' : pred'[j] \subseteq 1..(valid_before' - 1)
      BY <2>1 DEF IInv, TypeInv
    <2>3. IsFiniteSet(DOMAIN pred')
      BY <2>1, FS_Subset DEF IInv, TypeInv
    <2>4. RequestsAscending => Sound' /\ ExactWhenAlone'
      BY <2>1 DEF IInv, ContentInv, Sound, ExactWhenAlone, Matching
    <2>5. QED BY <2>1, <2>2, <2>3, <2>4, RemoveKeepsInv
  <1>2. ASSUME NEW p \in Proc, reinitialize(p) PROVE IInv'
    <2>1. /\ MayCreate /\ UNCHANGED <<create_alone, max_id, pc, demand, result, lost>> /\ valid_before' = 1
          /\ DOMAIN pred' = InitialKeys /\ \A j \in DOMAIN pred' : pred'[j] = {}
      BY <1>2 DEF reinitialize
    <2>2. valid_before' \in 1..(max_id + 1)
      BY <2>1 DEF IInv, TypeInv
    <2>3. /\ DOMAIN pred' \subseteq Key /\ \A j \in DOMAIN pred' : pred'[j] \subseteq 1..(valid_before' - 1)
      BY <2>1, KeysAreNumbers
    <2>4. IsFiniteSet(DOMAIN pred')
      BY <2>1, PredicatesAssumption
    <2>5. Sound' /\ ExactWhenAlone'
      <3>1. \A k : Matching(k, valid_before)' = {}
        BY <2>1 DEF Matching
      <3>2. QED BY <2>1, <3>1 DEF Sound, ExactWhenAlone
    <2>6. QED BY <2>1, <2>2, <2>3, <2>4, <2>5, RemoveKeepsInv
  <1>3. CASE UNCHANGED vars
    <2>1. UNCHANGED <<create_alone, max_id, valid_before, pred, pc, demand, result, lost>>
      BY <1>3 DEF vars, db
    <2>2. TypeInv' /\ DemandInv' /\ OrderInv'
      <3>1. \A q \in Proc : Computed(q) => Computed(q)'
        BY <2>1, ComputedStays
      <3>2. QED BY <2>1, <3>1 DEF IInv, TypeInv, DemandInv, OrderInv, Busy, Wanted, Key, RequestsAscending
    <2>3. AloneInv' /\ ContentInv'
      BY <2>1 DEF IInv, AloneInv, ContentInv, Sound, ExactWhenAlone, Matching, Busy, Wanted, RequestsAscending
    <2>4. QED BY <2>2, <2>3 DEF IInv
  <1>4. QED BY <1>1, <1>2, <1>3, InsertKeepsInv, DiscoverKeepsInv, CreateKeepsInv, ComputeKeepsInv, FailKeepsInv,
               CommitKeepsInv, CreateEmptyKeepsInv, ReturnKeepsInv DEF Next

\* The invariant holds in every state of every behaviour.
LEMMA SpecHasInv == Spec => []IInv
  BY InitHasInv, StepKeepsInv, PTL DEF Spec

-----------------------------------------------------------------------------
(* The theorems.                                                           *)

\* The index never claims ids that no gadget has, whatever lists the callers
\* pass and however their operations overlap.
THEOREM TypeCorrect == Spec => []TypeOK
  <1>1. IInv => TypeOK
    <2> SUFFICES ASSUME IInv PROVE TypeOK
      OBVIOUS
    <2>1. valid_before \in Nat \ {0} /\ max_id \in Nat /\ valid_before <= max_id + 1 /\ max_id <= MaxId
          /\ MaxId \in Nat
      BY PredicatesAssumption DEF IInv, TypeInv
    <2>2. 1..(valid_before - 1) \subseteq 1..max_id
      BY <2>1
    <2>3. \A k \in DOMAIN pred : pred[k] \subseteq 1..max_id
      BY <2>2 DEF IInv, TypeInv
    <2>4. ASSUME NEW p \in Proc PROVE Len(result[p]) \in {0, Len(demand[p].keys)}
      <3>1. CASE pc[p] = "commit"
        <4>1. demand[p].keys \in Seq(Nat)
          BY DEF IInv, TypeInv, Demand
        <4>2. Len(demand[p].keys) \in Nat
          BY <4>1, LenProperties
        <4>3. PICK ids : result[p] = Accumulate(demand[p], ids)
          BY <3>1 DEF IInv, DemandInv, Computed
        <4>4. result[p] = [i \in 1..Len(demand[p].keys) |->
                             {id \in ids : LowerBound(demand[p].keys, Stat[id]) <= i}]
          BY <4>3 DEF Accumulate
        <4>5. QED BY <4>2, <4>4
      <3>2. CASE pc[p] # "commit"
        BY <3>2, EmptySeq DEF IInv, DemandInv
      <3>3. QED BY <3>1, <3>2
    <2>5. QED BY <2>3, <2>4 DEF IInv, TypeInv, TypeOK
  <1>2. QED BY <1>1, SpecHasInv, PTL

\* For callers that sort their lists, any statistics and any interleaving of
\* updates, also with tasks, transactions and processes that fail: no predicate
\* has an id too many, and while keys are created and removed by one process at
\* a time each has all the ids it should but those that a failing task left out.
THEOREM PredicatesStayExact == Spec => [](RequestsAscending => PredicatesExact)
  <1>1. IInv => (RequestsAscending => PredicatesExact)
    BY DEF IInv, ContentInv, PredicatesExact
  <1>2. QED BY <1>1, SpecHasInv, PTL

\* An update is never acknowledged before its ids are valid, nor a creation
\* before its keys exist, whoever commits in between.
THEOREM UpdatesSuffice == Spec => Suffices
  <1> DEFINE A == \A p \in Proc : pc[p] \in {"commit", "create_empty"} /\ pc'[p] # pc[p] =>
                    /\ ~demand[p].create /\ pc'[p] # "threw" => valid_before' >= demand[p].end
                    /\ demand[p].create /\ pc'[p] = "updated" => Range(demand[p].keys) \subseteq DOMAIN pred'
  <1>1. ASSUME IInv, Next, NEW p \in Proc, pc[p] \in {"commit", "create_empty"}, pc'[p] # pc[p]
        PROVE  /\ ~demand[p].create /\ pc'[p] # "threw" => valid_before' >= demand[p].end
               /\ demand[p].create /\ pc'[p] = "updated" => Range(demand[p].keys) \subseteq DOMAIN pred'
    <2>1. update_SL_predicates_commit(p) \/ create_empty(p) \/ operation_fails(p)
      <3>1. ASSUME NEW q \in Proc, NEW where, pc' = [pc EXCEPT ![q] = where] PROVE q = p
        BY <1>1, <3>1 DEF IInv, TypeInv
      <3>2. CASE insert_gadget
        BY <1>1, <3>2 DEF insert_gadget
      <3>3. ASSUME NEW q \in Proc, NEW asked \in 1..(MaxId + 1), update_SL_predicates_discover(q, asked) PROVE FALSE
        <4>1. pc[q] = "idle" /\ \E where : pc' = [pc EXCEPT ![q] = where]
          BY <3>3 DEF update_SL_predicates_discover, Goto
        <4>2. QED BY <1>1, <3>1, <4>1
      <3>4. ASSUME NEW q \in Proc, NEW required \in Requests, create_predicates(q, required) PROVE FALSE
        <4>1. pc[q] = "idle" /\ \E where : pc' = [pc EXCEPT ![q] = where]
          BY <3>4 DEF create_predicates, Goto
        <4>2. QED BY <1>1, <3>1, <4>1
      <3>5. ASSUME NEW q \in Proc, (\E missed : meet_update_demand(q, missed)) \/ return(q) PROVE FALSE
        <4>1. pc[q] \in {"compute", "updated", "current", "threw"} /\ \E where : pc' = [pc EXCEPT ![q] = where]
          BY <3>5 DEF meet_update_demand, return, Goto
        <4>2. QED BY <1>1, <3>1, <4>1
      <3>6. ASSUME NEW q \in Proc, reinitialize(q) \/ \E k \in Key : delete(q, k) PROVE FALSE
        BY <1>1, <3>6 DEF reinitialize, delete
      <3>7. ASSUME NEW q \in Proc, update_SL_predicates_commit(q) \/ create_empty(q) \/ operation_fails(q) PROVE q = p
        <4>1. \E where : pc' = [pc EXCEPT ![q] = where]
          BY <3>7 DEF update_SL_predicates_commit, create_empty, operation_fails, Finish
        <4>2. QED BY <3>1, <4>1
      <3>8. QED BY <1>1, <3>2, <3>3, <3>4, <3>5, <3>6, <3>7 DEF Next
    <2>2. CASE update_SL_predicates_commit(p)
      <3> DEFINE d == demand[p]
                 unchanged == IF d.create THEN "threw" ELSE "current"
      <3>1. d.end \in Nat /\ valid_before \in Nat /\ d.create \in BOOLEAN
        BY <1>1 DEF IInv, TypeInv, Demand
      <3>2. CASE d.end < valid_before /\ Finish(p, unchanged) /\ UNCHANGED db
        <4>1. valid_before' = valid_before /\ pc'[p] = unchanged
          BY <1>1, <3>2 DEF Finish, db, IInv, TypeInv
        <4>2. d.create => pc'[p] # "updated"
          BY <4>1
        <4> HIDE DEF d
        <4>3. valid_before' >= d.end
          BY <3>1, <3>2, <4>1
        <4>4. QED BY <4>2, <4>3 DEF d
      <3>3. CASE d.end >= valid_before /\ valid_before' = d.end
                 /\ pred' = [k \in DOMAIN pred \cup Range(d.keys) |-> Put(d, result[p], k)]
        <4>1. Range(d.keys) \subseteq DOMAIN pred'
          BY <3>3
        <4>2. valid_before' >= d.end
          BY <3>1, <3>3
        <4>3. QED BY <4>1, <4>2
      <3>4. QED BY <2>2, <3>2, <3>3 DEF update_SL_predicates_commit
    <2>3. CASE create_empty(p)
      <3>1. demand[p].create
        BY <1>1, <2>3 DEF create_empty, IInv, DemandInv
      <3>2. Range(demand[p].keys) \subseteq DOMAIN pred'
        BY <2>3 DEF create_empty
      <3>3. QED BY <3>1, <3>2
    <2>4. CASE operation_fails(p)
      <3>1. pc'[p] = "threw"
        BY <1>1, <2>4 DEF operation_fails, Finish, IInv, TypeInv
      <3>2. QED BY <3>1
    <2>5. QED BY <2>1, <2>2, <2>3, <2>4
  <1>2. IInv /\ [Next]_vars => [A]_vars
    BY <1>1
  <1>3. QED BY <1>2, SpecHasInv, PTL DEF Spec, Suffices

\* Nothing but --reinitialize and --delete takes anything back.
THEOREM NothingIsLost == Spec => NothingLost
  <1> DEFINE Kept == /\ valid_before' >= valid_before
                     /\ \A k \in DOMAIN pred : k \in DOMAIN pred' /\ pred[k] \subseteq pred'[k]
             A == \/ \E p \in Proc : reinitialize(p)
                  \/ \E p \in Proc, k \in Key : delete(p, k)
                  \/ Kept
  <1>1. ASSUME IInv, UNCHANGED db PROVE Kept
    <2>1. UNCHANGED <<valid_before, pred>> /\ valid_before \in Nat
      BY <1>1 DEF db, IInv, TypeInv
    <2>2. QED BY <2>1
  <1>2. ASSUME IInv, NEW p \in Proc, update_SL_predicates_commit(p) PROVE Kept
    <2> DEFINE d == demand[p]
    <2>1. CASE UNCHANGED db
      BY <1>1, <1>2, <2>1
    <2>2. CASE d.end >= valid_before /\ valid_before' = d.end
               /\ pred' = [k \in DOMAIN pred \cup Range(d.keys) |-> Put(d, result[p], k)]
      <3>1. pc[p] = "commit"
        BY <1>2 DEF update_SL_predicates_commit
      <3>2. \A k \in DOMAIN pred : k \in DOMAIN pred' /\ pred'[k] = Put(d, result[p], k)
        BY <2>2
      <3>3. \A k \in DOMAIN pred : pred[k] \subseteq pred'[k]
        BY <1>2, <2>2, <3>1, <3>2, PutContents
      <3>4. QED BY <2>2, <3>2, <3>3
    <2>3. QED BY <1>2, <2>1, <2>2 DEF update_SL_predicates_commit
  <1>3. ASSUME IInv, NEW p \in Proc, create_empty(p) PROVE Kept
    BY <1>3 DEF create_empty, IInv, TypeInv
  <1>4. IInv /\ [Next]_vars => [A]_vars
    <2> SUFFICES ASSUME IInv, Next PROVE A
      OBVIOUS
    <2>1. CASE insert_gadget
      BY <1>1, <2>1 DEF insert_gadget
    <2>2. ASSUME NEW p \in Proc, NEW asked \in 1..(MaxId + 1), update_SL_predicates_discover(p, asked) PROVE A
      BY <1>1, <2>2 DEF update_SL_predicates_discover
    <2>3. ASSUME NEW p \in Proc, NEW required \in Requests, create_predicates(p, required) PROVE A
      BY <1>1, <2>3 DEF create_predicates
    <2>4. ASSUME NEW p \in Proc, (\E missed : meet_update_demand(p, missed)) \/ operation_fails(p) \/ return(p) PROVE A
      BY <1>1, <2>4 DEF meet_update_demand, operation_fails, return
    <2>5. QED BY <1>2, <1>3, <2>1, <2>2, <2>3, <2>4 DEF Next
  <1>5. QED BY <1>4, SpecHasInv, PTL DEF Spec, NothingLost
=============================================================================
