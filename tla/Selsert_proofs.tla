---------------------------- MODULE Selsert_proofs ----------------------------
(***************************************************************************)
(* Proofs about Selsert: the table, its index and the calls in progress    *)
(* agree (TypeOK, TableIntact), and the table implements GadgetStore.      *)
(***************************************************************************)
EXTENDS Selsert, NumberInduction, SequenceTheorems, TLAPS

-----------------------------------------------------------------------------
(* The inductive invariant.                                                *)

Stored(d) == \E h \in DOMAIN table : table[h].data = d
StoredAs(d, id) == \E h \in DOMAIN table : table[h].data = d /\ table[h].id = id

DataOf(s) == {s[i].data : i \in 1..Len(s)}
Distinct(s) == \A i, j \in 1..Len(s) : s[i].data = s[j].data => i = j

\* Everything from hash on and below place is taken.
Taken(hash, place) == \A g \in hash..(place - 1) : g \in DOMAIN table

TableInv ==
  /\ DOMAIN table \subseteq Nat /\ IsFiniteSet(DOMAIN table)
  /\ table \in [DOMAIN table -> [data : Data, id : Nat \ {0}]]
  /\ StoredOnce
  /\ \A h \in DOMAIN table : HashOf[table[h].data] <= h /\ Taken(HashOf[table[h].data], h)

\* The ids in use are 1 to MaxGadgetId, each of one gadget.
IdsInv ==
  /\ \A h \in DOMAIN table : table[h].id \in 1..MaxGadgetId
  /\ \A id \in 1..MaxGadgetId : \E h \in DOMAIN table : table[h].id = id
  /\ \A g, h \in DOMAIN table : table[g].id = table[h].id => g = h

\* Each page begins where the page before it ends, and the last ends at last.
Tiles(pages, last) ==
  /\ last \in Nat /\ last \in DOMAIN pages \cup {0}
  /\ DOMAIN pages \subseteq 1..last
  /\ pages \in [DOMAIN pages -> Seq(Nat)]
  /\ \A k \in DOMAIN pages :
       /\ Len(pages[k]) \in 1..IndexPage
       /\ k # last => Len(pages[k]) = IndexPage
       /\ k - Len(pages[k]) \in DOMAIN pages \cup {0}
  /\ \A k, l \in DOMAIN pages : k < l => k <= l - Len(pages[l])

IndexInv == Tiles(index, MaxGadgetId)

\* The lists of a call in progress: the ids it lacks are those of pending.
LocalInv(s, r, map) ==
  /\ s \in Seq(Proposed) /\ s # <<>> /\ Distinct(s)
  /\ r \in Seq(Proposed) /\ Distinct(r)
  /\ map \in [DOMAIN map -> Nat] /\ DOMAIN map \subseteq Data
  /\ \A d \in DOMAIN map : map[d] = 0 <=> d \in DataOf(s)
  /\ DataOf(s) \subseteq DataOf(r) /\ DataOf(r) \subseteq DOMAIN map
  /\ DataOf(s) \subseteq DOMAIN map

KnownInv(map) == \A d \in DOMAIN map : map[d] # 0 => StoredAs(d, map[d])

\* Between the transactions: a gadget is not at the places it was probed past.
ProbedPast(x) ==
  /\ HashOf[x.data] <= x.hash
  /\ \A g \in HashOf[x.data]..(x.hash - 1) : g \in DOMAIN table /\ table[g].data # x.data

EarlyInv(s) == HashOrder(s) /\ \A i \in 1..Len(s) : ProbedPast(s[i])

\* In the write transaction: the gadgets are free to go to their places, except
\* that the third may be above the place of the second.  Otherwise a collision
\* that resolve_self_collision never moves is left.
Stuck(s) == \E i \in 1..(Len(s) - 1) : i # 2 /\ s[i + 1].hash <= s[i].hash
Placeable(s) ==
  /\ \A i \in 1..Len(s) :
       /\ HashOf[s[i].data] <= s[i].hash
       /\ i # 3 => s[i].hash \notin DOMAIN table
       /\ \A g \in HashOf[s[i].data]..(s[i].hash - 1) :
            g \in DOMAIN table \/ (i = 3 /\ g = s[2].hash)
  /\ Len(s) >= 3 => s[2].hash <= s[3].hash

LateInv(s) == \A i \in 1..Len(s) : ~Stored(s[i].data)

\* A call of which the state is where, with its lists.
Call(where, locked, s, r, map) ==
  /\ where \in {"idle", "returned", "threw", "pruned", "resolve", "resolved", "insert"}
  /\ locked <=> (where \in {"resolve", "resolved", "insert"})
  /\ where \in {"idle", "returned", "threw"} => s = <<>> /\ r = <<>>
  /\ where = "returned" => \A d \in DOMAIN map : StoredAs(d, map[d])
  /\ where \in {"pruned", "resolve", "resolved", "insert"} =>
       LocalInv(s, r, map) /\ KnownInv(map)
  /\ where = "pruned" => EarlyInv(s)
  /\ where \in {"resolve", "resolved", "insert"} => LateInv(s)
  /\ where \in {"resolve", "resolved"} => Stuck(s) \/ Placeable(s)
  /\ where = "insert" => Placeable(s)

CallInv(p) == Call(pc[p], writer = p, pending[p], ranked[p], ids[p])

IInv ==
  /\ TableInv /\ IdsInv /\ IndexInv
  /\ writer \in Proc \cup {NoProc}
  /\ DOMAIN pc = Proc /\ DOMAIN pending = Proc /\ DOMAIN ranked = Proc /\ DOMAIN ids = Proc
  /\ \A p \in Proc : CallInv(p)

-----------------------------------------------------------------------------
(* Parts of a sequence.                                                    *)

\* What is kept of s is s read along the places kept, in increasing order.
LEMMA KeptAlong ==
  ASSUME NEW S, NEW s \in Seq(S), NEW K \in SUBSET (1..Len(s))
  PROVE  /\ Kept(s, K) \in Seq(S) /\ Len(Kept(s, K)) \in Nat
         /\ \E f \in [1..Len(Kept(s, K)) -> K] :
              /\ \A i, j \in 1..Len(Kept(s, K)) : i < j => f[i] < f[j]
              /\ \A k \in K : \E i \in 1..Len(Kept(s, K)) : f[i] = k
              /\ \A i \in 1..Len(Kept(s, K)) : Kept(s, K)[i] = s[f[i]]
  <1> DEFINE n == Cardinality(K)
             UpTo(i) == {j \in K : j <= i}
             g == [i \in K |-> Cardinality(UpTo(i))]
             f == [k \in 1..n |-> CHOOSE i \in K : Cardinality(UpTo(i)) = k]
  <1>1. IsFiniteSet(K) /\ n \in Nat /\ K \subseteq Int
    <2>1. Len(s) \in Nat
      BY LenProperties
    <2>2. IsFiniteSet(1..Len(s))
      BY <2>1, FS_Interval
    <2>3. IsFiniteSet(K)
      BY <2>2, FS_Subset
    <2>4. QED BY <2>1, <2>3, FS_CardinalityType
  <1>2. \A i \in K : IsFiniteSet(UpTo(i)) /\ Cardinality(UpTo(i)) \in 1..n
    <2> SUFFICES ASSUME NEW i \in K
                 PROVE  IsFiniteSet(UpTo(i)) /\ Cardinality(UpTo(i)) \in 1..n
      OBVIOUS
    <2>1. UpTo(i) \in SUBSET K /\ i \in UpTo(i)
      BY <1>1
    <2> HIDE DEF UpTo
    <2>2. IsFiniteSet(UpTo(i)) /\ Cardinality(UpTo(i)) <= n
      BY <1>1, <2>1, FS_Subset
    <2>3. Cardinality(UpTo(i)) \in Nat /\ Cardinality(UpTo(i)) # 0
      BY <2>1, <2>2, FS_CardinalityType, FS_EmptySet
    <2>4. QED BY <1>1, <2>2, <2>3
  <1>3. \A i, j \in K : i < j => Cardinality(UpTo(i)) < Cardinality(UpTo(j))
    <2> SUFFICES ASSUME NEW i \in K, NEW j \in K, i < j
                 PROVE  Cardinality(UpTo(i)) < Cardinality(UpTo(j))
      OBVIOUS
    <2>1. i \in Int /\ j \in Int /\ i <= j /\ j <= j /\ ~(j <= i)
      BY <1>1
    <2>2. \A x \in K : x <= i => x <= j
      <3> TAKE x \in K
      <3>1. x \in Int
        BY <1>1
      <3>2. QED BY <2>1, <3>1
    <2>3. UpTo(i) \in SUBSET UpTo(j) /\ j \in UpTo(j) /\ j \notin UpTo(i)
      BY <2>1, <2>2
    <2>4. IsFiniteSet(UpTo(j)) /\ Cardinality(UpTo(i)) \in 1..n /\ Cardinality(UpTo(j)) \in 1..n
      BY <1>2
    <2> HIDE DEF UpTo, n
    <2>5. Cardinality(UpTo(i)) \in Int /\ Cardinality(UpTo(j)) \in Int
      BY <1>1, <2>4
    <2>6. Cardinality(UpTo(i)) <= Cardinality(UpTo(j)) /\ Cardinality(UpTo(i)) # Cardinality(UpTo(j))
      BY <2>3, <2>4, FS_Subset
    <2>7. QED BY <2>5, <2>6
  <1>4. \A i, j \in K : Cardinality(UpTo(i)) = Cardinality(UpTo(j)) => i = j
    <2> SUFFICES ASSUME NEW i \in K, NEW j \in K, Cardinality(UpTo(i)) = Cardinality(UpTo(j))
                 PROVE  i = j
      OBVIOUS
    <2>1. Cardinality(UpTo(i)) \in 1..n /\ Cardinality(UpTo(j)) \in 1..n
      BY <1>2
    <2>2. ~(i < j) /\ ~(j < i)
      <3> HIDE DEF n, UpTo
      <3>1. ~(Cardinality(UpTo(i)) < Cardinality(UpTo(j))) /\ ~(Cardinality(UpTo(j)) < Cardinality(UpTo(i)))
        BY <1>1, <2>1
      <3>2. QED BY <1>3, <3>1
    <2>3. i \in Int /\ j \in Int
      BY <1>1
    <2>4. QED BY <2>2, <2>3
  <1>5. \A k \in 1..n : \E i \in K : Cardinality(UpTo(i)) = k
    <2>1. g \in [K -> 1..n]
      BY <1>2
    <2>2. \A i, j \in K : g[i] = g[j] => i = j
      BY <1>4
    <2>3. \A i \in K : g[i] = Cardinality(UpTo(i))
      OBVIOUS
    <2>4. IsFiniteSet(1..n) /\ Cardinality(1..n) = n
      BY <1>1, FS_Interval
    <2> HIDE DEF g
    <2>5. g \in Injection(K, 1..n)
      BY <2>1, <2>2 DEF Injection, IsInjective
    <2>6. g \in Surjection(K, 1..n)
      BY <2>4, <2>5, FS_Injection
    <2>7. QED BY <2>3, <2>6 DEF Surjection
  <1>6. \A k \in 1..n : f[k] \in K /\ Cardinality(UpTo(f[k])) = k
    BY <1>5
  <1>7. f \in [1..n -> K]
    BY <1>6
  <1>8. Kept(s, K) = [k \in 1..n |-> s[f[k]]]
    BY DEF Kept
  <1> HIDE DEF f, g, n, UpTo
  <1>9. \A i, j \in 1..n : i < j => f[i] < f[j]
    <2> SUFFICES ASSUME NEW i \in 1..n, NEW j \in 1..n, i < j
                 PROVE  f[i] < f[j]
      OBVIOUS
    <2>1. f[i] \in K /\ f[j] \in K /\ f[i] \in Int /\ f[j] \in Int
      BY <1>1, <1>6
    <2>2. f[i] # f[j]
      BY <1>6
    <2>3. ~(f[j] < f[i])
      BY <1>1, <1>3, <1>6, <2>1
    <2>4. QED BY <2>1, <2>2, <2>3
  <1>10. \A k \in K : \E i \in 1..n : f[i] = k
    <2> SUFFICES ASSUME NEW k \in K
                 PROVE  \E i \in 1..n : f[i] = k
      OBVIOUS
    <2> DEFINE i == Cardinality(UpTo(k))
    <2>1. i \in 1..n
      BY <1>2
    <2>2. f[i] \in K /\ Cardinality(UpTo(f[i])) = i
      BY <1>6, <2>1
    <2>3. QED BY <1>4, <2>1, <2>2
  <1>11. \A i \in 1..n : s[f[i]] \in S
    BY <1>7, ElementOfSeq
  <1>12. Kept(s, K) \in Seq(S) /\ Len(Kept(s, K)) = n /\ \A i \in 1..n : Kept(s, K)[i] = s[f[i]]
    BY <1>1, <1>8, <1>11
  <1>13. Kept(s, K) \in Seq(S) /\ Len(Kept(s, K)) \in Nat
    BY <1>1, <1>12
  <1>14. n = Len(Kept(s, K))
    BY <1>12
  <1>15. /\ f \in [1..Len(Kept(s, K)) -> K]
         /\ \A i, j \in 1..Len(Kept(s, K)) : i < j => f[i] < f[j]
         /\ \A k \in K : \E i \in 1..Len(Kept(s, K)) : f[i] = k
         /\ \A i \in 1..Len(Kept(s, K)) : Kept(s, K)[i] = s[f[i]]
    BY <1>7, <1>9, <1>10, <1>12, <1>14
  <1>16. QED BY <1>13, <1>15, Zenon

-----------------------------------------------------------------------------
(* Probing.                                                                *)

\* Probing ends at the first place that is free or holds the gadget.
LEMMA ProbeFinds ==
  ASSUME DOMAIN table \subseteq Nat, IsFiniteSet(DOMAIN table), NEW d, NEW hash \in Nat
  PROVE  /\ Probe(d, hash) \in Nat /\ hash <= Probe(d, hash)
         /\ Probe(d, hash) \notin DOMAIN table \/ Holds(Probe(d, hash), d)
         /\ \A g \in hash..(Probe(d, hash) - 1) : g \in DOMAIN table /\ ~Holds(g, d)
  <1> DEFINE c == Cardinality(DOMAIN table)
             W == {h \in hash..(hash + c) : h \notin DOMAIN table \/ Holds(h, d)}
  <1>1. c \in Nat
    BY FS_CardinalityType
  <1>2. \E g \in hash..(hash + c) : g \notin DOMAIN table
    BY FreeNumber
  <1>3. Probe(d, hash) = Min(W)
    BY DEF Probe
  <1> HIDE DEF c
  <1>4. W \subseteq Nat /\ W # {}
    BY <1>1, <1>2
  <1>5. Probe(d, hash) \in W /\ \A g \in W : Probe(d, hash) <= g
    BY <1>3, <1>4, MinExists
  <1>6. ASSUME NEW g \in hash..(Probe(d, hash) - 1)
        PROVE  g \in DOMAIN table /\ ~Holds(g, d)
    <2>1. g \in Int /\ hash <= g /\ Probe(d, hash) \in Int /\ g < Probe(d, hash)
          /\ Probe(d, hash) <= hash + c
      BY <1>1, <1>5
    <2>2. g \in hash..(hash + c)
      BY <1>1, <2>1
    <2>3. g \notin W
      BY <1>5, <2>1
    <2>4. QED BY <2>2, <2>3
  <1>7. QED BY <1>1, <1>5, <1>6

\* The place probing ends at is determined by that.
LEMMA ProbeIs ==
  ASSUME DOMAIN table \subseteq Nat, IsFiniteSet(DOMAIN table), NEW d, NEW hash \in Nat,
         NEW place \in Nat, hash <= place,
         place \notin DOMAIN table \/ Holds(place, d),
         \A g \in hash..(place - 1) : g \in DOMAIN table /\ ~Holds(g, d)
  PROVE  Probe(d, hash) = place
  <1>1. /\ Probe(d, hash) \in Nat /\ hash <= Probe(d, hash)
        /\ Probe(d, hash) \notin DOMAIN table \/ Holds(Probe(d, hash), d)
        /\ \A g \in hash..(Probe(d, hash) - 1) : g \in DOMAIN table /\ ~Holds(g, d)
    BY ProbeFinds
  <1>2. ~(Probe(d, hash) < place)
    <2>1. Probe(d, hash) < place => Probe(d, hash) \in hash..(place - 1)
      BY <1>1
    <2>2. QED BY <1>1, <2>1
  <1>3. ~(place < Probe(d, hash))
    <2>1. place < Probe(d, hash) => place \in hash..(Probe(d, hash) - 1)
      BY <1>1
    <2>2. QED BY <1>1, <2>1
  <1>4. QED BY <1>1, <1>2, <1>3

\* Probing moves the hashes and keeps the gadgets.
LEMMA ProbedElements ==
  ASSUME TableInv, NEW s \in Seq(Proposed)
  PROVE  /\ Probed(s) \in Seq(Proposed) /\ Len(Probed(s)) = Len(s)
         /\ \A i \in 1..Len(s) :
              /\ Probed(s)[i].data = s[i].data
              /\ Probed(s)[i].hash = Probe(s[i].data, s[i].hash)
              /\ s[i].data \in Data /\ s[i].hash \in Nat
  <1>1. \A i \in 1..Len(s) : s[i] \in Proposed
    BY ElementOfSeq
  <1>2. \A i \in 1..Len(s) : Probe(s[i].data, s[i].hash) \in Nat
    BY <1>1, ProbeFinds DEF TableInv, Proposed
  <1>3. \A i \in 1..Len(s) :
          /\ s[i].data \in Data /\ s[i].hash \in Nat
          /\ [s[i] EXCEPT !.hash = Probe(s[i].data, s[i].hash)]
               = [data |-> s[i].data, hash |-> Probe(s[i].data, s[i].hash)]
    BY <1>1 DEF Proposed
  <1>4. Probed(s) = [i \in 1..Len(s) |-> [data |-> s[i].data, hash |-> Probe(s[i].data, s[i].hash)]]
    BY <1>3 DEF Probed
  <1>5. Len(s) \in Nat
    BY LenProperties
  <1>6. \A i \in 1..Len(s) : [data |-> s[i].data, hash |-> Probe(s[i].data, s[i].hash)] \in Proposed
    BY <1>2, <1>3 DEF Proposed
  <1>7. Probed(s) \in Seq(Proposed) /\ Len(Probed(s)) = Len(s)
    BY <1>4, <1>5, <1>6
  <1>8. \A i \in 1..Len(s) : /\ Probed(s)[i].data = s[i].data
                             /\ Probed(s)[i].hash = Probe(s[i].data, s[i].hash)
    BY <1>4
  <1>9. QED BY <1>3, <1>7, <1>8

\* The survivors of a pruning loop are in the order of s, at free places, and
\* what is not among them was found.
LEMMA SurvivorsAlong ==
  ASSUME TableInv, NEW s \in Seq(Proposed)
  PROVE  /\ Survivors(s) \in Seq(Proposed) /\ Len(Survivors(s)) \in Nat
         /\ \E f \in [1..Len(Survivors(s)) -> 1..Len(s)] :
              /\ \A i, j \in 1..Len(Survivors(s)) : i < j => f[i] < f[j]
              /\ \A i \in 1..Len(Survivors(s)) :
                   /\ Survivors(s)[i].data = s[f[i]].data
                   /\ Survivors(s)[i].hash = Probe(s[f[i]].data, s[f[i]].hash)
                   /\ ~Holds(Survivors(s)[i].hash, s[f[i]].data)
              /\ \A j \in 1..Len(s) :
                   \/ Holds(Probe(s[j].data, s[j].hash), s[j].data)
                   \/ \E i \in 1..Len(Survivors(s)) : f[i] = j
  <1> DEFINE t == Probed(s)
             K == {i \in 1..Len(s) : ~Holds(t[i].hash, t[i].data)}
  <1>1. /\ t \in Seq(Proposed) /\ Len(t) = Len(s)
        /\ \A i \in 1..Len(s) : t[i].data = s[i].data /\ t[i].hash = Probe(s[i].data, s[i].hash)
    BY ProbedElements
  <1>2. Survivors(s) = Kept(t, K)
    BY DEF Survivors
  <1>3. K \in SUBSET (1..Len(t))
    BY <1>1
  <1>4. \A i \in 1..Len(s) : i \in K <=> ~Holds(t[i].hash, t[i].data)
    OBVIOUS
  <1> HIDE DEF t, K
  <1>5. t \in Seq(Proposed)
    BY <1>1
  <1>6. /\ Kept(t, K) \in Seq(Proposed) /\ Len(Kept(t, K)) \in Nat
        /\ \E f \in [1..Len(Kept(t, K)) -> K] :
              /\ \A i, j \in 1..Len(Kept(t, K)) : i < j => f[i] < f[j]
              /\ \A k \in K : \E i \in 1..Len(Kept(t, K)) : f[i] = k
              /\ \A i \in 1..Len(Kept(t, K)) : Kept(t, K)[i] = t[f[i]]
    BY <1>3, <1>5, KeptAlong, SMTT(30)
  <1> DEFINE n == Len(Kept(t, K))
  <1>7. PICK f \in [1..n -> K] :
          /\ \A i, j \in 1..n : i < j => f[i] < f[j]
          /\ \A k \in K : \E i \in 1..n : f[i] = k
          /\ \A i \in 1..n : Kept(t, K)[i] = t[f[i]]
    BY <1>6, Zenon
  <1> HIDE DEF n
  <1>8. f \in [1..n -> 1..Len(s)]
    BY <1>1, <1>3
  <1>9. ASSUME NEW i \in 1..n
        PROVE  /\ Survivors(s)[i].data = s[f[i]].data
               /\ Survivors(s)[i].hash = Probe(s[f[i]].data, s[f[i]].hash)
               /\ ~Holds(Survivors(s)[i].hash, s[f[i]].data)
    <2>1. f[i] \in K /\ f[i] \in 1..Len(s) /\ Survivors(s)[i] = t[f[i]]
      BY <1>2, <1>7, <1>8
    <2>2. QED BY <1>1, <1>4, <2>1
  <1>10. ASSUME NEW j \in 1..Len(s)
        PROVE  \/ Holds(Probe(s[j].data, s[j].hash), s[j].data)
               \/ \E i \in 1..n : f[i] = j
    BY <1>1, <1>4, <1>7
  <1>11. Survivors(s) \in Seq(Proposed) /\ n = Len(Survivors(s)) /\ Len(Survivors(s)) \in Nat
    BY <1>2, <1>6 DEF n
  <1>12. /\ f \in [1..Len(Survivors(s)) -> 1..Len(s)]
         /\ \A i, j \in 1..Len(Survivors(s)) : i < j => f[i] < f[j]
         /\ \A i \in 1..Len(Survivors(s)) :
              /\ Survivors(s)[i].data = s[f[i]].data
              /\ Survivors(s)[i].hash = Probe(s[f[i]].data, s[f[i]].hash)
              /\ ~Holds(Survivors(s)[i].hash, s[f[i]].data)
         /\ \A j \in 1..Len(s) :
              \/ Holds(Probe(s[j].data, s[j].hash), s[j].data)
              \/ \E i \in 1..Len(Survivors(s)) : f[i] = j
    BY <1>7, <1>8, <1>9, <1>10, <1>11, Zenon
  <1>13. QED BY <1>11, <1>12, Zenon

\* Found has the stored id of what was pruned, and keeps the rest of map.
LEMMA FoundIds ==
  ASSUME TableInv, NEW s \in Seq(Proposed), NEW map
  PROVE  /\ DOMAIN Found(s, map) = DOMAIN map
         /\ \A d \in DOMAIN map :
              \/ /\ StoredAs(d, Found(s, map)[d]) /\ Found(s, map)[d] \in Nat \ {0}
                 /\ \E i \in 1..Len(s) : s[i].data = d /\ Holds(Probe(d, s[i].hash), d)
              \/ /\ Found(s, map)[d] = map[d]
                 /\ \A i \in 1..Len(s) : s[i].data = d => ~Holds(Probe(d, s[i].hash), d)
  <1>1. DOMAIN Found(s, map) = DOMAIN map
    BY DEF Found
  <1>2. /\ DOMAIN Probed(s) = 1..Len(s)
        /\ \A i \in 1..Len(s) :
             Probed(s)[i].data = s[i].data /\ Probed(s)[i].hash = Probe(s[i].data, s[i].hash)
    BY ProbedElements DEF Probed
  <1>3. ASSUME NEW d \in DOMAIN map
        PROVE  \/ /\ StoredAs(d, Found(s, map)[d]) /\ Found(s, map)[d] \in Nat \ {0}
                  /\ \E i \in 1..Len(s) : s[i].data = d /\ Holds(Probe(d, s[i].hash), d)
               \/ /\ Found(s, map)[d] = map[d]
                  /\ \A i \in 1..Len(s) : s[i].data = d => ~Holds(Probe(d, s[i].hash), d)
    <2>1. CASE \E x \in Pruned(s) : x.data = d
      <3> DEFINE x == CHOOSE y \in Pruned(s) : y.data = d
      <3>1. x \in Pruned(s) /\ x.data = d
        BY <2>1
      <3>2. Found(s, map)[d] = table[x.hash].id
        BY <2>1 DEF Found
      <3> HIDE DEF x
      <3>3. PICK i \in 1..Len(s) : x = Probed(s)[i] /\ Holds(x.hash, x.data)
        BY <1>2, <3>1 DEF Pruned, Range
      <3>4. s[i].data = d /\ x.hash = Probe(d, s[i].hash) /\ Holds(x.hash, d)
        BY <1>2, <3>1, <3>3
      <3>5. x.hash \in DOMAIN table /\ table[x.hash].data = d /\ table[x.hash].id \in Nat \ {0}
        BY <3>4 DEF Holds, TableInv
      <3>6. StoredAs(d, Found(s, map)[d])
        BY <3>2, <3>5 DEF StoredAs
      <3>7. QED BY <3>2, <3>4, <3>5, <3>6
    <2>2. CASE ~ \E x \in Pruned(s) : x.data = d
      <3>1. Found(s, map)[d] = map[d]
        BY <2>2 DEF Found
      <3>2. ASSUME NEW i \in 1..Len(s), s[i].data = d, Holds(Probe(d, s[i].hash), d)
            PROVE  FALSE
        <4>1. Probed(s)[i] \in Range(Probed(s))
          BY <1>2 DEF Range
        <4>2. Probed(s)[i].data = d /\ Probed(s)[i].hash = Probe(d, s[i].hash)
          BY <1>2, <3>2
        <4>3. Probed(s)[i] \in Pruned(s)
          BY <3>2, <4>1, <4>2 DEF Pruned
        <4>4. QED BY <2>2, <4>2, <4>3
      <3>3. QED BY <3>1, <3>2
    <2>3. QED BY <2>1, <2>2
  <1>4. QED BY <1>1, <1>3

\* A pruning loop, over places that the gadgets were rightly probed past: it
\* finds what is stored and leaves the rest at free places in order of hash.
LEMMA Pruning ==
  ASSUME TableInv, NEW s \in Seq(Proposed), Distinct(s), EarlyInv(s),
         NEW map, map \in [DOMAIN map -> Nat],
         \A d \in DOMAIN map : map[d] = 0 <=> d \in DataOf(s),
         DataOf(s) \subseteq DOMAIN map, KnownInv(map)
  PROVE  /\ Survivors(s) \in Seq(Proposed) /\ Distinct(Survivors(s))
         /\ DataOf(Survivors(s)) \subseteq DataOf(s)
         /\ EarlyInv(Survivors(s)) /\ LateInv(Survivors(s)) /\ Placeable(Survivors(s))
         /\ DOMAIN Found(s, map) = DOMAIN map
         /\ Found(s, map) \in [DOMAIN map -> Nat]
         /\ \A d \in DOMAIN map : Found(s, map)[d] = 0 <=> d \in DataOf(Survivors(s))
         /\ KnownInv(Found(s, map))
  <1> DEFINE r == Survivors(s)
             m == Len(r)
             new == Found(s, map)
  <1>1. DOMAIN table \subseteq Nat /\ IsFiniteSet(DOMAIN table)
    BY DEF TableInv
  <1>2. \A i \in 1..Len(s) : s[i].data \in Data /\ s[i].hash \in Nat /\ HashOf[s[i].data] \in Nat
    BY ProbedElements, SelsertAssumption
  <1>3. r \in Seq(Proposed) /\ m \in Nat /\ Len(s) \in Nat
    BY SurvivorsAlong, LenProperties
  <1>4. PICK f \in [1..m -> 1..Len(s)] :
          /\ \A i, j \in 1..m : i < j => f[i] < f[j]
          /\ \A i \in 1..m :
               /\ r[i].data = s[f[i]].data
               /\ r[i].hash = Probe(s[f[i]].data, s[f[i]].hash)
               /\ ~Holds(r[i].hash, s[f[i]].data)
          /\ \A j \in 1..Len(s) :
               \/ Holds(Probe(s[j].data, s[j].hash), s[j].data)
               \/ \E i \in 1..m : f[i] = j
    BY SurvivorsAlong
  <1> HIDE DEF r, m
  <1>5. \A i \in 1..m : f[i] \in 1..Len(s)
    OBVIOUS
  <1>6. \A i, j \in 1..m : f[i] = f[j] => i = j
    <2> SUFFICES ASSUME NEW i \in 1..m, NEW j \in 1..m, f[i] = f[j]
                 PROVE  i = j
      OBVIOUS
    <2>1. f[i] \in Int /\ i \in Int /\ j \in Int
      BY <1>5
    <2>2. ~(i < j) /\ ~(j < i)
      BY <1>4, <2>1
    <2>3. QED BY <2>1, <2>2
  \* The place a survivor ends at is free, with no gap before it, and the
  \* gadget is nowhere in the table.
  <1>7. ASSUME NEW i \in 1..m
        PROVE  /\ r[i].hash \in Nat /\ s[f[i]].hash <= r[i].hash
               /\ r[i].hash \notin DOMAIN table
               /\ \A g \in s[f[i]].hash..(r[i].hash - 1) :
                    g \in DOMAIN table /\ ~Holds(g, r[i].data)
    BY <1>1, <1>2, <1>4, <1>5, ProbeFinds
  <1>8. ASSUME NEW i \in 1..m
        PROVE  /\ r[i].data \in Data /\ HashOf[r[i].data] \in Nat /\ ProbedPast(r[i])
               /\ ~Stored(r[i].data)
    <2>1. /\ r[i].data = s[f[i]].data /\ ProbedPast(s[f[i]]) /\ HashOf[r[i].data] \in Nat
          /\ s[f[i]].hash \in Nat /\ r[i].data \in Data
      BY <1>2, <1>4, <1>5 DEF EarlyInv
    <2>2. HashOf[r[i].data] <= r[i].hash
      BY <1>7, <2>1 DEF ProbedPast
    <2>3. ASSUME NEW g \in HashOf[r[i].data]..(r[i].hash - 1)
          PROVE  g \in DOMAIN table /\ table[g].data # r[i].data
      <3>1. g \in Int /\ r[i].hash \in Nat
        BY <1>7, <2>1
      <3>2. CASE g < s[f[i]].hash
        BY <2>1, <3>1, <3>2 DEF ProbedPast
      <3>3. CASE ~(g < s[f[i]].hash)
        <4>1. g \in s[f[i]].hash..(r[i].hash - 1)
          BY <1>7, <2>1, <3>1, <3>3
        <4>2. QED BY <1>7, <4>1 DEF Holds
      <3>4. QED BY <3>2, <3>3
    <2>4. ProbedPast(r[i])
      BY <2>2, <2>3 DEF ProbedPast
    <2>5. ~Stored(r[i].data)
      <3> SUFFICES ASSUME NEW h \in DOMAIN table, table[h].data = r[i].data PROVE FALSE
        BY DEF Stored
      <3>1. h \in Nat /\ HashOf[r[i].data] <= h /\ \A g \in HashOf[r[i].data]..(h - 1) : g \in DOMAIN table
        BY <1>1 DEF TableInv, Taken
      <3>2. ~(h < r[i].hash)
        BY <1>7, <2>1, <2>3, <3>1
      <3>3. r[i].hash # h
        BY <1>7
      <3>4. r[i].hash \in HashOf[r[i].data]..(h - 1)
        BY <1>7, <2>1, <2>2, <3>1, <3>2, <3>3
      <3>5. QED BY <1>7, <3>1, <3>4
    <2>6. QED BY <2>1, <2>4, <2>5
  <1>9. Distinct(r)
    <2> SUFFICES ASSUME NEW i \in 1..m, NEW j \in 1..m, r[i].data = r[j].data
                 PROVE  i = j
      BY DEF Distinct, m
    <2>1. s[f[i]].data = s[f[j]].data
      BY <1>4
    <2>2. f[i] = f[j]
      BY <1>5, <2>1 DEF Distinct
    <2>3. QED BY <1>6, <2>2
  <1>10. DataOf(r) \subseteq DataOf(s)
    BY <1>4, <1>5 DEF DataOf, m
  \* First free places: the later of two is not below the earlier.
  <1>11. \A i, j \in 1..m : i < j => r[i].hash <= r[j].hash
    <2> SUFFICES ASSUME NEW i \in 1..m, NEW j \in 1..m, i < j, r[j].hash < r[i].hash
                 PROVE  FALSE
      BY <1>7
    <2>1. s[f[i]].hash <= s[f[j]].hash
      BY <1>4, <1>5 DEF EarlyInv, HashOrder
    <2>2. r[j].hash \in Nat /\ r[i].hash \in Nat /\ s[f[i]].hash \in Nat /\ s[f[j]].hash \in Nat
          /\ s[f[j]].hash <= r[j].hash
      BY <1>2, <1>5, <1>7
    <2>3. r[j].hash \in s[f[i]].hash..(r[i].hash - 1)
      <3> DEFINE low == s[f[i]].hash
                 mid == s[f[j]].hash
                 u == r[j].hash
                 v == r[i].hash
      <3>1. low \in Nat /\ mid \in Nat /\ u \in Nat /\ v \in Nat /\ low <= mid /\ mid <= u /\ u < v
        BY <2>1, <2>2
      <3> HIDE DEF low, mid, u, v
      <3>2. u \in low..(v - 1)
        BY <3>1
      <3>3. QED BY <3>2 DEF low, u, v
    <2>4. r[j].hash \in DOMAIN table
      BY <1>7, <2>3
    <2>5. QED BY <1>7, <2>4
  <1>12. EarlyInv(r)
    BY <1>8, <1>11 DEF EarlyInv, HashOrder, m
  <1>13. LateInv(r)
    BY <1>8 DEF LateInv, m
  <1>14. Placeable(r)
    <2>1. ASSUME NEW i \in 1..m
          PROVE  /\ HashOf[r[i].data] <= r[i].hash
                 /\ r[i].hash \notin DOMAIN table
                 /\ \A g \in HashOf[r[i].data]..(r[i].hash - 1) : g \in DOMAIN table
      BY <1>7, <1>8 DEF ProbedPast
    <2>2. m >= 3 => r[2].hash <= r[3].hash
      BY <1>3, <1>11
    <2>3. QED BY <2>1, <2>2 DEF Placeable, m
  <1>15. /\ DOMAIN new = DOMAIN map
         /\ \A d \in DOMAIN map :
              \/ /\ StoredAs(d, new[d]) /\ new[d] \in Nat \ {0}
                 /\ \E i \in 1..Len(s) : s[i].data = d /\ Holds(Probe(d, s[i].hash), d)
              \/ /\ new[d] = map[d]
                 /\ \A i \in 1..Len(s) : s[i].data = d => ~Holds(Probe(d, s[i].hash), d)
    BY FoundIds
  <1>16. new \in [DOMAIN map -> Nat]
    <2>1. new = [d \in DOMAIN map |-> new[d]]
      BY DEF Found
    <2>2. \A d \in DOMAIN map : new[d] \in Nat
      BY <1>15
    <2> HIDE DEF new
    <2>3. QED BY <2>1, <2>2
  <1> HIDE DEF new
  <1>17. KnownInv(new)
    BY <1>15 DEF KnownInv
  <1>18. ASSUME NEW d \in DOMAIN map
         PROVE  new[d] = 0 <=> d \in DataOf(r)
    <2>1. ASSUME new[d] = 0 PROVE d \in DataOf(r)
      <3>1. map[d] = 0 /\ \A i \in 1..Len(s) : s[i].data = d => ~Holds(Probe(d, s[i].hash), d)
        BY <1>15, <2>1
      <3>2. PICK j \in 1..Len(s) : s[j].data = d
        BY <3>1 DEF DataOf
      <3>3. PICK i \in 1..m : f[i] = j
        BY <1>4, <3>1, <3>2
      <3>4. r[i].data = d
        BY <1>4, <3>2, <3>3
      <3>5. QED BY <3>4 DEF DataOf, m
    <2>2. ASSUME d \in DataOf(r) PROVE new[d] = 0
      <3>1. PICK i \in 1..m : r[i].data = d
        BY <2>2 DEF DataOf, m
      <3>2. ~Stored(d)
        BY <1>8, <3>1
      <3>3. ~StoredAs(d, new[d])
        BY <3>2 DEF Stored, StoredAs
      <3>4. new[d] = map[d] /\ d \in DataOf(s)
        BY <1>10, <1>15, <2>2, <3>3
      <3>5. QED BY <3>4
    <2>3. QED BY <2>1, <2>2
  <1>19. QED BY <1>3, <1>9, <1>10, <1>12, <1>13, <1>14, <1>15, <1>16, <1>17, <1>18 DEF r, new

-----------------------------------------------------------------------------
(* resolve_self_collision.                                                 *)

\* What moving one element does to the lists: gadgets stay, and a list that is
\* neither stuck nor placeable does not come about.
SameGadgets(s, r) ==
  /\ r \in Seq(Proposed) /\ Len(r) = Len(s)
  /\ \A j \in 1..Len(s) : r[j].data = s[j].data

\* Every element but the third that is moved leaves the collision it was moved
\* for in place.
LEMMA SeparateStep ==
  ASSUME NEW s \in Seq(Proposed), NEW i \in 1..(Len(s) - 1), Stuck(s) \/ Placeable(s)
  PROVE  SameGadgets(s, Separate(s, i)) /\ (Stuck(Separate(s, i)) \/ Placeable(Separate(s, i)))
  <1> DEFINE t == 2 * (i - 1) + 1
             r == [s EXCEPT ![t].hash = s[i].hash + 1]
  <1>1. Len(s) \in Nat /\ i \in 1..Len(s) /\ i + 1 \in 1..Len(s) /\ t \in Nat /\ t >= 1
    BY LenProperties
  <1>2. \A j \in 1..Len(s) : s[j] \in Proposed /\ s[j].data \in Data /\ s[j].hash \in Nat
    <2>1. \A j \in 1..Len(s) : s[j] \in Proposed
      BY ElementOfSeq
    <2>2. QED BY <2>1 DEF Proposed
  <1>3. CASE ~(s[i + 1].hash <= s[i].hash /\ t <= Len(s))
    BY <1>3 DEF Separate, SameGadgets
  <1>4. CASE s[i + 1].hash <= s[i].hash /\ t <= Len(s)
    <2>1. Separate(s, i) = r
      BY <1>4 DEF Separate
    <2> HIDE DEF t
    <2>2. t \in 1..Len(s)
      BY <1>1, <1>4
    <2>3. [s[t] EXCEPT !.hash = s[i].hash + 1] = [data |-> s[t].data, hash |-> s[i].hash + 1]
      BY <1>2, <2>2 DEF Proposed
    <2>4. r = [s EXCEPT ![t] = [data |-> s[t].data, hash |-> s[i].hash + 1]]
      BY <2>3
    <2>5. [data |-> s[t].data, hash |-> s[i].hash + 1] \in Proposed
      <3>1. s[t].data \in Data /\ s[i].hash + 1 \in Nat
        BY <1>1, <1>2, <2>2
      <3>2. QED BY <3>1 DEF Proposed
    <2> HIDE DEF r
    <2>6. r \in Seq(Proposed) /\ Len(r) = Len(s)
          /\ \A j \in 1..Len(s) : r[j] = IF j = t THEN [data |-> s[t].data, hash |-> s[i].hash + 1] ELSE s[j]
      BY <2>4, <2>5, <2>2, ExceptSeq
    <2>7. \A j \in 1..Len(s) : /\ r[j].data = s[j].data
                               /\ j = t => r[j].hash = s[i].hash + 1
                               /\ j # t => r[j].hash = s[j].hash
      BY <2>6
    <2>8. SameGadgets(s, r)
      BY <2>6, <2>7 DEF SameGadgets
    <2>9. CASE i # 2
      <3>1. t # i + 1 /\ (t = i \/ t # i)
        BY <1>1, <2>9 DEF t
      <3>2. r[i + 1].hash = s[i + 1].hash
        BY <1>1, <2>7, <3>1
      <3>3. r[i].hash = s[i].hash \/ r[i].hash = s[i].hash + 1
        BY <1>1, <2>7
      <3>4. r[i + 1].hash <= r[i].hash
        BY <1>1, <1>2, <1>4, <3>2, <3>3
      <3>5. Stuck(r)
        BY <2>6, <2>9, <3>4 DEF Stuck
      <3>6. QED BY <2>1, <2>8, <3>5
    <2>10. CASE i = 2
      <3>1. t = 3 /\ 2 \in 1..Len(s) /\ 3 \in 1..Len(s) /\ s[3].hash <= s[2].hash
        BY <1>1, <1>4, <2>10 DEF t
      <3>2. r[3].hash = s[2].hash + 1 /\ \A j \in 1..Len(s) : j # 3 => r[j].hash = s[j].hash
        BY <2>7, <2>10, <3>1
      <3>3. CASE Stuck(s)
        <4>1. PICK j \in 1..(Len(s) - 1) : j # 2 /\ s[j + 1].hash <= s[j].hash
          BY <3>3 DEF Stuck
        <4>2. j \in 1..Len(s) /\ j + 1 \in 1..Len(s) /\ j + 1 # 3
          BY <1>1, <4>1
        <4>3. r[j + 1].hash = s[j + 1].hash
          BY <3>2, <4>2
        <4>4. s[j].hash <= r[j].hash
          BY <1>2, <3>1, <3>2, <4>2
        <4>5. r[j].hash \in Nat
          BY <1>2, <3>1, <3>2, <4>2
        <4>6. r[j + 1].hash <= r[j].hash
          BY <1>2, <4>1, <4>2, <4>3, <4>4, <4>5
        <4>7. Stuck(r)
          BY <2>6, <4>1, <4>6 DEF Stuck
        <4>8. QED BY <2>1, <2>8, <4>7
      <3>4. CASE Placeable(s)
        <4>1. s[3].hash = s[2].hash
          BY <1>1, <1>2, <3>1, <3>4 DEF Placeable
        <4>2. ASSUME NEW j \in 1..Len(s), j # 3
              PROVE  /\ HashOf[r[j].data] <= r[j].hash
                     /\ r[j].hash \notin DOMAIN table
                     /\ \A g \in HashOf[r[j].data]..(r[j].hash - 1) : g \in DOMAIN table
          BY <2>7, <3>2, <3>4, <4>2 DEF Placeable
        <4>3. /\ HashOf[r[3].data] <= r[3].hash
              /\ \A g \in HashOf[r[3].data]..(r[3].hash - 1) : g \in DOMAIN table \/ g = r[2].hash
          <5>1. r[3].data = s[3].data /\ HashOf[s[3].data] \in Nat /\ s[2].hash \in Nat
                /\ r[2].hash = s[2].hash /\ HashOf[s[3].data] <= s[2].hash
                /\ \A g \in HashOf[s[3].data]..(s[2].hash - 1) : g \in DOMAIN table \/ g = s[2].hash
            BY <1>2, <2>7, <3>1, <3>2, <3>4, <4>1, SelsertAssumption DEF Placeable
          <5>2. r[3].hash = s[2].hash + 1
            BY <3>2
          <5>3. HashOf[r[3].data] <= r[3].hash
            BY <5>1, <5>2
          <5>4. ASSUME NEW g \in HashOf[r[3].data]..(r[3].hash - 1)
                PROVE  g \in DOMAIN table \/ g = r[2].hash
            <6>1. g \in HashOf[s[3].data]..(s[2].hash - 1) \/ g = s[2].hash
              BY <5>1, <5>2
            <6>2. QED BY <5>1, <6>1
          <5>5. QED BY <5>3, <5>4
        <4>4. r[2].hash <= r[3].hash
          BY <1>2, <3>1, <3>2
        <4>5. Placeable(r)
          BY <2>6, <4>2, <4>3, <4>4 DEF Placeable
        <4>6. QED BY <2>1, <2>8, <4>5
      <3>5. QED BY <3>3, <3>4
    <2>11. QED BY <2>9, <2>10
  <1>5. QED BY <1>3, <1>4

\* The function that Separated defines by recursion exists.
LEMMA PassExists ==
  ASSUME NEW s, NEW n \in Nat
  PROVE  \E f : f = [i \in 0..n |-> IF i = 0 THEN s ELSE Separate(f[i - 1], i)]
  <1> DEFINE S == {m \in Nat : \E f : f = [i \in 0..m |-> IF i = 0 THEN s ELSE Separate(f[i - 1], i)]}
  <1>1. 0 \in S
    <2>1. [i \in 0..0 |-> s] = [i \in 0..0 |-> IF i = 0 THEN s ELSE Separate([k \in 0..0 |-> s][i - 1], i)]
      OBVIOUS
    <2>2. QED BY <2>1
  <1>2. ASSUME NEW m \in Nat, m \in S PROVE m + 1 \in S
    <2>1. PICK f : f = [i \in 0..m |-> IF i = 0 THEN s ELSE Separate(f[i - 1], i)]
      BY <1>2
    <2> DEFINE g == [i \in 0..(m + 1) |-> IF i <= m THEN f[i] ELSE Separate(f[m], m + 1)]
    <2>2. \A i \in 0..m : g[i] = f[i] /\ f[i] = IF i = 0 THEN s ELSE Separate(f[i - 1], i)
      BY <2>1
    <2>3. g[m + 1] = Separate(f[m], m + 1)
      OBVIOUS
    <2>4. DOMAIN g = 0..(m + 1) /\ g = [i \in 0..(m + 1) |-> g[i]]
      OBVIOUS
    <2> HIDE DEF g
    <2>5. ASSUME NEW i \in 0..(m + 1)
          PROVE  g[i] = IF i = 0 THEN s ELSE Separate(g[i - 1], i)
      <3>1. CASE i = 0
        BY <2>2, <3>1
      <3>2. CASE i \in 1..m
        <4>1. i \in 0..m /\ i - 1 \in 0..m /\ i # 0
          BY <3>2
        <4>2. QED BY <2>2, <4>1
      <3>3. CASE i = m + 1
        <4>1. m \in 0..m /\ (m + 1) - 1 = m /\ m + 1 # 0
          OBVIOUS
        <4>2. g[m] = f[m]
          BY <2>2, <4>1
        <4>3. QED BY <2>3, <3>3, <4>1, <4>2
      <3>4. QED BY <3>1, <3>2, <3>3
    <2>6. g = [i \in 0..(m + 1) |-> IF i = 0 THEN s ELSE Separate(g[i - 1], i)]
      BY <2>4, <2>5
    <2>7. QED BY <2>6
  <1> HIDE DEF S
  <1>3. n \in S
    BY <1>1, <1>2, InductionOnNumbers
  <1>4. QED BY <1>3 DEF S

\* A whole pass.
LEMMA SeparatedKeeps ==
  ASSUME NEW s \in Seq(Proposed), s # <<>>, Stuck(s) \/ Placeable(s)
  PROVE  SameGadgets(s, Separated(s)) /\ (Stuck(Separated(s)) \/ Placeable(Separated(s)))
  <1> DEFINE n == Len(s) - 1
             pass == CHOOSE f : f = [i \in 0..n |-> IF i = 0 THEN s ELSE Separate(f[i - 1], i)]
             Good(r) == SameGadgets(s, r) /\ (Stuck(r) \/ Placeable(r))
             S == {m \in Nat : m <= n => Good(pass[m])}
  <1>1. n \in Nat /\ n < Len(s)
    BY EmptySeq
  <1>2. pass = [i \in 0..n |-> IF i = 0 THEN s ELSE Separate(pass[i - 1], i)]
    BY <1>1, PassExists
  <1>3. Separated(s) = pass[n]
    BY DEF Separated
  <1>4. pass[0] = s
    <2> HIDE DEF pass, n
    <2>1. 0 \in 0..n
      BY <1>1
    <2>2. QED BY <1>2, <2>1
  <1>5. \A m \in Nat : m + 1 <= n => pass[m + 1] = Separate(pass[m], m + 1)
    <2> HIDE DEF pass, n
    <2> SUFFICES ASSUME NEW m \in Nat, m + 1 <= n PROVE pass[m + 1] = Separate(pass[m], m + 1)
      OBVIOUS
    <2>1. m + 1 \in 0..n /\ m + 1 # 0 /\ (m + 1) - 1 = m
      BY <1>1
    <2>2. QED BY <1>2, <2>1
  <1> HIDE DEF pass
  <1>6. 0 \in S
    BY <1>4 DEF SameGadgets
  <1>7. ASSUME NEW m \in Nat, m \in S PROVE m + 1 \in S
    <2> SUFFICES ASSUME m + 1 <= n PROVE Good(pass[m + 1])
      OBVIOUS
    <2>1. Good(pass[m]) /\ m + 1 \in 1..n
      BY <1>1, <1>7
    <2> DEFINE r == pass[m]
    <2>2. r \in Seq(Proposed) /\ Len(r) = Len(s) /\ (Stuck(r) \/ Placeable(r))
      BY <2>1 DEF SameGadgets
    <2>3. m + 1 \in 1..(Len(r) - 1)
      BY <2>1, <2>2
    <2> HIDE DEF r
    <2>4. SameGadgets(r, Separate(r, m + 1)) /\ (Stuck(Separate(r, m + 1)) \/ Placeable(Separate(r, m + 1)))
      BY <2>2, <2>3, SeparateStep
    <2>5. SameGadgets(s, Separate(r, m + 1))
      BY <2>1, <2>2, <2>4 DEF SameGadgets, r
    <2>6. pass[m + 1] = Separate(r, m + 1)
      BY <1>5 DEF r
    <2>7. QED BY <2>4, <2>5, <2>6
  <1> HIDE DEF S
  <1>8. n \in S
    BY <1>1, <1>6, <1>7, InductionOnNumbers
  <1>9. Good(pass[n])
    BY <1>1, <1>8 DEF S
  <1>10. QED BY <1>3, <1>9

\* The pruning loop of resolve_self_collision prunes nothing, and when it finds
\* no collision the list is not stuck.
LEMMA RepruneKeeps ==
  ASSUME TableInv, NEW s \in Seq(Proposed), LateInv(s), Stuck(s) \/ Placeable(s)
  PROVE  /\ SameGadgets(s, Probed(s))
         /\ Stuck(Probed(s)) \/ Placeable(Probed(s))
         /\ ~SelfCollision(s) => ~Stuck(Probed(s))
  <1> DEFINE r == Probed(s)
  <1>1. DOMAIN table \subseteq Nat /\ IsFiniteSet(DOMAIN table)
    BY DEF TableInv
  <1>2. /\ r \in Seq(Proposed) /\ Len(r) = Len(s) /\ Len(s) \in Nat
        /\ \A i \in 1..Len(s) : r[i].data = s[i].data /\ r[i].hash = Probe(s[i].data, s[i].hash)
        /\ \A i \in 1..Len(s) : s[i].data \in Data /\ s[i].hash \in Nat
    BY ProbedElements, LenProperties
  <1>3. ASSUME NEW i \in 1..Len(s), NEW h PROVE ~Holds(h, s[i].data)
    BY DEF LateInv, Stored, Holds
  <1>4. ASSUME NEW i \in 1..Len(s)
        PROVE  /\ r[i].hash \in Nat /\ s[i].hash <= r[i].hash /\ r[i].hash \notin DOMAIN table
               /\ \A g \in s[i].hash..(r[i].hash - 1) : g \in DOMAIN table
    <2> DEFINE d == s[i].data
               h == s[i].hash
    <2>1. h \in Nat /\ r[i].hash = Probe(d, h)
      BY <1>2
    <2>2. ~Holds(Probe(d, h), d)
      BY <1>3
    <2> HIDE DEF d, h, r
    <2>3. /\ Probe(d, h) \in Nat /\ h <= Probe(d, h)
          /\ Probe(d, h) \notin DOMAIN table
          /\ \A g \in h..(Probe(d, h) - 1) : g \in DOMAIN table
      BY <1>1, <2>1, <2>2, ProbeFinds
    <2>4. QED BY <2>1, <2>3 DEF h
  <1> HIDE DEF r
  <1>5. SameGadgets(s, r)
    BY <1>2 DEF SameGadgets
  <1>6. ASSUME Stuck(s) PROVE Stuck(r) \/ Placeable(r)
    <2>1. PICK i \in 1..(Len(s) - 1) : i # 2 /\ s[i + 1].hash <= s[i].hash
      BY <1>6 DEF Stuck
    <2>2. i \in 1..Len(s) /\ i + 1 \in 1..Len(s)
      BY <1>2
    <2> DEFINE a == s[i + 1].hash
               b == s[i].hash
               u == r[i + 1].hash
               v == r[i].hash
    <2>3. a \in Nat /\ b \in Nat /\ u \in Nat /\ v \in Nat /\ a <= b /\ b <= v
          /\ v \notin DOMAIN table /\ \A g \in a..(u - 1) : g \in DOMAIN table
      BY <1>2, <1>4, <2>1, <2>2
    <2> HIDE DEF a, b, u, v
    <2>4. ~(v < u)
      <3>1. v < u => v \in a..(u - 1)
        BY <2>3
      <3>2. QED BY <2>3, <3>1
    <2>5. u <= v
      BY <2>3, <2>4
    <2>6. Stuck(r)
      BY <1>2, <2>1, <2>5 DEF Stuck, u, v
    <2>7. QED BY <2>6
  <1>7. ASSUME Placeable(s) PROVE Stuck(r) \/ Placeable(r)
    <2>1. ASSUME NEW i \in 1..Len(s), i # 3 PROVE r[i].hash = s[i].hash
      <3>1. s[i].hash \notin DOMAIN table
        BY <1>7, <2>1 DEF Placeable
      <3>2. s[i].hash \notin s[i].hash..(r[i].hash - 1)
        BY <1>4, <3>1
      <3>3. QED BY <1>2, <1>4, <3>2
    <2>2. ASSUME NEW i \in 1..Len(s)
          PROVE  /\ HashOf[r[i].data] <= r[i].hash
                 /\ i # 3 => r[i].hash \notin DOMAIN table
                 /\ \A g \in HashOf[r[i].data]..(r[i].hash - 1) :
                      g \in DOMAIN table \/ (i = 3 /\ g = r[2].hash)
      <3>1. /\ r[i].data = s[i].data /\ HashOf[s[i].data] \in Nat /\ HashOf[s[i].data] <= s[i].hash
            /\ \A g \in HashOf[s[i].data]..(s[i].hash - 1) :
                 g \in DOMAIN table \/ (i = 3 /\ g = s[2].hash)
        BY <1>2, <1>7, SelsertAssumption DEF Placeable
      <3>2. HashOf[r[i].data] <= r[i].hash
        BY <1>2, <1>4, <3>1
      <3>3. ASSUME NEW g \in HashOf[r[i].data]..(r[i].hash - 1)
            PROVE  g \in DOMAIN table \/ (i = 3 /\ g = r[2].hash)
        <4>1. g \in HashOf[s[i].data]..(s[i].hash - 1) \/ g \in s[i].hash..(r[i].hash - 1)
          BY <1>2, <1>4, <3>1
        <4>2. i = 3 => 2 \in 1..Len(s)
          BY <1>2
        <4>3. i = 3 => r[2].hash = s[2].hash
          BY <2>1, <4>2
        <4>4. QED BY <1>4, <3>1, <4>1, <4>3
      <3>4. QED BY <1>4, <3>2, <3>3
    <2>3. Len(s) >= 3 => r[2].hash <= r[3].hash
      <3> SUFFICES ASSUME Len(s) >= 3 PROVE r[2].hash <= r[3].hash
        OBVIOUS
      <3>1. 2 \in 1..Len(s) /\ 3 \in 1..Len(s) /\ r[2].hash = s[2].hash /\ s[2].hash <= s[3].hash
        BY <1>2, <1>7, <2>1 DEF Placeable
      <3>2. s[3].hash <= r[3].hash /\ s[2].hash \in Nat /\ s[3].hash \in Nat /\ r[3].hash \in Nat
        BY <1>2, <1>4, <3>1
      <3>3. QED BY <3>1, <3>2
    <2>4. Placeable(r)
      BY <1>2, <2>2, <2>3 DEF Placeable
    <2>5. QED BY <2>4
  <1>8. ASSUME Stuck(r) PROVE SelfCollision(s)
    <2>1. PICK i \in 1..(Len(s) - 1) : r[i + 1].hash <= r[i].hash
      BY <1>2, <1>8 DEF Stuck
    <2>2. i + 1 \in 2..Len(s) /\ i + 1 \in 1..Len(s) /\ (i + 1) - 1 = i
      BY <1>2
    <2>3. ~Holds(r[i + 1].hash, r[i + 1].data)
      BY <1>2, <1>3, <2>2
    <2>4. QED BY <2>1, <2>2, <2>3 DEF SelfCollision, r
  <1>9. QED BY <1>5, <1>6, <1>7, <1>8 DEF r

\* Moving hashes about changes nothing else that a call relies on.
LEMMA SameGadgetsLocal ==
  ASSUME NEW s, NEW r, NEW q, NEW map, LocalInv(s, q, map), LateInv(s), SameGadgets(s, r)
  PROVE  LocalInv(r, q, map) /\ LateInv(r)
  <1>1. s \in Seq(Proposed) /\ s # <<>> /\ r \in Seq(Proposed) /\ Len(r) = Len(s)
        /\ \A j \in 1..Len(s) : r[j].data = s[j].data
    BY DEF LocalInv, SameGadgets
  <1>2. DataOf(r) = DataOf(s)
    BY <1>1 DEF DataOf
  <1>3. r # <<>>
    <2>1. Len(s) \in Nat \ {0} /\ Len(<<>>) = 0
      BY <1>1, EmptySeq
    <2>2. QED BY <1>1, <2>1
  <1>4. Distinct(r)
    BY <1>1 DEF LocalInv, Distinct
  <1>5. QED BY <1>1, <1>2, <1>3, <1>4 DEF LocalInv, LateInv

-----------------------------------------------------------------------------
(* append_gadget_index.                                                    *)

\* The pages added begin one page after the other.
LEMMA PagesInARow ==
  ASSUME NEW i \in Nat, NEW j \in Nat, i < j, NEW p \in Nat
  PROVE  i * p \in Nat /\ j * p \in Nat /\ i * p + p <= j * p
  <1> DEFINE e == j - i - 1
  <1>1. e \in Nat /\ j = i + 1 + e
    OBVIOUS
  <1> HIDE DEF e
  <1>2. e * p \in Nat /\ i * p \in Nat /\ j * p \in Nat
    BY <1>1
  <1>3. j * p = i * p + p + e * p
    BY <1>1
  <1>4. QED BY <1>2, <1>3

\* The pages that append_gadget_index adds for count hashes, the first fill of
\* which went to the open page.
PageFrom(fill, n) == fill + n * IndexPage
PageTo(fill, count, n) == Min({PageFrom(fill, n) + IndexPage, count})
Added(fill, count) == {n \in 0..count : PageFrom(fill, n) < count}

\* They follow one another, are full but for the last, and reach the last hash.
LEMMA AddedPages ==
  ASSUME NEW count \in Nat, NEW fill \in 0..count
  PROVE  /\ \A n \in Added(fill, count) :
              /\ n \in Nat /\ PageFrom(fill, n) \in fill..(count - 1)
              /\ PageTo(fill, count, n) \in (PageFrom(fill, n) + 1)..count
              /\ PageTo(fill, count, n) <= PageFrom(fill, n) + IndexPage
              /\ PageTo(fill, count, n) # count => PageTo(fill, count, n) = PageFrom(fill, n) + IndexPage
              /\ \/ PageFrom(fill, n) = fill
                 \/ \E m \in Added(fill, count) : PageTo(fill, count, m) = PageFrom(fill, n)
         /\ \A m, n \in Added(fill, count) :
              PageTo(fill, count, m) < PageTo(fill, count, n) => PageTo(fill, count, m) <= PageFrom(fill, n)
         /\ fill < count => \E n \in Added(fill, count) : PageTo(fill, count, n) = count
  <1> DEFINE P == IndexPage
             A == Added(fill, count)
             From(n) == PageFrom(fill, n)
             To(n) == PageTo(fill, count, n)
             Pages(n) == n * IndexPage
  <1>1. P \in Nat /\ P >= 1 /\ fill \in Nat /\ fill <= count
    BY SelsertAssumption
  <1>2. ASSUME NEW n \in Nat
        PROVE  /\ Pages(n) \in Nat /\ n <= Pages(n) /\ Pages(0) = 0 /\ Pages(n + 1) = Pages(n) + P
               /\ \A m \in Nat : m < n => Pages(m) + P <= Pages(n)
    <2>1. Pages(n) \in Nat /\ Pages(0) = 0 /\ Pages(n + 1) = Pages(n) + P
      BY <1>1
    <2>2. \A m \in Nat : m < n => Pages(m) + P <= Pages(n)
      BY <1>1, PagesInARow
    <2>3. n <= Pages(n)
      <3>1. n * (P - 1) \in Nat /\ n * P = n + n * (P - 1)
        BY <1>1
      <3>2. QED BY <3>1
    <2>4. QED BY <2>1, <2>2, <2>3
  <1> HIDE DEF Pages
  <1>3. \A n \in Nat : From(n) = fill + Pages(n)
    BY DEF PageFrom, Pages
  <1>4. \A n \in Nat : From(n) \in Nat
    BY <1>1, <1>2, <1>3
  <1> HIDE DEF P
  <1>5. \A n \in Nat : To(n) = IF From(n) + P <= count THEN From(n) + P ELSE count
    BY <1>1, <1>4, MinOfTwo DEF PageTo, P
  <1>6. \A n : n \in A <=> n \in 0..count /\ From(n) < count
    BY DEF Added
  <1> HIDE DEF From, To, A
  <1>7. ASSUME NEW n \in A
        PROVE  /\ n \in Nat /\ From(n) \in fill..(count - 1)
               /\ To(n) \in (From(n) + 1)..count /\ To(n) <= From(n) + P
               /\ To(n) # count => To(n) = From(n) + P
    <2>1. n \in Nat /\ From(n) < count
      BY <1>6
    <2>2. From(n) \in Nat /\ fill <= From(n)
      <3>1. Pages(n) \in Nat /\ From(n) = fill + Pages(n)
        BY <1>2, <1>3, <2>1
      <3>2. QED BY <1>1, <3>1
    <2>3. To(n) = IF From(n) + P <= count THEN From(n) + P ELSE count
      BY <1>5, <2>1
    <2>4. QED BY <1>1, <2>1, <2>2, <2>3
  <1>8. ASSUME NEW m \in A, NEW n \in A, m < n
        PROVE  From(m) + P <= From(n) /\ To(m) <= From(n)
    <2>1. m \in Nat /\ n \in Nat
      BY <1>6
    <2>2. Pages(m) + P <= Pages(n) /\ Pages(m) \in Nat /\ Pages(n) \in Nat
      BY <1>8, <1>2, <2>1
    <2>3. From(m) + P <= From(n)
      BY <1>1, <1>3, <2>1, <2>2
    <2>4. To(m) <= From(m) + P /\ To(m) \in Int /\ From(m) \in Int /\ From(n) \in Int
      BY <1>7
    <2>5. QED BY <1>1, <2>3, <2>4
  <1>9. ASSUME NEW n \in A, n # 0
        PROVE  \E m \in A : To(m) = From(n)
    <2>1. n \in Nat /\ n - 1 \in Nat /\ n - 1 < n /\ n <= count
      BY <1>6, <1>9
    <2> DEFINE m == n - 1
    <2>2. From(n) = From(m) + P
      <3>1. Pages(m + 1) = Pages(m) + P /\ m + 1 = n /\ m \in Nat /\ Pages(m) \in Nat
        BY <1>2, <2>1
      <3>2. From(n) = fill + Pages(n) /\ From(m) = fill + Pages(m)
        BY <1>3, <2>1
      <3>3. QED BY <1>1, <3>1, <3>2
    <2> HIDE DEF m
    <2>3. m \in Nat /\ m <= count
      BY <2>1 DEF m
    <2>4. m \in A /\ From(m) + P <= count
      <3>1. From(n) < count /\ From(m) \in Nat /\ From(n) \in Nat
        BY <1>6, <1>4, <2>1, <2>3
      <3>2. From(m) < count /\ From(m) + P <= count
        BY <1>1, <2>2, <3>1
      <3>3. QED BY <1>6, <2>3, <3>2
    <2>5. QED BY <1>5, <2>2, <2>3, <2>4
  <1>10. ASSUME fill < count PROVE \E n \in A : To(n) = count
    <2> DEFINE T == {e \in Nat : \E n \in A : e = count - n}
    <2>1. 0 \in A
      <3>1. From(0) = fill
        BY <1>1, <1>2, <1>3
      <3>2. QED BY <1>6, <1>10, <3>1
    <2>2. T \subseteq Nat /\ T # {}
      BY <2>1
    <2>3. PICK e \in T : \A x \in T : e <= x
      BY <2>2, LeastNumber
    <2>4. PICK n \in A : e = count - n
      BY <2>3
    <2>5. n \in 0..count /\ From(n) < count
      BY <1>6
    <2>6. n < count
      <3>1. n <= Pages(n) /\ Pages(n) \in Nat /\ From(n) = fill + Pages(n) /\ n \in Nat
        BY <1>2, <1>3, <2>5
      <3>2. QED BY <1>1, <2>5, <3>1
    <2>7. n + 1 \notin A
      <3> SUFFICES ASSUME n + 1 \in A PROVE FALSE
        OBVIOUS
      <3>1. count - (n + 1) \in T
        BY <2>5, <2>6
      <3>2. e <= count - (n + 1)
        BY <2>3, <3>1
      <3>3. QED BY <2>4, <2>5, <3>2
    <2>8. ~(From(n + 1) < count)
      BY <1>6, <2>5, <2>6, <2>7
    <2>9. From(n + 1) = From(n) + P
      <3>1. n \in Nat /\ n + 1 \in Nat /\ Pages(n + 1) = Pages(n) + P /\ Pages(n) \in Nat
        BY <1>2, <2>5
      <3>2. From(n + 1) = fill + Pages(n + 1) /\ From(n) = fill + Pages(n)
        BY <1>3, <3>1
      <3>3. QED BY <1>1, <3>1, <3>2
    <2>10. To(n) = count
      <3>1. n \in Nat /\ From(n) \in Nat /\ ~(From(n) + P < count)
        BY <1>4, <2>5, <2>8, <2>9
      <3>2. To(n) = IF From(n) + P <= count THEN From(n) + P ELSE count
        BY <1>5, <3>1
      <3>3. QED BY <1>1, <3>1, <3>2
    <2>11. QED BY <2>10
  <1>11. ASSUME NEW m \in A, NEW n \in A, To(m) < To(n)
        PROVE  To(m) <= From(n)
    <2>1. m \in Nat /\ n \in Nat /\ From(m) \in Nat /\ From(n) \in Nat /\ To(m) \in Nat /\ To(n) \in Nat
          /\ From(m) < To(m) /\ To(m) <= count
      BY <1>4, <1>7
    <2>2. CASE m < n
      BY <1>8, <2>2
    <2>3. CASE n < m
      <3>1. To(n) <= From(m)
        BY <1>8, <2>3
      <3>2. QED BY <1>11, <2>1, <3>1
    <2>4. CASE m = n
      BY <1>11, <2>1, <2>4
    <2>5. QED BY <2>1, <2>2, <2>3, <2>4
  <1>12. ASSUME NEW n \in A
        PROVE  From(n) = fill \/ \E m \in A : To(m) = From(n)
    <2>1. CASE n = 0
      <3>1. From(0) = fill
        BY <1>1, <1>2, <1>3
      <3>2. QED BY <2>1, <3>1
    <2>2. CASE n # 0
      BY <1>9, <2>2
    <2>3. QED BY <2>1, <2>2
  <1>13. QED BY <1>7, <1>10, <1>11, <1>12 DEF A, From, To, P

\* The index stays a chain of pages of which only the last is not full, up to
\* the id of the last hash appended.
LEMMA AppendTiles ==
  ASSUME IndexInv, NEW hashes \in Seq(Nat), hashes # <<>>
  PROVE  Tiles(append_gadget_index(hashes, MaxGadgetId + 1), MaxGadgetId + Len(hashes))
  <1> DEFINE N == MaxGadgetId
             L == Len(hashes)
             P == IndexPage
             open == N # 0 /\ Len(index[N]) # P
             fill == IF open THEN Min({L, P - Len(index[N])}) ELSE 0
             kept == IF open THEN DOMAIN index \ {N} ELSE DOMAIN index
             filled == IF open THEN {N + fill} ELSE {}
             From(n) == PageFrom(fill, n)
             To(n) == PageTo(fill, L, n)
             added == Added(fill, L)
             domain == kept \cup filled \cup {N + 1 + To(n) - 1 : n \in added}
             new == append_gadget_index(hashes, N + 1)
             B == N + fill
  <1>1. new = [k \in domain |->
                 IF k \in kept THEN index[k]
                 ELSE IF k \in filled THEN index[N] \o SubSeq(hashes, 1, fill)
                 ELSE LET n == CHOOSE m \in added : N + 1 + To(m) - 1 = k
                      IN  SubSeq(hashes, From(n) + 1, To(n))]
    BY DEF append_gadget_index, PageFrom, PageTo, Added
  <1>2. N \in Nat /\ P \in Nat /\ P >= 1 /\ L \in Nat /\ L >= 1
    BY EmptySeq, SelsertAssumption DEF IndexInv, Tiles
  <1>3. /\ N \in DOMAIN index \cup {0} /\ DOMAIN index \subseteq 1..N
        /\ \A k \in DOMAIN index :
             /\ index[k] \in Seq(Nat) /\ Len(index[k]) \in 1..P
             /\ k # N => Len(index[k]) = P
             /\ k - Len(index[k]) \in DOMAIN index \cup {0}
        /\ \A k, l \in DOMAIN index : k < l => k <= l - Len(index[l])
    BY EmptySeq, SelsertAssumption DEF IndexInv, Tiles
  <1> HIDE DEF N, L, P
  \* The open page.
  <1>4. open \in BOOLEAN
    OBVIOUS
  <1>5. open => N \in DOMAIN index /\ N >= 1 /\ Len(index[N]) \in 1..(P - 1) /\ index[N] \in Seq(Nat)
    BY <1>2, <1>3
  <1>6. /\ fill \in 0..L /\ (~open => fill = 0)
        /\ open => fill >= 1 /\ Len(index[N]) + fill <= P
        /\ open /\ fill < L => Len(index[N]) + fill = P
    <2>1. CASE open
      <3> DEFINE c == P - Len(index[N])
      <3>1. Len(index[N]) \in 1..(P - 1)
        BY <1>5, <2>1
      <3>2. c \in Nat /\ c >= 1 /\ Len(index[N]) \in Nat /\ Len(index[N]) + c = P
        BY <1>2, <3>1
      <3>3. fill = Min({L, c})
        BY <2>1
      <3> HIDE DEF fill, open, c
      <3>4. fill = IF L <= c THEN L ELSE c
        BY <1>2, <3>2, <3>3, MinOfTwo
      <3>5. /\ fill \in 0..L /\ fill >= 1 /\ Len(index[N]) + fill <= P
            /\ fill < L => Len(index[N]) + fill = P
        <4> DEFINE v == Len(index[N])
        <4>1. v \in Nat /\ c \in Nat /\ c >= 1 /\ v + c = P
          BY <3>2
        <4> HIDE DEF v
        <4>2. CASE L <= c
          <5>1. fill = L
            BY <3>4, <4>2
          <5>2. QED BY <1>2, <4>1, <4>2, <5>1 DEF v
        <4>3. CASE ~(L <= c)
          <5>1. fill = c
            BY <3>4, <4>3
          <5>2. QED BY <1>2, <4>1, <4>3, <5>1 DEF v
        <4>4. QED BY <4>2, <4>3
      <3>6. QED BY <2>1, <3>5
    <2>2. CASE ~open
      BY <1>2, <2>2
    <2>3. QED BY <2>1, <2>2
  <1>7. /\ kept \subseteq DOMAIN index /\ (open => N \notin kept)
        /\ \A k \in DOMAIN index : k # N => k \in kept
        /\ ~open => kept = DOMAIN index
        /\ \A k : k \in filled <=> open /\ k = B
    OBVIOUS
  <1> HIDE DEF fill, kept, filled, open
  \* The pages added.
  <1>8. /\ \A n \in added :
              /\ n \in Nat /\ From(n) \in fill..(L - 1) /\ To(n) \in (From(n) + 1)..L
              /\ To(n) <= From(n) + P /\ (To(n) # L => To(n) = From(n) + P)
              /\ From(n) = fill \/ \E m \in added : To(m) = From(n)
        /\ \A m, n \in added : To(m) < To(n) => To(m) <= From(n)
        /\ fill < L => \E n \in added : To(n) = L
    BY <1>2, <1>6, AddedPages DEF P
  <1> HIDE DEF added, From, To
  <1>9. \A n \in added : /\ From(n) \in Nat /\ To(n) \in Nat /\ fill <= From(n)
                         /\ From(n) < To(n) /\ To(n) <= L /\ To(n) <= From(n) + P
    <2> TAKE n \in added
    <2>1. From(n) \in fill..(L - 1) /\ To(n) \in (From(n) + 1)..L /\ To(n) <= From(n) + P
      BY <1>8
    <2>2. QED BY <1>2, <1>6, <2>1
  <1>10. B \in Nat /\ N <= B /\ B <= N + L /\ (open => N < B) /\ (~open => B = N)
    BY <1>2, <1>6
  <1>11. DOMAIN new = domain
    BY <1>1
  <1>12. \A k : k \in domain <=> k \in kept \/ k \in filled \/ \E n \in added : k = N + To(n)
    <2>1. \A n \in added : N + 1 + To(n) - 1 = N + To(n)
      BY <1>2, <1>9
    <2>2. QED BY <2>1
  <1>13. \A n \in added : N + To(n) \in domain /\ N + To(n) \in (B + 1)..(N + L)
    <2> TAKE n \in added
    <2>1. N + To(n) \in (B + 1)..(N + L)
      BY <1>2, <1>6, <1>9
    <2>2. QED BY <1>12, <2>1
  <1> HIDE DEF new, domain, B
  \* The pages that were there.
  <1>14. ASSUME NEW k \in kept
         PROVE  /\ k \in domain /\ k \in 1..N /\ new[k] = index[k] /\ k <= B
                /\ new[k] \in Seq(Nat) /\ Len(new[k]) \in 1..P
                /\ k - Len(new[k]) \in kept \cup {0}
                /\ k # B => Len(new[k]) = P
                /\ fill < L => Len(new[k]) = P
    <2>1. k \in domain /\ k \in DOMAIN index
      BY <1>7, <1>12
    <2>2. new[k] = index[k]
      BY <1>1, <2>1
    <2>3. k \in 1..N
      BY <1>3, <2>1
    <2>4. k \in domain /\ k \in DOMAIN index /\ k \in 1..N /\ new[k] = index[k] /\ k <= B
      BY <1>2, <1>10, <2>1, <2>2, <2>3
    <2>5. k - Len(index[k]) \in DOMAIN index \cup {0} /\ Len(index[k]) \in 1..P /\ index[k] \in Seq(Nat)
      BY <1>3, <2>4
    <2>6. k - Len(index[k]) # N
      BY <1>2, <2>4, <2>5
    <2>7. k - Len(index[k]) \in kept \cup {0}
      BY <1>7, <2>5, <2>6
    <2>8. k # N => Len(index[k]) = P
      BY <1>3, <2>4
    <2>9. open => k # N
      BY <1>7
    <2>10. k # B => Len(index[k]) = P
      BY <1>10, <2>8, <2>9
    <2>11. Len(index[k]) = P \/ (k = N /\ ~open)
      BY <2>8, <2>9
    <2>12. N # 0 /\ ~open => Len(index[N]) = P
      BY DEF open
    <2>13. fill < L => Len(index[k]) = P
      BY <2>4, <2>11, <2>12
    <2>14. QED BY <2>4, <2>5, <2>7, <2>10, <2>13
  \* The page that was filled up.
  <1>15. ASSUME open
         PROVE  /\ B \in domain /\ new[B] \in Seq(Nat) /\ Len(new[B]) \in 1..P
                /\ B - Len(new[B]) = N - Len(index[N])
                /\ N - Len(index[N]) \in kept \cup {0}
                /\ fill < L => Len(new[B]) = P
    <2>1. N \in DOMAIN index /\ Len(index[N]) \in 1..(P - 1) /\ index[N] \in Seq(Nat)
          /\ fill \in 1..L /\ Len(index[N]) + fill <= P
          /\ (fill < L => Len(index[N]) + fill = P)
      BY <1>2, <1>5, <1>6, <1>15
    <2>2. B \in domain /\ B \in filled /\ B \notin kept
      <3>1. B \in filled /\ B \in domain
        BY <1>7, <1>12, <1>15
      <3>2. B \notin DOMAIN index
        BY <1>2, <1>10, <1>15, <1>3
      <3>3. QED BY <1>7, <3>1, <3>2
    <2>3. new[B] = index[N] \o SubSeq(hashes, 1, fill)
      BY <1>1, <2>2
    <2>4. \A i \in 1..fill : hashes[i] \in Nat
      BY <2>1, ElementOfSeq DEF L
    <2>5. SubSeq(hashes, 1, fill) \in Seq(Nat) /\ Len(SubSeq(hashes, 1, fill)) = fill
      BY <2>1, <2>4, SubSeqProperties
    <2> DEFINE old == index[N]
               rest == SubSeq(hashes, 1, fill)
    <2>6. old \in Seq(Nat) /\ rest \in Seq(Nat) /\ Len(rest) = fill /\ new[B] = old \o rest
      BY <2>1, <2>3, <2>5
    <2> HIDE DEF old, rest
    <2>7. new[B] \in Seq(Nat) /\ Len(new[B]) = Len(old) + Len(rest)
      BY <2>6, ConcatProperties
    <2>8. new[B] \in Seq(Nat) /\ Len(new[B]) = Len(index[N]) + fill
      BY <2>6, <2>7 DEF old
    <2>9. N - Len(index[N]) \in kept \cup {0}
      <3>1. N - Len(index[N]) \in DOMAIN index \cup {0} /\ N - Len(index[N]) # N
        BY <1>2, <1>3, <2>1
      <3>2. QED BY <1>7, <3>1
    <2>10. /\ Len(new[B]) \in 1..P /\ B - Len(new[B]) = N - Len(index[N])
          /\ (fill < L => Len(new[B]) = P)
      <3>1. Len(index[N]) \in Nat /\ fill \in Nat /\ fill >= 1
        BY <1>2, <2>1
      <3>2. QED BY <1>2, <2>1, <2>8, <3>1 DEF B
    <2>11. QED BY <2>2, <2>8, <2>9, <2>10
  \* The new pages.
  <1>16. ASSUME NEW k \in domain, k \notin kept, k \notin filled
         PROVE  \E n \in added :
                  /\ k = N + To(n) /\ new[k] \in Seq(Nat) /\ Len(new[k]) = To(n) - From(n)
    <2>1. \E m \in added : N + 1 + To(m) - 1 = k
      BY <1>16 DEF domain
    <2> DEFINE n == CHOOSE m \in added : N + 1 + To(m) - 1 = k
    <2>2. n \in added /\ N + 1 + To(n) - 1 = k
      BY <2>1
    <2>3. new[k] = SubSeq(hashes, From(n) + 1, To(n))
      BY <1>1, <1>16
    <2> HIDE DEF n
    <2>4. From(n) \in Nat /\ To(n) \in Nat /\ From(n) < To(n) /\ To(n) <= L
      BY <1>9, <2>2
    <2>5. From(n) \in Nat /\ To(n) \in (From(n) + 1)..L /\ k = N + To(n)
      BY <1>2, <2>2, <2>4
    <2>6. \A i \in (From(n) + 1)..To(n) : hashes[i] \in Nat
      <3>1. \A i \in (From(n) + 1)..To(n) : i \in 1..L
        BY <1>2, <2>5
      <3>2. QED BY <3>1, ElementOfSeq DEF L
    <2>7. From(n) + 1 \in Int /\ To(n) \in Int
      BY <2>5
    <2>8. new[k] \in Seq(Nat) /\ Len(new[k]) = To(n) - From(n)
      <3>1. /\ SubSeq(hashes, From(n) + 1, To(n)) \in Seq(Nat)
            /\ Len(SubSeq(hashes, From(n) + 1, To(n)))
                 = IF From(n) + 1 <= To(n) THEN To(n) - (From(n) + 1) + 1 ELSE 0
        BY <2>6, <2>7, SubSeqProperties
      <3>2. QED BY <2>3, <2>4, <3>1
    <2>9. QED BY <2>2, <2>5, <2>8
  <1>17. B \in domain \cup {0}
    BY <1>2, <1>7, <1>10, <1>12, <1>3
  <1>18. DOMAIN new \subseteq 1..(N + L)
    <2> SUFFICES ASSUME NEW k \in domain PROVE k \in 1..(N + L)
      BY <1>11
    <2>1. CASE k \in kept
      BY <1>2, <1>14, <2>1
    <2>2. CASE k \in filled
      <3>1. k = B /\ B \in Nat /\ N < B /\ B <= N + L
        BY <1>7, <1>10, <2>2
      <3>2. QED BY <1>2, <3>1
    <2>3. CASE \E n \in added : k = N + To(n)
      BY <1>2, <1>10, <1>13, <2>3
    <2>4. QED BY <1>12, <2>1, <2>2, <2>3
  <1>19. N + L \in DOMAIN new
    <2>1. CASE fill < L
      BY <1>8, <1>11, <1>13, <2>1
    <2>2. CASE ~(fill < L)
      <3>1. fill = L /\ open /\ B = N + L
        BY <1>2, <1>6, <2>2 DEF B
      <3>2. QED BY <1>11, <1>15, <3>1
    <2>3. QED BY <2>1, <2>2
  <1>20. ASSUME NEW k \in domain
         PROVE  /\ new[k] \in Seq(Nat) /\ Len(new[k]) \in 1..P
                /\ k # N + L => Len(new[k]) = P
                /\ k - Len(new[k]) \in domain \cup {0}
    <2>1. CASE k \in kept
      <3>1. k # N + L => Len(new[k]) = P
        BY <1>2, <1>6, <1>10, <1>14, <2>1 DEF B
      <3>2. QED BY <1>12, <1>14, <2>1, <3>1
    <2>2. CASE k \in filled
      <3>1. open /\ k = B
        BY <1>7, <2>2
      <3>2. k # N + L => fill < L
        BY <1>2, <1>6, <3>1 DEF B
      <3>3. QED BY <1>12, <1>15, <3>1, <3>2
    <2>3. CASE k \notin kept /\ k \notin filled
      <3>1. PICK n \in added : k = N + To(n) /\ new[k] \in Seq(Nat) /\ Len(new[k]) = To(n) - From(n)
        BY <1>16, <2>3
      <3>2. /\ From(n) \in Nat /\ To(n) \in Nat /\ From(n) < To(n) /\ To(n) <= L
            /\ To(n) <= From(n) + P /\ (To(n) # L => To(n) = From(n) + P)
        BY <1>8, <1>9
      <3>3. Len(new[k]) \in 1..P /\ (k # N + L => Len(new[k]) = P) /\ k - Len(new[k]) = N + From(n)
        <4> DEFINE f == From(n)
                   u == To(n)
                   c == Len(new[k])
        <4>1. f \in Nat /\ u \in Nat /\ f < u /\ u <= L /\ u <= f + P /\ (u # L => u = f + P)
              /\ k = N + u /\ c = u - f
          BY <3>1, <3>2
        <4> HIDE DEF f, u, c
        <4>2. c \in 1..P /\ k - c = N + f
          BY <1>2, <4>1
        <4>3. k # N + L => c = P
          BY <1>2, <4>1
        <4>4. QED BY <4>2, <4>3 DEF f, c
      <3>4. N + From(n) \in domain \cup {0}
        <4>1. CASE From(n) = fill
          BY <1>17, <4>1 DEF B
        <4>2. CASE \E m \in added : To(m) = From(n)
          BY <1>13, <4>2
        <4>3. QED BY <1>8, <4>1, <4>2
      <3>5. QED BY <3>1, <3>3, <3>4
    <2>4. QED BY <2>1, <2>2, <2>3
  <1>21. ASSUME NEW k \in domain, NEW l \in domain, k < l
         PROVE  k <= l - Len(new[l])
    <2>1. \A x \in kept : x \in 1..N /\ x \in Nat
      <3>1. \A x \in kept : x \in 1..N
        BY <1>14
      <3>2. QED BY <1>2, <3>1
    <2>2. CASE l \in kept
      <3>1. k \in kept
        <4>1. l \in 1..N
          BY <2>1, <2>2
        <4>2. k \notin filled
          BY <1>2, <1>7, <1>10, <1>21, <4>1
        <4>3. \A n \in added : k # N + To(n)
          BY <1>2, <1>10, <1>13, <1>21, <4>1
        <4>4. QED BY <1>12, <4>2, <4>3
      <3>2. k \in DOMAIN index /\ l \in DOMAIN index /\ new[l] = index[l]
        BY <1>7, <1>14, <2>2, <3>1
      <3>3. QED BY <1>3, <1>21, <3>2
    <2>3. CASE l \in filled
      <3>1. open /\ l = B
        BY <1>7, <2>3
      <3>2. k \in kept
        <4>1. k \notin filled
          BY <1>7, <1>10, <1>21, <3>1
        <4>2. \A n \in added : k # N + To(n)
          BY <1>2, <1>10, <1>13, <1>21, <3>1
        <4>3. QED BY <1>12, <4>1, <4>2
      <3>3. k \in DOMAIN index /\ k # N /\ N \in DOMAIN index /\ k \in 1..N
        BY <1>5, <1>7, <2>1, <3>1, <3>2
      <3>4. k <= N - Len(index[N])
        <4>1. k < N
          BY <1>2, <3>3
        <4>2. QED BY <1>3, <3>3, <4>1
      <3>5. l - Len(new[l]) = N - Len(index[N])
        BY <1>15, <3>1
      <3>6. QED BY <3>4, <3>5
    <2>4. CASE l \notin kept /\ l \notin filled
      <3>1. PICK n \in added : l = N + To(n) /\ Len(new[l]) = To(n) - From(n)
        BY <1>16, <2>4
      <3>2. From(n) \in fill..(L - 1) /\ To(n) \in (From(n) + 1)..L
        BY <1>8
      <3>3. l - Len(new[l]) = N + From(n) /\ B <= N + From(n)
        <4>1. From(n) \in Nat /\ To(n) \in Nat /\ fill \in Nat /\ fill <= From(n)
          BY <1>2, <1>6, <1>9
        <4>2. QED BY <1>2, <3>1, <4>1 DEF B
      <3>4. CASE k \in kept \/ k \in filled
        <4>1. k \in Nat /\ k <= B
          BY <1>7, <1>10, <1>14, <2>1, <3>4
        <4>2. N + From(n) \in Nat
          BY <1>2, <1>9
        <4>3. QED BY <1>10, <3>3, <4>1, <4>2
      <3>5. CASE k \notin kept /\ k \notin filled
        <4>1. PICK m \in added : k = N + To(m)
          BY <1>12, <3>5
        <4>2. To(m) \in Nat /\ To(n) \in Nat /\ From(n) \in Nat
          BY <1>9
        <4>3. To(m) < To(n)
          BY <1>2, <1>21, <3>1, <4>1, <4>2
        <4>4. To(m) <= From(n)
          BY <1>8, <4>3
        <4>5. QED BY <1>2, <3>3, <4>1, <4>2, <4>4
      <3>6. QED BY <3>4, <3>5
    <2>5. QED BY <2>2, <2>3, <2>4
  <1>22. new \in [DOMAIN new -> Seq(Nat)]
    <2>1. new = [k \in DOMAIN new |-> new[k]]
      BY <1>1
    <2>2. QED BY <1>11, <1>20, <2>1
  <1>23. N + L \in Nat
    BY <1>2
  <1>24. Tiles(new, N + L)
    BY <1>11, <1>18, <1>19, <1>20, <1>21, <1>22, <1>23 DEF Tiles, P
  <1>25. QED BY <1>24 DEF new, N, L

-----------------------------------------------------------------------------
(* What follows from the invariant.                                        *)

\* The shapes of the store and of the calls.
LEMMA InvTypeOK == ASSUME IInv PROVE TypeOK
  <1>1. \A h \in DOMAIN table : h \in Nat /\ table[h].data \in Data /\ table[h].id \in Nat \ {0}
    BY DEF IInv, TableInv
  <1>2. \A k \in DOMAIN index : k \in Nat /\ index[k] \in Seq(Nat)
    BY DEF IInv, IndexInv, Tiles
  <1>3. writer \in Proc \cup {NoProc}
        /\ \A p \in Proc : (writer = p) <=> (pc[p] \in {"resolve", "resolved", "insert"})
    BY DEF IInv, CallInv, Call
  <1>4. ASSUME NEW p \in Proc PROVE pending[p] \in Seq(Proposed) /\ ranked[p] \in Seq(Proposed)
    <2>1. CallInv(p)
      BY DEF IInv
    <2>2. CASE pc[p] \in {"idle", "returned", "threw"}
      BY <2>1, <2>2, EmptySeq DEF CallInv, Call
    <2>3. CASE pc[p] \in {"pruned", "resolve", "resolved", "insert"}
      BY <2>1, <2>3 DEF CallInv, Call, LocalInv
    <2>4. QED BY <2>1, <2>2, <2>3 DEF CallInv, Call
  <1>5. QED BY <1>1, <1>2, <1>3, <1>4 DEF TypeOK

\* A gadget with no gap between its hash and its place is found by probing.
LEMMA InvProbeable == ASSUME TableInv PROVE Probeable
  <1> SUFFICES ASSUME NEW h \in DOMAIN table
               PROVE  Probe(table[h].data, HashOf[table[h].data]) = h
    BY DEF Probeable
  <1> DEFINE d == table[h].data
  <1>1. /\ DOMAIN table \subseteq Nat /\ IsFiniteSet(DOMAIN table) /\ h \in Nat
        /\ d \in Data /\ HashOf[d] \in Nat /\ HashOf[d] <= h /\ Holds(h, d)
        /\ \A g \in HashOf[d]..(h - 1) : g \in DOMAIN table
    BY SelsertAssumption DEF TableInv, Taken, Holds
  <1>2. \A g \in HashOf[d]..(h - 1) : ~Holds(g, d)
    <2> SUFFICES ASSUME NEW g \in HashOf[d]..(h - 1), Holds(g, d) PROVE FALSE
      OBVIOUS
    <2>1. g = h
      BY DEF Holds, TableInv, StoredOnce
    <2>2. QED BY <1>1, <2>1
  <1> HIDE DEF d
  <1>3. Probe(d, HashOf[d]) = h
    BY <1>1, <1>2, ProbeIs
  <1>4. QED BY <1>3 DEF d

\* In a chain of pages each id is on one page: the first that ends at or after
\* the id begins at or before it.
LEMMA InvIndexTiles == ASSUME IdsInv, IndexInv PROVE IndexTiles
  <1> DEFINE N == MaxGadgetId
  <1>1. /\ N \in Nat /\ N \in DOMAIN index \cup {0} /\ DOMAIN index \subseteq 1..N
        /\ \A k \in DOMAIN index : /\ Len(index[k]) \in 1..IndexPage
                                   /\ k # N => Len(index[k]) = IndexPage
                                   /\ k - Len(index[k]) \in DOMAIN index \cup {0}
        /\ \A k, l \in DOMAIN index : k < l => k <= l - Len(index[l])
    BY DEF IndexInv, Tiles
  <1> HIDE DEF N
  <1>2. {table[h].id : h \in DOMAIN table} = 1..N
    BY DEF IdsInv, N
  <1>3. ASSUME NEW id \in 1..N
        PROVE  Cardinality({k \in DOMAIN index : id \in (k - Len(index[k]) + 1)..k}) = 1
    <2> DEFINE T == {k \in DOMAIN index : k >= id}
    <2>1. id \in Nat /\ id >= 1 /\ id <= N
      BY <1>1
    <2>2. N \in T /\ T \subseteq Nat
      BY <1>1, <2>1
    <2>3. PICK k \in T : \A l \in T : k <= l
      BY <2>2, LeastNumber
    <2>4. k \in DOMAIN index /\ k \in Nat /\ k >= id /\ Len(index[k]) \in Nat /\ Len(index[k]) >= 1
      BY <1>1, <2>2, <2>3
    <2>5. k - Len(index[k]) < id
      <3>1. k - Len(index[k]) \in DOMAIN index \cup {0} /\ k - Len(index[k]) < k
        BY <1>1, <2>4
      <3>2. k - Len(index[k]) \in Int /\ ~(k <= k - Len(index[k]))
        BY <2>4
      <3>3. k - Len(index[k]) \notin T
        BY <2>3, <3>2
      <3>4. QED BY <2>1, <3>1, <3>2, <3>3
    <2>6. id \in (k - Len(index[k]) + 1)..k
      BY <2>1, <2>4, <2>5
    <2>7. ASSUME NEW l \in DOMAIN index, id \in (l - Len(index[l]) + 1)..l
          PROVE  l = k
      <3>1. l \in Nat /\ Len(index[l]) \in Nat
        BY <1>1
      <3>2. l >= id /\ l - Len(index[l]) < id
        BY <2>1, <2>7, <3>1
      <3>3. k <= l
        BY <2>3, <3>2
      <3>4. ~(k < l)
        <4>1. k < l => k <= l - Len(index[l])
          BY <1>1, <2>4
        <4>2. QED BY <2>1, <2>4, <3>1, <3>2, <4>1
      <3>5. QED BY <2>4, <3>1, <3>3, <3>4
    <2>8. {l \in DOMAIN index : id \in (l - Len(index[l]) + 1)..l} = {k}
      BY <2>4, <2>6, <2>7
    <2>9. QED BY <2>8, FS_Singleton, Zenon
  <1>4. QED BY <1>1, <1>2, <1>3 DEF IndexTiles, N

\* A returned id is the one that is stored with the gadget.
LEMMA InvReturns == ASSUME IInv PROVE ReturnsStoredIds
  <1> SUFFICES ASSUME NEW p \in Proc, pc[p] = "returned", NEW d \in DOMAIN ids[p]
               PROVE  \E h \in DOMAIN table : table[h] = [data |-> d, id |-> ids[p][d]]
    BY DEF ReturnsStoredIds
  <1>1. StoredAs(d, ids[p][d])
    BY DEF IInv, CallInv, Call
  <1>2. PICK h \in DOMAIN table : table[h].data = d /\ table[h].id = ids[p][d]
    BY <1>1 DEF StoredAs
  <1>3. table[h] \in [data : Data, id : Nat \ {0}]
    BY DEF IInv, TableInv
  <1>4. table[h] = [data |-> d, id |-> ids[p][d]]
    BY <1>2, <1>3
  <1>5. QED BY <1>4

\* The four properties together.
LEMMA InvTableIntact == ASSUME IInv PROVE TableIntact
  <1>1. StoredOnce
    BY DEF IInv, TableInv
  <1>2. Probeable
    BY InvProbeable DEF IInv
  <1>3. IndexTiles
    BY InvIndexTiles DEF IInv
  <1>4. ReturnsStoredIds
    BY InvReturns
  <1>5. QED BY <1>1, <1>2, <1>3, <1>4 DEF TableIntact

-----------------------------------------------------------------------------
(* The ids that an insertion assigns.                                      *)

\* The gadgets that get ids are those still pending, in the order of ranked.
LEMMA NovelList ==
  ASSUME NEW p, LocalInv(pending[p], ranked[p], ids[p])
  PROVE  /\ Novel(p) \in Seq(Proposed) /\ Len(Novel(p)) \in Nat \ {0}
         /\ Distinct(Novel(p)) /\ DataOf(Novel(p)) = DataOf(pending[p])
  <1> DEFINE r == ranked[p]
             map == ids[p]
             s == pending[p]
             K == {i \in 1..Len(r) : map[r[i].data] = 0}
  <1>1. /\ r \in Seq(Proposed) /\ Distinct(r) /\ Len(s) \in Nat \ {0}
        /\ DataOf(s) \subseteq DataOf(r) /\ DataOf(r) \subseteq DOMAIN map
        /\ \A d \in DOMAIN map : map[d] = 0 <=> d \in DataOf(s)
    BY EmptySeq DEF LocalInv
  <1>2. Novel(p) = Kept(r, K)
    BY DEF Novel
  <1>3. K \in SUBSET (1..Len(r)) /\ \A i \in 1..Len(r) : i \in K <=> map[r[i].data] = 0
    OBVIOUS
  <1> HIDE DEF K, r, map, s
  <1>4. /\ Kept(r, K) \in Seq(Proposed) /\ Len(Kept(r, K)) \in Nat
        /\ \E f \in [1..Len(Kept(r, K)) -> K] :
              /\ \A i, j \in 1..Len(Kept(r, K)) : i < j => f[i] < f[j]
              /\ \A k \in K : \E i \in 1..Len(Kept(r, K)) : f[i] = k
              /\ \A i \in 1..Len(Kept(r, K)) : Kept(r, K)[i] = r[f[i]]
    BY <1>1, <1>3, KeptAlong, SMTT(30)
  <1> DEFINE v == Kept(r, K)
             m == Len(v)
  <1>5. v \in Seq(Proposed) /\ m \in Nat
    BY <1>4
  <1>6. PICK f \in [1..m -> K] :
              /\ \A i, j \in 1..m : i < j => f[i] < f[j]
              /\ \A k \in K : \E i \in 1..m : f[i] = k
              /\ \A i \in 1..m : v[i] = r[f[i]]
    BY <1>4, Zenon
  <1> HIDE DEF v, m
  <1>7. \A i \in 1..m : f[i] \in K /\ f[i] \in 1..Len(r) /\ f[i] \in Int
    <2> TAKE i \in 1..m
    <2>1. f[i] \in K
      OBVIOUS
    <2>2. f[i] \in 1..Len(r)
      BY <1>3, <2>1
    <2>3. QED BY <2>1, <2>2
  <1>8. Distinct(v)
    <2> SUFFICES ASSUME NEW i \in 1..m, NEW j \in 1..m, v[i].data = v[j].data
                 PROVE  i = j
      BY DEF Distinct, m
    <2>1. f[i] = f[j]
      <3>1. r[f[i]].data = r[f[j]].data /\ f[i] \in 1..Len(r) /\ f[j] \in 1..Len(r)
        BY <1>6, <1>7
      <3>2. QED BY <1>1, <3>1 DEF Distinct
    <2>2. i \in Int /\ j \in Int /\ f[i] \in Int
      BY <1>7
    <2>3. ~(i < j) /\ ~(j < i)
      BY <1>6, <2>1, <2>2
    <2>4. QED BY <2>2, <2>3
  <1>9. DataOf(v) \subseteq DataOf(s)
    <2> SUFFICES ASSUME NEW i \in 1..m PROVE v[i].data \in DataOf(s)
      BY DEF DataOf, m
    <2>1. v[i] = r[f[i]] /\ f[i] \in K /\ f[i] \in 1..Len(r)
      BY <1>6, <1>7
    <2>2. r[f[i]].data \in DataOf(r) /\ map[r[f[i]].data] = 0
      BY <1>3, <2>1 DEF DataOf
    <2>3. QED BY <1>1, <2>1, <2>2
  <1>10. DataOf(s) \subseteq DataOf(v)
    <2> SUFFICES ASSUME NEW d \in DataOf(s) PROVE d \in DataOf(v)
      OBVIOUS
    <2>1. d \in DataOf(r) /\ map[d] = 0
      BY <1>1
    <2>2. PICK j \in 1..Len(r) : r[j].data = d
      BY <2>1 DEF DataOf
    <2>3. PICK i \in 1..m : f[i] = j
      BY <1>3, <1>6, <2>1, <2>2
    <2>4. v[i].data = d
      BY <1>6, <2>2, <2>3
    <2>5. QED BY <2>4 DEF DataOf, m
  <1>11. m # 0
    <2>1. s[1].data \in DataOf(s)
      BY <1>1 DEF DataOf
    <2>2. \E i \in 1..m : v[i].data = s[1].data
      BY <1>10, <2>1 DEF DataOf, m
    <2>3. QED BY <2>2
  <1>12. QED BY <1>2, <1>5, <1>8, <1>9, <1>10, <1>11 DEF v, m, s

\* They get the next ids in that order; the ids known already stay.
LEMMA AssignedIds ==
  ASSUME NEW p, LocalInv(pending[p], ranked[p], ids[p])
  PROVE  /\ DOMAIN Assigned(p) = DOMAIN ids[p]
         /\ \A d \in DOMAIN ids[p] : ids[p][d] # 0 => Assigned(p)[d] = ids[p][d]
         /\ \A k \in 1..Len(Novel(p)) :
              /\ Novel(p)[k].data \in DOMAIN ids[p]
              /\ Assigned(p)[Novel(p)[k].data] = MaxGadgetId + k
  <1>1. /\ Distinct(Novel(p)) /\ DataOf(Novel(p)) = DataOf(pending[p])
        /\ DataOf(pending[p]) \subseteq DOMAIN ids[p]
        /\ \A d \in DOMAIN ids[p] : ids[p][d] = 0 <=> d \in DataOf(pending[p])
    BY NovelList DEF LocalInv
  <1>2. DOMAIN Assigned(p) = DOMAIN ids[p]
    BY DEF Assigned
  <1>3. \A d \in DOMAIN ids[p] : ids[p][d] # 0 => Assigned(p)[d] = ids[p][d]
    BY DEF Assigned
  <1>4. ASSUME NEW k \in 1..Len(Novel(p))
        PROVE  /\ Novel(p)[k].data \in DOMAIN ids[p]
               /\ Assigned(p)[Novel(p)[k].data] = MaxGadgetId + k
    <2> DEFINE d == Novel(p)[k].data
    <2>1. d \in DataOf(Novel(p))
      BY DEF DataOf
    <2>2. d \in DOMAIN ids[p] /\ ids[p][d] = 0
      BY <1>1, <2>1
    <2>3. (CHOOSE i \in 1..Len(Novel(p)) : Novel(p)[i].data = d) = k
      BY <1>1 DEF Distinct
    <2> HIDE DEF d
    <2>4. Assigned(p)[d] = MaxGadgetId + (CHOOSE i \in 1..Len(Novel(p)) : Novel(p)[i].data = d)
      BY <2>2 DEF Assigned
    <2>5. QED BY <2>2, <2>3, <2>4 DEF d
  <1>5. QED BY <1>2, <1>3, <1>4

\* An insertion puts the pending gadgets at their places, under the ids after
\* MaxGadgetId, each of which it uses once.
LEMMA Insertion ==
  ASSUME IInv, NEW p \in Proc, insert(p), ~Collides(p)
  PROVE  /\ DOMAIN table' = DOMAIN table \cup {pending[p][i].hash : i \in 1..Len(pending[p])}
         /\ \A h \in DOMAIN table : table'[h] = table[h]
         /\ \A i \in 1..Len(pending[p]) :
              /\ pending[p][i].hash \notin DOMAIN table
              /\ \E k \in 1..Len(Novel(p)) :
                   /\ Novel(p)[k].data = pending[p][i].data
                   /\ table'[pending[p][i].hash] = [data |-> pending[p][i].data, id |-> MaxGadgetId + k]
         /\ \A k \in 1..Len(Novel(p)) : \E i \in 1..Len(pending[p]) :
              /\ Novel(p)[k].data = pending[p][i].data
              /\ table'[pending[p][i].hash] = [data |-> pending[p][i].data, id |-> MaxGadgetId + k]
         /\ \A i, j \in 1..Len(pending[p]) : pending[p][i].hash = pending[p][j].hash => i = j
         /\ Tiles(index', MaxGadgetId + Len(Novel(p))) /\ MaxGadgetId' = MaxGadgetId + Len(Novel(p))
  <1> DEFINE s == pending[p]
             v == Novel(p)
             m == Len(v)
             N == MaxGadgetId
             placed == {x.hash : x \in Range(s)}
             at(h) == CHOOSE x \in Range(s) : x.hash = h
  <1>1. LocalInv(s, ranked[p], ids[p])
    BY DEF IInv, CallInv, Call, insert
  <1>2. s \in Seq(Proposed) /\ v \in Seq(Proposed) /\ m \in Nat \ {0} /\ Distinct(s) /\ Distinct(v)
        /\ DataOf(v) = DataOf(s)
    BY <1>1, NovelList DEF LocalInv
  <1>3. \A k \in 1..m : Assigned(p)[v[k].data] = N + k
    BY <1>1, AssignedIds
  <1>4. table' = [h \in DOMAIN table \cup placed |->
                    IF h \in placed THEN [data |-> at(h).data, id |-> Assigned(p)[at(h).data]]
                                    ELSE table[h]]
        /\ index' = append_gadget_index([i \in 1..Len(Novel(p)) |-> Novel(p)[i].hash], MaxGadgetId + 1)
    BY DEF insert
  <1>5. DOMAIN s = 1..Len(s) /\ Range(s) = {s[i] : i \in 1..Len(s)}
    BY <1>2, LenProperties DEF Range
  <1>6. placed = {s[i].hash : i \in 1..Len(s)}
    BY <1>5
  <1>7. /\ \A i \in 1..Len(s) : s[i].hash \notin DOMAIN table
        /\ \A i, j \in 1..Len(s) : s[i].hash = s[j].hash => i = j
    BY DEF Collides
  <1>8. \A i \in 1..Len(s) : at(s[i].hash) = s[i]
    BY <1>5, <1>7
  <1> HIDE DEF placed, at, s, v, m
  <1>9. DOMAIN table' = DOMAIN table \cup {s[i].hash : i \in 1..Len(s)}
    BY <1>4, <1>6
  <1>10. \A h \in DOMAIN table : table'[h] = table[h]
    <2> TAKE h \in DOMAIN table
    <2>1. h \notin placed
      BY <1>6, <1>7
    <2>2. QED BY <1>4, <2>1
  <1>11. \A i \in 1..Len(s) : table'[s[i].hash] = [data |-> s[i].data, id |-> Assigned(p)[s[i].data]]
    <2> TAKE i \in 1..Len(s)
    <2>1. s[i].hash \in placed /\ at(s[i].hash) = s[i]
      BY <1>6, <1>8
    <2>2. QED BY <1>4, <2>1
  <1>12. \A i \in 1..Len(s) : \E k \in 1..m :
           v[k].data = s[i].data /\ table'[s[i].hash] = [data |-> s[i].data, id |-> N + k]
    <2> TAKE i \in 1..Len(s)
    <2>1. PICK k \in 1..m : v[k].data = s[i].data
      BY <1>2 DEF DataOf, m
    <2>2. QED BY <1>3, <1>11, <2>1
  <1>13. \A k \in 1..m : \E i \in 1..Len(s) :
           v[k].data = s[i].data /\ table'[s[i].hash] = [data |-> s[i].data, id |-> N + k]
    <2> TAKE k \in 1..m
    <2>1. PICK i \in 1..Len(s) : v[k].data = s[i].data
      BY <1>2 DEF DataOf, m
    <2>2. QED BY <1>3, <1>11, <2>1
  <1>14. Tiles(index', N + m)
    <2> DEFINE hashes == [i \in 1..m |-> v[i].hash]
    <2>1. \A i \in 1..m : v[i] \in Proposed
      BY <1>2, ElementOfSeq DEF m
    <2>2. \A i \in 1..m : v[i].hash \in Nat
      BY <2>1 DEF Proposed
    <2>3. hashes \in Seq(Nat) /\ Len(hashes) = m /\ hashes # <<>>
      <3>1. hashes \in Seq(Nat) /\ Len(hashes) = m
        BY <1>2, <2>2
      <3> HIDE DEF hashes
      <3>2. QED BY <1>2, <3>1, EmptySeq
    <2>4. index' = append_gadget_index(hashes, N + 1)
      BY <1>4 DEF m, v
    <2> HIDE DEF hashes
    <2>5. Tiles(append_gadget_index(hashes, N + 1), N + Len(hashes))
      BY <2>3, AppendTiles DEF IInv
    <2>6. QED BY <2>3, <2>4, <2>5
  <1> HIDE DEF N
  <1>15. MaxGadgetId' = N + m
    <2> DEFINE T == DOMAIN index' \cup {0}
    <2>1. N + m \in Nat /\ N + m \in T /\ T \subseteq Int /\ \A x \in T : x <= N + m
      BY <1>14 DEF Tiles
    <2> HIDE DEF T
    <2>2. Max(T) = N + m
      BY <2>1, MaxIs
    <2>3. QED BY <2>2 DEF T, MaxGadgetId
  <1>16. QED BY <1>7, <1>9, <1>10, <1>12, <1>13, <1>14, <1>15 DEF s, v, m, N

-----------------------------------------------------------------------------
(* The steps.                                                              *)

\* The empty store, and no call.
LEMMA InitInv == Init => IInv
  <1> SUFFICES ASSUME Init PROVE IInv
    OBVIOUS
  <1>1. DOMAIN table = {} /\ DOMAIN index = {}
    BY DEF Init
  <1>2. MaxGadgetId = 0
    <2>1. DOMAIN index \cup {0} = {0}
      BY <1>1
    <2>2. QED BY <2>1, MaxIs DEF MaxGadgetId
  <1>3. TableInv
    <2>1. IsFiniteSet(DOMAIN table)
      BY <1>1, FS_EmptySet
    <2>2. table = [h \in DOMAIN table |-> table[h]]
      BY DEF Init
    <2>3. QED BY <1>1, <2>1, <2>2 DEF TableInv, StoredOnce
  <1>4. IdsInv
    BY <1>1, <1>2 DEF IdsInv
  <1>5. IndexInv
    <2>1. index = [k \in DOMAIN index |-> index[k]]
      BY DEF Init
    <2>2. QED BY <1>1, <1>2, <2>1 DEF IndexInv, Tiles
  <1>6. ASSUME NEW p \in Proc PROVE CallInv(p)
    BY SelsertAssumption DEF Init, CallInv, Call
  <1>7. QED BY <1>3, <1>4, <1>5, <1>6 DEF IInv, Init

\* The lists of p change and nothing else does.
LEMMA BecomeUpdates ==
  ASSUME IInv, NEW p \in Proc, NEW where, NEW pend, NEW rank, NEW map, Become(p, where, pend, rank, map)
  PROVE  /\ DOMAIN pc' = Proc /\ DOMAIN pending' = Proc /\ DOMAIN ranked' = Proc /\ DOMAIN ids' = Proc
         /\ pc'[p] = where /\ pending'[p] = pend /\ ranked'[p] = rank /\ ids'[p] = map
         /\ \A q \in Proc \ {p} : /\ pc'[q] = pc[q] /\ pending'[q] = pending[q]
                                  /\ ranked'[q] = ranked[q] /\ ids'[q] = ids[q]
  BY DEF IInv, Become

\* A step that leaves the store alone keeps the invariant if the call it is of
\* keeps its part and no other process gains or loses the lock.
LEMMA StepOfCall ==
  ASSUME IInv, NEW p \in Proc, NEW where, NEW pend, NEW rank, NEW map,
         Become(p, where, pend, rank, map), UNCHANGED store,
         writer' \in Proc \cup {NoProc},
         \A q \in Proc \ {p} : writer' = q <=> writer = q,
         Call(where, writer' = p, pend, rank, map)
  PROVE  IInv'
  <1>1. /\ DOMAIN pc' = Proc /\ DOMAIN pending' = Proc /\ DOMAIN ranked' = Proc /\ DOMAIN ids' = Proc
        /\ pc'[p] = where /\ pending'[p] = pend /\ ranked'[p] = rank /\ ids'[p] = map
        /\ \A q \in Proc \ {p} : /\ pc'[q] = pc[q] /\ pending'[q] = pending[q]
                                 /\ ranked'[q] = ranked[q] /\ ids'[q] = ids[q]
    BY BecomeUpdates
  <1>2. table' = table /\ index' = index
    BY DEF store
  <1>3. TableInv' /\ IdsInv' /\ IndexInv'
    BY <1>2 DEF IInv, TableInv, IdsInv, IndexInv, StoredOnce, Taken, MaxGadgetId, Tiles
  <1>4. CallInv(p)'
    BY <1>1, <1>2 DEF CallInv, Call, StoredAs, KnownInv, EarlyInv, ProbedPast, LateInv, Stored, Placeable, Stuck, LocalInv
  <1>5. ASSUME NEW q \in Proc \ {p} PROVE CallInv(q)'
    <2>1. CallInv(q)
      BY DEF IInv
    <2>2. pc'[q] = pc[q] /\ pending'[q] = pending[q] /\ ranked'[q] = ranked[q] /\ ids'[q] = ids[q]
          /\ (writer' = q <=> writer = q)
      BY <1>1
    <2>3. QED BY <1>2, <2>1, <2>2 DEF CallInv, Call, StoredAs, KnownInv, EarlyInv, ProbedPast, LateInv, Stored, Placeable, Stuck, LocalInv
  <1>6. QED BY <1>1, <1>3, <1>4, <1>5 DEF IInv

\* A new call: the gadgets of the batch in order of hash, pruned once.
LEMMA SelsertStep ==
  ASSUME IInv, NEW p \in Proc, NEW batch \in Batch, selsert_gadget_by_data(p, batch)
  PROVE  IInv'
  <1> DEFINE proposed == {[data |-> d, hash |-> HashOf[d]] : d \in batch}
             map == [d \in batch |-> 0]
  <1>1. PICK s \in SetToSeqs(proposed) :
          /\ HashOrder(s)
          /\ \/ Survivors(s) = <<>> /\ Become(p, "returned", <<>>, <<>>, Found(s, map))
             \/ /\ Survivors(s) # <<>>
                /\ \E r \in SetToSeqs(Range(Survivors(s))) :
                     RankOrder(r) /\ Become(p, "pruned", Survivors(s), r, Found(s, map))
    BY DEF selsert_gadget_by_data
  <1>2. pc[p] = "idle" /\ UNCHANGED store /\ writer' = writer
    BY DEF selsert_gadget_by_data
  <1>3. batch \subseteq Data /\ IsFiniteSet(batch)
    BY SelsertAssumption
  <1>4. IsFiniteSet(proposed) /\ proposed \subseteq Proposed
    <2>1. proposed \subseteq Proposed
      BY <1>3, SelsertAssumption DEF Proposed
    <2> DEFINE f == [d \in batch |-> [data |-> d, hash |-> HashOf[d]]]
    <2>2. f \in Surjection(batch, proposed)
      <3>1. f \in [batch -> proposed]
        OBVIOUS
      <3>2. \A x \in proposed : \E d \in batch : f[d] = x
        OBVIOUS
      <3> HIDE DEF f, proposed
      <3>3. QED BY <3>1, <3>2 DEF Surjection
    <2> HIDE DEF f, proposed
    <2>3. QED BY <1>3, <2>1, <2>2, FS_Surjection
  <1>5. \A d \in batch : [data |-> d, hash |-> HashOf[d]] \in proposed
    OBVIOUS
  <1>6. \A x \in proposed : x.data \in batch /\ x.hash = HashOf[x.data] /\ x = [data |-> x.data, hash |-> HashOf[x.data]]
    OBVIOUS
  <1>7. map \in [DOMAIN map -> Nat] /\ DOMAIN map = batch /\ \A d \in batch : map[d] = 0
    OBVIOUS
  <1> HIDE DEF proposed, map
  <1>8. /\ s \in Seq(proposed) /\ Len(s) \in Nat
        /\ \A i, j \in 1..Len(s) : s[i] = s[j] => i = j
        /\ \A x \in proposed : \E i \in 1..Len(s) : s[i] = x
    BY <1>4, ListOfSet
  <1>9. \A i \in 1..Len(s) : s[i] \in proposed
    BY <1>8, ElementOfSeq
  <1>10. s \in Seq(Proposed)
    BY <1>4, <1>8, SeqMonotonic
  <1>11. Distinct(s)
    <2> SUFFICES ASSUME NEW i \in 1..Len(s), NEW j \in 1..Len(s), s[i].data = s[j].data PROVE i = j
      BY DEF Distinct
    <2>1. s[i] = s[j]
      BY <1>6, <1>9
    <2>2. QED BY <1>8, <2>1
  <1>12. DataOf(s) = batch
    <2>1. DataOf(s) \subseteq batch
      BY <1>6, <1>9 DEF DataOf
    <2>2. ASSUME NEW d \in batch PROVE d \in DataOf(s)
      <3>1. PICK i \in 1..Len(s) : s[i] = [data |-> d, hash |-> HashOf[d]]
        BY <1>5, <1>8
      <3>2. s[i].data = d
        BY <3>1
      <3>3. QED BY <3>2 DEF DataOf
    <2>3. QED BY <2>1, <2>2
  <1>13. EarlyInv(s)
    <2>1. ASSUME NEW i \in 1..Len(s) PROVE ProbedPast(s[i])
      <3>1. s[i].hash = HashOf[s[i].data] /\ HashOf[s[i].data] \in Nat
        BY <1>3, <1>6, <1>9, SelsertAssumption
      <3>2. HashOf[s[i].data] <= s[i].hash /\ ~ \E g \in HashOf[s[i].data]..(s[i].hash - 1) : TRUE
        BY <3>1
      <3>3. QED BY <3>2 DEF ProbedPast
    <2>2. QED BY <1>1, <2>1 DEF EarlyInv
  <1>14. TableInv
    BY DEF IInv
  <1>15. KnownInv(map)
    BY <1>7 DEF KnownInv
  <1> DEFINE left == Survivors(s)
             new == Found(s, map)
  <1>16. \A d \in DOMAIN map : map[d] = 0 <=> d \in DataOf(s)
    BY <1>7, <1>12
  <1>17. DataOf(s) \subseteq DOMAIN map
    BY <1>7, <1>12
  <1>18. /\ left \in Seq(Proposed) /\ Distinct(left)
         /\ DataOf(left) \subseteq DataOf(s)
         /\ EarlyInv(left)
         /\ DOMAIN new = DOMAIN map
         /\ new \in [DOMAIN map -> Nat]
         /\ \A d \in DOMAIN map : new[d] = 0 <=> d \in DataOf(left)
         /\ KnownInv(new)
    BY <1>7, <1>10, <1>11, <1>13, <1>14, <1>15, <1>16, <1>17, Pruning
  <1> HIDE DEF left, new
  <1>19. writer \in Proc \cup {NoProc} /\ writer # p
    BY <1>2 DEF IInv, CallInv, Call
  <1>20. CASE left = <<>> /\ Become(p, "returned", <<>>, <<>>, new)
    <2>1. \A d \in DOMAIN new : StoredAs(d, new[d])
      <3> TAKE d \in DOMAIN new
      <3>1. d \notin DataOf(left)
        BY <1>20, EmptySeq DEF DataOf
      <3>2. QED BY <1>18, <3>1 DEF KnownInv
    <2>2. Call("returned", writer' = p, <<>>, <<>>, new)
      BY <1>2, <1>19, <2>1 DEF Call
    <2>3. QED BY <1>2, <1>19, <1>20, <2>2, StepOfCall
  <1>21. CASE left # <<>> /\ \E r \in SetToSeqs(Range(left)) : RankOrder(r) /\ Become(p, "pruned", left, r, new)
    <2>1. PICK r \in SetToSeqs(Range(left)) : Become(p, "pruned", left, r, new)
      BY <1>21
    <2>2. Len(left) \in Nat /\ DOMAIN left = 1..Len(left) /\ left \in [1..Len(left) -> Proposed]
      BY <1>18, LenProperties
    <2>3. \A i \in 1..Len(left) : left[i] \in Range(left)
      BY <2>2 DEF Range
    <2>4. \A x \in Range(left) : \E i \in 1..Len(left) : left[i] = x
      BY <2>2 DEF Range
    <2>5. Range(left) \subseteq Proposed
      BY <2>2, <2>4
    <2>6. left \in Surjection(1..Len(left), Range(left))
      BY <2>2, <2>3, <2>4 DEF Surjection
    <2>7. IsFiniteSet(Range(left))
      <3>1. IsFiniteSet(1..Len(left))
        BY <2>2, FS_Interval
      <3>2. QED BY <2>6, <3>1, FS_Surjection
    <2>8. /\ r \in Seq(Range(left)) /\ Len(r) \in Nat
          /\ \A i, j \in 1..Len(r) : r[i] = r[j] => i = j
          /\ \A x \in Range(left) : \E i \in 1..Len(r) : r[i] = x
      BY <2>7, ListOfSet
    <2>9. r \in Seq(Proposed) /\ \A i \in 1..Len(r) : r[i] \in Range(left)
      BY <2>5, <2>8, SeqMonotonic, ElementOfSeq
    <2>10. Distinct(r)
      <3> SUFFICES ASSUME NEW i \in 1..Len(r), NEW j \in 1..Len(r), r[i].data = r[j].data PROVE i = j
        BY DEF Distinct
      <3>1. PICK k \in 1..Len(left) : left[k] = r[i]
        BY <2>4, <2>9
      <3>2. PICK l \in 1..Len(left) : left[l] = r[j]
        BY <2>4, <2>9
      <3>3. k = l
        BY <1>18, <3>1, <3>2 DEF Distinct
      <3>4. r[i] = r[j]
        BY <3>1, <3>2, <3>3
      <3>5. QED BY <2>8, <3>4
    <2>11. DataOf(r) = DataOf(left)
      <3>1. ASSUME NEW i \in 1..Len(r) PROVE r[i].data \in DataOf(left)
        <4>1. PICK k \in 1..Len(left) : left[k] = r[i]
          BY <2>4, <2>9
        <4>2. QED BY <4>1 DEF DataOf
      <3>2. ASSUME NEW k \in 1..Len(left) PROVE left[k].data \in DataOf(r)
        <4>1. PICK i \in 1..Len(r) : r[i] = left[k]
          BY <2>3, <2>8
        <4>2. QED BY <4>1 DEF DataOf
      <3>3. DataOf(r) \subseteq DataOf(left)
        BY <3>1 DEF DataOf
      <3>4. DataOf(left) \subseteq DataOf(r)
        BY <3>2 DEF DataOf
      <3>5. QED BY <3>3, <3>4
    <2>12. LocalInv(left, r, new)
      BY <1>3, <1>7, <1>17, <1>18, <1>21, <2>9, <2>10, <2>11 DEF LocalInv
    <2>13. Call("pruned", writer' = p, left, r, new)
      BY <1>2, <1>18, <1>19, <2>12 DEF Call
    <2>14. QED BY <1>2, <1>19, <2>1, <2>13, StepOfCall
  <1>22. QED BY <1>1, <1>20, <1>21 DEF left, new

\* Pruning again under the write lock.
LEMMA LatePruneStep ==
  ASSUME IInv, NEW p \in Proc, late_prune(p)
  PROVE  IInv'
  <1> DEFINE s == pending[p]
             map == ids[p]
             left == Survivors(s)
             new == Found(s, map)
             where == IF SelfCollision(s) THEN "resolve" ELSE "insert"
  <1>1. pc[p] = "pruned" /\ writer = NoProc /\ UNCHANGED store /\ p # NoProc
    BY SelsertAssumption DEF late_prune
  <1>2. \/ left = <<>> /\ Become(p, "returned", <<>>, <<>>, new) /\ writer' = writer
        \/ left # <<>> /\ Become(p, where, left, ranked[p], new) /\ writer' = p
    BY DEF late_prune
  <1>3. where \in {"resolve", "insert"}
    OBVIOUS
  <1>4. TableInv /\ LocalInv(s, ranked[p], map) /\ KnownInv(map) /\ EarlyInv(s)
    BY <1>1 DEF IInv, CallInv, Call
  <1> HIDE DEF s, map, where
  <1>5. /\ s \in Seq(Proposed) /\ Distinct(s) /\ map \in [DOMAIN map -> Nat]
        /\ \A d \in DOMAIN map : map[d] = 0 <=> d \in DataOf(s)
        /\ DataOf(s) \subseteq DOMAIN map
    BY <1>4 DEF LocalInv
  <1>6. /\ left \in Seq(Proposed) /\ Distinct(left)
        /\ DataOf(left) \subseteq DataOf(s)
        /\ LateInv(left) /\ Placeable(left)
        /\ DOMAIN new = DOMAIN map
        /\ new \in [DOMAIN map -> Nat]
        /\ \A d \in DOMAIN map : new[d] = 0 <=> d \in DataOf(left)
        /\ KnownInv(new)
    BY <1>4, <1>5, Pruning
  <1> HIDE DEF left, new
  <1>7. CASE left = <<>> /\ Become(p, "returned", <<>>, <<>>, new) /\ writer' = writer
    <2>1. \A d \in DOMAIN new : StoredAs(d, new[d])
      <3> TAKE d \in DOMAIN new
      <3>1. d \notin DataOf(left)
        BY <1>7, EmptySeq DEF DataOf
      <3>2. QED BY <1>6, <3>1 DEF KnownInv
    <2>2. Call("returned", writer' = p, <<>>, <<>>, new)
      BY <1>1, <1>7, <2>1 DEF Call
    <2>3. writer' \in Proc \cup {NoProc} /\ \A q \in Proc \ {p} : writer' = q <=> writer = q
      BY <1>1, <1>7
    <2>4. QED BY <1>1, <1>7, <2>2, <2>3, StepOfCall
  <1>8. CASE left # <<>> /\ Become(p, where, left, ranked[p], new) /\ writer' = p
    <2>1. LocalInv(left, ranked[p], new)
      BY <1>4, <1>5, <1>6, <1>8 DEF LocalInv
    <2>2. Call(where, writer' = p, left, ranked[p], new)
      BY <1>3, <1>6, <1>8, <2>1 DEF Call
    <2>3. writer' \in Proc \cup {NoProc} /\ \A q \in Proc \ {p} : writer' = q <=> writer = q
      BY <1>1, <1>8, SelsertAssumption
    <2>4. QED BY <1>1, <1>8, <2>2, <2>3, StepOfCall
  <1>9. QED BY <1>2, <1>7, <1>8

\* A pass of resolve_self_collision.
LEMMA ResolveStep ==
  ASSUME IInv, NEW p \in Proc, resolve_self_collision(p)
  PROVE  IInv'
  <1> DEFINE s == pending[p]
  <1>1. pc[p] = "resolve" /\ UNCHANGED store /\ writer' = writer
        /\ Become(p, "resolved", Separated(s), ranked[p], ids[p])
    BY DEF resolve_self_collision
  <1>2. /\ writer = p /\ LocalInv(s, ranked[p], ids[p]) /\ KnownInv(ids[p])
        /\ LateInv(s) /\ (Stuck(s) \/ Placeable(s))
    BY <1>1 DEF IInv, CallInv, Call
  <1> HIDE DEF s
  <1>3. SameGadgets(s, Separated(s)) /\ (Stuck(Separated(s)) \/ Placeable(Separated(s)))
    BY <1>2, SeparatedKeeps DEF LocalInv
  <1>4. LocalInv(Separated(s), ranked[p], ids[p]) /\ LateInv(Separated(s))
    BY <1>2, <1>3, SameGadgetsLocal
  <1>5. Call("resolved", writer' = p, Separated(s), ranked[p], ids[p])
    BY <1>1, <1>2, <1>3, <1>4 DEF Call
  <1>6. QED BY <1>1, <1>2, <1>5, StepOfCall

\* Its pruning loop.
LEMMA RepruneStep ==
  ASSUME IInv, NEW p \in Proc, reprune(p)
  PROVE  IInv'
  <1> DEFINE s == pending[p]
             where == IF SelfCollision(s) THEN "resolve" ELSE "insert"
  <1>1. pc[p] = "resolved" /\ UNCHANGED store /\ writer' = writer
        /\ Become(p, where, Probed(s), ranked[p], ids[p])
    BY DEF reprune
  <1>2. /\ writer = p /\ LocalInv(s, ranked[p], ids[p]) /\ KnownInv(ids[p])
        /\ LateInv(s) /\ (Stuck(s) \/ Placeable(s)) /\ TableInv
    BY <1>1 DEF IInv, CallInv, Call
  <1>3. where \in {"resolve", "insert"} /\ (where = "insert" => ~SelfCollision(s))
    OBVIOUS
  <1> HIDE DEF s, where
  <1>4. /\ SameGadgets(s, Probed(s))
        /\ Stuck(Probed(s)) \/ Placeable(Probed(s))
        /\ ~SelfCollision(s) => ~Stuck(Probed(s))
    BY <1>2, RepruneKeeps DEF LocalInv
  <1>5. LocalInv(Probed(s), ranked[p], ids[p]) /\ LateInv(Probed(s))
    BY <1>2, <1>4, SameGadgetsLocal
  <1>6. Call(where, writer' = p, Probed(s), ranked[p], ids[p])
    BY <1>1, <1>2, <1>3, <1>4, <1>5 DEF Call
  <1>7. QED BY <1>1, <1>2, <1>6, StepOfCall

\* A call that ends, or whose process dies, leaves nothing behind.
LEMMA EndStep ==
  ASSUME IInv, NEW p \in Proc, return(p) \/ die(p)
  PROVE  IInv'
  <1>1. Become(p, "idle", <<>>, <<>>, <<>>) /\ UNCHANGED store
    BY DEF return, die
  <1>2. writer' \in Proc \cup {NoProc} /\ \A q \in Proc \ {p} : writer' = q <=> writer = q
    <2>1. writer \in Proc \cup {NoProc} /\ (writer' = writer \/ (writer = p /\ writer' = NoProc))
      BY DEF IInv, return, die
    <2>2. QED BY <2>1, SelsertAssumption
  <1>3. writer' # p
    <2>1. CASE return(p)
      BY <2>1 DEF return, IInv, CallInv, Call
    <2>2. CASE die(p)
      BY <2>2, SelsertAssumption DEF die
    <2>3. QED BY <2>1, <2>2
  <1>4. Call("idle", writer' = p, <<>>, <<>>, <<>>)
    BY <1>3 DEF Call
  <1>5. QED BY <1>1, <1>2, <1>4, StepOfCall

\* The table after an insertion.
LEMMA InsertTable ==
  ASSUME IInv, NEW p \in Proc, insert(p), ~Collides(p)
  PROVE  TableInv' /\ IdsInv' /\ IndexInv'
  <1> DEFINE s == pending[p]
             v == Novel(p)
             m == Len(v)
             N == MaxGadgetId
             D == DOMAIN table
             placed == {s[i].hash : i \in 1..Len(s)}
  <1>1. /\ DOMAIN table' = D \cup placed
        /\ \A h \in D : table'[h] = table[h]
        /\ \A i \in 1..Len(s) :
             /\ s[i].hash \notin D
             /\ \E k \in 1..m : /\ v[k].data = s[i].data
                                /\ table'[s[i].hash] = [data |-> s[i].data, id |-> N + k]
        /\ \A k \in 1..m : \E i \in 1..Len(s) :
             v[k].data = s[i].data /\ table'[s[i].hash] = [data |-> s[i].data, id |-> N + k]
        /\ \A i, j \in 1..Len(s) : s[i].hash = s[j].hash => i = j
        /\ Tiles(index', N + m) /\ MaxGadgetId' = N + m
    BY Insertion
  <1>2. LocalInv(s, ranked[p], ids[p]) /\ LateInv(s) /\ Placeable(s)
    BY DEF IInv, CallInv, Call, insert
  <1>3. /\ s \in Seq(Proposed) /\ Len(s) \in Nat /\ Distinct(s)
        /\ v \in Seq(Proposed) /\ m \in Nat /\ Distinct(v)
    BY <1>2, NovelList DEF LocalInv
  <1>4. TableInv /\ IdsInv /\ N \in Nat
    BY DEF IInv, IndexInv, Tiles
  <1>5. table' = [h \in DOMAIN table' |-> table'[h]]
    BY DEF insert
  <1> HIDE DEF s, v, N
  <1>6. \A i \in 1..Len(s) : s[i].data \in Data /\ s[i].hash \in Nat
    <2> TAKE i \in 1..Len(s)
    <2>1. s[i] \in Proposed
      BY <1>3, ElementOfSeq
    <2>2. QED BY <2>1 DEF Proposed
  <1>7. \A h \in D : h \in Nat /\ table[h].data \in Data /\ table[h].id \in Nat \ {0}
    BY <1>4 DEF TableInv
  \* An entry is old or one of the new ones.
  <1>8. ASSUME NEW h \in DOMAIN table'
        PROVE  \/ h \in D /\ table'[h] = table[h]
               \/ h \notin D /\ \E i \in 1..Len(s) : h = s[i].hash /\ table'[h].data = s[i].data
    <2>1. CASE h \notin D
      <3>1. PICK i \in 1..Len(s) : h = s[i].hash
        BY <1>1, <2>1
      <3>2. PICK k \in 1..m : table'[s[i].hash] = [data |-> s[i].data, id |-> N + k]
        BY <1>1
      <3>3. QED BY <2>1, <3>1, <3>2
    <2>2. QED BY <1>1, <2>1
  <1>9. ASSUME NEW h \in DOMAIN table'
        PROVE  \/ h \in D /\ table'[h] = table[h]
               \/ h \notin D /\ \E k \in 1..m : table'[h] = [data |-> v[k].data, id |-> N + k]
    <2>1. CASE h \notin D
      <3>1. PICK i \in 1..Len(s) : h = s[i].hash
        BY <1>1, <2>1
      <3>2. PICK k \in 1..m : /\ v[k].data = s[i].data
                              /\ table'[s[i].hash] = [data |-> s[i].data, id |-> N + k]
        BY <1>1
      <3>3. QED BY <2>1, <3>1, <3>2
    <2>2. QED BY <1>1, <2>1
  <1> HIDE DEF placed, m, D
  <1>10. StoredOnce'
    <2>1. ASSUME NEW g \in DOMAIN table', NEW h \in DOMAIN table', g \in D, h \notin D
          PROVE  table'[g].data # table'[h].data
      <3>1. PICK i \in 1..Len(s) : table'[h].data = s[i].data
        BY <1>8, <2>1
      <3>2. table'[g] = table[g] /\ ~Stored(s[i].data)
        BY <1>1, <1>2, <2>1 DEF LateInv
      <3>3. QED BY <2>1, <3>1, <3>2 DEF Stored, D
    <2>2. ASSUME NEW g \in DOMAIN table', NEW h \in DOMAIN table', g \notin D, h \notin D,
                 table'[g].data = table'[h].data
          PROVE  g = h
      <3>1. PICK i \in 1..Len(s) : g = s[i].hash /\ table'[g].data = s[i].data
        BY <1>8, <2>2
      <3>2. PICK j \in 1..Len(s) : h = s[j].hash /\ table'[h].data = s[j].data
        BY <1>8, <2>2
      <3>3. i = j
        BY <1>3, <2>2, <3>1, <3>2 DEF Distinct
      <3>4. QED BY <3>1, <3>2, <3>3
    <2>3. ASSUME NEW g \in DOMAIN table', NEW h \in DOMAIN table', g \in D, h \in D,
                 table'[g].data = table'[h].data
          PROVE  g = h
      BY <1>1, <1>4, <2>3 DEF TableInv, StoredOnce, D
    <2>4. QED BY <2>1, <2>2, <2>3 DEF StoredOnce
  <1>11. IsFiniteSet(DOMAIN table')
    <2> DEFINE f == [i \in 1..Len(s) |-> s[i].hash]
    <2>1. f \in Surjection(1..Len(s), placed)
      <3>1. f \in [1..Len(s) -> placed]
        BY DEF placed
      <3>2. \A h \in placed : \E i \in 1..Len(s) : f[i] = h
        BY DEF placed
      <3> HIDE DEF f
      <3>3. QED BY <3>1, <3>2 DEF Surjection
    <2> HIDE DEF f
    <2>2. IsFiniteSet(placed)
      <3>1. IsFiniteSet(1..Len(s))
        BY <1>3, FS_Interval
      <3>2. QED BY <2>1, <3>1, FS_Surjection
    <2>3. IsFiniteSet(D)
      BY <1>4 DEF TableInv, D
    <2>4. IsFiniteSet(D \cup placed)
      BY <2>2, <2>3, FS_Union
    <2>5. QED BY <1>1, <2>4
  <1>12. ASSUME NEW h \in DOMAIN table'
         PROVE  h \in Nat /\ table'[h] \in [data : Data, id : Nat \ {0}]
    <2>1. CASE h \in D
      BY <1>1, <1>4, <2>1 DEF TableInv, D
    <2>2. CASE h \notin D
      <3>1. PICK i \in 1..Len(s) : h = s[i].hash
        BY <1>8, <2>2
      <3>2. PICK k \in 1..m : table'[h] = [data |-> s[i].data, id |-> N + k]
        BY <1>1, <3>1
      <3>3. N + k \in Nat \ {0}
        BY <1>3, <1>4
      <3>4. QED BY <1>6, <3>1, <3>2, <3>3
    <2>3. QED BY <2>1, <2>2
  \* The third gadget may be over a place that the second one fills now.
  <1>13. ASSUME NEW h \in DOMAIN table'
         PROVE  /\ HashOf[table'[h].data] <= h
                /\ \A g \in HashOf[table'[h].data]..(h - 1) : g \in DOMAIN table'
    <2>1. CASE h \in D
      <3>1. HashOf[table[h].data] <= h /\ Taken(HashOf[table[h].data], h)
        BY <1>4, <2>1 DEF TableInv, D
      <3>2. QED BY <1>1, <2>1, <3>1 DEF Taken, D
    <2>2. CASE h \notin D
      <3>1. PICK i \in 1..Len(s) : h = s[i].hash /\ table'[h].data = s[i].data
        BY <1>8, <2>2
      <3>2. /\ HashOf[s[i].data] <= s[i].hash
            /\ \A g \in HashOf[s[i].data]..(s[i].hash - 1) : g \in D \/ (i = 3 /\ g = s[2].hash)
        BY <1>2 DEF Placeable, D
      <3>3. i = 3 => s[2].hash \in placed
        <4>1. i = 3 => 2 \in 1..Len(s)
          BY <1>3
        <4>2. QED BY <4>1 DEF placed
      <3>4. \A g \in HashOf[s[i].data]..(s[i].hash - 1) : g \in DOMAIN table'
        BY <1>1, <3>2, <3>3
      <3>5. QED BY <3>1, <3>2, <3>4
    <2>3. QED BY <2>1, <2>2
  <1>14. TableInv'
    <2>1. DOMAIN table' \subseteq Nat
      BY <1>12
    <2>2. table' \in [DOMAIN table' -> [data : Data, id : Nat \ {0}]]
      BY <1>5, <1>12
    <2>3. QED BY <1>10, <1>11, <1>13, <2>1, <2>2 DEF TableInv, Taken
  <1>15. IdsInv'
    <2>1. \A h \in D : table[h].id \in 1..N
      BY <1>4 DEF IdsInv, D, N
    <2>2. ASSUME NEW h \in DOMAIN table' PROVE table'[h].id \in 1..(N + m)
      <3>1. CASE h \in D /\ table'[h] = table[h]
        BY <1>3, <1>4, <2>1, <3>1
      <3>2. CASE \E k \in 1..m : table'[h] = [data |-> v[k].data, id |-> N + k]
        BY <1>3, <1>4, <3>2
      <3>3. QED BY <1>9, <3>1, <3>2
    <2>3. ASSUME NEW id \in 1..(N + m) PROVE \E h \in DOMAIN table' : table'[h].id = id
      <3>1. CASE id <= N
        <4>1. id \in 1..N
          BY <1>3, <1>4, <3>1
        <4>2. PICK h \in D : table[h].id = id
          BY <1>4, <4>1 DEF IdsInv, D, N
        <4>3. QED BY <1>1, <4>2
      <3>2. CASE ~(id <= N)
        <4>1. id - N \in 1..m /\ N + (id - N) = id
          BY <1>3, <1>4, <3>2
        <4>2. PICK i \in 1..Len(s) : table'[s[i].hash] = [data |-> s[i].data, id |-> N + (id - N)]
          BY <1>1, <4>1
        <4>3. s[i].hash \in DOMAIN table'
          BY <1>1 DEF placed
        <4>4. QED BY <4>1, <4>2, <4>3
      <3>3. QED BY <3>1, <3>2
    <2>4. ASSUME NEW g \in DOMAIN table', NEW h \in DOMAIN table', g \in D, h \notin D
          PROVE  table'[g].id # table'[h].id
      <3>1. PICK k \in 1..m : table'[h] = [data |-> v[k].data, id |-> N + k]
        BY <1>9, <2>4
      <3>2. table'[g].id \in 1..N
        BY <1>1, <2>1, <2>4
      <3>3. QED BY <1>3, <1>4, <3>1, <3>2
    <2>5. ASSUME NEW g \in DOMAIN table', NEW h \in DOMAIN table', g \notin D, h \notin D,
                 table'[g].id = table'[h].id
          PROVE  g = h
      <3>1. PICK k \in 1..m : table'[g] = [data |-> v[k].data, id |-> N + k]
        BY <1>9, <2>5
      <3>2. PICK l \in 1..m : table'[h] = [data |-> v[l].data, id |-> N + l]
        BY <1>9, <2>5
      <3>3. k = l
        BY <1>3, <1>4, <2>5, <3>1, <3>2
      <3>4. QED BY <1>10, <3>1, <3>2, <3>3 DEF StoredOnce
    <2>6. ASSUME NEW g \in DOMAIN table', NEW h \in DOMAIN table', g \in D, h \in D,
                 table'[g].id = table'[h].id
          PROVE  g = h
      BY <1>1, <1>4, <2>6 DEF IdsInv, D
    <2>7. \A g, h \in DOMAIN table' : table'[g].id = table'[h].id => g = h
      BY <2>4, <2>5, <2>6
    <2>8. MaxGadgetId' = N + m
      BY <1>1
    <2>9. QED BY <2>2, <2>3, <2>7, <2>8 DEF IdsInv
  <1>16. IndexInv'
    BY <1>1 DEF IndexInv
  <1>17. QED BY <1>14, <1>15, <1>16

\* The call that inserts returns the ids it assigned; the other calls, which
\* are between their transactions, lose nothing they knew.
LEMMA InsertStep ==
  ASSUME IInv, NEW p \in Proc, insert(p)
  PROVE  IInv'
  <1>1. pc[p] = "insert" /\ writer = p /\ writer' = NoProc /\ p # NoProc
    BY SelsertAssumption DEF IInv, CallInv, Call, insert
  <1>2. CASE Collides(p)
    <2>1. Become(p, "threw", <<>>, <<>>, <<>>) /\ UNCHANGED store
      BY <1>2 DEF insert
    <2>2. Call("threw", writer' = p, <<>>, <<>>, <<>>)
      BY <1>1 DEF Call
    <2>3. writer' \in Proc \cup {NoProc} /\ \A q \in Proc \ {p} : writer' = q <=> writer = q
      BY <1>1, SelsertAssumption
    <2>4. QED BY <2>1, <2>2, <2>3, StepOfCall
  <1>3. CASE ~Collides(p)
    <2> DEFINE s == pending[p]
               v == Novel(p)
    <2>1. Become(p, "returned", <<>>, <<>>, Assigned(p))
      BY <1>3 DEF insert
    <2>2. /\ DOMAIN pc' = Proc /\ DOMAIN pending' = Proc /\ DOMAIN ranked' = Proc /\ DOMAIN ids' = Proc
          /\ pc'[p] = "returned" /\ pending'[p] = <<>> /\ ranked'[p] = <<>> /\ ids'[p] = Assigned(p)
          /\ \A q \in Proc \ {p} : /\ pc'[q] = pc[q] /\ pending'[q] = pending[q]
                                   /\ ranked'[q] = ranked[q] /\ ids'[q] = ids[q]
      BY <2>1, BecomeUpdates
    <2>3. TableInv' /\ IdsInv' /\ IndexInv'
      BY <1>3, InsertTable
    <2>4. /\ DOMAIN table \subseteq DOMAIN table'
          /\ \A h \in DOMAIN table : table'[h] = table[h]
          /\ \A i \in 1..Len(s) :
               /\ s[i].hash \in DOMAIN table'
               /\ \E k \in 1..Len(v) :
                    /\ v[k].data = s[i].data
                    /\ table'[s[i].hash] = [data |-> s[i].data, id |-> MaxGadgetId + k]
      <3>1. DOMAIN table' = DOMAIN table \cup {s[i].hash : i \in 1..Len(s)}
        BY <1>3, Insertion
      <3>2. /\ \A h \in DOMAIN table : table'[h] = table[h]
            /\ \A i \in 1..Len(s) : \E k \in 1..Len(v) :
                 /\ v[k].data = s[i].data
                 /\ table'[s[i].hash] = [data |-> s[i].data, id |-> MaxGadgetId + k]
        BY <1>3, Insertion
      <3> HIDE DEF s, v
      <3>3. QED BY <3>1, <3>2
    <2>5. LocalInv(s, ranked[p], ids[p]) /\ KnownInv(ids[p])
      BY <1>1 DEF IInv, CallInv, Call
    <2>6. /\ DOMAIN Assigned(p) = DOMAIN ids[p]
          /\ \A d \in DOMAIN ids[p] : ids[p][d] # 0 => Assigned(p)[d] = ids[p][d]
          /\ \A k \in 1..Len(v) : Assigned(p)[v[k].data] = MaxGadgetId + k
      BY <2>5, AssignedIds
    <2> HIDE DEF s, v
    <2>7. ASSUME NEW d \in DOMAIN Assigned(p)
          PROVE  \E h \in DOMAIN table' : table'[h].data = d /\ table'[h].id = Assigned(p)[d]
      <3>1. CASE ids[p][d] # 0
        <4>1. StoredAs(d, ids[p][d]) /\ Assigned(p)[d] = ids[p][d]
          BY <2>5, <2>6, <3>1 DEF KnownInv
        <4>2. QED BY <2>4, <4>1 DEF StoredAs
      <3>2. CASE ids[p][d] = 0
        <4>1. PICK i \in 1..Len(s) : s[i].data = d
          BY <2>5, <2>6, <3>2 DEF LocalInv, DataOf
        <4>2. PICK k \in 1..Len(v) : /\ v[k].data = d
                                     /\ table'[s[i].hash] = [data |-> d, id |-> MaxGadgetId + k]
          BY <2>4, <4>1
        <4>3. QED BY <2>4, <2>6, <4>2
      <3>3. QED BY <3>1, <3>2
    <2>8. CallInv(p)'
      <3>1. ~(writer' = p)
        BY <1>1
      <3>2. QED BY <2>2, <2>7, <3>1 DEF CallInv, Call, StoredAs
    <2>9. ASSUME NEW q \in Proc \ {p} PROVE CallInv(q)'
      <3>1. CallInv(q) /\ writer # q /\ writer' # q
        BY <1>1, SelsertAssumption DEF IInv
      <3>2. pc[q] \in {"idle", "returned", "threw", "pruned"}
        BY <3>1 DEF CallInv, Call
      <3>3. pc'[q] = pc[q] /\ pending'[q] = pending[q] /\ ranked'[q] = ranked[q] /\ ids'[q] = ids[q]
        BY <2>2
      <3>4. pc[q] = "returned" => \A d \in DOMAIN ids[q] : StoredAs(d, ids[q][d])
        BY <3>1 DEF CallInv, Call
      <3>5. pc[q] = "pruned" => /\ LocalInv(pending[q], ranked[q], ids[q]) /\ KnownInv(ids[q])
                                /\ EarlyInv(pending[q])
        BY <3>1 DEF CallInv, Call
      <3>6. ASSUME NEW map, KnownInv(map)
            PROVE  \A d \in DOMAIN map : map[d] # 0 =>
                     \E h \in DOMAIN table' : table'[h].data = d /\ table'[h].id = map[d]
        BY <2>4, <3>6 DEF KnownInv, StoredAs
      <3>7. ASSUME NEW x, ProbedPast(x)
            PROVE  /\ HashOf[x.data] <= x.hash
                   /\ \A g \in HashOf[x.data]..(x.hash - 1) : g \in DOMAIN table' /\ table'[g].data # x.data
        BY <2>4, <3>7 DEF ProbedPast
      <3>8. CASE pc[q] = "pruned"
        <4>1. KnownInv(ids[q])'
          BY <3>3, <3>5, <3>6, <3>8 DEF KnownInv, StoredAs
        <4>2. EarlyInv(pending[q])'
          BY <3>3, <3>5, <3>7, <3>8 DEF EarlyInv, ProbedPast, HashOrder
        <4>3. LocalInv(pending'[q], ranked'[q], ids'[q])
          BY <3>3, <3>5, <3>8
        <4>4. QED BY <3>1, <3>3, <3>8, <4>1, <4>2, <4>3 DEF CallInv, Call
      <3>9. CASE pc[q] = "returned"
        <4>1. \A d \in DOMAIN ids[q] :
                \E h \in DOMAIN table' : table'[h].data = d /\ table'[h].id = ids[q][d]
          BY <2>4, <3>4, <3>9 DEF StoredAs
        <4>2. pending[q] = <<>> /\ ranked[q] = <<>>
          BY <3>1, <3>9 DEF CallInv, Call
        <4>3. QED BY <3>1, <3>3, <3>9, <4>1, <4>2 DEF CallInv, Call, StoredAs
      <3>10. CASE pc[q] \in {"idle", "threw"}
        BY <3>1, <3>3, <3>10 DEF CallInv, Call
      <3>11. QED BY <3>2, <3>8, <3>9, <3>10
    <2>10. writer' \in Proc \cup {NoProc}
      BY <1>1
    <2>11. QED BY <2>2, <2>3, <2>8, <2>9, <2>10 DEF IInv
  <1>4. QED BY <1>2, <1>3

-----------------------------------------------------------------------------
(* The invariant in every behaviour.                                       *)

\* What is left where it is keeps the invariant.
LEMMA StutterKeeps == ASSUME IInv, UNCHANGED vars PROVE IInv'
  <1>1. /\ table' = table /\ index' = index /\ writer' = writer
        /\ pc' = pc /\ pending' = pending /\ ranked' = ranked /\ ids' = ids
    BY DEF vars, store, locals
  <1>2. TableInv' /\ IdsInv' /\ IndexInv'
    BY <1>1 DEF IInv, TableInv, IdsInv, IndexInv, StoredOnce, Taken, MaxGadgetId, Tiles
  <1>3. ASSUME NEW p \in Proc PROVE CallInv(p)'
    <2>1. CallInv(p)
      BY DEF IInv
    <2>2. QED BY <1>1, <2>1 DEF CallInv, Call, StoredAs, KnownInv, EarlyInv, ProbedPast, LateInv,
                                Stored, Placeable, Stuck, LocalInv
  <1>4. QED BY <1>1, <1>2, <1>3 DEF IInv

\* Every step keeps it.
LEMMA NextInv == IInv /\ [Next]_vars => IInv'
  <1> SUFFICES ASSUME IInv, [Next]_vars PROVE IInv'
    OBVIOUS
  <1>1. CASE UNCHANGED vars
    BY <1>1, StutterKeeps
  <1>2. ASSUME NEW p \in Proc, NEW batch \in Batch, selsert_gadget_by_data(p, batch) PROVE IInv'
    BY <1>2, SelsertStep
  <1>3. ASSUME NEW p \in Proc, late_prune(p) PROVE IInv'
    BY <1>3, LatePruneStep
  <1>4. ASSUME NEW p \in Proc, resolve_self_collision(p) PROVE IInv'
    BY <1>4, ResolveStep
  <1>5. ASSUME NEW p \in Proc, reprune(p) PROVE IInv'
    BY <1>5, RepruneStep
  <1>6. ASSUME NEW p \in Proc, insert(p) PROVE IInv'
    BY <1>6, InsertStep
  <1>7. ASSUME NEW p \in Proc, return(p) \/ die(p) PROVE IInv'
    BY <1>7, EndStep
  <1>8. QED BY <1>1, <1>2, <1>3, <1>4, <1>5, <1>6, <1>7 DEF Next

LEMMA SpecHasInv == Spec => []IInv
  BY InitInv, NextInv, PTL DEF Spec

\* In every state of every execution, with any number of processes, the table,
\* the index and the calls of selsert_gadget_by_data have their shapes, and the
\* write lock is held exactly by the process inside its write transaction.
THEOREM TypeCorrect == Spec => []TypeOK
  BY SpecHasInv, InvTypeOK, PTL

\* However calls of selsert_gadget_by_data overlap, collide and die: no gadget
\* is stored twice, linear probing finds each of them, the pages of the index
\* hold each id once, and a call returns the ids that are stored.
THEOREM TableStaysIntact == Spec => []TableIntact
  BY SpecHasInv, InvTableIntact, PTL

-----------------------------------------------------------------------------
(* The table implements GadgetStore.                                       *)

\* The ids of the gadgets in a table.
IdsOf(t) == [d \in {t[h].data : h \in DOMAIN t} |-> t[CHOOSE h \in DOMAIN t : t[h].data = d].id]

\* A gadget that is stored once has the id it is stored under.
LEMMA IdsOfTable ==
  ASSUME NEW t, \A g, h \in DOMAIN t : t[g].data = t[h].data => g = h
  PROVE  /\ DOMAIN IdsOf(t) = {t[h].data : h \in DOMAIN t}
         /\ \A h \in DOMAIN t : IdsOf(t)[t[h].data] = t[h].id
  <1>1. DOMAIN IdsOf(t) = {t[h].data : h \in DOMAIN t}
    BY DEF IdsOf
  <1>2. ASSUME NEW h \in DOMAIN t PROVE IdsOf(t)[t[h].data] = t[h].id
    <2>1. (CHOOSE g \in DOMAIN t : t[g].data = t[h].data) = h
      OBVIOUS
    <2>2. t[h].data \in {t[g].data : g \in DOMAIN t}
      OBVIOUS
    <2>3. QED BY <2>1, <2>2 DEF IdsOf
  <1>3. QED BY <1>1, <1>2

\* As many gadgets are stored as there are ids.
LEMMA StoredCount ==
  ASSUME TableInv, IdsInv, IndexInv
  PROVE  Cardinality({table[h].data : h \in DOMAIN table}) = MaxGadgetId
  <1> DEFINE N == MaxGadgetId
             D == DOMAIN table
             gadgets == {table[h].data : h \in D}
             place(id) == CHOOSE h \in D : table[h].id = id
             f == [id \in 1..N |-> table[place(id)].data]
  <1>1. N \in Nat
    BY DEF IndexInv, Tiles
  <1>2. \A id \in 1..N : place(id) \in D /\ table[place(id)].id = id
    BY DEF IdsInv
  <1>3. \A h \in D : table[h].id \in 1..N
    BY DEF IdsInv
  <1>4. \A h \in D : place(table[h].id) = h
    <2> TAKE h \in D
    <2>1. place(table[h].id) \in D /\ table[place(table[h].id)].id = table[h].id
      BY <1>2, <1>3
    <2> HIDE DEF place
    <2>2. QED BY <2>1 DEF IdsInv
  <1> HIDE DEF place, N
  <1>5. f \in [1..N -> gadgets]
    BY <1>2
  <1>6. \A id \in 1..N : f[id] = table[place(id)].data
    OBVIOUS
  <1> HIDE DEF f
  <1>7. f \in Injection(1..N, gadgets)
    <2>1. ASSUME NEW i \in 1..N, NEW j \in 1..N, f[i] = f[j] PROVE i = j
      <3>1. place(i) = place(j)
        BY <1>2, <1>6, <2>1 DEF TableInv, StoredOnce
      <3>2. QED BY <1>2, <3>1
    <2>2. QED BY <1>5, <2>1 DEF Injection, IsInjective
  <1>8. f \in Surjection(1..N, gadgets)
    <2>1. ASSUME NEW d \in gadgets PROVE \E id \in 1..N : f[id] = d
      <3>1. PICK h \in D : table[h].data = d
        OBVIOUS
      <3>2. table[h].id \in 1..N /\ f[table[h].id] = d
        BY <1>3, <1>4, <1>6, <3>1
      <3>3. QED BY <3>2
    <2>2. QED BY <1>5, <2>1 DEF Surjection
  <1> HIDE DEF gadgets
  <1>9. ExistsBijection(1..N, gadgets)
    BY <1>7, <1>8 DEF Bijection, ExistsBijection
  <1>10. QED BY <1>1, <1>9, FS_CountingElements DEF gadgets, N

\* A list of different gadgets has as many as it is long.
LEMMA ListCount ==
  ASSUME NEW v, Len(v) \in Nat, Distinct(v)
  PROVE  Cardinality(DataOf(v)) = Len(v)
  <1> DEFINE f == [k \in 1..Len(v) |-> v[k].data]
  <1>1. f \in [1..Len(v) -> DataOf(v)]
    BY DEF DataOf
  <1>2. \A k \in 1..Len(v) : f[k] = v[k].data
    OBVIOUS
  <1> HIDE DEF f
  <1>3. f \in Injection(1..Len(v), DataOf(v))
    BY <1>1, <1>2 DEF Injection, IsInjective, Distinct
  <1>4. f \in Surjection(1..Len(v), DataOf(v))
    <2>1. \A d \in DataOf(v) : \E k \in 1..Len(v) : f[k] = d
      BY <1>2 DEF DataOf
    <2>2. QED BY <1>1, <2>1 DEF Surjection
  <1>5. ExistsBijection(1..Len(v), DataOf(v))
    BY <1>3, <1>4 DEF Bijection, ExistsBijection
  <1>6. QED BY <1>5, FS_CountingElements

\* An insertion is one of GadgetStore: of the gadgets still pending, all at
\* once, under the next ids.
LEMMA InsertRefines ==
  ASSUME IInv, IInv', NEW p \in Proc, insert(p), ~Collides(p)
  PROVE  Store!Next
  <1> DEFINE s == pending[p]
             v == Novel(p)
             m == Len(v)
             N == MaxGadgetId
             novel == DataOf(s)
  <1>1. LocalInv(s, ranked[p], ids[p]) /\ LateInv(s)
    BY DEF IInv, CallInv, Call, insert
  <1>2. /\ Len(v) \in Nat \ {0} /\ Distinct(v) /\ DataOf(v) = novel /\ novel \subseteq Data
    BY <1>1, NovelList DEF LocalInv
  <1>3. /\ DOMAIN table' = DOMAIN table \cup {s[i].hash : i \in 1..Len(s)}
        /\ \A h \in DOMAIN table : table'[h] = table[h]
        /\ \A i \in 1..Len(s) : \E k \in 1..m :
             /\ v[k].data = s[i].data
             /\ table'[s[i].hash] = [data |-> s[i].data, id |-> N + k]
        /\ \A k \in 1..m : \E i \in 1..Len(s) :
             v[k].data = s[i].data /\ table'[s[i].hash] = [data |-> s[i].data, id |-> N + k]
    BY Insertion
  <1>4. /\ DOMAIN GadgetIds = {table[h].data : h \in DOMAIN table}
        /\ \A h \in DOMAIN table : GadgetIds[table[h].data] = table[h].id
    <2>1. GadgetIds = IdsOf(table)
      BY DEF GadgetIds, IdsOf
    <2>2. StoredOnce
      BY DEF IInv, TableInv
    <2>3. \A g, h \in DOMAIN table : table[g].data = table[h].data => g = h
      BY <2>2 DEF StoredOnce
    <2>4. /\ DOMAIN IdsOf(table) = {table[h].data : h \in DOMAIN table}
          /\ \A h \in DOMAIN table : IdsOf(table)[table[h].data] = table[h].id
      BY <2>3, IdsOfTable
    <2>5. QED BY <2>1, <2>4
  <1>5. /\ DOMAIN GadgetIds' = {table'[h].data : h \in DOMAIN table'}
        /\ \A h \in DOMAIN table' : GadgetIds'[table'[h].data] = table'[h].id
    <2>1. GadgetIds' = IdsOf(table')
      BY DEF GadgetIds, IdsOf
    <2>2. StoredOnce'
      BY DEF IInv, TableInv
    <2>3. \A g, h \in DOMAIN table' : table'[g].data = table'[h].data => g = h
      BY <2>2 DEF StoredOnce
    <2>4. /\ DOMAIN IdsOf(table') = {table'[h].data : h \in DOMAIN table'}
          /\ \A h \in DOMAIN table' : IdsOf(table')[table'[h].data] = table'[h].id
      BY <2>3, IdsOfTable
    <2>5. QED BY <2>1, <2>4
  <1>6. Cardinality(DOMAIN GadgetIds) = N /\ N \in Nat
    BY <1>4, StoredCount DEF IInv, IndexInv, Tiles
  <1>7. Cardinality(novel) = m
    BY <1>2, ListCount
  <1> HIDE DEF s, v, N, novel
  <1>8. ASSUME NEW i \in 1..Len(s) PROVE s[i].hash \in DOMAIN table' /\ table'[s[i].hash].data = s[i].data
    <2>1. PICK k \in 1..m : table'[s[i].hash] = [data |-> s[i].data, id |-> N + k]
      BY <1>3
    <2>2. QED BY <1>3, <2>1
  <1>9. novel # {}
    <2>1. v[1].data \in DataOf(v)
      BY <1>2 DEF DataOf
    <2>2. QED BY <1>2, <2>1
  <1>10. novel \cap DOMAIN GadgetIds = {}
    BY <1>1, <1>4 DEF LateInv, Stored, novel, DataOf
  <1>11. DOMAIN GadgetIds' = DOMAIN GadgetIds \cup novel
    <2>1. ASSUME NEW h \in DOMAIN table' PROVE table'[h].data \in DOMAIN GadgetIds \cup novel
      <3>1. CASE h \in DOMAIN table
        BY <1>3, <1>4, <3>1
      <3>2. CASE h \notin DOMAIN table
        <4>1. PICK i \in 1..Len(s) : h = s[i].hash
          BY <1>3, <3>2
        <4>2. table'[h].data = s[i].data
          BY <1>8, <4>1
        <4>3. QED BY <4>2 DEF novel, DataOf
      <3>3. QED BY <3>1, <3>2
    <2>2. ASSUME NEW d \in DOMAIN GadgetIds PROVE d \in DOMAIN GadgetIds'
      <3>1. PICK h \in DOMAIN table : table[h].data = d
        BY <1>4
      <3>2. h \in DOMAIN table' /\ table'[h].data = d
        BY <1>3, <3>1
      <3>3. QED BY <1>5, <3>2
    <2>3. ASSUME NEW d \in novel PROVE d \in DOMAIN GadgetIds'
      <3>1. PICK i \in 1..Len(s) : s[i].data = d
        BY DEF novel, DataOf
      <3>2. s[i].hash \in DOMAIN table' /\ table'[s[i].hash].data = d
        BY <1>8, <3>1
      <3>3. QED BY <1>5, <3>2
    <2>4. QED BY <1>5, <2>1, <2>2, <2>3
  <1>12. ASSUME NEW d \in DOMAIN GadgetIds PROVE GadgetIds'[d] = GadgetIds[d]
    <2>1. PICK h \in DOMAIN table : table[h].data = d
      BY <1>4
    <2>2. h \in DOMAIN table' /\ table'[h] = table[h]
      BY <1>3
    <2>3. GadgetIds[d] = table[h].id
      BY <1>4, <2>1
    <2>4. GadgetIds'[d] = table'[h].id
      BY <1>5, <2>1, <2>2
    <2>5. QED BY <2>2, <2>3, <2>4
  <1>13. \A i \in 1..Len(s) : GadgetIds'[s[i].data] = table'[s[i].hash].id
    <2> TAKE i \in 1..Len(s)
    <2>1. s[i].hash \in DOMAIN table' /\ table'[s[i].hash].data = s[i].data
      BY <1>8
    <2>2. QED BY <1>5, <2>1
  <1>14. {GadgetIds'[d] : d \in novel} = (N + 1)..(N + m)
    <2>1. ASSUME NEW d \in novel PROVE GadgetIds'[d] \in (N + 1)..(N + m)
      <3>1. PICK i \in 1..Len(s) : s[i].data = d
        BY DEF novel, DataOf
      <3>2. PICK k \in 1..m : table'[s[i].hash] = [data |-> s[i].data, id |-> N + k]
        BY <1>3
      <3>3. GadgetIds'[d] = N + k
        BY <1>13, <3>1, <3>2
      <3>4. QED BY <1>2, <1>6, <3>3
    <2>2. ASSUME NEW id \in (N + 1)..(N + m) PROVE \E d \in novel : GadgetIds'[d] = id
      <3>1. id - N \in 1..m /\ N + (id - N) = id
        BY <1>2, <1>6
      <3>2. PICK i \in 1..Len(s) : table'[s[i].hash] = [data |-> s[i].data, id |-> N + (id - N)]
        BY <1>3, <3>1
      <3>3. s[i].data \in novel /\ GadgetIds'[s[i].data] = id
        BY <1>13, <3>1, <3>2 DEF novel, DataOf
      <3>4. QED BY <3>3
    <2>3. QED BY <2>1, <2>2
  <1>15. Store!Insert(novel)
    <2>1. Store!Cardinality(DOMAIN GadgetIds) = N /\ Store!Cardinality(novel) = m
      BY <1>6, <1>7 DEF Store!Cardinality, Cardinality
    <2>2. QED BY <2>1, <1>9, <1>10, <1>11, <1>12, <1>14 DEF Store!Insert
  <1>16. QED BY <1>2, <1>15 DEF Store!Next

\* Seen from its callers the table is GadgetStore: each commit of
\* selsert_gadget_by_data gives the gadgets that no one inserted meanwhile the
\* next ids, a whole batch at once, and no step changes an id given before.
THEOREM TableRefines == Spec => ImplementsStore
  <1>1. Init => Store!Init
    <2> SUFFICES ASSUME Init PROVE GadgetIds = <<>>
      BY DEF Store!Init
    <2>1. {table[h].data : h \in DOMAIN table} = {}
      BY DEF Init
    <2>2. <<>> = [d \in {} |-> <<>>[d]]
      OBVIOUS
    <2>3. QED BY <2>1, <2>2 DEF GadgetIds
  <1>2. IInv /\ IInv' /\ [Next]_vars => [Store!Next]_GadgetIds
    <2> SUFFICES ASSUME IInv, IInv', [Next]_vars PROVE Store!Next \/ UNCHANGED GadgetIds
      OBVIOUS
    <2>1. ASSUME table' = table PROVE UNCHANGED GadgetIds
      BY <2>1 DEF GadgetIds
    <2>2. ASSUME NEW p \in Proc, insert(p) PROVE Store!Next \/ UNCHANGED GadgetIds
      <3>1. CASE Collides(p)
        BY <2>1, <2>2, <3>1 DEF insert, store
      <3>2. CASE ~Collides(p)
        BY <2>2, <3>2, InsertRefines
      <3>3. QED BY <3>1, <3>2
    <2>3. CASE \E p \in Proc : insert(p)
      BY <2>2, <2>3
    <2>4. CASE ~ \E p \in Proc : insert(p)
      <3>1. table' = table
        BY <2>4 DEF Next, vars, store, selsert_gadget_by_data, late_prune, resolve_self_collision,
                    reprune, return, die
      <3>2. QED BY <2>1, <3>1
    <2>5. QED BY <2>3, <2>4
  <1>3. QED BY <1>1, <1>2, SpecHasInv, PTL DEF Spec, ImplementsStore, Store!Spec

=============================================================================
