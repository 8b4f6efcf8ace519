-------------------------- MODULE Database_proofs ---------------------------
(***************************************************************************)
(* Theorems about what is kept in the database: the tree of completions,   *)
(* for trees of any shape, page size and ids, and what runs of sync leave, *)
(* for any files and gadgets.                                              *)
(***************************************************************************)
EXTENDS CompletionLSM, Sync, NumberInduction, SequenceTheorems, TLAPS

Level == 0..(TopLevel + 1)

\* The pages of a level are numbered from 0 without a gap, and no level below
\* a page is empty.
KeysInv ==
  /\ pages \in [Key -> SUBSET Id]
  /\ Key \subseteq Level \X (0..(N - 1))
  /\ \A l \in Level : \E w \in 0..N : \A i \in 0..(N - 1) : <<l, i>> \in Key <=> i < w
  /\ \A k \in Key : \A l \in 0..k[1] : <<l, 0>> \in Key

IInv ==
  /\ TypeOK /\ KeysInv /\ PagesDisjoint
  /\ ~exists => main = {} /\ Key = {}

-----------------------------------------------------------------------------
(* What parse_lsm finds.                                                   *)

\* The parameters of a tree are numbers.
LEMMA ShapeType ==
  ASSUME TypeOK
  PROVE  N \in Nat /\ N > 0 /\ TopLevel \in Nat /\ MaxRecords \in Nat
  BY LSMAssumption DEF TypeOK, N, TopLevel, MaxRecords

\* The second components of the pairs of K that begin with l.
LEMMA PairsBeginningWith ==
  ASSUME NEW A, NEW B, NEW K \in SUBSET (A \X B), NEW l
  PROVE  \A i : i \in {k[2] : k \in {j \in K : j[1] = l}} <=> <<l, i>> \in K
  <1>1. \A k \in K : k = <<k[1], k[2]>>
    OBVIOUS
  <1>2. QED BY <1>1

\* What the parser reads of the keys, when they are as KeysInv says.
LEMMA KeysRead ==
  ASSUME TypeOK, KeysInv
  PROVE  /\ \A l \in Level, i \in Nat : i \in Indices(l) <=> <<l, i>> \in Key
         /\ \A l \in Level : Width(l) \in 0..N /\ Indices(l) = 0..(Width(l) - 1)
         /\ \A l \in Level, i \in Nat : <<l, i>> \in Key <=> i < Width(l)
         /\ \A l \in Levels : l \in Level /\ Parsed(l)
         /\ ParsedPages = {pages[k] : k \in Key}
         /\ \A l \in Level : Width(l) = N => l < Height
  <1> USE ShapeType
  <1>1. \A l : \A i : i \in Indices(l) <=> <<l, i>> \in Key
    BY PairsBeginningWith DEF KeysInv, Indices
  <1>2. \A k \in Key : /\ k = <<k[1], k[2]>> /\ k[1] \in Level /\ k[2] \in 0..(N - 1)
                       /\ k[1] \in Nat /\ k[2] \in Nat
    BY DEF KeysInv, Level
  <1>3. \A l \in Levels : l \in Level /\ Parsed(l)
    <2> SUFFICES ASSUME NEW k \in Key PROVE k[1] \in Level /\ Parsed(k[1])
      BY DEF Levels
    <2>1. k[1] \in Level /\ k[2] \in Nat /\ <<k[1], k[2]>> \in Key
      BY <1>2
    <2>2. \A l \in 0..k[1] : l \in Level /\ <<l, 0>> \in Key
      BY <2>1 DEF KeysInv, Level
    <2>3. \A l \in 0..k[1] : Indices(l) # {}
      BY <1>1, <2>2
    <2>4. QED BY <2>1, <2>3 DEF Parsed
  <1>4. \A l \in Level : Indices(l) # {} => Parsed(l)
    <2> SUFFICES ASSUME NEW l \in Level, Indices(l) # {} PROVE l \in Levels
      BY <1>3
    <2>1. PICK i : <<l, i>> \in Key
      BY <1>1
    <2>2. QED BY <2>1 DEF Levels
  <1>5. ASSUME NEW l \in Level
        PROVE  Width(l) \in 0..N /\ Indices(l) = 0..(Width(l) - 1) /\ \A i \in Nat : <<l, i>> \in Key <=> i < Width(l)
    <2>1. PICK w \in 0..N : \A i \in Nat : <<l, i>> \in Key <=> i < w
      <3>1. PICK w \in 0..N : \A i \in 0..(N - 1) : <<l, i>> \in Key <=> i < w
        BY DEF KeysInv
      <3>2. \A i \in Nat : <<l, i>> \in Key => i \in 0..(N - 1)
        BY DEF KeysInv
      <3>3. \A i \in Nat : i < w => i \in 0..(N - 1)
        BY <3>1
      <3>4. QED BY <3>1, <3>2, <3>3
    <2>2. ASSUME NEW i \in Indices(l) PROVE i \in Nat
      <3>1. <<l, i>> \in Key
        BY <1>1
      <3>2. <<l, i>>[2] \in Nat
        BY <1>2, <3>1
      <3>3. QED BY <3>2
    <2>4. w \in Nat
      BY <2>1
    <2>3. Indices(l) = 0..(w - 1)
      <3>1. \A i \in Nat : i \in Indices(l) <=> i < w
        BY <1>1, <2>1
      <3>2. \A i \in Nat : i \in 0..(w - 1) <=> i < w
        BY <2>4
      <3>3. \A i \in 0..(w - 1) : i \in Nat
        BY <2>4
      <3> HIDE DEF Indices
      <3>4. QED BY <2>2, <3>1, <3>2, <3>3
    <2>5. Cardinality(0..(w - 1)) = w
      BY <2>4, FS_Interval
    <2>6. CASE Parsed(l)
      BY <2>1, <2>3, <2>5, <2>6 DEF Width
    <2>7. CASE ~Parsed(l)
      <3>1. Indices(l) = {}
        BY <1>4, <2>7
      <3>2. w = 0
        BY <2>3, <2>4, <3>1
      <3>3. QED BY <2>1, <2>3, <2>7, <3>2 DEF Width
    <2>8. QED BY <2>6, <2>7
  <1>6. ParsedPages = {pages[k] : k \in Key}
    <2>1. {m \in Levels : Parsed(m)} = Levels
      BY <1>3
    <2>2. \A p : p \in UNION {PagesOf(l) : l \in Levels} <=> \E k \in Key : p = pages[k]
      <3>1. \A p : \A l : p \in PagesOf(l) <=> \E k \in Key : k[1] = l /\ p = pages[k]
        BY DEF PagesOf
      <3>2. QED BY <3>1 DEF Levels
    <2>3. QED BY <2>1, <2>2 DEF ParsedPages
  <1>7. ASSUME NEW l \in Level, Width(l) = N PROVE l < Height
    <2>1. \A m \in 0..l : m \in Levels
      <3>1. <<l, 0>> \in Key
        BY <1>5, <1>7
      <3>2. \A m \in 0..l : <<m, 0>> \in Key
        <4>1. \A m \in 0..(<<l, 0>>[1]) : <<m, 0>> \in Key
          BY <3>1 DEF KeysInv
        <4>2. QED BY <4>1
      <3>3. \A m \in 0..l : <<m, 0>>[1] \in Levels
        BY <3>2 DEF Levels
      <3>4. QED BY <3>3
    <2>2. l \in Nat
      BY DEF Level
    <2>3. {m \in Levels : Parsed(m)} = Levels
      BY <1>3
    <2>4. IsFiniteSet(Levels)
      <3>1. IsFiniteSet(Level)
        BY FS_Interval DEF Level
      <3>2. QED BY <1>3, <3>1, FS_Subset
    <2>5. Cardinality(0..l) <= Cardinality(Levels) /\ Cardinality(0..l) = l + 1 /\ Cardinality(Levels) \in Nat
      <3>1. 0..l \subseteq Levels
        BY <2>1
      <3>2. Cardinality(0..l) = l + 1
        BY <2>2, FS_Interval
      <3>3. QED BY <2>4, <3>1, <3>2, FS_Subset, FS_CardinalityType
    <2>6. Height = Cardinality(Levels)
      BY <2>3 DEF Height
    <2>7. QED BY <2>2, <2>5, <2>6
  <1>8. QED BY <1>1, <1>3, <1>5, <1>6, <1>7

\* The next parse finds all pages, in order.
LEMMA TreeIsExact == ASSUME IInv PROVE TreeExact
  <1>1. /\ \A l \in Level : Width(l) \in 0..N /\ Indices(l) = 0..(Width(l) - 1)
        /\ \A l \in Levels : l \in Level /\ Parsed(l)
        /\ ParsedPages = {pages[k] : k \in Key}
    BY KeysRead DEF IInv
  <1>2. ParsesCompletely
    BY <1>1 DEF ParsesCompletely, KeyGap
  <1>3. QueriesExact
    BY <1>1 DEF QueriesExact, subtract_completion, intersect_completion, Contents
  <1>4. QED BY <1>2, <1>3 DEF TreeExact, IInv

-----------------------------------------------------------------------------
(* The steps.                                                              *)

\* The least of some page numbers is one of them.
LEMMA FirstIsOne ==
  ASSUME NEW indices, indices \subseteq Nat, indices # {}
  PROVE  First(indices) \in indices
  <1>1. \E i \in indices : \A j \in indices : i <= j
    BY LeastNumber
  <1>2. QED BY <1>1 DEF First

\* A record that does not collide has only new ids, where overlap matters.
LEMMA CollidesExactly ==
  ASSUME IInv, NEW ids
  PROVE  Collides(ids) <=> ~allow_overlap /\ ids \cap Contents # {}
  <1>1. ParsedPages = {pages[k] : k \in Key}
    BY KeysRead DEF IInv
  <1>2. QED BY <1>1 DEF Collides, Overlap, Contents

\* The first record creates the key of the kind.
LEMMA FirstKeepsInv ==
  ASSUME IInv, NEW ids \in Batch, RecordFirst(ids)
  PROVE  IInv' /\ Contents' = Contents \cup ids
  <1>1. ids \in SUBSET Id
    BY LSMAssumption
  <1>2. /\ Key = {} /\ main = {} /\ main' = ids /\ pages' = pages /\ exists' = TRUE
        /\ UNCHANGED <<shape, allow_overlap>> /\ records' = records + 1 /\ records < MaxRecords
        /\ result' = "recorded" 
    BY DEF IInv, RecordFirst, Record
  <1>3. Key' = {} /\ N' = N /\ TopLevel' = TopLevel /\ MaxRecords' = MaxRecords /\ Level' = Level
    BY <1>2 DEF Key, N, TopLevel, MaxRecords, Level
  <1>4. TypeOK'
    BY <1>1, <1>2, <1>3, ShapeType DEF IInv, TypeOK
  <1>5. KeysInv'
    BY <1>2, <1>3 DEF IInv, KeysInv
  <1>6. PagesDisjoint'
    BY <1>3 DEF PagesDisjoint
  <1>7. Contents' = Contents \cup ids
    BY <1>2, <1>3 DEF Contents
  <1>8. QED BY <1>2, <1>4, <1>5, <1>6, <1>7 DEF IInv

\* Steps that leave the tree alone.
LEMMA SameTreeKeepsInv ==
  ASSUME IInv, UNCHANGED <<shape, allow_overlap, lsm>>,
         result' \in {"none", "recorded", "refused", "compacted", "threw"},
         records' \in 0..MaxRecords
  PROVE  IInv' /\ Contents' = Contents
  <1>1. UNCHANGED <<shape, allow_overlap, exists, main, pages>>
    BY DEF lsm
  <1>2. Key' = Key /\ N' = N /\ TopLevel' = TopLevel /\ MaxRecords' = MaxRecords /\ Level' = Level
    BY <1>1 DEF Key, N, TopLevel, MaxRecords, Level
  <1>3. TypeOK'
    BY <1>1, <1>2 DEF IInv, TypeOK
  <1>4. KeysInv' /\ PagesDisjoint'
    BY <1>1, <1>2 DEF IInv, KeysInv, PagesDisjoint
  <1>5. QED BY <1>1, <1>2, <1>3, <1>4 DEF IInv, Contents

\* A page of level 0 grows.
LEMMA MergedKeepsInv ==
  ASSUME IInv, NEW ids \in Batch, RecordMerged(ids)
  PROVE  IInv' /\ Contents' = Contents \cup ids
  <1> DEFINE k0 == <<0, l0page(ids)>>
  <1>1. ids \in SUBSET Id
    BY LSMAssumption
  <1>2. l0page(ids) \in Candidates(ids)
    <2>1. Candidates(ids) # {} /\ Candidates(ids) \subseteq Nat /\ AdjacentCandidates(ids) \subseteq Candidates(ids)
      BY DEF RecordMerged, Candidates, AdjacentCandidates
    <2>2. First(Candidates(ids)) \in Candidates(ids)
      BY <2>1, FirstIsOne
    <2>3. AdjacentCandidates(ids) # {} => First(AdjacentCandidates(ids)) \in AdjacentCandidates(ids)
      BY <2>1, FirstIsOne
    <2>4. QED BY <2>1, <2>2, <2>3 DEF l0page
  <1>3. k0 \in Key
    <2>1. 0 \in Level
      BY ShapeType DEF IInv, Level
    <2>2. l0page(ids) \in Nat /\ l0page(ids) < Width(0)
      <3>1. Width(0) \in 0..N /\ N \in Nat
        BY <2>1, KeysRead, ShapeType DEF IInv
      <3>2. QED BY <1>2, <3>1 DEF Candidates
    <2>3. QED BY <2>1, <2>2, KeysRead DEF IInv
  <1>4. /\ UNCHANGED <<shape, allow_overlap, exists, main>> /\ exists /\ ~Collides(ids)
        /\ records' = records + 1 /\ records < MaxRecords /\ result' = "recorded"
        /\ pages' = [pages EXCEPT ![k0] = pages[k0] \cup ids]
    BY DEF RecordMerged, Record
  <1>5. pages \in [Key -> SUBSET Id]
    BY DEF IInv, KeysInv
  <1> HIDE DEF k0
  <1>6. /\ Key' = Key /\ N' = N /\ TopLevel' = TopLevel /\ MaxRecords' = MaxRecords /\ Level' = Level
        /\ pages' \in [Key -> SUBSET Id]
        /\ \A k \in Key : pages'[k] = IF k = k0 THEN pages[k] \cup ids ELSE pages[k]
    BY <1>1, <1>3, <1>4, <1>5 DEF Key, N, TopLevel, MaxRecords, Level
  <1>7. TypeOK'
    BY <1>1, <1>4, <1>6, ShapeType DEF IInv, TypeOK
  <1>8. KeysInv'
    BY <1>6 DEF IInv, KeysInv
  <1>9. PagesDisjoint'
    <2>1. ~allow_overlap => ids \cap main = {} /\ \A k \in Key : ids \cap pages[k] = {}
      BY <1>4, CollidesExactly DEF Contents
    <2>2. QED BY <1>3, <1>4, <1>6, <2>1 DEF IInv, PagesDisjoint
  <1>10. Contents' = Contents \cup ids
    BY <1>3, <1>4, <1>6 DEF Contents
  <1>11. QED BY <1>4, <1>7, <1>8, <1>9, <1>10 DEF IInv

\* A new page of level 0.
LEMMA NewPageKeepsInv ==
  ASSUME IInv, NEW ids \in Batch, RecordNewPage(ids)
  PROVE  IInv' /\ Contents' = Contents \cup ids
  <1> DEFINE w0 == Width(0)
             k0 == <<0, w0>>
  <1>1. ids \in SUBSET Id
    BY LSMAssumption
  <1>2. 0 \in Level /\ N \in Nat /\ N > 0 /\ TopLevel \in Nat
    BY ShapeType DEF IInv, Level
  <1>3. w0 \in Nat /\ w0 < N /\ \A i \in Nat : <<0, i>> \in Key <=> i < w0
    BY <1>2, KeysRead DEF IInv, RecordNewPage
  <1>4. /\ UNCHANGED <<shape, allow_overlap, exists, main>> /\ exists /\ ~Collides(ids)
        /\ records' = records + 1 /\ records < MaxRecords /\ result' = "recorded"
        /\ pages' = [k \in Key \cup {k0} |-> IF k \in Key THEN pages[k] ELSE ids]
    BY DEF RecordNewPage, Record
  <1>5. pages \in [Key -> SUBSET Id] /\ Key \subseteq Level \X (0..(N - 1))
    BY DEF IInv, KeysInv
  <1>6. k0 \notin Key /\ k0 \in Level \X (0..(N - 1)) /\ k0[1] = 0 /\ k0[2] \in 0..(N - 1)
    BY <1>2, <1>3
  <1>7. /\ Key' = Key \cup {k0}
        /\ N' = N /\ TopLevel' = TopLevel /\ MaxRecords' = MaxRecords /\ Level' = Level
        /\ pages' \in [Key \cup {k0} -> SUBSET Id]
        /\ \A k \in Key : pages'[k] = pages[k]
        /\ pages'[k0] = ids
    <2> HIDE DEF k0
    <2>1. QED BY <1>1, <1>4, <1>5, <1>6 DEF Key, N, TopLevel, MaxRecords, Level
  <1>8. TypeOK'
    <2> HIDE DEF k0
    <2>1. \A k \in Key' : k[1] \in 0..(TopLevel + 1) /\ k[2] \in 0..(N - 1) /\ pages'[k] \in SUBSET Id
      BY <1>1, <1>2, <1>6, <1>7 DEF IInv, TypeOK
    <2>2. QED BY <1>4, <1>7, <2>1, ShapeType DEF IInv, TypeOK
  <1>9. KeysInv'
    <2>1. pages' \in [Key' -> SUBSET Id] /\ Key' \subseteq Level \X (0..(N - 1))
      BY <1>5, <1>6, <1>7
    <2>2. ASSUME NEW l \in Level
          PROVE  \E w \in 0..N : \A i \in 0..(N - 1) : <<l, i>> \in Key' <=> i < w
      <3>1. CASE l = 0
        <4>1. \A i \in 0..(N - 1) : <<0, i>> \in Key' <=> i < w0 + 1
          <5>1. \A i \in 0..(N - 1) : <<0, i>> \in Key' <=> <<0, i>> \in Key \/ i = w0
            BY <1>7
          <5> HIDE DEF w0
          <5>2. \A i \in 0..(N - 1) : i \in Nat /\ (i < w0 + 1 <=> i < w0 \/ i = w0)
            BY <1>2, <1>3
          <5>3. QED BY <1>3, <5>1, <5>2
        <4>2. w0 + 1 \in 0..N
          BY <1>2, <1>3
        <4>3. QED BY <3>1, <4>1, <4>2
      <3>2. CASE l # 0
        <4>1. \A i \in 0..(N - 1) : <<l, i>> \in Key' <=> <<l, i>> \in Key
          BY <1>7, <3>2
        <4>2. QED BY <4>1 DEF IInv, KeysInv
      <3>3. QED BY <3>1, <3>2
    <2>3. \A k \in Key' : \A l \in 0..k[1] : <<l, 0>> \in Key'
      <3>1. <<0, 0>> \in Key'
        <4>1. CASE w0 = 0
          BY <1>7, <4>1
        <4>2. CASE w0 # 0
          BY <1>3, <1>7, <4>2
        <4>3. QED BY <4>1, <4>2
      <3>2. \A l \in 0..k0[1] : l = 0
        BY <1>6
      <3> HIDE DEF k0
      <3>3. QED BY <1>7, <3>1, <3>2 DEF IInv, KeysInv
    <2>4. QED BY <1>7, <2>1, <2>2, <2>3 DEF KeysInv
  <1> HIDE DEF k0
  <1>10. PagesDisjoint'
    <2>1. ~allow_overlap => ids \cap main = {} /\ \A k \in Key : ids \cap pages[k] = {}
      BY <1>4, CollidesExactly DEF Contents
    <2>2. QED BY <1>4, <1>6, <1>7, <2>1 DEF IInv, PagesDisjoint
  <1>11. Contents' = Contents \cup ids
    <2>1. {pages'[k] : k \in Key'} = {pages[k] : k \in Key} \cup {ids}
      BY <1>7
    <2>2. QED BY <1>4, <2>1 DEF Contents
  <1>12. QED BY <1>4, <1>8, <1>9, <1>10, <1>11 DEF IInv

\* A tree without pages.
LEMMA NoPages == ASSUME NEW S PROVE DOMAIN <<>> = {} /\ <<>> \in [{} -> S]
  <1>1. DOMAIN <<>> = {}
    OBVIOUS
  <1>2. <<>> \in [{} -> S]
    OBVIOUS
  <1>3. QED BY <1>1, <1>2

\* Everything is merged into the key of the kind.
LEMMA FullKeepsInv ==
  ASSUME IInv, NEW tolerated_levels, compact_completion(tolerated_levels)
  PROVE  IInv' /\ Contents' = Contents
  <1>1. /\ UNCHANGED <<shape, allow_overlap, exists, records>> /\ exists /\ result' = "compacted"
        /\ main' = main \cup UNION ParsedPages /\ pages' = <<>>
    BY DEF compact_completion, compact_lsm_full
  <1>2. main' = Contents
    BY <1>1, KeysRead DEF IInv, Contents
  <1>3. /\ Key' = {} /\ pages' \in [Key' -> SUBSET Id]
        /\ N' = N /\ TopLevel' = TopLevel /\ MaxRecords' = MaxRecords /\ Level' = Level
    <2>1. DOMAIN <<>> = {} /\ <<>> \in [{} -> SUBSET Id]
      BY NoPages
    <2>2. Key' = {}
      BY <1>1, <2>1 DEF Key
    <2>3. pages' \in [{} -> SUBSET Id]
      BY <1>1, <2>1, Zenon
    <2>4. QED BY <1>1, <2>2, <2>3 DEF N, TopLevel, MaxRecords, Level
  <1>4. Contents \in SUBSET Id
    BY DEF IInv, TypeOK, Contents
  <1>5. TypeOK'
    BY <1>1, <1>2, <1>3, <1>4 DEF IInv, TypeOK
  <1>6. KeysInv'
    <2>1. 0 \in 0..N /\ \A i \in 0..(N - 1) : ~(i < 0)
      BY ShapeType DEF IInv
    <2>2. QED BY <1>3, <2>1 DEF KeysInv
  <1>7. PagesDisjoint'
    BY <1>3 DEF PagesDisjoint
  <1>8. Contents' = Contents
    BY <1>2, <1>3 DEF Contents
  <1>9. QED BY <1>1, <1>5, <1>6, <1>7, <1>8 DEF IInv

-----------------------------------------------------------------------------
(* compact_lsm, level by level.                                            *)

Merged == {l \in 0..TopLevel : Merging(l)}

\* The levels that are merged are full, they are all the levels up to one of
\* them, and the level above has space for one page.
LEMMA MergedLevels ==
  ASSUME IInv, ~Overflow
  PROVE  /\ 0 \in Merged /\ \A l \in Merged : l \in Nat /\ l \in Level /\ l + 1 \in Level
         /\ \A l \in Merged : \A m \in 0..l : m \in Merged
         /\ \A l \in Merged : Merging(l + 1) <=> l + 1 \in Merged
         /\ \A l \in Level : l > 0 /\ l - 1 \in Merged /\ l \notin Merged => Width(l) < N
  <1>1. N \in Nat /\ N > 0 /\ TopLevel \in Nat
    BY ShapeType DEF IInv
  <1>2. 0 \in Merged /\ \A l \in Merged : l \in Nat /\ l \in Level /\ l + 1 \in Level
    BY <1>1 DEF Merged, Merging, Level
  <1>3. ASSUME NEW l \in Merged, NEW m \in 0..l PROVE m \in Merged
    BY <1>1 DEF Merged, Merging
  <1>4. ASSUME NEW l \in Merged PROVE Merging(l + 1) <=> l + 1 \in Merged
    <2>1. l \in 0..TopLevel
      BY DEF Merged
    <2>2. CASE l = TopLevel
      BY <1>1, <2>2 DEF Overflow, Merged
    <2>3. CASE l # TopLevel
      BY <1>1, <2>1, <2>3 DEF Merged
    <2>4. QED BY <2>2, <2>3
  <1>5. ASSUME NEW l \in Level, l > 0, l - 1 \in Merged, l \notin Merged PROVE Width(l) < N
    <2>1. l \in Nat /\ (l - 1) + 1 = l
      BY <1>1 DEF Level
    <2>2. ~Merging(l)
      BY <1>4, <1>5, <2>1
    <2>3. Merging(l - 1)
      BY <1>5 DEF Merged
    <2>4. PICK m \in 0..(l - 1) : ~NextIsFull(m)
      BY <2>2 DEF Merging
    <2>5. m = l - 1
      BY <1>5, <2>1, <2>3, <2>4 DEF Merging
    <2>6. ~(l < Height /\ Width(l) = N)
      BY <2>1, <2>4, <2>5 DEF NextIsFull
    <2>7. Width(l) \in 0..N /\ (Width(l) = N => l < Height)
      BY KeysRead DEF IInv
    <2>8. QED BY <1>1, <2>6, <2>7
  <1>6. QED BY <1>2, <1>3, <1>4, <1>5

\* A full level 0 is merged, and every full level above it.
LEMMA CompactingKeepsInv ==
  ASSUME IInv, NEW ids \in Batch, RecordCompacting(ids)
  PROVE  IInv' /\ Contents' = Contents \cup ids
  <1> DEFINE target(l) == <<l + 1, IF Merging(l + 1) THEN 0 ELSE Width(l + 1)>>
             kept == {k \in Key : k[1] \notin Merged}
             created == {target(l) : l \in Merged}
             NewKey == kept \cup created \cup {<<0, 0>>}
             wide(l) == IF l \in Merged THEN 1 ELSE IF l - 1 \in Merged THEN Width(l) + 1 ELSE Width(l)
  <1>1. ids \in SUBSET Id
    BY LSMAssumption
  <1>2. N \in Nat /\ N > 0 /\ TopLevel \in Nat /\ Level \subseteq Nat /\ 0 \in Level
    BY ShapeType DEF IInv, Level
  <1>3. /\ UNCHANGED <<shape, allow_overlap, exists, main>> /\ exists /\ ~Collides(ids) /\ ~Overflow
        /\ records' = records + 1 /\ records < MaxRecords /\ result' = "recorded"
    BY DEF RecordCompacting, Record
  <1>4. pages' = [k \in NewKey |-> IF k = <<0, 0>> THEN ids
                                   ELSE IF k \in created THEN Merge(k[1] - 1) ELSE pages[k]]
    BY DEF RecordCompacting, CompactWith, Merged
  <1>5. /\ 0 \in Merged /\ \A l \in Merged : l \in Nat /\ l \in Level /\ l + 1 \in Level
        /\ \A l \in Merged : \A m \in 0..l : m \in Merged
        /\ \A l \in Merged : Merging(l + 1) <=> l + 1 \in Merged
        /\ \A l \in Level : l > 0 /\ l - 1 \in Merged /\ l \notin Merged => Width(l) < N
    BY <1>3, MergedLevels
  <1>6. /\ \A l \in Level : Width(l) \in 0..N
        /\ \A l \in Level, i \in Nat : <<l, i>> \in Key <=> i < Width(l)
        /\ \A k \in Key : k = <<k[1], k[2]>> /\ k[1] \in Level /\ k[2] \in 0..(N - 1) /\ k[2] \in Nat
        /\ pages \in [Key -> SUBSET Id]
    <2>1. Key \subseteq Level \X (0..(N - 1)) /\ pages \in [Key -> SUBSET Id]
      BY DEF IInv, KeysInv
    <2>2. \A k \in Key : k = <<k[1], k[2]>> /\ k[1] \in Level /\ k[2] \in 0..(N - 1) /\ k[2] \in Nat
      BY <1>2, <2>1
    <2>3. QED BY <2>1, <2>2, KeysRead DEF IInv
  <1>7. ASSUME NEW l \in Level, NEW i \in Nat
        PROVE  <<l, i>> \in created <=> l > 0 /\ l - 1 \in Merged /\ i = (IF l \in Merged THEN 0 ELSE Width(l))
    <2>1. ASSUME NEW m \in Merged PROVE target(m) = <<m + 1, IF m + 1 \in Merged THEN 0 ELSE Width(m + 1)>>
      BY <1>5
    <2>2. ASSUME <<l, i>> \in created
          PROVE  l > 0 /\ l - 1 \in Merged /\ i = (IF l \in Merged THEN 0 ELSE Width(l))
      <3>1. PICK m \in Merged : <<l, i>> = target(m)
        BY <2>2
      <3>2. l = m + 1 /\ i = (IF m + 1 \in Merged THEN 0 ELSE Width(m + 1))
        BY <2>1, <3>1
      <3>3. m \in Nat /\ l - 1 = m
        BY <1>5, <3>2
      <3>4. QED BY <3>2, <3>3
    <2>3. ASSUME l > 0, l - 1 \in Merged, i = (IF l \in Merged THEN 0 ELSE Width(l))
          PROVE  <<l, i>> \in created
      <3>1. l \in Nat /\ (l - 1) + 1 = l
        BY <1>2
      <3>2. target(l - 1) = <<l, i>>
        BY <2>1, <2>3, <3>1
      <3>3. QED BY <2>3, <3>2
    <2>4. QED BY <2>2, <2>3
  <1>8. \A k \in created : k = <<k[1], k[2]>> /\ k[1] \in Level /\ k[2] \in 0..(N - 1) /\ k[2] \in Nat
    <2> SUFFICES ASSUME NEW m \in Merged
                 PROVE  m + 1 \in Level /\ (IF Merging(m + 1) THEN 0 ELSE Width(m + 1)) \in 0..(N - 1)
      OBVIOUS
    <2>1. m \in Nat /\ m + 1 \in Level /\ (m + 1) - 1 = m /\ m + 1 > 0
      BY <1>5
    <2>2. CASE m + 1 \in Merged
      BY <1>2, <1>5, <2>1, <2>2
    <2>3. CASE m + 1 \notin Merged
      <3>1. Width(m + 1) < N
        BY <1>5, <2>1, <2>3
      <3>2. Width(m + 1) \in 0..N
        BY <1>6, <2>1
      <3>3. QED BY <1>2, <1>5, <2>1, <2>3, <3>1, <3>2
    <2>4. QED BY <2>2, <2>3
  <1>9. ASSUME NEW l \in Level, NEW i \in Nat PROVE <<l, i>> \in NewKey <=> i < wide(l)
    <2>1. <<l, i>> \in kept <=> <<l, i>> \in Key /\ l \notin Merged
      OBVIOUS
    <2>2. <<l, i>> \in NewKey <=> <<l, i>> \in kept \/ <<l, i>> \in created \/ (l = 0 /\ i = 0)
      OBVIOUS
    <2>3. l \in Nat /\ Width(l) \in Nat
      BY <1>2, <1>6
    <2> HIDE DEF kept, created, NewKey
    <2>4. CASE l \in Merged
      <3>1. l > 0 => l - 1 \in Merged
        BY <1>5, <2>3, <2>4
      <3>2. QED BY <1>7, <2>1, <2>2, <2>3, <2>4, <3>1
    <2>5. CASE l \notin Merged
      <3>1. l > 0
        BY <1>5, <2>3, <2>5
      <3>2. <<l, i>> \in NewKey <=> i < Width(l) \/ (l - 1 \in Merged /\ i = Width(l))
        BY <1>6, <1>7, <2>1, <2>2, <2>5, <3>1
      <3>3. QED BY <2>3, <2>5, <3>2
    <2>6. QED BY <2>4, <2>5
  <1>10. \A l \in Level : wide(l) \in 0..N
    <2> SUFFICES ASSUME NEW l \in Level PROVE wide(l) \in 0..N
      OBVIOUS
    <2>1. l \in Nat /\ Width(l) \in 0..N
      BY <1>2, <1>6
    <2>2. l \notin Merged => l > 0
      BY <1>5, <2>1
    <2>3. QED BY <1>2, <1>5, <2>1, <2>2
  <1>11. \A k \in kept : k \in Key /\ k[1] \notin Merged /\ k # <<0, 0>> /\ k \notin created
    <2> SUFFICES ASSUME NEW k \in Key, k[1] \notin Merged PROVE k # <<0, 0>> /\ k \notin created
      OBVIOUS
    <2>1. k = <<k[1], k[2]>> /\ k[1] \in Level /\ k[2] \in Nat
      BY <1>6
    <2>2. k # <<0, 0>>
      BY <1>5
    <2>3. k[2] < Width(k[1]) /\ Width(k[1]) \in Nat
      BY <1>2, <1>6, <2>1
    <2>4. <<k[1], k[2]>> \notin created
      <3> HIDE DEF created
      <3>1. QED BY <1>7, <2>1, <2>3
    <2>5. QED BY <2>1, <2>2, <2>4
  <1>12. \A l \in Merged : target(l) \in created /\ target(l) # <<0, 0>> /\ target(l)[1] - 1 = l
    BY <1>5
  <1>13. ASSUME NEW j \in created, NEW k \in created, j[1] = k[1] PROVE j = k
    <2>1. PICK l \in Merged : j = target(l)
      OBVIOUS
    <2>2. PICK m \in Merged : k = target(m)
      OBVIOUS
    <2>3. l = m
      BY <1>5, <1>12, <1>13, <2>1, <2>2
    <2>4. QED BY <2>1, <2>2, <2>3
  <1>14. \A k \in created : k[1] - 1 \in Merged /\ k # <<0, 0>>
    BY <1>12
  <1>15. \A l, x : x \in Merge(l) <=> \E k \in Key : k[1] = l /\ x \in pages[k]
    BY DEF Merge, PagesOf
  <1>16. /\ Key' = NewKey
         /\ \A k \in kept : pages'[k] = pages[k]
         /\ \A k \in created : pages'[k] = Merge(k[1] - 1)
         /\ pages'[<<0, 0>>] = ids
    <2>1. Key' = NewKey
      BY <1>4 DEF Key
    <2>2. \A k \in NewKey : pages'[k] = IF k = <<0, 0>> THEN ids
                                        ELSE IF k \in created THEN Merge(k[1] - 1) ELSE pages[k]
      <3> HIDE DEF NewKey, created
      <3>1. QED BY <1>4
    <2>3. QED BY <1>11, <1>14, <2>1, <2>2
  <1>17. pages' \in [Key' -> SUBSET Id]
    <2>1. \A k \in kept : pages[k] \in SUBSET Id
      BY <1>6, <1>11
    <2>2. \A l : Merge(l) \in SUBSET Id
      BY <1>6, <1>15
    <2>3. \A k \in NewKey : (IF k = <<0, 0>> THEN ids
                              ELSE IF k \in created THEN Merge(k[1] - 1) ELSE pages[k]) \in SUBSET Id
      BY <1>1, <2>1, <2>2
    <2> HIDE DEF NewKey, created, kept
    <2>4. QED BY <1>4, <1>16, <2>3
  <1> HIDE DEF target, kept, created, wide
  <1>18. N' = N /\ TopLevel' = TopLevel /\ MaxRecords' = MaxRecords /\ Level' = Level
    BY <1>3 DEF N, TopLevel, MaxRecords, Level
  <1>19. \A k \in NewKey : k = <<k[1], k[2]>> /\ k[1] \in Level /\ k[2] \in 0..(N - 1) /\ k[2] \in Nat
    BY <1>2, <1>6, <1>8, <1>11
  <1>20. KeysInv'
    <2>1. NewKey \subseteq Level \X (0..(N - 1))
      <3>1. ASSUME NEW k \in NewKey PROVE k \in Level \X (0..(N - 1))
        <4>1. <<k[1], k[2]>> \in Level \X (0..(N - 1))
          BY <1>19
        <4>2. QED BY <1>19, <4>1
      <3> HIDE DEF NewKey
      <3>2. QED BY <3>1
    <2>2. \A l \in Level : \E w \in 0..N : \A i \in 0..(N - 1) : <<l, i>> \in NewKey <=> i < w
      <3> HIDE DEF NewKey
      <3>1. ASSUME NEW l \in Level, NEW i \in 0..(N - 1) PROVE <<l, i>> \in NewKey <=> i < wide(l)
        <4>1. i \in Nat
          BY <1>2
        <4>2. QED BY <1>9, <4>1
      <3>2. QED BY <1>10, <3>1
    <2>3. ASSUME NEW k \in NewKey, NEW l \in 0..k[1] PROVE <<l, 0>> \in NewKey
      <3> HIDE DEF NewKey
      <3>1. k[1] \in Nat /\ k[1] \in Level /\ k[2] \in Nat /\ <<k[1], k[2]>> \in NewKey
        BY <1>2, <1>19
      <3>2. l \in Level /\ l \in Nat /\ l <= k[1]
        BY <1>2, <3>1 DEF Level
      <3>3. k[2] < wide(k[1])
        BY <1>9, <3>1
      <3>4. SUFFICES 0 < wide(l)
        BY <1>9, <3>2
      <3>5. CASE l \in Merged
        BY <3>5 DEF wide
      <3>6. CASE l \notin Merged /\ l - 1 \in Merged
        BY <1>6, <3>2, <3>6 DEF wide
      <3>7. CASE l \notin Merged /\ l - 1 \notin Merged
        <4>1. k[1] \notin Merged
          BY <1>5, <3>2, <3>7
        <4>2. k[1] - 1 \notin Merged
          <5> SUFFICES ASSUME k[1] - 1 \in Merged PROVE FALSE
            OBVIOUS
          <5>1. l # k[1]
            BY <3>7
          <5>2. l \in 0..(k[1] - 1)
            BY <3>1, <3>2, <5>1
          <5>3. QED BY <1>5, <3>7, <5>2
        <4>3. k[2] < Width(k[1])
          BY <3>3, <4>1, <4>2 DEF wide
        <4>4. <<k[1], k[2]>> \in Key
          BY <1>6, <3>1, <4>3
        <4>5. <<l, 0>> \in Key
          <5>1. \A m \in 0..(<<k[1], k[2]>>[1]) : <<m, 0>> \in Key
            BY <4>4 DEF IInv, KeysInv
          <5>2. QED BY <5>1
        <4>6. 0 < Width(l)
          BY <1>6, <3>2, <4>5
        <4>7. QED BY <3>7, <4>6 DEF wide
      <3>8. QED BY <3>5, <3>6, <3>7
    <2>4. QED BY <1>16, <1>17, <1>18, <2>1, <2>2, <2>3 DEF KeysInv
  <1>21. TypeOK'
    <2>1. \A k \in Key' : k[1] \in 0..(TopLevel + 1) /\ k[2] \in 0..(N - 1) /\ pages'[k] \in SUBSET Id
      BY <1>16, <1>17, <1>19 DEF Level
    <2>2. records' \in 0..MaxRecords
      BY <1>3, ShapeType DEF IInv, TypeOK
    <2>3. QED BY <1>3, <1>18, <2>1, <2>2 DEF IInv, TypeOK
  <1>22. Contents' = Contents \cup ids
    <2>1. ASSUME NEW x \in Contents' PROVE x \in Contents \cup ids
      <3>1. x \in main \/ \E k \in NewKey : x \in pages'[k]
        BY <1>3, <1>16 DEF Contents
      <3>2. ASSUME NEW k \in kept, x \in pages'[k] PROVE x \in Contents
        BY <1>11, <1>16, <3>2 DEF Contents
      <3>3. ASSUME NEW k \in created, x \in pages'[k] PROVE x \in Contents
        BY <1>15, <1>16, <3>3 DEF Contents
      <3>4. QED BY <1>16, <3>1, <3>2, <3>3 DEF Contents
    <2>2. ASSUME NEW k \in Key, NEW x \in pages[k] PROVE x \in Contents'
      <3>1. SUFFICES \E j \in NewKey : x \in pages'[j]
        BY <1>16 DEF Contents
      <3>2. CASE k[1] \in Merged
        <4>1. x \in Merge(k[1])
          BY <1>15
        <4>2. target(k[1]) \in created /\ pages'[target(k[1])] = Merge(k[1])
          BY <1>12, <1>16, <3>2
        <4>3. QED BY <4>1, <4>2
      <3>3. CASE k[1] \notin Merged
        <4>1. k \in kept
          BY <3>3 DEF kept
        <4>2. QED BY <1>16, <4>1
      <3>4. QED BY <3>2, <3>3
    <2>3. ids \subseteq Contents'
      BY <1>16 DEF Contents
    <2>4. main \subseteq Contents'
      BY <1>3 DEF Contents
    <2>5. Contents \subseteq Contents'
      BY <2>2, <2>4 DEF Contents
    <2>6. QED BY <2>1, <2>3, <2>5
  <1>23. PagesDisjoint'
    <2>1. ASSUME ~allow_overlap, NEW j0 \in NewKey, NEW k0 \in NewKey
          PROVE  pages'[k0] \cap main = {} /\ (j0 # k0 => pages'[j0] \cap pages'[k0] = {})
      <3>1. \A j, k \in Key : pages[k] \cap main = {} /\ (j # k => pages[j] \cap pages[k] = {})
        BY <2>1 DEF IInv, PagesDisjoint
      <3>2. ids \cap main = {} /\ \A k \in Key : ids \cap pages[k] = {}
        BY <1>3, <2>1, CollidesExactly DEF Contents
      <3>3. \A k \in kept : pages'[k] \cap main = {} /\ pages'[k] \cap ids = {}
        BY <1>11, <1>16, <3>1, <3>2
      <3>4. \A k \in created : pages'[k] \cap main = {} /\ pages'[k] \cap ids = {}
        <4> SUFFICES ASSUME NEW k \in created, NEW x \in pages'[k] PROVE x \notin main /\ x \notin ids
          OBVIOUS
        <4>1. PICK a \in Key : x \in pages[a]
          BY <1>15, <1>16
        <4>2. QED BY <3>1, <3>2, <4>1
      <3>5. \A j, k \in kept : j # k => pages'[j] \cap pages'[k] = {}
        BY <1>11, <1>16, <3>1
      <3>6. \A j \in kept, k \in created : pages'[j] \cap pages'[k] = {}
        <4> SUFFICES ASSUME NEW j \in kept, NEW k \in created, NEW x \in pages'[j] \cap pages'[k] PROVE FALSE
          OBVIOUS
        <4>1. PICK a \in Key : a[1] = k[1] - 1 /\ x \in pages[a]
          BY <1>15, <1>16
        <4>2. j \in Key /\ x \in pages[j] /\ j # a
          BY <1>11, <1>14, <1>16, <4>1
        <4>3. QED BY <3>1, <4>1, <4>2
      <3>7. \A j, k \in created : j # k => pages'[j] \cap pages'[k] = {}
        <4> SUFFICES ASSUME NEW j \in created, NEW k \in created, j # k, NEW x \in pages'[j] \cap pages'[k] PROVE FALSE
          OBVIOUS
        <4>1. PICK a \in Key : a[1] = j[1] - 1 /\ x \in pages[a]
          BY <1>15, <1>16
        <4>2. PICK b \in Key : b[1] = k[1] - 1 /\ x \in pages[b]
          BY <1>15, <1>16
        <4>3. a[1] # b[1]
          BY <1>2, <1>8, <1>13, <4>1, <4>2
        <4>4. QED BY <3>1, <4>1, <4>2, <4>3
      <3>8. QED BY <1>16, <3>2, <3>3, <3>4, <3>5, <3>6, <3>7
    <2> HIDE DEF NewKey
    <2>2. SUFFICES ASSUME ~allow_overlap', NEW j0 \in Key', NEW k0 \in Key'
                   PROVE  pages'[k0] \cap main' = {} /\ (j0 # k0 => pages'[j0] \cap pages'[k0] = {})
      BY DEF PagesDisjoint
    <2>3. main' = main /\ Key' = NewKey /\ ~allow_overlap
      BY <1>3, <1>16, <2>2
    <2>4. QED BY <2>1, <2>3
  <1>24. QED BY <1>3, <1>20, <1>21, <1>22, <1>23 DEF IInv

-----------------------------------------------------------------------------
(* The theorems.                                                           *)

\* A completion kind that nobody has recorded anything of satisfies the invariant.
LEMMA InitHasInv == Init => IInv
  <1> SUFFICES ASSUME Init PROVE IInv
    OBVIOUS
  <1>1. shape \in Shape /\ allow_overlap \in BOOLEAN /\ exists = FALSE /\ main = {} /\ pages = <<>>
        /\ result = "none" /\ records = 0
    BY DEF Init
  <1>2. DOMAIN <<>> = {} /\ <<>> \in [{} -> SUBSET Id]
    BY NoPages
  <1>3. Key = {} /\ pages \in [Key -> SUBSET Id]
    <2>1. Key = {}
      BY <1>1, <1>2 DEF Key
    <2>2. QED BY <1>1, <1>2, <2>1, Zenon
  <1>4. N \in Nat /\ N > 0 /\ MaxRecords \in Nat
    BY <1>1, LSMAssumption DEF N, MaxRecords
  <1>5. TypeOK
    <2>1. exists \in BOOLEAN
      BY <1>1
    <2>2. records \in 0..MaxRecords
      BY <1>1, <1>4
    <2>3. QED BY <1>1, <1>3, <2>1, <2>2 DEF TypeOK
  <1>6. KeysInv
    <2>1. 0 \in 0..N /\ \A i \in 0..(N - 1) : ~(i < 0)
      BY <1>4
    <2>2. QED BY <1>3, <2>1 DEF KeysInv
  <1>7. PagesDisjoint
    BY <1>3 DEF PagesDisjoint
  <1>8. QED BY <1>1, <1>3, <1>5, <1>6, <1>7 DEF IInv

\* The invariant is inductive, and a step does to the contents what the result
\* says.
LEMMA StepKeepsInv ==
  ASSUME IInv, [Next]_vars
  PROVE  IInv' /\ [Set!Next]_<<allow_overlap, Contents, result>>
  <1>1. ASSUME NEW ids \in Batch,
               RecordFirst(ids) \/ RecordMerged(ids) \/ RecordNewPage(ids) \/ RecordCompacting(ids)
        PROVE  IInv' /\ Set!Next
    <2>1. IInv' /\ Contents' = Contents \cup ids
      BY <1>1, FirstKeepsInv, MergedKeepsInv, NewPageKeepsInv, CompactingKeepsInv
    <2>2. result' = "recorded" /\ UNCHANGED allow_overlap
      BY <1>1 DEF RecordFirst, RecordMerged, RecordNewPage, RecordCompacting, Record
    <2>3. allow_overlap \/ ids \cap Contents = {}
      <3>1. CASE RecordFirst(ids)
        BY <3>1 DEF RecordFirst, IInv, Contents
      <3>2. CASE ~Collides(ids)
        BY <3>2, CollidesExactly
      <3>3. QED BY <1>1, <3>1, <3>2 DEF RecordMerged, RecordNewPage, RecordCompacting
    <2>4. Set!Record(ids)
      BY <2>1, <2>2, <2>3 DEF Set!Record
    <2>5. QED BY <2>1, <2>4 DEF Set!Next
  <1>2. ASSUME NEW ids \in Batch, RecordRefused(ids) \/ RecordThrows(ids) PROVE IInv' /\ Set!Next
    <2>1. /\ UNCHANGED <<shape, allow_overlap, lsm>> /\ result' \in {"refused", "threw"}
          /\ records' \in 0..MaxRecords
      <3>1. records \in 0..MaxRecords /\ MaxRecords \in Nat
        BY ShapeType DEF IInv, TypeOK
      <3>2. QED BY <1>2, <3>1 DEF RecordRefused, RecordThrows, Record
    <2>2. IInv' /\ Contents' = Contents
      BY <2>1, SameTreeKeepsInv
    <2>3. CASE RecordRefused(ids)
      <3>1. ~allow_overlap /\ ids \cap Contents # {}
        BY <2>3, CollidesExactly DEF RecordRefused
      <3>2. Set!Refuse(ids)
        BY <2>1, <2>2, <2>3, <3>1 DEF Set!Refuse, RecordRefused
      <3>3. QED BY <2>2, <3>2 DEF Set!Next
    <2>4. CASE RecordThrows(ids)
      BY <2>1, <2>2, <2>4 DEF Set!Next, Set!Abort, RecordThrows
    <2>5. QED BY <1>2, <2>3, <2>4
  <1>3. ASSUME NEW tolerated_levels \in {0, 1}, compact_completion(tolerated_levels) PROVE IInv' /\ Set!Next
    <2>1. IInv' /\ Contents' = Contents
      BY <1>3, FullKeepsInv
    <2>2. QED BY <1>3, <2>1 DEF Set!Next, Set!Compact, compact_completion
  <1>4. CASE UNCHANGED vars
    <2>1. UNCHANGED <<shape, allow_overlap, lsm, result, records>>
      BY <1>4 DEF vars
    <2>2. IInv' /\ Contents' = Contents
      BY <2>1, SameTreeKeepsInv DEF IInv, TypeOK
    <2>3. QED BY <2>1, <2>2
  <1>5. QED BY <1>1, <1>2, <1>3, <1>4 DEF Next, RecordSome

\* The invariant holds in every state of every behaviour.
LEMMA SpecHasInv == Spec => []IInv
  <1>1. IInv /\ [Next]_vars => IInv'
    BY StepKeepsInv
  <1>2. QED BY InitHasInv, <1>1, PTL DEF Spec

\* A level never has more than N pages and none is created above the level
\* after TopLevel, however far a compaction cascades.
THEOREM TypeCorrect == Spec => []TypeOK
  <1>1. IInv => TypeOK
    BY DEF IInv
  <1>2. QED BY <1>1, SpecHasInv, PTL

\* After any records and compactions the next parse_lsm finds the whole tree
\* without a key gap, no id is stored twice unless overlap is allowed, and
\* subtract_completion and intersect_completion are exact.
THEOREM TreeStaysExact == Spec => []TreeExact
  <1>1. IInv => TreeExact
    BY TreeIsExact
  <1>2. QED BY <1>1, SpecHasInv, PTL

\* The tree implements a set of ids that only grows and refuses exactly the
\* records that overlap: compaction changes nothing, and a transaction that
\* throws leaves no trace.
THEOREM TreeImplementsSet == Spec => ImplementsSet
  <1>1. Init => Set!Init
    <2> SUFFICES ASSUME Init PROVE Set!Init
      OBVIOUS
    <2>1. DOMAIN <<>> = {}
      BY NoPages
    <2>2. Contents = {}
      BY <2>1 DEF Init, Contents, Key
    <2>3. QED BY <2>2 DEF Init, Set!Init
  <1>2. IInv /\ [Next]_vars => [Set!Next]_<<allow_overlap, Contents, result>>
    BY StepKeepsInv
  <1>3. QED BY <1>1, <1>2, SpecHasInv, PTL DEF Spec, ImplementsSet, Set!Spec

-----------------------------------------------------------------------------
(* Sync: sequences and sets                                                *)

\* Numbers in order are listed at one place each.
LEMMA AscendingIs ==
  ASSUME NEW S, S \subseteq Int, IsFiniteSet(S)
  PROVE  /\ Ascending(S) \in Seq(S) /\ Len(Ascending(S)) = Cardinality(S) /\ Cardinality(S) \in Nat
         /\ ToSet(Ascending(S)) = S
         /\ \A i, j \in 1..Len(Ascending(S)) : Ascending(S)[i] = Ascending(S)[j] => i = j
  <1> DEFINE n == Cardinality(S)
             Less(x) == {y \in S : y < x}
             r == [x \in S |-> Cardinality(Less(x))]
             d == Ascending(S)
  <1>1. n \in Nat
    BY FS_CardinalityType
  <1>2. ASSUME NEW x \in S PROVE r[x] \in 0..(n - 1) /\ IsFiniteSet(Less(x))
    <2>1. Less(x) \in SUBSET S /\ x \notin Less(x)
      OBVIOUS
    <2>2. IsFiniteSet(Less(x)) /\ Cardinality(Less(x)) <= n /\ (n = Cardinality(Less(x)) => S = Less(x))
      BY <2>1, FS_Subset
    <2>3. Cardinality(Less(x)) \in Nat
      BY <2>2, FS_CardinalityType
    <2> HIDE DEF Less
    <2>4. QED BY <1>1, <2>1, <2>2, <2>3
  <1>3. ASSUME NEW x \in S, NEW y \in S, x < y PROVE r[x] < r[y]
    <2>1. Less(x) \in SUBSET Less(y) /\ x \in Less(y) /\ x \notin Less(x)
      <3>1. x \in Int /\ y \in Int /\ \A z \in S : z \in Int
        OBVIOUS
      <3>2. \A z \in S : z < x => z < y
        BY <1>3, <3>1
      <3>3. x \in Less(y) /\ x \notin Less(x)
        BY <1>3, <3>1
      <3>4. Less(x) \subseteq Less(y)
        BY <3>2
      <3>5. QED BY <3>3, <3>4
    <2>2. Cardinality(Less(x)) <= Cardinality(Less(y)) /\ Cardinality(Less(x)) # Cardinality(Less(y))
      BY <1>2, <2>1, FS_Subset
    <2> HIDE DEF Less
    <2>3. r[x] \in Int /\ r[y] \in Int
      BY <1>1, <1>2
    <2>4. QED BY <2>2, <2>3
  <1>4. r \in Injection(S, 0..(n - 1))
    <2> HIDE DEF r
    <2>1. \A x, y \in S : x # y => r[x] # r[y]
      <3> SUFFICES ASSUME NEW x \in S, NEW y \in S, x # y PROVE r[x] # r[y]
        OBVIOUS
      <3>1. x < y \/ y < x
        OBVIOUS
      <3>2. r[x] \in 0..(n - 1) /\ r[y] \in 0..(n - 1)
        BY <1>2
      <3>3. QED BY <1>3, <3>1, <3>2
    <2>2. r \in [S -> 0..(n - 1)]
      BY <1>2 DEF r
    <2>3. QED BY <2>1, <2>2 DEF Injection, IsInjective
  <1>5. Cardinality(0..(n - 1)) = n /\ IsFiniteSet(0..(n - 1))
    BY <1>1, FS_Interval
  <1>6. r \in Surjection(S, 0..(n - 1))
    BY <1>4, <1>5, FS_Injection
  <1>7. \A i \in 1..n : \E x \in S : r[x] = i - 1
    <2>1. \A k \in 0..(n - 1) : \E x \in S : r[x] = k
      BY <1>6 DEF Surjection
    <2> HIDE DEF r
    <2>2. \A i \in 1..n : i - 1 \in 0..(n - 1)
      BY <1>1
    <2>3. QED BY <2>1, <2>2
  <1>8. d = [i \in 1..n |-> CHOOSE x \in S : Cardinality(Less(x)) = i - 1]
    BY DEF Ascending
  <1>9. ASSUME NEW i \in 1..n PROVE d[i] \in S /\ r[d[i]] = i - 1
    <2>1. \E x \in S : Cardinality(Less(x)) = i - 1
      BY <1>7
    <2> HIDE DEF d, Less
    <2>2. d[i] = CHOOSE x \in S : Cardinality(Less(x)) = i - 1
      BY <1>8
    <2>3. d[i] \in S /\ Cardinality(Less(d[i])) = i - 1
      BY <2>1, <2>2
    <2>4. QED BY <2>3
  <1>10. d \in [1..n -> S] /\ d \in Seq(S) /\ Len(d) = n
    <2> HIDE DEF d
    <2>1. d \in [1..n -> S]
      BY <1>8, <1>9
    <2>2. QED BY <1>1, <2>1
  <1>11. \A i, j \in 1..n : d[i] = d[j] => i = j
    <2> HIDE DEF d, r
    <2>1. \A i \in 1..n : r[d[i]] = i - 1
      BY <1>9
    <2>2. QED BY <1>1, <2>1
  <1>12. ToSet(d) = S
    <2> HIDE DEF d
    <2>1. ToSet(d) \subseteq S
      BY <1>10 DEF ToSet
    <2>2. ASSUME NEW x \in S PROVE x \in ToSet(d)
      <3> DEFINE i == r[x] + 1
      <3>1. i \in 1..n /\ r[d[i]] = r[x] /\ d[i] \in S
        <4>1. r[x] \in 0..(n - 1)
          BY <1>2
        <4> HIDE DEF r
        <4>2. i \in 1..n
          BY <1>1, <4>1
        <4>3. QED BY <1>9, <4>1, <4>2
      <3>2. d[i] = x
        <4> HIDE DEF r, i
        <4>1. QED BY <1>4, <3>1 DEF Injection, IsInjective
      <3>3. QED BY <1>10, <3>1, <3>2 DEF ToSet
    <2>3. QED BY <2>1, <2>2
  <1> HIDE DEF d
  <1>13. QED BY <1>1, <1>10, <1>11, <1>12 DEF d

\* The elements of a sequence.
LEMMA ToSetIs ==
  ASSUME NEW D, NEW s \in Seq(D)
  PROVE  /\ ToSet(s) = {s[i] : i \in 1..Len(s)} /\ ToSet(s) \subseteq D /\ Len(s) \in Nat
         /\ \A i \in 1..Len(s) : s[i] \in D
  BY DEF ToSet

\* No element is at two places.
Distinct(s) == \A i, j \in 1..Len(s) : s[i] = s[j] => i = j

\* What is kept of a sequence: the elements at these places, once each.
LEMMA KeptIs ==
  ASSUME NEW D, NEW s \in Seq(D), NEW places, places \subseteq 1..Len(s)
  PROVE  /\ Kept(s, places) \in Seq(D) /\ ToSet(Kept(s, places)) = {s[i] : i \in places}
         /\ \A i \in 1..Len(Kept(s, places)) : Kept(s, places)[i] \in {s[k] : k \in places}
         /\ (\A i, j \in places : s[i] = s[j] => i = j) => Distinct(Kept(s, places))
  <1> DEFINE order == Ascending(places)
             k == Kept(s, places)
  <1>1. Len(s) \in Nat /\ \A i \in 1..Len(s) : s[i] \in D
    OBVIOUS
  <1>2. IsFiniteSet(places) /\ places \subseteq Int
    <2>1. 1..Len(s) \subseteq Int /\ 1 \in Int /\ Len(s) \in Int
      BY <1>1
    <2>2. IsFiniteSet(1..Len(s))
      BY <2>1, FS_Interval
    <2>3. QED BY <2>1, <2>2, FS_Subset
  <1>3. order \in Seq(places) /\ ToSet(order) = places /\ \A i, j \in 1..Len(order) : order[i] = order[j] => i = j
    BY <1>2, AscendingIs
  <1>4. k = [i \in 1..Len(order) |-> s[order[i]]]
    BY DEF Kept
  <1> HIDE DEF order, k
  <1>5. Len(order) \in Nat /\ (\A i \in 1..Len(order) : order[i] \in places) /\ \A x \in places : \E i \in 1..Len(order) : order[i] = x
    BY <1>3 DEF ToSet
  <1>6. k \in Seq(D) /\ Len(k) = Len(order)
    <2>1. k \in [1..Len(order) -> D]
      BY <1>1, <1>4, <1>5
    <2>2. QED BY <1>5, <2>1
  <1>7. \A i \in 1..Len(k) : k[i] = s[order[i]]
    BY <1>4, <1>6
  <1>8. ToSet(k) = {s[i] : i \in places}
    <2>1. ToSet(k) = {k[i] : i \in 1..Len(k)}
      BY <1>6, ToSetIs
    <2>2. {k[i] : i \in 1..Len(order)} = {s[order[i]] : i \in 1..Len(order)}
      BY <1>6, <1>7
    <2>3. {s[order[i]] : i \in 1..Len(order)} = {s[i] : i \in places}
      <3>1. {s[order[i]] : i \in 1..Len(order)} \subseteq {s[i] : i \in places}
        BY <1>5
      <3>2. {s[i] : i \in places} \subseteq {s[order[i]] : i \in 1..Len(order)}
        BY <1>5
      <3>3. QED BY <3>1, <3>2
    <2>4. QED BY <1>6, <2>1, <2>2, <2>3
  <1>9. \A i \in 1..Len(k) : k[i] \in {s[x] : x \in places}
    BY <1>5, <1>6, <1>7
  <1>10. (\A i, j \in places : s[i] = s[j] => i = j) => \A i, j \in 1..Len(k) : k[i] = k[j] => i = j
    <2> SUFFICES ASSUME \A i, j \in places : s[i] = s[j] => i = j, NEW i \in 1..Len(order), NEW j \in 1..Len(order), k[i] = k[j]
                 PROVE  i = j
      BY <1>6
    <2>1. order[i] \in places /\ order[j] \in places /\ s[order[i]] = s[order[j]]
      BY <1>5, <1>6, <1>7
    <2>2. order[i] = order[j]
      BY <2>1
    <2>3. QED BY <1>3, <2>2
  <1>11. QED BY <1>6, <1>8, <1>9, <1>10 DEF k, Distinct

\* f[k] is what F makes of k and f[k - 1].
Recursion(f, S, n, F, x) ==
  f \in [0..n -> S] /\ f[0] = x /\ \A k \in 1..n : f[k] = F[<<k, f[k - 1]>>]

\* A recursion along 0..n has a value at every number.
LEMMA PrefixRecursion ==
  ASSUME NEW S, NEW n \in Nat, NEW F \in [Nat \X S -> S], NEW x \in S
  PROVE  \E f : Recursion(f, S, n, F, x)
  <1> DEFINE P == Nat \X S
             G == [p \in P |-> <<p[1] + 1, F[<<p[1] + 1, p[2]>>]>>]
  <1>1. G \in [P -> P] /\ <<0, x>> \in P
    OBVIOUS
  <1>2. PICK h : Iterates(h, P, G, <<0, x>>)
    <2> HIDE DEF P, G
    <2>1. QED BY <1>1, Iteration
  <1>3. \A k \in Nat : h[k] \in P /\ h[k + 1] = <<h[k][1] + 1, F[<<h[k][1] + 1, h[k][2]>>]>>
    <2>1. \A k \in Nat : h[k] \in P /\ h[k + 1] = G[h[k]]
      <3> HIDE DEF P, G
      <3>1. QED BY <1>2 DEF Iterates
    <2>2. QED BY <2>1
  <1>4. h[0] = <<0, x>>
    BY <1>2 DEF Iterates
  <1>8. \A k \in Nat : h[k][2] \in S /\ h[k + 1][1] = h[k][1] + 1
    <2> SUFFICES ASSUME NEW k \in Nat PROVE h[k][2] \in S /\ h[k + 1][1] = h[k][1] + 1
      OBVIOUS
    <2>1. h[k] \in P /\ h[k + 1] = <<h[k][1] + 1, F[<<h[k][1] + 1, h[k][2]>>]>>
      BY <1>3
    <2>2. h[k][2] \in S
      BY <2>1
    <2>3. QED BY <2>1, <2>2
  <1> DEFINE A == {k \in Nat : h[k][1] = k}
  <1>5. Nat \subseteq A
    <2>1. 0 \in A
      BY <1>4
    <2>2. \A k \in Nat : k \in A => k + 1 \in A
      BY <1>8
    <2> HIDE DEF A
    <2>3. QED BY <2>1, <2>2, InductionOnNumbers
  <1> DEFINE f == [k \in 0..n |-> h[k][2]]
  <1>6. f \in [0..n -> S] /\ f[0] = x
    <2>1. \A k \in 0..n : k \in Nat /\ h[k][2] \in S
      BY <1>8
    <2>2. f \in [0..n -> S]
      BY <2>1
    <2>3. f[0] = h[0][2] /\ h[0][2] = x
      BY <1>4
    <2>4. QED BY <2>2, <2>3
  <1>7. ASSUME NEW k \in 1..n PROVE f[k] = F[<<k, f[k - 1]>>]
    <2>1. k - 1 \in Nat /\ k - 1 \in 0..n /\ k \in 0..n /\ (k - 1) + 1 = k
      OBVIOUS
    <2>2. h[k - 1][1] = k - 1
      BY <1>5, <2>1
    <2>3. h[k] = <<k, F[<<k, h[k - 1][2]>>]>>
      BY <1>3, <2>1, <2>2
    <2>4. QED BY <2>1, <2>3
  <1> HIDE DEF f
  <1>9. QED BY <1>6, <1>7 DEF Recursion

\* The parts of a sequence that is put together are in it.
LEMMA FlattenIs ==
  ASSUME NEW D, NEW ss \in Seq(Seq(D))
  PROVE  FlattenSeq(ss) \in Seq(D) /\ \A i \in 1..Len(ss) : ToSet(ss[i]) \subseteq ToSet(FlattenSeq(ss))
  <1> DEFINE n == Len(ss)
             Body(u, i) == IF i = 1 THEN ss[i] ELSE u[i - 1] \o ss[i]
             flatten == CHOOSE u : u = [i \in 1..n |-> Body(u, i)]
  <1>1. n \in Nat /\ \A i \in 1..n : ss[i] \in Seq(D)
    OBVIOUS
  <1>2. CASE n = 0
    <2>1. FlattenSeq(ss) = ss /\ ss = <<>>
      BY <1>2, EmptySeq DEF FlattenSeq
    <2>2. QED BY <1>2, <2>1
  <1>3. CASE n # 0
    <2>1. FlattenSeq(ss) = flatten[n]
      BY <1>3 DEF FlattenSeq
    <2> DEFINE F == [p \in Nat \X Seq(D) |-> IF p[1] + 1 \in 1..n THEN p[2] \o ss[p[1] + 1] ELSE p[2]]
               m == n - 1
    <2>2. F \in [Nat \X Seq(D) -> Seq(D)] /\ ss[1] \in Seq(D) /\ m \in Nat
      BY <1>1, <1>3, ConcatProperties
    <2>3. PICK f \in [0..m -> Seq(D)] : f[0] = ss[1] /\ \A k \in 1..m : f[k] = F[<<k, f[k - 1]>>]
      <3> DEFINE T == Seq(D)
                 x == ss[1]
      <3>1. F \in [Nat \X T -> T] /\ x \in T /\ m \in Nat
        BY <2>2
      <3> HIDE DEF F, m, T, x
      <3>2. PICK f : Recursion(f, T, m, F, x)
        BY <3>1, PrefixRecursion
      <3>3. QED BY <3>2 DEF T, x, Recursion
    <2> DEFINE g == [i \in 1..n |-> f[i - 1]]
    <2>4. ASSUME NEW i \in 1..n PROVE g[i] = Body(g, i) /\ f[i - 1] \in Seq(D)
      <3>1. i - 1 \in 0..m /\ g[i] = f[i - 1] /\ f[i - 1] \in Seq(D)
        <4>1. i - 1 \in 0..m
          BY <1>1
        <4>2. g[i] = f[i - 1]
          OBVIOUS
        <4> HIDE DEF m, g
        <4>3. f[i - 1] \in Seq(D)
          BY <4>1
        <4>4. QED BY <4>1, <4>2, <4>3
      <3>2. CASE i = 1
        BY <2>3, <3>1, <3>2
      <3>3. CASE i # 1
        <4>1. i - 1 \in 1..m /\ i - 1 \in 1..n /\ (i - 1) - 1 \in 0..m /\ (i - 1) + 1 = i /\ i - 1 \in Nat
          BY <1>1, <3>3
        <4>2. f[i - 1] = F[<<i - 1, f[(i - 1) - 1]>>] /\ f[(i - 1) - 1] \in Seq(D)
          BY <2>3, <4>1
        <4>3. F[<<i - 1, f[(i - 1) - 1]>>] = f[(i - 1) - 1] \o ss[i]
          BY <4>1, <4>2
        <4>4. g[i - 1] = f[(i - 1) - 1]
          BY <4>1
        <4>5. QED BY <3>1, <3>3, <4>2, <4>3, <4>4
      <3>4. QED BY <3>1, <3>2, <3>3
    <2>5. g = [i \in 1..n |-> Body(g, i)]
      <3> HIDE DEF Body
      <3>1. QED BY <2>4
    <2>6. flatten = [i \in 1..n |-> Body(flatten, i)]
      <3> HIDE DEF Body, g
      <3>1. QED BY <2>5
    <2>7. flatten[1] = ss[1] /\ \A i \in 1..n : i # 1 => flatten[i] = flatten[i - 1] \o ss[i]
      <3> HIDE DEF flatten
      <3>1. 1 \in 1..n
        BY <1>1, <1>3
      <3>2. \A i \in 1..n : flatten[i] = Body(flatten, i)
        <4> HIDE DEF Body
        <4>1. QED BY <2>6
      <3>3. QED BY <3>1, <3>2
    <2> HIDE DEF flatten
    <2> DEFINE A == {k \in Nat : k + 1 \in 1..n => flatten[k + 1] \in Seq(D) /\ \A i \in 1..(k + 1) : ToSet(ss[i]) \subseteq ToSet(flatten[k + 1])}
    <2>8. 0 \in A
      BY <1>1, <1>3, <2>7
    <2>9. ASSUME NEW k \in Nat, k \in A PROVE k + 1 \in A
      <3> SUFFICES ASSUME (k + 1) + 1 \in 1..n
                   PROVE  /\ flatten[(k + 1) + 1] \in Seq(D)
                          /\ \A i \in 1..((k + 1) + 1) : ToSet(ss[i]) \subseteq ToSet(flatten[(k + 1) + 1])
        OBVIOUS
      <3> DEFINE j == k + 1
      <3>1. j \in 1..n /\ j + 1 # 1 /\ j + 1 \in 1..n /\ (j + 1) - 1 = j
        BY <1>1
      <3>2. flatten[j] \in Seq(D) /\ \A i \in 1..j : ToSet(ss[i]) \subseteq ToSet(flatten[j])
        BY <2>9, <3>1
      <3>3. flatten[j + 1] = flatten[j] \o ss[j + 1] /\ ss[j + 1] \in Seq(D)
        BY <1>1, <2>7, <3>1
      <3> HIDE DEF j
      <3>4. flatten[j + 1] \in Seq(D) /\ ToSet(flatten[j]) \subseteq ToSet(flatten[j + 1]) /\ ToSet(ss[j + 1]) \subseteq ToSet(flatten[j + 1])
        <4>1. flatten[j] \o ss[j + 1] \in Seq(D)
          BY <3>2, <3>3, ConcatProperties
        <4>2. Range(flatten[j] \o ss[j + 1]) = Range(flatten[j]) \cup Range(ss[j + 1])
          BY <3>2, <3>3, RangeConcatenation
        <4>3. QED BY <3>3, <4>1, <4>2 DEF Range, ToSet
      <3>5. \A i \in 1..(j + 1) : i \in 1..j \/ i = j + 1
        BY <3>1
      <3>6. QED BY <3>2, <3>4, <3>5 DEF j
    <2>10. Nat \subseteq A
      <3> HIDE DEF A
      <3>1. QED BY <2>8, <2>9, InductionOnNumbers
    <2>11. m \in A /\ m + 1 = n /\ m + 1 \in 1..n
      <3>1. m \in Nat /\ m + 1 = n /\ m + 1 \in 1..n
        BY <1>1, <1>3
      <3> HIDE DEF A
      <3>2. QED BY <2>10, <3>1
    <2>12. flatten[n] \in Seq(D) /\ \A i \in 1..n : ToSet(ss[i]) \subseteq ToSet(flatten[n])
      BY <2>11
    <2>13. QED BY <2>1, <2>12
  <1>4. QED BY <1>2, <1>3

\* The gadgets of a morph are known and in order.
LEMMA MorphIs ==
  ASSUME NEW r \in Morphs
  PROVE  /\ r.normal \in KnownGadgets /\ r.mirror \subseteq KnownGadgets
         /\ Images(r) \subseteq KnownGadgets
         /\ Ascending(r.mirror) \in Seq(KnownGadgets) /\ ToSet(Ascending(r.mirror)) = r.mirror
  <1>1. r.normal \in KnownGadgets /\ (r.mirror = {} \/ \E m \in KnownGadgets : r.mirror = {m})
    BY DEF Morphs
  <1>2. r.mirror \subseteq KnownGadgets /\ IsFiniteSet(r.mirror)
    BY <1>1, FS_EmptySet, FS_Singleton
  <1>3. r.mirror \subseteq Int
    BY <1>2, OperationsAssumption
  <1>4. Ascending(r.mirror) \in Seq(r.mirror) /\ ToSet(Ascending(r.mirror)) = r.mirror
    BY <1>2, <1>3, AscendingIs
  <1>5. Ascending(r.mirror) \in Seq(KnownGadgets)
    BY <1>2, <1>4
  <1>6. QED BY <1>1, <1>2, <1>4, <1>5 DEF Images

\* What is left of the morphs: no other gadgets.
LEMMA LeftMorphsIs ==
  ASSUME NEW g, g.morphs \in Seq(Morphs)
  PROVE  /\ LeftMorphs(g) \in Seq(Morphs)
         /\ \A r \in ToSet(LeftMorphs(g)) : \E q \in ToSet(g.morphs) : Images(r) \subseteq Images(q)
  <1> DEFINE ms == g.morphs
             w == WithoutReflection(ms)
  <1>1. Len(ms) \in Nat /\ \A i \in 1..Len(ms) : ms[i] \in Morphs
    OBVIOUS
  <1>2. w = ms \/ w = [i \in 1..Len(ms) |-> [ms[i] EXCEPT !.mirror = {}]]
    BY DEF WithoutReflection
  <1>3. w \in Seq(Morphs) /\ Len(w) = Len(ms) /\ \A i \in 1..Len(ms) : Images(w[i]) \subseteq Images(ms[i])
    <2>1. CASE w = ms
      BY <2>1
    <2>2. CASE w = [i \in 1..Len(ms) |-> [ms[i] EXCEPT !.mirror = {}]]
      <3> HIDE DEF w
      <3>1. ASSUME NEW i \in 1..Len(ms)
            PROVE  w[i] \in Morphs /\ w[i].normal = ms[i].normal /\ w[i].mirror = {}
        <4>1. w[i] = [ms[i] EXCEPT !.mirror = {}] /\ ms[i] \in Morphs
          BY <1>1, <2>2
        <4>2. QED BY <4>1 DEF Morphs
      <3>2. w \in [1..Len(ms) -> Morphs]
        BY <2>2, <3>1
      <3>3. w \in Seq(Morphs) /\ Len(w) = Len(ms)
        BY <1>1, <3>2
      <3>4. QED BY <3>1, <3>3 DEF Images
    <2>3. QED BY <1>2, <2>1, <2>2
  <1> HIDE DEF w
  <1>4. LeftMorphs(g) = WithoutRotations(w)
    BY DEF LeftMorphs, w
  <1> DEFINE places == {i \in 1..Len(w) : \A j \in 1..(i - 1) : w[j].normal # w[i].normal}
  <1>5. WithoutRotations(w) = Kept(w, places) /\ places \subseteq 1..Len(w)
    BY DEF WithoutRotations
  <1> HIDE DEF places
  <1>6. Kept(w, places) \in Seq(Morphs) /\ ToSet(Kept(w, places)) = {w[i] : i \in places}
    BY <1>3, <1>5, KeptIs
  <1>7. \A i \in 1..Len(ms) : ms[i] \in ToSet(ms)
    BY <1>1, ToSetIs
  <1> HIDE DEF ms
  <1>8. \A r \in ToSet(LeftMorphs(g)) : \E q \in ToSet(ms) : Images(r) \subseteq Images(q)
    BY <1>3, <1>4, <1>5, <1>6, <1>7
  <1>9. QED BY <1>4, <1>5, <1>6, <1>8 DEF ms

\* The definitions that give gadgets.
LEMMA DefsIs ==
  ASSUME NEW f \in Files
  PROVE  /\ Defs(f) \in Seq(ToSet(f.gadgets))
         /\ \A g \in ToSet(Defs(f)) : g \in ToSet(f.gadgets) /\ g.morphs # <<>> /\ g.morphs \in Seq(Morphs)
  <1> DEFINE gs == f.gadgets
             places == {i \in 1..Len(gs) : gs[i].morphs # <<>>}
  <1>1. gs \in Seq(ToSet(gs)) /\ \A g \in ToSet(gs) : g.morphs \in Seq(Morphs)
    BY FilesAssumption
  <1>2. Defs(f) = Kept(gs, places) /\ places \subseteq 1..Len(gs) /\ \A i \in places : gs[i].morphs # <<>>
    BY DEF Defs
  <1> HIDE DEF gs, places
  <1>3. Defs(f) \in Seq(ToSet(gs)) /\ ToSet(Defs(f)) = {gs[i] : i \in places}
    <2> DEFINE D == ToSet(gs)
    <2>1. gs \in Seq(D)
      BY <1>1
    <2> HIDE DEF D
    <2>2. Kept(gs, places) \in Seq(D) /\ ToSet(Kept(gs, places)) = {gs[i] : i \in places}
      BY <1>2, <2>1, KeptIs
    <2>3. QED BY <1>2, <2>2 DEF D
  <1>4. \A i \in 1..Len(gs) : gs[i] \in ToSet(gs)
    BY <1>1, ToSetIs
  <1>5. \A g \in ToSet(Defs(f)) : g \in ToSet(gs) /\ g.morphs # <<>> /\ g.morphs \in Seq(Morphs)
    BY <1>1, <1>2, <1>3, <1>4
  <1>6. QED BY <1>3, <1>5 DEF gs

\* Every gadget of the files is registered.
LEMMA CanonicalsIs ==
  ASSUME NEW f \in Files
  PROVE  /\ canonicals(f) \in Seq(KnownGadgets)
         /\ \A g \in ToSet(Defs(f)) : \A q \in ToSet(g.morphs) : Images(q) \subseteq ToSet(canonicals(f))
  <1> DEFINE K == KnownGadgets
             ds == Defs(f)
             Pair(r) == <<r.normal>> \o Ascending(r.mirror)
             List(ms) == [k \in 1..Len(ms) |-> Pair(ms[k])]
             whole == [i \in 1..Len(ds) |-> FlattenSeq(List(ds[i].morphs))]
  <1>1. canonicals(f) = FlattenSeq(whole)
    BY DEF canonicals
  <1>2. ASSUME NEW r \in Morphs PROVE Pair(r) \in Seq(K) /\ Images(r) = ToSet(Pair(r))
    <2>1. <<r.normal>> \in Seq(K) /\ Range(<<r.normal>>) = {r.normal} /\ Ascending(r.mirror) \in Seq(K)
      <3>1. r.normal \in K /\ Ascending(r.mirror) \in Seq(K)
        BY MorphIs
      <3>2. <<r.normal>> \in Seq(K) /\ DOMAIN <<r.normal>> = {1} /\ <<r.normal>>[1] = r.normal
        BY <3>1
      <3>3. QED BY <3>1, <3>2 DEF Range
    <2>2. Pair(r) \in Seq(K)
      BY <2>1, ConcatProperties
    <2>3. Range(Pair(r)) = {r.normal} \cup Range(Ascending(r.mirror))
      <3> DEFINE a == <<r.normal>>
                 b == Ascending(r.mirror)
      <3>1. a \in Seq(K) /\ b \in Seq(K) /\ Range(a) = {r.normal}
        BY <2>1
      <3> HIDE DEF a, b
      <3>2. Range(a \o b) = Range(a) \cup Range(b)
        BY <3>1, RangeConcatenation
      <3>3. QED BY <3>1, <3>2 DEF a, b
    <2>4. Range(Ascending(r.mirror)) = r.mirror
      BY MorphIs DEF Range, ToSet
    <2>5. QED BY <2>2, <2>3, <2>4 DEF Images, Range, ToSet
  <1> HIDE DEF Pair, K
  <1>3. ASSUME NEW ms \in Seq(Morphs)
        PROVE  FlattenSeq(List(ms)) \in Seq(K) /\ \A q \in ToSet(ms) : Images(q) \subseteq ToSet(FlattenSeq(List(ms)))
    <2>1. Len(ms) \in Nat /\ \A k \in 1..Len(ms) : ms[k] \in Morphs
      OBVIOUS
    <2>2. List(ms) \in [1..Len(ms) -> Seq(K)]
      BY <1>2, <2>1
    <2>3. List(ms) \in Seq(Seq(K)) /\ Len(List(ms)) = Len(ms) /\ \A k \in 1..Len(ms) : List(ms)[k] = Pair(ms[k])
      BY <2>1, <2>2
    <2> HIDE DEF List
    <2>4. FlattenSeq(List(ms)) \in Seq(K) /\ \A k \in 1..Len(ms) : ToSet(Pair(ms[k])) \subseteq ToSet(FlattenSeq(List(ms)))
      BY <2>3, FlattenIs
    <2>5. \A q \in ToSet(ms) : \E k \in 1..Len(ms) : q = ms[k]
      BY ToSetIs
    <2>6. QED BY <1>2, <2>1, <2>4, <2>5
  <1> HIDE DEF List
  <1>4. ds \in Seq(ToSet(f.gadgets)) /\ \A g \in ToSet(ds) : g.morphs \in Seq(Morphs)
    BY DefsIs
  <1> HIDE DEF ds
  <1>5. Len(ds) \in Nat /\ ToSet(ds) = {ds[i] : i \in 1..Len(ds)}
    BY <1>4, ToSetIs
  <1>6. \A i \in 1..Len(ds) : ds[i].morphs \in Seq(Morphs)
    BY <1>4, <1>5
  <1>7. whole \in [1..Len(ds) -> Seq(K)]
    BY <1>3, <1>6
  <1>8. whole \in Seq(Seq(K)) /\ Len(whole) = Len(ds) /\ \A i \in 1..Len(ds) : whole[i] = FlattenSeq(List(ds[i].morphs))
    BY <1>5, <1>7
  <1> HIDE DEF whole
  <1>9. FlattenSeq(whole) \in Seq(K) /\ \A i \in 1..Len(ds) : ToSet(whole[i]) \subseteq ToSet(FlattenSeq(whole))
    BY <1>8, FlattenIs
  <1>10. \A i \in 1..Len(ds) : \A q \in ToSet(ds[i].morphs) : Images(q) \subseteq ToSet(FlattenSeq(whole))
    BY <1>3, <1>6, <1>8, <1>9
  <1>11. QED BY <1>1, <1>5, <1>9, <1>10 DEF ds, K

-----------------------------------------------------------------------------
(* Naming *)

\* The greatest of some numbers up to m.
LEMMA GreatestNumber ==
  ASSUME NEW m \in Nat, NEW T, T \subseteq 1..m, T # {}
  PROVE  Max(T) \in T
  <1> DEFINE U == {m - x : x \in T}
  <1>1. U \subseteq Nat /\ U # {}
    <2>1. \A x \in T : m - x \in Nat
      OBVIOUS
    <2>2. QED BY <2>1
  <1>2. PICK u \in U : \A v \in U : u <= v
    <2> HIDE DEF U
    <2>1. QED BY <1>1, LeastNumber
  <1>3. PICK x \in T : u = m - x
    OBVIOUS
  <1>4. \A y \in T : x >= y
    <2> SUFFICES ASSUME NEW y \in T PROVE x >= y
      OBVIOUS
    <2>1. x \in 1..m /\ y \in 1..m
      OBVIOUS
    <2>2. m - y \in U
      OBVIOUS
    <2> HIDE DEF U
    <2>3. m - x <= m - y
      BY <1>2, <1>3, <2>2
    <2>4. QED BY <2>1, <2>3
  <1>5. QED BY <1>4 DEF Max

\* What is assigned was assigned by one of the assignments.
LEMMA AssignedIs ==
  ASSUME NEW T, NEW maps \in Seq(T)
  PROVE  \A n \in DOMAIN Assigned(maps) : \E i \in 1..Len(maps) : n \in DOMAIN maps[i] /\ Assigned(maps)[n] = maps[i][n]
  <1> SUFFICES ASSUME NEW n \in DOMAIN Assigned(maps)
               PROVE  \E i \in 1..Len(maps) : n \in DOMAIN maps[i] /\ Assigned(maps)[n] = maps[i][n]
    OBVIOUS
  <1> DEFINE P == {i \in DOMAIN maps : n \in DOMAIN maps[i]}
  <1>1. DOMAIN maps = 1..Len(maps) /\ Len(maps) \in Nat
    OBVIOUS
  <1>2. n \in UNION {DOMAIN maps[i] : i \in DOMAIN maps} /\ Assigned(maps)[n] = maps[Max(P)][n]
    BY DEF Assigned
  <1>3. P # {} /\ P \subseteq 1..Len(maps)
    BY <1>1, <1>2
  <1>4. Max(P) \in P
    <2> HIDE DEF P
    <2>1. QED BY <1>1, <1>3, GreatestNumber
  <1>5. QED BY <1>1, <1>2, <1>4

\* Names for gadgets of a set.
Within(naming, C) == \A n \in DOMAIN naming : naming[n] \subseteq C

\* Over joins names of gadgets of a set into such names.
LEMMA JoinedWithin ==
  ASSUME NEW C, NEW a, NEW b, Within(a, C), Within(b, C)
  PROVE  Within(Over(a, b), C)
  BY DEF Within, Over

\* One name for gadgets of a set.
LEMMA OneWithin ==
  ASSUME NEW C, NEW n, NEW gs, gs \subseteq C
  PROVE  Within(Only(n, gs), C)
  BY DEF Within, Only

\* No names at all.
LEMMA NoneWithin ==
  ASSUME NEW C
  PROVE  Within(<<>>, C)
  BY DEF Within

\* Assignments one after another of names for gadgets of a set.
LEMMA AssignedWithin ==
  ASSUME NEW C, NEW T, NEW maps \in Seq(T), \A i \in 1..Len(maps) : Within(maps[i], C)
  PROVE  Within(Assigned(maps), C)
  BY AssignedIs DEF Within

\* The names of one state are for its gadgets.
LEMMA SingleNameWithin ==
  ASSUME NEW C, NEW name, NEW r, Images(r) \subseteq C
  PROVE  Within(SingleName(name, r), C)
  <1> DEFINE a == Only(name \o <<"r">>, {r.normal})
             b == Only(name \o <<"s">>, r.mirror)
             c == Only(name, Images(r))
             d == IF r.mirror = {} THEN <<>> ELSE Over(a, b)
  <1>1. {r.normal} \subseteq C /\ r.mirror \subseteq C
    BY DEF Images
  <1>2. Within(a, C) /\ Within(b, C) /\ Within(c, C)
    BY <1>1, OneWithin
  <1>3. SingleName(name, r) = Over(c, d)
    BY DEF SingleName
  <1> HIDE DEF a, b, c
  <1>4. Within(Over(a, b), C)
    BY <1>2, JoinedWithin
  <1>5. Within(d, C)
    BY <1>4, NoneWithin
  <1> HIDE DEF d
  <1>6. QED BY <1>2, <1>3, <1>5, JoinedWithin

\* The names of groups are for gadgets of the states.
LEMMA GroupNamesWithin ==
  ASSUME NEW C, NEW name, NEW morphs \in Seq(Morphs), NEW of, \A r \in ToSet(morphs) : Images(r) \subseteq C
  PROVE  Within(GroupNames(name, morphs, of), C)
  <1> DEFINE places == {k \in 1..Len(morphs) : morphs[k].gadget_state \in DOMAIN of}
             order == Kept(morphs, places)
             named == ToSet(order)
             maps == [k \in 1..Len(order) |-> SingleName(name \o <<of[order[k].gadget_state]>>, order[k])]
             a == Only(name, UNION {Images(r) : r \in named})
             b == IF \E r \in named : r.mirror # {} THEN ChiralGroups(name, named) ELSE <<>>
  <1>1. GroupNames(name, morphs, of) = Over(a, Over(b, Assigned(maps)))
    BY DEF GroupNames
  <1>2. order \in Seq(Morphs) /\ named = {morphs[k] : k \in places}
    <2>1. places \subseteq 1..Len(morphs)
      OBVIOUS
    <2> DEFINE M == Morphs
    <2>2. morphs \in Seq(M)
      OBVIOUS
    <2> HIDE DEF places, M
    <2>3. Kept(morphs, places) \in Seq(M) /\ ToSet(Kept(morphs, places)) = {morphs[k] : k \in places}
      BY <2>1, <2>2, KeptIs
    <2>4. QED BY <2>3 DEF M
  <1>3. \A r \in named : Images(r) \subseteq C /\ r.normal \in C /\ r.mirror \subseteq C
    BY <1>2, ToSetIs DEF Images
  <1>4. Len(order) \in Nat /\ \A k \in 1..Len(order) : order[k] \in named
    <2> DEFINE M == Morphs
    <2>1. order \in Seq(M)
      BY <1>2
    <2> HIDE DEF order, M
    <2>2. ToSet(order) = {order[k] : k \in 1..Len(order)} /\ Len(order) \in Nat
      BY <2>1, ToSetIs
    <2>3. QED BY <2>2
  <1> HIDE DEF order, places, named
  <1>5. Within(Assigned(maps), C)
    <2>1. \A k \in 1..Len(order) : Within(maps[k], C)
      BY <1>3, <1>4, SingleNameWithin
    <2> DEFINE T == {maps[k] : k \in 1..Len(order)}
    <2>2. maps \in [1..Len(order) -> T]
      OBVIOUS
    <2> HIDE DEF maps, T
    <2>3. maps \in Seq(T) /\ Len(maps) = Len(order)
      BY <1>4, <2>2
    <2>4. QED BY <2>1, <2>3, AssignedWithin
  <1> HIDE DEF maps
  <1>6. Within(a, C)
    <2>1. UNION {Images(r) : r \in named} \subseteq C
      BY <1>3
    <2>2. QED BY <2>1, OneWithin
  <1>7. Within(ChiralGroups(name, named), C)
    <2> DEFINE rs == {r.normal : r \in named}
               ss == UNION {IF r.mirror = {} THEN {r.normal} ELSE r.mirror : r \in named}
               x == Only(name \o <<"r">>, rs)
               y == Only(name \o <<"s">>, ss)
    <2>1. rs \subseteq C /\ ss \subseteq C
      BY <1>3
    <2>2. ChiralGroups(name, named) = Over(x, y)
      BY DEF ChiralGroups
    <2> HIDE DEF rs, ss
    <2>3. Within(x, C) /\ Within(y, C)
      BY <2>1, OneWithin
    <2> HIDE DEF x, y
    <2>4. QED BY <2>2, <2>3, JoinedWithin
  <1>8. Within(b, C)
    BY <1>7, NoneWithin
  <1> HIDE DEF a, b
  <1>9. Within(Over(b, Assigned(maps)), C)
    BY <1>5, <1>8, JoinedWithin
  <1>10. QED BY <1>1, <1>6, <1>9, JoinedWithin

\* A definition names gadgets of its morphs.
LEMMA NamesOfWithin ==
  ASSUME NEW C, NEW f \in Files, NEW g \in ToSet(Defs(f)), \A q \in ToSet(g.morphs) : Images(q) \subseteq C
  PROVE  Within(NamesOf(g), C)
  <1>1. g.morphs \in Seq(Morphs) /\ (OneState(g) => FrontMorphs(g) # {})
    BY DefsIs, FilesAssumption
  <1>2. LeftMorphs(g) \in Seq(Morphs) /\ \A r \in ToSet(LeftMorphs(g)) : Images(r) \subseteq C
    BY <1>1, LeftMorphsIs
  <1>3. CASE OneState(g)
    <2> DEFINE r == CHOOSE r \in FrontMorphs(g) : TRUE
    <2>1. r \in FrontMorphs(g)
      BY <1>1, <1>3
    <2>2. FrontMorphs(g) \subseteq ToSet(LeftMorphs(g))
      BY DEF FrontMorphs
    <2>3. NamesOf(g) = SingleName(g.name, r)
      BY <1>3 DEF NamesOf
    <2> HIDE DEF r
    <2>4. QED BY <1>2, <2>1, <2>2, <2>3, SingleNameWithin
  <1>4. CASE ~OneState(g)
    <2>1. NamesOf(g) = GroupNames(g.name, LeftMorphs(g), state_names(g, LeftMorphs(g)))
      BY <1>4 DEF NamesOf
    <2>2. QED BY <1>2, <2>1, GroupNamesWithin
  <1>5. QED BY <1>3, <1>4

\* The definitions of a file name gadgets of the file.
LEMMA DefinedNamesWithin ==
  ASSUME NEW f \in Files
  PROVE  Within(DefinedNames(f), ToSet(canonicals(f)))
  <1> DEFINE ds == Defs(f)
             C == ToSet(canonicals(f))
             maps == [i \in 1..Len(ds) |-> NamesOf(ds[i])]
             T == {maps[i] : i \in 1..Len(ds)}
  <1>1. DefinedNames(f) = Assigned(maps)
    BY DEF DefinedNames
  <1>2. ds \in Seq(ToSet(f.gadgets))
    BY DefsIs
  <1>3. Len(ds) \in Nat /\ \A i \in 1..Len(ds) : ds[i] \in ToSet(ds)
    <2> HIDE DEF ds
    <2>1. QED BY <1>2, ToSetIs
  <1>4. \A i \in 1..Len(ds) : Within(NamesOf(ds[i]), C)
    BY <1>3, CanonicalsIs, NamesOfWithin
  <1> HIDE DEF ds, C
  <1>5. maps \in [1..Len(ds) -> T] /\ \A i \in 1..Len(ds) : Within(maps[i], C)
    BY <1>4
  <1> HIDE DEF maps, T
  <1>6. maps \in Seq(T) /\ Len(maps) = Len(ds)
    BY <1>3, <1>5
  <1>7. QED BY <1>1, <1>5, <1>6, AssignedWithin DEF C

\* Namings of gadgets of C, with names of Ns.
Namings(Ns, C) == UNION {[D -> SUBSET C] : D \in SUBSET Ns}

\* A name is given to some gadgets.
LEMMA OverIs ==
  ASSUME NEW C, NEW Ns, NEW g \in Namings(Ns, C), NEW n \in Ns, NEW v \in SUBSET C
  PROVE  Over(Only(n, v), g) \in Namings(Ns, C)
  <1>1. PICK D \in SUBSET Ns : g \in [D -> SUBSET C]
    BY DEF Namings
  <1> DEFINE o == Only(n, v)
             E == {n} \cup D
  <1>2. o = [m \in {n} |-> v]
    BY DEF Only
  <1> HIDE DEF o
  <1>3. Over(o, g) = [m \in E |-> IF m \in {n} THEN o[m] ELSE g[m]]
    BY <1>1, <1>2 DEF Over
  <1>4. \A m \in E : (IF m \in {n} THEN o[m] ELSE g[m]) \in SUBSET C
    BY <1>1, <1>2
  <1>5. Over(o, g) \in [E -> SUBSET C] /\ E \in SUBSET Ns
    BY <1>1, <1>3, <1>4
  <1>6. QED BY <1>1, <1>5 DEF o, Namings

\* Names and aliases that are not refused are for gadgets of the files.
LEMMA NamingWithin ==
  ASSUME NEW f \in Files, ~Refused(f)
  PROVE  Within(Naming(f), ToSet(canonicals(f)))
  <1> DEFINE C == ToSet(canonicals(f))
             as == f.aliases
             n == Len(as)
             base == DefinedNames(f)
             Known(k) == DOMAIN base \cup {as[j][1] : j \in 1..(k - 1)}
             Ns == DOMAIN base \cup {as[j][1] : j \in 1..n}
             S == Namings(Ns, C)
             Step(k, g) == Over(Only(as[k][1], g[as[k][2]]), g)
             Body(u, k) == IF k = 0 THEN base ELSE Step(k, u[k - 1])
             F == [p \in Nat \X S |-> IF p[1] \in 1..n /\ as[p[1]][2] \in DOMAIN p[2] THEN Step(p[1], p[2]) ELSE p[2]]
             after == CHOOSE u : u = [k \in 0..n |-> Body(u, k)]
  <1>1. n \in Nat
    BY FilesAssumption
  <1>2. \A k \in 1..n : as[k][2] \in Known(k)
    BY DEF Refused, AliasesRefused
  <1>3. Naming(f) = after[n]
    BY DEF Naming
  <1>4. base \in S
    <2>1. base = [x \in DOMAIN base |-> base[x]]
      BY DEF DefinedNames, Assigned
    <2>2. \A x \in DOMAIN base : base[x] \in SUBSET C
      BY DefinedNamesWithin DEF Within
    <2> HIDE DEF base, C
    <2>3. base \in [DOMAIN base -> SUBSET C]
      BY <2>1, <2>2
    <2>4. QED BY <2>3 DEF Namings
  <1>5. ASSUME NEW k \in 1..n, NEW g \in S, as[k][2] \in DOMAIN g
        PROVE  Step(k, g) \in S /\ DOMAIN Step(k, g) = DOMAIN g \cup {as[k][1]}
    <2> DEFINE a == as[k][1]
               v == g[as[k][2]]
    <2>1. a \in Ns
      OBVIOUS
    <2>2. g \in Namings(Ns, C)
      OBVIOUS
    <2>3. v \in SUBSET C
      <3> HIDE DEF C, Ns
      <3>1. QED BY <1>5, <2>2 DEF Namings
    <2> HIDE DEF C, Ns, a, v
    <2>4. Over(Only(a, v), g) \in Namings(Ns, C)
      BY <2>1, <2>2, <2>3, OverIs
    <2>5. DOMAIN Over(Only(a, v), g) = DOMAIN g \cup {a}
      BY DEF Over, Only
    <2>6. QED BY <2>4, <2>5 DEF a, v
  <1>6. Known(0 + 1) = DOMAIN base /\ \A k \in 1..n : Known(k + 1) = Known(k) \cup {as[k][1]}
    <2>1. Known(0 + 1) = DOMAIN base
      OBVIOUS
    <2>2. ASSUME NEW k \in 1..n PROVE Known(k + 1) = Known(k) \cup {as[k][1]}
      <3>1. 1..((k + 1) - 1) = 1..(k - 1) \cup {k}
        OBVIOUS
      <3> HIDE DEF base
      <3>2. QED BY <3>1
    <2>3. QED BY <2>1, <2>2
  <1> HIDE DEF C, base, Known, Ns, S, Step
  <1>7. F \in [Nat \X S -> S]
    <2>1. ASSUME NEW p \in Nat \X S
          PROVE  (IF p[1] \in 1..n /\ as[p[1]][2] \in DOMAIN p[2] THEN Step(p[1], p[2]) ELSE p[2]) \in S
      <3>1. p[2] \in S
        OBVIOUS
      <3>2. QED BY <1>5, <3>1
    <2>2. QED BY <2>1
  <1>8. PICK h : Recursion(h, S, n, F, base)
    <2> HIDE DEF F, n
    <2>1. QED BY <1>1, <1>4, <1>7, PrefixRecursion
  <1>9. h \in [0..n -> S] /\ h[0] = base /\ \A k \in 1..n : h[k] = F[<<k, h[k - 1]>>]
    <2> HIDE DEF F, n
    <2>1. QED BY <1>8 DEF Recursion
  <1>10. \A k \in 1..n : k - 1 \in 0..n /\ k \in Nat /\ k - 1 \in Nat /\ h[k - 1] \in S /\ (k - 1) + 1 = k
    <2>1. \A k \in 1..n : k - 1 \in 0..n /\ k \in Nat /\ k - 1 \in Nat /\ (k - 1) + 1 = k
      BY <1>1
    <2> HIDE DEF n
    <2>2. QED BY <1>9, <2>1
  <1>11. \A k \in 1..n : as[k][2] \in DOMAIN h[k - 1] => h[k] = Step(k, h[k - 1])
    <2> SUFFICES ASSUME NEW k \in 1..n, as[k][2] \in DOMAIN h[k - 1] PROVE h[k] = Step(k, h[k - 1])
      OBVIOUS
    <2>1. <<k, h[k - 1]>> \in Nat \X S /\ h[k] = F[<<k, h[k - 1]>>]
      BY <1>9, <1>10
    <2>2. QED BY <2>1
  <1> HIDE DEF F
  <1> DEFINE A == {k \in Nat : k \in 0..n => DOMAIN h[k] = Known(k + 1)}
  <1>12. Nat \subseteq A
    <2>1. 0 \in A
      BY <1>6, <1>9
    <2>2. ASSUME NEW k \in Nat, k \in A PROVE k + 1 \in A
      <3> SUFFICES ASSUME k + 1 \in 0..n PROVE DOMAIN h[k + 1] = Known((k + 1) + 1)
        OBVIOUS
      <3>1. k + 1 \in 1..n /\ k \in 0..n /\ (k + 1) - 1 = k
        BY <1>1
      <3>2. DOMAIN h[k] = Known(k + 1) /\ as[k + 1][2] \in Known(k + 1)
        BY <1>2, <2>2, <3>1
      <3>3. h[k + 1] = Step(k + 1, h[k]) /\ h[k] \in S
        BY <1>10, <1>11, <3>1, <3>2
      <3>4. DOMAIN Step(k + 1, h[k]) = DOMAIN h[k] \cup {as[k + 1][1]}
        BY <1>5, <3>1, <3>2, <3>3
      <3>5. QED BY <1>6, <3>1, <3>2, <3>3, <3>4
    <2> HIDE DEF A
    <2>3. QED BY <2>1, <2>2, InductionOnNumbers
  <1>13. \A k \in 1..n : h[k] = Step(k, h[k - 1])
    <2> SUFFICES ASSUME NEW k \in 1..n PROVE h[k] = Step(k, h[k - 1])
      OBVIOUS
    <2>1. k - 1 \in A
      BY <1>10, <1>12
    <2>2. DOMAIN h[k - 1] = Known(k)
      BY <1>10, <2>1
    <2>3. QED BY <1>2, <1>11, <2>2
  <1>14. h = [k \in 0..n |-> Body(h, k)]
    <2>1. \A k \in 0..n : h[k] = Body(h, k)
      <3> SUFFICES ASSUME NEW k \in 0..n PROVE h[k] = Body(h, k)
        OBVIOUS
      <3>1. CASE k = 0
        BY <1>9, <3>1
      <3>2. CASE k # 0
        <4>1. k \in 1..n
          BY <1>1, <3>2
        <4>2. QED BY <1>13, <3>2, <4>1
      <3>3. QED BY <3>1, <3>2
    <2> HIDE DEF Body
    <2>2. QED BY <1>9, <2>1
  <1>15. after = [k \in 0..n |-> Body(after, k)]
    <2> HIDE DEF Body
    <2>1. QED BY <1>14
  <1>16. \A k \in 0..n : after[k] = Body(after, k)
    <2> HIDE DEF after, Body
    <2>1. QED BY <1>15
  <1> HIDE DEF after
  <1> DEFINE B == {k \in Nat : k \in 0..n => after[k] = h[k]}
  <1>17. Nat \subseteq B
    <2>1. 0 \in B
      BY <1>9, <1>16
    <2>2. ASSUME NEW k \in Nat, k \in B PROVE k + 1 \in B
      <3> SUFFICES ASSUME k + 1 \in 0..n PROVE after[k + 1] = h[k + 1]
        OBVIOUS
      <3>1. k + 1 \in 1..n /\ k \in 0..n /\ (k + 1) - 1 = k /\ k + 1 # 0
        BY <1>1
      <3>2. after[k] = h[k] /\ after[k + 1] = Body(after, k + 1)
        BY <1>16, <2>2, <3>1
      <3>3. Body(after, k + 1) = Step(k + 1, after[k])
        BY <3>1
      <3>4. QED BY <1>13, <3>1, <3>2, <3>3
    <2> HIDE DEF B
    <2>3. QED BY <2>1, <2>2, InductionOnNumbers
  <1>18. after[n] = h[n] /\ h[n] \in S
    <2>1. n \in 0..n /\ n \in B
      <3>1. n \in 0..n /\ n \in Nat
        BY <1>1
      <3> HIDE DEF B, n
      <3>2. QED BY <1>17, <3>1
    <2>2. QED BY <1>9, <2>1
  <1>19. \A x \in DOMAIN h[n] : h[n][x] \subseteq C
    BY <1>18 DEF S, Namings
  <1>20. QED BY <1>3, <1>18, <1>19 DEF Within, C

-----------------------------------------------------------------------------
(* The gadgets that are stored *)

\* Different gadgets, each with its place as id.
Store(s) == s \in Seq(KnownGadgets) /\ \A i, j \in 1..Len(s) : s[i] = s[j] => i = j
Extends(s, t) == Store(t) /\ Len(s) <= Len(t) /\ \A i \in 1..Len(s) : t[i] = s[i]
Place(s, g) == CHOOSE i \in 1..Len(s) : s[i] = g

\* The ids of a store without repetitions are the places of its gadgets.
LEMMA StoreIs ==
  ASSUME NEW s, Store(s)
  PROVE  /\ Len(s) \in Nat /\ (\A i \in 1..Len(s) : s[i] \in KnownGadgets /\ s[i] \in ToSet(s))
         /\ \A g \in ToSet(s) : g \in KnownGadgets /\ Place(s, g) \in 1..Len(s) /\ s[Place(s, g)] = g
         /\ \A i \in 1..Len(s) : Place(s, s[i]) = i
  <1>1. s \in Seq(KnownGadgets)
    BY DEF Store
  <1>2. Len(s) \in Nat /\ (\A i \in 1..Len(s) : s[i] \in KnownGadgets) /\ ToSet(s) = {s[i] : i \in 1..Len(s)}
    BY <1>1, ToSetIs
  <1>3. ASSUME NEW g \in ToSet(s) PROVE Place(s, g) \in 1..Len(s) /\ s[Place(s, g)] = g
    <2>1. \E i \in 1..Len(s) : s[i] = g
      BY <1>2
    <2>2. QED BY <2>1 DEF Place
  <1>4. \A i \in 1..Len(s) : s[i] \in ToSet(s)
    BY <1>2
  <1>5. ASSUME NEW i \in 1..Len(s) PROVE Place(s, s[i]) = i
    <2>1. Place(s, s[i]) \in 1..Len(s) /\ s[Place(s, s[i])] = s[i]
      BY <1>3, <1>4
    <2>2. QED BY <2>1 DEF Store
  <1>6. QED BY <1>2, <1>3, <1>4, <1>5

\* Gadgets keep their ids.
LEMMA ExtendsIs ==
  ASSUME NEW s, NEW t, Store(s), Extends(s, t)
  PROVE  /\ 1..Len(s) \subseteq 1..Len(t) /\ ToSet(s) \subseteq ToSet(t)
         /\ \A g \in ToSet(s) : Place(t, g) = Place(s, g)
  <1>1. Len(s) \in Nat /\ Len(t) \in Nat /\ Len(s) <= Len(t) /\ Store(t)
    BY StoreIs DEF Extends
  <1>2. 1..Len(s) \subseteq 1..Len(t)
    BY <1>1
  <1>3. ASSUME NEW g \in ToSet(s) PROVE Place(t, g) = Place(s, g) /\ g \in ToSet(t)
    <2> DEFINE i == Place(s, g)
    <2>1. i \in 1..Len(s) /\ s[i] = g
      BY StoreIs
    <2>2. i \in 1..Len(t) /\ t[i] = g
      BY <1>2, <2>1 DEF Extends
    <2> HIDE DEF i
    <2>3. Place(t, t[i]) = i /\ t[i] \in ToSet(t)
      BY <1>1, <2>2, StoreIs
    <2>4. QED BY <2>2, <2>3 DEF i
  <1>4. QED BY <1>2, <1>3

\* What is stored stays, and what is added is stored then.
LEMMA SelsertedIs ==
  ASSUME Store(stored), NEW gadgets \in Seq(KnownGadgets)
  PROVE  Extends(stored, Selserted(gadgets)) /\ ToSet(gadgets) \subseteq ToSet(Selserted(gadgets))
  <1> DEFINE K == KnownGadgets
             places == {k \in 1..Len(gadgets) :
                          gadgets[k] \notin ToSet(stored) /\ \A j \in 1..(k - 1) : gadgets[j] # gadgets[k]}
             new == Kept(gadgets, places)
             t == stored \o new
  <1>1. Selserted(gadgets) = t
    BY DEF Selserted
  <1>2. Len(stored) \in Nat /\ stored \in Seq(K) /\ gadgets \in Seq(K) /\ Len(gadgets) \in Nat /\ ToSet(gadgets) = {gadgets[k] : k \in 1..Len(gadgets)}
    BY StoreIs, ToSetIs DEF Store
  <1>3. \A k, l \in places : gadgets[k] = gadgets[l] => k = l
    <2> SUFFICES ASSUME NEW k \in places, NEW l \in places, gadgets[k] = gadgets[l], k < l PROVE FALSE
      BY <1>2
    <2>1. k \in 1..(l - 1)
      BY <1>2
    <2>2. QED BY <2>1
  <1>4. places \subseteq 1..Len(gadgets) /\ \A k \in places : gadgets[k] \notin ToSet(stored)
    OBVIOUS
  <1>5. ASSUME NEW g \in ToSet(gadgets), g \notin ToSet(stored) PROVE \E k \in places : g = gadgets[k]
    <2> DEFINE T == {k \in 1..Len(gadgets) : gadgets[k] = g}
    <2>1. T \subseteq Nat /\ T # {}
      BY <1>2
    <2>2. PICK k \in T : \A j \in T : k <= j
      <3> HIDE DEF T
      <3>1. QED BY <2>1, LeastNumber
    <2>3. k \in 1..Len(gadgets) /\ gadgets[k] = g
      OBVIOUS
    <2>4. \A j \in 1..(k - 1) : gadgets[j] # g
      <3> SUFFICES ASSUME NEW j \in 1..(k - 1), gadgets[j] = g PROVE FALSE
        OBVIOUS
      <3>1. j \in 1..Len(gadgets) /\ j < k
        BY <1>2, <2>3
      <3>2. QED BY <2>2, <2>3, <3>1
    <2>5. QED BY <1>5, <2>3, <2>4
  <1> HIDE DEF places
  <1>6. /\ new \in Seq(K) /\ ToSet(new) = {gadgets[k] : k \in places}
        /\ \A i, j \in 1..Len(new) : new[i] = new[j] => i = j
    <2>1. gadgets \in Seq(K) /\ places \subseteq 1..Len(gadgets)
      BY <1>2, <1>4
    <2> HIDE DEF K
    <2>2. /\ Kept(gadgets, places) \in Seq(K) /\ ToSet(Kept(gadgets, places)) = {gadgets[k] : k \in places}
          /\ (\A i, j \in places : gadgets[i] = gadgets[j] => i = j) => Distinct(Kept(gadgets, places))
      BY <2>1, KeptIs
    <2>3. QED BY <1>3, <2>2 DEF Distinct
  <1> HIDE DEF new, K
  <1>7. Len(new) \in Nat /\ ToSet(new) = {new[i] : i \in 1..Len(new)}
    BY <1>6, ToSetIs
  <1>8. /\ t \in Seq(K) /\ Len(t) = Len(stored) + Len(new)
        /\ \A i \in 1..Len(t) : t[i] = IF i <= Len(stored) THEN stored[i] ELSE new[i - Len(stored)]
    BY <1>2, <1>6, ConcatProperties
  <1> HIDE DEF t
  <1>9. ASSUME NEW i \in 1..Len(t), i > Len(stored)
        PROVE  i - Len(stored) \in 1..Len(new) /\ t[i] = new[i - Len(stored)] /\ t[i] \notin ToSet(stored)
    <2>1. i - Len(stored) \in 1..Len(new) /\ ~(i <= Len(stored))
      BY <1>2, <1>7, <1>8, <1>9
    <2>2. t[i] = new[i - Len(stored)]
      BY <1>8, <2>1
    <2>3. t[i] \in ToSet(new)
      BY <1>7, <2>1, <2>2
    <2>4. QED BY <1>4, <1>6, <2>1, <2>2, <2>3
  <1>10. ASSUME NEW i \in 1..Len(t), i <= Len(stored)
         PROVE  i \in 1..Len(stored) /\ t[i] = stored[i] /\ t[i] \in ToSet(stored)
    <2>1. i \in 1..Len(stored)
      BY <1>2, <1>10
    <2>2. QED BY <1>8, <1>10, <2>1, StoreIs
  <1>11. \A i, j \in 1..Len(t) : t[i] = t[j] => i = j
    <2> SUFFICES ASSUME NEW i \in 1..Len(t), NEW j \in 1..Len(t), t[i] = t[j] PROVE i = j
      OBVIOUS
    <2>1. i \in Int /\ j \in Int /\ (i <= Len(stored) \/ i > Len(stored)) /\ (j <= Len(stored) \/ j > Len(stored))
      BY <1>2
    <2>2. CASE i <= Len(stored) /\ j <= Len(stored)
      <3>1. i \in 1..Len(stored) /\ j \in 1..Len(stored) /\ stored[i] = stored[j]
        BY <1>10, <2>2
      <3>2. QED BY <3>1 DEF Store
    <2>3. CASE i > Len(stored) /\ j > Len(stored)
      <3>1. i - Len(stored) = j - Len(stored)
        BY <1>6, <1>9, <2>3
      <3>2. QED BY <1>2, <2>1, <3>1
    <2>4. QED BY <1>9, <1>10, <2>1, <2>2, <2>3
  <1>12. Extends(stored, t)
    <2>1. Len(stored) <= Len(t) /\ 1..Len(stored) \subseteq 1..Len(t)
      BY <1>2, <1>7, <1>8
    <2>2. \A i \in 1..Len(stored) : t[i] = stored[i]
      BY <1>2, <1>8, <2>1
    <2>3. QED BY <1>8, <1>11, <2>1, <2>2 DEF Extends, Store, K
  <1>13. ToSet(gadgets) \subseteq ToSet(t)
    <2> SUFFICES ASSUME NEW g \in ToSet(gadgets), g \notin ToSet(stored) PROVE g \in ToSet(t)
      BY <1>12, ExtendsIs
    <2>1. g \in ToSet(new)
      BY <1>5, <1>6
    <2>2. PICK i \in 1..Len(new) : new[i] = g
      BY <1>7, <2>1
    <2>3. Len(stored) + i \in 1..Len(t) /\ t[Len(stored) + i] = g
      <3>1. Len(stored) + i \in 1..Len(t) /\ ~(Len(stored) + i <= Len(stored)) /\ (Len(stored) + i) - Len(stored) = i
        BY <1>2, <1>7, <1>8
      <3>2. QED BY <1>8, <2>2, <3>1
    <2>4. QED BY <1>8, <2>3, ToSetIs
  <1>14. QED BY <1>1, <1>12, <1>13

-----------------------------------------------------------------------------
(* Closing and mirroring *)

\* The edge of a gadget, or itself.
Follow(es, i) == IF i \in DOMAIN es THEN es[i] ELSE i

\* What an operation has done: an edge for each gadget that it changes.
Done(s, done, es, op) ==
  /\ done \subseteq 1..Len(s) /\ DOMAIN es \subseteq done /\ \A i \in DOMAIN es : es[i] \in 1..Len(s)
  /\ \A i \in done : s[Follow(es, i)] = op[s[i]]
  /\ \A i \in DOMAIN es : op[s[i]] # s[i]

\* The results of some inputs are stored.
Stored(s, inputs, op) == inputs \subseteq 1..Len(s) /\ \A i \in inputs : op[s[i]] \in ToSet(s)

\* Results that are stored stay stored.
LEMMA StoredExtends ==
  ASSUME NEW s, NEW t, Store(s), Extends(s, t), NEW inputs, NEW op, Stored(s, inputs, op)
  PROVE  Stored(t, inputs, op)
  <1>1. 1..Len(s) \subseteq 1..Len(t) /\ ToSet(s) \subseteq ToSet(t) /\ \A i \in 1..Len(s) : t[i] = s[i]
    BY ExtendsIs DEF Extends
  <1>2. QED BY <1>1 DEF Stored

\* What is done stays done when more is stored.
LEMMA DoneExtends ==
  ASSUME NEW s, NEW t, Store(s), Extends(s, t), NEW done, NEW es, NEW op, Done(s, done, es, op)
  PROVE  Done(t, done, es, op)
  <1>1. 1..Len(s) \subseteq 1..Len(t) /\ \A i \in 1..Len(s) : t[i] = s[i]
    BY ExtendsIs DEF Extends
  <1>2. \A i \in done : i \in 1..Len(s) /\ Follow(es, i) \in 1..Len(s)
    BY DEF Done, Follow
  <1>3. QED BY <1>1, <1>2 DEF Done

\* A commit adds what is done; edges that are there stay.
LEMMA DoneCommits ==
  ASSUME Store(stored), NEW op, NEW done, NEW es, Done(stored, done, es, op),
         NEW inputs, Stored(stored, inputs, op)
  PROVE  /\ Done(stored, done \cup inputs, Over(es, EdgesOf(inputs, op)), op)
         /\ DOMAIN Over(es, EdgesOf(inputs, op)) = DOMAIN es \cup Changed(inputs, op)
         /\ \A i \in DOMAIN es : Over(es, EdgesOf(inputs, op))[i] = es[i]
         /\ \A i \in Changed(inputs, op) \ DOMAIN es : Over(es, EdgesOf(inputs, op))[i] = IdOf(op[stored[i]])
         /\ Changed(inputs, op) \cap done \subseteq DOMAIN es
  <1> DEFINE c == Changed(inputs, op)
             new == EdgesOf(inputs, op)
             o == Over(es, new)
  <1>1. c \subseteq inputs /\ (\A i \in inputs : i \in c <=> op[stored[i]] # stored[i])
    BY DEF Changed
  <1>2. DOMAIN new = c /\ \A i \in c : new[i] = IdOf(op[stored[i]])
    BY DEF EdgesOf
  <1>3. DOMAIN o = DOMAIN es \cup c /\ \A i \in DOMAIN o : o[i] = IF i \in DOMAIN es THEN es[i] ELSE new[i]
    <2> HIDE DEF new, c
    <2>1. QED BY <1>2 DEF Over
  <1> HIDE DEF c, new, o
  <1>4. /\ inputs \subseteq 1..Len(stored) /\ \A i \in inputs : op[stored[i]] \in ToSet(stored)
        /\ done \subseteq 1..Len(stored) /\ DOMAIN es \subseteq done /\ \A i \in DOMAIN es : es[i] \in 1..Len(stored)
        /\ \A i \in done : stored[Follow(es, i)] = op[stored[i]]
        /\ \A i \in DOMAIN es : op[stored[i]] # stored[i]
    BY DEF Done, Stored
  <1>5. \A i \in c \ DOMAIN es : o[i] = IdOf(op[stored[i]]) /\ o[i] \in 1..Len(stored) /\ stored[o[i]] = op[stored[i]]
    <2> SUFFICES ASSUME NEW i \in c \ DOMAIN es
                 PROVE  o[i] = IdOf(op[stored[i]]) /\ o[i] \in 1..Len(stored) /\ stored[o[i]] = op[stored[i]]
      OBVIOUS
    <2>1. o[i] = IdOf(op[stored[i]]) /\ op[stored[i]] \in ToSet(stored)
      BY <1>1, <1>2, <1>3, <1>4
    <2>2. IdOf(op[stored[i]]) = Place(stored, op[stored[i]])
      BY DEF IdOf, Place
    <2>3. QED BY <2>1, <2>2, StoreIs
  <1>6. \A i \in DOMAIN es : o[i] = es[i]
    BY <1>3
  <1>7. c \cap done \subseteq DOMAIN es
    BY <1>1, <1>4 DEF Follow
  <1>8. \A i \in done \cup inputs : stored[Follow(o, i)] = op[stored[i]]
    <2> SUFFICES ASSUME NEW i \in done \cup inputs PROVE stored[Follow(o, i)] = op[stored[i]]
      OBVIOUS
    <2>1. CASE i \in done
      <3>1. Follow(o, i) = Follow(es, i)
        BY <1>3, <1>6, <1>7, <2>1 DEF Follow
      <3>2. QED BY <1>4, <2>1, <3>1
    <2>2. CASE i \in c \ done
      <3>1. i \in c \ DOMAIN es
        BY <1>4, <2>2
      <3>2. QED BY <1>3, <1>5, <3>1 DEF Follow
    <2>3. CASE i \in inputs \ (c \cup done)
      <3>1. Follow(o, i) = i /\ op[stored[i]] = stored[i]
        BY <1>1, <1>3, <1>4, <2>3 DEF Follow
      <3>2. QED BY <3>1
    <2>4. QED BY <2>1, <2>2, <2>3
  <1>9. Done(stored, done \cup inputs, o, op)
    <2>1. DOMAIN o \subseteq done \cup inputs /\ done \cup inputs \subseteq 1..Len(stored)
      BY <1>1, <1>3, <1>4
    <2>2. \A i \in DOMAIN o : o[i] \in 1..Len(stored) /\ op[stored[i]] # stored[i]
      BY <1>1, <1>3, <1>4, <1>5, <1>6
    <2>3. QED BY <1>8, <2>1, <2>2 DEF Done
  <1>10. QED BY <1>3, <1>5, <1>6, <1>7, <1>9 DEF o, new, c

\* Whoever does an operation again comes to the same edges.
LEMMA DoneAgrees ==
  ASSUME Store(stored), NEW op, NEW done, NEW es, Done(stored, done, es, op),
         NEW inputs, Stored(stored, inputs, op)
  PROVE  Agree(EdgesOf(inputs, op), es)
  <1> DEFINE new == EdgesOf(inputs, op)
  <1>1. DOMAIN new = Changed(inputs, op) /\ \A i \in DOMAIN new : new[i] = IdOf(op[stored[i]])
    BY DEF EdgesOf
  <1> HIDE DEF new
  <1>2. ASSUME NEW i \in DOMAIN new \cap DOMAIN es PROVE new[i] = es[i]
    <2>1. es[i] \in 1..Len(stored) /\ stored[es[i]] = op[stored[i]]
      BY DEF Done, Follow
    <2>2. Place(stored, stored[es[i]]) = es[i]
      BY <2>1, StoreIs
    <2>3. QED BY <1>1, <2>1, <2>2 DEF IdOf, Place
  <1>3. QED BY <1>2 DEF Agree, new

\* The outputs of an operation are known gadgets in order.
LEMMA OutputsOfIs ==
  ASSUME Store(stored), NEW op \in [KnownGadgets -> KnownGadgets], NEW inputs, inputs \subseteq 1..Len(stored)
  PROVE  /\ OutputsOf(inputs, op) \in Seq(KnownGadgets)
         /\ ToSet(OutputsOf(inputs, op)) = {op[stored[i]] : i \in Changed(inputs, op)}
  <1> DEFINE c == Changed(inputs, op)
             outputs == {op[stored[i]] : i \in c}
             f == [i \in c |-> op[stored[i]]]
  <1>1. Len(stored) \in Nat /\ c \subseteq 1..Len(stored) /\ \A i \in c : op[stored[i]] \in KnownGadgets
    BY StoreIs DEF Changed
  <1>2. IsFiniteSet(c)
    <2>1. IsFiniteSet(1..Len(stored))
      BY <1>1, FS_Interval
    <2>2. QED BY <1>1, <2>1, FS_Subset
  <1> HIDE DEF c
  <1>3. f \in Surjection(c, outputs)
    BY DEF Surjection
  <1>4. IsFiniteSet(outputs)
    <2> HIDE DEF f, outputs
    <2>1. QED BY <1>2, <1>3, FS_Surjection
  <1>5. outputs \subseteq KnownGadgets /\ outputs \subseteq Int
    BY <1>1, OperationsAssumption
  <1>6. OutputsOf(inputs, op) = Ascending(outputs)
    BY DEF OutputsOf, c
  <1> HIDE DEF outputs
  <1>7. Ascending(outputs) \in Seq(outputs) /\ ToSet(Ascending(outputs)) = outputs
    BY <1>4, <1>5, AscendingIs
  <1>8. Ascending(outputs) \in Seq(KnownGadgets)
    BY <1>5, <1>7, SeqMonotonic
  <1>9. QED BY <1>6, <1>7, <1>8 DEF outputs, c

\* Once its outputs are stored, the results of an operation are.
LEMMA ResultsStored ==
  ASSUME Store(stored), NEW op \in [KnownGadgets -> KnownGadgets], NEW inputs, inputs \subseteq 1..Len(stored)
  PROVE  /\ Extends(stored, Selserted(OutputsOf(inputs, op)))
         /\ Stored(Selserted(OutputsOf(inputs, op)), inputs, op)
  <1> DEFINE outputs == OutputsOf(inputs, op)
             t == Selserted(outputs)
  <1>1. outputs \in Seq(KnownGadgets) /\ ToSet(outputs) = {op[stored[i]] : i \in Changed(inputs, op)}
    BY OutputsOfIs
  <1> HIDE DEF outputs
  <1>2. Extends(stored, t) /\ ToSet(outputs) \subseteq ToSet(t)
    BY <1>1, SelsertedIs
  <1> HIDE DEF t
  <1>3. 1..Len(stored) \subseteq 1..Len(t) /\ ToSet(stored) \subseteq ToSet(t)
    BY <1>2, ExtendsIs
  <1>4. ASSUME NEW i \in inputs PROVE op[t[i]] \in ToSet(t)
    <2>1. t[i] = stored[i] /\ stored[i] \in ToSet(stored)
      BY <1>2, StoreIs DEF Extends
    <2>2. CASE op[stored[i]] = stored[i]
      BY <1>3, <2>1, <2>2
    <2>3. CASE op[stored[i]] # stored[i]
      <3>1. i \in Changed(inputs, op)
        BY <2>3 DEF Changed
      <3>2. QED BY <1>1, <1>2, <2>1, <3>1
    <2>4. QED BY <2>2, <2>3
  <1>5. QED BY <1>2, <1>3, <1>4 DEF Stored, t, outputs

-----------------------------------------------------------------------------
(* What sync keeps at its places *)

\* Where the gadgets of the files are stored, closed, and mirrored.
WhenMirrored == {"done"}
WhenMirroring == {"store_mirror", "commit_mirror"}
WhenClosed == {"follow", "mirror"} \cup WhenMirroring \cup WhenMirrored
WhenClosing == {"store_close", "commit_close"}
WhenRegistered == {"names", "close"} \cup WhenClosing \cup WhenClosed
ToMirror == Named \cup Followed(Named)

\* What sync has read before its next step covers, with what was recorded
\* since, all that the reporter needs.
PlaceInv ==
  /\ pc \in {"read", "create", "selsert"} \cup WhenRegistered
  /\ file \in Files /\ (pc # "read" => file \in Accepted)
  /\ pc \in WhenRegistered => ToSet(canonicals(file)) \subseteq ToSet(stored)
  /\ needs \subseteq 1..Len(stored)
  /\ pc \in WhenClosing => Named \subseteq closed \cup needs
  /\ pc = "commit_close" => Stored(stored, needs, CloseOf)
  /\ pc \in WhenClosed => Named \subseteq closed
  /\ pc = "mirror" => ToMirror \subseteq needs
  /\ pc \in WhenMirroring => ToMirror \subseteq mirrored \cup needs
  /\ pc = "commit_mirror" => Stored(stored, needs, MirrorOf)
  /\ pc \in WhenMirrored => ToMirror \subseteq mirrored

\* What was closed and mirrored by all runs so far; the results of closing are
\* themselves recorded as closed.
OperationsInv ==
  /\ Done(stored, closed, closeEdges, CloseOf) /\ Done(stored, mirrored, mirrorEdges, MirrorOf)
  /\ \A i \in DOMAIN closeEdges : closeEdges[i] \in closed

NamesInv == \A n \in DOMAIN names : names[n] \subseteq 1..Len(stored)

SyncInv ==
  /\ Store(stored) /\ PlaceInv /\ OperationsInv /\ NamesInv /\ NamesOfOneRun
  /\ predicates \in {"absent", "initial", "filled"}

\* The ids of the gadgets of the files.
LEMMA NamedIs ==
  ASSUME Store(stored), ToSet(canonicals(file)) \subseteq ToSet(stored)
  PROVE  /\ Named = {Place(stored, g) : g \in ToSet(canonicals(file))} /\ Named \subseteq 1..Len(stored)
  <1>1. Named = {Place(stored, g) : g \in ToSet(canonicals(file))}
    BY DEF Named, IdOf, Place
  <1>2. QED BY <1>1, StoreIs

\* They stay when more is stored.
LEMMA NamedStays ==
  ASSUME Store(stored), Extends(stored, stored'), ToSet(canonicals(file)) \subseteq ToSet(stored), file' = file
  PROVE  Named' = Named /\ ToSet(canonicals(file')) \subseteq ToSet(stored')
  <1>1. Named = {Place(stored, g) : g \in ToSet(canonicals(file))}
    BY NamedIs
  <1>2. Named' = {Place(stored', g) : g \in ToSet(canonicals(file))}
    BY DEF Named, IdOf, Place
  <1>3. ToSet(stored) \subseteq ToSet(stored') /\ \A g \in ToSet(stored) : Place(stored', g) = Place(stored, g)
    BY ExtendsIs
  <1>4. QED BY <1>1, <1>2, <1>3

\* The invariant says what the properties say.
LEMMA InvImplies ==
  ASSUME SyncInv
  PROVE  SyncTypeOK /\ NamesOfOneRun /\ ReporterReady /\ ClosingEnds /\ DuplicatesAgree
  <1>1. Store(stored) /\ PlaceInv /\ OperationsInv /\ NamesInv /\ NamesOfOneRun
    BY DEF SyncInv
  <1>2. /\ Done(stored, closed, closeEdges, CloseOf) /\ Done(stored, mirrored, mirrorEdges, MirrorOf)
        /\ \A i \in DOMAIN closeEdges : closeEdges[i] \in closed
    BY <1>1 DEF OperationsInv
  <1>3. SyncTypeOK
    <2>1. ToSet(stored) \subseteq DOMAIN CloseOf
      BY <1>1, StoreIs DEF KnownGadgets
    <2>2. Len(stored) = Cardinality(ToSet(stored))
      <3>1. Len(stored) \in Nat /\ stored \in Seq(KnownGadgets)
        BY <1>1, StoreIs DEF Store
      <3>2. stored \in Surjection(1..Len(stored), ToSet(stored)) /\ stored \in Injection(1..Len(stored), ToSet(stored))
        <4>1. stored \in [1..Len(stored) -> ToSet(stored)] /\ \A g \in ToSet(stored) : \E i \in 1..Len(stored) : stored[i] = g
          BY <3>1 DEF ToSet
        <4>2. QED BY <1>1, <4>1 DEF Store, Surjection, Injection, IsInjective
      <3>3. IsFiniteSet(1..Len(stored)) /\ Cardinality(1..Len(stored)) = Len(stored)
        BY <3>1, FS_Interval
      <3>4. Cardinality(ToSet(stored)) = Cardinality(1..Len(stored))
        BY <3>2, <3>3, FS_Surjection
      <3>5. QED BY <3>3, <3>4
    <2>3. closed \cup mirrored \subseteq 1..Len(stored)
      BY <1>2 DEF Done
    <2>4. QED BY <1>1, <2>1, <2>2, <2>3 DEF SyncTypeOK, SyncInv, NamesInv
  <1>4. ReporterReady
    <2> SUFFICES ASSUME pc = "done", NEW i \in Named, NEW c, c = Follow(closeEdges, i)
                 PROVE  /\ i \in closed /\ stored[c] = CloseOf[stored[i]]
                        /\ \A k \in {i, c} : k \in mirrored /\ stored[Follow(mirrorEdges, k)] = MirrorOf[stored[k]]
      BY DEF ReporterReady, Follow
    <2>1. Named \subseteq closed /\ Named \cup Followed(Named) \subseteq mirrored
      BY <1>1 DEF PlaceInv, WhenClosed, WhenMirrored, ToMirror
    <2>2. i \in closed /\ stored[c] = CloseOf[stored[i]]
      BY <1>2, <2>1 DEF Done
    <2>3. c \in mirrored /\ i \in mirrored
      <3>1. CASE i \in DOMAIN closeEdges
        BY <2>1, <3>1 DEF Follow, Followed
      <3>2. CASE i \notin DOMAIN closeEdges
        BY <2>1, <3>2 DEF Follow
      <3>3. QED BY <3>1, <3>2
    <2>4. QED BY <1>2, <2>2, <2>3 DEF Done
  <1>5. ClosingEnds
    <2>1. ASSUME NEW i \in DOMAIN closeEdges PROVE closeEdges[i] \in closed \ DOMAIN closeEdges
      <3> DEFINE k == closeEdges[i]
      <3>1. i \in closed /\ i \in 1..Len(stored) /\ k \in closed /\ k \in 1..Len(stored) /\ Follow(closeEdges, i) = k
        BY <1>2 DEF Done, Follow
      <3>2. stored[k] = CloseOf[stored[i]] /\ stored[i] \in KnownGadgets
        BY <1>1, <1>2, <3>1, StoreIs DEF Done
      <3>3. CloseOf[stored[k]] = stored[k]
        BY <3>2, OperationsAssumption
      <3>4. k \notin DOMAIN closeEdges
        BY <1>2, <3>3 DEF Done
      <3>5. QED BY <3>1, <3>4
    <2>2. ASSUME NEW k \in closed \ DOMAIN closeEdges PROVE CloseOf[stored[k]] = stored[k]
      <3>1. Follow(closeEdges, k) = k
        BY DEF Follow
      <3>2. QED BY <1>2, <3>1 DEF Done
    <2>3. QED BY <2>1, <2>2 DEF ClosingEnds
  <1>6. DuplicatesAgree
    <2>1. ASSUME pc = "commit_close" PROVE Agree(EdgesOf(needs, CloseOf), closeEdges)
      <3>1. Stored(stored, needs, CloseOf)
        BY <1>1, <2>1 DEF PlaceInv
      <3>2. QED BY <1>1, <1>2, <3>1, DoneAgrees
    <2>2. ASSUME pc = "commit_mirror" PROVE Agree(EdgesOf(needs, MirrorOf), mirrorEdges)
      <3>1. Stored(stored, needs, MirrorOf)
        BY <1>1, <2>2 DEF PlaceInv
      <3>2. QED BY <1>1, <1>2, <3>1, DoneAgrees
    <2>3. QED BY <2>1, <2>2 DEF DuplicatesAgree
  <1>7. QED BY <1>1, <1>3, <1>4, <1>5, <1>6

\* All but the place, and what it says, stays when more is stored.
StoredInv == Store(stored) /\ OperationsInv /\ NamesInv /\ NamesOfOneRun /\ predicates \in {"absent", "initial", "filled"}

LEMMA StoredGrows ==
  ASSUME SyncInv, Extends(stored, stored'), predicates' \in {"absent", "initial", "filled"},
         UNCHANGED <<names, closed, mirrored, closeEdges, mirrorEdges>>
  PROVE  StoredInv'
  <1>1. Store(stored) /\ OperationsInv /\ NamesInv /\ NamesOfOneRun
    BY DEF SyncInv
  <1>2. 1..Len(stored) \subseteq 1..Len(stored') /\ \A i \in 1..Len(stored) : stored'[i] = stored[i]
    BY <1>1, ExtendsIs DEF Extends
  <1>3. OperationsInv'
    <2>1. Done(stored', closed, closeEdges, CloseOf)
      BY <1>1, DoneExtends DEF OperationsInv
    <2>2. Done(stored', mirrored, mirrorEdges, MirrorOf)
      BY <1>1, DoneExtends DEF OperationsInv
    <2>3. QED BY <1>1, <2>1, <2>2 DEF OperationsInv
  <1>4. NamesInv'
    BY <1>1, <1>2 DEF NamesInv
  <1>5. NamesOfOneRun'
    <2>1. CASE names = <<>>
      BY <2>1 DEF NamesOfOneRun
    <2>2. CASE names # <<>>
      <3>1. PICK f \in Accepted : /\ DOMAIN names = DOMAIN NamingOf[f]
                                 /\ \A n \in DOMAIN names : {stored[i] : i \in names[n]} = NamingOf[f][n]
        BY <1>1, <2>2 DEF NamesOfOneRun
      <3>2. \A n \in DOMAIN names : {stored'[i] : i \in names[n]} = {stored[i] : i \in names[n]}
        BY <1>1, <1>2 DEF NamesInv
      <3>3. \A n \in DOMAIN names' : {stored'[i] : i \in names'[n]} = NamingOf[f][n]
        BY <3>1, <3>2
      <3>4. QED BY <3>1, <3>3 DEF NamesOfOneRun
    <2>3. QED BY <2>1, <2>2
  <1>6. QED BY <1>3, <1>4, <1>5 DEF StoredInv, Extends

\* Nothing more needs to be stored for that.
LEMMA ExtendsItself ==
  ASSUME Store(stored)
  PROVE  Extends(stored, stored)
  BY StoreIs DEF Extends

\* What is known of the store stays when nothing is stored.
LEMMA SameStored ==
  ASSUME SyncInv, predicates' \in {"absent", "initial", "filled"},
         UNCHANGED <<stored, names, closed, mirrored, closeEdges, mirrorEdges>>
  PROVE  StoredInv'
  <1>1. Extends(stored, stored')
    BY ExtendsItself DEF SyncInv
  <1>2. QED BY <1>1, StoredGrows

\* Edges and completions are recorded for results that are stored; outputs of
\* closing count as closed, and what was closed has no edge that it had not.
LEMMA CommitCloses ==
  ASSUME Store(stored), OperationsInv, NEW inputs, Stored(stored, inputs, CloseOf), commit_close(inputs),
         UNCHANGED <<stored, mirrored, mirrorEdges>>
  PROVE  /\ OperationsInv' /\ closed \cup inputs \subseteq closed'
         /\ \A i \in closed : i \in DOMAIN closeEdges' <=> i \in DOMAIN closeEdges
         /\ \A i \in DOMAIN closeEdges : closeEdges'[i] = closeEdges[i]
  <1> DEFINE changed == Changed(inputs, CloseOf)
  <1>1. /\ Done(stored, closed, closeEdges, CloseOf) /\ Done(stored, mirrored, mirrorEdges, MirrorOf)
        /\ \A i \in DOMAIN closeEdges : closeEdges[i] \in closed
    BY DEF OperationsInv
  <1>2. closeEdges' = Over(closeEdges, EdgesOf(inputs, CloseOf)) /\ closed' = closed \cup inputs \cup Idempotent(inputs)
    BY DEF commit_close
  <1>3. /\ Done(stored, closed \cup inputs, closeEdges', CloseOf)
        /\ DOMAIN closeEdges' = DOMAIN closeEdges \cup changed
        /\ \A i \in DOMAIN closeEdges : closeEdges'[i] = closeEdges[i]
        /\ \A i \in changed \ DOMAIN closeEdges : closeEdges'[i] = IdOf(CloseOf[stored[i]])
        /\ changed \cap closed \subseteq DOMAIN closeEdges
    <2> DEFINE o == Over(closeEdges, EdgesOf(inputs, CloseOf))
    <2>1. /\ Done(stored, closed \cup inputs, o, CloseOf)
          /\ DOMAIN o = DOMAIN closeEdges \cup changed
          /\ \A i \in DOMAIN closeEdges : o[i] = closeEdges[i]
          /\ \A i \in changed \ DOMAIN closeEdges : o[i] = IdOf(CloseOf[stored[i]])
          /\ changed \cap closed \subseteq DOMAIN closeEdges
      BY <1>1, DoneCommits
    <2>2. closeEdges' = o
      BY <1>2
    <2> HIDE DEF o, changed
    <2>3. QED BY <2>1, <2>2
  <1>4. ToSet(OutputsOf(inputs, CloseOf)) = {CloseOf[stored[i]] : i \in changed}
    BY OutputsOfIs, OperationsAssumption DEF Stored
  <1>5. Idempotent(inputs) = {IdOf(CloseOf[stored[i]]) : i \in changed}
    BY <1>4 DEF Idempotent
  <1>6. ASSUME NEW k \in Idempotent(inputs)
        PROVE  k \in 1..Len(stored) /\ stored[Follow(closeEdges', k)] = CloseOf[stored[k]]
    <2>1. PICK i \in changed : k = IdOf(CloseOf[stored[i]])
      BY <1>5
    <2>2. i \in 1..Len(stored) /\ CloseOf[stored[i]] \in ToSet(stored)
      BY DEF Stored, Changed
    <2>3. k \in 1..Len(stored) /\ stored[k] = CloseOf[stored[i]] /\ stored[i] \in KnownGadgets
      <3>1. k = Place(stored, CloseOf[stored[i]])
        BY <2>1 DEF IdOf, Place
      <3>2. QED BY <2>2, <3>1, StoreIs
    <2>4. CloseOf[stored[k]] = stored[k]
      BY <2>3, OperationsAssumption
    <2>5. k \notin DOMAIN closeEdges'
      BY <1>3, <2>4 DEF Done
    <2>6. QED BY <2>3, <2>4, <2>5 DEF Follow
  <1>7. Done(stored, closed', closeEdges', CloseOf)
    BY <1>2, <1>3, <1>6 DEF Done
  <1>8. \A i \in DOMAIN closeEdges' : closeEdges'[i] \in closed'
    BY <1>1, <1>2, <1>3, <1>5
  <1>9. OperationsInv'
    BY <1>1, <1>7, <1>8 DEF OperationsInv
  <1>10. QED BY <1>1, <1>2, <1>3, <1>9

LEMMA CommitMirrors ==
  ASSUME Store(stored), OperationsInv, NEW inputs, Stored(stored, inputs, MirrorOf), commit_mirror(inputs),
         UNCHANGED <<stored, closed, closeEdges>>
  PROVE  OperationsInv' /\ mirrored' = mirrored \cup inputs
  <1>1. Done(stored, mirrored', mirrorEdges', MirrorOf) /\ mirrored' = mirrored \cup inputs
    BY DoneCommits DEF OperationsInv, commit_mirror
  <1>2. QED BY <1>1 DEF OperationsInv

\* What is to be mirrored stays once everything that sync names is closed.
LEMMA ToMirrorStays ==
  ASSUME Named' = Named, Named \subseteq closed,
         \A i \in closed : i \in DOMAIN closeEdges' <=> i \in DOMAIN closeEdges,
         \A i \in DOMAIN closeEdges : closeEdges'[i] = closeEdges[i]
  PROVE  ToMirror' = ToMirror
  BY DEF ToMirror, Followed

\* Others may store, close and mirror at any time: sync's place still tells
\* what it told.
LEMMA PlaceKept ==
  ASSUME Store(stored), PlaceInv, Extends(stored, stored'), closed \subseteq closed', mirrored \subseteq mirrored',
         \A i \in closed : i \in DOMAIN closeEdges' <=> i \in DOMAIN closeEdges,
         \A i \in DOMAIN closeEdges : closeEdges'[i] = closeEdges[i],
         UNCHANGED <<pc, file, needs>>
  PROVE  PlaceInv'
  <1>1. /\ pc \in {"read", "create", "selsert"} \cup WhenRegistered
        /\ file \in Files /\ (pc # "read" => file \in Accepted)
        /\ pc \in WhenRegistered => ToSet(canonicals(file)) \subseteq ToSet(stored)
        /\ needs \subseteq 1..Len(stored)
    BY DEF PlaceInv
  <1>2. needs' \subseteq 1..Len(stored')
    BY <1>1, ExtendsIs
  <1>3. pc = "commit_close" => Stored(stored', needs, CloseOf)
    BY StoredExtends DEF PlaceInv
  <1>4. pc = "commit_mirror" => Stored(stored', needs, MirrorOf)
    BY StoredExtends DEF PlaceInv
  <1>5. ASSUME pc \in WhenRegistered PROVE Named' = Named /\ ToSet(canonicals(file')) \subseteq ToSet(stored')
    BY <1>1, <1>5, NamedStays
  <1>6. ASSUME pc \in WhenClosed PROVE ToMirror' = ToMirror /\ Named \subseteq closed
    <2>1. Named' = Named /\ Named \subseteq closed
      BY <1>5, <1>6 DEF PlaceInv, WhenRegistered
    <2>2. QED BY <2>1, ToMirrorStays
  <1>7. pc' \in WhenRegistered => ToSet(canonicals(file')) \subseteq ToSet(stored')
    BY <1>5
  <1>8. pc' \in WhenClosing => Named' \subseteq closed' \cup needs'
    BY <1>5 DEF PlaceInv, WhenRegistered
  <1>9. pc' \in WhenClosed => Named' \subseteq closed'
    BY <1>5, <1>6 DEF WhenRegistered
  <1>10. /\ pc' = "mirror" => ToMirror' \subseteq needs'
         /\ pc' \in WhenMirroring => ToMirror' \subseteq mirrored' \cup needs'
         /\ pc' \in WhenMirrored => ToMirror' \subseteq mirrored'
    BY <1>6 DEF PlaceInv, WhenClosed
  <1>11. QED BY <1>1, <1>2, <1>3, <1>4, <1>7, <1>8, <1>9, <1>10 DEF PlaceInv

\* A step of sync that touches nothing in the database but the predicates.
LEMMA QuietStep ==
  ASSUME SyncInv, PlaceInv', predicates' \in {"absent", "initial", "filled"},
         UNCHANGED <<stored, names, closed, mirrored, closeEdges, mirrorEdges>>
  PROVE  SyncInv'
  <1>1. StoredInv'
    BY SameStored
  <1>2. QED BY <1>1 DEF SyncInv, StoredInv

\* Reading a file changes no database.
LEMMA ReadStep ==
  ASSUME SyncInv, Read
  PROVE  SyncInv'
  <1>1. PICK f \in Files : file' = f /\ pc' = IF f \in Accepted THEN "create" ELSE "read"
    BY DEF Read
  <1>2. needs' = {} /\ UNCHANGED <<stored, names, predicates, closed, mirrored, closeEdges, mirrorEdges>>
    BY DEF Read, operations
  <1>3. PlaceInv'
    BY <1>1, <1>2 DEF PlaceInv, WhenRegistered, WhenClosing, WhenClosed, WhenMirroring, WhenMirrored
  <1>4. QED BY <1>2, <1>3, QuietStep DEF SyncInv

\* What is there is not created again: the id and the predicates are kept.
LEMMA CreateStep ==
  ASSUME SyncInv, CreateDatabases
  PROVE  SyncInv'
  <1>1. /\ pc = "create" /\ pc' = "selsert" /\ predicates' \in {"absent", "initial", "filled"}
        /\ UNCHANGED <<file, needs, stored, names, closed, mirrored, closeEdges, mirrorEdges>>
    BY DEF CreateDatabases, operations, SyncInv
  <1>2. PlaceInv'
    BY <1>1 DEF SyncInv, PlaceInv, WhenRegistered, WhenClosing, WhenClosed, WhenMirroring, WhenMirrored
  <1>3. QED BY <1>1, <1>2, QuietStep

\* Registering the gadgets of the files only adds to the store.
LEMMA SelsertStep ==
  ASSUME SyncInv, SelsertGadgets
  PROVE  SyncInv'
  <1>1. Store(stored) /\ PlaceInv /\ file \in Files /\ file \in Accepted /\ needs \subseteq 1..Len(stored)
    BY DEF SyncInv, PlaceInv, SelsertGadgets
  <1>2. /\ pc' = "names" /\ stored' = Selserted(canonicals(file))
        /\ UNCHANGED <<file, needs, names, predicates, closed, mirrored, closeEdges, mirrorEdges>>
    BY DEF SelsertGadgets, operations
  <1>3. canonicals(file) \in Seq(KnownGadgets)
    BY <1>1, CanonicalsIs
  <1>4. Extends(stored, stored') /\ ToSet(canonicals(file)) \subseteq ToSet(stored')
    BY <1>1, <1>2, <1>3, SelsertedIs
  <1>5. StoredInv'
    BY <1>2, <1>4, StoredGrows DEF SyncInv
  <1>6. needs' \subseteq 1..Len(stored')
    BY <1>1, <1>2, <1>4, ExtendsIs
  <1>7. PlaceInv'
    BY <1>1, <1>2, <1>4, <1>6 DEF PlaceInv, WhenRegistered, WhenClosing, WhenClosed, WhenMirroring, WhenMirrored
  <1>8. QED BY <1>5, <1>7 DEF SyncInv, StoredInv

\* All names are replaced in one transaction by those of this run.
LEMMA NamesStep ==
  ASSUME SyncInv, WriteNames
  PROVE  SyncInv'
  <1>1. /\ Store(stored) /\ PlaceInv /\ file \in Accepted /\ needs \subseteq 1..Len(stored)
        /\ ToSet(canonicals(file)) \subseteq ToSet(stored)
    BY DEF SyncInv, PlaceInv, WriteNames, WhenRegistered
  <1>2. file \in Files /\ ~Refused(file) /\ NamingOf[file] = Naming(file)
    BY <1>1 DEF Accepted, NamingOf
  <1>3. /\ pc' = "close" /\ stored' = stored /\ file' = file /\ needs' = needs
        /\ names' = [n \in DOMAIN NamingOf[file] |-> {IdOf(g) : g \in NamingOf[file][n]}]
        /\ UNCHANGED <<predicates, closed, mirrored, closeEdges, mirrorEdges>>
    BY DEF WriteNames, Replaced, operations
  <1>4. \A n \in DOMAIN NamingOf[file] : NamingOf[file][n] \subseteq ToSet(stored)
    BY <1>1, <1>2, NamingWithin DEF Within
  <1>5. \A g \in ToSet(stored) : IdOf(g) \in 1..Len(stored) /\ stored[IdOf(g)] = g
    BY <1>1, StoreIs DEF IdOf, Place
  <1>6. NamesInv'
    BY <1>3, <1>4, <1>5 DEF NamesInv
  <1>7. \A n \in DOMAIN names' : {stored[i] : i \in names'[n]} = NamingOf[file][n]
    <2> SUFFICES ASSUME NEW n \in DOMAIN NamingOf[file]
                 PROVE  {stored[i] : i \in {IdOf(g) : g \in NamingOf[file][n]}} = NamingOf[file][n]
      BY <1>3
    <2>1. \A g \in NamingOf[file][n] : stored[IdOf(g)] = g
      BY <1>4, <1>5
    <2>2. {stored[i] : i \in {IdOf(g) : g \in NamingOf[file][n]}} = {stored[IdOf(g)] : g \in NamingOf[file][n]}
      OBVIOUS
    <2>3. {stored[IdOf(g)] : g \in NamingOf[file][n]} = NamingOf[file][n]
      BY <2>1
    <2>4. QED BY <2>2, <2>3
  <1>8. DOMAIN names' = DOMAIN NamingOf[file]
    BY <1>3
  <1>9. NamesOfOneRun'
    BY <1>1, <1>3, <1>7, <1>8 DEF NamesOfOneRun
  <1>10. OperationsInv'
    BY <1>3 DEF SyncInv, OperationsInv
  <1>11. PlaceInv'
    BY <1>1, <1>2, <1>3 DEF PlaceInv, WhenRegistered, WhenClosing, WhenClosed, WhenMirroring, WhenMirrored
  <1>12. QED BY <1>1, <1>3, <1>6, <1>9, <1>10, <1>11 DEF SyncInv

-----------------------------------------------------------------------------
(* Closing and mirroring by sync *)

\* What is not recorded as closed has to be closed.
LEMMA CloseNeedsStep ==
  ASSUME SyncInv, CloseNeeds
  PROVE  SyncInv'
  <1>1. /\ Store(stored) /\ PlaceInv /\ file \in Files /\ file \in Accepted /\ ToSet(canonicals(file)) \subseteq ToSet(stored)
    BY DEF SyncInv, PlaceInv, CloseNeeds, WhenRegistered
  <1>2. /\ pc' = "store_close" /\ needs' = Named \ closed
        /\ UNCHANGED <<file, stored, names, predicates, closed, mirrored, closeEdges, mirrorEdges>>
    BY DEF CloseNeeds, operations
  <1>3. Named' = Named /\ Named \subseteq 1..Len(stored)
    BY <1>1, <1>2, NamedIs DEF Named, IdOf
  <1>4. PlaceInv'
    BY <1>1, <1>2, <1>3 DEF PlaceInv, WhenRegistered, WhenClosing, WhenClosed, WhenMirroring, WhenMirrored
  <1>5. QED BY <1>2, <1>4, QuietStep DEF SyncInv

\* The outputs of closing are stored before anything is recorded.
LEMMA CloseStoreStep ==
  ASSUME SyncInv, CloseStore
  PROVE  SyncInv'
  <1>1. /\ Store(stored) /\ PlaceInv /\ file \in Files /\ file \in Accepted /\ ToSet(canonicals(file)) \subseteq ToSet(stored)
        /\ needs \subseteq 1..Len(stored) /\ Named \subseteq closed \cup needs
    BY DEF SyncInv, PlaceInv, CloseStore, WhenRegistered, WhenClosing
  <1>2. /\ pc' = "commit_close" /\ stored' = Selserted(OutputsOf(needs, CloseOf))
        /\ UNCHANGED <<file, needs, names, predicates, closed, mirrored, closeEdges, mirrorEdges>>
    BY DEF CloseStore, operations
  <1>3. Extends(stored, stored') /\ Stored(stored', needs, CloseOf)
    BY <1>1, <1>2, ResultsStored, OperationsAssumption
  <1>4. StoredInv'
    BY <1>2, <1>3, StoredGrows DEF SyncInv
  <1>5. Named' = Named /\ ToSet(canonicals(file')) \subseteq ToSet(stored')
    BY <1>1, <1>2, <1>3, NamedStays
  <1>6. PlaceInv'
    BY <1>1, <1>2, <1>3, <1>5 DEF PlaceInv, Stored, WhenRegistered, WhenClosing, WhenClosed, WhenMirroring, WhenMirrored
  <1>7. QED BY <1>4, <1>6 DEF SyncInv, StoredInv

\* With what sync records, and what others did, all that is named is closed.
LEMMA CloseCommitStep ==
  ASSUME SyncInv, CloseCommit
  PROVE  SyncInv'
  <1>1. /\ Store(stored) /\ PlaceInv /\ file \in Files /\ file \in Accepted /\ ToSet(canonicals(file)) \subseteq ToSet(stored)
        /\ Stored(stored, needs, CloseOf) /\ Named \subseteq closed \cup needs /\ OperationsInv
    BY DEF SyncInv, PlaceInv, CloseCommit, WhenRegistered, WhenClosing
  <1>2. /\ pc' = "follow" /\ commit_close(needs)
        /\ UNCHANGED <<file, needs, stored, names, predicates, mirrored, mirrorEdges>>
    BY DEF CloseCommit
  <1>3. OperationsInv' /\ closed \cup needs \subseteq closed'
    BY <1>1, <1>2, CommitCloses
  <1>4. Named' = Named
    BY <1>2 DEF Named, IdOf
  <1>5. PlaceInv'
    BY <1>1, <1>2, <1>3, <1>4 DEF PlaceInv, WhenRegistered, WhenClosing, WhenClosed, WhenMirroring, WhenMirrored
  <1>6. NamesInv' /\ NamesOfOneRun'
    BY <1>2 DEF SyncInv, NamesInv, NamesOfOneRun
  <1>7. QED BY <1>1, <1>2, <1>3, <1>5, <1>6 DEF SyncInv

\* The named gadgets and their closed ones are to be mirrored.
LEMMA FollowStep ==
  ASSUME SyncInv, FollowClose
  PROVE  SyncInv'
  <1>1. /\ Store(stored) /\ PlaceInv /\ file \in Files /\ file \in Accepted /\ ToSet(canonicals(file)) \subseteq ToSet(stored)
        /\ Named \subseteq closed /\ OperationsInv
    BY DEF SyncInv, PlaceInv, FollowClose, WhenRegistered, WhenClosed
  <1>2. /\ pc' = "mirror" /\ needs' = ToMirror
        /\ UNCHANGED <<file, stored, names, predicates, closed, mirrored, closeEdges, mirrorEdges>>
    BY DEF FollowClose, operations, ToMirror
  <1>3. Named' = Named /\ ToMirror' = ToMirror
    BY <1>2 DEF Named, IdOf, ToMirror, Followed
  <1>4. needs' \subseteq 1..Len(stored')
    BY <1>1, <1>2, NamedIs DEF OperationsInv, Done, Followed, ToMirror
  <1>5. PlaceInv'
    BY <1>1, <1>2, <1>3, <1>4 DEF PlaceInv, WhenRegistered, WhenClosing, WhenClosed, WhenMirroring, WhenMirrored
  <1>6. QED BY <1>2, <1>5, QuietStep DEF SyncInv

LEMMA MirrorNeedsStep ==
  ASSUME SyncInv, MirrorNeeds
  PROVE  SyncInv'
  <1>1. /\ file \in Files /\ file \in Accepted /\ ToSet(canonicals(file)) \subseteq ToSet(stored)
        /\ Named \subseteq closed /\ ToMirror \subseteq needs /\ needs \subseteq 1..Len(stored)
    BY DEF SyncInv, PlaceInv, MirrorNeeds, WhenRegistered, WhenClosed
  <1>2. /\ pc' = "store_mirror" /\ needs' = needs \ mirrored
        /\ UNCHANGED <<file, stored, names, predicates, closed, mirrored, closeEdges, mirrorEdges>>
    BY DEF MirrorNeeds, operations
  <1>3. Named' = Named /\ ToMirror' = ToMirror
    BY <1>2 DEF Named, IdOf, ToMirror, Followed
  <1>4. PlaceInv'
    BY <1>1, <1>2, <1>3 DEF PlaceInv, WhenRegistered, WhenClosing, WhenClosed, WhenMirroring, WhenMirrored
  <1>5. QED BY <1>2, <1>4, QuietStep DEF SyncInv

\* The outputs of mirroring are stored before anything is recorded.
LEMMA MirrorStoreStep ==
  ASSUME SyncInv, MirrorStore
  PROVE  SyncInv'
  <1>1. /\ Store(stored) /\ PlaceInv /\ file \in Files /\ file \in Accepted /\ ToSet(canonicals(file)) \subseteq ToSet(stored)
        /\ Named \subseteq closed /\ ToMirror \subseteq mirrored \cup needs /\ needs \subseteq 1..Len(stored)
    BY DEF SyncInv, PlaceInv, MirrorStore, WhenRegistered, WhenClosed, WhenMirroring
  <1>2. /\ pc' = "commit_mirror" /\ stored' = Selserted(OutputsOf(needs, MirrorOf))
        /\ UNCHANGED <<file, needs, names, predicates, closed, mirrored, closeEdges, mirrorEdges>>
    BY DEF MirrorStore, operations
  <1>3. Extends(stored, stored') /\ Stored(stored', needs, MirrorOf)
    BY <1>1, <1>2, ResultsStored, OperationsAssumption
  <1>4. StoredInv'
    BY <1>2, <1>3, StoredGrows DEF SyncInv
  <1>5. Named' = Named /\ ToSet(canonicals(file')) \subseteq ToSet(stored')
    BY <1>1, <1>2, <1>3, NamedStays
  <1>6. ToMirror' = ToMirror
    BY <1>2, <1>5 DEF ToMirror, Followed
  <1>7. PlaceInv'
    BY <1>1, <1>2, <1>3, <1>5, <1>6 DEF PlaceInv, Stored, WhenRegistered, WhenClosing, WhenClosed, WhenMirroring, WhenMirrored
  <1>8. QED BY <1>4, <1>7 DEF SyncInv, StoredInv

\* With what sync records, and what others did, all that is to be mirrored is.
LEMMA MirrorCommitStep ==
  ASSUME SyncInv, MirrorCommit
  PROVE  SyncInv'
  <1>1. /\ Store(stored) /\ PlaceInv /\ file \in Files /\ file \in Accepted /\ ToSet(canonicals(file)) \subseteq ToSet(stored)
        /\ Named \subseteq closed /\ ToMirror \subseteq mirrored \cup needs /\ needs \subseteq 1..Len(stored)
        /\ Stored(stored, needs, MirrorOf) /\ OperationsInv
    BY DEF SyncInv, PlaceInv, MirrorCommit, WhenRegistered, WhenClosed, WhenMirroring
  <1>2. /\ pc' = "done" /\ commit_mirror(needs)
        /\ UNCHANGED <<file, needs, stored, names, predicates, closed, closeEdges>>
    BY DEF MirrorCommit
  <1>3. OperationsInv' /\ mirrored' = mirrored \cup needs
    BY <1>1, <1>2, CommitMirrors
  <1>4. Named' = Named /\ ToMirror' = ToMirror
    BY <1>2 DEF Named, IdOf, Followed, ToMirror
  <1>5. PlaceInv'
    BY <1>1, <1>2, <1>3, <1>4 DEF PlaceInv, WhenRegistered, WhenClosing, WhenClosed, WhenMirroring, WhenMirrored
  <1>6. NamesInv' /\ NamesOfOneRun'
    BY <1>2 DEF SyncInv, NamesInv, NamesOfOneRun
  <1>7. QED BY <1>1, <1>2, <1>3, <1>5, <1>6 DEF SyncInv

\* A crash leaves the database as it is.
LEMMA CrashStep ==
  ASSUME SyncInv, SyncCrash
  PROVE  SyncInv'
  <1>1. pc' = "read" /\ needs' = {} /\ UNCHANGED <<file, stored, names, predicates, closed, mirrored, closeEdges, mirrorEdges>>
    BY DEF SyncCrash, operations
  <1>2. PlaceInv'
    BY <1>1 DEF SyncInv, PlaceInv, WhenRegistered, WhenClosing, WhenClosed, WhenMirroring, WhenMirrored
  <1>3. QED BY <1>1, <1>2, QuietStep DEF SyncInv

-----------------------------------------------------------------------------
(* Searches and workers *)

\* A worker that stores gadgets takes away no id.
LEMMA WorkerStoreStep ==
  ASSUME SyncInv, WorkerStore
  PROVE  SyncInv'
  <1>1. PICK g \in KnownGadgets : stored' = Selserted(<<g>>)
    BY DEF WorkerStore
  <1>2. UNCHANGED <<pc, file, needs, names, predicates, closed, mirrored, closeEdges, mirrorEdges>>
    BY DEF WorkerStore, operations
  <1>3. Store(stored) /\ PlaceInv /\ <<g>> \in Seq(KnownGadgets)
    BY DEF SyncInv
  <1>4. Extends(stored, stored')
    BY <1>1, <1>3, SelsertedIs
  <1>5. StoredInv'
    BY <1>2, <1>4, StoredGrows DEF SyncInv
  <1>6. PlaceInv'
    BY <1>2, <1>3, <1>4, PlaceKept
  <1>7. QED BY <1>5, <1>6 DEF SyncInv, StoredInv

\* A worker that closes does no harm to a sync that is about to, or has.
LEMMA WorkerCloseStep ==
  ASSUME SyncInv, WorkerClose
  PROVE  SyncInv'
  <1>1. PICK i \in 1..Len(stored) : CloseOf[stored[i]] \in ToSet(stored) /\ commit_close({i})
    BY DEF WorkerClose
  <1>2. UNCHANGED <<pc, file, needs, stored, names, predicates, mirrored, mirrorEdges>>
    BY DEF WorkerClose
  <1>3. Store(stored) /\ PlaceInv /\ OperationsInv /\ Stored(stored, {i}, CloseOf)
    BY <1>1 DEF SyncInv, Stored
  <1>4. /\ OperationsInv' /\ closed \subseteq closed'
        /\ \A k \in closed : k \in DOMAIN closeEdges' <=> k \in DOMAIN closeEdges
        /\ \A k \in DOMAIN closeEdges : closeEdges'[k] = closeEdges[k]
    BY <1>1, <1>2, <1>3, CommitCloses
  <1>5. Extends(stored, stored')
    BY <1>2, <1>3, ExtendsItself
  <1>6. PlaceInv'
    BY <1>2, <1>3, <1>4, <1>5, PlaceKept
  <1>7. NamesInv' /\ NamesOfOneRun'
    BY <1>2 DEF SyncInv, NamesInv, NamesOfOneRun
  <1>8. QED BY <1>2, <1>3, <1>4, <1>6, <1>7 DEF SyncInv

LEMMA WorkerMirrorStep ==
  ASSUME SyncInv, WorkerMirror
  PROVE  SyncInv'
  <1>1. PICK i \in 1..Len(stored) : MirrorOf[stored[i]] \in ToSet(stored) /\ commit_mirror({i})
    BY DEF WorkerMirror
  <1>2. UNCHANGED <<pc, file, needs, stored, names, predicates, closed, closeEdges>>
    BY DEF WorkerMirror
  <1>3. Store(stored) /\ PlaceInv /\ OperationsInv /\ Stored(stored, {i}, MirrorOf)
    BY <1>1 DEF SyncInv, Stored
  <1>4. OperationsInv' /\ mirrored' = mirrored \cup {i}
    BY <1>1, <1>2, <1>3, CommitMirrors
  <1>5. Extends(stored, stored')
    BY <1>2, <1>3, ExtendsItself
  <1>6. PlaceInv'
    BY <1>2, <1>3, <1>4, <1>5, PlaceKept
  <1>7. NamesInv' /\ NamesOfOneRun'
    BY <1>2 DEF SyncInv, NamesInv, NamesOfOneRun
  <1>8. QED BY <1>2, <1>3, <1>4, <1>6, <1>7 DEF SyncInv

\* Updated predicates, or nothing at all.
LEMMA OtherStep ==
  ASSUME SyncInv, predicates' \in {"absent", "initial", "filled"},
         UNCHANGED <<pc, file, needs, stored, names, closed, mirrored, closeEdges, mirrorEdges>>
  PROVE  SyncInv'
  <1>1. Store(stored) /\ PlaceInv /\ Extends(stored, stored')
    BY ExtendsItself DEF SyncInv
  <1>2. PlaceInv'
    BY <1>1, PlaceKept
  <1>3. QED BY <1>2, QuietStep

\* Whatever crashes, whatever searches and workers do between any two transactions
\* of sync, and whatever the files are: the names of the database are those of one
\* run of sync, a run that ends has left what the reporter needs, closed gadgets are
\* recorded as such, work done twice agrees, and the id and the predicates are kept.
THEOREM SyncIsCorrect == SyncSpec => SyncCorrect
  <1>1. SyncInit => SyncInv
    <2> SUFFICES ASSUME SyncInit PROVE SyncInv
      OBVIOUS
    <2>1. stored = <<>> /\ names = <<>> /\ closed = {} /\ mirrored = {} /\ closeEdges = <<>> /\ mirrorEdges = <<>>
      BY DEF SyncInit
    <2>2. Store(stored) /\ NamesInv /\ NamesOfOneRun
      BY <2>1, EmptySeq DEF Store, NamesInv, NamesOfOneRun
    <2>3. OperationsInv
      BY <2>1 DEF OperationsInv, Done
    <2>4. PlaceInv
      BY DEF SyncInit, PlaceInv, WhenRegistered, WhenClosing, WhenClosed, WhenMirroring, WhenMirrored
    <2>5. QED BY <2>2, <2>3, <2>4 DEF SyncInit, SyncInv
  <1>2. SyncInv /\ [SyncNext]_syncVars => SyncInv'
    <2> SUFFICES ASSUME SyncInv, [SyncNext]_syncVars PROVE SyncInv'
      OBVIOUS
    <2>1. CASE Read
      BY <2>1, ReadStep
    <2>2. CASE CreateDatabases
      BY <2>2, CreateStep
    <2>3. CASE SelsertGadgets
      BY <2>3, SelsertStep
    <2>4. CASE WriteNames
      BY <2>4, NamesStep
    <2>5. CASE CloseNeeds \/ CloseStore \/ CloseCommit
      BY <2>5, CloseNeedsStep, CloseStoreStep, CloseCommitStep
    <2>6. CASE FollowClose
      BY <2>6, FollowStep
    <2>7. CASE MirrorNeeds \/ MirrorStore \/ MirrorCommit
      BY <2>7, MirrorNeedsStep, MirrorStoreStep, MirrorCommitStep
    <2>8. CASE SyncCrash
      BY <2>8, CrashStep
    <2>9. CASE WorkerStore \/ WorkerClose \/ WorkerMirror
      BY <2>9, WorkerStoreStep, WorkerCloseStep, WorkerMirrorStep
    <2>10. CASE SearchUpdates \/ UNCHANGED syncVars
      <3>1. /\ predicates' \in {"absent", "initial", "filled"}
            /\ UNCHANGED <<pc, file, needs, stored, names, closed, mirrored, closeEdges, mirrorEdges>>
        BY <2>10 DEF SearchUpdates, syncVars, operations, SyncInv
      <3>2. QED BY <3>1, OtherStep
    <2>11. QED BY <2>1, <2>2, <2>3, <2>4, <2>5, <2>6, <2>7, <2>8, <2>9, <2>10 DEF SyncNext
  <1>3. SyncInv => SyncTypeOK /\ NamesOfOneRun /\ ReporterReady /\ ClosingEnds /\ DuplicatesAgree
    BY InvImplies
  <1>4. [SyncNext]_syncVars => [(uid # 0 => uid' = uid) /\ (predicates = "filled" => predicates' = "filled")]_syncVars
    BY DEF SyncNext, syncVars, Read, CreateDatabases, Created, SelsertGadgets, WriteNames, CloseNeeds, CloseStore,
           CloseCommit, FollowClose, MirrorNeeds, MirrorStore, MirrorCommit, SyncCrash, WorkerStore, WorkerClose,
           WorkerMirror, SearchUpdates
  <1>5. QED BY <1>1, <1>2, <1>3, <1>4, PTL DEF SyncSpec, SyncCorrect, DatabaseKept
=============================================================================
