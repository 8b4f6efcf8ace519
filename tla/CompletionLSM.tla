---------------------------- MODULE CompletionLSM ----------------------------
(***************************************************************************)
(* completions.cpp: the completions of one kind, kept in the database as a *)
(* log-structured merge tree.  The key of the kind holds the bulk of the   *)
(* intervals; a key with a level and an index holds one page more.  New    *)
(* intervals go to a page of level 0; when all N pages are taken, a level  *)
(* is merged into one page of the next.                                    *)
(*                                                                         *)
(* An operation parses the keys into a tree in memory and then writes keys *)
(* one by one, all in one transaction.  A page is the set of its ids; its  *)
(* size in the database is the number of its intervals.                    *)
(***************************************************************************)
EXTENDS Integers, FiniteSets

CONSTANTS
  Id,          \* gadget ids
  Batch,       \* the sets of ids that the callers record
  PageSize,    \* intervals per page of level 0 (255)
  Shape        \* the trees: [N, TopLevel, MaxRecords]

ASSUME LSMAssumption ==
  /\ Id \subseteq Nat /\ Batch \subseteq (SUBSET Id) \ {{}}
  /\ PageSize \in Nat \ {0}
  /\ Shape \subseteq [N : Nat \ {0}, TopLevel : Nat, MaxRecords : Nat]

VARIABLES
  shape,          \* the one this tree has
  allow_overlap,  \* the callers pass it for close and mirror
  exists,         \* the key of the kind is in the database
  main,           \* its ids
  pages,          \* pages[<<level, index>>], for the keys that exist
  result,         \* what the last operation returned, or that it threw
  records         \* calls of record_completion so far

lsm == <<exists, main, pages>>
vars == <<shape, allow_overlap, lsm, result, records>>

N == shape.N                    \* pages per level (8)
TopLevel == shape.TopLevel      \* the last level that compact_lsm merges upwards (8)
MaxRecords == shape.MaxRecords  \* bound on the calls of record_completion

Key == DOMAIN pages

\* The number of half-open intervals that ids is stored as.
Intervals(ids) == Cardinality({x \in ids : x - 1 \notin ids})

\* interval_overlap
Overlap(a, b) == a \cap b # {}
Adjacent(a, b) == ~Overlap(a, b) /\ \E x \in a : x - 1 \in b \/ x + 1 \in b

-----------------------------------------------------------------------------
(* parse_lsm: the tree in memory.                                          *)

Indices(level) == {k[2] : k \in {j \in Key : j[1] = level}}

\* A page of a level above an empty level is passed over without a word.
Parsed(level) == \A l \in 0..level : Indices(l) # {}

Levels == {k[1] : k \in Key}
Height == Cardinality({l \in Levels : Parsed(l)})

Width(level) == IF Parsed(level) THEN Cardinality(Indices(level)) ELSE 0

\* "key gap": parse_lsm throws when the indices of a level are not 0, 1, ...
KeyGap == \E l \in Levels : Parsed(l) /\ Indices(l) # 0..(Width(l) - 1)

PagesOf(level) == {pages[k] : k \in {j \in Key : j[1] = level}}
ParsedPages == UNION {PagesOf(l) : l \in {m \in Levels : Parsed(m)}}

\* merge_ranges
Merge(level) == UNION PagesOf(level)

\* subtract_completion and intersect_completion
subtract_completion(ids) == (ids \ main) \ UNION ParsedPages
intersect_completion(ids) == (ids \cap main) \cup UNION {ids \cap p : p \in ParsedPages}

-----------------------------------------------------------------------------
(* Compaction.                                                             *)

\* Mutant: the pages of level 0 are deleted but not merged.
compact_lsm_above ==
  /\ main' = main \cup UNION UNION {PagesOf(l) : l \in {m \in Levels : Parsed(m) /\ m > 0}}
  /\ pages' = <<>>

\* compact_lsm_full: everything that was parsed into main; all keys with a
\* level are deleted.
compact_lsm_full ==
  /\ main' = main \cup UNION ParsedPages
  /\ pages' = <<>>

\* compact_lsm(level) first makes space in the next level when it is full, so
\* the levels merged are those below the first that has space.
NextIsFull(level) == level + 1 < Height /\ Width(level + 1) = N
Merging(level) == \A l \in 0..(level - 1) : NextIsFull(l)

\* Past TopLevel the recursion falls back on compact_lsm_full, which empties
\* the tree its callers go on to index: they throw, or read freed memory.
Overflow == Merging(TopLevel + 1)

\* Mutant: the page number of the next level is read before that level is merged.
CompactWithStaleWidth(ids) ==
  LET merged == {l \in 0..TopLevel : Merging(l)}
      target(l) == <<l + 1, Width(l + 1)>>
      kept == {k \in Key : k[1] \notin merged}
      created == {target(l) : l \in merged}
  IN  pages' = [k \in kept \cup created \cup {<<0, 0>>} |->
                  IF k = <<0, 0>> THEN ids
                  ELSE IF k \in created THEN Merge(k[1] - 1) ELSE pages[k]]

\* Mutant: the new page is left to the next call.
CompactOnly(ids) ==
  LET merged == {l \in 0..TopLevel : Merging(l)}
      target(l) == <<l + 1, IF Merging(l + 1) THEN 0 ELSE Width(l + 1)>>
      kept == {k \in Key : k[1] \notin merged}
      created == {target(l) : l \in merged}
  IN  pages' = [k \in kept \cup created |->
                  IF k \in created THEN Merge(k[1] - 1) \cup (IF k[1] = 1 THEN ids ELSE {})
                                   ELSE pages[k]]

\* compact_lsm(0), then the new page 0 of level 0.  A level that is merged
\* leaves one page in the next one, which was merged itself or had space.
CompactWith(ids) ==
  LET merged == {l \in 0..TopLevel : Merging(l)}
      target(l) == <<l + 1, IF Merging(l + 1) THEN 0 ELSE Width(l + 1)>>
      kept == {k \in Key : k[1] \notin merged}
      created == {target(l) : l \in merged}
  IN  pages' = [k \in kept \cup created \cup {<<0, 0>>} |->
                  IF k = <<0, 0>> THEN ids
                  ELSE IF k \in created THEN Merge(k[1] - 1) ELSE pages[k]]

-----------------------------------------------------------------------------
(* record_completion.                                                      *)

\* The first page of level 0 with space.  When overlap is not allowed, the
\* first adjacent one with space is preferred.
FitsPage(i, ids) ==
  LET page == pages[<<0, i>>]
      merged == IF ~allow_overlap /\ Adjacent(page, ids) THEN 1 ELSE 0
  IN  Intervals(page) + Intervals(ids) - merged <= PageSize

Candidates(ids) == {i \in 0..(Width(0) - 1) : FitsPage(i, ids)}
AdjacentCandidates(ids) ==
  IF allow_overlap THEN {} ELSE {i \in Candidates(ids) : Adjacent(pages[<<0, i>>], ids)}

First(indices) == CHOOSE i \in indices : \A j \in indices : i <= j

l0page(ids) ==
  IF AdjacentCandidates(ids) # {} THEN First(AdjacentCandidates(ids)) ELSE First(Candidates(ids))

\* Mutant: only the page written to is checked for overlap.
CollidesInLevel0(ids) ==
  ~allow_overlap /\ \E p \in PagesOf(0) : Overlap(p, ids)

Collides(ids) ==
  ~allow_overlap /\ (Overlap(main, ids) \/ \E p \in ParsedPages : Overlap(p, ids))

\* Every outcome of a call; the keys are parsed only when there are any.
Record(ids) ==
  /\ records < MaxRecords
  /\ records' = records + 1
  /\ UNCHANGED <<shape, allow_overlap>>
  /\ exists => ~KeyGap

RecordFirst(ids) ==
  /\ Record(ids) /\ ~exists
  /\ exists' = TRUE /\ main' = ids
  /\ result' = "recorded"
  /\ UNCHANGED pages

RecordRefused(ids) ==
  /\ Record(ids) /\ exists /\ Collides(ids)
  /\ result' = "refused"
  /\ UNCHANGED lsm

RecordMerged(ids) ==
  /\ Record(ids) /\ exists /\ ~Collides(ids)
  /\ Candidates(ids) # {}
  /\ pages' = [pages EXCEPT ![<<0, l0page(ids)>>] = @ \cup ids]
  /\ result' = "recorded"
  /\ UNCHANGED <<exists, main>>

RecordNewPage(ids) ==
  /\ Record(ids) /\ exists /\ ~Collides(ids)
  /\ Candidates(ids) = {} /\ Width(0) < N
  /\ pages' = [k \in Key \cup {<<0, Width(0)>>} |-> IF k \in Key THEN pages[k] ELSE ids]
  /\ result' = "recorded"
  /\ UNCHANGED <<exists, main>>

RecordCompacting(ids) ==
  /\ Record(ids) /\ exists /\ ~Collides(ids)
  /\ Candidates(ids) = {} /\ Width(0) = N /\ ~Overflow
  /\ CompactWith(ids)
  /\ result' = "recorded"
  /\ UNCHANGED <<exists, main>>

\* The transaction is aborted.
RecordThrows(ids) ==
  /\ Record(ids) /\ exists /\ ~Collides(ids)
  /\ Candidates(ids) = {} /\ Width(0) = N /\ Overflow
  /\ result' = "threw"
  /\ UNCHANGED lsm

\* compact_completion, by the driver when it looks for needs and when it stops.
compact_completion(tolerated_levels) ==
  /\ exists /\ ~KeyGap
  /\ Height > tolerated_levels
  /\ compact_lsm_full
  /\ result' = "compacted"
  /\ UNCHANGED <<shape, allow_overlap, exists, records>>

Init ==
  /\ shape \in Shape
  /\ allow_overlap \in BOOLEAN
  /\ exists = FALSE /\ main = {} /\ pages = <<>>
  /\ result = "none"
  /\ records = 0

RecordSome(ids) ==
  \/ RecordFirst(ids) \/ RecordRefused(ids) \/ RecordMerged(ids)
  \/ RecordNewPage(ids) \/ RecordCompacting(ids) \/ RecordThrows(ids)

Next ==
  \/ \E ids \in Batch : RecordSome(ids)
  \/ \E tolerated_levels \in {0, 1} : compact_completion(tolerated_levels)

Spec == Init /\ [][Next]_vars

-----------------------------------------------------------------------------
(* Properties.                                                             *)

Contents == main \cup UNION {pages[k] : k \in Key}

\* The types of the keys: a level never has more than N pages, and none is
\* created above the level after TopLevel.
TypeOK ==
  /\ shape \in Shape
  /\ allow_overlap \in BOOLEAN /\ exists \in BOOLEAN
  /\ main \in SUBSET Id
  /\ \A k \in Key : k[1] \in 0..(TopLevel + 1) /\ k[2] \in 0..(N - 1) /\ pages[k] \in SUBSET Id
  /\ result \in {"none", "recorded", "refused", "compacted", "threw"}
  /\ records \in 0..MaxRecords

\* After any sequence of records and compactions, the next parse finds no gap:
\* it neither throws nor passes over the pages above an emptied level.
ParsesCompletely == ~KeyGap /\ \A l \in Levels : Parsed(l)

\* The queries the driver plans its work from are exact, so no work is done
\* twice and none is left out.
QueriesExact ==
  \A ids \in SUBSET Id : /\ subtract_completion(ids) = ids \ Contents
                         /\ intersect_completion(ids) = ids \cap Contents

\* Without overlap, no id is stored twice, wherever compaction has moved it.
PagesDisjoint ==
  ~allow_overlap =>
    \A j, k \in Key : /\ pages[k] \cap main = {}
                      /\ j # k => pages[j] \cap pages[k] = {}

\* After any records and compactions the next reader finds the whole tree, each
\* id once, and answers the driver's queries exactly.
TreeExact == ParsesCompletely /\ QueriesExact /\ PagesDisjoint

Set == INSTANCE CompletionSet WITH set <- Contents

\* The tree is a set of ids that refuses exactly the overlapping records.
ImplementsSet == Set!Spec
=============================================================================
