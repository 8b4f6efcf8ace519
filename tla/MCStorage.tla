----------------------------- MODULE MCStorage ------------------------------
(***************************************************************************)
(* What is kept in the database and how: completions, skinny edges, what   *)
(* sync writes, and the functions on intervals and numbers that they rest  *)
(* on.  Each behaviour is about one of them.                               *)
(***************************************************************************)
EXTENDS CompletionLSM, SkinnyEdges, Intervals, GadgetEncoding, Sync

VARIABLES subject, sample
storageVars == <<vars, skinnyVars, syncVars, subject, sample>>

-----------------------------------------------------------------------------
(* Two trees of completions: one whose records cascade over three levels,  *)
(* and one whose last level is so low that they run into the level         *)
(* overflow.                                                               *)

ShapeDef == {[N |-> 2, TopLevel |-> 8, MaxRecords |-> 8], [N |-> 1, TopLevel |-> 1, MaxRecords |-> 6]}

-----------------------------------------------------------------------------
(* Intervals in 0..4, cut in every way. *)

Cells == 0..4
ListOf(cells, cuts) ==
  LET firsts == SetToSortSeq({c \in cells : c - 1 \notin cells \/ c \in cuts}, <)
      end(c) == Min({d \in (c + 1)..5 : d \notin cells \/ d \in cuts})
  IN  [i \in 1..Len(firsts) |-> <<firsts[i], end(firsts[i])>>]
IntervalLists == {ListOf(cells, cuts) : cells \in SUBSET Cells, cuts \in SUBSET (1..4)}

-----------------------------------------------------------------------------
(* Numbers at every boundary, as eight bytes. *)

Power(k) == [i \in 1..8 |-> IF i = k \div 8 + 1 THEN 2^(k % 8) ELSE 0]
Below(k) == [i \in 1..8 |-> IF i < k \div 8 + 1 THEN 255 ELSE IF i = k \div 8 + 1 THEN 2^(k % 8) - 1 ELSE 0]
Above(k) == [Power(k) EXCEPT ![1] = IF k = 0 THEN 2 ELSE IF k < 8 THEN @ + 1 ELSE 1]
Numbers ==
  {Zero8, [i \in 1..8 |-> 255]} \cup {Power(k) : k \in 0..63} \cup {Below(k) : k \in 0..63} \cup {Above(k) : k \in 0..63}
  \cup {Small8(n) : n \in {240, 241, 244, 245, 2287, 2288, 2291, 2292, 67823, 67824, 67827, 67828}}

Counts == {0, 1, 255, 256, 65535, 65536, 16777215}
Headers ==
  [locations : {1, 16}, states : {1, 255, 256, 65535}, undirected : Counts, directed : Counts, components : {1, 2, 255}]

\* Locations and states whose codes just fit, and two edges.
Sizes == {<<2, 3>>, <<3, 2>>, <<4, 3>>, <<3, 5>>}
EdgesIn(size) == (0..(size[2] - 1)) \X (0..(size[1] - 1)) \X (0..(size[1] - 1)) \X (0..(size[2] - 1))
CornerEdges(size) ==
  {e \in EdgesIn(size) : e[1] \in {0, size[2] - 1} /\ e[2] \in {0, size[1] - 1}}

-----------------------------------------------------------------------------
(* Files for sync.  1 is closed to 2; 3 and 4, 5 and 6 are mirror images, 3 *)
(* and 4 are closed to 5 and 6.                                            *)

CloseDef == [g \in 1..7 |-> CASE g = 1 -> 2 [] g = 3 -> 5 [] g = 4 -> 6 [] OTHER -> g]
MirrorDef == [g \in 1..7 |-> CASE g = 3 -> 4 [] g = 4 -> 3 [] g = 5 -> 6 [] g = 6 -> 5 [] OTHER -> g]

Morph(state, g, initial) ==
  [gadget_state |-> state, normal |-> g, mirror |-> {MirrorDef[g]} \ {g}, initial_component |-> initial]
Define(name, kind, morphs) ==
  [name |-> <<name>>, morphs |-> morphs, state_names |-> kind, allow_pruning_named_states |-> FALSE]
Default == [kind |-> "default"]
File(gadgets, aliases) == [gadgets |-> gadgets, aliases |-> aliases]

Achiral == Define("a", Default, <<Morph(0, 1, TRUE), Morph(1, 2, TRUE), Morph(2, 7, FALSE)>>)
Mixed == Define("c", Default, <<Morph(0, 3, TRUE), Morph(1, 7, TRUE)>>)
Reflected == Define("d", Default, <<Morph(0, 3, TRUE), Morph(1, 4, TRUE), Morph(2, 3, TRUE)>>)
Single == Define("e", [kind |-> "single", state |-> 1], <<Morph(0, 7, TRUE), Morph(1, 5, TRUE)>>)
Custom == Define("f", [kind |-> "map", map |-> (0 :> "open" @@ 1 :> "shut")], <<Morph(0, 2, TRUE), Morph(1, 4, TRUE)>>)
Pruned == [Custom EXCEPT !.morphs = <<Morph(0, 2, TRUE), Morph(1, 2, TRUE)>>]
Allowed == [Pruned EXCEPT !.allow_pruning_named_states = TRUE]
EveryState == Define("g", [kind |-> "all"], <<Morph(0, 1, TRUE), Morph(1, 6, FALSE)>>)
\* State 1 is a rotation of state 0, so that state 2 is the second that is left.
EveryLeft == Define("h", [kind |-> "all"], <<Morph(0, 7, TRUE), Morph(1, 7, TRUE), Morph(2, 2, TRUE)>>)

FilesDef ==
  {File(<<Achiral, Mixed>>, <<<<<<"x">>, <<"a">>>>, <<<<"y">>, <<"x">>>>>>),
   File(<<Reflected, Single, EveryLeft>>, <<>>),
   File(<<Custom, Define("z", Default, <<>>), EveryState>>, <<>>),
   File(<<Pruned>>, <<>>), File(<<Allowed>>, <<>>),
   File(<<Mixed>>, <<<<<<"c", "r">>, <<"c">>>>>>),
   File(<<Mixed>>, <<<<<<"x">>, <<"y">>>>, <<<<"y">>, <<"c">>>>>>)}

-----------------------------------------------------------------------------

NoSync ==
  /\ pc = "done" /\ file = File(<<>>, <<>>) /\ run_count = 0 /\ needs = {} /\ others = 0 /\ stored = <<>> /\ names = <<>> /\ uid = 0
  /\ predicates = "absent" /\ closed = {} /\ mirrored = {} /\ closeEdges = <<>> /\ mirrorEdges = <<>>

NoTree == Init /\ shape = [N |-> 1, TopLevel |-> 1, MaxRecords |-> 6] /\ ~allow_overlap

StorageInit ==
  /\ SkinnyInit
  /\ \/ subject = "completions" /\ Init /\ NoSync /\ sample = 0
     \/ subject = "edges" /\ NoTree /\ NoSync /\ sample = 0
     \/ subject = "sync" /\ NoTree /\ SyncInit /\ sample = 0
     \/ subject = "intervals" /\ NoTree /\ NoSync /\ sample \in IntervalLists \X IntervalLists
     \/ subject = "number" /\ NoTree /\ NoSync /\ sample \in Numbers
     \/ subject = "header" /\ NoTree /\ NoSync /\ sample \in Headers
     \/ subject = "edge" /\ NoTree /\ NoSync
        /\ \E size \in Sizes : \E e, f \in CornerEdges(size) : sample = <<e, f, size[1], size[2]>>

StorageNext ==
  /\ UNCHANGED <<subject, sample>>
  /\ \/ subject = "completions" /\ Next /\ UNCHANGED <<skinnyVars, syncVars>>
     \/ subject = "edges" /\ SkinnyNext /\ UNCHANGED <<vars, syncVars>>
     \/ subject = "sync" /\ SyncNext /\ UNCHANGED <<vars, skinnyVars>>

StorageSpec == StorageInit /\ [][StorageNext]_storageVars

-----------------------------------------------------------------------------

\* Visitors of skinny edges are given every edge once, in order, and stop where
\* they say, whatever pages the commits made.
EdgesExact == subject = "edges" => VisitExact /\ VisitStops /\ SkinnyDisjoint

\* The operations of intervals.hpp are those on sets, the buffer of an
\* accumulator of any size makes no difference, and chunks and groups are exact.
IntervalsExact ==
  subject = "intervals" =>
    LET s == sample[1]
        t == sample[2]
    IN  /\ SetOperationsExact(s, t) /\ ContainsExact(s, -1..6)
        /\ \A size \in 1..3 : ChunksExact(s, size)
        /\ \A capacity \in 1..3 :
             AccumulatorExact(interval_inflate(s) \o Reverse(interval_inflate(t)), capacity)
        /\ AggregateExact(<<s, t, interval_union(s, t)>>)

\* Integers, headers and codes of edges are read as they were written, at every
\* boundary between two lengths.
EncodingsExact ==
  /\ subject = "number" => RoundTrip(sample)
  /\ subject = "header" => HeaderExact(sample)
  /\ subject = "edge" => CoderExact(sample[1], sample[2], sample[3], sample[4])

\* What stands for sets of ids and for values in the database stands for them exactly.
RepresentationsExact == IntervalsExact /\ EncodingsExact
=============================================================================
