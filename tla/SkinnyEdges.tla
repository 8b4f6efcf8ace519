---------------------------- MODULE SkinnyEdges -----------------------------
(***************************************************************************)
(* The skinny edge databases.  paginate_for_skinny_edges puts the outputs  *)
(* of consecutive inputs on a page, whose key is the last input: a header  *)
(* with the length of each list of outputs, then the lists, delta coded.   *)
(* visit_skinny_edges finds the lists of given inputs again.  Pages are    *)
(* sequences of bytes.                                                     *)
(***************************************************************************)
EXTENDS Varint, SequencesExt

CONSTANTS
  Input, Output,      \* ids
  OptimalPageSize     \* bytes that the header of a page may have

VARIABLES
  skinny,    \* the database: last input -> bytes
  edges      \* what was put into it: input -> set of outputs
skinnyVars == <<skinny, edges>>

upv_number(n) == upv_write(Small8(n))
InOrder(S) == SetToSortSeq(S, <)

\* Mutant: every output is written as it is.
chunk_absolute(outputs) == LET block == InOrder(outputs) IN FlattenSeq([i \in 1..Len(block) |-> upv_number(block[i])])

\* The outputs of one input: sorted, without duplicates, delta coded.
chunk(outputs) ==
  LET block == InOrder(outputs)
  IN  FlattenSeq([i \in 1..Len(block) |-> upv_number(IF i = 1 THEN block[1] ELSE block[i] - block[i - 1])])

\* The header has two bytes for the offset of the first list.
commit_page(st) ==
  [ret |-> Append(st.ret, <<st.previous_input, SubSeq(Small8(2 + Len(st.header)), 1, 2) \o st.header \o st.page>>),
   header |-> <<>>, page |-> <<>>, previous_input |-> st.previous_input]

\* Mutant: a page goes on when inputs are left out.
EndsPageFull(st, length, input) == 2 + Len(st.header) + Len(length) > OptimalPageSize

\* A page ends when its header is full or the next input is not the next id.
EndsPage(st, length, input) ==
  2 + Len(st.header) + Len(length) > OptimalPageSize \/ input # st.previous_input + 1

\* batch: input -> outputs
paginate_for_skinny_edges(batch) ==
  LET inputs == InOrder(DOMAIN batch)
      add(st, input) ==
        LET list == chunk(batch[input])
            length == upv_number(Len(list))
            room == IF EndsPage(st, length, input) THEN commit_page(st) ELSE st
        IN  [room EXCEPT !.header = @ \o length, !.page = @ \o list, !.previous_input = input]
  IN  commit_page(FoldLeft(add, [ret |-> <<>>, header |-> <<>>, page |-> <<>>, previous_input |-> inputs[1] - 1],
                           inputs)).ret

-----------------------------------------------------------------------------

\* lmdb: the smallest key from id on (MDB_SET_RANGE).
SetRange(id) == {k \in DOMAIN skinny : k >= id /\ \A q \in DOMAIN skinny : q >= id => k <= q}

\* The first id on the page, and the offsets of its lists and of its end.
RECURSIVE read_offsets(_, _, _)
read_offsets(value, at, offsets) ==
  IF at = value[1] + 256 * value[2] THEN offsets
  ELSE LET r == upv_read(SubSeq(value, at + 1, Len(value)))
       IN  read_offsets(value, at + r.length, Append(offsets, Last(offsets) + Low(r.value)))
decode_skinny_edge_page(key, value) ==
  LET offsets == read_offsets(value, 2, <<value[1] + 256 * value[2]>>)
  IN  [start |-> key - (Len(offsets) - 1) + 1, offsets |-> offsets]

\* The outputs between two offsets.
RECURSIVE read_list(_, _, _, _)
read_list(value, first, last, output) ==
  IF first = last THEN <<>>
  ELSE LET r == upv_read(SubSeq(value, first + 1, Len(value)))
       IN  <<output + Low(r.value)>> \o read_list(value, first + r.length, last, output + Low(r.value))

\* Mutant: one that quits is taken to skip.
offer_list_skipping(id, outputs, verdict) ==
  [seen |-> IF verdict = "proceed" THEN [i \in 1..Len(outputs) |-> <<id, outputs[i]>>] ELSE <<<<id, Head(outputs)>>>>,
   quit |-> FALSE]

\* What a visitor is given of one list if it always answers so: all of it, or the
\* first output, and then to go on or not.
RECURSIVE offer_list(_, _, _)
offer_list(id, outputs, verdict) ==
  IF outputs = <<>> THEN [seen |-> <<>>, quit |-> FALSE]
  ELSE LET rest == offer_list(id, Tail(outputs), verdict)
           one == <<<<id, Head(outputs)>>>>
       IN  CASE verdict = "proceed" -> [seen |-> one \o rest.seen, quit |-> rest.quit]
             [] verdict = "skip" -> [seen |-> one, quit |-> FALSE]
             [] verdict = "quit" -> [seen |-> one, quit |-> TRUE]

\* open: the page whose header was decoded last.  It is decoded again only for
\* another key, and an interval that ends before it is passed over.
RECURSIVE visit_from(_, _, _, _)
visit_from(sources, id, open, verdict) ==
  IF sources = <<>> THEN <<>>
  ELSE IF id >= Head(sources)[2] \/ (id = Head(sources)[1] /\ Head(sources)[2] <= open.start)
  THEN visit_from(Tail(sources), IF Len(sources) > 1 THEN sources[2][1] ELSE 0, open, verdict)
  ELSE IF SetRange(id) = {} THEN <<>>
  ELSE LET key == CHOOSE k \in SetRange(id) : TRUE
           page == IF key = open.key THEN open
                   ELSE [key |-> key] @@ decode_skinny_edge_page(key, skinny[key])
           from == IF id > page.start THEN id ELSE page.start
           k == from - page.start + 1
           list == offer_list(from, read_list(skinny[key], page.offsets[k], page.offsets[k + 1], 0), verdict)
       IN  IF from >= Head(sources)[2] THEN visit_from(sources, from, page, verdict)
           ELSE IF list.quit THEN list.seen
           ELSE list.seen \o visit_from(sources, from + 1, page, verdict)

visit_skinny_edges(sources, verdict) ==
  visit_from(sources, IF sources = <<>> THEN 0 ELSE sources[1][1],
             [key |-> 0, start |-> 0, offsets |-> <<>>], verdict)

-----------------------------------------------------------------------------

SkinnyInit == skinny = <<>> /\ edges = <<>>

\* The edges of one commit.  The completions see to it that no input comes twice;
\* a page that is there already would be an exception.
insert_skinny_edges(batch) ==
  LET new == paginate_for_skinny_edges(batch)
  IN  /\ DOMAIN batch \cap DOMAIN edges = {}
      /\ \A i \in 1..Len(new) : new[i][1] \notin DOMAIN skinny
      /\ skinny' = [k \in {new[i][1] : i \in 1..Len(new)} |->
                     new[CHOOSE i \in 1..Len(new) : new[i][1] = k][2]] @@ skinny
      /\ edges' = batch @@ edges

Outputs == {S \in SUBSET Output : S # {}}
SkinnyNext ==
  \E inputs \in (SUBSET (Input \ DOMAIN edges)) \ {{}} :
    \E batch \in [inputs -> Outputs] : insert_skinny_edges(batch)

-----------------------------------------------------------------------------
(* Properties *)

Expected(S) == FlattenSeq([i \in 1..Cardinality(S) |->
                 LET id == InOrder(S)[i] IN [k \in 1..Cardinality(edges[id]) |-> <<id, InOrder(edges[id])[k]>>]])
Maximals(S) ==
  LET firsts == InOrder({i \in S : i - 1 \notin S})
      lasts == InOrder({i \in S : i + 1 \notin S})
  IN  [k \in 1..Len(firsts) |-> <<firsts[k], lasts[k] + 1>>]
Singles(S) == [k \in 1..Cardinality(S) |-> <<InOrder(S)[k], InOrder(S)[k] + 1>>]

\* Whatever pages the commits made of them, in whatever order, the edges of any
\* sources are visited in order and each once: across gaps, across pages, and
\* when small intervals use the open page again.
VisitExact ==
  \A S \in SUBSET (Input \cup {Max(Input) + 1}) :
    \A sources \in {Maximals(S), Singles(S)} :
      visit_skinny_edges(sources, "proceed") = Expected(S \cap DOMAIN edges)

\* A visitor that skips gets the first output of each source, and one that quits
\* gets nothing more.
VisitStops ==
  \A S \in SUBSET Input :
    LET used == S \cap DOMAIN edges
        skipped == visit_skinny_edges(Maximals(S), "skip")
        stopped == visit_skinny_edges(Maximals(S), "quit")
    IN  /\ skipped = [k \in 1..Cardinality(used) |-> <<InOrder(used)[k], Min(edges[InOrder(used)[k]])>>]
        /\ stopped = IF skipped = <<>> THEN <<>> ELSE <<Head(skipped)>>

\* The lists on the pages are disjoint ranges of inputs, and no header exceeds its
\* size.
SkinnyDisjoint ==
  /\ \A k \in DOMAIN skinny : skinny[k][1] + 256 * skinny[k][2] <= OptimalPageSize
  /\ \A k, q \in DOMAIN skinny : k < q => decode_skinny_edge_page(q, skinny[q]).start > k
=============================================================================
