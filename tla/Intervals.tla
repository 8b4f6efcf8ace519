----------------------------- MODULE Intervals ------------------------------
(***************************************************************************)
(* intervals.hpp: sets of ids as sequences of half-open intervals          *)
(* <<first, second>>, in order.  Each operator is one function; the loops  *)
(* that advance two iterators are recursive operators on what is left of   *)
(* the two sequences.                                                      *)
(***************************************************************************)
EXTENDS Integers, Sequences, FiniteSets, TLC, SequencesExt, FiniteSetsExt

\* What a sequence of intervals stands for.
Ids(s) == UNION {s[i][1]..(s[i][2] - 1) : i \in 1..Len(s)}

\* In order, none empty, no overlap.  Intervals may touch.
WellFormed(s) ==
  /\ \A i \in 1..Len(s) : s[i][1] < s[i][2]
  /\ \A i \in 1..(Len(s) - 1) : s[i][2] <= s[i + 1][1]

Maximal(s) == WellFormed(s) /\ \A i \in 1..(Len(s) - 1) : s[i][2] < s[i + 1][1]

\* The last interval of s ends at e.
EndAt(s, e) == [s EXCEPT ![Len(s)][2] = e]

\* Of sorted values.  Equal neighbours differ by 0, which is not 1.
maximal_intervals(values) ==
  FoldLeft(LAMBDA s, v : IF s # <<>> /\ v - (Last(s)[2] - 1) = 1 THEN EndAt(s, v + 1)
                         ELSE Append(s, <<v, v + 1>>),
           <<>>, values)

interval_inflate(s) ==
  FoldLeft(LAMBDA values, i : values \o [k \in 1..(i[2] - i[1]) |-> i[1] + k - 1], <<>>, s)

\* Mutant: the interval that was met last decides where the result ends.
ExtendToLast(s, i) ==
  IF s # <<>> /\ i[1] <= Last(s)[2] THEN EndAt(s, i[2]) ELSE Append(s, i)

\* One more interval at the end: it is joined to the last one if they touch.
Extend(s, i) ==
  IF s # <<>> /\ i[1] <= Last(s)[2] THEN EndAt(s, Max({Last(s)[2], i[2]})) ELSE Append(s, i)

interval_coalesce(s) == FoldLeft(Extend, <<>>, s)

PairLess(x, y) == x[1] < y[1] \/ (x[1] = y[1] /\ x[2] <= y[2])

drain_buffer(acc) ==
  [buf |-> <<>>, accum |-> acc.accum \o maximal_intervals(SetToSortSeq(ToSet(acc.buf), <))]

\* interval_accumulator with a buffer of so many values.
interval_accumulator(values, buffer_capacity) ==
  LET add(acc, v) ==
        LET room == IF Len(acc.buf) = buffer_capacity THEN drain_buffer(acc) ELSE acc
        IN  [room EXCEPT !.buf = Append(@, v)]
      all == drain_buffer(FoldLeft(add, [buf |-> <<>>, accum |-> <<>>], values))
  IN  interval_coalesce(SortSeq(all.accum, PairLess))

\* Mutant: intervals are not cut.
ChunkFromWhole(state, i, chunk_size) ==
  IF state.size + i[2] - i[1] < chunk_size
  THEN [state EXCEPT !.working = Append(@, i), !.size = @ + i[2] - i[1]]
  ELSE [ret |-> Append(state.ret, Append(state.working, i)), working |-> <<>>, size |-> 0]

\* The state of interval_chunk when an interval, or what is left of it, comes.
RECURSIVE ChunkFrom(_, _, _)
ChunkFrom(state, i, chunk_size) ==
  IF i[1] = i[2] THEN state
  ELSE LET endpoint == Min({i[1] + (chunk_size - state.size), i[2]})
           working == Append(state.working, <<i[1], endpoint>>)
           size == state.size + endpoint - i[1]
       IN  ChunkFrom(IF size = chunk_size
                     THEN [ret |-> Append(state.ret, working), working |-> <<>>, size |-> 0]
                     ELSE [state EXCEPT !.working = working, !.size = size],
                     <<endpoint, i[2]>>, chunk_size)

interval_chunk(s, chunk_size) ==
  LET end == FoldLeft(LAMBDA state, i : ChunkFrom(state, i, chunk_size),
                      [ret |-> <<>>, working |-> <<>>, size |-> 0], s)
  IN  IF end.working = <<>> THEN end.ret ELSE Append(end.ret, end.working)

interval_size(s) == FoldLeft(LAMBDA n, i : n + i[2] - i[1], 0, s)

\* Mutant: the search goes on in the lower half when the element is equal.
HalvesWrongly(s, base, n, x) ==
  LET search[k \in 1..Len(s), b \in 1..Len(s)] ==
        IF k = 1 THEN b
        ELSE search[k - k \div 2, IF x <= s[b + k \div 2][1] THEN b ELSE b + k \div 2]
  IN  search[n, base]

\* The loop of the binary search without branches; base is counted from 1.
RECURSIVE Halve(_, _, _, _)
Halve(s, base, n, x) ==
  IF n <= 1 THEN base
  ELSE Halve(s, IF x < s[base + n \div 2][1] THEN base ELSE base + n \div 2, n - n \div 2, x)

interval_contains(s, x) ==
  s # <<>> /\ LET i == s[Halve(s, 1, Len(s), x)] IN i[1] <= x /\ x < i[2]

RECURSIVE OverlapFrom(_, _, _)
OverlapFrom(l, r, adjacent) ==
  IF l = <<>> \/ r = <<>> THEN IF adjacent THEN "adjacent" ELSE "separate"
  ELSE LET a == Head(l) b == Head(r)
           touch == adjacent \/ a[2] = b[1] \/ b[2] = a[1]
       IN  IF (b[1] <= a[1] /\ a[1] < b[2]) \/ (a[1] <= b[1] /\ b[1] < a[2]) THEN "overlap"
           ELSE IF a[1] < b[1] THEN OverlapFrom(Tail(l), r, touch)
                               ELSE OverlapFrom(l, Tail(r), touch)

interval_overlap(l, r) == OverlapFrom(l, r, FALSE)

RECURSIVE interval_intersection(_, _)
interval_intersection(l, r) ==
  IF l = <<>> \/ r = <<>> THEN <<>>
  ELSE LET a == Head(l) b == Head(r)
       IN  IF a[2] <= b[1] THEN interval_intersection(Tail(l), r)
           ELSE IF b[2] <= a[1] THEN interval_intersection(l, Tail(r))
           ELSE <<<<Max({a[1], b[1]}), Min({a[2], b[2]})>>>> \o
                interval_intersection(IF a[2] <= b[2] THEN Tail(l) ELSE l,
                                      IF b[2] <= a[2] THEN Tail(r) ELSE r)

\* Intervals are taken from whichever side begins first, from the right one
\* when both begin together.
RECURSIVE Union(_, _, _)
Union(ret, l, r) ==
  CASE l = <<>> -> FoldLeft(Extend, ret, r)
    [] r = <<>> -> FoldLeft(Extend, ret, l)
    [] Head(l)[1] < Head(r)[1] -> Union(Extend(ret, Head(l)), Tail(l), r)
    [] OTHER -> Union(Extend(ret, Head(r)), l, Tail(r))

\* A list whose partner is empty is returned as it is.
interval_union(l, r) ==
  IF l = <<>> THEN r ELSE IF r = <<>> THEN l ELSE Union(<<>>, l, r)

\* Mutant: after the loop the remaining left interval is copied whole.
RestWhole(pos, l) == l

\* What is left of the left side when the right side is used up: its first
\* interval may have been cut.
Rest(pos, l) ==
  IF l # <<>> /\ pos > Head(l)[1] THEN <<<<pos, Head(l)[2]>>>> \o Tail(l) ELSE l

\* The sweep: pos stands for the beginning of the intervals that it has passed.
RECURSIVE Sweep(_, _, _)
Sweep(pos, l, r) ==
  IF l = <<>> \/ r = <<>> THEN Rest(pos, l)
  ELSE LET a == Head(l) b == Head(r)
           elf == Max({pos, a[1]})
           erf == Max({pos, b[1]})
       IN  CASE elf < erf /\ a[2] <= b[1] -> <<<<elf, a[2]>>>> \o Sweep(a[2], Tail(l), r)
             [] elf < erf /\ a[2] > b[1] -> <<<<elf, b[1]>>>> \o Sweep(b[1], l, r)
             [] erf < elf -> Sweep(a[1], l, IF b[2] <= a[1] THEN Tail(r) ELSE r)
             [] OTHER -> Sweep(Min({a[2], b[2]}), IF a[2] <= b[2] THEN Tail(l) ELSE l,
                                                  IF b[2] <= a[2] THEN Tail(r) ELSE r)

interval_difference(l, r) ==
  IF l = <<>> THEN <<>> ELSE IF r = <<>> THEN l ELSE Sweep(Min({l[1][1], r[1][1]}), l, r)

\* Mutant: at one point keys become active before others cease to be.
EventLessBeginning(e, f) ==
  \/ e[1] < f[1]
  \/ e[1] = f[1] /\ e[2] > f[2]
  \/ e[1] = f[1] /\ e[2] = f[2] /\ e[3] < f[3]

\* <<point, 1 if the key becomes active, key>>
EventLess(e, f) ==
  \/ e[1] < f[1]
  \/ e[1] = f[1] /\ e[2] < f[2]
  \/ e[1] = f[1] /\ e[2] = f[2] /\ e[3] < f[3]

\* Groups the ids by the set of keys whose intervals contain them: at each point
\* where something changes the current interval goes to the active keys.
interval_aggregate(lists) ==
  LET events == UNION {UNION {{<<i[1], 1, k>>, <<i[2], 0, k>>} : i \in ToSet(lists[k])} : k \in DOMAIN lists}
      committed(st, point) ==
        IF st.active = {} \/ st.cur = point THEN st.result
        ELSE (st.active :> (IF st.active \in DOMAIN st.result THEN st.result[st.active] ELSE <<>>)
                           \o <<<<st.cur, point>>>>) @@ st.result
      visit(st, e) == [result |-> committed(st, e[1]), cur |-> e[1],
                       active |-> IF e[2] = 1 THEN st.active \cup {e[3]} ELSE st.active \ {e[3]}]
      sorted == SortSeq(FoldSet(LAMBDA e, seq : Append(seq, e), <<>>, events), EventLess)
  IN  FoldLeft(visit, [result |-> <<>>, cur |-> 0, active |-> {}], sorted).result

-----------------------------------------------------------------------------
(* Properties, for any two well-formed sequences l and r.                  *)

\* The set operations on sequences of intervals are those on sets of ids, and
\* give sequences that every other operation accepts, also when intervals
\* touch, share an endpoint or lie inside each other.
SetOperationsExact(l, r) ==
  /\ LET s == interval_intersection(l, r) IN WellFormed(s) /\ Ids(s) = Ids(l) \cap Ids(r)
  /\ LET s == interval_union(l, r) IN WellFormed(s) /\ Ids(s) = Ids(l) \cup Ids(r)
  /\ LET s == interval_difference(l, r) IN WellFormed(s) /\ Ids(s) = Ids(l) \ Ids(r)
  /\ LET near(x, y) == \E i \in Ids(x), j \in Ids(y) : i + 1 = j
     IN  interval_overlap(l, r) = IF Ids(l) \cap Ids(r) # {} THEN "overlap"
                                  ELSE IF near(l, r) \/ near(r, l) THEN "adjacent" ELSE "separate"

\* The binary search finds every member, in sequences of any length.
ContainsExact(l, universe) == \A x \in universe : interval_contains(l, x) = (x \in Ids(l))

\* Chunks have the size asked for, but for the last one, and are together what
\* was to be divided, so that tasks overlap nowhere and leave nothing out.
ChunksExact(l, chunk_size) ==
  LET chunks == interval_chunk(l, chunk_size)
  IN  /\ \A c \in 1..Len(chunks) :
           /\ WellFormed(chunks[c])
           /\ c < Len(chunks) => interval_size(chunks[c]) = chunk_size
           /\ interval_size(chunks[c]) \in 1..chunk_size
      /\ FoldLeft(LAMBDA s, c : s \o interval_inflate(c), <<>>, chunks) = interval_inflate(l)

\* A buffer that is drained in the middle, with values in any order and more
\* than once, makes no difference: the result is maximal and in order.
AccumulatorExact(values, buffer_capacity) ==
  LET s == interval_accumulator(values, buffer_capacity)
  IN  Maximal(s) /\ Ids(s) = ToSet(values)

\* The groups of an aggregation are disjoint and cover every id with exactly
\* the keys that want it, also where one interval of a key ends and another
\* of the same key begins.
AggregateExact(lists) ==
  LET groups == interval_aggregate(lists)
      wants(id) == {k \in DOMAIN lists : id \in Ids(lists[k])}
      all == UNION {Ids(lists[k]) : k \in DOMAIN lists}
  IN  /\ \A g \in DOMAIN groups : WellFormed(groups[g]) /\ \A id \in Ids(groups[g]) : wants(id) = g
      /\ UNION {Ids(groups[g]) : g \in DOMAIN groups} = all
=============================================================================
