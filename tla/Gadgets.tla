------------------------------ MODULE Gadgets -------------------------------
(***************************************************************************)
(* Gadgets and the operations on them: ops.cpp, canonicalize.cpp, the      *)
(* builder and the encoding of gadget-encoding.cpp, and what the workers   *)
(* compute for each input (msgpack-mode.cpp).  A gadget is an automaton    *)
(* whose accept states are its states: a traversal enters at one location, *)
(* passes through a state that does not accept, and leaves at another.     *)
(*                                                                         *)
(* Every automaton has an alphabet of AlphabetSize symbols, the precision  *)
(* of combine; the code takes the type with the least alphabet that will   *)
(* do, and symbols beyond the locations are never used.                    *)
(***************************************************************************)
EXTENDS Regexesque, GadgetEncoding

CONSTANTS
  Definitions,    \* sets of traversals <<start, from, to, end>>
  Rights,         \* those used as the right operands of combine
  MaxLeftStates,  \* of a left operand
  MaxStates       \* of the gadgets that are operated on further

VARIABLE gadget

locations(a) == Cardinality(activeAlphabet(a))

-----------------------------------------------------------------------------
(* Canonical form *)

\* The table of permutations: a rotation of the first locs symbols, or of their
\* reversal.
perm(locs, mirrored, rot) ==
  [x \in Symbol |-> IF x >= locs THEN x
                    ELSE LET y == (x + rot) % locs IN IF mirrored THEN locs - 1 - y ELSE y]
\* Mutant: the last rotation is missing from the table.
m0perms_short(locs) == [i \in 1..Max({locs - 1, 1}) |-> perm(locs, FALSE, i - 1)]
m0perms(locs) == [i \in 1..locs |-> perm(locs, FALSE, i - 1)]
m1perms(locs) == [i \in 1..locs |-> perm(locs, TRUE, i - 1)]
allperms(locs) == IF locs <= 2 THEN m0perms(locs) ELSE m0perms(locs) \o m1perms(locs)

\* Traversals of the states of a gadget.
Traversals(a) ==
  {<<s, x, y, e>> \in a.accept \X Symbol \X Symbol \X a.accept :
     \E m \in step(a, s, x) : e \in step(a, m, y)}

has_nop_edge(a, s, x) == \E m \in step(a, s, x) : s \in step(a, m, x)

\* Mutant: the state in between is forgotten.
addMaximalNopsLoop(a, locs) ==
  FoldSet(LAMBDA p, b : addTrans(b, p[1], {p[2]}, p[1]), a, a.accept \X (0..(locs - 1)))

\* At each state and location one may go in and come out again.
addMaximalNops(a, locs) ==
  LET missing == {p \in a.accept \X (0..(locs - 1)) : ~has_nop_edge(a, p[1], p[2])}
  IN  FoldSet(LAMBDA p, b : addTrans(addTrans(addState(b), p[1], {p[2]}, b.n), b.n, {p[2]}, p[1]), a, missing)

Position(perms, p) == (CHOOSE i \in 1..Len(perms) : perms[i] = p) - 1

\* The gadget and the index of the permutation that was used; a gadget with one
\* location only has its states renumbered.  m: the minimal form of b.
Indexed(r, perms, first) == [automaton |-> r.automaton, index |-> first + Position(perms, r.perm)]
LeastAmong(b, m, perms, first) ==
  IF Len(perms) = 1 THEN [automaton |-> Canonical(b, m), index |-> 0]
  ELSE Indexed(LeastForm(m, ToSet(perms)), perms, first)
CanonicalBy(b, perms, first) == LeastAmong(b, minimize(b), perms, first)

canonicalize_gadget(a, locs, allowMirroring) ==
  CanonicalBy(addMaximalNops(a, locs), IF allowMirroring THEN allperms(locs) ELSE m0perms(locs), 0)

\* Mutant: one mirrored permutation stands for all.
mirror_once(a) ==
  [automaton |-> canonicalizeRenumber(addMaximalNops(a, locations(a)), {perm(locations(a), TRUE, 0)}).automaton,
   index |-> 0]

\* The indices of mirrored permutations follow those of the others.  With two
\* locations the two kinds are the same.
mirror(a) ==
  LET locs == locations(a)
  IN  CanonicalBy(addMaximalNops(a, locs), IF locs <= 2 THEN allperms(locs) ELSE m1perms(locs),
                  IF locs <= 2 THEN 0 ELSE locs)

-----------------------------------------------------------------------------
(* GadgetBuilder: an automaton and where the states of the gadget are in   *)
(* it; state g of the gadget is at[g + 1].                                 *)

RECURSIVE translateState(_, _)
translateState(b, g) ==
  IF g < Len(b.at) THEN b
  ELSE translateState([automaton |-> setAccept(addState(b.automaton), b.automaton.n, TRUE),
                       at |-> Append(b.at, b.automaton.n)], g)

GadgetBuilder(estimate) == translateState([automaton |-> clear, at |-> <<>>], Max({estimate, 1}) - 1)

\* GadgetBuilder::trans
trans(b, e) ==
  LET c == translateState(translateState(b, e[1]), e[4])
      t == c.automaton.n
  IN  [c EXCEPT !.automaton = addTrans(addTrans(addState(@), c.at[e[1] + 1], {e[2]}, t), t, {e[3]}, c.at[e[4] + 1])]

initialComponentGadgetStates(b) ==
  LET found == {C \in {ToSet(D) : D \in ToSet(find_components(b.automaton, 0))} : 0 \in C}
  IN  {g \in 0..(Len(b.at) - 1) : b.at[g + 1] \in UNION found}

setGadgetState(b, g) ==
  LET zero == CHOOSE i \in 1..Len(b.at) : b.at[i] = 0
  IN  [automaton |-> swapStateNumbers(b.automaton, 0, b.at[g + 1]),
       at |-> [b.at EXCEPT ![g + 1] = 0, ![zero] = b.at[g + 1]]]

compressed(a, active) ==
  renumberAlphabet(a, [x \in Symbol |-> IF x < Cardinality(active) THEN Ascending(active)[x + 1] ELSE Never])

compress_alphabet(a) ==
  LET active == activeAlphabet(a)
  IN  IF active # {} /\ Max(active) # Cardinality(active) - 1 THEN compressed(a, active) ELSE a

\* The empty gadget has no permutation.
Finished(p, mirrored) ==
  IF p.n = 1 /\ p.trans = {} THEN [automaton |-> p, index |-> Gone]
  ELSE IF mirrored THEN mirror(p) ELSE canonicalize_gadget(p, locations(p), FALSE)
Minimal(m, compress) == IF compress THEN compress_alphabet(m) ELSE m
build(b, compress, mirrored) == Finished(Minimal(minimize(b.automaton), compress), mirrored)

Built(edges) == FoldLeft(trans, GadgetBuilder(1), edges)

-----------------------------------------------------------------------------
(* Encoding *)

\* The traversals between the states of the gadget in the order of states and
\* locations.
AllEdges(a, alphabet) ==
  LET between(s, x, y) == InSomeOrder({<<s, x, y, e>> : e \in UNION {step(a, m, y) : m \in step(a, s, x)}})
      from(s) == FlattenSeq([i \in 1..Len(alphabet) |->
                   FlattenSeq([k \in 1..Len(alphabet) |-> between(s, alphabet[i], alphabet[k])])])
  IN  FlattenSeq([i \in 1..Cardinality(a.accept) |-> from(Ascending(a.accept)[i])])

\* States get their numbers as they are met.
Met(order, s) == IF s \in ToSet(order) THEN order ELSE Append(order, s)
MetIn(all_edges) == FoldLeft(LAMBDA o, e : Met(Met(o, e[1]), e[4]), <<>>, all_edges)
Renamed(all_edges, order) ==
  LET number(s) == (CHOOSE i \in 1..Len(order) : order[i] = s) - 1
  IN  {<<number(e[1]), e[2], e[3], number(e[4])>> : e \in ToSet(all_edges)}

\* Edges in both directions are kept once; those that lead back are left out.
Folded(edges) ==
  LET reverse(e) == <<e[4], e[3], e[2], e[1]>>
      less(e, f) == \E i \in 1..4 : e[i] < f[i] /\ \A k \in 1..(i - 1) : e[k] = f[k]
  IN  [uedges |-> {e \in edges : reverse(e) \in edges /\ less(e, reverse(e))},
       dedges |-> {e \in edges : reverse(e) \notin edges}]
FoldedIn(all_edges) == Folded(Renamed(all_edges, MetIn(all_edges)))
deflate_slls(a) == FoldedIn(AllEdges(a, Ascending(activeAlphabet(a))))

count_accept_components(a) ==
  Len(SelectSeq(find_components(a, 0), LAMBDA C : ToSet(C) \cap a.accept # {}))

StatsOf(a, slls) ==
  [locations |-> locations(a), states |-> Cardinality(a.accept),
   undirected |-> Cardinality(slls.uedges), directed |-> Cardinality(slls.dedges),
   components |-> count_accept_components(a)]
Stats(a) == StatsOf(a, deflate_slls(a))

Encoded(a, slls) == encode_slls(slls.uedges, slls.dedges, StatsOf(a, slls))
encode(a) == Encoded(a, deflate_slls(a))

Unfolded(slls) ==
  FlattenSeq([i \in 1..Len(slls.uedges) |->
    LET e == slls.uedges[i] IN <<e, <<e[4], e[3], e[2], e[1]>>>>]) \o slls.dedges
decode(data) == build(Built(Unfolded(decode_to_slls(data))), FALSE, FALSE).automaton

-----------------------------------------------------------------------------
(* Operations *)

\* To a state between two locations, out at x and in again at y for <<x, y>> in
\* joins: what can be done from there is added, until nothing changes.
RECURSIVE Rejoined(_, _)
Rejoined(a, joins) ==
  LET pairs == UNION {{<<s, e>> : e \in UNION {step(a, d, j[2]) : d \in step(a, s, j[1])}} :
                      <<s, j>> \in (States(a) \ a.accept) \X joins}
      b == FoldSet(LAMBDA p, c : addEpsilon(c, p[1], p[2]), a, pairs)
  IN  IF b.trans = a.trans /\ b.accept = a.accept THEN b ELSE Rejoined(b, joins)

\* Mutant: only the first location is joined to itself.
acceptingClosureFirst(a, locs) == Rejoined(a, {<<0, 0>>})

acceptingClosure(a, locs) == Rejoined(a, {<<x, x>> : x \in 0..(locs - 1)})

enjoin(a, l, m) == Rejoined(a, {<<l, m>>, <<m, l>>})

\* The locations after the two that were connected are taken away.
connect_alphamap(locs, connectPoint) ==
  [x \in Symbol |-> IF x >= locs - 2 THEN Never
                    ELSE IF connectPoint + 1 = locs THEN x + 1
                    ELSE IF x < connectPoint THEN x ELSE x + 2]

\* Mutant: a location counts when it is used at all.
UsedLocations(a) == activeAlphabet(a)

\* The locations at which something else than coming out again can happen.
InterestingLocations(a) ==
  LET symbols(s, next) == {x \in Symbol : next \in step(a, s, x)}
      edges == {e \in Edges(a) : e[1] \in a.accept}
      returns(e) == /\ Cardinality(symbols(e[1], e[2])) = 1
                    /\ destinations(a, e[2]) = {e[1]}
                    /\ outgoing(a, e[2]) = symbols(e[1], e[2])
      indegree(next) == Cardinality({t \in a.trans : t[1] \in a.accept /\ t[3] = next})
      check_again == {e \in edges : returns(e)}
      known == UNION {symbols(e[1], e[2]) \cup outgoing(a, e[2]) : e \in edges \ check_again}
               \cup UNION {symbols(e[1], e[2]) : e \in {e \in check_again : indegree(e[2]) # 1}}
  IN  activeAlphabet(a) \cap known

\* The output, none if fewer than two locations are left.
RotatedLeast(c) == canonicalize_gadget(c, locations(c), FALSE).automaton
Outputs(connected, active, locs) ==
  IF Cardinality(active) <= 1 THEN {}
  ELSE {RotatedLeast(IF Cardinality(active) # locs - 2 THEN compressed(connected, active) ELSE connected)}
Output(connected, locs) ==
  LET active == InterestingLocations(connected)
  IN  [active |-> IF Cardinality(active) <= 1 THEN {} ELSE active, outputs |-> Outputs(connected, active, locs)]
connect_at(a, locs, connectPoint) ==
  Output(minimize(renumberAlphabet(enjoin(a, connectPoint, (connectPoint + 1) % locs),
                                   connect_alphamap(locs, connectPoint))), locs)

connect(a) ==
  LET locs == locations(a)
  IN  IF locs < 4 THEN {} ELSE UNION {connect_at(a, locs, p).outputs : p \in 0..(locs - 1)}

\* The locations that a connection made uninteresting.
connect_deleted_symbols(a, connectPoint) ==
  (0..(locations(a) - 3)) \ connect_at(a, locations(a), connectPoint).active

\* Mutant: rotations with the same states are taken to be the same.
find_useful_rotations_by_size(a) == {0}

\* A rotation is left out when an earlier one gives the same automaton.
Earliest(rotated) == {r \in DOMAIN rotated : \A q \in 0..(r - 1) : rotated[q] # rotated[r]}
find_useful_rotations(a) ==
  Earliest([r \in 0..(locations(a) - 1) |-> canonicalize(permuteAlphabet(a, perm(locations(a), FALSE, r)))])

\* The locations of the right operand, rotated, before location splice of the left.
slide(left, right, splice, rotation) ==
  [x \in Symbol |-> IF x < splice \/ x >= left + right THEN x
                    ELSE IF x < splice + right THEN left + ((x - splice + rotation) % right)
                    ELSE x - right]

Shuffled2(la, ra) ==
  LET left == locations(la)
  IN  minimize(shuffleAccept(la, renumberAlphabet(ra, [x \in Symbol |-> (x - left) % AlphabetSize])))

\* Connected where the right operand begins, and where it ends.
Spliced(both, left, right, rotations) ==
  UNION {connect_at(permuteAlphabet(both, slide(left, right, p[1], p[2])), left + right, p[3]).outputs :
           p \in {p \in (0..(left - 1)) \X rotations \X (0..(left + right - 1)) :
                    p[3] \in {(left + right + p[1] - 1) % (left + right), p[1] + right - 1}}}
combine(la, ra, rotations) == Spliced(Shuffled2(la, ra), locations(la), locations(ra), rotations)

\* Every pair of operands that fits.
do_combine(lefts, rights) ==
  UNION {combine(p[1], p[2], find_useful_rotations(p[2])) :
           p \in {p \in lefts \X rights : locations(p[1]) + locations(p[2]) <= AlphabetSize}}

\* The bound on the locations of the left is the precision itself.
operate_combine(lefts, rights) ==
  do_combine({l \in lefts : locations(l) <= AlphabetSize /\ Cardinality(l.accept) <= MaxLeftStates}, rights)

\* Of one input, through the encoding.
do_connect(a) == connect(decode(encode(a)))
\* Nothing, if the gadget is closed already.
Closed(a, b, closed) ==
  {r \in {canonicalize_gadget(closed, locations(b), FALSE).automaton} :
     closed.trans # b.trans /\ encode(r) # encode(a)}
CloseDecoded(a, b) == Closed(a, b, acceptingClosure(b, locations(b)))
do_close(a) == CloseDecoded(a, decode(encode(a)))
MirrorDecoded(b) == {mirror(b).automaton} \ {b}
do_mirror(a) == MirrorDecoded(decode(encode(a)))

-----------------------------------------------------------------------------

\* inflate_slls and canonicalize_from_slls of sync: for each state g the gadget
\* that begins there and its mirror image, with the rotations.  States from which
\* nothing can be done are left out.
inflate_slls(edges) ==
  FoldLeft(trans, GadgetBuilder(1 + Max({e[1] : e \in edges} \cup {e[4] : e \in edges})), Sorted(edges))
Morph(g, normal, image, initial) ==
  [gadget_state |-> g - 1, normal |-> normal.automaton, normal_rotation |-> normal.index,
   mirror |-> {image.automaton} \ {normal.automaton},
   mirror_rotation |-> IF image.automaton = normal.automaton THEN Gone ELSE image.index,
   initial_component |-> g - 1 \in initial]
MorphAt(b, g, initial) == Morph(g, build(b, TRUE, FALSE), build(b, TRUE, TRUE), initial)
Morphs(b, initial) ==
  SelectSeq([g \in 1..Len(b.at) |->
               MorphAt(FoldLeft(LAMBDA c, h : setGadgetState(c, h - 1), b, [h \in 1..g |-> h]), g, initial)],
            LAMBDA r : activeAlphabet(r.normal) # {})
MorphsOf(b) == Morphs(b, initialComponentGadgetStates(b))
canonicalize_from_slls(edges) == MorphsOf(inflate_slls(edges))

\* A gadget without traversals other than those that lead back is refused by the
\* header.  A location where nothing else happens is lost by the encoding, which
\* leaves these out: definitions that name one are not considered.
LeadsBack(t) == t[1] = t[4] /\ t[2] = t[3]
Encodable(a) ==
  /\ HeaderHolds(Stats(a))
  /\ \A x \in activeAlphabet(a) : \E t \in Traversals(a) : ~LeadsBack(t) /\ x \in {t[2], t[3]}
Defined(d) ==
  {a \in UNION {{r.normal} \cup r.mirror : r \in ToSet(canonicalize_from_slls(d))} : Encodable(a)}
RightGadgets == {build(inflate_slls(d), TRUE, FALSE).automaton : d \in Rights}

GadgetInit == \E d \in Definitions : \E a \in Defined(d) : gadget = a

GoesOn == Cardinality(gadget.accept) <= MaxStates
Connect == GoesOn /\ \E a \in do_connect(gadget) : gadget' = a
Close == GoesOn /\ \E a \in do_close(gadget) : gadget' = a
Mirror == GoesOn /\ \E a \in do_mirror(gadget) : gadget' = a
Combine == GoesOn /\ \E a \in operate_combine({gadget}, RightGadgets) : gadget' = a
GadgetNext == Connect \/ Close \/ Mirror \/ Combine

-----------------------------------------------------------------------------
(* Properties *)

\* Where one may also leave at x and enter again at y.
RECURSIVE Chained(_, _)
Chained(T, joins) ==
  LET more == T \cup {<<p[1][1], p[1][2], p[2][3], p[2][4]>> :
                       p \in {p \in T \X T : p[1][4] = p[2][1] /\ <<p[1][3], p[2][2]>> \in joins}}
  IN  IF more = T THEN T ELSE Chained(more, joins)

\* The gadget with these traversals, from state initial.
GadgetOf(T, initial) ==
  LET reached == Closure({<<t[1], t[4]>> : t \in T}, {initial})
      order == <<initial>> \o InSomeOrder(reached \ {initial})
      number(s) == (CHOOSE i \in 1..Len(order) : order[i] = s) - 1
  IN  Built(InSomeOrder({<<number(t[1]), t[2], t[3], number(t[4])>> : t \in {t \in T : t[1] \in reached}}))

\* The locations of T that are in use, closed up; nothing if fewer than two.
OnlyAt(U, used) ==
  LET place(x) == Cardinality({y \in used : y < x})
      V == {<<t[1], place(t[2]), place(t[3]), t[4]>> : t \in {t \in U : t[2] \in used /\ t[3] \in used}}
  IN  IF Cardinality(used) <= 1 THEN {} ELSE {build(GadgetOf(V, 0), FALSE, FALSE).automaton}
OnlyUsed(U) == OnlyAt(U, {x \in Symbol : \E t \in U : x \in {t[2], t[3]} /\ ~LeadsBack(t)})
OnlyInteresting(T, initial) == OnlyUsed(Traversals(minimize(GadgetOf(T, initial).automaton)))

\* Neighbouring locations l and m are joined and disappear; the others close up.
ConnectedAt(T, initial, locs, l) ==
  LET m == (l + 1) % locs
      left(x) == x \notin {l, m}
      place(x) == Cardinality({y \in 0..(x - 1) : left(y)})
      J == {t \in Chained(T, {<<l, m>>, <<m, l>>}) : left(t[2]) /\ left(t[3])}
  IN  OnlyInteresting({<<t[1], place(t[2]), place(t[3]), t[4]>> : t \in J}, initial)

\* Gadgets are deterministic, minimal automata in which traversals alternate, and
\* every location is one of the first.
GadgetTypeOK ==
  /\ gadget.det /\ gadget.min /\ gadget.can /\ 0 \in gadget.accept
  /\ \A t \in gadget.trans : t[1] \in gadget.accept <=> t[3] \notin gadget.accept
  /\ activeAlphabet(gadget) = 0..(locations(gadget) - 1)

\* What is stored of a gadget is read back as the same gadget: although traversals
\* that lead back are left out, edges are stored once for both directions and
\* states are numbered anew.  Nothing is made that the header refuses.
EncodingExact == Encodable(gadget) /\ decode(encode(gadget)) = gadget

\* The same gadget in another rotation has the same canonical form, so that it is
\* stored once.
OneFormPerGadget ==
  \A r \in 0..(locations(gadget) - 1) :
    LET turned == permuteAlphabet(gadget, perm(locations(gadget), FALSE, r))
    IN  canonicalize_gadget(turned, locations(gadget), FALSE).automaton = gadget

\* The laws that the search relies on: closing is idempotent, mirroring undoes
\* itself, and the two commute.
OnlyOf(made, a) == IF made = {} THEN a ELSE CHOOSE b \in made : TRUE
ClosedForm(a) == OnlyOf(do_close(a), a)
MirrorForm(a) == OnlyOf(do_mirror(a), a)
LawsExact ==
  \E closed \in {ClosedForm(gadget)}, image \in {MirrorForm(gadget)} :
  \E close \in {[a \in {closed, image} |-> ClosedForm(a)]}, mirrored \in {[a \in {closed, image} |-> MirrorForm(a)]} :
    close[closed] = closed /\ mirrored[image] = gadget /\ close[image] = mirrored[closed]

\* Closing lets a robot turn round at any location any number of times, and
\* nothing else.
CloseExact ==
  LET T == Chained(Traversals(gadget), {<<x, x>> : x \in Symbol})
  IN  ClosedForm(gadget) = build(GadgetOf(T, 0), FALSE, FALSE).automaton

\* Connecting at each pair of neighbours gives the gadget in which a robot passes
\* between the two locations, without the locations where nothing happens; those
\* are the ones that a report prints as deleted.
ConnectExact ==
  LET locs == locations(gadget)
  IN  locs >= 4 =>
        /\ connect(gadget) = UNION {ConnectedAt(Traversals(gadget), 0, locs, l) : l \in 0..(locs - 1)}
        /\ \A l \in 0..(locs - 1) : \A b \in connect_at(gadget, locs, l).outputs :
             locations(b) + Cardinality(connect_deleted_symbols(gadget, l)) = locs - 2

\* Combining gives every gadget that can be made by putting the right gadget in
\* some rotation before any location of the left one and connecting the two at
\* either end: leaving out rotations loses nothing.
CombineExact ==
  \A r \in RightGadgets :
    LET left == locations(gadget)
        right == locations(r)
        locs == left + right
        \* state pairs; locations of the left operand, and those of the right behind them
        place(s, k, x) == CHOOSE y \in Symbol : slide(left, right, s, k)[y] = x
        T(s, k) == {<<<<t[1], q>>, place(s, k, t[2]), place(s, k, t[3]), <<t[4], q>>>> :
                      <<t, q>> \in Traversals(gadget) \X r.accept} \cup
                   {<<<<p, t[1]>>, place(s, k, left + t[2]), place(s, k, left + t[3]), <<p, t[4]>>>> :
                      <<p, t>> \in gadget.accept \X Traversals(r)}
    IN  locs <= AlphabetSize /\ Cardinality(gadget.accept) <= MaxLeftStates =>
          operate_combine({gadget}, {r}) =
          UNION {ConnectedAt(T(p[1], p[2]), <<0, 0>>, locs, p[3]) :
                   p \in {p \in (0..(left - 1)) \X (0..(right - 1)) \X (0..(locs - 1)) :
                            p[3] \in {(locs + p[1] - 1) % locs, (p[1] + right - 1) % locs}}}
=============================================================================
