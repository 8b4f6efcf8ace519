---------------------------- MODULE Minimization ----------------------------
(***************************************************************************)
(* determinize (automaton.cpp), Hopcroft's algorithm (hopcroft.cpp), the   *)
(* partition refinement of Paige and Tarjan for nondeterministic automata  *)
(* (nfa-optimize.cpp), and the operations of Automaton that use them.  A   *)
(* partition is a sequence of sets of states; splitting a part takes the   *)
(* moved states out of it and puts them at the end as a new part.  Parts   *)
(* under suspicion are split in the order of their numbers.                *)
(***************************************************************************)
EXTENDS Automaton

\* The sets of states that the construction meets.
RECURSIVE StateSets(_, _, _)
StateSets(a, met, todo) ==
  LET nexts == {UNION {step(a, s, x) : s \in S} : <<S, x>> \in todo \X Symbol} \ {{}}
  IN  IF nexts \subseteq met THEN met ELSE StateSets(a, met \cup nexts, nexts \ met)

\* The exploded automaton of the subset construction.
Exploded(a, sets) ==
  LET order == <<{0}>> \o InSomeOrder(sets \ {{0}})
      number == [S \in sets |-> (CHOOSE i \in 1..Len(order) : order[i] = S) - 1]
      next(S, x) == UNION {step(a, s, x) : s \in S}
  IN  [n |-> Len(order),
       trans |-> {<<number[S], x, number[next(S, x)]>> :
                   <<S, x>> \in {p \in sets \X Symbol : next(p[1], p[2]) # {}}},
       accept |-> {number[S] : S \in {S \in sets : S \cap a.accept # {}}}]

determinize_64_fastpath(a) == StateSets(a, {{0}}, {{0}})

\* The sets; nothing if there are too many.  Small automata have no limit.
determinizeWithin(a, max_states) ==
  LET sets == determinize_64_fastpath(a)
  IN  IF a.n <= FastpathStates \/ Cardinality(sets) <= max_states THEN {sets} ELSE {}

determinize_explode(a, max_states) == {Exploded(a, sets) : sets \in determinizeWithin(a, max_states)}

implode(e, det, min) ==
  [n |-> e.n, trans |-> e.trans, accept |-> e.accept, det |-> det, min |-> min, can |-> FALSE]

Unlimited(a) == Exploded(a, determinize_64_fastpath(a))

determinize(a) ==
  IF a.det THEN a ELSE implode(Unlimited(a), TRUE, FALSE)

\* All states of an exploded automaton are reachable: those are dead that
\* lead to no accept state.
removeDeadStatesExploded(e) ==
  LET live == Closure(Reversed({<<t[1], t[3]>> : t \in e.trans}), e.accept)
      order == <<0>> \o Ascending(live \ {0})
      number == [s \in live |-> (CHOOSE i \in 1..Len(order) : order[i] = s) - 1]
  IN  IF Cardinality(live) = e.n THEN e
      ELSE [n |-> Len(order), accept |-> {number[s] : s \in e.accept},
            trans |-> {<<number[t[1]], t[2], number[t[3]]>> :
                        t \in {t \in e.trans : t[1] \in live /\ t[3] \in live}}]

-----------------------------------------------------------------------------
(* Partitions *)

\* Parts are divided by whether their states can take the symbol.  A part that
\* is not divided stays, also when it is empty.
SplitOn(parts, inside) ==
  FlattenSeq([i \in 1..Len(parts) |->
    LET yes == parts[i] \cap inside no == parts[i] \ inside
    IN  IF yes = {} \/ no = {} THEN <<parts[i]>> ELSE <<yes, no>>])

Noncrashing(trans, x) == {t[1] : t \in {t \in trans : t[2] = x}}
partitionOnCrashing(parts, trans) ==
  FoldLeft(LAMBDA p, x : SplitOn(p, Noncrashing(trans, x)), parts,
           SelectSeq(Symbols, LAMBDA x : \E t \in trans : t[2] = x))

\* The states with a transition on x into S.
inverseStep(trans, S, x) == {t[1] : t \in {t \in trans : t[2] = x /\ t[3] \in S}}

Suspects(parts, moved) ==
  SelectSeq([i \in 1..Len(parts) |-> i],
            LAMBDA i : parts[i] \cap moved # {} /\ ~(parts[i] \subseteq moved))

Smaller(parts, p, q) == IF Cardinality(parts[p]) <= Cardinality(parts[q]) THEN p ELSE q

\* Mutant: the old part is added to the waiting set whatever is there.
addBetterOld(L, parts, part, x) ==
  IF <<part, x>> \in ToSet(L) THEN L ELSE Append(L, <<part, x>>)

\* After the last part was split off from part: if that one waits, so does the
\* new one; otherwise the smaller of the two.
addBetter(L, parts, part, x) ==
  Append(L, IF <<part, x>> \in ToSet(L) THEN <<Len(parts), x>>
                                        ELSE <<Smaller(parts, part, Len(parts)), x>>)

refine(w, moved) ==
  LET split(v, part) ==
        LET parts == Append([v.parts EXCEPT ![part] = @ \ moved], v.parts[part] \cap moved)
        IN  [parts |-> parts,
             L |-> FoldLeft(LAMBDA L, x : addBetter(L, parts, part, x), v.L, Symbols)]
  IN  FoldLeft(split, w, Suspects(w.parts, moved))

initializeWaitingSet(parts) ==
  LET largest == CHOOSE p \in 1..Len(parts) :
                   /\ \A q \in 1..Len(parts) : Cardinality(parts[q]) <= Cardinality(parts[p])
                   /\ \A q \in 1..(p - 1) : Cardinality(parts[q]) < Cardinality(parts[p])
      others == SelectSeq([i \in 1..Len(parts) |-> i], LAMBDA p : p # largest)
  IN  FlattenSeq([i \in 1..AlphabetSize |-> [k \in 1..Len(others) |-> <<others[k], i - 1>>]])

\* w: the partition and the waiting set L_
RECURSIVE coreLoop(_, _)
coreLoop(e, w) ==
  IF w.L = <<>> THEN w.parts
  ELSE LET first == Head(w.L)
           new == refine([w EXCEPT !.L = Tail(@)], inverseStep(e.trans, w.parts[first[1]], first[2]))
       IN  IF Len(new.parts) = e.n THEN new.parts ELSE coreLoop(e, new)

\* The part of the initial state gets 0, the others count from 1.
finish(e, parts) ==
  LET initial == CHOOSE p \in 1..Len(parts) : 0 \in parts[p]
      number(p) == IF p = initial THEN 0 ELSE IF p < initial THEN p ELSE p - 1
      map == [s \in 0..(e.n - 1) |-> number(CHOOSE p \in 1..Len(parts) : s \in parts[p])]
  IN  [n |-> Len(parts), accept |-> {map[s] : s \in e.accept},
       trans |-> {<<map[t[1]], t[2], map[t[3]]>> : t \in e.trans}]

Refined(e, first) == coreLoop(e, [parts |-> first, L |-> initializeWaitingSet(first)])
Merged(e, parts) == IF Len(parts) = e.n THEN e ELSE finish(e, parts)
hopcroft(e) ==
  LET nonfinal == (0..(e.n - 1)) \ e.accept
      crashed == Cardinality(e.trans) # e.n * AlphabetSize
      first == <<nonfinal, e.accept>>
  IN  IF nonfinal = {} /\ ~crashed THEN [n |-> e.n, trans |-> {}, accept |-> {0}]
      ELSE Merged(e, Refined(e, IF crashed THEN partitionOnCrashing(first, e.trans) ELSE first))

-----------------------------------------------------------------------------
(* NFAOptimizer.  x: the partition, the splitters (a sequence of sequences *)
(* of parts) and the queue of splitters that have more than one part.      *)

UnionOf(x, list) == UNION {x.parts[p] : p \in ToSet(list)}

\* Splits the parts that moved divides; the new part joins its splitter after
\* the head.
SplitBy(x, moved) ==
  LET split(y, part) ==
        LET new == Len(y.parts) + 1
            k == CHOOSE i \in 1..Len(y.splitters) : part \in ToSet(y.splitters[i])
            list == y.splitters[k]
        IN  [parts |-> Append([y.parts EXCEPT ![part] = @ \ moved], y.parts[part] \cap moved),
             splitters |-> [y.splitters EXCEPT ![k] = <<Head(list), new>> \o Tail(list)],
             waiting |-> IF Len(list) = 1 THEN Append(y.waiting, k) ELSE y.waiting]
  IN  FoldLeft(split, x, Suspects(x.parts, moved))

\* The states that lead into B and not into the rest of its old splitter; the
\* counts of transitions per splitter, symbol and state compute this set.
Collect(trans, B, rest, x) == inverseStep(trans, B, x) \ inverseStep(trans, rest, x)

RECURSIVE optimizerLoop(_, _)
optimizerLoop(trans, x) ==
  IF x.waiting = <<>> THEN x.parts
  ELSE LET k == Head(x.waiting)
           list == x.splitters[k]
           \* of the first two parts the smaller one is taken out
           swapped == Cardinality(x.parts[list[1]]) < Cardinality(x.parts[list[2]])
           refiner == IF swapped THEN list[1] ELSE list[2]
           remainder == <<IF swapped THEN list[2] ELSE list[1]>> \o SubSeq(list, 3, Len(list))
           B == x.parts[refiner]
           rest == UnionOf(x, remainder)
           selected == [x EXCEPT !.splitters = Append([@ EXCEPT ![k] = remainder], <<refiner>>),
                                 !.waiting = IF Len(remainder) = 1 THEN Tail(@) ELSE @]
       IN  optimizerLoop(trans,
             FoldLeft(LAMBDA y, s : SplitBy(SplitBy(y, inverseStep(trans, B, s)), Collect(trans, B, rest, s)),
                      selected, Symbols))

Directed(a, reversed) == IF reversed THEN {<<t[3], t[2], t[1]>> : t \in a.trans} ELSE a.trans

\* Mutant: empty parts stay.
initialPartitionsKept(a, reversed) ==
  LET final == IF reversed THEN {0} ELSE a.accept
  IN  partitionOnCrashing(<<States(a) \ final, final>>, Directed(a, reversed))

\* An empty part goes when the parts are divided on a symbol; without any
\* transitions they are not divided, and it stays.
initialPartitions(a, reversed) ==
  LET final == IF reversed THEN {0} ELSE a.accept
      parts == partitionOnCrashing(<<States(a) \ final, final>>, Directed(a, reversed))
  IN  IF a.trans = {} THEN parts ELSE SelectSeq(parts, LAMBDA p : p # {})

\* The partition of the states of a: by what they accept, or, reversed, by what
\* leads to them.
equivalence(a, reversed) ==
  LET first == initialPartitions(a, reversed)
  IN  optimizerLoop(Directed(a, reversed), [parts |-> first,
                                            splitters |-> <<[i \in 1..Len(first) |-> i]>>,
                                            waiting |-> IF Len(first) > 1 THEN <<1>> ELSE <<>>])

\* The list of parts has a node per state, and the process aborts when it needs
\* more; the result goes into an array with a place per transition, and is
\* written past its end when there are more parts to be merged.
ResultFits(a, reversed) ==
  /\ Len(initialPartitions(a, reversed)) <= a.n
  /\ LET size == Len(equivalence(a, reversed)) IN size = a.n \/ size <= Cardinality(a.trans)

\* Each part keeps the number of one of its states below newSize, the initial
\* one's part 0; a part without such a state takes a number left over.
survivors(parts, newSize) ==
  LET kept == [p \in {p \in 1..newSize : \E s \in parts[p] : s < newSize} |-> Min(parts[p])]
      over(without) == Ascending((0..(newSize - 1)) \ {kept[p] : p \in DOMAIN kept})[without]
  IN  [i \in 1..newSize |-> IF i \in DOMAIN kept THEN kept[i]
                             ELSE over(Cardinality({p \in 1..i : p \notin DOMAIN kept}))]

\* The state whose transitions and whose acceptance part i keeps.
comes_from(parts, survivor, i) == IF survivor[i] \in parts[i] THEN survivor[i] ELSE Min(parts[i])

Renumbering(a, parts, survivor) ==
  [newSize |-> Len(parts),
   remap |-> [s \in States(a) |-> survivor[CHOOSE p \in 1..Len(parts) : s \in parts[p]]],
   survivorsFrom |-> [k \in 0..(Len(parts) - 1) |->
     comes_from(parts, survivor, CHOOSE i \in 1..Len(parts) : survivor[i] = k)]]
RenumberingOf(a, parts) == Renumbering(a, parts, survivors(parts, Len(parts)))
optimize_for_renumber(a, reversed) == RenumberingOf(a, equivalence(a, reversed))

MinimizedLive(e) == IF e.trans = {} THEN epsilon ELSE implode(hopcroft(e), TRUE, TRUE)
minimizeExploded(exp) ==
  IF exp.accept = {} THEN empty ELSE MinimizedLive(removeDeadStatesExploded(exp))

\* For an automaton not known to be deterministic.
Compressed(a, reversed, parts) ==
  LET res == RenumberingOf(a, parts)
  IN  IF Len(parts) = a.n THEN a
      ELSE IF reversed THEN mergeRenumber(a, res.newSize, res.survivorsFrom, res.remap)
      ELSE compressRenumber(a, res.newSize, res.survivorsFrom, res.remap)

AcceptsNothing(a, reversed) == ~reversed /\ a.accept = {}
AcceptsAll(a, reversed) ==
  ~reversed /\ a.accept = States(a) /\ \A s \in States(a) : outgoing(a, s) = Symbol
Partitions(a, reversed) == ~a.det /\ ~AcceptsNothing(a, reversed) /\ ~AcceptsAll(a, reversed)

optimizeOnce(a, reversed) ==
  IF a.det THEN IF a.min THEN a ELSE minimizeExploded(Unlimited(a))
  ELSE IF AcceptsNothing(a, reversed) THEN empty
  ELSE IF AcceptsAll(a, reversed) THEN all
  ELSE Compressed(a, reversed, equivalence(a, reversed))

\* The four kinds, as the directions of their passes.
OptimizeKind == {"RIGHT", "LEFT", "RIGHT_LEFT", "LEFT_RIGHT"}
Passes == [RIGHT |-> <<FALSE>>, LEFT |-> <<TRUE>>, RIGHT_LEFT |-> <<FALSE, TRUE>>, LEFT_RIGHT |-> <<TRUE, FALSE>>]
optimize(a, how) == FoldLeft(optimizeOnce, a, Passes[how])

\* Every pass of optimize comes to a result.
Optimizes(a, how) ==
  \A i \in 1..Len(Passes[how]) :
    LET b == FoldLeft(optimizeOnce, a, SubSeq(Passes[how], 1, i - 1))
    IN  Partitions(b, Passes[how][i]) => ResultFits(b, Passes[how][i])

-----------------------------------------------------------------------------
(* Minimal and canonical forms *)

\* An automaton that explodes beyond the limit is optimized first, and the
\* second attempt has no limit.
Explosion(a, first) ==
  IF first # {} THEN CHOOSE e \in first : TRUE
  ELSE Unlimited(optimize(a, "RIGHT"))
Minimizes(a) == a.min \/ a.det \/ determinize_explode(a, MaxDeterminized) # {} \/ Optimizes(a, "RIGHT")
minimize(a) ==
  IF a.min THEN a
  ELSE minimizeExploded(IF a.det THEN Unlimited(a)
                        ELSE Explosion(a, determinize_explode(a, MaxDeterminized)))

\* m: the minimal form of a.
Canonical(a, m) ==
  IF a.can THEN a
  ELSE [renumberStates(m, NumbersOf(m, LazyEdgeEnumerator(m, identity_permutation).order)) EXCEPT !.can = TRUE]
canonicalize(a) == Canonical(a, minimize(a))

EdgeLess(e, f) ==
  \/ e[1] < f[1]
  \/ e[1] = f[1] /\ e[2] < f[2]
  \/ e[1] = f[1] /\ e[2] = f[2] /\ e[3] < f[3]

\* Mutant: the edges are not compared.
LeastFromAny(enumerations, i) == enumerations

\* The enumerators go in step, and those whose edge is not least are dropped.
RECURSIVE LeastFrom(_, _)
LeastFrom(enumerations, i) ==
  LET least == {r \in enumerations :
                  \A q \in enumerations : ~EdgeLess(q.edges[i], r.edges[i])}
  IN  IF \E r \in enumerations : i > Len(r.edges) THEN enumerations
      ELSE LeastFrom(least, i + 1)

\* The permutation under which the enumeration of edges is least; if there are
\* several, the automaton looks the same under them.
Least(m, perms) ==
  CHOOSE r \in LeastFrom({[perm |-> p, order |-> LazyEdgeEnumerator(m, p).order,
                           edges |-> LazyEdgeEnumerator(m, p).edges] : p \in perms}, 1) : TRUE
Relabelling(m, r) ==
  [automaton |-> [renumber(m, NumbersOf(m, r.order), r.perm) EXCEPT !.can = TRUE], perm |-> r.perm]
LeastForm(m, perms) == Relabelling(m, Least(m, perms))
canonicalizeRenumber(a, perms) == LeastForm(minimize(a), perms)
=============================================================================
