----------------------------- MODULE Automaton ------------------------------
(***************************************************************************)
(* automaton.hpp, automaton.tcc, automaton.cpp: finite automata.  A value  *)
(* has n states, 0 being the initial one, a set of transitions             *)
(* <<from, symbol, to>>, its accept states, and three flags that say what  *)
(* is known of it.  Each operator gives the automaton after one call.  The *)
(* order of transitions in memory is left out; the numbers that states get *)
(* from the order of a hash set are any numbers with the initial state 0.  *)
(***************************************************************************)
EXTENDS Integers, Sequences, FiniteSets, TLC, SequencesExt, FiniteSetsExt

CONSTANTS
  AlphabetSize,
  FastpathStates,   \* up to so many states, determinize has no limit
  MaxDeterminized,  \* the limit of minimize's first attempt otherwise
  CounterBits       \* width of a state number, 32 in the code

Symbol == 0..(AlphabetSize - 1)
Symbols == [i \in 1..AlphabetSize |-> i - 1]
Gone == -1
InSomeOrder(S) == FoldSet(LAMBDA x, seq : Append(seq, x), <<>>, S)
Ascending(S) == SortSeq(InSomeOrder(S), <)

States(a) == 0..(a.n - 1)
step(a, s, x) == {t[3] : t \in {t \in a.trans : t[1] = s /\ t[2] = x}}
destinations(a, s) == {t[3] : t \in {t \in a.trans : t[1] = s}}
outgoing(a, s) == {t[2] : t \in {t \in a.trans : t[1] = s}}
activeAlphabet(a) == {t[2] : t \in a.trans}

isStateDeterministic(a, s) == \A x \in Symbol : Cardinality(step(a, s, x)) <= 1

\* AutomatonBase::run
run(a, string) ==
  FoldLeft(LAMBDA current, x : UNION {step(a, s, x) : s \in current}, {0}, string) \cap a.accept # {}

-----------------------------------------------------------------------------
(* Building *)

clear == [n |-> 0, trans |-> {}, accept |-> {}, det |-> TRUE, min |-> FALSE, can |-> FALSE]

Edited(a) == [a EXCEPT !.min = FALSE, !.can = FALSE]

addState(a) == Edited([a EXCEPT !.n = @ + 1])

\* Mutant: deterministic_ is not looked at again where there was an edge.
addTransFlagKept(a, from, symbols, to) ==
  LET b == [a EXCEPT !.trans = @ \cup {<<from, x, to>> : x \in symbols}]
  IN  IF to \in destinations(a, from) THEN b
      ELSE Edited([b EXCEPT !.det = @ /\ isStateDeterministic(b, from)])

\* Some symbols, or one.  When there was an edge between the two states the
\* flags minimal_ and canonical_ stay.
addTrans(a, from, symbols, to) ==
  LET b == [a EXCEPT !.trans = @ \cup {<<from, x, to>> : x \in symbols}]
      c == [b EXCEPT !.det = @ /\ isStateDeterministic(b, from)]
  IN  CASE b = a -> a
        [] b # a /\ to \in destinations(a, from) -> c
        [] b # a /\ to \notin destinations(a, from) -> Edited(c)

setAccept(a, s, accepts) ==
  Edited([a EXCEPT !.accept = IF accepts THEN @ \cup {s} ELSE @ \ {s}])

addEpsilon(a, from, to) ==
  LET b == [a EXCEPT !.trans = @ \cup {<<from, t[2], t[3]>> : t \in {t \in a.trans : t[1] = to}},
                     !.accept = IF to \in @ THEN @ \cup {from} ELSE @]
  IN  Edited([b EXCEPT !.det = @ /\ isStateDeterministic(b, from)])

append(a, b) ==
  Edited([n |-> a.n + b.n,
          trans |-> a.trans \cup {<<t[1] + a.n, t[2], t[3] + a.n>> : t \in b.trans},
          accept |-> a.accept \cup {s + a.n : s \in b.accept},
          det |-> a.det /\ b.det, min |-> FALSE, can |-> FALSE])

empty == [addState(clear) EXCEPT !.min = TRUE, !.can = TRUE]
epsilon == [setAccept(addState(clear), 0, TRUE) EXCEPT !.min = TRUE, !.can = TRUE]
all == [addTrans(setAccept(addState(clear), 0, TRUE), 0, Symbol, 0) EXCEPT !.min = TRUE, !.can = TRUE]
any == [addTrans(setAccept(addState(addState(clear)), 1, TRUE), 0, Symbol, 1) EXCEPT !.min = TRUE, !.can = TRUE]
do_lit(symbols) ==
  setAccept(FoldLeft(LAMBDA a, x : addTrans(addState(a), a.n - 1, {x}, a.n), addState(clear), symbols),
            Len(symbols), TRUE)
lit(symbols) == [do_lit(symbols) EXCEPT !.min = TRUE, !.can = Len(symbols) <= 1]

-----------------------------------------------------------------------------
(* Reachability *)

RECURSIVE Closure(_, _)
Closure(pairs, from) ==
  LET more == from \cup {p[2] : p \in {p \in pairs : p[1] \in from}}
  IN  IF more = from THEN from ELSE Closure(pairs, more)

Edges(a) == {<<t[1], t[3]>> : t \in a.trans}
Reversed(pairs) == {<<p[2], p[1]>> : p \in pairs}

\* Mutant: an accept state counts although it cannot be reached.
live_states_backward(a) == Closure(Reversed(Edges(a)), a.accept)

\* Backward from the accept states that were reached forward, over the edges
\* that were met.
live_states(a) ==
  LET reached == Closure(Edges(a), {0})
  IN  Closure(Reversed({p \in Edges(a) : p[1] \in reached}), a.accept \cap reached)

\* States keep their numbers where they can; the others take what is free.
find_dead_state_renumbering(a, live) ==
  LET size == Cardinality(live)
      high == Ascending({s \in live : s >= size})
      free == Ascending({k \in 0..(size - 1) : k \notin live})
  IN  [s \in States(a) |-> IF s \notin live THEN Gone
                           ELSE IF s < size THEN s
                           ELSE free[CHOOSE i \in 1..Len(high) : high[i] = s]]

\* State k takes the transitions of survivorFrom[k]; all are renumbered, and
\* those that lead nowhere go.
compressRenumber(a, newSize, survivorFrom, remapping) ==
  [n |-> newSize,
   trans |-> UNION {{<<k, t[2], remapping[t[3]]>> :
                      t \in {t \in a.trans : t[1] = survivorFrom[k] /\ remapping[t[3]] # Gone}}
                    : k \in 0..(newSize - 1)},
   accept |-> {k \in 0..(newSize - 1) : survivorFrom[k] \in a.accept},
   det |-> FALSE, min |-> FALSE, can |-> FALSE]

\* Mutant: the survivors keep only their own transitions.
mergeRenumberSurvivors(a, newSize, survivorFrom, remapping) ==
  compressRenumber(a, newSize, survivorFrom, remapping)

\* First the transitions of all states that become k are given to
\* survivorFrom[k].  The accept states are not merged.
mergeRenumber(a, newSize, survivorFrom, remapping) ==
  compressRenumber(
    [a EXCEPT !.trans = {<<IF remapping[t[1]] = Gone THEN t[1] ELSE survivorFrom[remapping[t[1]]],
                           t[2], t[3]>> : t \in @}],
    newSize, survivorFrom, remapping)

Survivors(remapping, newSize) ==
  [k \in 0..(newSize - 1) |-> CHOOSE s \in DOMAIN remapping : remapping[s] = k]

removeDeadStates(a) ==
  LET live == live_states(a)
      remapping == find_dead_state_renumbering(a, live)
      size == Cardinality(live)
  IN  CASE size = a.n -> a
        [] size = 0 /\ a.n # 0 -> empty
        [] size # 0 /\ size # a.n ->
             [compressRenumber(a, size, Survivors(remapping, size), remapping) EXCEPT !.det = a.det]

\* Asking changes the automaton; here is only the answer.
isEmpty(a) == LET b == removeDeadStates(a) IN b.n = 1 /\ b.accept = {}

\* The depth-first search of infinite: a destination that is on the path
\* closes a cycle.  Gone marks the end of a state's successors.
RECURSIVE Cycle(_, _, _, _)
Cycle(a, path, nexts, visited) ==
  IF nexts = <<>> THEN FALSE
  ELSE IF Last(nexts) = Gone
  THEN Cycle(a, Front(path), Front(nexts), visited \cup {Last(path)})
  ELSE LET n == Last(nexts)
           new == Append(path, n)
       IN  IF destinations(a, n) \cap ToSet(new) # {} THEN TRUE
           ELSE Cycle(a, new, Append(Front(nexts), Gone) \o InSomeOrder(destinations(a, n) \ visited), visited)

\* Mutant: cycles among states that lead nowhere count.
infinite_untrimmed(a) == Cycle(a, <<>>, <<0>>, {})

infinite(a) == LET b == removeDeadStates(a) IN Cycle(b, <<>>, <<0>>, {})

\* Fills in transitions to a crash state, that one's own too.
totalize(a) ==
  IF \A s \in States(a) : outgoing(a, s) = Symbol THEN a
  ELSE LET crash == a.n
           b == addState(a)
       IN  FoldLeft(LAMBDA c, s : addTrans(c, s, Symbol \ outgoing(c, s), crash),
                    b, [i \in 1..b.n |-> i - 1])

-----------------------------------------------------------------------------
(* Tarjan's strongly connected components.  The counter that numbers the   *)
(* states is not initialized, so that first is any number that fits; it    *)
(* wraps, and the largest number marks a state as not visited.             *)

Counts == 0..(2^CounterBits - 1)
Unvisited == 2^CounterBits - 1

RECURSIVE strongconnect(_, _, _)
\* st: number, stack, index, components; low: the lowlink returned
strongconnect(a, st, v) ==
  LET start == [st EXCEPT !.number[v] = st.index, !.stack = Append(@, v),
                          !.index = (@ + 1) % 2^CounterBits, !.low = st.index]
      visit(x, w) ==
        IF x.number[w] = Unvisited
        THEN LET y == strongconnect(a, x, w) IN [y EXCEPT !.low = Min({x.low, y.low})]
        ELSE IF x.number[w] < x.number[v] /\ w \in ToSet(x.stack)
        THEN [x EXCEPT !.low = Min({@, x.number[w]})]
        ELSE x
      end == FoldLeft(visit, start, Ascending(destinations(a, v)))
      below == {i \in 1..Len(end.stack) : end.number[end.stack[i]] < end.number[v]}
      kept == Max(below \cup {0})
  IN  IF end.low # end.number[v] THEN end
      ELSE [end EXCEPT !.components = Append(@, SubSeq(end.stack, kept + 1, Len(end.stack))),
                       !.stack = SubSeq(@, 1, kept)]

Tarjan(a, first) ==
  [number |-> [s \in States(a) |-> Unvisited], stack |-> <<>>, index |-> first,
   components |-> <<>>, low |-> first]

\* Mutant: states that were met before are begun with again.
find_components_again(a, first) ==
  FoldLeft(LAMBDA st, w : strongconnect(a, st, w), Tarjan(a, first), [i \in 1..a.n |-> i - 1]).components

find_components(a, first) ==
  FoldLeft(LAMBDA st, w : IF st.number[w] # Unvisited THEN st ELSE strongconnect(a, st, w),
           Tarjan(a, first), [i \in 1..a.n |-> i - 1]).components

-----------------------------------------------------------------------------
(* Renumbering *)

\* new symbol x is where old symbol map[x] was; Never and Always are constants
Never == -1
Always == -2
Relabelled(a, map) ==
  LET edges == Edges(a)
  IN  UNION {{<<e[1], x, e[2]>> :
               x \in {x \in Symbol : map[x] = Always \/ <<e[1], map[x], e[2]>> \in a.trans}} : e \in edges}

renumberAlphabet(a, map) ==
  LET b == [a EXCEPT !.trans = Relabelled(a, map)]
  IN  Edited([b EXCEPT !.det = @ /\ \A s \in States(b) : isStateDeterministic(b, s)])

permuteAlphabet(a, map) == [a EXCEPT !.trans = Relabelled(a, map), !.can = FALSE]

renumberStates(a, states) ==
  [a EXCEPT !.trans = {<<states[t[1]], t[2], states[t[3]]>> : t \in @},
            !.accept = {states[s] : s \in @},
            !.min = @ /\ states[0] = 0, !.can = FALSE]

renumber(a, states, symbols) ==
  renumberStates([a EXCEPT !.trans = Relabelled(a, symbols)], states)

swapStateNumbers(a, p, q) ==
  IF p = q THEN a
  ELSE renumberStates(a, [s \in States(a) |-> IF s = p THEN q ELSE IF s = q THEN p ELSE s])

\* The edges of a deterministic automaton in the order in which they are met
\* from the initial state on, each as <<from, to, symbol>> in the new numbers.
RECURSIVE EnumerateFrom(_, _, _, _, _)
EnumerateFrom(a, perm, i, order, edges) ==
  IF i > Len(order) THEN [order |-> order, edges |-> edges]
  ELSE LET visit(acc, x) ==
             LET dests == step(a, order[i], perm[x])
                 dest == CHOOSE t \in dests : TRUE
                 met == IF dest \in ToSet(acc.order) THEN acc.order ELSE Append(acc.order, dest)
             IN  IF dests = {} THEN acc
                 ELSE [order |-> met,
                       edges |-> Append(acc.edges, <<i - 1, (CHOOSE k \in 1..Len(met) : met[k] = dest) - 1, x>>)]
           new == FoldLeft(visit, [order |-> order, edges |-> edges], Symbols)
       IN  EnumerateFrom(a, perm, i + 1, new.order, new.edges)

LazyEdgeEnumerator(a, perm) == EnumerateFrom(a, perm, 1, <<0>>, <<>>)
identity_permutation == [x \in Symbol |-> x]

\* renumbering[s] of an enumeration; a state that was not met has no number
NumbersOf(a, order) ==
  [s \in States(a) |-> IF s \in ToSet(order) THEN (CHOOSE k \in 1..Len(order) : order[k] = s) - 1 ELSE Gone]
=============================================================================
