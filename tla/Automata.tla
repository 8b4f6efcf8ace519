------------------------------ MODULE Automata ------------------------------
(***************************************************************************)
(* The life of one automaton object: it is edited and transformed in any   *)
(* order, and what the operations promise is compared with definitions by  *)
(* languages.  Two automata accept the same words iff no pair of sets of   *)
(* states that one word leads to differs in acceptance.                    *)
(***************************************************************************)
EXTENDS Regexesque

CONSTANTS Start, MaxStates, MaxTransitions, MaxWord, MaxCombined

VARIABLE a

AutomatonInit == a \in Start

Small(b) == b.n <= MaxStates \/ b.n <= a.n
Fits(b) == b.n <= MaxStates /\ Cardinality(b.trans) <= MaxTransitions

add_state == Fits(addState(a)) /\ a' = addState(a)
add_trans(from, symbols, to) ==
  Fits(addTrans(a, from, symbols, to)) /\ a' = addTrans(a, from, symbols, to)
set_accept(s, accepts) == Fits(a) /\ a' = setAccept(a, s, accepts)
add_epsilon(from, to) == Fits(addEpsilon(a, from, to)) /\ a' = addEpsilon(a, from, to)
append_copy == Fits(append(a, a)) /\ a' = append(a, a)

-----------------------------------------------------------------------------
(* Languages *)

Word == BoundedSeq(Symbol, MaxWord)
Language(b) == {w \in Word : run(b, w)}
After(b, S, x) == UNION {step(b, s, x) : s \in S}

RECURSIVE PairsFrom(_, _, _, _)
PairsFrom(b, c, met, todo) ==
  LET new == {<<After(b, p[1], x), After(c, p[2], x)>> : <<p, x>> \in todo \X Symbol} \ met
  IN  IF new = {} THEN met ELSE PairsFrom(b, c, met \cup new, new)

SameFrom(b, S, c, T) ==
  \A p \in PairsFrom(b, c, {<<S, T>>}, {<<S, T>>}) : (p[1] \cap b.accept = {}) = (p[2] \cap c.accept = {})
SameLanguage(b, c) == SameFrom(b, {0}, c, {0})

\* Words that can be continued to an accepted one are accepted themselves.
PrefixClosed(b) ==
  \A S \in StateSets(b, {{0}}, {{0}}) : S \cap b.accept = {} => SameFrom(b, S, empty, {})

Deterministic(b) == \A s \in States(b) : isStateDeterministic(b, s)

\* No two states accept the same words from there on, and all are needed.
Minimal(b) ==
  /\ Deterministic(b)
  /\ \A s \in States(b) : s # 0 => /\ s \in Closure(Edges(b), {0})
                                   /\ ~SameFrom(b, {s}, empty, {})
  /\ \A s, r \in States(b) : s < r => ~SameFrom(b, {s}, b, {r})

\* The states are numbered in the order of the least words that lead to them.
FirstEdge(b, k) ==
  CHOOSE t \in b.trans : /\ t[3] = k
                         /\ \A u \in b.trans : u[3] = k => u[1] > t[1] \/ (u[1] = t[1] /\ u[2] >= t[2])
InWordOrder(b) ==
  \A k \in 1..(b.n - 1) :
    /\ FirstEdge(b, k)[1] < k
    /\ k + 1 < b.n => \/ FirstEdge(b, k)[1] < FirstEdge(b, k + 1)[1]
                      \/ /\ FirstEdge(b, k)[1] = FirstEdge(b, k + 1)[1]
                         /\ FirstEdge(b, k)[2] < FirstEdge(b, k + 1)[2]

\* addTrans leaves minimal_ and canonical_ alone where there was an edge (see
\* automaton.hpp, "true if this automaton is known to be minimal and false
\* otherwise"): canonical forms are about automata whose flags are true.
FlagsTrue == (a.min => Minimal(a)) /\ (a.can => a.min /\ InWordOrder(a))

\* What the transformations make of an automaton whose flags are false is left
\* out, and so are those that come to no result (see ResultFits).
change(b) == a.n > 0 /\ FlagsTrue /\ Small(b) /\ a' = b

AutomatonNext ==
  \/ add_state
  \/ \E from, to \in States(a), symbols \in (SUBSET Symbol) \ {{}} : add_trans(from, symbols, to)
  \/ \E s \in States(a), accepts \in BOOLEAN : set_accept(s, accepts)
  \/ \E from, to \in States(a) : from # to /\ add_epsilon(from, to)
  \/ append_copy
  \/ change(determinize(a))
  \/ change(removeDeadStates(a))
  \/ change(totalize(a))
  \/ Minimizes(a) /\ change(minimize(a))
  \/ Minimizes(a) /\ change(canonicalize(a))
  \/ \E how \in OptimizeKind : a.n > 0 /\ Optimizes(a, how) /\ change(optimize(a, how))
  \/ \E p, q \in States(a) : Fits(a) /\ change(swapStateNumbers(a, p, q))
  \/ \E map \in [Symbol -> Symbol \cup {Never, Always}] :
       Fits(renumberAlphabet(a, map)) /\ change(renumberAlphabet(a, map))
  \/ Minimizes(a) /\ change(canonicalizeRenumber(a, Permutations(Symbol)).automaton)

-----------------------------------------------------------------------------
(* Properties *)

AutomatonTypeOK ==
  /\ a.n \in Nat
  /\ a.trans \subseteq States(a) \X Symbol \X States(a)
  /\ a.accept \subseteq States(a)
  /\ {a.det, a.min, a.can} \subseteq BOOLEAN

\* After any sequence of edits an automaton that is taken for deterministic is
\* deterministic: determinize and minimize skip the subset construction for it.
DeterministicFlagSound == a.det => Deterministic(a)

\* determinize, totalize, removeDeadStates, minimize, canonicalize and
\* optimize(RIGHT) do not change the language, also if minimal and canonical are
\* set and not true: a stale flag costs the form, never words.  Excepted are
\* automata that optimize comes to no result for (see ResultFits) and prefix-closed
\* ones: of a total automaton all of whose states accept, initialize in hopcroft.cpp
\* clears the edges, so that only the empty word is left; otherwise the class without
\* states stays, and equivalent states may be kept apart.
LanguageKept ==
  a.n > 0 =>
    /\ \A b \in {determinize(a), totalize(a), removeDeadStates(a)} : SameLanguage(a, b)
    /\ Minimizes(a) /\ ~PrefixClosed(a) => \A b \in {minimize(a), canonicalize(a)} : SameLanguage(a, b)
    /\ ~a.det /\ Optimizes(a, "RIGHT") => SameLanguage(a, optimize(a, "RIGHT"))

\* optimize(LEFT) merges states that the same words lead to.  It does not merge
\* their acceptance, so it keeps the language only where they agree in it.
LeftOptimizeKept ==
  LET agree(remapping) ==
        \A s, r \in States(a) : remapping[s] = remapping[r] => (s \in a.accept) = (r \in a.accept)
  IN  a.n > 0 /\ ~a.det /\ Optimizes(a, "LEFT") /\ agree(optimize_for_renumber(a, TRUE).remap) => SameLanguage(a, optimize(a, "LEFT"))

\* The comment of canonicalize: canonical automata are structurally equal iff
\* they accept the same language.  The form is the minimal deterministic automaton
\* with its states in the order of their least words, also if the subset
\* construction first gave up.  A prefix-closed language is excepted (see
\* LanguageKept), and so are automata whose flags are false (see FlagsTrue).
IsCanonical(c) == SameLanguage(a, c) /\ Minimal(c) /\ InWordOrder(c)
CanonicalForm == a.n > 0 /\ FlagsTrue /\ Minimizes(a) /\ ~PrefixClosed(a) => IsCanonical(canonicalize(a))

\* The permutations that are left when all edges have been compared.
Ties(b, perms) ==
  LeastFrom({[perm |-> p, order |-> LazyEdgeEnumerator(b, p).order, edges |-> LazyEdgeEnumerator(b, p).edges]
             : p \in perms}, 1)
TiesAgree(m, perms) ==
  \A r, q \in Ties(m, perms) :
    \A k \in 1..Len(r.order) : (r.order[k] \in m.accept) = (q.order[k] \in m.accept)

\* The form under a group of permutations of the symbols is the same for all the
\* permuted automata, and it is the automaton permuted by what is returned.
\* Only edges are compared, so the automata under the permutations that are left
\* must agree in acceptance; the comment, "they are equivalent", takes it for granted.
CanonicalUnderGroup ==
  a.n > 0 /\ FlagsTrue /\ Minimizes(a) /\ ~PrefixClosed(a) /\ TiesAgree(minimize(a), Permutations(Symbol)) =>
    \E r \in {canonicalizeRenumber(a, Permutations(Symbol))} :
        /\ SameLanguage(r.automaton, permuteAlphabet(a, r.perm))
        /\ \A p \in Permutations(Symbol) :
             canonicalizeRenumber(permuteAlphabet(a, p), Permutations(Symbol)).automaton = r.automaton

ComponentsFrom(first) ==
  LET reach == [s \in States(a) |-> Closure(Edges(a), {s})]
      found == find_components(a, first)
  IN  /\ {ToSet(found[i]) : i \in 1..Len(found)} =
            {{r \in States(a) : r \in reach[s] /\ s \in reach[r]} : s \in States(a)}
      /\ Len(FlattenSeq(found)) = a.n

\* Tarjan's algorithm returns the classes of states that reach each other, each
\* state once, whatever number it begins to count at, as long as it does not get
\* to the number that marks a state as not visited: from there on the assertion
\* "Each state is in exactly one component" is at the mercy of what was in memory.
ComponentsExact == a.n > 0 => \A first \in Counts : first + a.n <= Unvisited => ComponentsFrom(first)

\* "Every partition contains at least one state" (nfa-optimize.cpp), so that there
\* is a node for each: true of an automaton with a transition, however its states
\* fall apart by what they crash on.  Without one the empty part stays.
PartsFit ==
  a.trans # {} =>
    \A reversed \in BOOLEAN :
      Partitions(a, reversed) =>
        LET parts == initialPartitions(a, reversed)
        IN  {} \notin ToSet(parts) /\ UNION ToSet(parts) = States(a) /\ Len(parts) <= a.n

\* infinite finds a cycle exactly if some state that is used lies on one.
InfiniteExact ==
  a.n > 0 => (infinite(a) = \E s \in live_states(a) : s \in Closure(Edges(a), destinations(a, s)))

-----------------------------------------------------------------------------
(* Combinations *)

Others == {empty, epsilon, lit(<<0, 1>>), star(lit(<<0>>)), any}

Catenated(K, L) == {w \in Word : \E i \in 0..Len(w) : SubSeq(w, 1, i) \in K /\ SubSeq(w, i + 1, Len(w)) \in L}
RECURSIVE Powers(_, _)
Powers(K, i) == IF i = 0 THEN {<<>>} ELSE Catenated(Powers(K, i - 1), K)

\* cat, alt, conj, comp, star and range accept what the expressions mean.
CombinationsExact ==
  a.n \in 1..MaxCombined =>
    /\ \A b \in Others :
         /\ Language(cat(<<a, b>>)) = Catenated(Language(a), Language(b))
         /\ Language(alt(<<b, a>>)) = Language(a) \cup Language(b)
         /\ Language(conj(a, b)) = Language(a) \cap Language(b)
         /\ same_language(a, b) = SameLanguage(a, b)
    /\ Language(star(a)) = UNION {Powers(Language(a), i) : i \in 0..MaxWord}
    /\ Language(plus(a)) = UNION {Powers(Language(a), i) : i \in 1..(MaxWord + 1)}
    /\ Language(range(a, 1, 2)) = Powers(Language(a), 1) \cup Powers(Language(a), 2)
    /\ Language(maybe(a)) = Language(a) \cup {<<>>}
    /\ Language(comp(a)) = Word \ Language(a)

\* The words that can be divided between K and L where the one that is left has
\* accepted what it got so far.
Shuffled(K, L) ==
  {w \in Word : \E side \in [1..Len(w) -> BOOLEAN] :
     LET part(i, b) == FoldLeft(LAMBDA acc, k : IF side[k] = b THEN Append(acc, w[k]) ELSE acc,
                                <<>>, [k \in 1..i |-> k])
     IN  /\ part(Len(w), TRUE) \in K /\ part(Len(w), FALSE) \in L
         /\ \A i \in 1..(Len(w) - 1) :
              side[i] # side[i + 1] => IF side[i] THEN part(i, TRUE) \in K ELSE part(i, FALSE) \in L}

\* shuffleAccept is how two gadgets are combined: moves in one may be taken up
\* after moves in the other only where the other could stop.  The comment in
\* automaton.hpp, "only when both automata are in accepting states", asks for more
\* than the code does.
ShuffleExact ==
  a.n \in 1..MaxCombined =>
    \A b \in Others : Language(shuffleAccept(a, b)) = Shuffled(Language(a), Language(b))

\* Whatever sequence of edits built an automaton, its flag can be trusted and
\* each transformation gives an automaton of the same language.
LanguagesKept == AutomatonTypeOK /\ DeterministicFlagSound /\ LanguageKept /\ LeftOptimizeKept

\* An automaton, and its class under permutations of the symbols, has one form.
CanonicalForms == CanonicalForm /\ CanonicalUnderGroup

\* The algorithms on the graph and the combinators agree with their meaning in
\* terms of paths and words.
AlgorithmsExact == ComponentsExact /\ PartsFit /\ InfiniteExact /\ CombinationsExact /\ ShuffleExact
=============================================================================
