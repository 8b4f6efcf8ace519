----------------------------- MODULE Regexesque -----------------------------
(***************************************************************************)
(* automaton-regexesque.hpp and shuffleAccept: automata made from others   *)
(* as in regular expressions.                                              *)
(***************************************************************************)
EXTENDS Minimization

\* The automaton whose states are the roots and what can be reached from them in
\* a product; the first root is the initial state.
Numbered(roots, trans, det, accept) ==
  LET reached == Closure({<<t[1], t[3]>> : t \in trans}, ToSet(roots))
      order == roots \o InSomeOrder(reached \ ToSet(roots))
      number == [p \in reached |-> (CHOOSE i \in 1..Len(order) : order[i] = p) - 1]
      a == [n |-> Len(order), accept |-> {number[p] : p \in reached \cap accept},
            trans |-> {<<number[t[1]], t[2], number[t[3]]>> : t \in {t \in trans : t[1] \in reached}},
            det |-> det, min |-> FALSE, can |-> FALSE]
  IN  [a EXCEPT !.det = @ /\ \A s \in States(a) : isStateDeterministic(a, s)]

\* Mutant: the accept states of the first part keep accepting.
cat_once_accepting(target, source) ==
  LET base == target.n
  IN  FoldLeft(LAMBDA a, p : IF p \in a.accept THEN addEpsilon(a, p, base) ELSE a,
               append(target, source), [i \in 1..base |-> i - 1])

\* The accept states of target lead on to source, and accept only if it does.
cat_once(target, source) ==
  LET base == target.n
  IN  FoldLeft(LAMBDA a, p : IF p \in a.accept THEN addEpsilon(setAccept(a, p, FALSE), p, base) ELSE a,
               append(target, source), [i \in 1..base |-> i - 1])

\* Nothing is the empty string.
cat(list) == IF list = <<>> THEN epsilon ELSE FoldLeft(cat_once, clear, list)

alt_once(target, source) == addEpsilon(append(target, source), 0, target.n)
alt(list) == IF list = <<>> THEN empty ELSE FoldLeft(alt_once, addState(clear), list)

\* The variadic form has no initial state of its own: the first automaton's is
\* taken, also if transitions lead back to it.
altVariadic(list) == FoldLeft(alt_once, clear, list)

conj_impl(left, right) ==
  Numbered(<<<<0, 0>>>>,
           {<<<<l[1], r[1]>>, l[2], <<l[3], r[3]>>>> :
              <<l, r>> \in {p \in left.trans \X right.trans : p[1][2] = p[2][2]}},
           left.det /\ right.det, left.accept \X right.accept)
conj(left, right) == removeDeadStates(conj_impl(left, right))

star(b) ==
  LET base == 1
      a == addEpsilon(append(setAccept(addState(clear), 0, TRUE), b), 0, base)
  IN  FoldLeft(LAMBDA c, p : IF p \in c.accept THEN addEpsilon(c, p, 0) ELSE c,
               a, [i \in 1..b.n |-> i])

nCopies(a, count) == cat([i \in 1..count |-> a])
nOrMore(a, min) == IF min = 0 THEN star(a) ELSE cat(<<nCopies(a, min), star(a)>>)
plus(a) == nOrMore(a, 1)

\* One more copy that may be entered from the accept states of the last one.
range(a, min, max) ==
  LET more(r, i) ==
        LET base == r.ret.n
            linked == FoldLeft(LAMBDA b, q : IF q \in b.accept THEN addEpsilon(b, q, base) ELSE b,
                               append(r.ret, a), [k \in 1..(base - r.lastbase) |-> r.lastbase + k - 1])
        IN  [ret |-> linked, lastbase |-> base]
  IN  FoldLeft(more, [ret |-> nCopies(a, min), lastbase |-> 0], [i \in 1..(max - min) |-> i]).ret
maybe(a) == range(a, 0, 1)

comp(a) == LET t == totalize(determinize(a))
           IN  FoldLeft(LAMBDA b, s : setAccept(b, s, s \notin b.accept), t, [i \in 1..t.n |-> i - 1])

same_language(left, right) == isEmpty(conj(left, comp(right))) /\ isEmpty(conj(comp(left), right))

\* Mutant: the other automaton may be taken up at any time.
SwitchesAnywhere(a, s) == TRUE

\* The other automaton may be taken up when this one is at an accept state.
Switches(a, s) == s \in a.accept

\* States <<left state, right state, left is active>>, and an initial state from
\* which either side may begin.
shuffleAcceptDeterministic(left, right) ==
  LET lefts == {<<<<t[1], r, TRUE>>, t[2], <<t[3], r, b>>>> :
                  <<t, r, b>> \in {p \in left.trans \X States(right) \X BOOLEAN :
                                     p[3] \/ Switches(left, p[1][3])}}
      rights == {<<<<l, t[1], FALSE>>, t[2], <<l, t[3], b>>>> :
                  <<t, l, b>> \in {p \in right.trans \X States(left) \X BOOLEAN :
                                     ~p[3] \/ Switches(right, p[1][3])}}
      begin == <<Gone, Gone, TRUE>>
      from(b) == {<<begin, t[2], t[3]>> : t \in {t \in lefts \cup rights : t[1] = <<0, 0, b>>}}
      accepting == (left.accept \X right.accept \X BOOLEAN) \cup
                   {begin : i \in {0} \cap left.accept \cap right.accept}
  IN  Numbered(<<begin, <<0, 0, TRUE>>, <<0, 0, FALSE>>>>, lefts \cup rights \cup from(TRUE) \cup from(FALSE),
               TRUE, accepting)

shuffleAccept(left, right) == shuffleAcceptDeterministic(determinize(left), determinize(right))
=============================================================================
