----------------------------- MODULE MCAutomata -----------------------------
(***************************************************************************)
(* The automata library.  Each behaviour is the life of one object: an     *)
(* automaton, a pair of deques or a bitset.                                *)
(***************************************************************************)
EXTENDS Automata, CircularDeque, Bitset

VARIABLE subject
vars == <<a, deque, content, bits, members, subject>>

\* An empty object, and larger automata that the edits within the bounds do not
\* reach: overlapping words, repetitions, a chain that splits late.
StartDef ==
  {clear,
   alt(<<lit(<<0, 1, 0>>), lit(<<1, 1, 0>>), lit(<<1, 0>>)>>),
   cat(<<star(alt(<<lit(<<0>>), lit(<<1>>)>>)), lit(<<0>>), any>>),
   alt(<<lit(<<0, 0, 0, 1>>), lit(<<0, 1, 0, 1>>), lit(<<1, 1, 1, 1>>)>>),
   range(lit(<<0, 1>>), 1, 3),
   cat(<<star(cat(<<any, any>>)), lit(<<0>>)>>),
   comp(plus(cat(<<lit(<<0>>), maybe(lit(<<1>>))>>))),
   shuffleAccept(star(lit(<<0, 1>>)), star(lit(<<1, 0>>)))}

Init ==
  /\ DequeInit /\ BitsetInit
  /\ \/ subject = "automaton" /\ AutomatonInit
     \/ subject \in {"deque", "bitset"} /\ a = clear

Next ==
  /\ UNCHANGED subject
  /\ \/ subject = "automaton" /\ AutomatonNext /\ UNCHANGED <<dequeVars, bitsetVars>>
     \/ subject = "deque" /\ DequeNext /\ UNCHANGED <<a, bitsetVars>>
     \/ subject = "bitset" /\ BitsetNext /\ UNCHANGED <<a, dequeVars>>

Spec == Init /\ [][Next]_vars

\* Deques hold a sequence and bitsets a set, through growth, wrapping, shifts and
\* iteration, and no object is left behind in an array.
ContainersExact ==
  /\ DequeTypeOK /\ HoldsContent /\ NoLeak
  /\ bits \in 0..(2^Storage - 1) /\ BitsAreMembers /\ IterationExact
=============================================================================
