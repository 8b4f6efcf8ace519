---------------------------- MODULE MCPredicates ----------------------------
(***************************************************************************)
(* Two processes, three gadgets with statistics around the keys, and key   *)
(* lists as a driver sorts them.                                           *)
(***************************************************************************)
EXTENDS Predicates, TLC

\* The processes are alike.
Symmetry == Permutations(Proc)

MCStat == <<2, 1, 3>>
SortedRequests == {<<1>>, <<1, 3>>, <<2>>}
=============================================================================
