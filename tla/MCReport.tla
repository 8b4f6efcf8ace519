------------------------------ MODULE MCReport ------------------------------
(* A database of eleven gadgets.  2 is the closure of 1 and 3 its mirror   *)
(* image; both are rights.  10 has an edge table too but is reached too    *)
(* late to be a right.  5 and 6 are made in several ways, 7 is a named     *)
(* gadget that closes to 8.                                                *)
EXTENDS Report

MCRightOrder == <<3, 2, 10>>

MCMakes == [t \in Table |->
  CASE t = <<"close", 0>> -> {<<1, 2>>, <<7, 8>>}
    [] t = <<"mirror", 0>> -> {<<2, 3>>, <<3, 2>>, <<8, 9>>, <<9, 8>>, <<4, 10>>, <<10, 4>>}
    [] t = <<"connect", 0>> -> {<<2, 4>>, <<3, 10>>, <<4, 5>>, <<5, 6>>, <<6, 7>>, <<9, 6>>}
    [] t = <<"combine", 2>> -> {<<1, 5>>, <<2, 9>>, <<3, 5>>, <<4, 7>>, <<4, 6>>}
    [] t = <<"combine", 3>> -> {<<2, 5>>, <<5, 11>>, <<6, 4>>, <<6, 1>>}
    [] t = <<"combine", 10>> -> {<<1, 6>>}]

MCLate == {<<<<"connect", 0>>, 4>>, <<<<"close", 0>>, 7>>, <<<<"combine", 2>>, 4>>}
MCDone == [t \in Table |->
  {e[1] : e \in MCMakes[t]} \ {l[2] : l \in {l \in MCLate : l[1] = t}}]
MCFilled == {<<<<"combine", 3>>, 2>>, <<<<"connect", 0>>, 5>>}

Command(m, s, c, n) == [multiplayer |-> m, skip_mirror |-> s, combine_all |-> c, threads |-> n]
MCOptions ==
  {Command(m, s, FALSE, n) : m, s \in BOOLEAN, n \in {1, 2}} \cup
  {Command(FALSE, FALSE, TRUE, n) : n \in {1, 2}}
=============================================================================
