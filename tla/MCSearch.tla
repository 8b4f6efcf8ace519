------------------------------ MODULE MCSearch ------------------------------
(***************************************************************************)
(* A small world for module Search.  The search starts from gadget 1,      *)
(* which closes to 2; later gadgets are closed, mirrored, connected and    *)
(* combined, some only through others.                                     *)
(***************************************************************************)
EXTENDS Search

MCGadget == 1..7

\* 1 closes to 2; 5 and 6 are mirror images that close to 3 and 4.
MCClose == [g \in MCGadget |-> CASE g = 1 -> 2 [] g = 5 -> 3 [] g = 6 -> 4 [] OTHER -> g]
MCMirror == [g \in MCGadget |-> CASE g = 3 -> 4 [] g = 4 -> 3 [] g = 5 -> 6 [] g = 6 -> 5
                                  [] OTHER -> g]
MCConnect == [g \in MCGadget |-> CASE g = 2 -> {5} [] g = 4 -> {2, 7} [] OTHER -> {}]
MCCombine == [p \in MCGadget \X MCGadget |->
                CASE p = <<2, 2>> -> {3} [] p = <<7, 2>> -> {2, 6} [] OTHER -> {}]
MCLocations == [g \in MCGadget |-> IF g = 3 THEN 5 ELSE 4]

All == [op \in Op |-> MCGadget]
Base == [initial |-> {1}, eligible |-> All, filtered |-> {"connect"}, precision |-> 8, multiplayer |-> FALSE,
         follow_mirror |-> TRUE, compute_close |-> TRUE, compute_mirror |-> TRUE,
         stop_after_gen |-> 9, stop_after_subgen |-> 9, workers |-> 1]

MCOptions ==
  {Base,
   [Base EXCEPT !.multiplayer = TRUE, !.compute_mirror = FALSE, !.stop_after_gen = 1,
                !.filtered = {"close"}],
   [Base EXCEPT !.compute_close = FALSE, !.stop_after_subgen = 1, !.stop_after_gen = 1,
                !.eligible = [All EXCEPT !["connect"] = MCGadget \ {3, 4}]],
   [Base EXCEPT !.precision = 5],
   [Base EXCEPT !.workers = 2, !.initial = {1, 7}, !.stop_after_gen = 0,
                !.stop_after_subgen = 0],
   [Base EXCEPT !.initial = {7}, !.filtered = {"mirror"}],
   [Base EXCEPT !.filtered = {}]}

MCPriorWork == {Unary("connect", 4)}
=============================================================================
