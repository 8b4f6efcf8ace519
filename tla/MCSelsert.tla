------------------------------ MODULE MCSelsert ------------------------------
(***************************************************************************)
(* Two processes that insert gadgets with equal and with neighbouring      *)
(* hashes, so that probing, self-collisions and pruning between the two    *)
(* transactions all happen.                                                *)
(***************************************************************************)
EXTENDS Selsert

CONSTANTS a, b, c, d

MCHashOf == (a :> 0) @@ (b :> 1) @@ (c :> 1) @@ (d :> 1)
MCRank == (a :> 2) @@ (b :> 1) @@ (c :> 1) @@ (d :> 0)
MCBatch == {{a, b}, {b, c}, {a, b, c}, {b, c, d}, {c}}
=============================================================================
