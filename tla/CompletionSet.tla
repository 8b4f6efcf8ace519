---------------------------- MODULE CompletionSet ----------------------------
(***************************************************************************)
(* What the completions of one kind promise: a set of ids that only grows. *)
(* Recording ids again is refused, unless overlap is allowed.              *)
(***************************************************************************)
CONSTANT Batch
VARIABLES allow_overlap, set, result

Init == allow_overlap \in BOOLEAN /\ set = {} /\ result = "none"

Record(ids) ==
  /\ allow_overlap \/ ids \cap set = {}
  /\ set' = set \cup ids
  /\ result' = "recorded"
  /\ UNCHANGED allow_overlap

Refuse(ids) ==
  /\ ~allow_overlap /\ ids \cap set # {}
  /\ result' = "refused"
  /\ UNCHANGED <<allow_overlap, set>>

Compact == result' = "compacted" /\ UNCHANGED <<allow_overlap, set>>

\* A transaction that fails leaves no trace.
Abort == result' = "threw" /\ UNCHANGED <<allow_overlap, set>>

Next == Compact \/ Abort \/ \E ids \in Batch : Record(ids) \/ Refuse(ids)

Spec == Init /\ [][Next]_<<allow_overlap, set, result>>
=============================================================================
