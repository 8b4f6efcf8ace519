----------------------------- MODULE GadgetStore -----------------------------
(***************************************************************************)
(* What the gadget store promises: each gadget has one id for good, and    *)
(* new gadgets take the next ids in a row, a whole batch at once.          *)
(***************************************************************************)
EXTENDS Integers, FiniteSets

CONSTANT Data
VARIABLE ids    \* ids[d], for the gadgets stored

Init == ids = <<>>

\* The novel gadgets of one call of selsert_gadget_by_data.
Insert(novel) ==
  LET count == Cardinality(DOMAIN ids)
  IN  /\ novel # {} /\ novel \cap DOMAIN ids = {}
      /\ DOMAIN ids' = DOMAIN ids \cup novel
      /\ \A d \in DOMAIN ids : ids'[d] = ids[d]
      /\ {ids'[d] : d \in novel} = (count + 1)..(count + Cardinality(novel))

Next == \E novel \in SUBSET Data : Insert(novel)

Spec == Init /\ [][Next]_ids
=============================================================================
