------------------------------ MODULE Operation ------------------------------
(***************************************************************************)
(* What do_generic_operation promises to the search: it returns only when  *)
(* the work of every task is in the database, and otherwise it throws.     *)
(* Work is committed at any time in between, and work in flight may still  *)
(* be committed after an exception.                                        *)
(***************************************************************************)
VARIABLES task,       \* the tasks of the operation
          outcome,    \* "start", "running", "returned" or "threw"
          committed   \* the tasks whose results are in the database

Init == outcome = "start" /\ committed = {}

Start == outcome = "start" /\ outcome' = "running" /\ UNCHANGED <<task, committed>>

Commit ==
  /\ outcome \in {"running", "threw"}
  /\ \E S \in (SUBSET (task \ committed)) \ {{}} : committed' = committed \cup S
  /\ UNCHANGED <<task, outcome>>

Return ==
  /\ outcome = "running" /\ committed = task
  /\ outcome' = "returned"
  /\ UNCHANGED <<task, committed>>

Throw == outcome = "running" /\ outcome' = "threw" /\ UNCHANGED <<task, committed>>

Next == Start \/ Commit \/ Return \/ Throw

vars == <<task, outcome, committed>>

Spec == Init /\ [][Next]_vars /\ WF_vars(Start) /\ WF_vars(Return \/ Throw)
=============================================================================
