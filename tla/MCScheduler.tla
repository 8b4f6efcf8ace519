----------------------------- MODULE MCScheduler -----------------------------
(***************************************************************************)
(* Up to four tasks on three workers.  Two files are enough for a          *)
(* secondhalf when one of them is that of task 1, with the large gadgets.  *)
(***************************************************************************)
EXTENDS Scheduler

MCBigEnough == {S \in SUBSET Seq0 : 1 \in S}
=============================================================================
