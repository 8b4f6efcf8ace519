-------------------------- MODULE TransformReduce ---------------------------
(***************************************************************************)
(* transform_reduce.hpp: threads take tasks from a counter, transform them *)
(* and combine the results along an implicit binary tree.  Of the two      *)
(* threads that come to an inner node the first leaves a pointer to its    *)
(* result there and the second reduces the two and goes up.  A result is   *)
(* the sequence of the tasks it is made of, as in the caller, whose        *)
(* reducer appends vectors.  Tasks and nodes are numbered from zero.       *)
(***************************************************************************)
EXTENDS Integers, Sequences, FiniteSets

CONSTANTS
  threads,
  MaxTasks,    \* bound on the number of tasks
  NoTask       \* a null pointer

ASSUME ReduceAssumption == threads \in Nat /\ MaxTasks \in Nat /\ NoTask \notin Nat

VARIABLES
  size,        \* tasks.size()
  results, pubs,
  dispenser,   \* task_index_dispenser
  at,          \* at[t]: where thread t is: its step, task and tree node
  failing,     \* the tasks whose transformer throws
  returned     \* what the caller gets: "pending", "threw", "crashed" or "result"

reduceVars == <<size, results, pubs, dispenser, at, failing, returned>>

Task == 0..(size - 1)
Thread == 1..threads
Idle == [step |-> "next", index |-> NoTask, node |-> 0]

ReduceInit ==
  /\ size \in 0..MaxTasks
  /\ failing \in {f \in SUBSET Task : Cardinality(f) <= 1}
  /\ results = [i \in Task |-> <<>>]
  /\ pubs = [n \in 0..(size - 2) |-> NoTask]
  /\ dispenser = 0 /\ at = [t \in Thread |-> [Idle EXCEPT !.step = IF t <= size THEN "next" ELSE "ended"]]
  /\ returned = "pending"

\* No task, or one task, which the caller's own thread carries out.
sequential ==
  /\ size <= 1 /\ returned = "pending"
  /\ results' = [i \in Task |-> IF i \in failing THEN <<>> ELSE <<i>>]
  /\ returned' = IF failing = {} THEN "result" ELSE "threw"
  /\ UNCHANGED <<size, pubs, dispenser, at, failing>>

transform(t) ==
  LET index == dispenser
      start == IF index >= size THEN [Idle EXCEPT !.step = "ended"]
               ELSE IF index \in failing THEN [Idle EXCEPT !.step = "ended"]
               ELSE [step |-> "publish", index |-> index, node |-> index + size - 1]
  IN  /\ size > 1 /\ at[t].step = "next"
      /\ dispenser' = dispenser + 1
      /\ at' = [at EXCEPT ![t] = start]
      /\ results' = IF start.step = "publish" THEN [results EXCEPT ![index] = <<index>>]
                                              ELSE results
      /\ UNCHANGED <<size, pubs, failing, returned>>

parent(node) == (node - 1) \div 2

\* compare_exchange_strong
publish(t) ==
  LET where == parent(at[t].node)
  IN  /\ at[t].step = "publish"
      /\ \/ /\ pubs[where] = NoTask
            /\ pubs' = [pubs EXCEPT ![where] = at[t].index]
            /\ at' = [at EXCEPT ![t] = Idle]
         \/ /\ pubs[where] # NoTask
            /\ at' = [at EXCEPT ![t].step = "reduce"]
            /\ UNCHANGED pubs
      /\ UNCHANGED <<size, results, dispenser, failing, returned>>

\* Mutant: in the order of arrival.
ordered_by_arrival(node, mine, other) == other \o mine

\* A left child has an odd number, so the parity decides which operand is left.
ordered(node, mine, other) == IF node % 2 = 1 THEN mine \o other ELSE other \o mine

\* The other result is moved from.
reduce(t) ==
  LET where == parent(at[t].node)
      mine == at[t].index
      other == pubs[where]
  IN  /\ at[t].step = "reduce"
      /\ results' = [results EXCEPT ![mine] = ordered(at[t].node, results[mine], results[other]),
                                    ![other] = <<>>]
      /\ pubs' = [pubs EXCEPT ![where] = mine]
      /\ at' = [at EXCEPT ![t] = IF where = 0 THEN Idle
                                 ELSE [step |-> "publish", index |-> mine, node |-> where]]
      /\ UNCHANGED <<size, dispenser, failing, returned>>

\* All threads have ended, with or without an exception in their future.
collect ==
  /\ size > 1 /\ returned = "pending"
  /\ \A t \in Thread : at[t].step = "ended"
  /\ returned' = IF pubs[0] = NoTask THEN "crashed" ELSE "result"
  /\ UNCHANGED <<size, results, pubs, dispenser, at, failing>>

ReduceNext ==
  \/ sequential
  \/ \E t \in Thread : transform(t) \/ publish(t) \/ reduce(t)
  \/ collect

ReduceSpec == ReduceInit /\ [][ReduceNext]_reduceVars

Result ==
  IF size = 0 THEN <<>> ELSE IF size = 1 THEN results[0] ELSE results[pubs[0]]

ReduceTypeOK ==
  /\ pubs \in [0..(size - 2) -> Task \cup {NoTask}]
  /\ \A i \in Task : results[i] \in Seq(Task)
  /\ \A t \in Thread : at[t].step \in {"next", "publish", "reduce", "ended"}

\* The tasks below a node of the tree, from left to right.
Leaves ==
  LET below[node \in 0..(2 * size - 2)] ==
        IF node >= size - 1 THEN <<node - (size - 1)>>
                            ELSE below[2 * node + 1] \o below[2 * node + 2]
  IN  IF size = 0 THEN <<>> ELSE below[0]

\* Whatever the threads do, the result of tasks that do not throw is the same,
\* each task in it once.  It is in the order of the tree, not of the tasks,
\* which is why do_secondhalf_db sorts afterwards.  When a task throws the
\* caller gets fewer results and no exception, but none of them twice.
ResultDetermined ==
  returned = "result" =>
    /\ failing = {} => Result = Leaves
    /\ \A i, j \in 1..Len(Result) : i # j => Result[i] # Result[j]
    /\ \A i \in 1..Len(Result) : Result[i] \notin failing

\* The slots of the tree hold results of tasks, and what comes out at the root
\* does not depend on the schedule.
ReductionCorrect == ReduceTypeOK /\ ResultDetermined

ReduceEnded == returned # "pending"
=============================================================================
