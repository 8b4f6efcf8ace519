------------------------------ MODULE Scheduler ------------------------------
(***************************************************************************)
(* One operation of the driver: do_generic_operation of                    *)
(* driver/toggles-driver.cpp on top of WorkerManager, with the workers at  *)
(* the other end of the sockets.                                           *)
(*                                                                         *)
(* The driver is one thread.  Each worker has a chain of callbacks:        *)
(* connect, write the request, read the response until end of file, then   *)
(* process the response and ask for the next request.  A worker without a  *)
(* next request stays idle until the operation is over.                    *)
(*                                                                         *)
(* In halves mode a task only writes a file (firsthalf); a secondhalf task *)
(* takes all pending files, commits them to the database and deletes them. *)
(* There is at most one secondhalf at a time.                              *)
(***************************************************************************)
EXTENDS Integers, FiniteSets

CONSTANTS
  NumWorkers,   \* workers_->size()
  MaxTasks,     \* bound on the number of tasks
  MinPending,   \* secondhalf_min_pending_tasks
  BigEnough,    \* sets of files with secondhalf_min_pending_gadget_bytes of gadgets
  MaxFaults     \* bound on worker and socket failures

ASSUME SchedulerAssumption ==
  /\ NumWorkers \in Nat \ {0} /\ MaxTasks \in Nat \ {0}
  /\ MinPending \in Nat /\ MaxFaults \in Nat

Worker == 1..NumWorkers
Seq0 == 0..(MaxTasks - 1)

\* The sequence number of a secondhalf, numeric_limits::max(), over any task's.
SecondhalfSeq == MaxTasks

\* "whole": no halves; "halves": combine and connect; "todo": the halves of
\* close and mirror, whose secondhalf is not implemented.
Mode == {"whole", "halves", "todo"}

VARIABLES
  mode, tasks_total,
  tasks_dispatched,   \* the tasks from this one on are still in the queue
  tasks_completed,
  secondhalf_seq,     \* 0 when no secondhalf is running
  pending,            \* pending_firsthalves.filenames; a file has its task's number
  task_starts,        \* sequence numbers dispatched and not answered
  error_happened,
  counted,            \* what overall_stats has been told of
  worker,             \* the callback each worker's socket is waiting for
  outcome,            \* of do_generic_operation
  files,              \* firsthalf files on disk
  committed,          \* tasks whose results are in the database
  faults

control == <<tasks_dispatched, tasks_completed, secondhalf_seq, pending, task_starts,
             error_happened, counted>>
stored == <<files, committed>>
vars == <<mode, tasks_total, control, worker, outcome, stored, faults>>

Task == 0..(tasks_total - 1)

\* seq and batch are the request: a task, or a secondhalf with its files.
\* "working" is the worker's own process, the stages after it are what the
\* driver finds when it reads: a result, an error or nothing at all.
Stage == {"idle", "connecting", "writing", "working", "result", "error", "empty"}
Request(seq, batch) == [stage |-> "connecting", seq |-> seq, batch |-> batch]
Idle == [stage |-> "idle", seq |-> 0, batch |-> {}]
Answered == {"result", "error", "empty"}

Init ==
  /\ mode \in Mode
  /\ tasks_total \in 1..MaxTasks
  /\ tasks_dispatched = 0 /\ tasks_completed = 0
  /\ secondhalf_seq = 0
  /\ pending = {} /\ task_starts = {} /\ counted = {}
  /\ error_happened = FALSE
  /\ worker = [i \in Worker |-> Idle]
  /\ outcome = "start"
  /\ files = {} /\ committed = {}
  /\ faults = 0

-----------------------------------------------------------------------------
(* The driver.                                                             *)

\* Mutant: a start is recorded under the number of the next task.
run_preincrement ==
  /\ outcome = "start"
  /\ outcome' = "running"
  /\ LET first == IF tasks_total < NumWorkers THEN tasks_total ELSE NumWorkers
     IN  /\ tasks_dispatched' = first
         /\ task_starts' = 1..first
         /\ worker' = [i \in Worker |-> IF i <= first THEN Request(i - 1, {}) ELSE Idle]
  /\ UNCHANGED <<mode, tasks_total, tasks_completed, secondhalf_seq, pending, error_happened,
                 counted, stored, faults>>

\* Mutant: the last worker is left out.
run_all_but_one ==
  /\ outcome = "start"
  /\ outcome' = "running"
  /\ LET first == IF tasks_total < NumWorkers THEN tasks_total ELSE NumWorkers - 1
     IN  /\ tasks_dispatched' = first
         /\ task_starts' = 0..(first - 1)
         /\ worker' = [i \in Worker |-> IF i <= first THEN Request(i - 1, {}) ELSE Idle]
  /\ UNCHANGED <<mode, tasks_total, tasks_completed, secondhalf_seq, pending, error_happened,
                 counted, stored, faults>>

\* WorkerManager::run: one task for each worker, until there is none left.
\* No callback runs before all of them are dispatched.
run ==
  /\ outcome = "start"
  /\ outcome' = "running"
  /\ LET first == IF tasks_total < NumWorkers THEN tasks_total ELSE NumWorkers
     IN  /\ tasks_dispatched' = first
         /\ task_starts' = 0..(first - 1)
         /\ worker' = [i \in Worker |-> IF i <= first THEN Request(i - 1, {}) ELSE Idle]
  /\ UNCHANGED <<mode, tasks_total, tasks_completed, secondhalf_seq, pending, error_happened,
                 counted, stored, faults>>

on_connect(i) ==
  /\ outcome = "running" /\ worker[i].stage = "connecting"
  /\ worker' = [worker EXCEPT ![i].stage = "writing"]
  /\ UNCHANGED <<mode, tasks_total, control, outcome, stored, faults>>

\* after_write: the end of file tells the worker to begin.
after_write(i) ==
  /\ outcome = "running" /\ worker[i].stage = "writing"
  /\ worker' = [worker EXCEPT ![i].stage = "working"]
  /\ UNCHANGED <<mode, tasks_total, control, outcome, stored, faults>>

\* Mutant: the last files are left to wait for more.
WorthCommittingFull(done, ready) == Cardinality(ready) >= MinPending /\ ready \in BigEnough

\* Enough pending work for a secondhalf, or all firsthalves are completed.
WorthCommitting(done, ready) ==
  done = tasks_total \/ (Cardinality(ready) >= MinPending /\ ready \in BigEnough)

\* Mutant: pending_firsthalves is not reset.
IssueKeepingPending(i, commit, dispatch, second, ready, starts) ==
  /\ secondhalf_seq' = IF commit THEN SecondhalfSeq ELSE second
  /\ pending' = ready
  /\ tasks_dispatched' = IF dispatch THEN tasks_dispatched + 1 ELSE tasks_dispatched
  /\ task_starts' = IF commit THEN starts \cup {SecondhalfSeq}
                    ELSE IF dispatch THEN starts \cup {tasks_dispatched} ELSE starts
  /\ worker' = [worker EXCEPT ![i] = IF commit THEN Request(SecondhalfSeq, ready)
                                     ELSE IF dispatch THEN Request(tasks_dispatched, {}) ELSE Idle]

\* What the generator does with its decision to commit or to dispatch.
Issue(i, commit, dispatch, second, ready, starts) ==
  /\ secondhalf_seq' = IF commit THEN SecondhalfSeq ELSE second
  /\ pending' = IF commit THEN {} ELSE ready
  /\ tasks_dispatched' = IF dispatch THEN tasks_dispatched + 1 ELSE tasks_dispatched
  /\ task_starts' = IF commit THEN starts \cup {SecondhalfSeq}
                    ELSE IF dispatch THEN starts \cup {tasks_dispatched} ELSE starts
  /\ worker' = [worker EXCEPT ![i] = IF commit THEN Request(SecondhalfSeq, ready)
                                     ELSE IF dispatch THEN Request(tasks_dispatched, {}) ELSE Idle]

\* Mutant: the queue is not asked whether it is empty.
next_unbounded(i, done, second, ready, failed, starts) ==
  LET commit == ~failed /\ second = 0 /\ ready # {} /\ WorthCommitting(done, ready)
  IN  Issue(i, commit, ~failed /\ ~commit, second, ready, starts)

\* Mutant: secondhalf_seq is not consulted.
next_any_secondhalf(i, done, second, ready, failed, starts) ==
  LET commit == ~failed /\ ready # {} /\ WorthCommitting(done, ready)
  IN  Issue(i, commit, ~failed /\ ~commit /\ tasks_dispatched < tasks_total, second, ready, starts)

\* Mutant: the early return on an error is missing.
next_despite_error(i, done, second, ready, failed, starts) ==
  LET commit == second = 0 /\ ready # {} /\ WorthCommitting(done, ready)
  IN  Issue(i, commit, ~commit /\ tasks_dispatched < tasks_total, second, ready, starts)

\* The generator: the next request of worker i, after process has left behind
\* tasks_completed = done, secondhalf_seq = second, pending = ready,
\* error_happened = failed and task_starts = starts.
next(i, done, second, ready, failed, starts) ==
  LET commit == ~failed /\ second = 0 /\ ready # {} /\ WorthCommitting(done, ready)
  IN  Issue(i, commit, ~failed /\ ~commit /\ tasks_dispatched < tasks_total, second, ready, starts)

\* Mutant: a failed request is sent again.
process_error_retries(i) ==
  /\ outcome = "running" /\ worker[i].stage \in {"error", "empty"}
  /\ worker' = [worker EXCEPT ![i].stage = "connecting"]
  /\ UNCHANGED <<mode, tasks_total, control, outcome, stored, faults>>

\* after_read at end of file: process the response, close the socket, go on.
process_error(i) ==
  /\ outcome = "running" /\ worker[i].stage \in {"error", "empty"}
  /\ error_happened' = TRUE
  /\ next(i, tasks_completed, secondhalf_seq, pending, TRUE, task_starts)
  /\ UNCHANGED <<mode, tasks_total, tasks_completed, counted, outcome, stored, faults>>

\* Mutant: in halves mode, firsthalves are not counted.
process_task_uncounted(i) ==
  LET seq == worker[i].seq
      ready == IF mode = "whole" THEN pending ELSE pending \cup {seq}
      done == IF mode = "whole" THEN tasks_completed + 1 ELSE tasks_completed
  IN  /\ outcome = "running" /\ worker[i].stage = "result" /\ seq < tasks_total
      /\ tasks_completed' = done
      /\ counted' = IF mode = "whole" THEN counted \cup {seq} ELSE counted
      /\ next(i, done, secondhalf_seq, ready, error_happened, task_starts \ {seq})
      /\ UNCHANGED <<mode, tasks_total, error_happened, outcome, stored, faults>>

process_task(i) ==
  LET seq == worker[i].seq
      ready == IF mode = "whole" THEN pending ELSE pending \cup {seq}
  IN  /\ outcome = "running" /\ worker[i].stage = "result" /\ seq < tasks_total
      /\ tasks_completed' = tasks_completed + 1
      /\ counted' = IF mode = "whole" THEN counted \cup {seq} ELSE counted
      /\ next(i, tasks_completed + 1, secondhalf_seq, ready, error_happened, task_starts \ {seq})
      /\ UNCHANGED <<mode, tasks_total, error_happened, outcome, stored, faults>>

process_secondhalf(i) ==
  /\ outcome = "running" /\ worker[i].stage = "result" /\ worker[i].seq >= tasks_total
  /\ counted' = counted \cup worker[i].batch
  /\ next(i, tasks_completed, 0, pending, error_happened, task_starts \ {SecondhalfSeq})
  /\ UNCHANGED <<mode, tasks_total, tasks_completed, error_happened, outcome, stored, faults>>

\* Mutant: error_happened is not looked at.
finish_ignoring_error ==
  /\ outcome = "running"
  /\ \A i \in Worker : worker[i].stage = "idle"
  /\ outcome' = "returned"
  /\ UNCHANGED <<mode, tasks_total, control, worker, stored, faults>>

\* ctx_.run() is out of callbacks; an error is reported only now.
finish ==
  /\ outcome = "running"
  /\ \A i \in Worker : worker[i].stage = "idle"
  /\ outcome' = IF error_happened THEN "threw" ELSE "returned"
  /\ UNCHANGED <<mode, tasks_total, control, worker, stored, faults>>

\* A callback gets an error code other than end of file: its exception leaves
\* ctx_.run() and nobody reads the other answers.
socket_error(i) ==
  /\ outcome = "running" /\ worker[i].stage # "idle" /\ faults < MaxFaults
  /\ outcome' = "threw"
  /\ faults' = faults + 1
  /\ UNCHANGED <<mode, tasks_total, control, worker, stored>>

-----------------------------------------------------------------------------
(* The workers (rpc dispatch and the handlers of msgpack-mode.cpp).        *)

IsSecondhalf(i) == worker[i].seq >= tasks_total

\* A task without halves commits; a firsthalf writes its file.
work_task(i) ==
  /\ worker[i].stage = "working" /\ ~IsSecondhalf(i)
  /\ IF mode = "whole" THEN committed' = committed \cup {worker[i].seq} /\ UNCHANGED files
                       ELSE files' = files \cup {worker[i].seq} /\ UNCHANGED committed
  /\ worker' = [worker EXCEPT ![i].stage = "result"]
  /\ UNCHANGED <<mode, tasks_total, control, outcome, faults>>

\* A secondhalf commits one group of its files after the other, deleting
\* them after each transaction.
work_secondhalf(i) ==
  /\ worker[i].stage = "working" /\ IsSecondhalf(i) /\ mode = "halves"
  /\ \E group \in (SUBSET (worker[i].batch \cap files)) \ {{}} :
       /\ committed' = committed \cup group
       /\ files' = files \ group
       /\ worker' = [worker EXCEPT ![i].stage =
                       IF worker[i].batch \cap files = group THEN "result" ELSE "working"]
  /\ UNCHANGED <<mode, tasks_total, control, outcome, faults>>

work_todo(i) ==
  /\ worker[i].stage = "working" /\ IsSecondhalf(i) /\ mode = "todo"
  /\ worker' = [worker EXCEPT ![i].stage = "error"]
  /\ UNCHANGED <<mode, tasks_total, control, outcome, stored, faults>>

\* The handler throws, or the process dies before or after its work; a
\* secondhalf also between the commit of a group and the deletion of its files.
work_fails(i) ==
  /\ worker[i].stage \in {"working", "result"} /\ faults < MaxFaults
  /\ \/ UNCHANGED committed
     \/ /\ worker[i].stage = "working" /\ IsSecondhalf(i) /\ mode = "halves"
        /\ \E group \in SUBSET (worker[i].batch \cap files) : committed' = committed \cup group
  /\ \E answer \in {"error", "empty"} : worker' = [worker EXCEPT ![i].stage = answer]
  /\ faults' = faults + 1
  /\ UNCHANGED <<mode, tasks_total, control, outcome, files>>

-----------------------------------------------------------------------------

Done == outcome \in {"returned", "threw"} /\ UNCHANGED vars

Driver(i) ==
  on_connect(i) \/ after_write(i) \/ process_error(i) \/ process_task(i) \/ process_secondhalf(i)

Works(i) == work_task(i) \/ work_secondhalf(i) \/ work_todo(i)

Next ==
  \/ run \/ finish \/ Done
  \/ \E i \in Worker : Driver(i) \/ Works(i) \/ work_fails(i) \/ socket_error(i)

\* The event loop runs every callback that is ready, and a worker that has a
\* request answers it sooner or later.
Spec ==
  /\ Init /\ [][Next]_vars
  /\ WF_vars(run) /\ WF_vars(finish)
  /\ \A i \in Worker : WF_vars(Driver(i)) /\ WF_vars(Works(i))

-----------------------------------------------------------------------------
(* Properties.                                                             *)

\* The types of the locals of do_generic_operation, of the sockets and of the
\* files; a task number stays below tasks_total.
TypeOK ==
  /\ mode \in Mode /\ tasks_total \in 1..MaxTasks
  /\ tasks_dispatched \in 0..tasks_total /\ tasks_completed \in 0..tasks_total
  /\ secondhalf_seq \in {0, SecondhalfSeq}
  /\ pending \in SUBSET Seq0 /\ counted \in SUBSET Seq0
  /\ task_starts \in SUBSET (Seq0 \cup {SecondhalfSeq})
  /\ error_happened \in BOOLEAN
  /\ worker \in [Worker -> [stage : Stage, seq : 0..MaxTasks, batch : SUBSET Seq0]]
  /\ outcome \in {"start", "running", "returned", "threw"}
  /\ files \in SUBSET Seq0 /\ committed \in SUBSET Seq0
  /\ faults \in 0..MaxFaults

Busy == {i \in Worker : worker[i].stage # "idle"}
Secondhalves == {i \in Busy : IsSecondhalf(i)}
InFlight == UNION {worker[i].batch : i \in Secondhalves}

\* A secondhalf takes the pending files while other firsthalves are still
\* being answered: until something fails, a file that was reported is pending,
\* or with the secondhalf, or accounted for, and never two of these.
FilesConserved ==
  mode # "whole" /\ ~error_happened =>
    /\ pending \cap InFlight = {} /\ pending \cap counted = {} /\ InFlight \cap counted = {}
    /\ Cardinality(pending \cup InFlight \cup counted) = tasks_completed
    /\ pending \subseteq files \ committed

\* "0 when secondhalf not running": the database never has two writers.
OneSecondhalf ==
  /\ Cardinality(Secondhalves) <= 1
  /\ ~error_happened => (secondhalf_seq # 0 <=> Secondhalves # {})

\* The estimate of the remaining time divides by tasks_completed when the
\* answer of a secondhalf comes in: a task has been completed by then.
NoDivisionByZero == Secondhalves # {} => tasks_completed > 0

\* assert(start_it != task_starts.end()), although secondhalves share one
\* number: every answer the driver waits for has its start recorded.
StartRecorded == outcome = "running" => \A i \in Busy : worker[i].seq \in task_starts

\* A worker that was turned away never asks again: none is idle while tasks
\* are still in the queue.
NoWorkerStarves ==
  outcome = "running" /\ ~error_happened /\ tasks_dispatched < tasks_total => Busy = Worker

\* The operation succeeds only with all results in the database, all of them
\* in the statistics and no file left behind.
SuccessIsComplete ==
  outcome = "returned" => committed = Task /\ counted = Task /\ files = {}

\* What a worker is asked to do has not been done: a secondhalf finds all its
\* files, and neither they nor the results of a task are in the database.
RequestsFresh ==
  \A i \in Worker : worker[i].stage \in {"connecting", "writing"} =>
    IF IsSecondhalf(i) THEN worker[i].batch \subseteq files \ committed
                       ELSE worker[i].seq \notin files \cup committed

\* Whatever the order of answers, no work is lost, done twice or left lying:
\* files and requests are accounted for, there is one secondhalf at a time, no
\* worker is turned away too early, and success means that all is committed.
WorkConserved ==
  /\ FilesConserved /\ RequestsFresh /\ SuccessIsComplete
  /\ OneSecondhalf /\ StartRecorded /\ NoDivisionByZero /\ NoWorkerStarves

\* "stop generating work, but let existing issued work finish".
NothingIssuedAfterError ==
  [][error_happened => \A i \in Worker : worker'[i].stage = "connecting" => worker'[i] = worker[i]]_vars

\* The operation always comes to an end: the files pending when the last
\* firsthalf is answered do not wait for a secondhalf nobody starts.
OperationEnds == outcome = "start" ~> outcome \in {"returned", "threw"}

Op == INSTANCE Operation WITH task <- Task

\* The scheduler with its workers does what Search relies on.
ImplementsOperation == Op!Spec
=============================================================================
