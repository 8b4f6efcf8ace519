-------------------------- MODULE Scheduler_proofs --------------------------
(***************************************************************************)
(* Theorems about module Scheduler, for any number of workers, tasks and   *)
(* failures and whatever makes pending files worth a secondhalf.           *)
(***************************************************************************)
EXTENDS Scheduler, FiniteSetTheorems, TLAPS

Waits(i) == worker[i].stage # "idle"
DoesTask(i) == Waits(i) /\ worker[i].seq < tasks_total
DoesSecondhalf(i) == Waits(i) /\ worker[i].seq >= tasks_total

\* Tasks that were dispatched, and those of them that nobody works on.
Dispatched == 0..(tasks_dispatched - 1)
AnsweredBut(i) == {t \in Dispatched : \A j \in Worker : j # i /\ Waits(j) => worker[j].seq # t}
AnsweredTasks == {t \in Dispatched : \A j \in Worker : Waits(j) => worker[j].seq # t}

\* Before the operation begins nothing has been dispatched, and when it has
\* returned everything is done.
EndsInv ==
  /\ outcome = "start" => tasks_dispatched = 0 /\ ~error_happened /\ \A i \in Worker : ~Waits(i)
  /\ outcome = "returned" => \A i \in Worker : ~Waits(i)
  /\ SuccessIsComplete

\* What workers are asked for.
RequestInv ==
  /\ \A i \in Worker : Waits(i) =>
       \/ worker[i].seq \in Dispatched /\ worker[i].batch = {}
       \/ /\ worker[i].seq = SecondhalfSeq /\ mode # "whole"
          /\ worker[i].batch \subseteq Dispatched /\ tasks_completed > 0
  /\ \A i, j \in Worker : Waits(i) /\ Waits(j) /\ worker[i].seq = worker[j].seq => i = j
  /\ \A i, j \in Worker : Waits(i) /\ Waits(j) => worker[j].seq \notin worker[i].batch
  /\ \A i \in Worker : Waits(i) => worker[i].seq \in task_starts

\* What has been done for them.
WorkInv ==
  /\ files \subseteq Dispatched /\ committed \subseteq Dispatched
  /\ mode = "whole" => files = {} /\ pending = {}
  /\ RequestsFresh
  /\ \A i \in Worker : worker[i].stage = "working" =>
       IF IsSecondhalf(i) THEN worker[i].batch \ files \subseteq committed
                          ELSE worker[i].seq \notin files \cup committed
  /\ \A i \in Worker : worker[i].stage = "result" =>
       IF IsSecondhalf(i) THEN worker[i].batch \subseteq committed \ files
       ELSE IF mode = "whole" THEN worker[i].seq \in committed
       ELSE worker[i].seq \in files \ committed

\* Until something fails every task that was dispatched is in one place.
PlaceInv ==
  ~error_happened =>
    /\ pending \subseteq Dispatched /\ counted \subseteq Dispatched
    /\ pending \subseteq files \ committed /\ counted \subseteq committed \ files
    /\ \A i \in Worker : Waits(i) =>
         /\ worker[i].batch \cap pending = {} /\ worker[i].batch \cap counted = {}
         /\ worker[i].seq \notin pending \cup counted
    /\ \A t \in Dispatched : \/ t \in pending \cup counted
                             \/ \E i \in Worker : Waits(i) /\ (worker[i].seq = t \/ t \in worker[i].batch)

\* Answers are counted once.
CountInv ==
  /\ tasks_completed <= Cardinality(AnsweredTasks)
  /\ ~error_happened => tasks_completed = Cardinality(AnsweredTasks)

\* The driver goes on until it is done.
ProgressInv ==
  /\ ~error_happened => (secondhalf_seq # 0 <=> \E i \in Worker : DoesSecondhalf(i))
  /\ outcome = "running" /\ ~error_happened /\ tasks_dispatched < tasks_total => \A i \in Worker : Waits(i)
  /\ ~error_happened /\ pending # {} => \E i \in Worker : Waits(i)

IInv == TypeOK /\ EndsInv /\ RequestInv /\ WorkInv /\ PlaceInv /\ CountInv /\ ProgressInv

-----------------------------------------------------------------------------

\* What the fields of a worker are.
LEMMA WorkerType == ASSUME TypeOK, NEW i \in Worker
                    PROVE  /\ worker[i].stage \in Stage /\ worker[i].seq \in 0..MaxTasks
                           /\ worker[i].batch \in SUBSET Seq0
  BY DEF TypeOK

\* Any set of dispatched tasks is finite and no larger than their number.
LEMMA AnsweredFinite ==
  ASSUME TypeOK, NEW S \in SUBSET Dispatched
  PROVE  IsFiniteSet(S) /\ Cardinality(S) \in Nat /\ Cardinality(S) <= tasks_dispatched
  <1>1. tasks_dispatched \in Nat
    BY DEF TypeOK
  <1>2. IsFiniteSet(Dispatched) /\ Cardinality(Dispatched) = tasks_dispatched
    BY <1>1, FS_Interval DEF Dispatched
  <1>3. QED BY <1>1, <1>2, FS_Subset, FS_CardinalityType

\* What process leaves behind of the answer of worker i, before the generator
\* runs: the invariant, without worker i.
LeftBehind(i, done, second, ready, failed, starts, seen) ==
  /\ done \in 0..tasks_total /\ second \in {0, SecondhalfSeq} /\ failed \in BOOLEAN
  /\ ready \in SUBSET Seq0 /\ seen \in SUBSET Seq0
  /\ starts \in SUBSET (Seq0 \cup {SecondhalfSeq})
  /\ error_happened => failed
  /\ mode = "whole" => ready = {}
  /\ \A j \in Worker \ {i} : Waits(j) =>
       worker[j].seq \in starts /\ (worker[j].seq = SecondhalfSeq => done > 0)
  /\ done <= Cardinality(AnsweredBut(i))
  /\ ~failed =>
       /\ done = Cardinality(AnsweredBut(i))
       /\ second # 0 <=> \E j \in Worker \ {i} : DoesSecondhalf(j)
       /\ ready \subseteq Dispatched /\ seen \subseteq Dispatched
       /\ ready \subseteq files \ committed /\ seen \subseteq committed \ files
       /\ \A j \in Worker \ {i} : Waits(j) =>
            /\ worker[j].batch \cap ready = {} /\ worker[j].batch \cap seen = {}
            /\ worker[j].seq \notin ready \cup seen
       /\ \A t \in Dispatched :
            \/ t \in ready \cup seen
            \/ \E j \in Worker \ {i} : Waits(j) /\ (worker[j].seq = t \/ t \in worker[j].batch)

\* The generator keeps the invariant, whatever was answered.
LEMMA NextKeepsInv ==
  ASSUME IInv, outcome = "running", NEW i \in Worker, Waits(i),
         NEW done, NEW second, NEW ready, NEW failed, NEW starts,
         LeftBehind(i, done, second, ready, failed, starts, counted'),
         next(i, done, second, ready, failed, starts),
         tasks_completed' = done, error_happened' = failed,
         UNCHANGED <<mode, tasks_total, outcome, files, committed, faults>>
  PROVE  IInv'
  <1> DEFINE commit == ~failed /\ second = 0 /\ ready # {} /\ WorthCommitting(done, ready)
             dispatch == ~failed /\ ~commit /\ tasks_dispatched < tasks_total
  <1> USE SchedulerAssumption
  <1>0. Issue(i, commit, dispatch, second, ready, starts)
    BY DEF next
  <1>1. /\ tasks_dispatched \in 0..tasks_total /\ tasks_total \in 1..MaxTasks
        /\ MaxTasks \in Nat \ {0}
        /\ worker \in [Worker -> [stage : Stage, seq : 0..MaxTasks, batch : SUBSET Seq0]]
    BY DEF IInv, TypeOK
  <1>2. Worker # {} /\ mode \in Mode
    BY DEF IInv, TypeOK, Worker
  <1>3. \A j \in Worker \ {i} : worker'[j] = worker[j] /\ (Waits(j)' <=> Waits(j))
    BY <1>0, <1>1 DEF Issue, Waits
  <1>4. AnsweredBut(i) \in SUBSET Dispatched
    BY DEF AnsweredBut
  <1>10. /\ worker' \in [Worker -> [stage : Stage, seq : 0..MaxTasks, batch : SUBSET Seq0]]
         /\ faults' \in 0..MaxFaults
    <2>1. Request(SecondhalfSeq, ready) \in [stage : Stage, seq : 0..MaxTasks, batch : SUBSET Seq0]
      BY <1>1 DEF Request, SecondhalfSeq, Stage, LeftBehind
    <2>2. dispatch => Request(tasks_dispatched, {}) \in [stage : Stage, seq : 0..MaxTasks, batch : SUBSET Seq0]
      BY <1>1 DEF Request, Stage
    <2>3. Idle \in [stage : Stage, seq : 0..MaxTasks, batch : SUBSET Seq0]
      BY <1>1 DEF Idle, Stage
    <2> HIDE DEF dispatch, commit
    <2>4. QED BY <1>0, <1>1, <2>1, <2>2, <2>3 DEF Issue, IInv, TypeOK
  <1>5. CASE commit
    <2>1. /\ worker'[i] = [stage |-> "connecting", seq |-> MaxTasks, batch |-> ready]
          /\ tasks_dispatched' = tasks_dispatched /\ pending' = {}
          /\ task_starts' = starts \cup {MaxTasks} /\ secondhalf_seq' = MaxTasks
      BY <1>0, <1>1, <1>5 DEF Issue, Request, SecondhalfSeq
    <2>2. TypeOK'
      BY <1>1, <1>2, <1>10, <1>5, <2>1 DEF IInv, TypeOK, LeftBehind, SecondhalfSeq, Seq0, Mode
    <2>3. EndsInv'
      BY <1>1, <1>2, <1>3, <1>5, <2>1 DEF IInv, EndsInv, SuccessIsComplete
    <2>4. RequestInv'
      <3>1. done > 0
        <4>1. PICK t \in ready : t \in AnsweredBut(i)
          BY <1>5 DEF LeftBehind, AnsweredBut
        <4>2. IsFiniteSet(AnsweredBut(i)) /\ Cardinality(AnsweredBut(i)) \in Nat
          BY <1>4, AnsweredFinite DEF IInv
        <4>3. Cardinality(AnsweredBut(i)) # 0
          BY <4>1, <4>2, FS_EmptySet
        <4>4. QED BY <1>5, <4>2, <4>3 DEF LeftBehind
      <3>2. \A j \in Worker \ {i} : Waits(j) => worker[j].seq # MaxTasks
        BY <1>1, <1>5 DEF LeftBehind, DoesSecondhalf
      <3>3. mode' # "whole"
        BY <1>5 DEF LeftBehind
      <3>4. ready \subseteq Dispatched /\ \A j \in Worker \ {i} : Waits(j) => worker[j].seq \notin ready
        BY <1>5 DEF LeftBehind
      <3>5. Waits(i)' /\ worker'[i].seq = SecondhalfSeq /\ worker'[i].batch = ready /\ Dispatched' = Dispatched
        BY <2>1 DEF Waits, SecondhalfSeq, Dispatched
      <3>6. SecondhalfSeq \notin Dispatched
        BY <1>1 DEF SecondhalfSeq, Dispatched
      <3>7. \A j \in Worker \ {i} : Waits(j) =>
              \/ worker[j].seq \in Dispatched /\ worker[j].batch = {}
              \/ worker[j].seq = SecondhalfSeq /\ worker[j].batch \subseteq Dispatched
        BY DEF IInv, RequestInv
      <3>8. \A j \in Worker : Waits(j)' => worker'[j].seq \in task_starts'
        BY <1>3, <2>1, <3>5 DEF LeftBehind, SecondhalfSeq
      <3>9. \A j, k \in Worker : Waits(j)' /\ Waits(k)' => worker'[k].seq \notin worker'[j].batch
        BY <1>3, <3>4, <3>5, <3>6, <3>7 DEF IInv, RequestInv
      <3>10. \A j, k \in Worker : Waits(j)' /\ Waits(k)' /\ worker'[j].seq = worker'[k].seq => j = k
        BY <1>3, <3>2, <3>5 DEF IInv, RequestInv, SecondhalfSeq
      <3>11. QED BY <1>3, <3>1, <3>3, <3>4, <3>5, <3>7, <3>8, <3>9, <3>10 DEF RequestInv
    <2>5. WorkInv'
      BY <1>1, <1>2, <1>3, <1>5, <2>1 DEF IInv, WorkInv, RequestInv, RequestsFresh, IsSecondhalf, LeftBehind, Waits, Dispatched
    <2>6. PlaceInv'
      BY <1>1, <1>2, <1>3, <1>5, <2>1 DEF IInv, PlaceInv, RequestInv, LeftBehind, Waits, Dispatched
    <2>7. CountInv'
      <3>1. AnsweredTasks' = AnsweredBut(i)
        BY <1>1, <1>3, <1>4, <2>1 DEF AnsweredTasks, AnsweredBut, Waits, Dispatched
      <3>2. QED BY <3>1 DEF CountInv, LeftBehind
    <2>8. ProgressInv'
      BY <1>1, <1>2, <1>3, <1>5, <2>1 DEF IInv, ProgressInv, RequestInv, LeftBehind, Waits, DoesSecondhalf, Dispatched
    <2>9. QED BY <2>2, <2>3, <2>4, <2>5, <2>6, <2>7, <2>8 DEF IInv
  <1>6. CASE dispatch
    <2>1. /\ worker'[i] = [stage |-> "connecting", seq |-> tasks_dispatched, batch |-> {}]
          /\ tasks_dispatched' = tasks_dispatched + 1 /\ pending' = ready
          /\ task_starts' = starts \cup {tasks_dispatched} /\ secondhalf_seq' = second
      BY <1>0, <1>1, <1>6 DEF Issue, Request, SecondhalfSeq
    <2>2. TypeOK'
      BY <1>1, <1>2, <1>10, <1>6, <2>1 DEF IInv, TypeOK, LeftBehind, SecondhalfSeq, Seq0, Mode
    <2>3. EndsInv'
      BY <1>1, <1>2, <1>3, <1>6, <2>1 DEF IInv, EndsInv, SuccessIsComplete
    <2>4. RequestInv'
      BY <1>1, <1>2, <1>3, <1>6, <2>1 DEF IInv, RequestInv, LeftBehind, Waits, Dispatched, SecondhalfSeq, Seq0
    <2>5. WorkInv'
      BY <1>1, <1>2, <1>3, <1>6, <2>1 DEF IInv, WorkInv, RequestInv, RequestsFresh, IsSecondhalf, LeftBehind, Waits, Dispatched
    <2>6. PlaceInv'
      BY <1>1, <1>2, <1>3, <1>6, <2>1 DEF IInv, PlaceInv, RequestInv, LeftBehind, Waits, Dispatched
    <2>7. CountInv'
      <3>1. AnsweredTasks' = AnsweredBut(i)
        <4>1. \A j \in Worker \ {i} : Waits(j) => worker[j].seq # tasks_dispatched
          BY <1>1, <1>6 DEF IInv, RequestInv, Dispatched, SecondhalfSeq
        <4>2. Dispatched' = Dispatched \cup {tasks_dispatched} /\ tasks_dispatched \notin Dispatched
          BY <1>1, <2>1 DEF Dispatched
        <4>3. Waits(i)' /\ worker'[i].seq = tasks_dispatched
          BY <2>1 DEF Waits
        <4>4. \A j \in Worker : j # i => (Waits(j)' <=> Waits(j)) /\ worker'[j] = worker[j]
          BY <1>3
        <4>5. QED BY <4>2, <4>3, <4>4 DEF AnsweredTasks, AnsweredBut
      <3>2. QED BY <3>1 DEF CountInv, LeftBehind
    <2>8. ProgressInv'
      BY <1>1, <1>2, <1>3, <1>6, <2>1 DEF IInv, ProgressInv, RequestInv, LeftBehind, Waits, DoesSecondhalf, Dispatched
    <2>9. QED BY <2>2, <2>3, <2>4, <2>5, <2>6, <2>7, <2>8 DEF IInv
  <1>7. CASE ~commit /\ ~dispatch
    <2>1. /\ worker'[i] = [stage |-> "idle", seq |-> 0, batch |-> {}]
          /\ tasks_dispatched' = tasks_dispatched /\ pending' = ready
          /\ task_starts' = starts /\ secondhalf_seq' = second
      BY <1>0, <1>1, <1>7 DEF Issue, Idle, SecondhalfSeq
    <2>2. TypeOK'
      BY <1>1, <1>2, <1>10, <1>7, <2>1 DEF IInv, TypeOK, LeftBehind, SecondhalfSeq, Seq0, Mode
    <2>3. EndsInv'
      BY <1>1, <1>2, <1>3, <1>7, <2>1 DEF IInv, EndsInv, SuccessIsComplete
    <2>4. RequestInv'
      BY <1>1, <1>2, <1>3, <1>7, <2>1 DEF IInv, RequestInv, LeftBehind, Waits, Dispatched, SecondhalfSeq, Seq0
    <2>5. WorkInv'
      BY <1>1, <1>2, <1>3, <1>7, <2>1 DEF IInv, WorkInv, RequestInv, RequestsFresh, IsSecondhalf, LeftBehind, Waits, Dispatched
    <2>6. PlaceInv'
      BY <1>1, <1>2, <1>3, <1>7, <2>1 DEF IInv, PlaceInv, RequestInv, LeftBehind, Waits, Dispatched
    <2>7. CountInv'
      <3>1. AnsweredTasks' = AnsweredBut(i)
        BY <1>1, <1>3, <1>4, <2>1 DEF AnsweredTasks, AnsweredBut, Waits, Dispatched
      <3>2. QED BY <3>1 DEF CountInv, LeftBehind
    <2>8. ProgressInv'
      <3> SUFFICES ASSUME ~failed PROVE ProgressInv'
        BY DEF ProgressInv
      <3>1. tasks_dispatched = tasks_total
        BY <1>1, <1>7
      <3>2. secondhalf_seq' # 0 <=> \E j \in Worker : DoesSecondhalf(j)'
        BY <1>3, <2>1 DEF LeftBehind, DoesSecondhalf, Waits
      <3>3. ASSUME ready # {}, \A j \in Worker \ {i} : ~Waits(j) PROVE FALSE
        <4>1. AnsweredBut(i) = Dispatched
          BY <3>3 DEF AnsweredBut
        <4>2. Cardinality(Dispatched) = tasks_dispatched
          BY <1>1, FS_Interval DEF Dispatched
        <4>3. done = tasks_total
          BY <3>1, <4>1, <4>2 DEF LeftBehind
        <4>4. second = 0
          BY <3>3 DEF LeftBehind, DoesSecondhalf
        <4>5. QED BY <1>7, <3>3, <4>3, <4>4 DEF WorthCommitting
      <3>4. QED BY <1>1, <1>3, <2>1, <3>1, <3>2, <3>3 DEF ProgressInv
    <2>9. QED BY <2>2, <2>3, <2>4, <2>5, <2>6, <2>7, <2>8 DEF IInv
  <1>8. QED BY <1>5, <1>6, <1>7

\* An error is an answer as well; nothing is counted.
LEMMA ErrorKeepsInv ==
  ASSUME IInv, NEW i \in Worker, process_error(i) PROVE IInv'
  <1>1. Waits(i)
    BY DEF process_error, Waits
  <1>2. tasks_completed <= Cardinality(AnsweredBut(i))
    <2>1. AnsweredTasks \subseteq AnsweredBut(i) /\ AnsweredBut(i) \in SUBSET Dispatched
      BY DEF AnsweredTasks, AnsweredBut
    <2>2. IsFiniteSet(AnsweredBut(i)) /\ Cardinality(AnsweredBut(i)) \in Nat
      BY <2>1, AnsweredFinite DEF IInv
    <2>3. Cardinality(AnsweredTasks) <= Cardinality(AnsweredBut(i)) /\ Cardinality(AnsweredTasks) \in Nat
      BY <2>1, <2>2, FS_Subset, FS_CardinalityType
    <2>4. tasks_completed \in Nat
      BY SchedulerAssumption DEF IInv, TypeOK
    <2>5. QED BY <2>2, <2>3, <2>4 DEF IInv, CountInv
  <1>3. LeftBehind(i, tasks_completed, secondhalf_seq, pending, TRUE, task_starts, counted')
    BY <1>2 DEF IInv, TypeOK, LeftBehind, process_error, RequestInv, WorkInv, Dispatched, SecondhalfSeq
  <1>4. QED BY <1>1, <1>3, NextKeepsInv DEF process_error, stored

\* A task that was answered is counted once.
LEMMA TaskKeepsInv ==
  ASSUME IInv, NEW i \in Worker, process_task(i) PROVE IInv'
  <1> USE SchedulerAssumption
  <1> DEFINE seq == worker[i].seq
             ready == IF mode = "whole" THEN pending ELSE pending \cup {seq}
  <1>1. Waits(i) /\ ~IsSecondhalf(i) /\ seq < tasks_total /\ worker[i].stage = "result"
    BY WorkerType DEF IInv, TypeOK, process_task, Waits, IsSecondhalf
  <1>2. /\ tasks_total \in 1..MaxTasks /\ tasks_dispatched \in 0..tasks_total
        /\ tasks_completed \in 0..tasks_total /\ MaxTasks \in Nat
    BY DEF IInv, TypeOK
  <1>3. seq \in Dispatched /\ worker[i].batch = {} /\ seq \in Seq0
    BY <1>1, <1>2 DEF IInv, RequestInv, SecondhalfSeq, Seq0, Dispatched
  <1>4. AnsweredBut(i) = AnsweredTasks \cup {seq} /\ seq \notin AnsweredTasks
    BY <1>1, <1>3 DEF IInv, RequestInv, AnsweredBut, AnsweredTasks
  <1>5. IsFiniteSet(AnsweredTasks) /\ Cardinality(AnsweredTasks) \in Nat
    BY AnsweredFinite DEF IInv, AnsweredTasks
  <1>6. Cardinality(AnsweredBut(i)) = Cardinality(AnsweredTasks) + 1
    BY <1>4, <1>5, FS_AddElement
  <1>7. Cardinality(AnsweredBut(i)) <= tasks_dispatched
    BY AnsweredFinite DEF IInv, AnsweredBut
  <1>8. /\ tasks_completed + 1 \in 0..tasks_total
        /\ tasks_completed + 1 <= Cardinality(AnsweredBut(i))
        /\ ~error_happened => tasks_completed + 1 = Cardinality(AnsweredBut(i))
    BY <1>2, <1>5, <1>6, <1>7 DEF IInv, CountInv
  <1>9. counted' = (IF mode = "whole" THEN counted \cup {seq} ELSE counted)
    BY DEF process_task
  <1>10. /\ mode = "whole" => seq \in committed /\ seq \notin files /\ ready = {}
         /\ mode # "whole" => seq \in files \ committed
    BY <1>1 DEF IInv, WorkInv
  <1>11. \A j \in Worker \ {i} : Waits(j) => worker[j].seq # seq /\ seq \notin worker[j].batch
    BY <1>1 DEF IInv, RequestInv
  <1>12. \A j \in Worker \ {i} : Waits(j) => 
           worker[j].seq \in task_starts \ {seq} /\ (worker[j].seq = SecondhalfSeq => tasks_completed + 1 > 0)
    BY <1>2, <1>11 DEF IInv, RequestInv
  <1>13. secondhalf_seq \in {0, SecondhalfSeq} /\ error_happened \in BOOLEAN
         /\ ready \in SUBSET Seq0 /\ counted' \in SUBSET Seq0
         /\ task_starts \ {seq} \in SUBSET (Seq0 \cup {SecondhalfSeq})
    BY <1>3, <1>9 DEF IInv, TypeOK
  <1>14. ASSUME ~error_happened
         PROVE  /\ secondhalf_seq # 0 <=> \E j \in Worker \ {i} : DoesSecondhalf(j)
                /\ ready \subseteq Dispatched /\ counted' \subseteq Dispatched
                /\ ready \subseteq files \ committed /\ counted' \subseteq committed \ files
                /\ \A j \in Worker \ {i} : Waits(j) =>
                     /\ worker[j].batch \cap ready = {} /\ worker[j].batch \cap counted' = {}
                     /\ worker[j].seq \notin ready \cup counted'
                /\ \A t \in Dispatched :
                     \/ t \in ready \cup counted'
                     \/ \E j \in Worker \ {i} : Waits(j) /\ (worker[j].seq = t \/ t \in worker[j].batch)
    <2>1. ~DoesSecondhalf(i)
      BY <1>1 DEF DoesSecondhalf, IsSecondhalf
    <2>2. secondhalf_seq # 0 <=> \E j \in Worker \ {i} : DoesSecondhalf(j)
      BY <1>14, <2>1 DEF IInv, ProgressInv
    <2>3. PlaceInv
      BY DEF IInv
    <2>4. /\ ready \subseteq Dispatched /\ counted' \subseteq Dispatched
          /\ ready \subseteq files \ committed /\ counted' \subseteq committed \ files
      BY <1>3, <1>9, <1>10, <1>14, <2>3 DEF PlaceInv
    <2>5. \A j \in Worker \ {i} : Waits(j) =>
            /\ worker[j].batch \cap ready = {} /\ worker[j].batch \cap counted' = {}
            /\ worker[j].seq \notin ready \cup counted'
      BY <1>9, <1>11, <1>14, <2>3 DEF PlaceInv
    <2>6. ready \cup counted' = pending \cup counted \cup {seq}
      BY <1>9
    <2>7. \A t \in Dispatched :
            \/ t \in ready \cup counted'
            \/ \E j \in Worker \ {i} : Waits(j) /\ (worker[j].seq = t \/ t \in worker[j].batch)
      BY <1>3, <1>14, <2>3, <2>6 DEF PlaceInv
    <2>8. QED BY <2>2, <2>4, <2>5, <2>7
  <1>15. LeftBehind(i, tasks_completed + 1, secondhalf_seq, ready, error_happened, task_starts \ {seq}, counted')
    BY <1>8, <1>10, <1>12, <1>13, <1>14 DEF LeftBehind
  <1>16. QED BY <1>1, <1>15, NextKeepsInv DEF process_task, stored

\* A secondhalf that was answered has accounted for its files.
LEMMA SecondhalfKeepsInv ==
  ASSUME IInv, NEW i \in Worker, process_secondhalf(i) PROVE IInv'
  <1> USE SchedulerAssumption
  <1> DEFINE batch == worker[i].batch
  <1>1. Waits(i) /\ IsSecondhalf(i) /\ worker[i].stage = "result" /\ outcome = "running"
    BY DEF process_secondhalf, Waits, IsSecondhalf
  <1>2. /\ tasks_total \in 1..MaxTasks /\ tasks_dispatched \in 0..tasks_total
        /\ tasks_completed \in 0..tasks_total /\ MaxTasks \in Nat
    BY DEF IInv, TypeOK
  <1>3. worker[i].seq = SecondhalfSeq /\ batch \subseteq Dispatched /\ SecondhalfSeq \notin Dispatched
    BY <1>1, <1>2 DEF IInv, RequestInv, IsSecondhalf, Dispatched, SecondhalfSeq
  <1>4. AnsweredBut(i) = AnsweredTasks
    BY <1>3 DEF AnsweredBut, AnsweredTasks
  <1>5. counted' = counted \cup batch /\ batch \subseteq committed \ files
    BY <1>1 DEF process_secondhalf, IInv, WorkInv
  <1>6. \A j \in Worker \ {i} : Waits(j) => worker[j].seq # SecondhalfSeq /\ worker[j].seq \notin batch
    BY <1>1, <1>3 DEF IInv, RequestInv
  <1>7. \A j \in Worker \ {i} : Waits(j) => worker[j].seq \in Dispatched /\ worker[j].batch = {}
    BY <1>6 DEF IInv, RequestInv
  <1>8. \A j \in Worker \ {i} : ~DoesSecondhalf(j)
    BY <1>2, <1>7 DEF DoesSecondhalf, Dispatched
  <1>9. /\ 0 \in {0, SecondhalfSeq} /\ error_happened \in BOOLEAN
        /\ pending \in SUBSET Seq0 /\ counted' \in SUBSET Seq0
        /\ task_starts \ {SecondhalfSeq} \in SUBSET (Seq0 \cup {SecondhalfSeq})
        /\ mode = "whole" => pending = {}
    BY <1>5, WorkerType DEF IInv, TypeOK, WorkInv
  <1>10. \A j \in Worker \ {i} : Waits(j) =>
           worker[j].seq \in task_starts \ {SecondhalfSeq} /\ worker[j].seq # SecondhalfSeq
    BY <1>6 DEF IInv, RequestInv
  <1>11. ASSUME ~error_happened
         PROVE  /\ pending \subseteq Dispatched /\ counted' \subseteq Dispatched
                /\ pending \subseteq files \ committed /\ counted' \subseteq committed \ files
                /\ \A j \in Worker \ {i} : Waits(j) =>
                     /\ worker[j].batch \cap pending = {} /\ worker[j].batch \cap counted' = {}
                     /\ worker[j].seq \notin pending \cup counted'
                /\ \A t \in Dispatched :
                     \/ t \in pending \cup counted'
                     \/ \E j \in Worker \ {i} : Waits(j) /\ (worker[j].seq = t \/ t \in worker[j].batch)
    BY <1>1, <1>3, <1>5, <1>6, <1>7, <1>11 DEF IInv, PlaceInv
  <1>12. /\ tasks_completed <= Cardinality(AnsweredBut(i))
         /\ ~error_happened => tasks_completed = Cardinality(AnsweredBut(i))
    BY <1>4 DEF IInv, CountInv
  <1>13. LeftBehind(i, tasks_completed, 0, pending, error_happened, task_starts \ {SecondhalfSeq}, counted')
    BY <1>2, <1>8, <1>9, <1>10, <1>11, <1>12 DEF LeftBehind
  <1>14. QED BY <1>1, <1>13, NextKeepsInv DEF process_secondhalf, stored

-----------------------------------------------------------------------------
(* Steps that only bring one request further.                              *)

\* While a worker's request is on its way, who waits for what is the same.
LEMMA OnItsWay ==
  ASSUME IInv, NEW i \in Worker, Waits(i), NEW st \in Stage \ {"idle"},
         worker' = [worker EXCEPT ![i].stage = st],
         UNCHANGED <<mode, tasks_total, control, outcome>>
  PROVE  /\ worker' \in [Worker -> [stage : Stage, seq : 0..MaxTasks, batch : SUBSET Seq0]]
         /\ worker'[i].stage = st
         /\ \A j \in Worker \ {i} : worker'[j] = worker[j]
         /\ \A j \in Worker : /\ Waits(j)' <=> Waits(j)
                              /\ IsSecondhalf(j)' <=> IsSecondhalf(j)
                              /\ worker'[j].seq = worker[j].seq
                              /\ worker'[j].batch = worker[j].batch
         /\ Dispatched' = Dispatched
         /\ RequestInv' /\ CountInv' /\ ProgressInv'
         /\ outcome \in {"running", "threw"}
  <1>1. worker \in [Worker -> [stage : Stage, seq : 0..MaxTasks, batch : SUBSET Seq0]]
    BY DEF IInv, TypeOK
  <1>2. /\ worker' \in [Worker -> [stage : Stage, seq : 0..MaxTasks, batch : SUBSET Seq0]]
        /\ worker'[i].stage = st
        /\ \A j \in Worker \ {i} : worker'[j] = worker[j]
        /\ \A j \in Worker : worker'[j].seq = worker[j].seq /\ worker'[j].batch = worker[j].batch
    BY <1>1
  <1>3. \A j \in Worker : (Waits(j)' <=> Waits(j)) /\ (IsSecondhalf(j)' <=> IsSecondhalf(j))
    BY <1>2 DEF Waits, IsSecondhalf
  <1>4. Dispatched' = Dispatched
    BY DEF Dispatched, control
  <1>5. AnsweredTasks' = AnsweredTasks
    BY <1>2, <1>3, <1>4 DEF AnsweredTasks
  <1>6. CountInv'
    BY <1>5 DEF IInv, CountInv, control
  <1>7. RequestInv'
    BY <1>2, <1>3, <1>4 DEF IInv, RequestInv, control
  <1>8. \A j \in Worker : DoesSecondhalf(j)' <=> DoesSecondhalf(j)
    BY <1>2, <1>3 DEF DoesSecondhalf
  <1>9. ProgressInv'
    BY <1>3, <1>8 DEF IInv, ProgressInv, control
  <1>10. outcome \in {"running", "threw"}
    BY DEF IInv, TypeOK, EndsInv
  <1>11. QED BY <1>2, <1>3, <1>4, <1>6, <1>7, <1>9, <1>10

\* A request is connected, then written.
LEMMA DeliveryKeepsInv ==
  ASSUME IInv, NEW i \in Worker, on_connect(i) \/ after_write(i) PROVE IInv'
  <1>1. PICK st \in {"writing", "working"} :
          /\ worker' = [worker EXCEPT ![i].stage = st] /\ worker[i].stage \in {"connecting", "writing"}
    BY DEF on_connect, after_write
  <1>2. UNCHANGED <<mode, tasks_total, control, outcome, files, committed, faults>> /\ outcome = "running"
    BY DEF on_connect, after_write, stored
  <1>3. Waits(i) /\ st \in Stage \ {"idle"}
    BY <1>1 DEF Waits, Stage
  <1>4. /\ worker' \in [Worker -> [stage : Stage, seq : 0..MaxTasks, batch : SUBSET Seq0]]
        /\ worker'[i].stage = st
        /\ \A j \in Worker \ {i} : worker'[j] = worker[j]
        /\ \A j \in Worker : /\ Waits(j)' <=> Waits(j)
                             /\ IsSecondhalf(j)' <=> IsSecondhalf(j)
                             /\ worker'[j].seq = worker[j].seq
                             /\ worker'[j].batch = worker[j].batch
        /\ Dispatched' = Dispatched
        /\ RequestInv' /\ CountInv' /\ ProgressInv'
    BY <1>1, <1>2, <1>3, OnItsWay
  <1>5. TypeOK'
    BY <1>2, <1>4 DEF IInv, TypeOK, control
  <1>6. EndsInv'
    BY <1>2 DEF IInv, EndsInv, SuccessIsComplete
  <1>7. WorkInv'
    BY <1>1, <1>2, <1>4 DEF IInv, WorkInv, RequestsFresh, control
  <1>8. PlaceInv'
    BY <1>2, <1>4 DEF IInv, PlaceInv, control
  <1>9. QED BY <1>4, <1>5, <1>6, <1>7, <1>8 DEF IInv

\* A worker does its work, all or a part of it, or fails at it.
LEMMA WorkKeepsInv ==
  ASSUME IInv, NEW i \in Worker, Works(i) \/ work_fails(i) PROVE IInv'
  <1> USE SchedulerAssumption
  <1>1. /\ worker[i].stage \in {"working", "result"}
        /\ UNCHANGED <<mode, tasks_total, control, outcome>>
    BY DEF Works, work_task, work_secondhalf, work_todo, work_fails
  <1>2. PICK st \in Stage \ {"idle"} : worker' = [worker EXCEPT ![i].stage = st]
    BY DEF Works, work_task, work_secondhalf, work_todo, work_fails, Stage
  <1>3. Waits(i)
    BY <1>1 DEF Waits
  <1>4. /\ worker' \in [Worker -> [stage : Stage, seq : 0..MaxTasks, batch : SUBSET Seq0]]
        /\ worker'[i].stage = st
        /\ \A j \in Worker \ {i} : worker'[j] = worker[j]
        /\ \A j \in Worker : /\ Waits(j)' <=> Waits(j)
                             /\ IsSecondhalf(j)' <=> IsSecondhalf(j)
                             /\ worker'[j].seq = worker[j].seq
                             /\ worker'[j].batch = worker[j].batch
        /\ Dispatched' = Dispatched
        /\ RequestInv' /\ CountInv' /\ ProgressInv'
        /\ outcome \in {"running", "threw"}
    BY <1>1, <1>2, <1>3, OnItsWay
  <1>5. EndsInv'
    BY <1>1, <1>4 DEF EndsInv, SuccessIsComplete
  <1>6. /\ tasks_total \in 1..MaxTasks /\ tasks_dispatched \in 0..tasks_total /\ MaxTasks \in Nat
        /\ files \subseteq Seq0 /\ committed \subseteq Seq0 /\ faults \in 0..MaxFaults
        /\ files \subseteq Dispatched /\ committed \subseteq Dispatched
        /\ Dispatched \subseteq Seq0
    BY DEF IInv, TypeOK, WorkInv, Dispatched, Seq0
  <1>7. ~IsSecondhalf(i) => worker[i].seq \in Dispatched
    BY <1>3, <1>6 DEF IInv, RequestInv, IsSecondhalf, SecondhalfSeq
  <1>8. IsSecondhalf(i) => /\ mode # "whole" /\ worker[i].batch \subseteq Dispatched
                           /\ \A j \in Worker \ {i} : Waits(j) => ~IsSecondhalf(j)
    BY <1>3, <1>6 DEF IInv, RequestInv, IsSecondhalf, SecondhalfSeq, Dispatched
  <1>9. \A j \in Worker \ {i} : Waits(j) =>
          /\ worker[j].seq # worker[i].seq /\ worker[j].seq \notin worker[i].batch
          /\ worker[i].seq \notin worker[j].batch
    BY <1>3 DEF IInv, RequestInv
  <1>10. \A j \in Worker : ~Waits(j) <=> worker[j].stage = "idle"
    BY DEF Waits
  <1>11. ~error_happened => /\ worker[i].batch \cap pending = {} /\ worker[i].batch \cap counted = {}
                            /\ worker[i].seq \notin pending \cup counted
    BY <1>3 DEF IInv, PlaceInv
  <1>12. /\ files' \subseteq Dispatched /\ committed' \subseteq Dispatched
         /\ faults' \in 0..MaxFaults
    <2>1. CASE work_task(i)
      BY <1>6, <1>7, <2>1 DEF work_task
    <2>2. CASE work_secondhalf(i)
      BY <1>6, <2>2 DEF work_secondhalf
    <2>3. CASE work_todo(i)
      BY <1>6, <2>3 DEF work_todo, stored
    <2>4. CASE work_fails(i)
      BY <1>6, <2>4 DEF work_fails
    <2>5. QED BY <2>1, <2>2, <2>3, <2>4 DEF Works
  <1>13. TypeOK'
    BY <1>1, <1>4, <1>6, <1>12 DEF IInv, TypeOK, control
  <1>14. WorkInv' /\ PlaceInv'
    <2> USE DEF control, stored
    <2>0. WorkInv /\ PlaceInv
      BY DEF IInv
    <2>1. CASE work_task(i)
      <3>1. worker[i].stage = "working" /\ ~IsSecondhalf(i) /\ st = "result"
        BY <1>4, <2>1, WorkerType DEF work_task, IInv, TypeOK
      <3>2. worker[i].seq \notin files \cup committed
        BY <2>0, <3>1 DEF WorkInv
      <3>3. CASE mode = "whole"
        <4>1. committed' = committed \cup {worker[i].seq} /\ files' = files /\ files = {} /\ pending = {}
          BY <2>0, <2>1, <3>3 DEF work_task, WorkInv
        <4>2. \A j \in Worker : Waits(j) => ~IsSecondhalf(j)
          BY <1>6, <3>3 DEF IInv, RequestInv, IsSecondhalf, Dispatched
        <4>3. RequestsFresh'
          BY <1>4, <1>9, <1>10, <2>0, <3>1, <4>1, <4>2 DEF WorkInv, RequestsFresh
        <4>4. WorkInv'
          BY <1>1, <1>4, <1>9, <1>10, <1>12, <2>0, <3>1, <3>3, <4>1, <4>2, <4>3 DEF WorkInv
        <4>5. PlaceInv'
          BY <1>1, <1>4, <2>0, <4>1 DEF PlaceInv
        <4>6. QED BY <4>4, <4>5
      <3>4. CASE mode # "whole"
        <4>1. files' = files \cup {worker[i].seq} /\ committed' = committed
          BY <2>1, <3>4 DEF work_task
        <4>2. RequestsFresh'
          BY <1>4, <1>9, <1>10, <2>0, <3>1, <4>1 DEF WorkInv, RequestsFresh
        <4>3. WorkInv'
          BY <1>1, <1>4, <1>9, <1>10, <1>12, <2>0, <3>1, <3>2, <3>4, <4>1, <4>2 DEF WorkInv
        <4>4. PlaceInv'
          BY <1>1, <1>4, <1>11, <2>0, <4>1 DEF PlaceInv
        <4>5. QED BY <4>3, <4>4
      <3>5. QED BY <3>3, <3>4
    <2>2. CASE work_secondhalf(i)
      <3>1. worker[i].stage = "working" /\ IsSecondhalf(i) /\ mode = "halves"
        BY <2>2 DEF work_secondhalf
      <3>2. PICK group \in SUBSET (worker[i].batch \cap files) :
              /\ committed' = committed \cup group /\ files' = files \ group
              /\ worker'[i].stage = IF worker[i].batch \cap files = group THEN "result" ELSE "working"
        BY <2>2, <1>4, WorkerType DEF work_secondhalf, IInv, TypeOK
      <3>3. worker[i].batch \ files \subseteq committed
        BY <2>0, <3>1 DEF WorkInv
      <3>4. RequestsFresh'
        BY <1>4, <1>8, <1>9, <1>10, <2>0, <3>1, <3>2 DEF WorkInv, RequestsFresh
      <3>5. worker'[i].stage = "result" => worker[i].batch \subseteq committed' \ files'
        BY <3>2, <3>3
      <3>6. worker[i].batch \ files' \subseteq committed'
        BY <3>2, <3>3
      <3>7. WorkInv'
        BY <1>1, <1>4, <1>8, <1>9, <1>10, <1>12, <2>0, <3>1, <3>2, <3>4, <3>5, <3>6 DEF WorkInv
      <3>8. PlaceInv'
        BY <1>1, <1>4, <1>11, <2>0, <3>2 DEF PlaceInv
      <3>9. QED BY <3>7, <3>8
    <2>3. CASE work_todo(i)
      <3>1. UNCHANGED <<files, committed>> /\ worker'[i].stage = "error"
        BY <2>3, <1>4, WorkerType DEF work_todo, IInv, TypeOK
      <3>2. WorkInv'
        BY <1>1, <1>4, <2>0, <3>1 DEF WorkInv, RequestsFresh
      <3>3. PlaceInv'
        BY <1>1, <1>4, <2>0, <3>1 DEF PlaceInv
      <3>4. QED BY <3>2, <3>3
    <2>4. CASE work_fails(i)
      <3>1. worker'[i].stage \in {"error", "empty"} /\ files' = files
        BY <2>4, <1>4, WorkerType DEF work_fails, IInv, TypeOK
      <3>2. PICK group \in SUBSET (worker[i].batch \cap files) :
              /\ committed' = committed \cup group
              /\ group = {} \/ IsSecondhalf(i)
        BY <2>4 DEF work_fails
      <3>3. RequestsFresh'
        BY <1>4, <1>8, <1>9, <1>10, <2>0, <3>1, <3>2 DEF WorkInv, RequestsFresh
      <3>4. WorkInv'
        BY <1>1, <1>4, <1>8, <1>9, <1>10, <1>12, <2>0, <3>1, <3>2, <3>3 DEF WorkInv
      <3>5. PlaceInv'
        BY <1>1, <1>4, <1>11, <2>0, <3>1, <3>2 DEF PlaceInv
      <3>6. QED BY <3>4, <3>5
    <2>5. QED BY <2>1, <2>2, <2>3, <2>4 DEF Works
  <1>15. QED BY <1>4, <1>5, <1>13, <1>14 DEF IInv

-----------------------------------------------------------------------------
(* The beginning and the end of the operation.                             *)

\* At the beginning nothing has been asked for.
LEMMA InitHasInv == Init => IInv
  <1> SUFFICES ASSUME Init PROVE IInv
    OBVIOUS
  <1> USE SchedulerAssumption
  <1>1. /\ \A i \in Worker : worker[i].stage = "idle" /\ ~Waits(i)
        /\ tasks_total \in 1..MaxTasks /\ Dispatched = {}
    BY DEF Init, Idle, Waits, Dispatched
  <1>2. TypeOK
    <2>1. Idle \in [stage : Stage, seq : 0..MaxTasks, batch : SUBSET Seq0]
      BY DEF Idle, Stage
    <2>2. worker \in [Worker -> [stage : Stage, seq : 0..MaxTasks, batch : SUBSET Seq0]]
      BY <2>1 DEF Init
    <2>3. error_happened \in BOOLEAN
      BY DEF Init
    <2>4. /\ tasks_dispatched \in 0..tasks_total /\ tasks_completed \in 0..tasks_total
          /\ faults \in 0..MaxFaults /\ tasks_total \in 1..MaxTasks /\ secondhalf_seq \in {0, SecondhalfSeq}
      BY <1>1 DEF Init
    <2>5. /\ pending = {} /\ task_starts = {} /\ counted = {} /\ files = {} /\ committed = {}
          /\ outcome = "start" /\ mode \in Mode
      BY DEF Init
    <2>6. QED BY <2>2, <2>3, <2>4, <2>5 DEF TypeOK
  <1>3. EndsInv /\ RequestInv /\ PlaceInv /\ ProgressInv
    BY <1>1 DEF Init, EndsInv, SuccessIsComplete, RequestInv, PlaceInv, ProgressInv, DoesSecondhalf
  <1>4. WorkInv
    BY <1>1 DEF Init, WorkInv, RequestsFresh
  <1>5. AnsweredTasks = {}
    BY <1>1 DEF AnsweredTasks
  <1>6. CountInv
    BY <1>5, FS_EmptySet DEF CountInv, Init
  <1>7. QED BY <1>2, <1>3, <1>4, <1>6 DEF IInv

\* The first requests are the first tasks, one for each worker.
LEMMA RunKeepsInv == ASSUME IInv, run PROVE IInv'
  <1> USE SchedulerAssumption
  <1>0. tasks_total \in 1..MaxTasks /\ MaxTasks \in Nat /\ NumWorkers \in Nat \ {0}
    BY DEF IInv, TypeOK
  <1>1. PICK first \in 1..tasks_total :
          /\ first <= NumWorkers /\ (first = tasks_total \/ first = NumWorkers)
          /\ tasks_dispatched' = first /\ task_starts' = 0..(first - 1)
          /\ worker' = [i \in Worker |-> IF i <= first THEN Request(i - 1, {}) ELSE Idle]
    <2> DEFINE least == IF tasks_total < NumWorkers THEN tasks_total ELSE NumWorkers
    <2>1. least \in 1..tasks_total /\ least <= NumWorkers /\ (least = tasks_total \/ least = NumWorkers)
      BY <1>0
    <2>2. /\ tasks_dispatched' = least /\ task_starts' = 0..(least - 1)
          /\ worker' = [i \in Worker |-> IF i <= least THEN Request(i - 1, {}) ELSE Idle]
      BY DEF run
    <2> HIDE DEF least
    <2>3. QED BY <2>1, <2>2
  <1>2. /\ outcome = "start" /\ outcome' = "running" /\ ~error_happened /\ tasks_dispatched = 0
        /\ UNCHANGED <<mode, tasks_total, tasks_completed, secondhalf_seq, pending, error_happened,
                       counted, files, committed, faults>>
    BY DEF run, IInv, EndsInv, stored
  <1>3. Dispatched = {} /\ Dispatched' = 0..(first - 1) /\ \A i \in Worker : ~Waits(i)
    BY <1>0, <1>1, <1>2 DEF Dispatched, IInv, EndsInv
  <1>4. \A i \in Worker : /\ i \in Nat /\ i >= 1 /\ i <= NumWorkers
                          /\ i <= first => /\ worker'[i].stage = "connecting"
                                           /\ worker'[i].seq = i - 1 /\ worker'[i].batch = {}
                          /\ ~(i <= first) => worker'[i].stage = "idle"
    BY <1>0, <1>1, <1>2 DEF Worker, Waits, Request, Idle
  <1>5. /\ files = {} /\ committed = {} /\ pending = {} /\ counted = {}
        /\ tasks_completed = 0 /\ secondhalf_seq = 0
    <2>1. AnsweredTasks = {}
      BY <1>3 DEF AnsweredTasks
    <2>2. QED
      BY <1>2, <1>3, <2>1, FS_EmptySet DEF IInv, WorkInv, PlaceInv, CountInv, ProgressInv, DoesSecondhalf
  <1>6. TypeOK'
    <2>1. worker' \in [Worker -> [stage : Stage, seq : 0..MaxTasks, batch : SUBSET Seq0]]
      <3>1. \A i \in Worker :
              (IF i <= first THEN Request(i - 1, {}) ELSE Idle) \in [stage : Stage, seq : 0..MaxTasks, batch : SUBSET Seq0]
        <4>1. TAKE i \in Worker
        <4>2. i \in Nat /\ i >= 1
          BY <1>4
        <4>3. Idle \in [stage : Stage, seq : 0..MaxTasks, batch : SUBSET Seq0]
          BY <1>0, <1>1 DEF Idle, Stage
        <4>4. i <= first => Request(i - 1, {}) \in [stage : Stage, seq : 0..MaxTasks, batch : SUBSET Seq0]
          BY <1>0, <1>1, <4>2 DEF Request, Stage
        <4>5. QED BY <4>3, <4>4
      <3>2. QED BY <1>1, <3>1
    <2>2. task_starts' \in SUBSET (Seq0 \cup {SecondhalfSeq})
      BY <1>0, <1>1, <1>2 DEF Seq0
    <2>3. QED BY <1>0, <1>1, <1>2, <2>1, <2>2 DEF IInv, TypeOK
  <1>7. EndsInv'
    BY <1>2 DEF EndsInv, SuccessIsComplete
  <1>16. /\ first \in Nat /\ first >= 1 /\ first <= tasks_total /\ first <= NumWorkers
         /\ first = tasks_total \/ first = NumWorkers
         /\ tasks_total' = tasks_total /\ tasks_total \in Nat
    BY <1>0, <1>1, <1>2
  <1>14. \A i \in Worker : Waits(i)' => /\ worker'[i].stage = "connecting" /\ worker'[i].batch = {}
                                       /\ worker'[i].seq = i - 1 /\ worker'[i].seq \in 0..(first - 1)
                                       /\ i <= first /\ ~IsSecondhalf(i)'
    <2> SUFFICES ASSUME NEW i \in Worker, worker'[i].stage # "idle"
                 PROVE  /\ worker'[i].stage = "connecting" /\ worker'[i].batch = {}
                        /\ worker'[i].seq = i - 1 /\ worker'[i].seq \in 0..(first - 1)
                        /\ i <= first /\ ~(worker'[i].seq >= tasks_total')
      BY DEF Waits, IsSecondhalf
    <2>1. i \in Nat /\ i >= 1 /\ i <= first
      BY <1>4, <1>16
    <2>2. QED BY <1>4, <1>16, <2>1
  <1>15. \A i \in Worker : ~Waits(i)' => worker'[i].stage = "idle"
    BY DEF Waits
  <1>8. RequestInv'
    <2>1. \A i, j \in Worker : Waits(i)' /\ Waits(j)' /\ worker'[i].seq = worker'[j].seq => i = j
      BY <1>4, <1>14
    <2>2. QED BY <1>1, <1>2, <1>3, <1>14, <2>1 DEF RequestInv
  <1>9. WorkInv'
    BY <1>2, <1>5, <1>14, <1>15 DEF WorkInv, RequestsFresh
  <1>10. PlaceInv'
    <2>1. \A t \in 0..(first - 1) : \E i \in Worker : Waits(i)' /\ worker'[i].seq = t
      <3>1. TAKE t \in 0..(first - 1)
      <3>2. t + 1 \in Worker /\ t + 1 <= first
        BY <1>0, <1>1 DEF Worker
      <3>3. Waits(t + 1)' /\ worker'[t + 1].seq = t
        BY <1>4, <1>16, <3>2 DEF Waits
      <3>4. QED BY <3>2, <3>3
    <2>2. QED BY <1>2, <1>3, <1>4, <1>5, <2>1 DEF PlaceInv
  <1>11. CountInv'
    <2>1. AnsweredTasks' = {}
      <3>1. SUFFICES ASSUME NEW t \in 0..(first - 1), \A i \in Worker : Waits(i)' => worker'[i].seq # t
                     PROVE  FALSE
        BY <1>3 DEF AnsweredTasks
      <3>2. t + 1 \in Worker /\ t + 1 <= first
        BY <1>0, <1>1 DEF Worker
      <3>3. Waits(t + 1)' /\ worker'[t + 1].seq = t
        BY <1>4, <1>16, <3>2 DEF Waits
      <3>4. QED BY <3>1, <3>2, <3>3
    <2>2. QED BY <1>2, <1>5, <2>1, FS_EmptySet DEF CountInv
  <1>12. ProgressInv'
    <2>1. \A i \in Worker : ~DoesSecondhalf(i)'
      BY <1>14 DEF DoesSecondhalf, IsSecondhalf
    <2>2. first < tasks_total => \A i \in Worker : Waits(i)'
      BY <1>4, <1>16 DEF Waits
    <2>3. QED BY <1>1, <1>2, <1>5, <2>1, <2>2 DEF ProgressInv
  <1>13. QED BY <1>6, <1>7, <1>8, <1>9, <1>10, <1>11, <1>12 DEF IInv

\* When nobody waits any more, without an error, all is done.
LEMMA AllDone ==
  ASSUME IInv, outcome = "running", ~error_happened, \A i \in Worker : ~Waits(i)
  PROVE  committed = Task /\ counted = Task /\ files = {}
  <1>1. Worker # {}
    BY SchedulerAssumption DEF Worker
  <1>2. tasks_dispatched \in 0..tasks_total /\ tasks_total \in Nat
    BY SchedulerAssumption DEF IInv, TypeOK
  <1>3. tasks_dispatched = tasks_total
    BY <1>1, <1>2 DEF IInv, ProgressInv
  <1>4. Dispatched = Task
    BY <1>3 DEF Dispatched, Task
  <1>5. pending = {}
    BY DEF IInv, ProgressInv
  <1>6. QED BY <1>4, <1>5 DEF IInv, PlaceInv, WorkInv

\* The end: success, an error reported at the end, or an exception.
LEMMA EndKeepsInv ==
  ASSUME IInv, finish \/ \E i \in Worker : socket_error(i) PROVE IInv'
  <1> USE SchedulerAssumption
  <1>1. /\ UNCHANGED <<mode, tasks_total, control, worker, files, committed>>
        /\ outcome = "running" /\ outcome' \in {"returned", "threw"} /\ faults' \in 0..MaxFaults
    BY DEF finish, socket_error, stored, IInv, TypeOK
  <1>2. outcome' = "returned" => ~error_happened /\ \A i \in Worker : ~Waits(i)
    BY DEF finish, socket_error, Waits
  <1>3. outcome' = "returned" => committed = Task /\ counted = Task /\ files = {}
    BY <1>1, <1>2, AllDone
  <1>4. Dispatched' = Dispatched /\ AnsweredTasks' = AnsweredTasks /\ Task' = Task
        /\ \A i \in Worker : (Waits(i)' <=> Waits(i)) /\ (DoesSecondhalf(i)' <=> DoesSecondhalf(i))
    BY <1>1 DEF Dispatched, AnsweredTasks, Waits, DoesSecondhalf, Task, control
  <1>5. TypeOK'
    BY <1>1 DEF IInv, TypeOK, control
  <1>6. EndsInv'
    BY <1>1, <1>2, <1>3, <1>4 DEF EndsInv, SuccessIsComplete, control
  <1>7. RequestInv' /\ WorkInv' /\ PlaceInv'
    BY <1>1, <1>4 DEF IInv, RequestInv, WorkInv, RequestsFresh, IsSecondhalf, PlaceInv, control
  <1>8. CountInv' /\ ProgressInv'
    BY <1>1, <1>4 DEF IInv, CountInv, ProgressInv, control
  <1>9. QED BY <1>5, <1>6, <1>7, <1>8 DEF IInv

\* A step that changes nothing keeps the invariant.
LEMMA StutterKeepsInv == ASSUME IInv, UNCHANGED vars PROVE IInv'
  BY DEF IInv, TypeOK, EndsInv, SuccessIsComplete, RequestInv, WorkInv, RequestsFresh, IsSecondhalf, PlaceInv,
         CountInv, ProgressInv, Waits, DoesSecondhalf, Dispatched, AnsweredTasks, Task, vars, control, stored

\* The invariant is inductive.
LEMMA StepKeepsInv == IInv /\ [Next]_vars => IInv'
  <1> SUFFICES ASSUME IInv, [Next]_vars PROVE IInv'
    OBVIOUS
  <1>1. CASE run
    BY <1>1, RunKeepsInv
  <1>2. CASE finish
    BY <1>2, EndKeepsInv
  <1>3. CASE \E i \in Worker : Driver(i)
    BY <1>3, DeliveryKeepsInv, ErrorKeepsInv, TaskKeepsInv, SecondhalfKeepsInv DEF Driver
  <1>4. CASE \E i \in Worker : Works(i) \/ work_fails(i)
    BY <1>4, WorkKeepsInv
  <1>5. CASE \E i \in Worker : socket_error(i)
    BY <1>5, EndKeepsInv
  <1>6. CASE Done \/ UNCHANGED vars
    BY <1>6, StutterKeepsInv DEF Done
  <1>7. QED BY <1>1, <1>2, <1>3, <1>4, <1>5, <1>6 DEF Next

\* The invariant holds in every state of every behaviour.
LEMMA SpecHasInv == Spec => []IInv
  BY InitHasInv, StepKeepsInv, PTL DEF Spec

-----------------------------------------------------------------------------
(* The theorems.                                                           *)

\* The locals of do_generic_operation and the workers' sockets keep their
\* types; a task number stays below tasks_total.
THEOREM TypeCorrect == Spec => []TypeOK
  <1>1. IInv => TypeOK
    BY DEF IInv
  <1>2. QED BY <1>1, SpecHasInv, PTL

\* The secondhalf in flight is the only one, and carries the files in flight.
LEMMA OnlyOneSecondhalf ==
  ASSUME IInv
  PROVE  /\ \A i \in Worker : i \in Secondhalves <=> DoesSecondhalf(i)
         /\ \A i, j \in Secondhalves : i = j
         /\ \A i \in Secondhalves : worker[i].seq = SecondhalfSeq
  <1>1. \A i \in Worker : i \in Secondhalves <=> DoesSecondhalf(i)
    BY DEF Secondhalves, Busy, DoesSecondhalf, Waits, IsSecondhalf
  <1>2. tasks_dispatched \in 0..tasks_total /\ tasks_total \in 1..MaxTasks /\ MaxTasks \in Nat
    BY SchedulerAssumption DEF IInv, TypeOK
  <1>3. \A i \in Worker : DoesSecondhalf(i) => worker[i].seq = SecondhalfSeq
    BY <1>2 DEF IInv, RequestInv, DoesSecondhalf, Dispatched
  <1>4. \A i, j \in Worker : DoesSecondhalf(i) /\ DoesSecondhalf(j) => i = j
    BY <1>3 DEF IInv, RequestInv, DoesSecondhalf
  <1>5. Secondhalves \subseteq Worker
    BY DEF Secondhalves, Busy
  <1>6. QED BY <1>1, <1>3, <1>4, <1>5

\* The files that are pending, in flight or accounted for are those of the
\* tasks that were answered.
LEMMA FilesOfAnswered ==
  ASSUME IInv, mode # "whole", ~error_happened
  PROVE  pending \cup InFlight \cup counted = AnsweredTasks
  <1>1. PlaceInv /\ RequestInv
    BY DEF IInv
  <1>2. Secondhalves \subseteq Worker /\ \A i \in Secondhalves : Waits(i)
    BY DEF Secondhalves, Busy, Waits
  <1>3. \A i \in Worker, t \in Dispatched : Waits(i) /\ t \in worker[i].batch => i \in Secondhalves
    <2>1. tasks_dispatched \in 0..tasks_total /\ tasks_total \in 1..MaxTasks /\ MaxTasks \in Nat
      BY SchedulerAssumption DEF IInv, TypeOK
    <2>2. QED BY <1>1, <2>1 DEF RequestInv, Secondhalves, Busy, Waits, IsSecondhalf, SecondhalfSeq
  <1>4. ASSUME NEW t \in pending \cup counted PROVE t \in AnsweredTasks
    BY <1>1 DEF PlaceInv, AnsweredTasks
  <1>5. ASSUME NEW t \in InFlight PROVE t \in AnsweredTasks
    <2>1. PICK i \in Secondhalves : t \in worker[i].batch
      BY DEF InFlight
    <2>2. t \in Dispatched
      BY <1>1, <1>2, <2>1 DEF RequestInv
    <2>3. QED BY <1>1, <1>2, <2>1, <2>2 DEF RequestInv, AnsweredTasks
  <1>6. ASSUME NEW t \in AnsweredTasks PROVE t \in pending \cup InFlight \cup counted
    <2>1. t \in Dispatched /\ \A i \in Worker : Waits(i) => worker[i].seq # t
      BY DEF AnsweredTasks
    <2>2. CASE t \notin pending \cup counted
      <3>1. PICK i \in Worker : Waits(i) /\ t \in worker[i].batch
        BY <1>1, <2>1, <2>2 DEF PlaceInv
      <3>2. QED BY <1>3, <2>1, <3>1 DEF InFlight
    <2>3. QED BY <2>2
  <1>7. QED BY <1>4, <1>5, <1>6

\* Whatever the order of answers and failures, no work is lost, done twice or
\* left lying: files and requests are accounted for, one secondhalf runs at a
\* time, no worker is turned away too early, and when the operation returns
\* everything is committed.
THEOREM WorkIsConserved == Spec => []WorkConserved
  <1>1. IInv => WorkConserved
    <2> SUFFICES ASSUME IInv PROVE WorkConserved
      OBVIOUS
    <2>1. RequestsFresh /\ SuccessIsComplete
      BY DEF IInv, WorkInv, EndsInv
    <2>2. FilesConserved
      <3> SUFFICES ASSUME mode # "whole", ~error_happened
                   PROVE  /\ pending \cap InFlight = {} /\ pending \cap counted = {} /\ InFlight \cap counted = {}
                          /\ Cardinality(pending \cup InFlight \cup counted) = tasks_completed
                          /\ pending \subseteq files \ committed
        BY DEF FilesConserved
      <3>1. pending \subseteq files \ committed /\ counted \subseteq committed \ files
        BY DEF IInv, PlaceInv
      <3>2. \A i \in Secondhalves : worker[i].batch \cap pending = {} /\ worker[i].batch \cap counted = {}
        BY DEF IInv, PlaceInv, Secondhalves, Busy, Waits
      <3>3. InFlight \cap pending = {} /\ InFlight \cap counted = {}
        BY <3>2 DEF InFlight
      <3>4. Cardinality(pending \cup InFlight \cup counted) = tasks_completed
        BY FilesOfAnswered DEF IInv, CountInv
      <3>5. QED BY <3>1, <3>3, <3>4
    <2>3. OneSecondhalf
      <3>1. Cardinality(Secondhalves) <= 1
        <4>1. CASE Secondhalves = {}
          BY <4>1, FS_EmptySet
        <4>2. CASE Secondhalves # {}
          <5>1. PICK i \in Secondhalves : TRUE
            BY <4>2
          <5>2. Secondhalves = {i}
            BY <5>1, OnlyOneSecondhalf
          <5>3. Cardinality({i}) = 1
            BY FS_Singleton, Zenon
          <5>4. Cardinality(Secondhalves) = 1
            BY <5>2, <5>3
          <5>5. QED BY <5>4
        <4>3. QED BY <4>1, <4>2
      <3>2. Secondhalves \subseteq Worker
        BY DEF Secondhalves, Busy
      <3>3. ~error_happened => (secondhalf_seq # 0 <=> Secondhalves # {})
        BY <3>2, OnlyOneSecondhalf DEF IInv, ProgressInv
      <3>4. QED BY <3>1, <3>3 DEF OneSecondhalf
    <2>4. StartRecorded
      BY DEF IInv, RequestInv, StartRecorded, Busy, Waits
    <2>5. NoDivisionByZero
      <3>1. SecondhalfSeq \notin Dispatched
        BY SchedulerAssumption DEF IInv, TypeOK, SecondhalfSeq, Dispatched
      <3>2. \A i \in Secondhalves : i \in Worker /\ Waits(i) /\ worker[i].seq = SecondhalfSeq
        BY OnlyOneSecondhalf DEF Secondhalves, Busy, Waits
      <3>3. QED BY <3>1, <3>2 DEF IInv, RequestInv, NoDivisionByZero
    <2>6. NoWorkerStarves
      BY DEF IInv, ProgressInv, NoWorkerStarves, Busy, Waits
    <2>7. QED BY <2>1, <2>2, <2>3, <2>4, <2>5, <2>6 DEF WorkConserved
  <1>2. QED BY <1>1, SpecHasInv, PTL

\* After an error the driver lets the work that was issued finish, and issues
\* nothing: a request that is being connected was there before.
THEOREM ErrorStopsWork == Spec => NothingIssuedAfterError
  <1> DEFINE Nothing == error_happened => \A i \in Worker : worker'[i].stage = "connecting" => worker'[i] = worker[i]
  <1>1. ASSUME IInv, Next, error_happened, NEW j \in Worker, worker'[j].stage = "connecting"
        PROVE  worker'[j] = worker[j]
    <2>0. worker \in [Worker -> [stage : Stage, seq : 0..MaxTasks, batch : SUBSET Seq0]]
      BY <1>1 DEF IInv, TypeOK
    <2>1. CASE run
      BY <1>1, <2>1 DEF run, IInv, EndsInv
    <2>2. CASE finish \/ Done \/ \E i \in Worker : socket_error(i)
      BY <2>2 DEF finish, Done, socket_error, vars
    <2>3. ASSUME NEW i \in Worker, process_error(i) \/ process_task(i) \/ process_secondhalf(i)
          PROVE  worker'[j] = worker[j]
      <3>1. worker' = [worker EXCEPT ![i] = Idle]
        <4>1. CASE process_error(i)
          BY <4>1 DEF process_error, next, Issue
        <4>2. CASE process_task(i)
          BY <1>1, <4>2 DEF process_task, next, Issue
        <4>3. CASE process_secondhalf(i)
          BY <1>1, <4>3 DEF process_secondhalf, next, Issue
        <4>4. QED BY <2>3, <4>1, <4>2, <4>3
      <3>2. QED BY <1>1, <2>0, <3>1 DEF Idle
    <2>4. ASSUME NEW i \in Worker, on_connect(i) \/ after_write(i) \/ Works(i) \/ work_fails(i)
          PROVE  worker'[j] = worker[j]
      <3>1. PICK st \in Stage \ {"connecting"} : worker' = [worker EXCEPT ![i].stage = st]
        BY <2>4 DEF on_connect, after_write, Works, work_task, work_secondhalf, work_todo, work_fails, Stage
      <3>2. QED BY <1>1, <2>0, <3>1
    <2>5. QED BY <1>1, <2>1, <2>2, <2>3, <2>4 DEF Next, Driver
  <1>2. IInv /\ [Next]_vars => [Nothing]_vars
    BY <1>1
  <1>3. QED BY <1>2, SpecHasInv, PTL DEF Spec, NothingIssuedAfterError

-----------------------------------------------------------------------------
(* What the search relies on.                                              *)

\* A worker commits results of tasks of this operation, before or after the
\* driver has thrown, and never when it has returned.
LEMMA CommitRefines ==
  ASSUME IInv, NEW i \in Worker, Works(i) \/ work_fails(i)
  PROVE  [Op!Next]_(Op!vars)
  <1>1. Waits(i)
    BY DEF Works, work_task, work_secondhalf, work_todo, work_fails, Waits
  <1>2. outcome \in {"running", "threw"} /\ outcome' = outcome
    BY <1>1 DEF IInv, TypeOK, EndsInv, Works, work_task, work_secondhalf, work_todo, work_fails
  <1>3. Task' = Task
    BY DEF Task, Works, work_task, work_secondhalf, work_todo, work_fails
  <1>4. Dispatched \subseteq Task
    BY SchedulerAssumption DEF IInv, TypeOK, Dispatched, Task
  <1>5. committed \subseteq committed'
    BY DEF Works, work_task, work_secondhalf, work_todo, work_fails, stored
  <1>6. committed' \subseteq Task
    <2>1. IInv'
      BY WorkKeepsInv
    <2>2. Dispatched' = Dispatched
      BY DEF Dispatched, control, Works, work_task, work_secondhalf, work_todo, work_fails
    <2>3. QED BY <1>4, <2>1, <2>2 DEF IInv, WorkInv
  <1>7. CASE committed' = committed
    BY <1>2, <1>3, <1>7 DEF Op!vars
  <1>8. CASE committed' # committed
    <2> DEFINE S == committed' \ committed
    <2>1. S \in (SUBSET (Task \ committed)) \ {{}} /\ committed' = committed \cup S
      BY <1>5, <1>6, <1>8
    <2>2. Op!Commit
      BY <1>2, <1>3, <2>1 DEF Op!Commit
    <2>3. QED BY <2>2 DEF Op!Next
  <1>9. QED BY <1>7, <1>8

\* The scheduler with its workers does what the search relies on: it returns
\* only when the results of all tasks are in the database, it throws in every
\* other case, and results appear only while it runs or after it has thrown.
\* This is the safety part of ImplementsOperation.
THEOREM SchedulerRefines == Spec => Op!Init /\ [][Op!Next]_(Op!vars)
  <1>1. Init => Op!Init
    BY DEF Init, Op!Init
  <1>2. IInv /\ [Next]_vars => [Op!Next]_(Op!vars)
    <2> SUFFICES ASSUME IInv, [Next]_vars PROVE [Op!Next]_(Op!vars)
      OBVIOUS
    <2>1. CASE run
      BY <2>1 DEF run, stored, Task, Op!Next, Op!Start
    <2>2. CASE finish
      <3>1. UNCHANGED <<Task, committed>> /\ outcome = "running"
        BY <2>2 DEF finish, stored, Task
      <3>2. CASE error_happened
        BY <2>2, <3>1, <3>2 DEF finish, Op!Next, Op!Throw
      <3>3. CASE ~error_happened
        <4>1. \A i \in Worker : ~Waits(i)
          BY <2>2 DEF finish, Waits
        <4>2. committed = Task
          BY <3>1, <3>3, <4>1, AllDone
        <4>3. QED BY <2>2, <3>1, <3>3, <4>2 DEF finish, Op!Next, Op!Return
      <3>4. QED BY <3>2, <3>3
    <2>3. CASE \E i \in Worker : socket_error(i)
      BY <2>3 DEF socket_error, stored, Task, Op!Next, Op!Throw
    <2>4. CASE \E i \in Worker : Driver(i)
      BY <2>4 DEF Driver, on_connect, after_write, process_error, process_task, process_secondhalf, stored, Task, Op!vars
    <2>5. CASE \E i \in Worker : Works(i) \/ work_fails(i)
      BY <2>5, CommitRefines
    <2>6. CASE Done \/ UNCHANGED vars
      BY <2>6 DEF Done, vars, stored, Task, Op!vars
    <2>7. QED BY <2>1, <2>2, <2>3, <2>4, <2>5, <2>6 DEF Next
  <1>3. QED BY <1>1, <1>2, SpecHasInv, PTL DEF Spec
=============================================================================
