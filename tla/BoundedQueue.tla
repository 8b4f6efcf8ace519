---------------------------- MODULE BoundedQueue ----------------------------
(***************************************************************************)
(* bounded_queue.hpp: a queue of limited capacity under one mutex, with a  *)
(* condition variable for each direction.  A step is what a thread does    *)
(* from taking the mutex to releasing it, at the end of the call or in     *)
(* wait.  A thread that waits is asleep until it is notified, or for no    *)
(* reason at all, and then tests its predicate again.                      *)
(***************************************************************************)
EXTENDS Integers, Sequences, FiniteSets

CONSTANTS
  Producer, Consumer,  \* threads
  Capacity,            \* of the circular buffer
  MaxPut               \* bound: how many items a producer puts

ASSUME QueueAssumption ==
  /\ IsFiniteSet(Producer) /\ IsFiniteSet(Consumer) /\ Producer \cap Consumer = {}
  /\ Capacity \in Nat /\ MaxPut \in Nat

VARIABLES
  queue_,    \* the items, each with its producer and number
  received,  \* what the consumers got, in the order in which they got it
  thread     \* "running", or inside wait: "asleep" or "notified"

queueVars == <<queue_, received, thread>>

Full == Len(queue_) = Capacity
Empty == queue_ = <<>>

\* The threads that wait on nonfull_ and on nonempty_.
nonfull_ == {p \in Producer : thread[p] = "asleep"}
nonempty_ == {c \in Consumer : thread[c] = "asleep"}

QueueInit ==
  /\ queue_ = <<>> /\ received = <<>>
  /\ thread = [t \in Producer \cup Consumer |-> "running"]

\* Everything that was put, in the order in which it was put.
Log == received \o queue_

\* The number of the next item of p.
NextItem(p) == Cardinality({i \in 1..Len(Log) : Log[i][1] = p}) + 1

\* Mutant: one condition variable for both directions.
notify_any(waiting, t) ==
  \/ nonfull_ \cup nonempty_ = {} /\ thread' = [thread EXCEPT ![t] = "running"]
  \/ \E w \in nonfull_ \cup nonempty_ :
       thread' = [thread EXCEPT ![t] = "running", ![w] = "notified"]

\* t leaves the queue's code after notifying one thread that waits, if any.
notify_one(waiting, t) ==
  \/ waiting = {} /\ thread' = [thread EXCEPT ![t] = "running"]
  \/ \E w \in waiting : thread' = [thread EXCEPT ![t] = "running", ![w] = "notified"]

\* Mutant: no test for a full queue.
PushUnchecked(p) ==
  /\ queue_' = Append(queue_, <<p, NextItem(p)>>)
  /\ notify_one(nonempty_, p)
  /\ UNCHANGED received

Push(p) ==
  /\ ~Full
  /\ queue_' = Append(queue_, <<p, NextItem(p)>>)
  /\ notify_one(nonempty_, p)
  /\ UNCHANGED received

\* Mutant: the item that was put last.
PopBack(c) ==
  /\ ~Empty
  /\ queue_' = SubSeq(queue_, 1, Len(queue_) - 1)
  /\ received' = Append(received, queue_[Len(queue_)])
  /\ notify_one(nonfull_, c)

Pop(c) ==
  /\ ~Empty
  /\ queue_' = Tail(queue_) /\ received' = Append(received, Head(queue_))
  /\ notify_one(nonfull_, c)

Sleep(t) ==
  /\ thread' = [thread EXCEPT ![t] = "asleep"]
  /\ UNCHANGED <<queue_, received>>

\* A call of put, and what a notified put does; it may have come too late.
put(p) ==
  /\ thread[p] = "notified" \/ (thread[p] = "running" /\ NextItem(p) <= MaxPut)
  /\ Push(p) \/ (Full /\ Sleep(p))

take(c) ==
  /\ thread[c] \in {"running", "notified"}
  /\ Pop(c) \/ (Empty /\ Sleep(c))

\* The calls that do not wait return false or nothing when they could not do
\* their work, which changes nothing.
offer(p) == thread[p] = "running" /\ NextItem(p) <= MaxPut /\ Push(p)
poll(c) == thread[c] = "running" /\ Pop(c)

spurious_wakeup(t) ==
  /\ thread[t] = "asleep"
  /\ thread' = [thread EXCEPT ![t] = "notified"]
  /\ UNCHANGED <<queue_, received>>

QueueNext ==
  \/ \E p \in Producer : put(p) \/ offer(p)
  \/ \E c \in Consumer : take(c) \/ poll(c)
  \/ \E t \in Producer \cup Consumer : spurious_wakeup(t)

QueueSpec == QueueInit /\ [][QueueNext]_queueVars

QueueTypeOK ==
  /\ Len(queue_) <= Capacity
  /\ \A i \in 1..Len(queue_) : queue_[i] \in Producer \X (1..MaxPut)
  /\ thread \in [Producer \cup Consumer -> {"running", "asleep", "notified"}]

\* No wakeup is lost: while a producer sleeps, each free place is one that a
\* notified producer is on its way to, and the same for items and consumers.
\* Two threads may be notified, and others may get in between.
NoLostWakeup ==
  /\ nonfull_ # {} =>
       Capacity - Len(queue_) <= Cardinality({p \in Producer : thread[p] = "notified"})
  /\ nonempty_ # {} =>
       Len(queue_) <= Cardinality({c \in Consumer : thread[c] = "notified"})

\* The items of one producer are received in the order in which it put them,
\* none twice and none left out.
InOrder ==
  \A i \in 1..Len(Log) : Log[i][2] = Cardinality({j \in 1..i : Log[j][1] = Log[i][1]})

\* The queue stays within its capacity, keeps the order of each producer and
\* wakes a thread for everything that can be done.
QueueCorrect == QueueTypeOK /\ NoLostWakeup /\ InOrder

EverythingReceived == Len(received) = Cardinality(Producer) * MaxPut
=============================================================================
