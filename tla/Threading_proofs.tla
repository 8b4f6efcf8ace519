-------------------------- MODULE Threading_proofs --------------------------
(***************************************************************************)
(* Theorems about the threads of a worker: the queue, for any number of    *)
(* threads, items and places, the reduction, for any number of threads and *)
(* tasks, and a secondhalf, which uses both, for any files, gadgets,       *)
(* hashes, slices and readers.                                             *)
(***************************************************************************)
EXTENDS BoundedQueue, TransformReduce, Secondhalf, NumberInduction, SequenceTheorems, TLAPS

-----------------------------------------------------------------------------
(* The queue: module BoundedQueue.                                         *)

Item == Producer \X (1..MaxPut)
QueueThread == Producer \cup Consumer
NotifiedProducers == {p \in Producer : thread[p] = "notified"}
NotifiedConsumers == {c \in Consumer : thread[c] = "notified"}

\* A producer inside put, asleep or on its way, has an item to put.
QueueInv ==
  /\ queue_ \in Seq(Item) /\ received \in Seq(Item) /\ Len(queue_) <= Capacity
  /\ thread \in [QueueThread -> {"running", "asleep", "notified"}]
  /\ \A p \in Producer : thread[p] # "running" => NextItem(p) <= MaxPut
  /\ NoLostWakeup /\ InOrder

-----------------------------------------------------------------------------

\* Sets of threads are finite, and a thread that joins or leaves one counts once.
LEMMA CountThreads ==
  ASSUME NEW S, S \subseteq Producer \/ S \subseteq Consumer
  PROVE  /\ IsFiniteSet(S) /\ Cardinality(S) \in Nat
         /\ \A t : t \in S => Cardinality(S \ {t}) = Cardinality(S) - 1
         /\ \A t : t \notin S => Cardinality(S \cup {t}) = Cardinality(S) + 1
  <1>1. IsFiniteSet(S)
    BY QueueAssumption, FS_Subset
  <1>2. Cardinality(S) \in Nat
    BY <1>1, FS_CardinalityType
  <1>3. \A t : t \in S => Cardinality(S \ {t}) = Cardinality(S) - 1
    BY <1>1, FS_RemoveElement
  <1>4. \A t : t \notin S => Cardinality(S \cup {t}) = Cardinality(S) + 1
    BY <1>1, FS_AddElement
  <1>5. QED BY <1>1, <1>2, <1>3, <1>4

\* Taking the first item changes nothing in the order of the items.
LEMMA LogOfPop ==
  ASSUME NEW S, NEW r \in Seq(S), NEW q \in Seq(S), q # <<>>
  PROVE  /\ Tail(q) \in Seq(S) /\ Append(r, Head(q)) \in Seq(S)
         /\ Len(Tail(q)) = Len(q) - 1
         /\ Append(r, Head(q)) \o Tail(q) = r \o q
  <1>1. /\ Len(q) \in Nat \ {0} /\ Len(r) \in Nat
        /\ Tail(q) \in Seq(S) /\ Head(q) \in S /\ Len(Tail(q)) = Len(q) - 1
        /\ \A i \in 1..(Len(q) - 1) : Tail(q)[i] = q[i + 1]
        /\ Head(q) = q[1]
    BY EmptySeq, LenProperties, HeadTailProperties
  <1>2. /\ Append(r, Head(q)) \in Seq(S) /\ Len(Append(r, Head(q))) = Len(r) + 1
        /\ \A i \in 1..Len(r) : Append(r, Head(q))[i] = r[i]
        /\ Append(r, Head(q))[Len(r) + 1] = q[1]
    BY <1>1, AppendProperties
  <1> DEFINE a == Append(r, Head(q))
             t == Tail(q)
  <1>3. /\ a \o t \in Seq(S) /\ Len(a \o t) = Len(r) + Len(q)
        /\ \A i \in 1..(Len(r) + Len(q)) : (a \o t)[i] = IF i <= Len(r) + 1 THEN a[i] ELSE t[i - (Len(r) + 1)]
    <2> HIDE DEF a, t
    <2>1. a \in Seq(S) /\ t \in Seq(S) /\ Len(a) = Len(r) + 1 /\ Len(t) = Len(q) - 1
      BY <1>1, <1>2 DEF a, t
    <2>2. /\ a \o t \in Seq(S) /\ Len(a \o t) = Len(a) + Len(t)
          /\ \A i \in 1..(Len(a) + Len(t)) : (a \o t)[i] = IF i <= Len(a) THEN a[i] ELSE t[i - Len(a)]
      BY <2>1, ConcatProperties
    <2>3. Len(a) + Len(t) = Len(r) + Len(q)
      BY <1>1, <2>1
    <2>4. QED BY <2>1, <2>2, <2>3
  <1>4. /\ r \o q \in Seq(S) /\ Len(r \o q) = Len(r) + Len(q)
        /\ \A i \in 1..(Len(r) + Len(q)) : (r \o q)[i] = IF i <= Len(r) THEN r[i] ELSE q[i - Len(r)]
    BY ConcatProperties
  <1>5. \A i \in 1..(Len(r) + Len(q)) : (a \o t)[i] = (r \o q)[i]
    <2> SUFFICES ASSUME NEW i \in 1..(Len(r) + Len(q)) PROVE (a \o t)[i] = (r \o q)[i]
      OBVIOUS
    <2>1. CASE i <= Len(r)
      BY <1>1, <1>2, <1>3, <1>4, <2>1
    <2>2. CASE i = Len(r) + 1
      BY <1>1, <1>2, <1>3, <1>4, <2>2
    <2>3. CASE i > Len(r) + 1
      <3>1. i - (Len(r) + 1) \in 1..(Len(q) - 1) /\ (i - (Len(r) + 1)) + 1 = i - Len(r)
        BY <1>1, <2>3
      <3>2. (a \o t)[i] = t[i - (Len(r) + 1)]
        BY <1>1, <1>3, <2>3
      <3>3. t[i - (Len(r) + 1)] = q[i - Len(r)]
        BY <1>1, <3>1
      <3>4. (r \o q)[i] = q[i - Len(r)]
        BY <1>1, <1>4, <2>3
      <3>5. QED BY <3>2, <3>3, <3>4
    <2>4. QED BY <1>1, <2>1, <2>2, <2>3
  <1>6. a \o t = r \o q
    <2> HIDE DEF a, t
    <2>1. QED BY <1>3, <1>4, <1>5, SeqEqual
  <1>7. QED BY <1>1, <1>2, <1>6

\* Putting an item adds it to the end of the order.
LEMMA LogOfPush ==
  ASSUME NEW S, NEW r \in Seq(S), NEW q \in Seq(S), NEW e \in S
  PROVE  r \o Append(q, e) = Append(r \o q, e)
  <1>1. Append(q, e) = q \o <<e>> /\ Append(r \o q, e) = (r \o q) \o <<e>> /\ <<e>> \in Seq(S)
    BY AppendIsConcat, ConcatProperties
  <1>2. QED BY <1>1, ConcatAssociative

-----------------------------------------------------------------------------
(* The steps.                                                              *)

\* The items in the order of their put form a sequence of items.
LEMMA LogType ==
  ASSUME QueueInv
  PROVE  /\ Log \in Seq(Item) /\ Len(Log) \in Nat /\ Len(queue_) \in Nat
         /\ \A i \in 1..Len(Log) : Log[i] \in Item
  BY ConcatProperties, LenProperties, ElementOfSeq DEF QueueInv, Log

\* The number of the next item is a positive number.
LEMMA NextItemType == ASSUME QueueInv, NEW p PROVE NextItem(p) \in Nat \ {0}
  <1>1. Len(Log) \in Nat
    BY LogType
  <1>2. IsFiniteSet(1..Len(Log))
    BY <1>1, FS_Interval
  <1>3. Cardinality({i \in 1..Len(Log) : Log[i][1] = p}) \in Nat
    BY <1>2, FS_Subset, FS_CardinalityType
  <1>4. QED BY <1>3 DEF NextItem

\* An item at the end of the order: the others keep their numbers.
LEMMA PushKeepsOrder ==
  ASSUME QueueInv, NEW p \in Producer, NextItem(p) <= MaxPut,
         queue_' = Append(queue_, <<p, NextItem(p)>>), UNCHANGED received
  PROVE  /\ queue_' \in Seq(Item) /\ received' \in Seq(Item) /\ Len(queue_') = Len(queue_) + 1
         /\ InOrder'
         /\ \A x \in Producer \ {p} : NextItem(x)' = NextItem(x)
  <1> DEFINE e == <<p, NextItem(p)>>
             n == Len(Log)
  <1>1. e \in Item
    <2>1. NextItem(p) \in 1..MaxPut
      BY NextItemType, QueueAssumption
    <2>2. QED BY <2>1 DEF Item
  <1>2. queue_ \in Seq(Item) /\ received \in Seq(Item) /\ Log \in Seq(Item) /\ n \in Nat
    BY LogType DEF QueueInv
  <1> HIDE DEF e
  <1>3. queue_' \in Seq(Item) /\ received' \in Seq(Item) /\ Len(queue_') = Len(queue_) + 1
    BY <1>1, <1>2, AppendProperties DEF e
  <1>4. Log' = Append(Log, e)
    BY <1>1, <1>2, LogOfPush DEF Log, e
  <1>5. /\ Len(Log') = n + 1 /\ \A i \in 1..n : Log'[i] = Log[i]
        /\ Log'[n + 1] = e
    BY <1>1, <1>2, <1>4, AppendProperties
  <1>6. e[1] = p /\ e[2] = NextItem(p)
    BY DEF e
  <1>7. \A i \in 1..n : {j \in 1..i : Log'[j][1] = Log'[i][1]} = {j \in 1..i : Log[j][1] = Log[i][1]}
    BY <1>2, <1>5
  <1>8. \A i \in 1..n : Log'[i][2] = Cardinality({j \in 1..i : Log'[j][1] = Log'[i][1]})
    BY <1>5, <1>7 DEF QueueInv, InOrder
  <1>9. Cardinality({j \in 1..(n + 1) : Log'[j][1] = p}) = NextItem(p)
    <2> DEFINE T == {j \in 1..n : Log[j][1] = p}
    <2>1. {j \in 1..(n + 1) : Log'[j][1] = p} = T \cup {n + 1}
      <3>1. \A j : j \in 1..(n + 1) <=> j \in 1..n \/ j = n + 1
        BY <1>2
      <3>2. QED BY <1>5, <1>6, <3>1
    <2>2. IsFiniteSet(T) /\ n + 1 \notin T
      <3>1. IsFiniteSet(1..n)
        BY <1>2, FS_Interval
      <3>2. n + 1 \notin 1..n
        BY <1>2
      <3>3. QED BY <3>1, <3>2, FS_Subset
    <2>3. Cardinality(T \cup {n + 1}) = Cardinality(T) + 1
      BY <2>2, FS_AddElement
    <2>4. QED BY <2>1, <2>3 DEF NextItem
  <1>10. InOrder'
    <2>1. \A i \in 1..(n + 1) : i \in 1..n \/ i = n + 1
      BY <1>2
    <2>2. Log'[n + 1][2] = Cardinality({j \in 1..(n + 1) : Log'[j][1] = Log'[n + 1][1]})
      BY <1>5, <1>6, <1>9
    <2>3. QED BY <1>5, <1>8, <2>1, <2>2 DEF InOrder
  <1>11. ASSUME NEW x \in Producer \ {p} PROVE NextItem(x)' = NextItem(x)
    <2>1. {i \in 1..Len(Log') : Log'[i][1] = x} = {i \in 1..n : Log[i][1] = x}
      <3>1. \A j : j \in 1..(n + 1) <=> j \in 1..n \/ j = n + 1
        BY <1>2
      <3>2. QED BY <1>5, <1>6, <3>1
    <2>2. QED BY <2>1 DEF NextItem
  <1>12. QED BY <1>3, <1>10, <1>11

\* put and offer, when there is space.
LEMMA PushKeepsInv ==
  ASSUME QueueInv, NEW p \in Producer, thread[p] # "asleep", NextItem(p) <= MaxPut, Push(p)
  PROVE  QueueInv'
  <1>1. thread \in [QueueThread -> {"running", "asleep", "notified"}] /\ p \in QueueThread /\ p \notin Consumer
    BY QueueAssumption DEF QueueInv, QueueThread
  <1>2. /\ queue_' \in Seq(Item) /\ received' \in Seq(Item) /\ Len(queue_') = Len(queue_) + 1
        /\ InOrder' /\ \A x \in Producer \ {p} : NextItem(x)' = NextItem(x)
    BY PushKeepsOrder DEF Push
  <1>3. Len(queue_) \in Nat /\ Len(queue_) # Capacity /\ Len(queue_) <= Capacity /\ Capacity \in Nat
    BY LogType, QueueAssumption DEF QueueInv, Push, Full
  <1>4. PICK W \in SUBSET nonempty_ :
          /\ \A x \in QueueThread : thread'[x] = IF x \in W THEN "notified" ELSE IF x = p THEN "running" ELSE thread[x]
          /\ thread' \in [QueueThread -> {"running", "asleep", "notified"}]
          /\ (W = {} /\ nonempty_ = {}) \/ \E w : W = {w}
    <2>1. CASE nonempty_ = {} /\ thread' = [thread EXCEPT ![p] = "running"]
      <3> WITNESS {} \in SUBSET nonempty_
      <3> QED BY <1>1, <2>1
    <2>2. ASSUME NEW w \in nonempty_, thread' = [thread EXCEPT ![p] = "running", ![w] = "notified"]
          PROVE  \E W \in SUBSET nonempty_ :
                   /\ \A x \in QueueThread : thread'[x] = IF x \in W THEN "notified" ELSE IF x = p THEN "running" ELSE thread[x]
                   /\ thread' \in [QueueThread -> {"running", "asleep", "notified"}]
                   /\ (W = {} /\ nonempty_ = {}) \/ \E v : W = {v}
      <3>1. w \in QueueThread /\ w # p
        BY <1>1 DEF nonempty_, QueueThread
      <3>2. {w} \in SUBSET nonempty_
        OBVIOUS
      <3> WITNESS {w} \in SUBSET nonempty_
      <3> QED BY <1>1, <2>2, <3>1
    <2>3. QED BY <2>1, <2>2 DEF Push, notify_one
  <1>5. W \subseteq Consumer /\ W \cap Producer = {} /\ Producer \subseteq QueueThread /\ Consumer \subseteq QueueThread
        /\ \A w \in W : thread[w] = "asleep"
    BY QueueAssumption DEF nonempty_, QueueThread
  <1>6. \A x \in Producer : thread'[x] = IF x = p THEN "running" ELSE thread[x]
    BY <1>4, <1>5
  <1>7. nonfull_' = nonfull_ /\ NotifiedProducers' = NotifiedProducers \ {p}
    BY <1>6 DEF nonfull_, NotifiedProducers
  <1>8. \A x \in Consumer : thread'[x] = IF x \in W THEN "notified" ELSE thread[x]
    BY <1>1, <1>4, <1>5
  <1>9. nonempty_' = nonempty_ \ W /\ NotifiedConsumers' = NotifiedConsumers \cup W /\ NotifiedConsumers \cap W = {}
    BY <1>5, <1>8 DEF nonempty_, NotifiedConsumers
  <1>10. /\ NotifiedProducers \subseteq Producer /\ NotifiedConsumers \subseteq Consumer
    BY DEF NotifiedProducers, NotifiedConsumers
  <1>11. /\ Cardinality(NotifiedProducers) \in Nat /\ Cardinality(NotifiedConsumers) \in Nat
         /\ Cardinality(NotifiedProducers \ {p}) >= Cardinality(NotifiedProducers) - 1
         /\ Cardinality(NotifiedProducers \ {p}) \in Nat
    <2>1. Cardinality(NotifiedProducers) \in Nat /\ Cardinality(NotifiedConsumers) \in Nat
          /\ Cardinality(NotifiedProducers \ {p}) \in Nat
      BY <1>10, CountThreads
    <2>2. CASE p \in NotifiedProducers
      BY <1>10, <2>1, <2>2, CountThreads
    <2>3. CASE p \notin NotifiedProducers
      <3>1. NotifiedProducers \ {p} = NotifiedProducers
        BY <2>3
      <3>2. QED BY <2>1, <3>1
    <2>4. QED BY <2>1, <2>2, <2>3
  <1>12. nonfull_' # {} => Capacity - Len(queue_') <= Cardinality(NotifiedProducers')
    <2>1. nonfull_ # {} => Capacity - Len(queue_) <= Cardinality(NotifiedProducers)
      BY DEF QueueInv, NoLostWakeup, NotifiedProducers
    <2>2. QED BY <1>2, <1>3, <1>7, <1>11, <2>1
  <1>13. nonempty_' # {} => Len(queue_') <= Cardinality(NotifiedConsumers')
    <2> SUFFICES ASSUME nonempty_' # {} PROVE Len(queue_') <= Cardinality(NotifiedConsumers')
      OBVIOUS
    <2>1. PICK w : W = {w}
      BY <1>4, <1>9
    <2>2. Cardinality(NotifiedConsumers \cup {w}) = Cardinality(NotifiedConsumers) + 1
      BY <1>9, <1>10, <2>1, CountThreads
    <2>3. Len(queue_) <= Cardinality(NotifiedConsumers)
      BY <1>9 DEF QueueInv, NoLostWakeup, NotifiedConsumers
    <2>4. QED BY <1>2, <1>3, <1>9, <1>11, <2>1, <2>2, <2>3
  <1>14. NoLostWakeup'
    BY <1>12, <1>13 DEF NoLostWakeup, NotifiedProducers, NotifiedConsumers
  <1>15. \A x \in Producer : thread'[x] # "running" => NextItem(x)' <= MaxPut
    BY <1>2, <1>6 DEF QueueInv
  <1>16. Len(queue_') <= Capacity
    BY <1>2, <1>3
  <1>17. QED BY <1>2, <1>4, <1>14, <1>15, <1>16 DEF QueueInv

\* take and poll, when there is an item.
LEMMA PopKeepsInv ==
  ASSUME QueueInv, NEW c \in Consumer, thread[c] # "asleep", Pop(c)
  PROVE  QueueInv'
  <1>1. thread \in [QueueThread -> {"running", "asleep", "notified"}] /\ c \in QueueThread /\ c \notin Producer
    BY QueueAssumption DEF QueueInv, QueueThread
  <1>2. /\ queue_' \in Seq(Item) /\ received' \in Seq(Item) /\ Len(queue_') = Len(queue_) - 1
        /\ Log' = Log
    <2>1. queue_ \in Seq(Item) /\ received \in Seq(Item) /\ queue_ # <<>>
      BY DEF QueueInv, Pop, Empty
    <2>2. queue_' = Tail(queue_) /\ received' = Append(received, Head(queue_))
      BY DEF Pop
    <2>3. QED BY <2>1, <2>2, LogOfPop DEF Log
  <1>3. Len(queue_) \in Nat /\ Len(queue_) # 0 /\ Len(queue_) <= Capacity /\ Capacity \in Nat
    BY LogType, EmptySeq, QueueAssumption DEF QueueInv, Pop, Empty
  <1>4. PICK W \in SUBSET nonfull_ :
          /\ \A x \in QueueThread : thread'[x] = IF x \in W THEN "notified" ELSE IF x = c THEN "running" ELSE thread[x]
          /\ thread' \in [QueueThread -> {"running", "asleep", "notified"}]
          /\ (W = {} /\ nonfull_ = {}) \/ \E w : W = {w}
    <2>1. CASE nonfull_ = {} /\ thread' = [thread EXCEPT ![c] = "running"]
      <3> WITNESS {} \in SUBSET nonfull_
      <3> QED BY <1>1, <2>1
    <2>2. ASSUME NEW w \in nonfull_, thread' = [thread EXCEPT ![c] = "running", ![w] = "notified"]
          PROVE  \E W \in SUBSET nonfull_ :
                   /\ \A x \in QueueThread : thread'[x] = IF x \in W THEN "notified" ELSE IF x = c THEN "running" ELSE thread[x]
                   /\ thread' \in [QueueThread -> {"running", "asleep", "notified"}]
                   /\ (W = {} /\ nonfull_ = {}) \/ \E v : W = {v}
      <3>1. w \in QueueThread /\ w # c
        BY <1>1 DEF nonfull_, QueueThread
      <3>2. {w} \in SUBSET nonfull_
        OBVIOUS
      <3> WITNESS {w} \in SUBSET nonfull_
      <3> QED BY <1>1, <2>2, <3>1
    <2>3. QED BY <2>1, <2>2 DEF Pop, notify_one
  <1>5. W \subseteq Producer /\ W \cap Consumer = {} /\ Producer \subseteq QueueThread /\ Consumer \subseteq QueueThread
        /\ \A w \in W : thread[w] = "asleep"
    BY QueueAssumption DEF nonfull_, QueueThread
  <1>6. \A x \in Consumer : thread'[x] = IF x = c THEN "running" ELSE thread[x]
    BY <1>4, <1>5
  <1>7. nonempty_' = nonempty_ /\ NotifiedConsumers' = NotifiedConsumers \ {c}
    BY <1>6 DEF nonempty_, NotifiedConsumers
  <1>8. \A x \in Producer : thread'[x] = IF x \in W THEN "notified" ELSE thread[x]
    BY <1>1, <1>4, <1>5
  <1>9. nonfull_' = nonfull_ \ W /\ NotifiedProducers' = NotifiedProducers \cup W /\ NotifiedProducers \cap W = {}
    BY <1>5, <1>8 DEF nonfull_, NotifiedProducers
  <1>10. /\ NotifiedProducers \subseteq Producer /\ NotifiedConsumers \subseteq Consumer
    BY DEF NotifiedProducers, NotifiedConsumers
  <1>11. /\ Cardinality(NotifiedProducers) \in Nat /\ Cardinality(NotifiedConsumers) \in Nat
         /\ Cardinality(NotifiedConsumers \ {c}) >= Cardinality(NotifiedConsumers) - 1
         /\ Cardinality(NotifiedConsumers \ {c}) \in Nat
    <2>1. Cardinality(NotifiedProducers) \in Nat /\ Cardinality(NotifiedConsumers) \in Nat
          /\ Cardinality(NotifiedConsumers \ {c}) \in Nat
      BY <1>10, CountThreads
    <2>2. CASE c \in NotifiedConsumers
      BY <1>10, <2>1, <2>2, CountThreads
    <2>3. CASE c \notin NotifiedConsumers
      <3>1. NotifiedConsumers \ {c} = NotifiedConsumers
        BY <2>3
      <3>2. QED BY <2>1, <3>1
    <2>4. QED BY <2>1, <2>2, <2>3
  <1>12. nonempty_' # {} => Len(queue_') <= Cardinality(NotifiedConsumers')
    <2>1. nonempty_ # {} => Len(queue_) <= Cardinality(NotifiedConsumers)
      BY DEF QueueInv, NoLostWakeup, NotifiedConsumers
    <2>2. QED BY <1>2, <1>3, <1>7, <1>11, <2>1
  <1>13. nonfull_' # {} => Capacity - Len(queue_') <= Cardinality(NotifiedProducers')
    <2> SUFFICES ASSUME nonfull_' # {} PROVE Capacity - Len(queue_') <= Cardinality(NotifiedProducers')
      OBVIOUS
    <2>1. PICK w : W = {w}
      BY <1>4, <1>9
    <2>2. Cardinality(NotifiedProducers \cup {w}) = Cardinality(NotifiedProducers) + 1
      BY <1>9, <1>10, <2>1, CountThreads
    <2>3. Capacity - Len(queue_) <= Cardinality(NotifiedProducers)
      BY <1>9 DEF QueueInv, NoLostWakeup, NotifiedProducers
    <2>4. QED BY <1>2, <1>3, <1>9, <1>11, <2>1, <2>2, <2>3
  <1>14. NoLostWakeup'
    BY <1>12, <1>13 DEF NoLostWakeup, NotifiedProducers, NotifiedConsumers
  <1>15. \A x \in Producer : thread'[x] # "running" => NextItem(x)' <= MaxPut
    <2>1. \A x \in Producer : NextItem(x)' = NextItem(x)
      BY <1>2 DEF NextItem
    <2>2. \A x \in Producer : thread'[x] # "running" => thread[x] # "running"
      BY <1>5, <1>8
    <2>3. QED BY <2>1, <2>2 DEF QueueInv
  <1>16. InOrder'
    BY <1>2 DEF QueueInv, InOrder
  <1>17. Len(queue_') <= Capacity
    BY <1>2, <1>3
  <1>18. QED BY <1>2, <1>4, <1>14, <1>15, <1>16, <1>17 DEF QueueInv

\* A thread goes to sleep when there is nothing to do, or wakes up.
LEMMA WaitKeepsInv ==
  ASSUME QueueInv, NEW t \in QueueThread, NEW st \in {"asleep", "notified"},
         thread' = [thread EXCEPT ![t] = st], UNCHANGED <<queue_, received>>,
         t \in Producer /\ st = "asleep" => Full /\ NextItem(t) <= MaxPut,
         t \in Consumer /\ st = "asleep" => Empty,
         st = "notified" => thread[t] = "asleep"
  PROVE  QueueInv'
  <1>1. thread \in [QueueThread -> {"running", "asleep", "notified"}]
    BY DEF QueueInv
  <1>2. /\ thread' \in [QueueThread -> {"running", "asleep", "notified"}]
        /\ \A x \in QueueThread : thread'[x] = IF x = t THEN st ELSE thread[x]
    BY <1>1
  <1>3. Log' = Log /\ \A x : NextItem(x)' = NextItem(x)
    BY DEF Log, NextItem
  <1>4. Producer \subseteq QueueThread /\ Consumer \subseteq QueueThread /\ Producer \cap Consumer = {}
    BY QueueAssumption DEF QueueThread
  <1>5. \A x \in Producer : thread'[x] # "running" => NextItem(x)' <= MaxPut
    BY <1>2, <1>3, <1>4 DEF QueueInv
  <1>6. Len(queue_) \in Nat /\ Capacity \in Nat /\ (Empty => Len(queue_) = 0)
    BY LogType, EmptySeq, QueueAssumption DEF Empty
  <1>7. /\ NotifiedProducers \subseteq Producer /\ NotifiedConsumers \subseteq Consumer
        /\ NotifiedProducers' \subseteq Producer /\ NotifiedConsumers' \subseteq Consumer
    BY DEF NotifiedProducers, NotifiedConsumers
  <1>8. /\ Cardinality(NotifiedProducers) \in Nat /\ Cardinality(NotifiedConsumers) \in Nat
        /\ Cardinality(NotifiedProducers') \in Nat /\ Cardinality(NotifiedConsumers') \in Nat
    BY <1>7, CountThreads
  <1>9. nonfull_' # {} => Capacity - Len(queue_') <= Cardinality(NotifiedProducers')
    <2>1. nonfull_ # {} => Capacity - Len(queue_) <= Cardinality(NotifiedProducers)
      BY DEF QueueInv, NoLostWakeup, NotifiedProducers
    <2>2. CASE t \in Producer /\ st = "asleep"
      BY <1>6, <1>8, <2>2 DEF Full
    <2>3. CASE t \in Producer /\ st = "notified"
      <3>1. NotifiedProducers' = NotifiedProducers \cup {t} /\ t \notin NotifiedProducers /\ nonfull_' \subseteq nonfull_
        BY <1>2, <1>4, <2>3 DEF NotifiedProducers, nonfull_
      <3>2. Cardinality(NotifiedProducers') = Cardinality(NotifiedProducers) + 1
        BY <1>7, <3>1, CountThreads
      <3>3. QED BY <1>6, <1>8, <2>1, <3>1, <3>2
    <2>4. CASE t \notin Producer
      <3>1. NotifiedProducers' = NotifiedProducers /\ nonfull_' = nonfull_
        BY <1>2, <1>4, <2>4 DEF NotifiedProducers, nonfull_
      <3>2. QED BY <2>1, <3>1
    <2>5. QED BY <2>2, <2>3, <2>4
  <1>10. nonempty_' # {} => Len(queue_') <= Cardinality(NotifiedConsumers')
    <2>1. nonempty_ # {} => Len(queue_) <= Cardinality(NotifiedConsumers)
      BY DEF QueueInv, NoLostWakeup, NotifiedConsumers
    <2>2. CASE t \in Consumer /\ st = "asleep"
      BY <1>6, <1>8, <2>2
    <2>3. CASE t \in Consumer /\ st = "notified"
      <3>1. NotifiedConsumers' = NotifiedConsumers \cup {t} /\ t \notin NotifiedConsumers /\ nonempty_' \subseteq nonempty_
        BY <1>2, <1>4, <2>3 DEF NotifiedConsumers, nonempty_
      <3>2. Cardinality(NotifiedConsumers') = Cardinality(NotifiedConsumers) + 1
        BY <1>7, <3>1, CountThreads
      <3>3. QED BY <1>6, <1>8, <2>1, <3>1, <3>2
    <2>4. CASE t \notin Consumer
      <3>1. NotifiedConsumers' = NotifiedConsumers /\ nonempty_' = nonempty_
        BY <1>2, <1>4, <2>4 DEF NotifiedConsumers, nonempty_
      <3>2. QED BY <2>1, <3>1
    <2>5. QED BY <2>2, <2>3, <2>4
  <1>11. NoLostWakeup'
    BY <1>9, <1>10 DEF NoLostWakeup, NotifiedProducers, NotifiedConsumers
  <1>12. InOrder'
    BY <1>3 DEF QueueInv, InOrder
  <1>13. QED BY <1>2, <1>5, <1>11, <1>12 DEF QueueInv

-----------------------------------------------------------------------------
(* The theorem.                                                            *)

\* Before the first operation every thread is running and the queue is empty.
LEMMA QueueInitial == QueueInit => QueueInv
  <1> SUFFICES ASSUME QueueInit PROVE QueueInv
    OBVIOUS
  <1>1. queue_ = <<>> /\ received = <<>> /\ thread = [t \in QueueThread |-> "running"]
    BY DEF QueueInit, QueueThread
  <1>2. queue_ \in Seq(Item) /\ received \in Seq(Item) /\ Len(queue_) = 0 /\ Log = <<>>
    <2>1. <<>> \in Seq(Item) /\ Len(<<>>) = 0 /\ <<>> \o <<>> = <<>>
      BY EmptySeq, ConcatEmptySeq
    <2>2. QED BY <1>1, <2>1 DEF Log
  <1>3. \A t \in Producer \cup Consumer : thread[t] = "running"
    BY <1>1 DEF QueueThread
  <1>4. NoLostWakeup
    BY <1>3 DEF NoLostWakeup, nonfull_, nonempty_
  <1>5. InOrder
    BY <1>2, EmptySeq DEF InOrder
  <1>6. thread \in [QueueThread -> {"running", "asleep", "notified"}]
    BY <1>1
  <1>7. QED BY <1>2, <1>3, <1>4, <1>5, <1>6, QueueAssumption DEF QueueInv

\* Every operation keeps the invariant, and so does a spurious wakeup.
LEMMA QueueInductive == QueueInv /\ [QueueNext]_queueVars => QueueInv'
  <1> SUFFICES ASSUME QueueInv, [QueueNext]_queueVars PROVE QueueInv'
    OBVIOUS
  <1>1. ASSUME NEW p \in Producer, put(p) \/ offer(p) PROVE QueueInv'
    <2>1. thread[p] # "asleep" /\ NextItem(p) <= MaxPut
      BY <1>1 DEF put, offer, QueueInv
    <2>2. CASE Push(p)
      BY <2>1, <2>2, PushKeepsInv
    <2>3. CASE Full /\ Sleep(p)
      <3>1. p \in QueueThread /\ p \notin Consumer
        BY QueueAssumption DEF QueueThread
      <3>2. thread' = [thread EXCEPT ![p] = "asleep"] /\ UNCHANGED <<queue_, received>> /\ Full
        BY <2>3 DEF Sleep
      <3>3. QED BY <2>1, <3>1, <3>2, WaitKeepsInv
    <2>4. QED BY <1>1, <2>2, <2>3 DEF put, offer
  <1>2. ASSUME NEW c \in Consumer, take(c) \/ poll(c) PROVE QueueInv'
    <2>1. thread[c] # "asleep"
      BY <1>2 DEF take, poll
    <2>2. CASE Pop(c)
      BY <2>1, <2>2, PopKeepsInv
    <2>3. CASE Empty /\ Sleep(c)
      <3>1. c \in QueueThread /\ c \notin Producer
        BY QueueAssumption DEF QueueThread
      <3>2. thread' = [thread EXCEPT ![c] = "asleep"] /\ UNCHANGED <<queue_, received>> /\ Empty
        BY <2>3 DEF Sleep
      <3>3. QED BY <3>1, <3>2, WaitKeepsInv
    <2>4. QED BY <1>2, <2>2, <2>3 DEF take, poll
  <1>3. ASSUME NEW t \in Producer \cup Consumer, spurious_wakeup(t) PROVE QueueInv'
    <2>1. t \in QueueThread
      BY DEF QueueThread
    <2>2. /\ thread' = [thread EXCEPT ![t] = "notified"] /\ UNCHANGED <<queue_, received>>
          /\ thread[t] = "asleep"
      BY <1>3 DEF spurious_wakeup
    <2>3. QED BY <2>1, <2>2, WaitKeepsInv
  <1>4. CASE UNCHANGED queueVars
    <2>1. UNCHANGED <<queue_, received, thread>>
      BY <1>4 DEF queueVars
    <2>2. QED BY <2>1 DEF QueueInv, NoLostWakeup, InOrder, nonfull_, nonempty_, NextItem, Log
  <1>5. QED BY <1>1, <1>2, <1>3, <1>4 DEF QueueNext

\* However many threads put, offer, take and poll, and whenever they are woken:
\* the queue never holds more than its capacity, the items of each producer
\* are taken in the order in which they were put, and for every place or item
\* that a sleeping thread could use another one is already on its way.
THEOREM QueueStaysCorrect == QueueSpec => []QueueCorrect
  <1>1. QueueInv => QueueCorrect
    <2> SUFFICES ASSUME QueueInv PROVE QueueCorrect
      OBVIOUS
    <2>1. \A i \in 1..Len(queue_) : queue_[i] \in Producer \X (1..MaxPut)
      BY ElementOfSeq DEF QueueInv, Item
    <2>2. QueueTypeOK
      BY <2>1 DEF QueueTypeOK, QueueInv, QueueThread
    <2>3. QED BY <2>2 DEF QueueCorrect, QueueInv
  <1>2. QED BY <1>1, QueueInitial, QueueInductive, PTL DEF QueueSpec

-----------------------------------------------------------------------------
(* The reduction: module TransformReduce.  The tree has size - 1 inner     *)
(* nodes, then one leaf per task; the children of v are 2 * v + 1 and      *)
(* 2 * v + 2.                                                              *)

\* v and the nodes above it: what each set has that has v and is closed under parent.
Above(v) ==
  {a \in 0..v : \A S \in SUBSET (0..v) :
     v \in S /\ (\A x \in S \ {0} : parent(x) \in S) => a \in S}

Leaf(n, i) == i + n - 1

\* The equation of the recursive function in Leaves, and that function.
Grow(n, f, v) == IF v >= n - 1 THEN <<v - (n - 1)>> ELSE f[2 * v + 1] \o f[2 * v + 2]
Below(n) == CHOOSE f : f = [v \in 0..(2 * n - 2) |-> Grow(n, f, v)]

-----------------------------------------------------------------------------
(* The tree.                                                               *)

\* The parent of a node has a smaller number.
LEMMA ParentBelow ==
  ASSUME NEW v \in Nat, v # 0
  PROVE  parent(v) \in Nat /\ parent(v) < v /\ (v = 2 * parent(v) + 1 \/ v = 2 * parent(v) + 2)
  BY DEF parent

\* The children of a node.
LEMMA Children ==
  ASSUME NEW v \in Nat
  PROVE  parent(2 * v + 1) = v /\ parent(2 * v + 2) = v
  BY DEF parent

\* A node is above itself, and nothing with a larger number is.
LEMMA AboveSelf ==
  ASSUME NEW v \in Nat
  PROVE  v \in Above(v) /\ Above(v) \subseteq 0..v
  BY DEF Above

\* Above(v) is closed under parent.
LEMMA AboveUp ==
  ASSUME NEW v \in Nat, NEW a \in Above(v), a # 0
  PROVE  parent(a) \in Above(v)
  <1>1. a \in Nat /\ a <= v /\ parent(a) \in 0..v
    BY ParentBelow DEF Above
  <1>2. ASSUME NEW S \in SUBSET (0..v), v \in S, \A x \in S \ {0} : parent(x) \in S
        PROVE  parent(a) \in S
    <2>1. a \in S
      BY <1>2 DEF Above
    <2>2. QED BY <2>1, <1>2
  <1>3. QED BY <1>1, <1>2 DEF Above

\* What is above a node is the node and what is above its parent.
LEMMA AboveStep ==
  ASSUME NEW v \in Nat, v # 0
  PROVE  Above(v) = {v} \cup Above(parent(v))
  <1> DEFINE p == parent(v)
  <1>1. p \in Nat /\ p < v
    BY ParentBelow
  <1>2. ASSUME NEW a \in Above(p) PROVE a \in Above(v)
    <2>1. a \in 0..p
      BY DEF Above
    <2>2. ASSUME NEW S \in SUBSET (0..v), v \in S, \A x \in S \ {0} : parent(x) \in S
          PROVE  a \in S
      <3> DEFINE R == S \cap (0..p)
      <3>1. \A x \in R \ {0} : parent(x) \in R
        <4> TAKE x \in R \ {0}
        <4>1. x \in Nat /\ x <= p
          BY <1>1
        <4>2. parent(x) \in Nat /\ parent(x) < x /\ parent(x) \in S
          BY <4>1, <2>2, ParentBelow
        <4>3. QED BY <4>1, <4>2, <1>1
      <3>2. p \in R /\ R \in SUBSET (0..p)
        BY <1>1, <2>2
      <3>3. a \in R
        <4> HIDE DEF R, p
        <4> QED BY <3>1, <3>2 DEF Above
      <3>4. QED BY <3>3
    <2>3. a \in 0..v
      BY <2>1, <1>1
    <2>4. QED BY <2>2, <2>3 DEF Above
  <1>3. ASSUME NEW a \in Above(v), a # v PROVE a \in Above(p)
    <2>1. ASSUME NEW S \in SUBSET (0..p), p \in S, \A x \in S \ {0} : parent(x) \in S
          PROVE  a \in S
      <3> DEFINE R == S \cup {v}
      <3>1. v \in R /\ R \in SUBSET (0..v) /\ \A x \in R \ {0} : parent(x) \in R
        BY <1>1, <2>1
      <3>2. a \in R
        <4> HIDE DEF R
        <4> QED BY <3>1 DEF Above
      <3>3. QED BY <3>2, <1>3
    <2>2. a \in 0..p
      <3> DEFINE Q == 0..p
      <3>1. \A x \in Q \ {0} : parent(x) \in Q
        BY <1>1, ParentBelow
      <3>2. p \in Q /\ Q \in SUBSET (0..p)
        BY <1>1
      <3> HIDE DEF Q
      <3>3. a \in Q
        BY <3>1, <3>2, <2>1
      <3>4. QED BY <3>3 DEF Q
    <2>3. QED BY <2>1, <2>2 DEF Above
  <1>4. v \in Above(v)
    BY AboveSelf
  <1>5. QED BY <1>2, <1>3, <1>4

\* No node is below both children of a node.
LEMMA SiblingsApart ==
  ASSUME NEW v \in Nat, NEW x \in Nat
  PROVE  ~(2 * v + 1 \in Above(x) /\ 2 * v + 2 \in Above(x))
  <1> DEFINE Both == {y \in Nat : 2 * v + 1 \in Above(y) /\ 2 * v + 2 \in Above(y)}
  <1> SUFFICES ASSUME x \in Both PROVE FALSE
    OBVIOUS
  <1>1. PICK y \in Both : \A z \in Both : y <= z
    <2>1. Both \subseteq Nat /\ Both # {}
      OBVIOUS
    <2> HIDE DEF Both
    <2> QED BY <2>1, LeastNumber
  <1>2. y \in Nat /\ 2 * v + 1 \in Above(y) /\ 2 * v + 2 \in Above(y)
    BY <1>1
  <1>3. 2 * v + 2 <= y /\ y # 0
    BY <1>2, AboveSelf
  <1>4. Above(y) = {y} \cup Above(parent(y)) /\ parent(y) \in Nat /\ parent(y) < y
    BY <1>2, <1>3, AboveStep, ParentBelow
  <1>5. CASE y = 2 * v + 2
    <2>1. parent(y) = v
      BY <1>5, Children
    <2>2. 2 * v + 1 \in Above(v)
      BY <1>2, <1>4, <1>5, <2>1
    <2>3. QED BY <2>2, AboveSelf
  <1>6. CASE y # 2 * v + 2
    <2>1. parent(y) \in Both
      BY <1>2, <1>3, <1>4, <1>6
    <2>2. QED BY <2>1, <1>1, <1>4
  <1>7. QED BY <1>5, <1>6

\* The recursion in Leaves has a solution, one node at a time from the last one.
LEMMA BelowExists ==
  ASSUME NEW n \in Nat, n >= 1
  PROVE  \E f : f = [v \in 0..(2 * n - 2) |-> Grow(n, f, v)]
  <1> DEFINE From(m) == {v \in 0..(2 * n - 2) : v >= 2 * n - 1 - m}
             Done == {m \in Nat : \E f \in [From(m) -> Seq(Nat)] :
                                    \A v \in From(m) : f[v] = Grow(n, f, v)}
  <1>1. 0 \in Done
    <2>1. From(0) = {}
      OBVIOUS
    <2> DEFINE e == [v \in From(0) |-> <<>>]
    <2>2. e \in [From(0) -> Seq(Nat)] /\ \A v \in From(0) : e[v] = Grow(n, e, v)
      BY <2>1
    <2>3. QED BY <2>2
  <1>2. ASSUME NEW m \in Nat, m \in Done PROVE m + 1 \in Done
    <2> DEFINE w == 2 * n - 2 - m
    <2>1. PICK f \in [From(m) -> Seq(Nat)] : \A v \in From(m) : f[v] = Grow(n, f, v)
      BY <1>2
    <2>2. CASE w < 0
      <3>1. From(m + 1) = From(m)
        BY <2>2
      <3> HIDE DEF From
      <3>2. QED BY <2>1, <3>1
    <2>3. CASE w >= 0
      <3> DEFINE g == [v \in From(m + 1) |-> IF v = w THEN Grow(n, f, w) ELSE f[v]]
      <3>1. /\ w \in From(m + 1) /\ w \notin From(m)
            /\ \A v \in From(m + 1) : v # w => v \in From(m)
            /\ \A v \in From(m) : v \in From(m + 1) /\ v # w
        BY <2>3
      <3>2. \A v \in From(m + 1) : v < n - 1 => 2 * v + 1 \in From(m) /\ 2 * v + 2 \in From(m)
        OBVIOUS
      <3>3. Grow(n, f, w) \in Seq(Nat)
        <4>1. CASE w >= n - 1
          <5>1. w - (n - 1) \in Nat
            BY <4>1, <2>3
          <5>2. Grow(n, f, w) = <<w - (n - 1)>>
            BY <4>1 DEF Grow
          <5> HIDE DEF w
          <5>3. QED BY <5>1, <5>2
        <4>2. CASE w < n - 1
          <5>1. f[2 * w + 1] \in Seq(Nat) /\ f[2 * w + 2] \in Seq(Nat)
            <6>1. 2 * w + 1 \in From(m) /\ 2 * w + 2 \in From(m)
              <7> HIDE DEF w, From
              <7> QED BY <3>1, <3>2, <4>2
            <6> HIDE DEF w, From
            <6> QED BY <6>1, <2>1
          <5>2. Grow(n, f, w) = f[2 * w + 1] \o f[2 * w + 2]
            <6>1. ~(w >= n - 1)
              BY <4>2
            <6> HIDE DEF w
            <6> QED BY <6>1 DEF Grow
          <5> HIDE DEF w
          <5>3. QED BY <5>1, <5>2, ConcatProperties
        <4>3. QED BY <4>1, <4>2
      <3>4. \A v \in From(m) : g[v] = f[v]
        <4> HIDE DEF w, From
        <4> QED BY <3>1
      <3>5. g[w] = Grow(n, f, w)
        <4> HIDE DEF w, From
        <4> QED BY <3>1
      <3>6. g \in [From(m + 1) -> Seq(Nat)]
        <4> HIDE DEF w, From
        <4> QED BY <3>1, <3>3
      <3>7. \A v \in From(m + 1) : Grow(n, g, v) = Grow(n, f, v)
        <4> TAKE v \in From(m + 1)
        <4>1. v \in Nat
          OBVIOUS
        <4> HIDE DEF g, w, From
        <4>2. QED BY <3>2, <3>4, <4>1 DEF Grow
      <3>8. \A v \in From(m + 1) : g[v] = Grow(n, g, v)
        <4> HIDE DEF g, w, From
        <4> QED BY <2>1, <3>1, <3>4, <3>5, <3>7
      <3> HIDE DEF g, From
      <3>9. QED BY <3>6, <3>8
    <2>4. w \in Int
      OBVIOUS
    <2> HIDE DEF w, Done
    <2>5. QED BY <2>2, <2>3, <2>4
  <1>3. 2 * n - 1 \in Done
    <2>1. Nat \subseteq Done
      <3> HIDE DEF Done
      <3> QED BY <1>1, <1>2, InductionOnNumbers
    <2>2. 2 * n - 1 \in Nat
      OBVIOUS
    <2> HIDE DEF Done
    <2>3. QED BY <2>1, <2>2
  <1>4. From(2 * n - 1) = 0..(2 * n - 2)
    OBVIOUS
  <1>5. PICK f \in [0..(2 * n - 2) -> Seq(Nat)] : \A v \in 0..(2 * n - 2) : f[v] = Grow(n, f, v)
    <2> HIDE DEF From
    <2> QED BY <1>3, <1>4
  <1>6. f = [v \in 0..(2 * n - 2) |-> Grow(n, f, v)]
    BY <1>5
  <1>7. QED BY <1>6

\* What the recursive function gives for a leaf and for an inner node.
LEMMA BelowGrows ==
  ASSUME NEW n \in Nat, n >= 1, NEW v \in 0..(2 * n - 2)
  PROVE  /\ v >= n - 1 => Below(n)[v] = <<v - (n - 1)>>
         /\ v < n - 1 => /\ Below(n)[v] = Below(n)[2 * v + 1] \o Below(n)[2 * v + 2]
                         /\ 2 * v + 1 \in 0..(2 * n - 2) /\ 2 * v + 2 \in 0..(2 * n - 2)
  <1>1. Below(n) = [x \in 0..(2 * n - 2) |-> Grow(n, Below(n), x)]
    BY BelowExists DEF Below
  <1>2. Below(n)[v] = Grow(n, Below(n), v)
    <2> DEFINE b == Below(n)
    <2> HIDE DEF b
    <2>1. b = [x \in 0..(2 * n - 2) |-> Grow(n, b, x)]
      BY <1>1 DEF b
    <2>2. b[v] = Grow(n, b, v)
      BY <2>1
    <2>3. QED BY <2>2 DEF b
  <1>3. v < n - 1 => ~(v >= n - 1)
    OBVIOUS
  <1>4. v >= n - 1 => Below(n)[v] = <<v - (n - 1)>>
    BY <1>2 DEF Grow
  <1>5. v < n - 1 => Below(n)[v] = Below(n)[2 * v + 1] \o Below(n)[2 * v + 2]
    BY <1>2, <1>3 DEF Grow
  <1>6. v < n - 1 => 2 * v + 1 \in 0..(2 * n - 2) /\ 2 * v + 2 \in 0..(2 * n - 2)
    OBVIOUS
  <1>7. QED BY <1>4, <1>5, <1>6

\* What a result at a node is made of: tasks whose leaves are below the node,
\* none of them twice.
TasksBelow(n, v, s) ==
  /\ s \in Seq(0..(n - 1))
  /\ \A i \in 1..Len(s) : v \in Above(Leaf(n, s[i]))
  /\ \A i, j \in 1..Len(s) : i # j => s[i] # s[j]

\* The results of two children, one after the other, are a result of their parent.
LEMMA TasksOfChildren ==
  ASSUME NEW n \in Nat, n >= 1, NEW v \in Nat, NEW s, NEW r,
         TasksBelow(n, 2 * v + 1, s), TasksBelow(n, 2 * v + 2, r)
  PROVE  TasksBelow(n, v, s \o r)
  <1> DEFINE c == s \o r
  <1>1. /\ s \in Seq(0..(n - 1)) /\ r \in Seq(0..(n - 1))
        /\ Len(s) \in Nat /\ Len(r) \in Nat
    BY LenProperties DEF TasksBelow
  <1>2. /\ c \in Seq(0..(n - 1)) /\ Len(c) = Len(s) + Len(r)
        /\ \A i \in 1..(Len(s) + Len(r)) : c[i] = IF i <= Len(s) THEN s[i] ELSE r[i - Len(s)]
    BY <1>1, ConcatProperties
  <1> HIDE DEF c
  <1>3. /\ \A i \in 1..Len(s) : s[i] \in 0..(n - 1) /\ 2 * v + 1 \in Above(Leaf(n, s[i]))
        /\ \A i \in 1..Len(r) : r[i] \in 0..(n - 1) /\ 2 * v + 2 \in Above(Leaf(n, r[i]))
    BY <1>1, ElementOfSeq DEF TasksBelow
  <1>4. ASSUME NEW i \in 0..(n - 1)
        PROVE  /\ 2 * v + 1 \in Above(Leaf(n, i)) \/ 2 * v + 2 \in Above(Leaf(n, i)) => v \in Above(Leaf(n, i))
               /\ ~(2 * v + 1 \in Above(Leaf(n, i)) /\ 2 * v + 2 \in Above(Leaf(n, i)))
    <2>1. Leaf(n, i) \in Nat
      BY DEF Leaf
    <2>2. 2 * v + 1 # 0 /\ 2 * v + 2 # 0
      OBVIOUS
    <2>3. /\ 2 * v + 1 \in Nat /\ parent(2 * v + 1) = v
          /\ 2 * v + 2 \in Nat /\ parent(2 * v + 2) = v
      BY Children
    <2>4. 2 * v + 1 \in Above(Leaf(n, i)) => v \in Above(Leaf(n, i))
      BY <2>1, <2>2, <2>3, AboveUp
    <2>5. 2 * v + 2 \in Above(Leaf(n, i)) => v \in Above(Leaf(n, i))
      BY <2>1, <2>2, <2>3, AboveUp
    <2>6. ~(2 * v + 1 \in Above(Leaf(n, i)) /\ 2 * v + 2 \in Above(Leaf(n, i)))
      BY <2>1, SiblingsApart
    <2>7. QED BY <2>4, <2>5, <2>6
  <1>5. ASSUME NEW i \in 1..Len(c)
        PROVE  \/ i \in 1..Len(s) /\ c[i] = s[i]
               \/ i - Len(s) \in 1..Len(r) /\ c[i] = r[i - Len(s)]
    <2>1. CASE i <= Len(s)
      <3>1. i \in 1..Len(s)
        BY <1>1, <2>1
      <3>2. QED BY <1>2, <3>1
    <2>2. CASE i > Len(s)
      <3>1. i - Len(s) \in 1..Len(r)
        BY <1>1, <1>2, <2>2
      <3>2. QED BY <1>2, <2>2, <3>1
    <2>3. QED BY <1>1, <2>1, <2>2
  <1>6. \A i \in 1..Len(c) : v \in Above(Leaf(n, c[i]))
    BY <1>3, <1>4, <1>5
  <1>7. ASSUME NEW i \in 1..Len(c), NEW j \in 1..Len(c), i # j
        PROVE  c[i] # c[j]
    <2>1. CASE i \in 1..Len(s) /\ c[i] = s[i] /\ j \in 1..Len(s) /\ c[j] = s[j]
      BY <1>7, <2>1 DEF TasksBelow
    <2>2. CASE i \in 1..Len(s) /\ c[i] = s[i] /\ j - Len(s) \in 1..Len(r) /\ c[j] = r[j - Len(s)]
      BY <1>3, <1>4, <2>2
    <2>3. CASE i - Len(s) \in 1..Len(r) /\ c[i] = r[i - Len(s)] /\ j \in 1..Len(s) /\ c[j] = s[j]
      BY <1>3, <1>4, <2>3
    <2>4. CASE /\ i - Len(s) \in 1..Len(r) /\ c[i] = r[i - Len(s)]
               /\ j - Len(s) \in 1..Len(r) /\ c[j] = r[j - Len(s)]
      <3>1. i - Len(s) # j - Len(s)
        BY <1>1, <1>7, <1>2
      <3>2. QED BY <2>4, <3>1 DEF TasksBelow
    <2>5. QED BY <1>5, <2>1, <2>2, <2>3, <2>4
  <1>8. QED BY <1>2, <1>6, <1>7 DEF TasksBelow, c

\* The recursive function in Leaves gives each node such a result.
LEMMA BelowExact ==
  ASSUME NEW n \in Nat, n >= 1, NEW v \in 0..(2 * n - 2)
  PROVE  TasksBelow(n, v, Below(n)[v])
  <1> DEFINE N == 0..(2 * n - 2)
             Bad == {x \in N : ~TasksBelow(n, x, Below(n)[x])}
             T == {2 * n - 2 - x : x \in Bad}
  <1> SUFFICES ASSUME v \in Bad PROVE FALSE
    OBVIOUS
  <1>1. PICK w \in Bad : \A x \in Bad : w >= x
    <2>1. T \subseteq Nat /\ T # {}
      OBVIOUS
    <2>2. PICK t \in T : \A u \in T : t <= u
      <3> HIDE DEF T
      <3> QED BY <2>1, LeastNumber
    <2>3. PICK w \in Bad : t = 2 * n - 2 - w
      OBVIOUS
    <2>4. \A x \in Bad : 2 * n - 2 - w <= 2 * n - 2 - x
      BY <2>2, <2>3
    <2>5. \A x \in Bad : x \in Int
      OBVIOUS
    <2> HIDE DEF Bad
    <2>6. QED BY <2>4, <2>5
  <1>2. w \in N /\ ~TasksBelow(n, w, Below(n)[w])
    OBVIOUS
  <1>3. CASE w >= n - 1
    <2> DEFINE i == w - (n - 1)
    <2>1. i \in 0..(n - 1) /\ Leaf(n, i) = w
      BY <1>2, <1>3 DEF Leaf
    <2>2. Below(n)[w] = <<i>>
      BY <1>2, <1>3, BelowGrows
    <2>3. w \in Above(w)
      BY <1>2, AboveSelf
    <2> HIDE DEF i
    <2>4. TasksBelow(n, w, <<i>>)
      BY <2>1, <2>3 DEF TasksBelow
    <2>5. QED BY <1>2, <2>2, <2>4
  <1>4. CASE w < n - 1
    <2>1. /\ Below(n)[w] = Below(n)[2 * w + 1] \o Below(n)[2 * w + 2]
          /\ 2 * w + 1 \in N /\ 2 * w + 2 \in N
      BY <1>2, <1>4, BelowGrows
    <2>2. 2 * w + 1 \notin Bad /\ 2 * w + 2 \notin Bad
      <3>1. 2 * w + 1 > w /\ 2 * w + 2 > w /\ w \in Nat
        BY <1>2
      <3> HIDE DEF Bad
      <3>2. QED BY <1>1, <2>1, <3>1
    <2>3. TasksBelow(n, 2 * w + 1, Below(n)[2 * w + 1]) /\ TasksBelow(n, 2 * w + 2, Below(n)[2 * w + 2])
      BY <2>1, <2>2
    <2>4. w \in Nat
      BY <1>2
    <2>5. TasksBelow(n, w, Below(n)[w])
      BY <2>1, <2>3, <2>4, TasksOfChildren
    <2>6. QED BY <1>2, <2>5
  <1>5. QED
    <2>1. w \in Int
      BY <1>2
    <2> QED BY <2>1, <1>3, <1>4
\* What is below a node and not the node itself is below one of its children.
LEMMA AboveDown ==
  ASSUME NEW v \in Nat, NEW x \in Nat, v \in Above(x), x # v
  PROVE  2 * v + 1 \in Above(x) \/ 2 * v + 2 \in Above(x)
  <1> DEFINE Bad == {y \in Nat : /\ v \in Above(y) /\ y # v
                                 /\ 2 * v + 1 \notin Above(y) /\ 2 * v + 2 \notin Above(y)}
  <1> SUFFICES ASSUME x \in Bad PROVE FALSE
    OBVIOUS
  <1>1. PICK y \in Bad : \A z \in Bad : y <= z
    <2>1. Bad \subseteq Nat /\ Bad # {}
      OBVIOUS
    <2> HIDE DEF Bad
    <2> QED BY <2>1, LeastNumber
  <1>2. /\ y \in Nat /\ v \in Above(y) /\ y # v
        /\ 2 * v + 1 \notin Above(y) /\ 2 * v + 2 \notin Above(y)
    BY <1>1
  <1>3. y # 0
    BY <1>2, AboveSelf
  <1>4. /\ Above(y) = {y} \cup Above(parent(y))
        /\ parent(y) \in Nat /\ parent(y) < y /\ (y = 2 * parent(y) + 1 \/ y = 2 * parent(y) + 2)
    BY <1>2, <1>3, AboveStep, ParentBelow
  <1>5. CASE parent(y) = v
    BY <1>2, <1>4, <1>5
  <1>6. CASE parent(y) # v
    <2>1. parent(y) \in Bad
      BY <1>2, <1>4, <1>6
    <2>2. QED BY <2>1, <1>1, <1>4
  <1>7. QED BY <1>5, <1>6

-----------------------------------------------------------------------------
(* The invariant.                                                          *)

Active(t) == at[t].step \in {"publish", "reduce"}

TypeInv ==
  /\ size \in Nat /\ dispenser \in Nat /\ failing \subseteq Task
  /\ results \in [Task -> Seq(Task)]
  /\ pubs \in [0..(size - 2) -> Task \cup {NoTask}]
  /\ at \in [Thread -> [step : {"next", "publish", "reduce", "ended"},
                        index : Task \cup {NoTask}, node : Nat]]

\* top[i] is the node whose result is in results[i], or -1 while results[i] is
\* not in use.  The results in use are of nodes none of which is above another
\* one, and all tasks that were dispensed and did not throw are below them.
Forest(top) ==
  /\ top \in [Task -> -1..(2 * size - 2)]
  /\ \A i \in Task : top[i] # -1 => i < dispenser /\ results[i] = Below(size)[top[i]]
  /\ \A i, j \in Task : i # j /\ top[i] # -1 /\ top[j] # -1 => top[i] \notin Above(top[j])
  /\ \A i \in Task : (i < dispenser /\ i \notin failing) <=> \E k \in Task : top[k] \in Above(Leaf(size, i))

\* A thread at work has a result of its own, which it has not published.
Held(top) ==
  /\ \A t \in Thread : Active(t) =>
       /\ at[t].index \in Task /\ at[t].node # 0 /\ top[at[t].index] = at[t].node
       /\ pubs[parent(at[t].node)] # at[t].index
  /\ \A t, u \in Thread : t # u /\ Active(t) /\ Active(u) => at[t].index # at[u].index

\* i was published in v, which is the parent of its node.
PublishedAt(top, i, v) == i \in DOMAIN top /\ top[i] \notin {-1, 0} /\ parent(top[i]) = v

\* A result in use is at the root, with a thread, or published where the
\* sibling will look for it; a slot that has something else is of a node that
\* both children have been to.
Published(top) ==
  /\ \A i \in Task : top[i] \notin {-1, 0} =>
       pubs[parent(top[i])] = i \/ \E t \in Thread : Active(t) /\ at[t].index = i
  /\ \A i \in Task : top[i] = 0 => pubs[0] = i
  /\ \A t \in Thread : at[t].step = "reduce" =>
       PublishedAt(top, pubs[parent(at[t].node)], parent(at[t].node))
  /\ \A v \in 0..(size - 2) : pubs[v] # NoTask =>
       PublishedAt(top, pubs[v], v) \/ \E k \in Task : top[k] \in Above(v)

\* The threads end when there is nothing left or when a task throws, and the
\* caller waits for all of them.
EndInv ==
  /\ size <= 1 => \A t \in Thread : ~Active(t)
  /\ dispenser > 0 => threads >= 1
  /\ size > 1 /\ failing = {} =>
       \A t \in Thread : at[t].step = "ended" /\ t <= size => dispenser >= size
  /\ size > 1 /\ returned # "pending" => \A t \in Thread : at[t].step = "ended"

ReduceInv ==
  /\ TypeInv
  /\ size > 1 => \E top \in [Task -> -1..(2 * size - 2)] : Forest(top) /\ Held(top) /\ Published(top)
  /\ EndInv
  /\ ResultDetermined

-----------------------------------------------------------------------------
(* The steps.                                                              *)

\* A leaf is above no other node of the tree.
LEMMA LeafIsBelowAll ==
  ASSUME NEW n \in Nat, n > 1, NEW i \in 0..(n - 1), NEW v \in 0..(2 * n - 2), Leaf(n, i) \in Above(v)
  PROVE  v = Leaf(n, i)
  <1> SUFFICES ASSUME v # Leaf(n, i) PROVE FALSE
    OBVIOUS
  <1>1. Leaf(n, i) \in Nat /\ Leaf(n, i) >= n - 1
    BY DEF Leaf
  <1>2. Leaf(n, i) <= v /\ v # 0
    BY <1>1, AboveSelf
  <1>3. parent(v) \in Nat /\ v >= 2 * parent(v) + 1
    BY <1>2, ParentBelow
  <1>4. Leaf(n, i) \in Above(parent(v))
    BY <1>2, AboveStep
  <1>5. Leaf(n, i) <= parent(v)
    BY <1>3, <1>4, AboveSelf
  <1>6. QED BY <1>1, <1>3, <1>5

\* The thread at work in a step, and the slot it comes to.
LEMMA AtWork ==
  ASSUME ReduceInv, NEW t \in Thread, Active(t), NEW top, Forest(top), Held(top)
  PROVE  /\ size > 1 /\ returned = "pending"
         /\ at[t].index \in Task /\ top[at[t].index] = at[t].node
         /\ at[t].node \in 1..(2 * size - 2) /\ parent(at[t].node) \in 0..(size - 2)
         /\ pubs[parent(at[t].node)] # at[t].index
         /\ Above(at[t].node) = {at[t].node} \cup Above(parent(at[t].node))
         /\ at[t].node \notin Above(parent(at[t].node))
  <1> DEFINE v == at[t].node
  <1>1. size \in Nat /\ v \in Nat
    BY DEF ReduceInv, TypeInv
  <1>2. size > 1
    BY <1>1 DEF ReduceInv, EndInv
  <1>3. returned = "pending"
    BY <1>2 DEF ReduceInv, EndInv, Active
  <1>4. at[t].index \in Task /\ top[at[t].index] = v /\ v # 0 /\ pubs[parent(v)] # at[t].index
    BY DEF Held
  <1>5. v \in 1..(2 * size - 2)
    <2>1. top[at[t].index] \in -1..(2 * size - 2)
      BY <1>4 DEF Forest
    <2> HIDE DEF v
    <2>2. QED BY <1>1, <1>4, <2>1
  <1> HIDE DEF v
  <1>6. parent(v) \in Nat /\ parent(v) < v /\ (v = 2 * parent(v) + 1 \/ v = 2 * parent(v) + 2)
    BY <1>5, ParentBelow
  <1>7. parent(v) \in 0..(size - 2)
    BY <1>1, <1>2, <1>5, <1>6
  <1>8. Above(v) = {v} \cup Above(parent(v)) /\ v \notin Above(parent(v))
    BY <1>1, <1>5, <1>6, AboveStep, AboveSelf
  <1>9. QED BY <1>2, <1>3, <1>4, <1>5, <1>7, <1>8 DEF v

\* A result left in a slot that another child comes to is the one of its sibling.
LEMMA SlotOfSibling ==
  ASSUME ReduceInv, NEW t \in Thread, Active(t), NEW top, Forest(top), Held(top), Published(top),
         pubs[parent(at[t].node)] # NoTask
  PROVE  PublishedAt(top, pubs[parent(at[t].node)], parent(at[t].node))
  <1> DEFINE p == parent(at[t].node)
             i == at[t].index
  <1> SUFFICES ASSUME NEW k \in Task, top[k] \in Above(p) PROVE FALSE
    BY AtWork DEF Published
  <1>1. top[k] \in Above(at[t].node) /\ top[i] = at[t].node /\ top[i] \notin Above(p) /\ i \in Task
        /\ at[t].node \in Nat /\ at[t].node # 0
    BY AtWork
  <1>2. top[i] # -1 /\ top[k] # -1
    BY <1>1, AboveSelf
  <1>3. k = i
    BY <1>1, <1>2 DEF Forest
  <1>4. QED BY <1>1, <1>3

\* The first child leaves its result in the slot.
LEMMA PublishFirst ==
  ASSUME ReduceInv, NEW t \in Thread, at[t].step = "publish", publish(t),
         pubs[parent(at[t].node)] = NoTask,
         NEW top, Forest(top), Held(top), Published(top)
  PROVE  Forest(top)' /\ Held(top)' /\ Published(top)'
  <1> DEFINE v == at[t].node
             p == parent(v)
             i == at[t].index
  <1>1. Active(t)
    BY DEF Active
  <1>2. /\ i \in Task /\ top[i] = v /\ v # 0 /\ v \in Nat /\ p \in 0..(size - 2)
    BY <1>1, AtWork
  <1>3. NoTask \notin Task /\ p # NoTask /\ DOMAIN top = Task
    BY <1>2, ReduceAssumption DEF Task, Forest
  <1>4. /\ pubs' = [pubs EXCEPT ![p] = i] /\ at' = [at EXCEPT ![t] = Idle]
        /\ UNCHANGED <<size, results, dispenser, failing, returned>>
    BY <1>2, <1>3 DEF publish
  <1>5. /\ \A w \in 0..(size - 2) : pubs'[w] = IF w = p THEN i ELSE pubs[w]
        /\ pubs \in [0..(size - 2) -> Task \cup {NoTask}]
    BY <1>2, <1>4 DEF ReduceInv, TypeInv
  <1>6. ~Active(t)' /\ \A u \in Thread : u # t => at'[u] = at[u]
    BY <1>4 DEF ReduceInv, TypeInv, Active, Idle
  <1>7. Forest(top)'
    BY <1>4 DEF Forest, Task
  <1>8. \A u \in Thread : Active(u) /\ u # t => parent(at[u].node) \in 0..(size - 2)
    BY AtWork
  <1>9. Held(top)'
    <2> SUFFICES ASSUME NEW u \in Thread, Active(u)'
                 PROVE  /\ u # t /\ at'[u] = at[u] /\ Active(u)
                        /\ pubs'[parent(at[u].node)] # at[u].index
      BY <1>4 DEF Held, Task
    <2>1. u # t /\ at'[u] = at[u]
      BY <1>6
    <2>2. Active(u)
      BY <2>1 DEF Active
    <2>3. QED BY <1>1, <1>5, <1>8, <2>1, <2>2 DEF Held
  <1>10. Published(top)'
    <2>1. ASSUME NEW j \in Task, top[j] \notin {-1, 0}
          PROVE  pubs'[parent(top[j])] = j \/ \E u \in Thread : Active(u)' /\ at'[u].index = j
      <3>1. CASE j = i
        BY <1>2, <1>5, <3>1
      <3>2. CASE j # i /\ pubs[parent(top[j])] = j
        <4>1. parent(top[j]) # p
          BY <1>3, <3>2
        <4>2. parent(top[j]) \in 0..(size - 2)
          <5>1. top[j] \in 1..(2 * size - 2) /\ size \in Nat
            BY <2>1 DEF Forest, ReduceInv, TypeInv
          <5>2. QED BY <5>1, ParentBelow
        <4>3. QED BY <1>5, <3>2, <4>1, <4>2
      <3>3. CASE j # i /\ \E u \in Thread : Active(u) /\ at[u].index = j
        <4>1. PICK u \in Thread : Active(u) /\ at[u].index = j
          BY <3>3
        <4>2. u # t
          BY <3>3, <4>1
        <4>3. at'[u] = at[u]
          BY <1>6, <4>2
        <4>4. Active(u)' /\ at'[u].index = j
          BY <4>1, <4>3 DEF Active
        <4>5. QED BY <4>4
      <3>4. QED BY <2>1, <3>1, <3>2, <3>3 DEF Published
    <2>2. ASSUME NEW j \in Task, top[j] = 0 PROVE pubs'[0] = j
      <3>1. pubs[0] = j /\ p # 0
        BY <1>3, <2>2 DEF Published
      <3>2. 0 \in 0..(size - 2)
        BY <1>2 DEF ReduceInv, TypeInv
      <3>3. QED BY <1>5, <3>1, <3>2
    <2>3. ASSUME NEW u \in Thread, at'[u].step = "reduce"
          PROVE  PublishedAt(top, pubs'[parent(at'[u].node)], parent(at'[u].node))
      <3>1. u # t /\ at'[u] = at[u]
        BY <1>6, <2>3 DEF Active
      <3>2. PublishedAt(top, pubs[parent(at[u].node)], parent(at[u].node))
        BY <2>3, <3>1 DEF Published
      <3>3. parent(at[u].node) # p
        BY <1>3, <3>2 DEF PublishedAt
      <3>4. parent(at[u].node) \in 0..(size - 2)
        BY <1>8, <2>3, <3>1 DEF Active
      <3>5. pubs'[parent(at[u].node)] = pubs[parent(at[u].node)]
        BY <1>5, <3>3, <3>4
      <3>6. QED BY <3>1, <3>2, <3>5
    <2>4. ASSUME NEW w \in 0..(size - 2), pubs'[w] # NoTask
          PROVE  PublishedAt(top, pubs'[w], w) \/ \E k \in Task : top[k] \in Above(w)
      <3>1. CASE w = p
        <4>1. top[i] # -1
          BY <1>2
        <4>2. QED BY <1>2, <1>3, <1>5, <3>1, <4>1 DEF PublishedAt
      <3>2. CASE w # p
        <4>1. pubs'[w] = pubs[w]
          BY <1>5, <3>2
        <4>2. PublishedAt(top, pubs[w], w) \/ \E k \in Task : top[k] \in Above(w)
          BY <2>4, <4>1 DEF Published
        <4>3. QED BY <4>1, <4>2
      <3>3. QED BY <3>1, <3>2
    <2>5. Task' = Task /\ UNCHANGED size
      BY <1>4 DEF Task
    <2>6. QED BY <2>1, <2>2, <2>3, <2>4, <2>5 DEF Published
  <1>11. QED BY <1>7, <1>9, <1>10

\* The second child finds the result of the first and is going to reduce the two.
LEMMA PublishSecond ==
  ASSUME ReduceInv, NEW t \in Thread, at[t].step = "publish", publish(t),
         pubs[parent(at[t].node)] # NoTask,
         NEW top, Forest(top), Held(top), Published(top)
  PROVE  Forest(top)' /\ Held(top)' /\ Published(top)'
  <1>1. Active(t)
    BY DEF Active
  <1>2. /\ at' = [at EXCEPT ![t] = [at[t] EXCEPT !.step = "reduce"]]
        /\ UNCHANGED <<size, pubs, results, dispenser, failing, returned>>
    BY DEF publish
  <1>3. /\ at'[t].step = "reduce" /\ at'[t].index = at[t].index /\ at'[t].node = at[t].node
        /\ \A u \in Thread : u # t => at'[u] = at[u]
    <2>1. at \in [Thread -> [step : {"next", "publish", "reduce", "ended"},
                             index : Task \cup {NoTask}, node : Nat]]
      BY DEF ReduceInv, TypeInv
    <2>2. at'[t] = [at[t] EXCEPT !.step = "reduce"] /\ \A u \in Thread : u # t => at'[u] = at[u]
      BY <1>2, <2>1
    <2>3. QED BY <2>1, <2>2
  <1>4. /\ \A u \in Thread : Active(u)' <=> Active(u)
        /\ \A u \in Thread : at'[u].index = at[u].index /\ at'[u].node = at[u].node
    BY <1>1, <1>3 DEF Active
  <1>5. Task' = Task
    BY <1>2 DEF Task
  <1>6. Forest(top)'
    BY <1>2, <1>5 DEF Forest
  <1>7. Held(top)'
    BY <1>2, <1>4, <1>5 DEF Held
  <1>8. Published(top)'
    <2>1. PublishedAt(top, pubs[parent(at[t].node)], parent(at[t].node))
      BY <1>1, SlotOfSibling
    <2>2. \A u \in Thread : at'[u].step = "reduce" =>
            PublishedAt(top, pubs[parent(at[u].node)], parent(at[u].node))
      BY <1>3, <2>1 DEF Published
    <2>3. QED BY <1>2, <1>4, <1>5, <2>2 DEF Published
  <1>9. QED BY <1>6, <1>7, <1>8

\* The results that a reduction is about.
LEMMA TwoSiblings ==
  ASSUME ReduceInv, NEW t \in Thread, at[t].step = "reduce",
         NEW top, Forest(top), Held(top), Published(top),
         NEW v, v = at[t].node, NEW p, p = parent(v),
         NEW i, i = at[t].index, NEW j, j = pubs[p]
  PROVE  /\ i \in Task /\ j \in Task /\ i # j
         /\ p \in 0..(size - 2) /\ top[i] = v /\ top[j] \in 1..(2 * size - 2)
         /\ parent(top[j]) = p /\ v \in 1..(2 * size - 2) /\ v # top[j]
         /\ \A w \in Nat : w # 0 /\ parent(w) = p => w \in {v, top[j]}
         /\ ordered(v, results[i], results[j]) = Below(size)[p]
         /\ \A u \in Thread : Active(u) => at[u].index # j
         /\ \A w \in Nat : (top[i] \in Above(w) \/ top[j] \in Above(w)) => p \in Above(w)
  <1>1. Active(t) /\ size \in Nat
    BY DEF Active, ReduceInv, TypeInv
  <1>2. /\ size > 1 /\ i \in Task /\ top[i] = v /\ v \in 1..(2 * size - 2) /\ p \in 0..(size - 2)
        /\ j # i
    BY <1>1, AtWork
  <1>3. j \in Task /\ top[j] \notin {-1, 0} /\ parent(top[j]) = p
    BY DEF Published, PublishedAt, Forest
  <1>4. top[j] \in 1..(2 * size - 2)
    <2>1. top[j] \in -1..(2 * size - 2)
      BY <1>3 DEF Forest
    <2>2. QED BY <1>1, <1>3, <2>1
  <1>5. v # top[j]
    <2>1. top[i] \notin Above(top[j])
      BY <1>2, <1>3 DEF Forest
    <2>2. top[j] \in Above(top[j])
      BY <1>4, AboveSelf
    <2>3. QED BY <1>2, <2>1, <2>2
  <1>6. \A w \in Nat : w # 0 /\ parent(w) = p => w = 2 * p + 1 \/ w = 2 * p + 2
    BY ParentBelow
  <1>7. /\ v = 2 * p + 1 \/ v = 2 * p + 2
        /\ top[j] = 2 * p + 1 \/ top[j] = 2 * p + 2
    BY <1>2, <1>3, <1>4, <1>6
  <1>8. \A w \in Nat : w # 0 /\ parent(w) = p => w \in {v, top[j]}
    BY <1>5, <1>6, <1>7, <1>2
  <1>9. results[i] = Below(size)[v] /\ results[j] = Below(size)[top[j]]
    BY <1>2, <1>3, <1>4 DEF Forest
  <1>10. Below(size)[p] = Below(size)[2 * p + 1] \o Below(size)[2 * p + 2]
    <2>1. p \in 0..(2 * size - 2) /\ p < size - 1 /\ size >= 1
      BY <1>1, <1>2
    <2>2. QED BY <1>1, <2>1, BelowGrows
  <1>11. ordered(v, results[i], results[j]) = Below(size)[p]
    <2>1. CASE v = 2 * p + 1
      <3>1. v % 2 = 1 /\ top[j] = 2 * p + 2
        BY <1>2, <1>5, <1>7, <2>1
      <3>2. QED BY <1>9, <1>10, <2>1, <3>1 DEF ordered
    <2>2. CASE v = 2 * p + 2
      <3>1. v % 2 # 1 /\ top[j] = 2 * p + 1
        BY <1>2, <1>5, <1>7, <2>2
      <3>2. QED BY <1>9, <1>10, <2>2, <3>1 DEF ordered
    <2>3. QED BY <1>7, <2>1, <2>2
  <1>12. ASSUME NEW u \in Thread, Active(u) PROVE at[u].index # j
    <2>1. top[at[u].index] = at[u].node /\ pubs[parent(at[u].node)] # at[u].index
      BY <1>12, AtWork
    <2>2. QED BY <1>3, <2>1
  <1>13. ASSUME NEW w \in Nat, top[i] \in Above(w) \/ top[j] \in Above(w)
         PROVE  p \in Above(w)
    <2>1. v \in Nat /\ v # 0 /\ top[j] \in Nat /\ top[j] # 0
      BY <1>2, <1>4
    <2>2. QED BY <1>2, <1>3, <1>13, <2>1, AboveUp
  <1>14. QED BY <1>2, <1>3, <1>4, <1>5, <1>8, <1>11, <1>12, <1>13

\* The result of the inner node takes the place of the results of its children.
LEMMA ReduceForest ==
  ASSUME ReduceInv, NEW t \in Thread, at[t].step = "reduce", reduce(t),
         NEW top, Forest(top), Held(top), Published(top),
         NEW v, v = at[t].node, NEW p, p = parent(v),
         NEW i, i = at[t].index, NEW j, j = pubs[p]
  PROVE  Forest([top EXCEPT ![i] = p, ![j] = -1])'
  <1> DEFINE new == [top EXCEPT ![i] = p, ![j] = -1]
  <1>1. /\ i \in Task /\ j \in Task /\ i # j
        /\ p \in 0..(size - 2) /\ top[i] = v /\ top[j] \in 1..(2 * size - 2)
        /\ v \in 1..(2 * size - 2) /\ v # top[j] /\ parent(v) = p /\ parent(top[j]) = p
        /\ \A w \in Nat : w # 0 /\ parent(w) = p => w \in {v, top[j]}
        /\ ordered(v, results[i], results[j]) = Below(size)[p]
        /\ \A w \in Nat : (top[i] \in Above(w) \/ top[j] \in Above(w)) => p \in Above(w)
    BY TwoSiblings
  <1>2. /\ size \in Nat /\ Task' = Task /\ UNCHANGED <<size, dispenser, failing>>
        /\ results' = [results EXCEPT ![i] = Below(size)[p], ![j] = <<>>]
        /\ results \in [Task -> Seq(Task)]
    BY <1>1 DEF reduce, Task, ReduceInv, TypeInv
  <1>3. /\ top \in [Task -> -1..(2 * size - 2)]
        /\ \A k \in Task : new[k] = IF k = i THEN p ELSE IF k = j THEN -1 ELSE top[k]
        /\ new \in [Task -> -1..(2 * size - 2)]
    <2>1. top \in [Task -> -1..(2 * size - 2)] /\ p \in -1..(2 * size - 2) /\ -1 \in -1..(2 * size - 2)
      BY <1>1, <1>2 DEF Forest
    <2>2. QED BY <1>1, <2>1
  <1> HIDE DEF new
  <1>4. \A w \in Nat : p \in Above(w) /\ w # p => v \in Above(w) \/ top[j] \in Above(w)
    <2> TAKE w \in Nat
    <2> HAVE p \in Above(w) /\ w # p
    <2>1. 2 * p + 1 \in Above(w) \/ 2 * p + 2 \in Above(w)
      BY <1>1, AboveDown
    <2>2. 2 * p + 1 \in {v, top[j]} /\ 2 * p + 2 \in {v, top[j]}
      <3>1. p \in Nat /\ 2 * p + 1 \in Nat /\ 2 * p + 2 \in Nat /\ 2 * p + 1 # 0 /\ 2 * p + 2 # 0
        BY <1>1
      <3>2. QED BY <1>1, <3>1, Children
    <2>3. QED BY <2>1, <2>2
  <1>5. \A k \in Task : new[k] # -1 => k < dispenser /\ results'[k] = Below(size)[new[k]]
    <2> SUFFICES ASSUME NEW k \in Task, new[k] # -1
                 PROVE  k < dispenser /\ results'[k] = Below(size)[new[k]]
      OBVIOUS
    <2>1. k # j /\ (k = i => new[k] = p) /\ (k # i => new[k] = top[k])
      BY <1>1, <1>3
    <2>2. CASE k = i
      BY <1>1, <1>2, <2>1, <2>2 DEF Forest
    <2>3. CASE k # i
      BY <1>1, <1>2, <2>1, <2>3 DEF Forest
    <2>4. QED BY <2>2, <2>3
  <1>6. \A k, l \in Task : k # l /\ new[k] # -1 /\ new[l] # -1 => new[k] \notin Above(new[l])
    <2> SUFFICES ASSUME NEW k \in Task, NEW l \in Task, k # l, new[k] # -1, new[l] # -1,
                        new[k] \in Above(new[l])
                 PROVE  FALSE
      OBVIOUS
    <2>1. k # j /\ l # j /\ (k # i => new[k] = top[k]) /\ (l # i => new[l] = top[l])
      BY <1>1, <1>3
    <2>2. CASE k = i
      <3>1. new[k] = p /\ l # i /\ new[l] = top[l] /\ top[l] # -1
        BY <1>3, <2>1, <2>2
      <3>2. top[l] \in Nat
        <4>1. top[l] \in -1..(2 * size - 2) /\ size \in Nat
          BY <1>2, <1>3
        <4>2. QED BY <3>1, <4>1
      <3>3. top[l] # p
        <4>1. top[l] \notin Above(v)
          BY <1>1, <3>1 DEF Forest
        <4>2. Above(v) = {v} \cup Above(p) /\ p \in Above(p)
          BY <1>1, AboveStep, AboveSelf
        <4>3. QED BY <4>1, <4>2
      <3>4. v \in Above(top[l]) \/ top[j] \in Above(top[l])
        BY <1>4, <3>1, <3>2, <3>3
      <3>5. top[i] # -1 /\ top[j] # -1
        BY <1>1
      <3>6. QED BY <1>1, <2>1, <3>1, <3>4, <3>5 DEF Forest
    <2>3. CASE l = i
      <3>1. top[k] \in Above(p) /\ k # i /\ top[k] # -1
        BY <1>3, <2>1, <2>3
      <3>2. top[k] \in Above(v)
        BY <1>1, <3>1, AboveStep
      <3>3. v # -1
        BY <1>1
      <3>4. QED BY <1>1, <3>1, <3>2, <3>3 DEF Forest
    <2>4. CASE k # i /\ l # i
      BY <2>1, <2>4 DEF Forest
    <2>5. QED BY <2>2, <2>3, <2>4
  <1>7. \A k \in Task : (\E l \in Task : new[l] \in Above(Leaf(size, k)))
                        <=> (\E l \in Task : top[l] \in Above(Leaf(size, k)))
    <2> TAKE k \in Task
    <2>1. Leaf(size, k) \in Nat /\ Leaf(size, k) # p
      BY <1>1, <1>2 DEF Leaf, Task
    <2>2. -1 \notin Above(Leaf(size, k))
      BY <2>1, AboveSelf
    <2>3. ASSUME NEW l \in Task, new[l] \in Above(Leaf(size, k))
          PROVE  \E m \in Task : top[m] \in Above(Leaf(size, k))
      <3>1. CASE l = i
        BY <1>1, <1>3, <1>4, <2>1, <2>3, <3>1
      <3>2. CASE l # i
        BY <1>3, <2>2, <2>3, <3>2
      <3>3. QED BY <3>1, <3>2
    <2>4. ASSUME NEW l \in Task, top[l] \in Above(Leaf(size, k))
          PROVE  \E m \in Task : new[m] \in Above(Leaf(size, k))
      <3>1. CASE l = i \/ l = j
        BY <1>1, <1>3, <2>1, <2>4, <3>1
      <3>2. CASE l # i /\ l # j
        BY <1>3, <2>4, <3>2
      <3>3. QED BY <3>1, <3>2
    <2>5. QED BY <2>3, <2>4
  <1>8. \A k \in Task : (k < dispenser /\ k \notin failing) <=> \E l \in Task : new[l] \in Above(Leaf(size, k))
    BY <1>7 DEF Forest
  <1>9. Forest(new)'
    BY <1>2, <1>3, <1>5, <1>6, <1>8 DEF Forest
  <1>10. QED BY <1>9 DEF new

\* The threads and the slots after a reduction.
LEMMA ReduceSlots ==
  ASSUME ReduceInv, NEW t \in Thread, at[t].step = "reduce", reduce(t),
         NEW top, Forest(top), Held(top), Published(top),
         NEW v, v = at[t].node, NEW p, p = parent(v),
         NEW i, i = at[t].index, NEW j, j = pubs[p],
         NEW new, new = [top EXCEPT ![i] = p, ![j] = -1]
  PROVE  Held(new)' /\ Published(new)'
  <1>1. /\ i \in Task /\ j \in Task /\ i # j
        /\ p \in 0..(size - 2) /\ top[i] = v /\ top[j] \in 1..(2 * size - 2)
        /\ v \in 1..(2 * size - 2) /\ v # top[j] /\ parent(v) = p /\ parent(top[j]) = p
        /\ \A w \in Nat : w # 0 /\ parent(w) = p => w \in {v, top[j]}
        /\ \A u \in Thread : Active(u) => at[u].index # j
        /\ \A w \in Nat : (top[i] \in Above(w) \/ top[j] \in Above(w)) => p \in Above(w)
    BY TwoSiblings
  <1>2. /\ size \in Nat /\ Task' = Task /\ UNCHANGED size
        /\ \A w \in 0..(size - 2) : pubs'[w] = IF w = p THEN i ELSE pubs[w]
        /\ \A u \in Thread : u # t => at'[u] = at[u]
        /\ at'[t] = IF p = 0 THEN Idle ELSE [step |-> "publish", index |-> i, node |-> p]
    BY <1>1 DEF reduce, Task, ReduceInv, TypeInv
  <1>3. /\ top \in [Task -> -1..(2 * size - 2)]
        /\ \A k \in Task : new[k] = IF k = i THEN p ELSE IF k = j THEN -1 ELSE top[k]
        /\ DOMAIN new = Task /\ DOMAIN top = Task
    BY <1>1 DEF Forest
  <1>4. /\ Active(t)' <=> p # 0
        /\ at'[t].step # "reduce"
        /\ p # 0 => at'[t].index = i /\ at'[t].node = p
        /\ \A u \in Thread : u # t => (Active(u)' <=> Active(u))
        /\ Active(t)
    BY <1>2 DEF Active, Idle
  <1>5. ASSUME NEW u \in Thread, u # t, Active(u)
        PROVE  /\ at[u].index \in Task \ {i, j} /\ top[at[u].index] = at[u].node
               /\ at[u].node # 0 /\ parent(at[u].node) \in 0..(size - 2)
               /\ parent(at[u].node) # p
               /\ pubs[parent(at[u].node)] # at[u].index
    <2>1. /\ at[u].index \in Task /\ top[at[u].index] = at[u].node
          /\ at[u].node \in 1..(2 * size - 2) /\ parent(at[u].node) \in 0..(size - 2)
          /\ pubs[parent(at[u].node)] # at[u].index
      BY <1>5, AtWork
    <2>2. at[u].index # i /\ at[u].index # j
      BY <1>1, <1>4, <1>5 DEF Held
    <2>3. at[u].node \in Above(at[u].node) /\ at[u].node \in Nat /\ at[u].node # 0 /\ at[u].node # -1
      BY <2>1, AboveSelf
    <2>4. at[u].node # v
      BY <1>1, <2>1, <2>2, <2>3 DEF Forest
    <2>5. at[u].node # top[j]
      BY <1>1, <2>1, <2>2, <2>3 DEF Forest
    <2>6. parent(at[u].node) # p
      BY <1>1, <2>3, <2>4, <2>5
    <2>7. QED BY <2>1, <2>2, <2>3, <2>6
  <1>6. ASSUME p # 0 PROVE parent(p) \in 0..(size - 2) /\ parent(p) # p /\ pubs[parent(p)] # i
    <2>1. p \in Nat /\ parent(p) \in Nat /\ parent(p) < p /\ Above(p) = {p} \cup Above(parent(p))
      BY <1>1, <1>6, ParentBelow, AboveStep
    <2>2. parent(p) \in 0..(size - 2) /\ parent(p) # p
      BY <1>1, <1>2, <2>1
    <2>3. ASSUME pubs[parent(p)] = i PROVE FALSE
      <3>1. i # NoTask
        BY <1>1, ReduceAssumption DEF Task
      <3>2. ~PublishedAt(top, i, parent(p))
        BY <1>1, <2>2 DEF PublishedAt
      <3>3. PICK k \in Task : top[k] \in Above(parent(p))
        BY <2>2, <2>3, <3>1, <3>2 DEF Published
      <3>4. top[k] \in Above(p) /\ top[k] # -1
        BY <2>1, <3>3, AboveSelf
      <3>5. top[k] \in Above(v) /\ v # -1 /\ v \notin Above(p)
        BY <1>1, <3>4, AboveStep, AboveSelf, ParentBelow
      <3>6. k = i
        BY <1>1, <3>4, <3>5 DEF Forest
      <3>7. QED BY <1>1, <3>4, <3>5, <3>6
    <2>4. QED BY <2>2, <2>3
  <1>7. Held(new)'
    <2>1. ASSUME NEW u \in Thread, Active(u)'
          PROVE  /\ at'[u].index \in Task /\ at'[u].node # 0 /\ new[at'[u].index] = at'[u].node
                 /\ pubs'[parent(at'[u].node)] # at'[u].index
      <3>1. CASE u = t
        <4>1. p # 0 /\ at'[u].index = i /\ at'[u].node = p
          BY <1>4, <2>1, <3>1
        <4>2. QED BY <1>1, <1>2, <1>3, <1>6, <4>1
      <3>2. CASE u # t
        <4>1. at'[u] = at[u] /\ Active(u)
          BY <1>2, <1>4, <2>1, <3>2
        <4>2. QED BY <1>2, <1>3, <1>5, <3>2, <4>1
      <3>3. QED BY <3>1, <3>2
    <2>2. ASSUME NEW u \in Thread, NEW w \in Thread, u # w, Active(u)', Active(w)'
          PROVE  at'[u].index # at'[w].index
      <3>1. CASE u = t
        <4>1. at'[u].index = i /\ at'[w] = at[w] /\ Active(w) /\ w # t
          BY <1>2, <1>4, <2>2, <3>1
        <4>2. QED BY <1>5, <4>1
      <3>2. CASE w = t
        <4>1. at'[w].index = i /\ at'[u] = at[u] /\ Active(u) /\ u # t
          BY <1>2, <1>4, <2>2, <3>2
        <4>2. QED BY <1>5, <4>1
      <3>3. CASE u # t /\ w # t
        BY <1>2, <1>4, <2>2, <3>3 DEF Held
      <3>4. QED BY <3>1, <3>2, <3>3
    <2>3. QED BY <1>2, <2>1, <2>2 DEF Held, Thread
  <1>8. ASSUME NEW m, NEW w, w # p, PublishedAt(top, m, w) PROVE PublishedAt(new, m, w)
    <2>1. m # i /\ m # j
      BY <1>1, <1>8 DEF PublishedAt
    <2>2. QED BY <1>3, <1>8, <2>1 DEF PublishedAt
  <1>9. ASSUME NEW k \in Task, new[k] \notin {-1, 0}
        PROVE  pubs'[parent(new[k])] = k \/ \E u \in Thread : Active(u)' /\ at'[u].index = k
    <2>1. CASE k = i
      <3>1. p # 0
        BY <1>3, <1>9, <2>1
      <3>2. QED BY <1>4, <2>1, <3>1
    <2>2. CASE k # i
      <3>1. k # j /\ new[k] = top[k]
        BY <1>3, <1>9, <2>2
      <3>2. CASE pubs[parent(top[k])] = k
        <4>1. parent(top[k]) # p
          BY <3>1, <3>2
        <4>2. parent(top[k]) \in 0..(size - 2)
          <5>1. top[k] \in 1..(2 * size - 2)
            BY <1>2, <1>3, <1>9, <3>1
          <5>2. QED BY <1>2, <5>1, ParentBelow
        <4>3. QED BY <1>2, <3>1, <3>2, <4>1, <4>2
      <3>3. CASE \E u \in Thread : Active(u) /\ at[u].index = k
        <4>1. PICK u \in Thread : Active(u) /\ at[u].index = k
          BY <3>3
        <4>2. u # t
          BY <2>2, <4>1
        <4>3. QED BY <1>2, <1>4, <4>1, <4>2
      <3>4. QED BY <1>9, <3>1, <3>2, <3>3 DEF Published
    <2>3. QED BY <2>1, <2>2
  <1>10. ASSUME NEW k \in Task, new[k] = 0 PROVE pubs'[0] = k
    <2>1. 0 \in 0..(size - 2)
      BY <1>1, <1>2
    <2>2. CASE k = i
      BY <1>2, <1>3, <1>10, <2>1, <2>2
    <2>3. CASE k # i
      <3>1. top[k] = 0 /\ k # j
        BY <1>3, <1>10, <2>3
      <3>2. pubs[0] = k
        BY <3>1 DEF Published
      <3>3. QED BY <1>2, <2>1, <3>1, <3>2
    <2>4. QED BY <2>2, <2>3
  <1>11. ASSUME NEW u \in Thread, at'[u].step = "reduce"
         PROVE  PublishedAt(new, pubs'[parent(at'[u].node)], parent(at'[u].node))
    <2>1. u # t /\ at'[u] = at[u] /\ Active(u) /\ at[u].step = "reduce"
      BY <1>2, <1>4, <1>11 DEF Active
    <2>2. PublishedAt(top, pubs[parent(at[u].node)], parent(at[u].node))
      BY <2>1 DEF Published
    <2>3. pubs'[parent(at[u].node)] = pubs[parent(at[u].node)] /\ parent(at[u].node) # p
      BY <1>2, <1>5, <2>1
    <2>4. QED BY <1>8, <2>1, <2>2, <2>3
  <1>12. ASSUME NEW w \in 0..(size - 2), pubs'[w] # NoTask
         PROVE  PublishedAt(new, pubs'[w], w) \/ \E k \in Task : new[k] \in Above(w)
    <2>1. CASE w = p
      <3>1. new[i] \in Above(w)
        BY <1>1, <1>3, <2>1, AboveSelf
      <3>2. QED BY <1>1, <3>1
    <2>2. CASE w # p
      <3>1. pubs'[w] = pubs[w]
        BY <1>2, <2>2
      <3>2. CASE PublishedAt(top, pubs[w], w)
        BY <1>8, <2>2, <3>1, <3>2
      <3>3. CASE \E k \in Task : top[k] \in Above(w)
        <4>1. PICK k \in Task : top[k] \in Above(w)
          BY <3>3
        <4>2. CASE k = i \/ k = j
          <5>1. w \in Nat
            OBVIOUS
          <5>2. new[i] \in Above(w)
            BY <1>1, <1>3, <4>1, <4>2, <5>1
          <5>3. QED BY <1>1, <5>2
        <4>3. CASE k # i /\ k # j
          BY <1>3, <4>1, <4>3
        <4>4. QED BY <4>2, <4>3
      <3>4. QED BY <1>12, <3>1, <3>2, <3>3 DEF Published
    <2>3. QED BY <2>1, <2>2
  <1>13. Published(new)'
    BY <1>2, <1>9, <1>10, <1>11, <1>12 DEF Published, Thread
  <1>14. QED BY <1>7, <1>13

\* A thread takes a task that does not throw: its leaf is in no other result.
LEMMA TransformOne ==
  ASSUME ReduceInv, size > 1, NEW t \in Thread, at[t].step = "next", transform(t),
         dispenser < size, dispenser \notin failing,
         NEW top, Forest(top), Held(top), Published(top),
         NEW new, new = [top EXCEPT ![dispenser] = Leaf(size, dispenser)]
  PROVE  Forest(new)' /\ Held(new)' /\ Published(new)'
  <1> DEFINE d == dispenser
             v == Leaf(size, d)
  <1>1. /\ size \in Nat /\ d \in Nat /\ d \in Task /\ failing \subseteq Task
        /\ v \in 1..(2 * size - 2) /\ v >= size - 1
    BY DEF ReduceInv, TypeInv, Task, Leaf
  <1>2. /\ Task' = Task /\ dispenser' = d + 1 /\ UNCHANGED <<size, pubs, failing>>
        /\ results' = [results EXCEPT ![d] = <<d>>]
        /\ at' = [at EXCEPT ![t] = [step |-> "publish", index |-> d, node |-> v]]
        /\ v = d + size - 1
    <2> DEFINE start == [step |-> "publish", index |-> d, node |-> d + size - 1]
    <2>1. ~(dispenser >= size)
      BY <1>1
    <2>2. /\ dispenser' = d + 1 /\ UNCHANGED <<size, pubs, failing>>
          /\ at' = [at EXCEPT ![t] = start]
          /\ results' = IF start.step = "publish" THEN [results EXCEPT ![d] = <<d>>] ELSE results
      BY <2>1, Zenon DEF transform
    <2>3. v = d + size - 1
      BY DEF Leaf
    <2>4. Task' = Task
      BY <2>2 DEF Task
    <2>5. QED BY <2>2, <2>3, <2>4
  <1>3. /\ top \in [Task -> -1..(2 * size - 2)] /\ DOMAIN top = Task
        /\ new \in [Task -> -1..(2 * size - 2)] /\ DOMAIN new = Task
        /\ \A k \in Task : new[k] = IF k = d THEN v ELSE top[k]
    <2>1. v \in -1..(2 * size - 2)
      BY <1>1
    <2>2. QED BY <1>1, <2>1 DEF Forest
  <1>4. /\ \A k \in Task : results'[k] = IF k = d THEN <<d>> ELSE results[k]
        /\ \A u \in Thread : u # t => at'[u] = at[u]
        /\ at'[t].step = "publish" /\ at'[t].index = d /\ at'[t].node = v
        /\ ~Active(t)
    BY <1>2 DEF ReduceInv, TypeInv, Active
  <1>5. top[d] = -1 /\ \A k \in Task : top[k] \notin Above(v)
    <2>1. ~(d < d)
      BY <1>1
    <2>2. QED BY <1>1, <2>1 DEF Forest
  <1>6. \A i \in Task : Leaf(size, i) \in Nat /\ Leaf(size, i) \in 0..(2 * size - 2)
    BY <1>1 DEF Leaf, Task
  <1>7. \A i \in Task : Leaf(size, i) = v => i = d
    BY <1>1 DEF Leaf, Task
  <1>8. v \in Above(v) /\ v # -1 /\ v # 0
    BY <1>1, AboveSelf
  <1>9. Below(size)[v] = <<d>>
    <2>1. v \in 0..(2 * size - 2) /\ size >= 1 /\ v - (size - 1) = d
      BY <1>1 DEF Leaf
    <2> HIDE DEF v
    <2>2. QED BY <1>1, <2>1, BelowGrows
  <1> HIDE DEF v
  <1>10. \A x \in 0..(2 * size - 2) : v \in Above(x) => x = v
    <2>1. d \in 0..(size - 1)
      BY <1>1 DEF Task
    <2>2. QED BY <1>1, <2>1, LeafIsBelowAll DEF v
  <1>11. Forest(new)'
    <2>1. ASSUME NEW k \in Task, new[k] # -1
          PROVE  k < d + 1 /\ results'[k] = Below(size)[new[k]]
      <3>1. CASE k = d
        BY <1>1, <1>3, <1>4, <1>9, <3>1
      <3>2. CASE k # d
        <4>1. k < d /\ results[k] = Below(size)[top[k]]
          BY <1>3, <2>1, <3>2 DEF Forest
        <4>2. k \in Nat
          BY <1>1 DEF Task
        <4>3. QED BY <1>1, <1>3, <1>4, <3>2, <4>1, <4>2
      <3>3. QED BY <3>1, <3>2
    <2>2. ASSUME NEW k \in Task, NEW l \in Task, k # l, new[k] # -1, new[l] # -1
          PROVE  new[k] \notin Above(new[l])
      <3>1. CASE k = d
        <4>1. new[k] = v /\ new[l] = top[l] /\ top[l] # -1
          BY <1>3, <2>2, <3>1
        <4>2. top[l] \in 0..(2 * size - 2) /\ top[l] \in Nat
          <5>1. top[l] \in -1..(2 * size - 2)
            BY <1>3
          <5>2. QED BY <1>1, <4>1, <5>1
        <4>3. top[l] # v
          BY <1>5, <1>8
        <4>4. QED BY <1>10, <4>1, <4>2, <4>3
      <3>2. CASE l = d
        BY <1>3, <1>5, <2>2, <3>2
      <3>3. CASE k # d /\ l # d
        BY <1>3, <2>2, <3>3 DEF Forest
      <3>4. QED BY <3>1, <3>2, <3>3
    <2>3. ASSUME NEW i \in Task
          PROVE  (i < d + 1 /\ i \notin failing) <=> \E k \in Task : new[k] \in Above(Leaf(size, i))
      <3>1. CASE i = d
        <4>1. new[d] \in Above(Leaf(size, i)) /\ i < d + 1
          BY <1>1, <1>3, <1>8, <3>1 DEF v
        <4>2. QED BY <1>1, <3>1, <4>1
      <3>2. CASE i # d
        <4>1. i < d + 1 <=> i < d
          BY <1>1, <3>2 DEF Task
        <4>2. v \notin Above(Leaf(size, i))
          BY <1>6, <1>7, <1>10, <3>2
        <4>3. top[d] \notin Above(Leaf(size, i))
          BY <1>5, <1>6, AboveSelf
        <4>4. (\E k \in Task : new[k] \in Above(Leaf(size, i)))
                <=> (\E k \in Task : top[k] \in Above(Leaf(size, i)))
          BY <1>3, <4>2, <4>3
        <4>5. (i < d /\ i \notin failing) <=> \E k \in Task : top[k] \in Above(Leaf(size, i))
          BY DEF Forest
        <4>6. QED BY <4>1, <4>4, <4>5
      <3>3. QED BY <3>1, <3>2
    <2>4. QED BY <1>2, <1>3, <2>1, <2>2, <2>3 DEF Forest
  <1>12. ASSUME NEW m, NEW w, PublishedAt(top, m, w) PROVE m # d /\ PublishedAt(new, m, w)
    <2>1. m # d
      BY <1>5, <1>12 DEF PublishedAt
    <2>2. QED BY <1>3, <1>12, <2>1 DEF PublishedAt
  <1>13. parent(v) \in 0..(size - 2) /\ pubs[parent(v)] # d
    <2>1. /\ parent(v) \in Nat /\ parent(v) < v /\ (v = 2 * parent(v) + 1 \/ v = 2 * parent(v) + 2)
          /\ Above(v) = {v} \cup Above(parent(v))
      BY <1>1, ParentBelow, AboveStep
    <2>2. parent(v) \in 0..(size - 2)
      BY <1>1, <2>1
    <2>3. ASSUME pubs[parent(v)] = d PROVE FALSE
      <3>1. d # NoTask
        BY <1>1, ReduceAssumption
      <3>2. ~PublishedAt(top, d, parent(v))
        BY <1>5 DEF PublishedAt
      <3>3. QED BY <1>5, <2>1, <2>2, <2>3, <3>1, <3>2 DEF Published
    <2>4. QED BY <2>2, <2>3
  <1>14. ASSUME NEW u \in Thread, u # t
         PROVE  /\ at'[u] = at[u] /\ (Active(u)' <=> Active(u))
                /\ Active(u) => at[u].index \in Task \ {d}
    <2>1. at'[u] = at[u] /\ (Active(u)' <=> Active(u))
      BY <1>4, <1>14 DEF Active
    <2>2. ASSUME Active(u) PROVE at[u].index \in Task \ {d}
      <3>1. at[u].index \in Task /\ top[at[u].index] = at[u].node /\ at[u].node \in 1..(2 * size - 2)
        BY <2>2, AtWork
      <3>2. at[u].node # -1
        BY <1>1, <3>1
      <3>3. QED BY <1>5, <3>1, <3>2
    <2>3. QED BY <2>1, <2>2
  <1>15. Held(new)'
    <2>1. ASSUME NEW u \in Thread, Active(u)'
          PROVE  /\ at'[u].index \in Task /\ at'[u].node # 0 /\ new[at'[u].index] = at'[u].node
                 /\ pubs[parent(at'[u].node)] # at'[u].index
      <3>1. CASE u = t
        BY <1>1, <1>3, <1>4, <1>8, <1>13, <3>1
      <3>2. CASE u # t
        BY <1>3, <1>14, <2>1, <3>2 DEF Held
      <3>3. QED BY <3>1, <3>2
    <2>2. ASSUME NEW u \in Thread, NEW w \in Thread, u # w, Active(u)', Active(w)'
          PROVE  at'[u].index # at'[w].index
      <3>1. CASE u # t /\ w # t
        BY <1>14, <2>2, <3>1 DEF Held
      <3>2. CASE u = t \/ w = t
        BY <1>4, <1>14, <2>2, <3>2
      <3>3. QED BY <3>1, <3>2
    <2>3. QED BY <1>2, <2>1, <2>2 DEF Held, Thread
  <1>16. Published(new)'
    <2>1. ASSUME NEW k \in Task, new[k] \notin {-1, 0}
          PROVE  pubs[parent(new[k])] = k \/ \E u \in Thread : Active(u)' /\ at'[u].index = k
      <3>1. CASE k = d
        <4>1. Active(t)' /\ at'[t].index = k
          BY <1>4, <3>1 DEF Active
        <4>2. QED BY <4>1
      <3>2. CASE k # d /\ pubs[parent(top[k])] = k
        BY <1>3, <3>2
      <3>3. CASE k # d /\ \E u \in Thread : Active(u) /\ at[u].index = k
        <4>1. PICK u \in Thread : Active(u) /\ at[u].index = k
          BY <3>3
        <4>2. u # t
          BY <1>4, <4>1
        <4>3. QED BY <1>14, <4>1, <4>2
      <3>4. QED BY <1>3, <2>1, <3>1, <3>2, <3>3 DEF Published
    <2>2. ASSUME NEW k \in Task, new[k] = 0 PROVE pubs[0] = k
      BY <1>3, <1>8, <2>2 DEF Published
    <2>3. ASSUME NEW u \in Thread, at'[u].step = "reduce"
          PROVE  PublishedAt(new, pubs[parent(at'[u].node)], parent(at'[u].node))
      <3>1. at'[u] = at[u]
        BY <1>4, <2>3
      <3>2. QED BY <1>12, <2>3, <3>1 DEF Published
    <2>4. ASSUME NEW w \in 0..(size - 2), pubs[w] # NoTask
          PROVE  PublishedAt(new, pubs[w], w) \/ \E k \in Task : new[k] \in Above(w)
      <3>1. CASE PublishedAt(top, pubs[w], w)
        BY <1>12, <3>1
      <3>2. CASE \E k \in Task : top[k] \in Above(w)
        <4>1. PICK k \in Task : top[k] \in Above(w)
          BY <3>2
        <4>2. k # d
          <5>1. w \in Nat
            OBVIOUS
          <5>2. QED BY <1>5, <4>1, <5>1, AboveSelf
        <4>3. QED BY <1>3, <4>1, <4>2
      <3>3. QED BY <2>4, <3>1, <3>2 DEF Published
    <2>5. QED BY <1>2, <2>1, <2>2, <2>3, <2>4 DEF Published, Thread
  <1>17. QED BY <1>11, <1>15, <1>16

\* A thread ends, because no task is left or because its task throws.
LEMMA TransformNone ==
  ASSUME ReduceInv, size > 1, NEW t \in Thread, at[t].step = "next", transform(t),
         dispenser >= size \/ dispenser \in failing,
         NEW top, Forest(top), Held(top), Published(top)
  PROVE  /\ Forest(top)' /\ Held(top)' /\ Published(top)'
         /\ dispenser' = dispenser + 1 /\ UNCHANGED <<size, pubs, results, failing, returned>>
         /\ at' = [at EXCEPT ![t] = [step |-> "ended", index |-> NoTask, node |-> 0]]
  <1> DEFINE ended == [step |-> "ended", index |-> NoTask, node |-> 0]
  <1>1. [Idle EXCEPT !.step = "ended"] = ended
    BY DEF Idle
  <1>2. /\ dispenser' = dispenser + 1 /\ UNCHANGED <<size, pubs, results, failing, returned>>
        /\ at' = [at EXCEPT ![t] = ended]
    <2>1. /\ dispenser' = dispenser + 1 /\ UNCHANGED <<size, pubs, failing, returned>>
          /\ at' = [at EXCEPT ![t] = [Idle EXCEPT !.step = "ended"]]
          /\ results' = IF [Idle EXCEPT !.step = "ended"].step = "publish"
                        THEN [results EXCEPT ![dispenser] = <<dispenser>>] ELSE results
      <3>1. CASE dispenser >= size
        BY <3>1, Zenon DEF transform
      <3>2. CASE ~(dispenser >= size) /\ dispenser \in failing
        BY <3>2, Zenon DEF transform
      <3>3. QED BY <3>1, <3>2
    <2>2. ended.step # "publish"
      OBVIOUS
    <2> HIDE DEF ended
    <2>3. results' = results
      BY <1>1, <2>1, <2>2
    <2>4. QED BY <1>1, <2>1, <2>3
  <1>3. Task' = Task /\ Thread' = Thread
    BY <1>2 DEF Task, Thread
  <1>4. /\ ~Active(t) /\ ~Active(t)' /\ at'[t].step # "reduce"
        /\ \A u \in Thread : u # t => at'[u] = at[u]
    BY <1>2 DEF ReduceInv, TypeInv, Active
  <1>5. /\ \A u \in Thread : Active(u)' <=> Active(u)
        /\ \A u \in Thread : Active(u) => at'[u] = at[u]
        /\ \A u \in Thread : at'[u].step = "reduce" => at'[u] = at[u]
    BY <1>4 DEF Active
  <1>6. Forest(top)'
    <2>1. ASSUME NEW i \in Task
          PROVE  /\ i < dispenser => i < dispenser + 1
                 /\ (i < dispenser + 1 /\ i \notin failing) <=> (i < dispenser /\ i \notin failing)
      <3>1. i \in Nat /\ dispenser \in Nat /\ size \in Nat /\ i < size
        BY DEF ReduceInv, TypeInv, Task
      <3>2. QED BY <3>1
    <2>2. QED BY <1>2, <1>3, <2>1 DEF Forest
  <1>7. Held(top)'
    BY <1>2, <1>3, <1>5 DEF Held
  <1>8. Published(top)'
    <2>1. \A k \in Task : top[k] \notin {-1, 0} =>
            pubs[parent(top[k])] = k \/ \E u \in Thread : Active(u)' /\ at'[u].index = k
      BY <1>5 DEF Published
    <2>2. \A u \in Thread : at'[u].step = "reduce" =>
            PublishedAt(top, pubs[parent(at'[u].node)], parent(at'[u].node))
      BY <1>5 DEF Published
    <2>3. QED BY <1>2, <1>3, <2>1, <2>2 DEF Published
  <1>9. QED BY <1>2, <1>6, <1>7, <1>8

-----------------------------------------------------------------------------
(* The end.                                                                *)

\* When all tasks were dispensed, none of them threw and no thread is at work,
\* every node has a result in use above it.
LEMMA AllCovered ==
  ASSUME ReduceInv, size > 1, dispenser >= size, failing = {}, \A t \in Thread : ~Active(t),
         NEW top, Forest(top), Held(top), Published(top),
         NEW v \in 0..(2 * size - 2)
  PROVE  \E k \in Task : top[k] \in Above(v)
  <1> DEFINE N == 0..(2 * size - 2)
             Bad == {x \in N : ~\E k \in Task : top[k] \in Above(x)}
             T == {2 * size - 2 - x : x \in Bad}
  <1> SUFFICES ASSUME v \in Bad PROVE FALSE
    OBVIOUS
  <1>1. size \in Nat /\ dispenser \in Nat
    BY DEF ReduceInv, TypeInv
  <1>2. PICK w \in Bad : \A x \in Bad : w >= x
    <2>1. T \subseteq Nat /\ T # {}
      BY <1>1
    <2>2. PICK t \in T : \A u \in T : t <= u
      <3> HIDE DEF T
      <3> QED BY <2>1, LeastNumber
    <2>3. PICK w \in Bad : t = 2 * size - 2 - w
      OBVIOUS
    <2>4. \A x \in Bad : 2 * size - 2 - w <= 2 * size - 2 - x
      BY <2>2, <2>3
    <2>5. \A x \in Bad : x \in Int
      OBVIOUS
    <2> HIDE DEF Bad
    <2>6. QED BY <1>1, <2>4, <2>5
  <1>3. w \in N /\ w \in Nat /\ ~\E k \in Task : top[k] \in Above(w)
    OBVIOUS
  <1>4. CASE w >= size - 1
    <2> DEFINE i == w - (size - 1)
    <2>1. i \in Task /\ Leaf(size, i) = w /\ i < dispenser
      BY <1>1, <1>3, <1>4 DEF Leaf, Task
    <2> HIDE DEF i
    <2>2. QED BY <1>3, <2>1 DEF Forest
  <1>5. CASE w < size - 1
    <2>1. /\ 2 * w + 1 \in N /\ 2 * w + 2 \in N /\ 2 * w + 1 > w /\ 2 * w + 2 > w
          /\ 2 * w + 1 \in Nat /\ 2 * w + 2 \in Nat /\ 2 * w + 1 # 0 /\ 2 * w + 2 # 0
      BY <1>1, <1>3, <1>5
    <2>2. 2 * w + 1 \notin Bad /\ 2 * w + 2 \notin Bad
      <3> HIDE DEF Bad
      <3>1. QED BY <1>2, <1>3, <2>1
    <2>3. PICK k \in Task : top[k] \in Above(2 * w + 1)
      BY <2>1, <2>2
    <2>4. PICK l \in Task : top[l] \in Above(2 * w + 2)
      BY <2>1, <2>2
    <2>5. Above(2 * w + 1) = {2 * w + 1} \cup Above(w) /\ Above(2 * w + 2) = {2 * w + 2} \cup Above(w)
      BY <1>3, <2>1, AboveStep, Children
    <2>6. top[k] = 2 * w + 1 /\ top[l] = 2 * w + 2
      BY <1>3, <2>3, <2>4, <2>5
    <2>7. top[k] \notin {-1, 0} /\ top[l] \notin {-1, 0}
      BY <2>1, <2>6
    <2>8. pubs[w] = k /\ pubs[w] = l
      BY <1>3, <2>6, <2>7, Children DEF Published
    <2>9. k = l
      BY <2>8
    <2>10. QED BY <1>3, <2>6, <2>9
  <1>6. QED BY <1>1, <1>3, <1>4, <1>5

\* What is at the root when the threads have ended.
LEMMA RootResult ==
  ASSUME ReduceInv, size > 1, \A t \in Thread : at[t].step = "ended", pubs[0] # NoTask,
         NEW top, Forest(top), Held(top), Published(top)
  PROVE  /\ failing = {} => results[pubs[0]] = Below(size)[0]
         /\ \A i, j \in 1..Len(results[pubs[0]]) : i # j => results[pubs[0]][i] # results[pubs[0]][j]
         /\ \A i \in 1..Len(results[pubs[0]]) : results[pubs[0]][i] \notin failing
  <1> DEFINE r == pubs[0]
  <1>1. size \in Nat /\ dispenser \in Nat /\ 0 \in 0..(size - 2) /\ \A t \in Thread : ~Active(t)
    BY DEF ReduceInv, TypeInv, Active
  <1>2. ASSUME NEW k \in Task, top[k] \in Above(0) PROVE r = k /\ top[k] = 0
    <2>1. top[k] = 0
      BY <1>2, AboveSelf
    <2>2. QED BY <2>1 DEF Published
  <1>3. r \in Task /\ top[r] # -1
    <2>1. CASE PublishedAt(top, r, 0)
      BY <2>1 DEF PublishedAt, Forest
    <2>2. CASE \E k \in Task : top[k] \in Above(0)
      BY <1>2, <2>2
    <2>3. QED BY <1>1, <2>1, <2>2 DEF Published
  <1>4. /\ r < dispenser /\ results[r] = Below(size)[top[r]] /\ top[r] \in 0..(2 * size - 2)
    <2>1. r < dispenser /\ results[r] = Below(size)[top[r]] /\ top[r] \in -1..(2 * size - 2)
      BY <1>3 DEF Forest
    <2>2. QED BY <1>1, <1>3, <2>1
  <1>5. TasksBelow(size, top[r], results[r])
    BY <1>1, <1>4, BelowExact
  <1>6. ASSUME NEW i \in 1..Len(results[r]) PROVE results[r][i] \notin failing
    <2>1. results[r][i] \in Task /\ top[r] \in Above(Leaf(size, results[r][i]))
      BY <1>5, ElementOfSeq DEF TasksBelow, Task
    <2>2. QED BY <1>3, <2>1 DEF Forest
  <1>7. ASSUME failing = {} PROVE results[r] = Below(size)[0]
    <2>1. 1 \in Thread /\ 1 <= size
      <3>1. dispenser > 0
        <4>1. r \in Nat
          BY <1>1, <1>3 DEF Task
        <4> HIDE DEF r
        <4>2. QED BY <1>1, <1>4, <4>1
      <3>2. QED BY <1>1, <3>1, ReduceAssumption DEF ReduceInv, EndInv, Thread
    <2>2. dispenser >= size
      BY <1>7, <2>1 DEF ReduceInv, EndInv
    <2>3. 0 \in 0..(2 * size - 2)
      BY <1>1
    <2>4. PICK k \in Task : top[k] \in Above(0)
      BY <1>1, <1>7, <2>2, <2>3, AllCovered
    <2>5. QED BY <1>2, <1>4, <2>4
  <1>8. QED BY <1>5, <1>6, <1>7 DEF TasksBelow

-----------------------------------------------------------------------------
(* The invariant holds.                                                    *)

\* The initial states.
LEMMA ReduceInitial == ReduceInit => ReduceInv
  <1> SUFFICES ASSUME ReduceInit PROVE ReduceInv
    OBVIOUS
  <1>1. size \in Nat /\ dispenser = 0 /\ returned = "pending"
    BY ReduceAssumption DEF ReduceInit
  <1>2. TypeInv
    <2>1. failing \subseteq Task /\ dispenser \in Nat
      BY DEF ReduceInit
    <2>2. results \in [Task -> Seq(Task)]
      BY DEF ReduceInit
    <2>3. pubs \in [0..(size - 2) -> Task \cup {NoTask}]
      BY DEF ReduceInit
    <2>4. at \in [Thread -> [step : {"next", "publish", "reduce", "ended"},
                             index : Task \cup {NoTask}, node : Nat]]
      BY DEF ReduceInit, Idle
    <2>5. QED BY <1>1, <2>1, <2>2, <2>3, <2>4 DEF TypeInv
  <1>3. \A t \in Thread : ~Active(t) /\ at[t].step # "reduce" /\ (at[t].step = "ended" => ~(t <= size))
    BY DEF ReduceInit, Idle, Active
  <1>4. EndInv
    BY <1>1, <1>3 DEF EndInv
  <1>5. ASSUME size > 1 PROVE \E top \in [Task -> -1..(2 * size - 2)] : Forest(top) /\ Held(top) /\ Published(top)
    <2> DEFINE top == [i \in Task |-> -1]
    <2>1. top \in [Task -> -1..(2 * size - 2)] /\ \A i \in Task : top[i] = -1
      BY <1>1, <1>5
    <2>2. \A v \in Nat : -1 \notin Above(v)
      BY AboveSelf
    <2> HIDE DEF top
    <2>3. Forest(top)
      <3>1. \A i \in Task : ~(i < dispenser) /\ Leaf(size, i) \in Nat
        BY <1>1, <1>5 DEF Task, Leaf
      <3>2. QED BY <2>1, <2>2, <3>1 DEF Forest
    <2>4. Held(top)
      BY <1>3 DEF Held
    <2>5. Published(top)
      <3>1. \A v \in 0..(size - 2) : pubs[v] = NoTask
        BY DEF ReduceInit
      <3>2. QED BY <1>3, <2>1, <3>1 DEF Published
    <2>6. QED BY <2>1, <2>3, <2>4, <2>5
  <1>6. ResultDetermined
    BY <1>1 DEF ResultDetermined
  <1>7. QED BY <1>2, <1>4, <1>5, <1>6 DEF ReduceInv

\* Without tasks at work, the caller's own thread carries out the one there is.
LEMMA SequentialStep == ReduceInv /\ sequential => ReduceInv'
  <1> SUFFICES ASSUME ReduceInv, sequential PROVE ReduceInv'
    OBVIOUS
  <1>1. /\ size \in Nat /\ size <= 1 /\ UNCHANGED <<size, pubs, dispenser, at, failing>>
        /\ results' = [i \in Task |-> IF i \in failing THEN <<>> ELSE <<i>>]
        /\ returned' = "result" => failing = {}
    BY DEF sequential, ReduceInv, TypeInv
  <1>2. Task' = Task /\ Thread' = Thread /\ \A t \in Thread : Active(t)' <=> Active(t)
    BY <1>1 DEF Task, Thread, Active
  <1>3. TypeInv'
    <2>1. results' \in [Task -> Seq(Task)]
      BY <1>1
    <2>2. QED BY <1>1, <1>2, <2>1 DEF ReduceInv, TypeInv
  <1>4. EndInv'
    BY <1>1, <1>2 DEF ReduceInv, EndInv
  <1>5. ResultDetermined'
    <2>1. ASSUME size = 0 PROVE Result' = <<>> /\ Leaves' = <<>>
      BY <1>1, <2>1 DEF Result, Leaves
    <2>2. ASSUME size = 1, failing = {} PROVE Result' = <<0>> /\ Leaves' = <<0>>
      <3>1. Result' = <<0>>
        BY <1>1, <2>2 DEF Result, Task
      <3>2. Leaves' = Below(size')[0]
        <4>1. ~(size' = 0)
          BY <1>1, <2>2
        <4>2. QED BY <4>1 DEF Leaves, Below, Grow
      <3>3. Below(size)[0] = <<0>>
        <4>1. 0 \in 0..(2 * size - 2) /\ 0 >= size - 1 /\ 0 - (size - 1) = 0 /\ size >= 1
          BY <2>2
        <4>2. Below(size)[0] = <<0 - (size - 1)>>
          BY <1>1, <4>1, BelowGrows
        <4>3. QED BY <4>1, <4>2
      <3>4. QED BY <1>1, <3>1, <3>2, <3>3
    <2>3. ASSUME returned' = "result"
          PROVE  /\ Result' = Leaves' /\ failing' = {}
                 /\ \A i, j \in 1..Len(Result') : i # j => Result'[i] # Result'[j]
      <3>1. failing = {} /\ failing' = {} /\ (size = 0 \/ size = 1)
        BY <1>1, <2>3
      <3>2. Result' = Leaves' /\ (Result' = <<>> \/ Result' = <<0>>)
        BY <2>1, <2>2, <3>1
      <3>3. QED BY <3>1, <3>2
    <2>4. QED BY <2>3 DEF ResultDetermined
  <1>6. QED BY <1>1, <1>3, <1>4, <1>5 DEF ReduceInv

\* The steps of a thread keep the types and the conditions of the end.
LEMMA ThreadTypes ==
  ASSUME ReduceInv, size > 1, NEW t \in Thread, transform(t) \/ publish(t) \/ reduce(t)
  PROVE  TypeInv' /\ EndInv' /\ ResultDetermined' /\ size' = size
  <1>1. at[t].step # "ended" /\ returned = "pending" /\ size \in Nat /\ dispenser \in Nat
    BY DEF transform, publish, reduce, ReduceInv, TypeInv, EndInv
  <1>2. UNCHANGED <<size, failing, returned>> /\ Task' = Task /\ Thread' = Thread
    BY DEF transform, publish, reduce, Task, Thread
  <1>3. ResultDetermined'
    BY <1>1, <1>2 DEF ResultDetermined
  <1>4. PICK top \in [Task -> -1..(2 * size - 2)] : Forest(top) /\ Held(top) /\ Published(top)
    BY DEF ReduceInv
  <1> DEFINE Where == [step : {"next", "publish", "reduce", "ended"}, index : Task \cup {NoTask}, node : Nat]
  <1>5. \A where \in Where : [at EXCEPT ![t] = where] \in [Thread -> Where]
    BY DEF ReduceInv, TypeInv
  <1>6. Idle \in Where
    BY DEF Idle
  <1>7. CASE at[t].step = "next" /\ transform(t)
    <2>1. CASE dispenser < size /\ dispenser \notin failing
      <3> DEFINE start == [step |-> "publish", index |-> dispenser, node |-> dispenser + size - 1]
      <3>1. ~(dispenser >= size)
        BY <1>1, <2>1
      <3>2. /\ dispenser' = dispenser + 1 /\ pubs' = pubs /\ at' = [at EXCEPT ![t] = start]
            /\ results' = IF start.step = "publish" THEN [results EXCEPT ![dispenser] = <<dispenser>>] ELSE results
        BY <1>7, <2>1, <3>1, Zenon DEF transform
      <3>3. start \in Where /\ dispenser \in Task
        BY <1>1, <2>1 DEF Task
      <3>4. at' \in [Thread -> Where]
        BY <1>5, <3>2, <3>3
      <3>5. results' \in [Task -> Seq(Task)]
        BY <3>2, <3>3 DEF ReduceInv, TypeInv
      <3>6. TypeInv'
        BY <1>1, <1>2, <3>2, <3>4, <3>5 DEF ReduceInv, TypeInv
      <3>7. \A u \in Thread : at'[u].step = "ended" => at[u].step = "ended"
        BY <3>2 DEF ReduceInv, TypeInv
      <3>8. threads >= 1
        BY ReduceAssumption DEF Thread
      <3>9. EndInv'
        BY <1>1, <1>2, <3>2, <3>7, <3>8 DEF ReduceInv, EndInv
      <3>10. QED BY <1>2, <1>3, <3>6, <3>9
    <2>2. CASE dispenser >= size \/ dispenser \in failing
      <3> DEFINE ended == [step |-> "ended", index |-> NoTask, node |-> 0]
      <3>1. dispenser' = dispenser + 1 /\ UNCHANGED <<pubs, results>> /\ at' = [at EXCEPT ![t] = ended]
        BY <1>4, <1>7, <2>2, TransformNone
      <3>2. at' \in [Thread -> Where]
        BY <1>5, <3>1
      <3>3. TypeInv'
        BY <1>1, <1>2, <3>1, <3>2 DEF ReduceInv, TypeInv
      <3>4. \A u \in Thread : u # t /\ at'[u].step = "ended" => at[u].step = "ended"
        BY <3>1 DEF ReduceInv, TypeInv
      <3>5. failing = {} => dispenser >= size
        BY <2>2
      <3>6. threads >= 1
        BY ReduceAssumption DEF Thread
      <3>7. ~(size <= 1) /\ dispenser' >= dispenser
        BY <1>1, <3>1
      <3>8. \A u \in Thread : failing = {} /\ at'[u].step = "ended" /\ u <= size => dispenser' >= size
        BY <1>1, <3>1, <3>4, <3>5 DEF ReduceInv, EndInv
      <3>9. EndInv'
        BY <1>1, <1>2, <3>6, <3>7, <3>8 DEF EndInv
      <3>10. QED BY <1>2, <1>3, <3>3, <3>9
    <2>3. QED BY <1>1, <2>1, <2>2
  <1>8. CASE at[t].step = "publish" /\ publish(t)
    <2>1. Active(t)
      BY <1>8 DEF Active
    <2>2. at[t].index \in Task /\ parent(at[t].node) \in 0..(size - 2)
      BY <1>4, <2>1, AtWork
    <2> DEFINE reducing == [step |-> "reduce", index |-> at[t].index, node |-> at[t].node]
    <2>3. reducing = [at[t] EXCEPT !.step = "reduce"] /\ reducing \in Where
      <3>1. at[t] \in Where
        BY DEF ReduceInv, TypeInv
      <3>2. QED BY <3>1
    <2>4. /\ UNCHANGED <<results, dispenser>>
          /\ \/ pubs' = [pubs EXCEPT ![parent(at[t].node)] = at[t].index] /\ at' = [at EXCEPT ![t] = Idle]
             \/ pubs' = pubs /\ at' = [at EXCEPT ![t] = reducing]
      BY <1>8, <2>3, Zenon DEF publish
    <2>5. at' \in [Thread -> Where] /\ pubs' \in [0..(size - 2) -> Task \cup {NoTask}]
      <3> HIDE DEF reducing
      <3>1. at' \in [Thread -> Where]
        BY <1>5, <1>6, <2>3, <2>4
      <3>2. pubs' \in [0..(size - 2) -> Task \cup {NoTask}]
        BY <2>2, <2>4 DEF ReduceInv, TypeInv
      <3>3. QED BY <3>1, <3>2
    <2>6. TypeInv'
      BY <1>1, <1>2, <2>4, <2>5 DEF ReduceInv, TypeInv
    <2>7. \A u \in Thread : at'[u].step = "ended" => at[u].step = "ended"
      <3>1. reducing.step # "ended" /\ Idle.step # "ended"
        BY DEF Idle
      <3> HIDE DEF reducing
      <3>2. /\ \A u \in Thread : u # t => at'[u] = at[u]
            /\ at'[t] = Idle \/ at'[t] = reducing
        BY <2>4 DEF ReduceInv, TypeInv
      <3>3. QED BY <3>1, <3>2
    <2>8. EndInv'
      BY <1>1, <1>2, <2>4, <2>7 DEF ReduceInv, EndInv
    <2>9. QED BY <1>2, <1>3, <2>6, <2>8
  <1>9. CASE at[t].step = "reduce" /\ reduce(t)
    <2> DEFINE i == at[t].index
               p == parent(at[t].node)
               up == [step |-> "publish", index |-> i, node |-> p]
    <2>1. /\ i \in Task /\ pubs[p] \in Task /\ p \in 0..(size - 2)
          /\ ordered(at[t].node, results[i], results[pubs[p]]) = Below(size)[p]
      BY <1>4, <1>9, TwoSiblings
    <2>2. /\ results' = [results EXCEPT ![i] = Below(size)[p], ![pubs[p]] = <<>>]
          /\ pubs' = [pubs EXCEPT ![p] = i] /\ dispenser' = dispenser
          /\ at' = [at EXCEPT ![t] = IF p = 0 THEN Idle ELSE up]
      BY <1>9, <2>1, Zenon DEF reduce
    <2>3. Below(size)[p] \in Seq(Task) /\ <<>> \in Seq(Task)
      <3>1. TasksBelow(size, p, Below(size)[p])
        <4>1. p \in 0..(2 * size - 2) /\ size >= 1
          <5> HIDE DEF p
          <5> QED BY <1>1, <2>1
        <4>2. QED BY <1>1, <4>1, BelowExact
      <3>2. QED BY <3>1 DEF TasksBelow, Task
    <2>4. up \in Where
      BY <2>1
    <2> HIDE DEF i, p, up
    <2>5. at' \in [Thread -> Where]
      BY <1>5, <1>6, <2>2, <2>4
    <2>6. pubs' \in [0..(size - 2) -> Task \cup {NoTask}]
      BY <2>1, <2>2 DEF ReduceInv, TypeInv
    <2>7. results' \in [Task -> Seq(Task)]
      BY <2>1, <2>2, <2>3 DEF ReduceInv, TypeInv
    <2>8. TypeInv'
      BY <1>1, <1>2, <2>2, <2>5, <2>6, <2>7 DEF ReduceInv, TypeInv
    <2>9. \A u \in Thread : at'[u].step = "ended" => at[u].step = "ended"
      BY <2>2 DEF ReduceInv, TypeInv, Idle, up
    <2>10. EndInv'
      BY <1>1, <1>2, <2>2, <2>9 DEF ReduceInv, EndInv
    <2>11. QED BY <1>2, <1>3, <2>8, <2>10
  <1>10. QED BY <1>7, <1>8, <1>9 DEF transform, publish, reduce

\* The steps of a thread keep the forest.
LEMMA ThreadForest ==
  ASSUME ReduceInv, size > 1, NEW t \in Thread, transform(t) \/ publish(t) \/ reduce(t)
  PROVE  \E new \in [Task' -> -1..(2 * size' - 2)] : Forest(new)' /\ Held(new)' /\ Published(new)'
  <1>1. PICK top \in [Task -> -1..(2 * size - 2)] : Forest(top) /\ Held(top) /\ Published(top)
    BY DEF ReduceInv
  <1>2. \A new : Forest(new)' => new \in [Task' -> -1..(2 * size' - 2)]
    BY DEF Forest
  <1>3. CASE at[t].step = "next" /\ transform(t)
    <2>1. CASE dispenser < size /\ dispenser \notin failing
      BY <1>1, <1>2, <1>3, <2>1, TransformOne
    <2>2. CASE dispenser >= size \/ dispenser \in failing
      BY <1>1, <1>2, <1>3, <2>2, TransformNone
    <2>3. size \in Nat /\ dispenser \in Nat
      BY DEF ReduceInv, TypeInv
    <2>4. QED BY <2>1, <2>2, <2>3
  <1>4. CASE at[t].step = "publish" /\ publish(t)
    <2>1. CASE pubs[parent(at[t].node)] = NoTask
      BY <1>1, <1>2, <1>4, <2>1, PublishFirst
    <2>2. CASE pubs[parent(at[t].node)] # NoTask
      BY <1>1, <1>2, <1>4, <2>2, PublishSecond
    <2>3. QED BY <2>1, <2>2
  <1>5. CASE at[t].step = "reduce" /\ reduce(t)
    <2>1. PICK v, p, i, j : v = at[t].node /\ p = parent(v) /\ i = at[t].index /\ j = pubs[p]
      OBVIOUS
    <2> DEFINE new == [top EXCEPT ![i] = p, ![j] = -1]
    <2>2. Forest(new)'
      BY <1>1, <1>5, <2>1, ReduceForest
    <2>3. Held(new)' /\ Published(new)'
      BY <1>1, <1>5, <2>1, ReduceSlots
    <2> HIDE DEF new
    <2>4. QED BY <1>2, <2>2, <2>3
  <1>6. QED BY <1>3, <1>4, <1>5 DEF transform, publish, reduce

\* The caller takes what is at the root.
LEMMA CollectStep == ReduceInv /\ collect => ReduceInv'
  <1> SUFFICES ASSUME ReduceInv, collect PROVE ReduceInv'
    OBVIOUS
  <1>1. /\ size > 1 /\ size \in Nat /\ UNCHANGED <<size, results, pubs, dispenser, at, failing>>
        /\ \A t \in Thread : at[t].step = "ended"
        /\ returned' = "result" => pubs[0] # NoTask
    BY DEF collect, ReduceInv, TypeInv
  <1>2. Task' = Task /\ Thread' = Thread /\ \A t \in Thread : Active(t)' <=> Active(t)
    BY <1>1 DEF Task, Thread, Active
  <1>3. TypeInv'
    BY <1>1, <1>2 DEF ReduceInv, TypeInv
  <1>4. EndInv'
    BY <1>1, <1>2 DEF ReduceInv, EndInv
  <1>5. PICK top \in [Task -> -1..(2 * size - 2)] : Forest(top) /\ Held(top) /\ Published(top)
    BY <1>1 DEF ReduceInv
  <1>6. Forest(top)' /\ Held(top)' /\ Published(top)'
    BY <1>1, <1>2, <1>5 DEF Forest, Held, Published
  <1>7. ResultDetermined'
    <2> SUFFICES ASSUME returned' = "result" PROVE ResultDetermined'
      BY DEF ResultDetermined
    <2>1. Result' = results[pubs[0]]
      BY <1>1 DEF Result
    <2>2. Leaves' = Below(size')[0]
      BY <1>1 DEF Leaves, Below, Grow
    <2>3. /\ failing = {} => results[pubs[0]] = Below(size)[0]
          /\ \A i, j \in 1..Len(results[pubs[0]]) : i # j => results[pubs[0]][i] # results[pubs[0]][j]
          /\ \A i \in 1..Len(results[pubs[0]]) : results[pubs[0]][i] \notin failing
      BY <1>1, <1>5, RootResult
    <2>4. QED BY <1>1, <2>1, <2>2, <2>3 DEF ResultDetermined
  <1>8. QED BY <1>1, <1>2, <1>3, <1>4, <1>5, <1>6, <1>7 DEF ReduceInv

\* No step leaves the invariant.
LEMMA ReduceInductive == ReduceInv /\ [ReduceNext]_reduceVars => ReduceInv'
  <1> SUFFICES ASSUME ReduceInv, [ReduceNext]_reduceVars PROVE ReduceInv'
    OBVIOUS
  <1>1. CASE sequential
    BY <1>1, SequentialStep
  <1>2. ASSUME NEW t \in Thread, transform(t) \/ publish(t) \/ reduce(t) PROVE ReduceInv'
    <2>1. size > 1
      BY <1>2 DEF transform, publish, reduce, ReduceInv, TypeInv, EndInv, Active
    <2>2. TypeInv' /\ EndInv' /\ ResultDetermined'
      BY <1>2, <2>1, ThreadTypes
    <2>3. \E new \in [Task' -> -1..(2 * size' - 2)] : Forest(new)' /\ Held(new)' /\ Published(new)'
      BY <1>2, <2>1, ThreadForest
    <2>4. QED BY <2>2, <2>3 DEF ReduceInv
  <1>3. CASE collect
    BY <1>3, CollectStep
  <1>4. CASE UNCHANGED reduceVars
    <2>1. UNCHANGED <<size, results, pubs, dispenser, at, failing, returned>>
      BY <1>4 DEF reduceVars
    <2>2. Task' = Task /\ Thread' = Thread /\ \A t \in Thread : Active(t)' <=> Active(t)
      BY <2>1 DEF Task, Thread, Active
    <2>3. TypeInv' /\ EndInv'
      BY <2>1, <2>2 DEF ReduceInv, TypeInv, EndInv
    <2>4. \A top : Forest(top) /\ Held(top) /\ Published(top) => Forest(top)' /\ Held(top)' /\ Published(top)'
      BY <2>1, <2>2 DEF Forest, Held, Published
    <2>5. ResultDetermined'
      <3>1. Result' = Result
        BY <2>1 DEF Result
      <3>2. Leaves' = Leaves
        BY <2>1 DEF Leaves
      <3>3. QED BY <2>1, <3>1, <3>2 DEF ReduceInv, ResultDetermined
    <2>6. QED BY <2>1, <2>2, <2>3, <2>4, <2>5 DEF ReduceInv
  <1>5. QED BY <1>1, <1>2, <1>3, <1>4 DEF ReduceNext

\* However many threads there are and in whatever order they take the tasks and
\* meet in the tree, the result of tasks that do not throw is the same, and a
\* result never has a task twice or a task that threw (transform_reduce).
THEOREM ReductionIsDetermined == ReduceSpec => []ReductionCorrect
  <1>1. ReduceInv => ReductionCorrect
    BY DEF ReduceInv, TypeInv, ReductionCorrect, ReduceTypeOK
  <1>2. QED BY ReduceInitial, ReduceInductive, <1>1, PTL DEF ReduceSpec

-----------------------------------------------------------------------------
(* A secondhalf: module Secondhalf.                                        *)
(*                                                                         *)
(* The inductive invariant.  d is the gadget of each row, tab the table.   *)

RowData == [r \in AllRows |-> DataAt(r)]
RowsIn(d, n) == {r \in DOMAIN d : SliceOf(HashOf[d[r]]) = n}
GadgetsIn(d, n) == {d[r] : r \in RowsIn(d, n)}

\* Everything from hash on and below place is taken.
Taken(tab, hash, place) == \A h \in hash..(place - 1) : h \in DOMAIN tab

\* The table and its index: each gadget once, where probing finds it, and each
\* id once.
Intact(tab, idh) ==
  /\ DOMAIN tab \subseteq Nat /\ IsFiniteSet(DOMAIN tab)
  /\ tab \in [DOMAIN tab -> [data : Gadget, id : Nat \ {0}]]
  /\ \A h \in DOMAIN tab : HashOf[tab[h].data] <= h /\ Taken(tab, HashOf[tab[h].data], h)
  /\ \A g, h \in DOMAIN tab : tab[g].data = tab[h].data => g = h
  /\ idh \in Seq(Nat)
  /\ \A h \in DOMAIN tab : tab[h].id \in 1..Len(idh) /\ idh[tab[h].id] = h
  /\ \A id \in 1..Len(idh) : idh[id] \in DOMAIN tab /\ tab[idh[id]].id = id

\* The ids that are known are those of the gadgets in the rows.
Known(d, tab, glob) ==
  /\ glob \in [DOMAIN d -> Nat]
  /\ \A r \in DOMAIN d :
       glob[r] # Unassigned => \E h \in DOMAIN tab : tab[h] = [data |-> d[r], id |-> glob[r]]

\* The gadgets of slice n, one row of each, and what is copied to the others.
Prepared(d, glob, first, pairs, n) ==
  /\ DOMAIN first = GadgetsIn(d, n)
  /\ \A g \in DOMAIN first : first[g] \in RowsIn(d, n) /\ d[first[g]] = g
  /\ pairs = {<<r, first[d[r]]>> : r \in {q \in RowsIn(d, n) : first[d[q]] # q}}
  /\ \A r \in RowsIn(d, n) : first[d[r]] # r => glob[r] = Unassigned

\* Gadgets that were looked for and are not at the places they were probed past.
Survivors(tab, glob, first, gadgets) ==
  /\ IsFiniteSet(gadgets)
  /\ \A x \in gadgets :
       /\ x \in [data : DOMAIN first, hash : Nat]
       /\ HashOf[x.data] <= x.hash
       /\ \A h \in HashOf[x.data]..(x.hash - 1) : h \in DOMAIN tab /\ tab[h].data # x.data
       /\ glob[first[x.data]] = Unassigned
  /\ \A x, y \in gadgets : x.data = y.data => x = y

\* Unless a lookup failed, a gadget has its id, or goes to the writer, or waits.
Covered(glob, fail, first, gadgets, waiting) ==
  fail = 0 => \A g \in DOMAIN first :
                glob[first[g]] # Unassigned \/ g \in waiting \/ \E x \in gadgets : x.data = g

\* What the writer is given.
Commitable(d, tab, glob, fail, t) ==
  /\ Prepared(d, glob, t.proposed, t.stores, t.slice)
  /\ Survivors(tab, glob, t.proposed, t.gadgets)
  /\ Covered(glob, fail, t.proposed, t.gadgets, {})

\* The readers of the main thread's slice, with ranges that have no gadget in common.
Waiting(ranges) == UNION {ToSet(range) : range \in ranges}
Lookups(d, tab, glob, fail, first, pairs, n, ranges, gadgets) ==
  /\ Prepared(d, glob, first, pairs, n)
  /\ Survivors(tab, glob, first, gadgets)
  /\ Covered(glob, fail, first, gadgets, Waiting(ranges))
  /\ ranges \subseteq Seq(DOMAIN first)
  /\ \A g \in Waiting(ranges) : glob[first[g]] = Unassigned /\ \A x \in gadgets : x.data # g
  /\ \A a, b \in ranges : a # b => ToSet(a) \cap ToSet(b) = {}

\* The rows of the slices to come have no id yet.
Untouched(d, glob, where, n) ==
  \A r \in DOMAIN d :
    SliceOf(HashOf[d[r]]) > n \/ (SliceOf(HashOf[d[r]]) = n /\ where # "lookup") => glob[r] = Unassigned

\* The slices in flight, the youngest with the main thread.
InFlight(d, tab, glob, fail, where, n, queue, active, t) ==
  /\ n \in Nat
  /\ Untouched(d, glob, where, n)
  /\ \/ queue = <<>> \/ queue = <<nullopt>>
     \/ /\ queue = <<queue[1]>>
        /\ queue[1].slice \in Nat /\ queue[1].slice < n /\ Commitable(d, tab, glob, fail, queue[1])
  /\ active = "commit" =>
       /\ t.slice \in Nat /\ t.slice < n /\ Commitable(d, tab, glob, fail, t)
       /\ queue # <<>> /\ queue # <<nullopt>> => t.slice < queue[1].slice

HalfInv ==
  /\ files \in Seq(Firsthalf) /\ remaining \in 0..Len(files)
  /\ failures \in Nat /\ outcome \in {"running", "terminated", "threw", "answered"}
  /\ Intact(hashtable, idhash)
  /\ Known(RowData, hashtable, globals)
  /\ InFlight(RowData, hashtable, globals, failures, main, slice, commitables, writer, task)
  /\ outcome = "running" /\ main = "lookup" =>
       Lookups(RowData, hashtable, globals, failures, proposed, stores, slice, tasks, UNION kept)
  /\ EdgesLeadToOutputs

-----------------------------------------------------------------------------
(* Probing.                                                                *)

\* A lookup ends at the first place that is free or holds the gadget.
LEMMA LookupFinds ==
  ASSUME DOMAIN hashtable \subseteq Nat, IsFiniteSet(DOMAIN hashtable), NEW g \in Gadget
  PROVE  /\ Lookup(g) \in Nat /\ HashOf[g] <= Lookup(g) /\ HashOf[g] \in Nat
         /\ Lookup(g) \notin DOMAIN hashtable \/ Holds(Lookup(g), g)
         /\ \A h \in HashOf[g]..(Lookup(g) - 1) : h \in DOMAIN hashtable /\ ~Holds(h, g)
  <1> DEFINE c == Cardinality(DOMAIN hashtable)
             W == {h \in HashOf[g]..(HashOf[g] + c) : h \notin DOMAIN hashtable \/ Holds(h, g)}
  <1>1. c \in Nat /\ HashOf[g] \in Nat
    BY FS_CardinalityType, SecondhalfAssumption
  <1>2. \E h \in HashOf[g]..(HashOf[g] + c) : h \notin DOMAIN hashtable
    BY <1>1, FreeNumber
  <1>3. Lookup(g) = Min(W)
    BY DEF Lookup
  <1> HIDE DEF c
  <1>4. W \subseteq Nat /\ W # {}
    BY <1>1, <1>2
  <1>5. Lookup(g) \in W /\ \A h \in W : Lookup(g) <= h
    BY <1>3, <1>4, MinExists
  <1>6. ASSUME NEW h \in HashOf[g]..(Lookup(g) - 1)
        PROVE  h \in DOMAIN hashtable /\ ~Holds(h, g)
    <2>1. h \in Int /\ HashOf[g] <= h /\ Lookup(g) \in Int /\ h < Lookup(g)
          /\ Lookup(g) <= HashOf[g] + c
      BY <1>1, <1>5
    <2>2. h \in HashOf[g]..(HashOf[g] + c)
      BY <1>1, <2>1
    <2>3. h \notin W
      BY <1>5, <2>1
    <2>4. QED BY <2>2, <2>3
  <1>7. QED BY <1>1, <1>5, <1>6

\* The place for a gadget that is not there: everything before it is taken.
LEMMA FreePlaceFinds ==
  ASSUME DOMAIN hashtable \subseteq Nat, IsFiniteSet(DOMAIN hashtable), NEW g \in Gadget
  PROVE  /\ FreePlace(g) \in Nat /\ HashOf[g] <= FreePlace(g) /\ HashOf[g] \in Nat
         /\ FreePlace(g) \notin DOMAIN hashtable
         /\ Taken(hashtable, HashOf[g], FreePlace(g))
  <1> DEFINE c == Cardinality(DOMAIN hashtable)
             W == {h \in HashOf[g]..(HashOf[g] + c) : h \notin DOMAIN hashtable}
  <1>1. c \in Nat /\ HashOf[g] \in Nat
    BY FS_CardinalityType, SecondhalfAssumption
  <1>2. \E h \in HashOf[g]..(HashOf[g] + c) : h \notin DOMAIN hashtable
    BY <1>1, FreeNumber
  <1>3. FreePlace(g) = Min(W)
    BY DEF FreePlace
  <1> HIDE DEF c
  <1>4. W \subseteq Nat /\ W # {}
    BY <1>1, <1>2
  <1>5. FreePlace(g) \in W /\ \A h \in W : FreePlace(g) <= h
    BY <1>3, <1>4, MinExists
  <1>6. ASSUME NEW h \in HashOf[g]..(FreePlace(g) - 1)
        PROVE  h \in DOMAIN hashtable
    <2>1. h \in Int /\ HashOf[g] <= h /\ FreePlace(g) \in Int /\ h < FreePlace(g)
          /\ FreePlace(g) <= HashOf[g] + c
      BY <1>1, <1>5
    <2>2. h \in HashOf[g]..(HashOf[g] + c)
      BY <1>1, <2>1
    <2>3. h \notin W
      BY <1>5, <2>1
    <2>4. QED BY <2>2, <2>3
  <1>7. QED BY <1>1, <1>5, <1>6 DEF Taken

\* A gadget that was probed past some places and whose place is free is not stored.
LEMMA NotStored ==
  ASSUME NEW tab, NEW idh, Intact(tab, idh), NEW g, NEW place \in Nat, HashOf[g] \in Nat,
         HashOf[g] <= place, place \notin DOMAIN tab,
         \A h \in HashOf[g]..(place - 1) : h \in DOMAIN tab /\ tab[h].data # g
  PROVE  \A h \in DOMAIN tab : tab[h].data # g
  <1> SUFFICES ASSUME NEW h \in DOMAIN tab, tab[h].data = g PROVE FALSE
    OBVIOUS
  <1>1. h \in Nat /\ HashOf[g] <= h /\ \A k \in HashOf[g]..(h - 1) : k \in DOMAIN tab
    BY DEF Intact, Taken
  <1>2. CASE h < place
    BY <1>1, <1>2
  <1>3. CASE h = place
    BY <1>3
  <1>4. CASE place < h
    BY <1>1, <1>4
  <1>5. QED BY <1>1, <1>2, <1>3, <1>4

\* Entries at new places, of gadgets that are new, with the next ids.
Extends(tab, new) == \A h \in DOMAIN tab : h \in DOMAIN new /\ new[h] = tab[h]

LEMMA TableGrows ==
  ASSUME NEW tab, NEW idh, Intact(tab, idh), NEW new, NEW ids, NEW P,
         P \subseteq Nat, IsFiniteSet(P), P \cap DOMAIN tab = {},
         DOMAIN new = DOMAIN tab \cup P, new \in [DOMAIN new -> [data : Gadget, id : Nat \ {0}]],
         Extends(tab, new),
         \A h \in P : /\ HashOf[new[h].data] <= h /\ Taken(tab, HashOf[new[h].data], h)
                      /\ \A k \in DOMAIN tab : tab[k].data # new[h].data,
         \A g, h \in P : new[g].data = new[h].data => g = h,
         ids \in Seq(Nat), Len(idh) <= Len(ids), \A id \in 1..Len(idh) : ids[id] = idh[id],
         \A h \in P : new[h].id \in (Len(idh) + 1)..Len(ids) /\ ids[new[h].id] = h,
         \A id \in (Len(idh) + 1)..Len(ids) : ids[id] \in P /\ new[ids[id]].id = id
  PROVE  Intact(new, ids)
  <1>1. Len(idh) \in Nat /\ Len(ids) \in Nat
    BY LenProperties DEF Intact
  <1>2. DOMAIN new \subseteq Nat /\ IsFiniteSet(DOMAIN new)
    <2>1. DOMAIN tab \subseteq Nat /\ IsFiniteSet(DOMAIN tab)
      BY DEF Intact
    <2>2. IsFiniteSet(DOMAIN tab \cup P)
      BY <2>1, FS_Union
    <2>3. QED BY <2>1, <2>2
  <1>3. \A h \in DOMAIN new : HashOf[new[h].data] <= h /\ Taken(new, HashOf[new[h].data], h)
    <2> SUFFICES ASSUME NEW h \in DOMAIN new
                 PROVE  HashOf[new[h].data] <= h /\ Taken(new, HashOf[new[h].data], h)
      OBVIOUS
    <2>1. HashOf[new[h].data] <= h /\ Taken(tab, HashOf[new[h].data], h)
      BY DEF Extends, Intact
    <2>2. QED BY <2>1 DEF Taken
  <1>4. \A g, h \in DOMAIN new : new[g].data = new[h].data => g = h
    <2> SUFFICES ASSUME NEW g \in DOMAIN new, NEW h \in DOMAIN new, new[g].data = new[h].data
                 PROVE  g = h
      OBVIOUS
    <2>1. \A k \in DOMAIN tab : new[k] = tab[k]
      BY DEF Extends
    <2>2. CASE g \in DOMAIN tab /\ h \in DOMAIN tab
      BY <2>1, <2>2 DEF Intact
    <2>3. CASE g \in P /\ h \in P
      BY <2>3
    <2>4. CASE g \in P /\ h \in DOMAIN tab
      BY <2>1, <2>4
    <2>5. CASE g \in DOMAIN tab /\ h \in P
      BY <2>1, <2>5
    <2>6. QED BY <2>2, <2>3, <2>4, <2>5
  <1>5. \A h \in DOMAIN new : new[h].id \in 1..Len(ids) /\ ids[new[h].id] = h
    <2> SUFFICES ASSUME NEW h \in DOMAIN new
                 PROVE  new[h].id \in 1..Len(ids) /\ ids[new[h].id] = h
      OBVIOUS
    <2>1. CASE h \in DOMAIN tab
      <3>1. new[h].id \in 1..Len(idh) /\ idh[new[h].id] = h
        BY <2>1 DEF Extends, Intact
      <3>2. QED BY <1>1, <3>1
    <2>2. CASE h \in P
      BY <1>1, <2>2
    <2>3. QED BY <2>1, <2>2
  <1>6. \A id \in 1..Len(ids) : ids[id] \in DOMAIN new /\ new[ids[id]].id = id
    <2> SUFFICES ASSUME NEW id \in 1..Len(ids)
                 PROVE  ids[id] \in DOMAIN new /\ new[ids[id]].id = id
      OBVIOUS
    <2>1. CASE id \in 1..Len(idh)
      <3>1. idh[id] \in DOMAIN tab /\ tab[idh[id]].id = id /\ ids[id] = idh[id]
        BY <2>1 DEF Intact
      <3>2. QED BY <3>1 DEF Extends
    <2>2. CASE id \notin 1..Len(idh)
      BY <1>1, <2>2
    <2>3. QED BY <2>1, <2>2
  <1>7. QED BY <1>2, <1>3, <1>4, <1>5, <1>6 DEF Intact

-----------------------------------------------------------------------------
(* What stays true of the rows and the slices while the table grows.       *)

\* What the rows of the files are.
LEMMA RowsOfData ==
  ASSUME files \in Seq(Firsthalf)
  PROVE  /\ RowData \in [AllRows -> Gadget]
         /\ \A r \in AllRows : RowData[r] = DataAt(r)
         /\ \A n : Rows(n) = RowsIn(RowData, n) /\ {DataAt(r) : r \in Rows(n)} = GadgetsIn(RowData, n)
  <1>1. \A r \in AllRows : DataAt(r) \in Gadget
    <2> SUFFICES ASSUME NEW r \in AllRows PROVE DataAt(r) \in Gadget
      OBVIOUS
    <2>1. PICK f \in 1..Len(files) : r \in {<<f, i>> : i \in 1..Len(files[f].rows)}
      BY DEF AllRows
    <2>2. PICK i \in 1..Len(files[f].rows) : r = <<f, i>>
      BY <2>1
    <2>3. files[f] \in Firsthalf
      BY ElementOfSeq
    <2>4. files[f].rows \in Seq(Gadget)
      BY <2>3 DEF Firsthalf
    <2>5. QED BY <2>2, <2>4, ElementOfSeq DEF DataAt
  <1>2. RowData \in [AllRows -> Gadget] /\ \A r \in AllRows : RowData[r] = DataAt(r)
    BY <1>1 DEF RowData
  <1> SUFFICES ASSUME NEW n
               PROVE  Rows(n) = RowsIn(RowData, n) /\ {DataAt(r) : r \in Rows(n)} = GadgetsIn(RowData, n)
    BY <1>2
  <1>3. Rows(n) = RowsIn(RowData, n)
    BY <1>2 DEF Rows, RowsIn
  <1>4. \A r \in RowsIn(RowData, n) : RowData[r] = DataAt(r)
    BY <1>2 DEF RowsIn
  <1>5. QED BY <1>3, <1>4 DEF GadgetsIn

\* There are finitely many rows.
LEMMA RowsFinite ==
  ASSUME files \in Seq(Firsthalf), NEW n
  PROVE  IsFiniteSet(GadgetsIn(RowData, n))
  <1> DEFINE RowsOf(f) == {<<f, i>> : i \in 1..Len(files[f].rows)}
             F == {RowsOf(f) : f \in 1..Len(files)}
  <1>1. Len(files) \in Nat /\ \A f \in 1..Len(files) : Len(files[f].rows) \in Nat
    <2>1. \A f \in 1..Len(files) : files[f] \in Firsthalf
      BY ElementOfSeq
    <2>2. \A f \in 1..Len(files) : files[f].rows \in Seq(Gadget)
      BY <2>1 DEF Firsthalf
    <2>3. QED BY <2>2, LenProperties
  <1>2. \A f \in 1..Len(files) : IsFiniteSet(RowsOf(f))
    <2> SUFFICES ASSUME NEW f \in 1..Len(files) PROVE IsFiniteSet(RowsOf(f))
      OBVIOUS
    <2> DEFINE D == 1..Len(files[f].rows)
               pair == [i \in D |-> <<f, i>>]
    <2>1. IsFiniteSet(D)
      <3> DEFINE len == Len(files[f].rows)
      <3>1. len \in Nat
        BY <1>1
      <3> HIDE DEF len
      <3>2. IsFiniteSet(1..len)
        BY <3>1, FS_Interval
      <3>3. QED BY <3>2 DEF len
    <2>2. pair \in Surjection(D, RowsOf(f))
      BY DEF Surjection
    <2> HIDE DEF D, pair, RowsOf
    <2>3. QED BY <2>1, <2>2, FS_Surjection
  <1>3. IsFiniteSet(F)
    <2> DEFINE D == 1..Len(files)
               part == [f \in D |-> RowsOf(f)]
    <2>1. IsFiniteSet(D)
      BY <1>1, FS_Interval
    <2>2. part \in Surjection(D, F)
      <3> HIDE DEF RowsOf
      <3> QED BY DEF Surjection
    <2> HIDE DEF D, part, F
    <2>3. QED BY <2>1, <2>2, FS_Surjection
  <1>4. IsFiniteSet(UNION F)
    <2>1. \A x \in F : IsFiniteSet(x)
      <3> HIDE DEF RowsOf
      <3> QED BY <1>2
    <2> HIDE DEF F
    <2>2. QED BY <1>3, <2>1, FS_UNION
  <1>5. IsFiniteSet(RowsIn(RowData, n))
    <2>1. RowsIn(RowData, n) \subseteq AllRows
      BY RowsOfData DEF RowsIn
    <2>2. UNION F = AllRows
      BY DEF AllRows
    <2> HIDE DEF F
    <2>3. QED BY <1>4, <2>1, <2>2, FS_Subset
  <1>6. QED
    <2> DEFINE R == RowsIn(RowData, n)
               read == [r \in R |-> RowData[r]]
    <2>1. read \in Surjection(R, GadgetsIn(RowData, n))
      BY DEF Surjection, GadgetsIn
    <2> HIDE DEF R, read
    <2>2. IsFiniteSet(R)
      BY <1>5 DEF R
    <2>3. QED BY <2>1, <2>2, FS_Surjection

\* Known ids stay right when the table grows.
LEMMA KnownGrows ==
  ASSUME NEW d, NEW tab, NEW glob, Known(d, tab, glob), NEW new, Extends(tab, new)
  PROVE  Known(d, new, glob)
  <1> SUFFICES ASSUME NEW r \in DOMAIN d, glob[r] # Unassigned
               PROVE  \E h \in DOMAIN new : new[h] = [data |-> d[r], id |-> glob[r]]
    BY DEF Known
  <1>1. PICK h \in DOMAIN tab : tab[h] = [data |-> d[r], id |-> glob[r]]
    BY DEF Known
  <1>2. QED BY <1>1 DEF Extends

\* A slice is still prepared when the ids of its rows are the same.
LEMMA PreparedKept ==
  ASSUME NEW d, NEW glob, NEW first, NEW pairs, NEW n, Prepared(d, glob, first, pairs, n),
         NEW ids, \A r \in RowsIn(d, n) : ids[r] = glob[r]
  PROVE  Prepared(d, ids, first, pairs, n)
  BY DEF Prepared

\* Survivors are still missing in a table that has grown elsewhere.
LEMMA SurvivorsKept ==
  ASSUME NEW tab, NEW glob, NEW first, NEW gadgets, Survivors(tab, glob, first, gadgets),
         NEW new, Extends(tab, new), NEW ids, \A x \in gadgets : ids[first[x.data]] = glob[first[x.data]]
  PROVE  Survivors(new, ids, first, gadgets)
  BY DEF Survivors, Extends

\* The places in globals of a slice's gadgets are rows of the slice.
LEMMA FirstRows ==
  ASSUME NEW d, NEW glob, NEW first, NEW pairs, NEW n, Prepared(d, glob, first, pairs, n),
         NEW tab, NEW gadgets, Survivors(tab, glob, first, gadgets)
  PROVE  \A x \in gadgets : x.data \in DOMAIN first /\ first[x.data] \in RowsIn(d, n)
  <1>1. \A x \in gadgets : x.data \in DOMAIN first
    BY DEF Survivors
  <1>2. QED BY <1>1 DEF Prepared

\* What the writer is given stays right when the table grows, and with new ids
\* in the rows of other slices.
LEMMA CommitableKept ==
  ASSUME NEW d, NEW tab, NEW glob, NEW fail, NEW t, Commitable(d, tab, glob, fail, t),
         NEW new, Extends(tab, new), NEW ids, \A r \in RowsIn(d, t.slice) : ids[r] = glob[r],
         NEW more, more = 0 => fail = 0
  PROVE  Commitable(d, new, ids, more, t)
  <1>1. Prepared(d, glob, t.proposed, t.stores, t.slice) /\ Survivors(tab, glob, t.proposed, t.gadgets)
        /\ Covered(glob, fail, t.proposed, t.gadgets, {})
    BY DEF Commitable
  <1>2. Prepared(d, ids, t.proposed, t.stores, t.slice)
    BY <1>1, PreparedKept
  <1>3. Survivors(new, ids, t.proposed, t.gadgets)
    <2>1. \A x \in t.gadgets : ids[t.proposed[x.data]] = glob[t.proposed[x.data]]
      BY <1>1, FirstRows
    <2>2. QED BY <1>1, <2>1, SurvivorsKept
  <1>4. Covered(ids, more, t.proposed, t.gadgets, {})
    <2>1. \A g \in DOMAIN t.proposed : ids[t.proposed[g]] = glob[t.proposed[g]]
      BY <1>1 DEF Prepared
    <2>2. QED BY <1>1, <2>1 DEF Covered
  <1>5. QED BY <1>2, <1>3, <1>4 DEF Commitable

\* The same of the slice that the readers are at.
LEMMA LookupsKept ==
  ASSUME NEW d, NEW tab, NEW glob, NEW fail, NEW first, NEW pairs, NEW n, NEW ranges, NEW gadgets,
         Lookups(d, tab, glob, fail, first, pairs, n, ranges, gadgets),
         NEW new, Extends(tab, new), NEW ids, \A r \in RowsIn(d, n) : ids[r] = glob[r],
         NEW more, more = 0 => fail = 0
  PROVE  Lookups(d, new, ids, more, first, pairs, n, ranges, gadgets)
  <1>1. Prepared(d, glob, first, pairs, n) /\ Survivors(tab, glob, first, gadgets)
        /\ Covered(glob, fail, first, gadgets, Waiting(ranges)) /\ ranges \subseteq Seq(DOMAIN first)
    BY DEF Lookups
  <1>2. Prepared(d, ids, first, pairs, n)
    BY <1>1, PreparedKept
  <1>3. Survivors(new, ids, first, gadgets)
    <2>1. \A x \in gadgets : ids[first[x.data]] = glob[first[x.data]]
      BY <1>1, FirstRows
    <2>2. QED BY <1>1, <2>1, SurvivorsKept
  <1>4. \A g \in DOMAIN first : ids[first[g]] = glob[first[g]]
    BY <1>1 DEF Prepared
  <1>5. Covered(ids, more, first, gadgets, Waiting(ranges))
    BY <1>1, <1>4 DEF Covered
  <1>6. Waiting(ranges) \subseteq DOMAIN first
    <2> SUFFICES ASSUME NEW range \in ranges, NEW g \in ToSet(range) PROVE g \in DOMAIN first
      BY DEF Waiting
    <2>1. range \in Seq(DOMAIN first)
      BY <1>1
    <2>2. QED BY <2>1 DEF ToSet
  <1>7. \A g \in Waiting(ranges) : ids[first[g]] = Unassigned /\ \A x \in gadgets : x.data # g
    BY <1>4, <1>6 DEF Lookups
  <1>8. \A a, b \in ranges : a # b => ToSet(a) \cap ToSet(b) = {}
    BY DEF Lookups
  <1>9. QED BY <1>1, <1>2, <1>3, <1>5, <1>7, <1>8 DEF Lookups

-----------------------------------------------------------------------------
(* Dividing a list into ranges.                                            *)

\* The largest multiple that is not above a number, and the distance of two multiples.
LEMMA Multiples ==
  ASSUME NEW b \in Nat \ {0}
  PROVE  /\ \A a \in Nat : \E m \in Nat : m % b = 0 /\ m <= a /\ a < m + b
         /\ \A x, y \in Nat : x % b = 0 /\ y % b = 0 /\ x < y => x + b <= y
  <1>1. \A a \in Nat : a \div b \in Nat /\ a % b \in 0..(b - 1) /\ a = b * (a \div b) + (a % b)
    OBVIOUS
  <1>2. \A q \in Nat : b * q \in Nat /\ (b * q) % b = 0
    OBVIOUS
  <1>3. ASSUME NEW a \in Nat PROVE \E m \in Nat : m % b = 0 /\ m <= a /\ a < m + b
    <2> DEFINE m == b * (a \div b)
    <2>1. m \in Nat /\ m % b = 0
      BY <1>1, <1>2
    <2>2. a % b \in 0..(b - 1) /\ a = m + (a % b)
      BY <1>1
    <2> HIDE DEF m
    <2>3. m <= a /\ a < m + b
      BY <2>1, <2>2
    <2>4. QED BY <2>1, <2>3
  <1>4. ASSUME NEW x \in Nat, NEW y \in Nat, x % b = 0, y % b = 0, x < y PROVE x + b <= y
    <2>1. PICK q \in Nat : x = b * q
      <3>1. x = b * (x \div b) + (x % b) /\ x \div b \in Nat
        BY <1>1
      <3>2. QED BY <1>4, <3>1
    <2>2. PICK p \in Nat : y = b * p
      <3>1. y = b * (y \div b) + (y % b) /\ y \div b \in Nat
        BY <1>1
      <3>2. QED BY <1>4, <3>1
    <2>3. b * q < b * p => b * q + b <= b * p
      OBVIOUS
    <2>4. QED BY <1>4, <2>1, <2>2, <2>3
  <1>5. QED BY <1>3, <1>4

\* What is in a part of a list.
LEMMA PartOfList ==
  ASSUME NEW S, NEW s \in Seq(S), NEW a \in 1..Len(s), NEW b \in 1..Len(s), a <= b
  PROVE  SubSeq(s, a, b) \in Seq(S) /\ ToSet(SubSeq(s, a, b)) = {s[k] : k \in a..b}
  <1>1. Len(s) \in Nat /\ a \in Nat /\ b \in Nat
    BY LenProperties
  <1>2. SubSeq(s, a, b) \in Seq(S) /\ Len(SubSeq(s, a, b)) = b - a + 1
        /\ \A i \in 1..(b - a + 1) : SubSeq(s, a, b)[i] = s[a + i - 1]
    BY <1>1, SubSeqProperties
  <1>3. DOMAIN SubSeq(s, a, b) = 1..(b - a + 1)
    BY <1>2
  <1>4. ToSet(SubSeq(s, a, b)) \subseteq {s[k] : k \in a..b}
    <2> SUFFICES ASSUME NEW i \in 1..(b - a + 1) PROVE s[a + i - 1] \in {s[k] : k \in a..b}
      BY <1>2, <1>3 DEF ToSet
    <2>1. a + i - 1 \in a..b
      BY <1>1
    <2>2. QED BY <2>1
  <1>5. ASSUME NEW k \in a..b PROVE s[k] \in ToSet(SubSeq(s, a, b))
    <2>1. k - a + 1 \in 1..(b - a + 1) /\ a + (k - a + 1) - 1 = k
      BY <1>1
    <2>2. SubSeq(s, a, b)[k - a + 1] = s[k]
      BY <1>2, <2>1
    <2>3. QED BY <1>3, <2>1, <2>2 DEF ToSet
  <1>6. QED BY <1>2, <1>4, <1>5

\* The ranges have every gadget of the list, each in one range.
LEMMA RangesPartition ==
  ASSUME NEW S, IsFiniteSet(S), NEW s \in SetToSeqs(S)
  PROVE  /\ Ranges(s) \subseteq Seq(S) /\ Waiting(Ranges(s)) = S
         /\ \A a, b \in Ranges(s) : a # b => ToSet(a) \cap ToSet(b) = {}
  <1> DEFINE N == Len(s)
             L == task_size(N)
             Start == {j \in 1..N : (j - 1) % L = 0}
             EndOf(i) == Min({i + L - 1, N})
             Part(i) == SubSeq(s, i, EndOf(i))
  <1>1. s \in Seq(S) /\ N \in Nat /\ (\A i, j \in 1..N : s[i] = s[j] => i = j)
        /\ \A x \in S : \E i \in 1..N : s[i] = x
    BY ListOfSet
  <1>2. Ranges(s) = {Part(i) : i \in Start}
    BY DEF Ranges
  <1>3. N # 0 => L \in Nat \ {0}
    <2>1. Readers \in Nat \ {0}
      BY SecondhalfAssumption
    <2>2. \A n \in Nat \ {0} : (n + (Readers - 1)) \div Readers \in Nat \ {0}
      BY <2>1
    <2>3. QED BY <1>1, <2>2 DEF task_size
  <1> HIDE DEF N, L
  <1>4. ASSUME NEW i \in Start
        PROVE  /\ EndOf(i) = (IF i + L - 1 <= N THEN i + L - 1 ELSE N)
               /\ EndOf(i) \in 1..N /\ i <= EndOf(i)
    <2>1. i \in 1..N /\ L \in Nat \ {0}
      BY <1>1, <1>3
    <2>2. i + L - 1 \in Int /\ N \in Int
      BY <1>1, <2>1
    <2>3. EndOf(i) = (IF i + L - 1 <= N THEN i + L - 1 ELSE N)
      BY <2>2, MinOfTwo
    <2> HIDE DEF EndOf
    <2>4. QED BY <1>1, <2>1, <2>3
  <1> HIDE DEF EndOf
  <1>5. ASSUME NEW i \in Start
        PROVE  Part(i) \in Seq(S) /\ ToSet(Part(i)) = {s[k] : k \in i..EndOf(i)}
    <2>1. i \in 1..Len(s) /\ EndOf(i) \in 1..Len(s) /\ i <= EndOf(i)
      BY <1>4 DEF N
    <2>2. QED BY <1>1, <2>1, PartOfList
  <1> HIDE DEF Part
  <1>6. Ranges(s) \subseteq Seq(S)
    BY <1>2, <1>5
  <1>7. ASSUME NEW k \in 1..N
        PROVE  \E i \in Start : k \in i..EndOf(i)
    <2>1. L \in Nat \ {0} /\ k - 1 \in Nat
      BY <1>1, <1>3
    <2>2. PICK m \in Nat : m % L = 0 /\ m <= k - 1 /\ k - 1 < m + L
      BY <2>1, Multiples
    <2>3. m + 1 \in 1..N /\ (m + 1) - 1 = m
      BY <1>1, <2>2
    <2>4. m + 1 \in Start
      BY <2>2, <2>3
    <2>5. k \in (m + 1)..EndOf(m + 1)
      BY <1>1, <1>4, <2>1, <2>2, <2>4
    <2>6. QED BY <2>4, <2>5
  <1>8. \A i \in Start : \A k \in i..EndOf(i) : k \in 1..N
    BY <1>1, <1>4
  <1>9. Waiting(Ranges(s)) = S
    <2>1. ASSUME NEW x \in S PROVE x \in Waiting(Ranges(s))
      <3>1. PICK k \in 1..N : s[k] = x
        BY <1>1
      <3>2. PICK i \in Start : k \in i..EndOf(i)
        BY <1>7
      <3>3. x \in ToSet(Part(i)) /\ Part(i) \in Ranges(s)
        BY <1>2, <1>5, <3>1, <3>2
      <3>4. QED BY <3>3 DEF Waiting
    <2>2. ASSUME NEW range \in Ranges(s), NEW x \in ToSet(range) PROVE x \in S
      <3>1. range \in Seq(S)
        BY <1>6
      <3>2. QED BY <2>2, <3>1 DEF ToSet
    <2>3. QED BY <2>1, <2>2 DEF Waiting
  <1>10. ASSUME NEW i \in Start, NEW j \in Start, i < j
         PROVE  EndOf(i) < j
    <2>1. L \in Nat \ {0} /\ i - 1 \in Nat /\ j - 1 \in Nat
      BY <1>1, <1>3
    <2>2. i - 1 < j - 1 /\ (i - 1) % L = 0 /\ (j - 1) % L = 0
      BY <1>1, <1>10
    <2>3. (i - 1) + L <= j - 1
      BY <2>1, <2>2, Multiples
    <2>4. QED BY <1>1, <1>4, <2>1, <2>3
  <1>11. ASSUME NEW i \in Start, NEW j \in Start, NEW x \in ToSet(Part(i)), x \in ToSet(Part(j))
         PROVE  i = j
    <2>1. PICK k \in i..EndOf(i) : x = s[k]
      BY <1>5
    <2>2. PICK l \in j..EndOf(j) : x = s[l]
      BY <1>5, <1>11
    <2>3. k = l
      BY <1>1, <1>8, <2>1, <2>2
    <2>4. EndOf(i) \in Int /\ EndOf(j) \in Int /\ i \in Int /\ j \in Int
      BY <1>1, <1>4
    <2>5. ~(i < j) /\ ~(j < i)
      BY <1>10, <2>3, <2>4
    <2>6. QED BY <2>4, <2>5
  <1>12. \A a, b \in Ranges(s) : a # b => ToSet(a) \cap ToSet(b) = {}
    <2> SUFFICES ASSUME NEW i \in Start, NEW j \in Start, NEW x \in ToSet(Part(i)), x \in ToSet(Part(j))
                 PROVE  Part(i) = Part(j)
      BY <1>2
    <2>1. QED BY <1>11
  <1>13. QED BY <1>6, <1>9, <1>12

-----------------------------------------------------------------------------
(* The initial states, and the steps of the main thread and its readers.   *)

\* The invariant holds initially.
LEMMA InitHasInv == HalfInit => HalfInv
  <1> SUFFICES ASSUME HalfInit PROVE HalfInv
    OBVIOUS
  <1> USE DEF HalfInit
  <1>1. files \in Seq(Firsthalf) /\ Len(files) \in Nat
    BY SecondhalfAssumption, LenProperties
  <1>2. PICK s \in Present :
          /\ idhash \in Placements(s)
          /\ hashtable = [h \in ToSet(idhash) |->
                            LET id == CHOOSE n \in 1..Len(s) : idhash[n] = h IN [data |-> s[id], id |-> id]]
    OBVIOUS
  <1> DEFINE N == Len(s)
  <1>3. s \in Seq(Gadget) /\ N \in Nat /\ \A i, j \in 1..N : s[i] = s[j] => i = j
    BY SecondhalfAssumption, LenProperties
  <1>4. \A n \in 1..N : s[n] \in Gadget /\ HashOf[s[n]] \in Nat
    BY <1>3, SecondhalfAssumption, ElementOfSeq
  <1>5. DOMAIN idhash = 1..N /\ \A n \in 1..N : idhash[n] \in Nat
    <2>1. idhash \in [1..N -> UNION {HashOf[s[n]]..(HashOf[s[n]] + N) : n \in 1..N}]
      BY <1>2 DEF Placements
    <2>2. \A n \in 1..N : HashOf[s[n]]..(HashOf[s[n]] + N) \subseteq Nat
      BY <1>3, <1>4
    <2>3. UNION {HashOf[s[n]]..(HashOf[s[n]] + N) : n \in 1..N} \subseteq Nat
      BY <2>2
    <2> HIDE DEF N
    <2>4. QED BY <2>1, <2>3
  <1>6. \A n \in 1..N :
          /\ HashOf[s[n]] <= idhash[n] /\ \A m \in 1..(n - 1) : idhash[m] # idhash[n]
          /\ \A h \in HashOf[s[n]]..(idhash[n] - 1) : \E m \in 1..(n - 1) : idhash[m] = h
    BY <1>2 DEF Placements
  <1>7. \A i, j \in 1..N : idhash[i] = idhash[j] => i = j
    <2> SUFFICES ASSUME NEW i \in 1..N, NEW j \in 1..N, idhash[i] = idhash[j] PROVE i = j
      OBVIOUS
    <2>1. ~(i < j) /\ ~(j < i)
      BY <1>3, <1>6
    <2>2. QED BY <1>3, <2>1
  <1>8. DOMAIN hashtable = ToSet(idhash) /\ ToSet(idhash) = {idhash[n] : n \in 1..N}
    BY <1>2, <1>5 DEF ToSet
  <1>9. \A n \in 1..N : hashtable[idhash[n]] = [data |-> s[n], id |-> n]
    <2> SUFFICES ASSUME NEW n \in 1..N PROVE hashtable[idhash[n]] = [data |-> s[n], id |-> n]
      OBVIOUS
    <2>1. (CHOOSE i \in 1..N : idhash[i] = idhash[n]) = n
      BY <1>7
    <2>2. idhash[n] \in ToSet(idhash)
      BY <1>8
    <2>3. QED BY <1>2, <2>1, <2>2
  <1>10. idhash \in Seq(Nat) /\ Len(idhash) = N
    <2> HIDE DEF N, HalfInit
    <2>1. idhash \in [1..N -> Nat]
      <3>1. idhash = [n \in 1..N |-> idhash[n]]
        <4>1. idhash \in [1..N -> UNION {HashOf[s[n]]..(HashOf[s[n]] + N) : n \in 1..N}]
          BY <1>2 DEF Placements, N
        <4>2. QED BY <4>1
      <3>2. QED BY <1>5, <3>1
    <2>2. QED BY <1>3, <2>1
  <1> HIDE DEF N, HalfInit
  <1> DEFINE Entry(h, n) == n \in 1..N /\ h = idhash[n] /\ hashtable[h] = [data |-> s[n], id |-> n]
  <1>11. ASSUME NEW h \in DOMAIN hashtable PROVE \E n \in 1..N : Entry(h, n)
    <2>1. PICK n \in 1..N : h = idhash[n]
      BY <1>8
    <2>2. QED BY <1>9, <2>1
  <1>12. Intact(hashtable, idhash)
    <2>1. DOMAIN hashtable \subseteq Nat
      BY <1>5, <1>8
    <2>2. IsFiniteSet(DOMAIN hashtable)
      <3> DEFINE D == 1..N
                 place == [n \in D |-> idhash[n]]
      <3>1. IsFiniteSet(D)
        BY <1>3, FS_Interval
      <3>2. place \in Surjection(D, DOMAIN hashtable)
        BY <1>8 DEF Surjection
      <3> HIDE DEF D, place
      <3>3. QED BY <3>1, <3>2, FS_Surjection
    <2>3. hashtable \in [DOMAIN hashtable -> [data : Gadget, id : Nat \ {0}]]
      <3>1. \A h \in DOMAIN hashtable : hashtable[h] \in [data : Gadget, id : Nat \ {0}]
        <4> SUFFICES ASSUME NEW h \in DOMAIN hashtable PROVE hashtable[h] \in [data : Gadget, id : Nat \ {0}]
          OBVIOUS
        <4>1. PICK n \in 1..N : Entry(h, n)
          BY <1>11
        <4>2. QED BY <1>3, <1>4, <4>1
      <3>2. hashtable = [h \in DOMAIN hashtable |-> hashtable[h]]
        BY <1>2
      <3>3. QED BY <3>1, <3>2
    <2>4. \A h \in DOMAIN hashtable :
            HashOf[hashtable[h].data] <= h /\ Taken(hashtable, HashOf[hashtable[h].data], h)
      <3> SUFFICES ASSUME NEW g \in DOMAIN hashtable
                   PROVE  HashOf[hashtable[g].data] <= g /\ Taken(hashtable, HashOf[hashtable[g].data], g)
        OBVIOUS
      <3>1. PICK n \in 1..N : Entry(g, n)
        BY <1>11
      <3>2. HashOf[s[n]] <= idhash[n]
        BY <1>6
      <3>3. ASSUME NEW h \in HashOf[s[n]]..(idhash[n] - 1) PROVE h \in DOMAIN hashtable
        <4>1. PICK m \in 1..(n - 1) : idhash[m] = h
          BY <1>6
        <4>2. m \in 1..N
          BY <1>3, <4>1
        <4>3. QED BY <1>8, <4>1, <4>2
      <3>4. hashtable[g].data = s[n] /\ g = idhash[n]
        BY <3>1
      <3>5. QED BY <3>2, <3>3, <3>4 DEF Taken
    <2>5. \A g, h \in DOMAIN hashtable : hashtable[g].data = hashtable[h].data => g = h
      <3> SUFFICES ASSUME NEW g \in DOMAIN hashtable, NEW h \in DOMAIN hashtable,
                          hashtable[g].data = hashtable[h].data
                   PROVE  g = h
        OBVIOUS
      <3>1. PICK m \in 1..N : Entry(g, m)
        BY <1>11
      <3>2. PICK n \in 1..N : Entry(h, n)
        BY <1>11
      <3>3. QED BY <1>3, <3>1, <3>2
    <2>6. \A h \in DOMAIN hashtable : hashtable[h].id \in 1..Len(idhash) /\ idhash[hashtable[h].id] = h
      <3> SUFFICES ASSUME NEW h \in DOMAIN hashtable
                   PROVE  hashtable[h].id \in 1..Len(idhash) /\ idhash[hashtable[h].id] = h
        OBVIOUS
      <3>1. PICK n \in 1..N : Entry(h, n)
        BY <1>11
      <3>2. QED BY <1>10, <3>1
    <2>7. \A id \in 1..Len(idhash) : idhash[id] \in DOMAIN hashtable /\ hashtable[idhash[id]].id = id
      <3> SUFFICES ASSUME NEW id \in 1..N PROVE idhash[id] \in DOMAIN hashtable /\ hashtable[idhash[id]].id = id
        BY <1>10
      <3>1. idhash[id] \in DOMAIN hashtable
        BY <1>8
      <3>2. hashtable[idhash[id]] = [data |-> s[id], id |-> id]
        BY <1>9
      <3>3. QED BY <3>1, <3>2
    <2>8. QED BY <1>10, <2>1, <2>2, <2>3, <2>4, <2>5, <2>6, <2>7 DEF Intact
  <1>13. DOMAIN RowData = AllRows
    BY <1>1, RowsOfData
  <1>14. globals = [r \in AllRows |-> Unassigned] /\ Unassigned \in Nat
    BY DEF HalfInit, Unassigned
  <1>15. Known(RowData, hashtable, globals)
    BY <1>13, <1>14 DEF Known
  <1>16. InFlight(RowData, hashtable, globals, failures, main, slice, commitables, writer, task)
    BY <1>13, <1>14 DEF InFlight, Untouched, HalfInit
  <1>17. EdgesLeadToOutputs
    BY DEF EdgesLeadToOutputs, HalfInit
  <1>18. QED
    BY <1>1, <1>12, <1>15, <1>16, <1>17 DEF HalfInv, HalfInit

\* Edges stay right, and rows the same, while files and edges stay and the table grows.
LEMMA SameRows ==
  ASSUME HalfInv, UNCHANGED <<files, remaining, edges>>, Extends(hashtable, hashtable')
  PROVE  /\ AllRows' = AllRows /\ RowData' = RowData
         /\ files' \in Seq(Firsthalf) /\ remaining' \in 0..Len(files')
         /\ EdgesLeadToOutputs'
  <1>1. AllRows' = AllRows
    BY DEF AllRows
  <1>2. RowData' = RowData
    BY <1>1 DEF RowData, DataAt
  <1>3. EdgesLeadToOutputs'
    <2> SUFFICES ASSUME NEW e \in edges
                 PROVE  \E f \in (remaining + 1)..Len(files) : \E p \in files[f].provs :
                          \E h \in DOMAIN hashtable' :
                            e.input = p.input1 /\ hashtable'[h] = [data |-> files[f].rows[p.output1], id |-> e.output]
      BY DEF EdgesLeadToOutputs
    <2>1. PICK f \in (remaining + 1)..Len(files) : \E p \in files[f].provs : \E h \in DOMAIN hashtable :
            e.input = p.input1 /\ hashtable[h] = [data |-> files[f].rows[p.output1], id |-> e.output]
      BY DEF HalfInv, EdgesLeadToOutputs
    <2>2. PICK p \in files[f].provs : \E h \in DOMAIN hashtable :
            e.input = p.input1 /\ hashtable[h] = [data |-> files[f].rows[p.output1], id |-> e.output]
      BY <2>1
    <2>3. PICK h \in DOMAIN hashtable :
            e.input = p.input1 /\ hashtable[h] = [data |-> files[f].rows[p.output1], id |-> e.output]
      BY <2>2
    <2>4. h \in DOMAIN hashtable' /\ hashtable'[h] = hashtable[h]
      BY DEF Extends
    <2>5. QED BY <2>3, <2>4
  <1>4. QED BY <1>1, <1>2, <1>3 DEF HalfInv

\* The slices in flight stay right when the table grows, or the readers find ids.
LEMMA InFlightKept ==
  ASSUME NEW d, NEW tab, NEW glob, NEW fail, NEW where, NEW n, NEW queue, NEW active, NEW t,
         InFlight(d, tab, glob, fail, where, n, queue, active, t),
         NEW new, Extends(tab, new), NEW ids, NEW more, more = 0 => fail = 0,
         \/ ids = glob
         \/ where = "lookup" /\ \A r \in DOMAIN d : SliceOf(HashOf[d[r]]) # n => ids[r] = glob[r],
         \A r \in DOMAIN d : SliceOf(HashOf[d[r]]) \in Int
  PROVE  InFlight(d, new, ids, more, where, n, queue, active, t)
  <1>1. n \in Nat
    BY DEF InFlight
  <1>2. Untouched(d, ids, where, n)
    <2> SUFFICES ASSUME NEW r \in DOMAIN d,
                        SliceOf(HashOf[d[r]]) > n \/ (SliceOf(HashOf[d[r]]) = n /\ where # "lookup")
                 PROVE  ids[r] = Unassigned
      BY DEF Untouched
    <2>1. glob[r] = Unassigned
      BY DEF InFlight, Untouched
    <2>2. CASE ids = glob
      BY <2>1, <2>2
    <2>3. CASE where = "lookup" /\ \A q \in DOMAIN d : SliceOf(HashOf[d[q]]) # n => ids[q] = glob[q]
      <3>1. SliceOf(HashOf[d[r]]) # n
        BY <1>1, <2>3
      <3>2. QED BY <2>1, <2>3, <3>1
    <2>4. QED BY <2>2, <2>3
  <1>3. ASSUME NEW x, x.slice \in Nat, x.slice < n, Commitable(d, tab, glob, fail, x)
        PROVE  Commitable(d, new, ids, more, x)
    <2>1. \A r \in RowsIn(d, x.slice) : ids[r] = glob[r]
      BY <1>1, <1>3 DEF RowsIn
    <2>2. QED BY <1>3, <2>1, CommitableKept
  <1>4. QED BY <1>1, <1>2, <1>3 DEF InFlight

\* The slices of the rows.
LEMMA SlicesOfRows ==
  ASSUME HalfInv
  PROVE  /\ DOMAIN RowData = AllRows
         /\ \A r \in AllRows : RowData[r] \in Gadget /\ SliceOf(HashOf[RowData[r]]) \in Nat
  <1>1. files \in Seq(Firsthalf)
    BY DEF HalfInv
  <1>2. RowData \in [AllRows -> Gadget]
    BY <1>1, RowsOfData
  <1>3. \A h \in Nat : h \div Divisor \in Nat
    BY SecondhalfAssumption
  <1>4. \A g \in Gadget : HashOf[g] \in Nat
    BY SecondhalfAssumption
  <1>5. QED BY <1>2, <1>3, <1>4 DEF SliceOf

\* prepare keeps the invariant.
LEMMA PrepareStep ==
  ASSUME HalfInv, prepare
  PROVE  HalfInv'
  <1>1. /\ main = "prepare" /\ outcome = "running" /\ main' = "lookup" /\ kept' = {}
        /\ UNCHANGED <<hashtable, idhash, edges, files, remaining, globals, slice, commitables, writer, task,
                       outcome, failures>>
    BY DEF prepare, database
  <1>2. Extends(hashtable, hashtable')
    BY <1>1 DEF Extends
  <1>3. AllRows' = AllRows /\ RowData' = RowData /\ files' \in Seq(Firsthalf) /\ remaining' \in 0..Len(files')
        /\ EdgesLeadToOutputs'
    BY <1>1, <1>2, SameRows
  <1> DEFINE data == {DataAt(r) : r \in Rows(slice)}
  <1>4. files \in Seq(Firsthalf)
    BY DEF HalfInv
  <1>5. Rows(slice) = RowsIn(RowData, slice) /\ data = GadgetsIn(RowData, slice)
        /\ RowsIn(RowData, slice) \subseteq AllRows /\ \A r \in AllRows : RowData[r] = DataAt(r)
    BY <1>4, RowsOfData DEF RowsIn
  <1>6. IsFiniteSet(data)
    BY <1>4, <1>5, RowsFinite
  <1>7. PICK sorted \in SetToSeqs(data) : tasks' = Ranges(sorted)
    BY DEF prepare
  <1>8. PICK first \in [data -> Rows(slice)] :
          /\ \A g \in data : DataAt(first[g]) = g
          /\ proposed' = first
          /\ stores' = {<<r, first[DataAt(r)]>> : r \in {q \in Rows(slice) : first[DataAt(q)] # q}}
    BY DEF prepare
  <1>9. tasks' \subseteq Seq(data) /\ Waiting(tasks') = data
        /\ \A a, b \in tasks' : a # b => ToSet(a) \cap ToSet(b) = {}
    <2> HIDE DEF data
    <2> QED BY <1>6, <1>7, RangesPartition
  <1> HIDE DEF data
  <1>10. \A r \in RowsIn(RowData, slice) : globals[r] = Unassigned
    <2>1. Untouched(RowData, globals, main, slice)
      BY DEF HalfInv, InFlight
    <2>2. QED BY <1>1, <2>1 DEF Untouched, RowsIn
  <1>11. \A g \in data : first[g] \in RowsIn(RowData, slice) /\ RowData[first[g]] = g
    BY <1>5, <1>8
  <1>12. Prepared(RowData, globals, first, stores', slice)
    <2>1. stores' = {<<r, first[RowData[r]]>> : r \in {q \in RowsIn(RowData, slice) : first[RowData[q]] # q}}
      <3>1. \A r \in RowsIn(RowData, slice) : RowData[r] = DataAt(r)
        BY <1>5
      <3>2. stores' = {<<r, first[DataAt(r)]>> : r \in {q \in RowsIn(RowData, slice) : first[DataAt(q)] # q}}
        BY <1>5, <1>8
      <3>3. QED BY <3>1, <3>2
    <2>2. QED BY <1>5, <1>10, <1>11, <2>1 DEF Prepared
  <1>13. UNION kept' = {}
    BY <1>1
  <1>14. Survivors(hashtable, globals, first, {})
    BY FS_EmptySet DEF Survivors
  <1>15. Covered(globals, failures, first, {}, Waiting(tasks'))
    BY <1>9 DEF Covered
  <1>16. Lookups(RowData, hashtable, globals, failures, first, stores', slice, tasks', {})
    BY <1>9, <1>10, <1>11, <1>12, <1>14, <1>15 DEF Lookups
  <1>17. Lookups(RowData', hashtable', globals', failures', proposed', stores', slice', tasks', UNION kept')
    BY <1>1, <1>3, <1>8, <1>13, <1>16
  <1>18. InFlight(RowData, hashtable, globals, failures, "lookup", slice, commitables, writer, task)
    <2>1. InFlight(RowData, hashtable, globals, failures, "prepare", slice, commitables, writer, task)
      BY <1>1 DEF HalfInv
    <2>2. Untouched(RowData, globals, "lookup", slice)
      BY <2>1 DEF InFlight, Untouched
    <2>3. QED BY <2>1, <2>2 DEF InFlight
  <1>19. InFlight(RowData', hashtable', globals', failures', main', slice', commitables', writer', task')
    BY <1>1, <1>3, <1>18
  <1>20. Known(RowData', hashtable', globals') /\ Intact(hashtable', idhash')
    BY <1>1, <1>3 DEF HalfInv
  <1>21. failures' \in Nat /\ outcome' \in {"running", "terminated", "threw", "answered"}
    BY <1>1 DEF HalfInv
  <1>22. QED
    BY <1>3, <1>17, <1>19, <1>20, <1>21 DEF HalfInv

\* What the readers' slice is while they run.
LEMMA ReadersSlice ==
  ASSUME HalfInv, main = "lookup", outcome = "running"
  PROVE  /\ Prepared(RowData, globals, proposed, stores, slice)
         /\ Survivors(hashtable, globals, proposed, UNION kept)
         /\ Covered(globals, failures, proposed, UNION kept, Waiting(tasks))
         /\ tasks \subseteq Seq(DOMAIN proposed)
         /\ \A g \in Waiting(tasks) : globals[proposed[g]] = Unassigned /\ \A x \in UNION kept : x.data # g
         /\ \A a, b \in tasks : a # b => ToSet(a) \cap ToSet(b) = {}
         /\ DOMAIN proposed \subseteq Gadget
         /\ \A g \in DOMAIN proposed : /\ proposed[g] \in AllRows /\ proposed[g] \in RowsIn(RowData, slice)
                                       /\ RowData[proposed[g]] = g /\ DataAt(proposed[g]) = g
  <1>1. Lookups(RowData, hashtable, globals, failures, proposed, stores, slice, tasks, UNION kept)
    BY DEF HalfInv
  <1>2. Prepared(RowData, globals, proposed, stores, slice)
    BY <1>1 DEF Lookups
  <1>3. files \in Seq(Firsthalf)
    BY DEF HalfInv
  <1>4. RowData \in [AllRows -> Gadget] /\ \A r \in AllRows : RowData[r] = DataAt(r)
    BY <1>3, RowsOfData
  <1>5. \A g \in DOMAIN proposed : proposed[g] \in RowsIn(RowData, slice) /\ RowData[proposed[g]] = g
    BY <1>2 DEF Prepared
  <1>6. RowsIn(RowData, slice) \subseteq AllRows
    BY <1>4 DEF RowsIn
  <1>7. \A g \in DOMAIN proposed : proposed[g] \in AllRows /\ DataAt(proposed[g]) = g /\ g \in Gadget
    BY <1>4, <1>5, <1>6
  <1>8. QED BY <1>1, <1>2, <1>5, <1>7 DEF Lookups

\* The ids after some gadgets of a range were looked for: those that were found are
\* right, and nothing else changes.
LEMMA FoundIds ==
  ASSUME HalfInv, main = "lookup", outcome = "running",
         NEW part, part \in Seq(DOMAIN proposed)
  PROVE  /\ Known(RowData, hashtable, Found(part))
         /\ \A r \in AllRows : (\A g \in ToSet(part) : proposed[g] # r) => Found(part)[r] = globals[r]
         /\ \A g \in ToSet(part) : Holds(Lookup(g), g) => Found(part)[proposed[g]] # Unassigned
         /\ \A g \in ToSet(part) : ~Holds(Lookup(g), g) => Found(part)[proposed[g]] = globals[proposed[g]]
  <1>1. /\ DOMAIN proposed \subseteq Gadget
        /\ \A g \in DOMAIN proposed : proposed[g] \in AllRows /\ DataAt(proposed[g]) = g
    BY ReadersSlice
  <1>2. ToSet(part) \subseteq DOMAIN proposed
    BY DEF ToSet
  <1>3. DOMAIN RowData = AllRows /\ \A r \in AllRows : RowData[r] = DataAt(r)
    BY RowsOfData DEF HalfInv
  <1>4. Known(RowData, hashtable, globals) /\ Intact(hashtable, idhash)
    BY DEF HalfInv
  <1>5. globals \in [AllRows -> Nat]
    BY <1>3, <1>4 DEF Known
  <1> DEFINE hit(r) == DataAt(r) \in ToSet(part) /\ proposed[DataAt(r)] = r /\ Holds(Lookup(DataAt(r)), DataAt(r))
  <1>6. \A r \in AllRows : hit(r) => Found(part)[r] = hashtable[Lookup(DataAt(r))].id
    BY DEF Found
  <1>7. \A r \in AllRows : ~hit(r) => Found(part)[r] = globals[r]
    BY DEF Found
  <1>8. ASSUME NEW r \in AllRows, hit(r)
        PROVE  /\ hashtable[Lookup(DataAt(r))] = [data |-> DataAt(r), id |-> Found(part)[r]]
               /\ Lookup(DataAt(r)) \in DOMAIN hashtable /\ Found(part)[r] \in Nat \ {0}
    <2>1. Lookup(DataAt(r)) \in DOMAIN hashtable /\ hashtable[Lookup(DataAt(r))].data = DataAt(r)
      BY <1>8 DEF Holds
    <2>2. hashtable[Lookup(DataAt(r))] \in [data : Gadget, id : Nat \ {0}]
      BY <1>4, <2>1 DEF Intact
    <2>3. Found(part)[r] = hashtable[Lookup(DataAt(r))].id
      BY <1>6, <1>8
    <2>4. QED BY <2>1, <2>2, <2>3
  <1> HIDE DEF hit
  <1>9. Known(RowData, hashtable, Found(part))
    <2>1. \A r \in AllRows : Found(part)[r] \in Nat
      BY <1>5, <1>7, <1>8
    <2>2. Found(part) = [r \in AllRows |-> Found(part)[r]]
      BY DEF Found
    <2>3. Found(part) \in [AllRows -> Nat]
      BY <2>1, <2>2
    <2>4. ASSUME NEW r \in AllRows, Found(part)[r] # Unassigned
          PROVE  \E h \in DOMAIN hashtable : hashtable[h] = [data |-> RowData[r], id |-> Found(part)[r]]
      <3>1. CASE hit(r)
        BY <1>3, <1>8, <3>1
      <3>2. CASE ~hit(r)
        <4>1. Found(part)[r] = globals[r]
          BY <1>7, <3>2
        <4>2. QED BY <1>3, <1>4, <2>4, <4>1 DEF Known
      <3>3. QED BY <3>1, <3>2
    <2>5. QED BY <1>3, <2>3, <2>4 DEF Known
  <1>10. ASSUME NEW r \in AllRows, \A g \in ToSet(part) : proposed[g] # r
         PROVE  Found(part)[r] = globals[r]
    <2>1. ~hit(r)
      BY <1>10 DEF hit
    <2>2. QED BY <1>7, <2>1
  <1>11. ASSUME NEW g \in ToSet(part)
         PROVE  /\ Holds(Lookup(g), g) => Found(part)[proposed[g]] # Unassigned
                /\ ~Holds(Lookup(g), g) => Found(part)[proposed[g]] = globals[proposed[g]]
    <2>1. proposed[g] \in AllRows /\ DataAt(proposed[g]) = g
      BY <1>1, <1>2
    <2>2. hit(proposed[g]) <=> Holds(Lookup(g), g)
      BY <2>1 DEF hit
    <2>3. QED BY <1>7, <1>8, <2>1, <2>2 DEF Unassigned
  <1>12. QED BY <1>9, <1>10, <1>11

\* The slice of the readers after gadgets of one of the ranges were looked for, the
\* other ranges and some of the survivors that there were.
LEMMA OtherRanges ==
  ASSUME HalfInv, main = "lookup", outcome = "running", NEW range \in tasks,
         NEW part, part \in Seq(DOMAIN proposed), ToSet(part) \subseteq ToSet(range),
         NEW gadgets, gadgets \subseteq UNION kept
  PROVE  /\ Prepared(RowData, Found(part), proposed, stores, slice)
         /\ Survivors(hashtable, Found(part), proposed, gadgets)
         /\ tasks \ {range} \subseteq Seq(DOMAIN proposed)
         /\ \A g \in Waiting(tasks \ {range}) :
              /\ Found(part)[proposed[g]] = Unassigned /\ g \notin ToSet(range)
              /\ \A x \in gadgets : x.data # g
         /\ \A a, b \in tasks \ {range} : a # b => ToSet(a) \cap ToSet(b) = {}
         /\ \A g \in DOMAIN proposed \ ToSet(range) : Found(part)[proposed[g]] = globals[proposed[g]]
         /\ \A r \in AllRows : SliceOf(HashOf[RowData[r]]) # slice => Found(part)[r] = globals[r]
  <1> DEFINE ids == Found(part)
  <1>1. /\ Prepared(RowData, globals, proposed, stores, slice)
        /\ Survivors(hashtable, globals, proposed, UNION kept)
        /\ tasks \subseteq Seq(DOMAIN proposed)
        /\ \A g \in Waiting(tasks) : globals[proposed[g]] = Unassigned /\ \A x \in UNION kept : x.data # g
        /\ \A a, b \in tasks : a # b => ToSet(a) \cap ToSet(b) = {}
        /\ \A g \in DOMAIN proposed : /\ proposed[g] \in AllRows /\ proposed[g] \in RowsIn(RowData, slice)
                                      /\ RowData[proposed[g]] = g
    BY ReadersSlice
  <1>2. \A r \in AllRows : (\A g \in ToSet(part) : proposed[g] # r) => ids[r] = globals[r]
    BY FoundIds
  <1>3. range \in Seq(DOMAIN proposed) /\ ToSet(range) \subseteq DOMAIN proposed
    BY <1>1 DEF ToSet
  <1> HIDE DEF ids
  <1>4. \A g \in DOMAIN proposed \ ToSet(range) : ids[proposed[g]] = globals[proposed[g]]
    BY <1>1, <1>2, <1>3
  <1>5. Prepared(RowData, ids, proposed, stores, slice)
    <2>1. RowsIn(RowData, slice) \subseteq AllRows
      BY SlicesOfRows DEF RowsIn
    <2>2. ASSUME NEW r \in RowsIn(RowData, slice), proposed[RowData[r]] # r
          PROVE  ids[r] = Unassigned
      <3>1. \A g \in ToSet(part) : proposed[g] # r
        BY <1>1, <1>3, <2>2
      <3>2. globals[r] = Unassigned
        BY <1>1, <2>2 DEF Prepared
      <3>3. QED BY <1>2, <2>1, <3>1, <3>2
    <2>3. QED BY <1>1, <2>2 DEF Prepared
  <1>6. \A x \in UNION kept : x.data \in DOMAIN proposed /\ x.data \notin ToSet(range)
    <2>1. \A x \in UNION kept : x.data \in DOMAIN proposed
      BY <1>1 DEF Survivors
    <2>2. ToSet(range) \subseteq Waiting(tasks)
      BY DEF Waiting
    <2>3. QED BY <1>1, <2>1, <2>2
  <1>7. Survivors(hashtable, ids, proposed, gadgets)
    <2>1. IsFiniteSet(gadgets)
      BY <1>1, FS_Subset DEF Survivors
    <2>2. \A x \in gadgets : ids[proposed[x.data]] = globals[proposed[x.data]]
      BY <1>4, <1>6
    <2>3. QED BY <1>1, <2>1, <2>2 DEF Survivors
  <1>8. ASSUME NEW g \in Waiting(tasks \ {range})
        PROVE  ids[proposed[g]] = Unassigned /\ g \notin ToSet(range) /\ \A x \in gadgets : x.data # g
    <2>1. PICK a \in tasks \ {range} : g \in ToSet(a)
      BY DEF Waiting
    <2>2. g \in Waiting(tasks)
      BY <2>1 DEF Waiting
    <2>3. g \notin ToSet(range)
      BY <1>1, <2>1
    <2>4. a \in Seq(DOMAIN proposed)
      BY <1>1
    <2>5. g \in DOMAIN proposed
      BY <2>1, <2>4 DEF ToSet
    <2>6. QED BY <1>1, <1>4, <2>2, <2>3, <2>5
  <1>9. \A r \in AllRows : SliceOf(HashOf[RowData[r]]) # slice => ids[r] = globals[r]
    <2> SUFFICES ASSUME NEW r \in AllRows, SliceOf(HashOf[RowData[r]]) # slice PROVE ids[r] = globals[r]
      OBVIOUS
    <2>1. r \notin RowsIn(RowData, slice)
      BY DEF RowsIn
    <2>2. \A g \in ToSet(part) : proposed[g] # r
      BY <1>1, <1>3, <2>1
    <2>3. QED BY <1>2, <2>2
  <1>10. QED BY <1>1, <1>4, <1>5, <1>7, <1>8, <1>9 DEF ids

\* lookup keeps the invariant.
LEMMA LookupStep ==
  ASSUME HalfInv, NEW range \in tasks, lookup(range)
  PROVE  HalfInv'
  <1>1. /\ main = "lookup" /\ outcome = "running" /\ tasks' = tasks \ {range} /\ globals' = Found(range)
        /\ UNCHANGED <<hashtable, idhash, edges, files, remaining, slice, proposed, stores, commitables, main,
                       writer, task, outcome, failures>>
    BY DEF lookup, database
  <1> DEFINE new == {[data |-> g, hash |-> Lookup(g)] : g \in {x \in ToSet(range) : ~Holds(Lookup(x), x)}}
             left == UNION kept
  <1>2. UNION kept' = left \cup new
    BY DEF lookup
  <1>3. Extends(hashtable, hashtable')
    BY <1>1 DEF Extends
  <1>4. AllRows' = AllRows /\ RowData' = RowData /\ files' \in Seq(Firsthalf) /\ remaining' \in 0..Len(files')
        /\ EdgesLeadToOutputs'
    BY <1>1, <1>3, SameRows
  <1>5. /\ Survivors(hashtable, globals, proposed, left)
        /\ Covered(globals, failures, proposed, left, Waiting(tasks))
        /\ tasks \subseteq Seq(DOMAIN proposed)
        /\ \A g \in Waiting(tasks) : globals[proposed[g]] = Unassigned /\ \A x \in left : x.data # g
        /\ DOMAIN proposed \subseteq Gadget
    BY <1>1, ReadersSlice
  <1>6. range \in Seq(DOMAIN proposed) /\ ToSet(range) \subseteq DOMAIN proposed /\ IsFiniteSet(ToSet(range))
        /\ ToSet(range) \subseteq Waiting(tasks)
    <2>1. range \in Seq(DOMAIN proposed)
      BY <1>5
    <2>2. ToSet(range) \subseteq DOMAIN proposed /\ ToSet(range) \subseteq Waiting(tasks)
      BY <2>1 DEF ToSet, Waiting
    <2>3. Len(range) \in Nat /\ DOMAIN range = 1..Len(range)
      BY <2>1
    <2>4. IsFiniteSet(DOMAIN range)
      BY <2>3, FS_Interval
    <2>5. range \in Surjection(DOMAIN range, ToSet(range))
      <3>1. range \in [DOMAIN range -> ToSet(range)]
        <4>1. range = [i \in DOMAIN range |-> range[i]]
          BY <2>1
        <4>2. \A i \in DOMAIN range : range[i] \in ToSet(range)
          BY DEF ToSet
        <4>3. QED BY <4>1, <4>2
      <3>2. QED BY <3>1 DEF Surjection, ToSet
    <2>6. IsFiniteSet(ToSet(range))
      BY <2>4, <2>5, FS_Surjection
    <2>7. QED BY <2>1, <2>2, <2>6
  <1>7. /\ Prepared(RowData, Found(range), proposed, stores, slice)
        /\ Survivors(hashtable, Found(range), proposed, left)
        /\ tasks \ {range} \subseteq Seq(DOMAIN proposed)
        /\ \A g \in Waiting(tasks \ {range}) :
             /\ Found(range)[proposed[g]] = Unassigned /\ g \notin ToSet(range)
             /\ \A x \in left : x.data # g
        /\ \A a, b \in tasks \ {range} : a # b => ToSet(a) \cap ToSet(b) = {}
        /\ \A g \in DOMAIN proposed \ ToSet(range) : Found(range)[proposed[g]] = globals[proposed[g]]
        /\ \A r \in AllRows : SliceOf(HashOf[RowData[r]]) # slice => Found(range)[r] = globals[r]
    <2>1. ToSet(range) \subseteq ToSet(range) /\ left \subseteq UNION kept
      OBVIOUS
    <2> HIDE DEF left
    <2>2. main = "lookup" /\ outcome = "running" /\ range \in Seq(DOMAIN proposed)
      BY <1>1, <1>6
    <2>3. QED BY <2>1, <2>2, OtherRanges
  <1>8. /\ Known(RowData, hashtable, Found(range))
        /\ \A g \in ToSet(range) : Holds(Lookup(g), g) => Found(range)[proposed[g]] # Unassigned
        /\ \A g \in ToSet(range) : ~Holds(Lookup(g), g) => Found(range)[proposed[g]] = globals[proposed[g]]
    BY <1>1, <1>6, FoundIds
  <1> HIDE DEF left
  <1>9. Survivors(hashtable, Found(range), proposed, left \cup new)
    <2>1. IsFiniteSet(new)
      <3> DEFINE D == {x \in ToSet(range) : ~Holds(Lookup(x), x)}
                 make == [g \in D |-> [data |-> g, hash |-> Lookup(g)]]
      <3>1. IsFiniteSet(D)
        BY <1>6, FS_Subset
      <3>2. make \in Surjection(D, new)
        BY DEF Surjection
      <3> HIDE DEF D, make, new
      <3>3. QED BY <3>1, <3>2, FS_Surjection
    <2>2. IsFiniteSet(left)
      BY <1>5 DEF Survivors
    <2>3. IsFiniteSet(left \cup new)
      <3> HIDE DEF new
      <3> QED BY <2>1, <2>2, FS_Union
    <2>4. Intact(hashtable, idhash)
      BY DEF HalfInv
    <2>5. ASSUME NEW x \in new
          PROVE  /\ x \in [data : DOMAIN proposed, hash : Nat] /\ HashOf[x.data] <= x.hash
                 /\ \A h \in HashOf[x.data]..(x.hash - 1) : h \in DOMAIN hashtable /\ hashtable[h].data # x.data
                 /\ Found(range)[proposed[x.data]] = Unassigned
                 /\ x = [data |-> x.data, hash |-> Lookup(x.data)] /\ x.data \in ToSet(range)
      <3>1. PICK g \in ToSet(range) : ~Holds(Lookup(g), g) /\ x = [data |-> g, hash |-> Lookup(g)]
        OBVIOUS
      <3>2. g \in DOMAIN proposed /\ g \in Gadget
        BY <1>5, <1>6
      <3>3. DOMAIN hashtable \subseteq Nat /\ IsFiniteSet(DOMAIN hashtable)
        BY <2>4 DEF Intact
      <3>4. /\ Lookup(g) \in Nat /\ HashOf[g] <= Lookup(g)
            /\ \A h \in HashOf[g]..(Lookup(g) - 1) : h \in DOMAIN hashtable /\ ~Holds(h, g)
        BY <3>2, <3>3, LookupFinds
      <3>5. Found(range)[proposed[g]] = Unassigned
        BY <1>5, <1>6, <1>8, <3>1
      <3>6. x.data = g /\ x.hash = Lookup(g)
        BY <3>1
      <3>7. \A h \in HashOf[g]..(Lookup(g) - 1) : h \in DOMAIN hashtable /\ hashtable[h].data # g
        BY <3>4 DEF Holds
      <3>8. x \in [data : DOMAIN proposed, hash : Nat]
        BY <3>1, <3>2, <3>4
      <3>9. QED BY <3>1, <3>4, <3>5, <3>6, <3>7, <3>8
    <2>6. ASSUME NEW x \in left \cup new, NEW y \in left \cup new, x.data = y.data
          PROVE  x = y
      <3>1. CASE x \in left /\ y \in left
        BY <1>5, <2>6, <3>1 DEF Survivors
      <3>2. CASE x \in new /\ y \in new
        <4> HIDE DEF new
        <4>1. x = [data |-> x.data, hash |-> Lookup(x.data)] /\ y = [data |-> y.data, hash |-> Lookup(y.data)]
          BY <2>5, <3>2
        <4>2. QED BY <2>6, <4>1
      <3>3. \A u \in left : \A v \in new : u.data # v.data
        <4> HIDE DEF new
        <4>1. \A v \in new : v.data \in Waiting(tasks)
          BY <1>6, <2>5
        <4>2. QED BY <1>5, <4>1
      <3> HIDE DEF new
      <3>4. QED BY <2>6, <3>1, <3>2, <3>3
    <2> HIDE DEF new
    <2>7. QED BY <1>7, <2>3, <2>5, <2>6 DEF Survivors
  <1>10. Covered(Found(range), failures, proposed, left \cup new, Waiting(tasks \ {range}))
    <2> SUFFICES ASSUME failures = 0, NEW g \in DOMAIN proposed
                 PROVE  \/ Found(range)[proposed[g]] # Unassigned \/ g \in Waiting(tasks \ {range})
                        \/ \E x \in left \cup new : x.data = g
      BY DEF Covered
    <2>1. globals[proposed[g]] # Unassigned \/ g \in Waiting(tasks) \/ \E x \in left : x.data = g
      BY <1>5 DEF Covered
    <2>2. CASE g \in ToSet(range)
      <3>1. CASE Holds(Lookup(g), g)
        BY <1>8, <2>2, <3>1
      <3>2. CASE ~Holds(Lookup(g), g)
        <4>1. [data |-> g, hash |-> Lookup(g)] \in new
          BY <2>2, <3>2
        <4> HIDE DEF new
        <4>2. QED BY <4>1
      <3>3. QED BY <3>1, <3>2
    <2>3. CASE g \notin ToSet(range)
      <3>1. g \in Waiting(tasks) => g \in Waiting(tasks \ {range})
        BY <2>3 DEF Waiting
      <3>2. Found(range)[proposed[g]] = globals[proposed[g]]
        BY <1>7, <2>3
      <3> HIDE DEF new
      <3>3. QED BY <2>1, <3>1, <3>2
    <2>4. QED BY <2>2, <2>3
  <1>11. \A g \in Waiting(tasks \ {range}) : \A x \in left \cup new : x.data # g
    <2>1. \A x \in new : x.data \in ToSet(range)
      OBVIOUS
    <2> HIDE DEF new
    <2>2. QED BY <1>7, <2>1
  <1> HIDE DEF new
  <1>12. Lookups(RowData, hashtable, Found(range), failures, proposed, stores, slice, tasks \ {range}, left \cup new)
    BY <1>7, <1>9, <1>10, <1>11 DEF Lookups
  <1>13. Lookups(RowData', hashtable', globals', failures', proposed', stores', slice', tasks', UNION kept')
    BY <1>1, <1>2, <1>4, <1>12
  <1>14. InFlight(RowData, hashtable, globals, failures, "lookup", slice, commitables, writer, task)
    BY <1>1 DEF HalfInv
  <1>15. DOMAIN RowData = AllRows /\ \A r \in AllRows : SliceOf(HashOf[RowData[r]]) \in Int
    BY SlicesOfRows
  <1>16. InFlight(RowData, hashtable, Found(range), failures, "lookup", slice, commitables, writer, task)
    <2>1. Extends(hashtable, hashtable)
      BY DEF Extends
    <2>2. QED BY <1>7, <1>14, <1>15, <2>1, InFlightKept
  <1>17. InFlight(RowData', hashtable', globals', failures', main', slice', commitables', writer', task')
    BY <1>1, <1>4, <1>16
  <1>18. Known(RowData', hashtable', globals') /\ Intact(hashtable', idhash')
    BY <1>1, <1>4, <1>8 DEF HalfInv
  <1>19. failures' \in Nat /\ outcome' \in {"running", "terminated", "threw", "answered"}
    BY <1>1 DEF HalfInv
  <1>20. QED
    BY <1>4, <1>13, <1>17, <1>18, <1>19 DEF HalfInv

\* A failing lookup keeps the invariant: nothing is claimed of coverage any more.
LEMMA LookupThrowsStep ==
  ASSUME HalfInv, NEW range \in tasks, lookup_throws(range)
  PROVE  HalfInv'
  <1>1. /\ main = "lookup" /\ outcome = "running" /\ failures' = failures + 1
        /\ UNCHANGED <<hashtable, idhash, edges, files, remaining, slice, proposed, stores, commitables, main,
                       writer, task>>
        /\ \/ outcome' = "terminated"
           \/ tasks' = tasks \ {range} /\ kept' \in SUBSET kept /\ outcome' = "running"
    BY DEF lookup_throws, database
  <1>2. PICK n \in 0..(Len(range) - 1) : globals' = Found(SubSeq(range, 1, n))
    BY DEF lookup_throws
  <1>3. PICK part : part = SubSeq(range, 1, n)
    OBVIOUS
  <1>4. Extends(hashtable, hashtable') /\ Extends(hashtable, hashtable)
    BY <1>1 DEF Extends
  <1>5. AllRows' = AllRows /\ RowData' = RowData /\ files' \in Seq(Firsthalf) /\ remaining' \in 0..Len(files')
        /\ EdgesLeadToOutputs'
    BY <1>1, <1>4, SameRows
  <1>6. tasks \subseteq Seq(DOMAIN proposed)
    BY <1>1, ReadersSlice
  <1>7. part \in Seq(DOMAIN proposed) /\ ToSet(part) \subseteq ToSet(range)
    <2>1. range \in Seq(DOMAIN proposed) /\ Len(range) \in Nat
      BY <1>6
    <2>2. part \in Seq(DOMAIN proposed) /\ Len(part) = n /\ \A i \in 1..n : part[i] = range[i]
      <3>1. n \in Nat /\ n <= Len(range)
        BY <2>1
      <3>2. QED BY <1>3, <2>1, <3>1
    <2>3. DOMAIN part = 1..n /\ DOMAIN range = 1..Len(range) /\ 1..n \subseteq 1..Len(range)
      BY <2>1, <2>2
    <2>4. QED BY <2>2, <2>3 DEF ToSet
  <1>8. globals' = Found(part) /\ failures \in Nat /\ failures' \in Nat /\ failures' # 0
    BY <1>1, <1>2, <1>3 DEF HalfInv
  <1>9. Known(RowData, hashtable, Found(part))
    BY <1>1, <1>7, FoundIds
  <1>10. \A gadgets \in SUBSET UNION kept :
        /\ Prepared(RowData, Found(part), proposed, stores, slice)
        /\ Survivors(hashtable, Found(part), proposed, gadgets)
        /\ tasks \ {range} \subseteq Seq(DOMAIN proposed)
        /\ \A g \in Waiting(tasks \ {range}) :
             /\ Found(part)[proposed[g]] = Unassigned /\ g \notin ToSet(range)
             /\ \A x \in gadgets : x.data # g
        /\ \A a, b \in tasks \ {range} : a # b => ToSet(a) \cap ToSet(b) = {}
        /\ \A r \in AllRows : SliceOf(HashOf[RowData[r]]) # slice => Found(part)[r] = globals[r]
    <2> TAKE gadgets \in SUBSET UNION kept
    <2>1. main = "lookup" /\ outcome = "running" /\ gadgets \subseteq UNION kept
      BY <1>1
    <2>2. /\ Prepared(RowData, Found(part), proposed, stores, slice)
          /\ Survivors(hashtable, Found(part), proposed, gadgets)
          /\ tasks \ {range} \subseteq Seq(DOMAIN proposed)
          /\ \A g \in Waiting(tasks \ {range}) :
               /\ Found(part)[proposed[g]] = Unassigned /\ g \notin ToSet(range)
               /\ \A x \in gadgets : x.data # g
          /\ \A a, b \in tasks \ {range} : a # b => ToSet(a) \cap ToSet(b) = {}
          /\ \A g \in DOMAIN proposed \ ToSet(range) : Found(part)[proposed[g]] = globals[proposed[g]]
          /\ \A r \in AllRows : SliceOf(HashOf[RowData[r]]) # slice => Found(part)[r] = globals[r]
      BY <1>7, <2>1, OtherRanges
    <2>3. QED BY <2>2
  <1>11. outcome' = "running" =>
           Lookups(RowData', hashtable', globals', failures', proposed', stores', slice', tasks', UNION kept')
    <2> SUFFICES ASSUME outcome' = "running"
                 PROVE  Lookups(RowData, hashtable, globals', failures', proposed, stores, slice, tasks', UNION kept')
      BY <1>1, <1>5
    <2>1. tasks' = tasks \ {range} /\ UNION kept' \in SUBSET UNION kept
      BY <1>1
    <2>2. Covered(Found(part), failures', proposed, UNION kept', Waiting(tasks'))
      BY <1>8 DEF Covered
    <2>3. QED BY <1>8, <1>10, <2>1, <2>2 DEF Lookups
  <1>12. InFlight(RowData, hashtable, globals, failures, "lookup", slice, commitables, writer, task)
    BY <1>1 DEF HalfInv
  <1>13. DOMAIN RowData = AllRows /\ \A r \in AllRows : SliceOf(HashOf[RowData[r]]) \in Int
    BY SlicesOfRows
  <1>14. \A r \in AllRows : SliceOf(HashOf[RowData[r]]) # slice => Found(part)[r] = globals[r]
    BY <1>10
  <1>15. InFlight(RowData, hashtable, Found(part), failures', "lookup", slice, commitables, writer, task)
    BY <1>4, <1>8, <1>12, <1>13, <1>14, InFlightKept
  <1>16. InFlight(RowData', hashtable', globals', failures', main', slice', commitables', writer', task')
    BY <1>1, <1>5, <1>8, <1>15
  <1>17. Known(RowData', hashtable', globals') /\ Intact(hashtable', idhash')
    BY <1>1, <1>5, <1>8, <1>9 DEF HalfInv
  <1>18. QED
    BY <1>1, <1>5, <1>8, <1>11, <1>16, <1>17 DEF HalfInv

\* put_slice keeps the invariant: the slice is the youngest that was handed over.
LEMMA PutSliceStep ==
  ASSUME HalfInv, put_slice
  PROVE  HalfInv'
  <1> DEFINE t == [gadgets |-> UNION kept, proposed |-> proposed, stores |-> stores, slice |-> slice]
  <1>1. /\ main = "lookup" /\ outcome = "running" /\ tasks = {} /\ commitables = <<>>
        /\ commitables' = <<t>> /\ slice' = slice + 1 /\ main' \in {"prepare", "finish"}
        /\ UNCHANGED <<hashtable, idhash, edges, files, remaining, globals, writer, task, outcome, failures>>
    BY DEF put_slice, database
  <1>2. Extends(hashtable, hashtable')
    BY <1>1 DEF Extends
  <1>3. AllRows' = AllRows /\ RowData' = RowData /\ files' \in Seq(Firsthalf) /\ remaining' \in 0..Len(files')
        /\ EdgesLeadToOutputs'
    BY <1>1, <1>2, SameRows
  <1>4. InFlight(RowData, hashtable, globals, failures, "lookup", slice, <<>>, writer, task)
    BY <1>1 DEF HalfInv
  <1>5. Commitable(RowData, hashtable, globals, failures, t)
    <2>1. /\ Prepared(RowData, globals, proposed, stores, slice)
          /\ Survivors(hashtable, globals, proposed, UNION kept)
          /\ Covered(globals, failures, proposed, UNION kept, Waiting(tasks))
      BY <1>1, ReadersSlice
    <2>2. Waiting(tasks) = {}
      BY <1>1 DEF Waiting
    <2>3. t.gadgets = UNION kept /\ t.proposed = proposed /\ t.stores = stores /\ t.slice = slice
      OBVIOUS
    <2> HIDE DEF t
    <2>4. QED BY <2>1, <2>2, <2>3 DEF Commitable
  <1>6. t.slice = slice
    OBVIOUS
  <1> HIDE DEF t
  <1>7. InFlight(RowData, hashtable, globals, failures, main', slice + 1, <<t>>, writer, task)
    <2>1. slice \in Nat /\ slice + 1 \in Nat
      BY <1>4 DEF InFlight
    <2>2. Untouched(RowData, globals, main', slice + 1)
      <3> SUFFICES ASSUME NEW r \in DOMAIN RowData,
                          SliceOf(HashOf[RowData[r]]) > slice + 1 \/ SliceOf(HashOf[RowData[r]]) = slice + 1
                   PROVE  globals[r] = Unassigned
        BY DEF Untouched
      <3>1. SliceOf(HashOf[RowData[r]]) \in Nat
        BY SlicesOfRows
      <3>2. SliceOf(HashOf[RowData[r]]) > slice
        BY <2>1, <3>1
      <3>3. QED BY <1>4, <3>2 DEF InFlight, Untouched
    <2>3. <<t>> = << <<t>>[1] >> /\ <<t>>[1] = t /\ t.slice < slice + 1
      BY <1>6, <2>1
    <2>4. writer = "commit" =>
            /\ task.slice \in Nat /\ task.slice < slice + 1 /\ task.slice < t.slice
            /\ Commitable(RowData, hashtable, globals, failures, task)
      BY <1>4, <1>6, <2>1 DEF InFlight
    <2>5. QED BY <1>5, <1>6, <2>1, <2>2, <2>3, <2>4 DEF InFlight
  <1>8. InFlight(RowData', hashtable', globals', failures', main', slice', commitables', writer', task')
    BY <1>1, <1>3, <1>7
  <1>9. Known(RowData', hashtable', globals') /\ Intact(hashtable', idhash')
    BY <1>1, <1>3 DEF HalfInv
  <1>10. failures' \in Nat /\ outcome' \in {"running", "terminated", "threw", "answered"} /\ main' # "lookup"
    BY <1>1 DEF HalfInv
  <1>11. QED
    BY <1>3, <1>8, <1>9, <1>10 DEF HalfInv

\* put_end keeps the invariant.
LEMMA PutEndStep ==
  ASSUME HalfInv, put_end
  PROVE  HalfInv'
  <1>1. /\ main = "finish" /\ main' = "join" /\ commitables = <<>> /\ commitables' = <<nullopt>>
        /\ UNCHANGED <<hashtable, idhash, edges, files, remaining, globals, slice, writer, task, outcome, failures>>
    BY DEF put_end, database, reading
  <1>2. Extends(hashtable, hashtable')
    BY <1>1 DEF Extends
  <1>3. AllRows' = AllRows /\ RowData' = RowData /\ files' \in Seq(Firsthalf) /\ remaining' \in 0..Len(files')
        /\ EdgesLeadToOutputs'
    BY <1>1, <1>2, SameRows
  <1>4. InFlight(RowData, hashtable, globals, failures, "finish", slice, <<>>, writer, task)
    BY <1>1 DEF HalfInv
  <1>5. InFlight(RowData, hashtable, globals, failures, "join", slice, <<nullopt>>, writer, task)
    BY <1>4 DEF InFlight, Untouched
  <1>6. InFlight(RowData', hashtable', globals', failures', main', slice', commitables', writer', task')
    BY <1>1, <1>3, <1>5
  <1>7. Known(RowData', hashtable', globals') /\ Intact(hashtable', idhash')
    BY <1>1, <1>3 DEF HalfInv
  <1>8. failures' \in Nat /\ outcome' \in {"running", "terminated", "threw", "answered"}
    BY <1>1 DEF HalfInv
  <1>9. QED
    BY <1>1, <1>3, <1>6, <1>7, <1>8 DEF HalfInv

\* join keeps the invariant.
LEMMA JoinStep ==
  ASSUME HalfInv, join
  PROVE  HalfInv'
  <1>1. /\ main = "join" /\ main' = "edges"
        /\ UNCHANGED <<hashtable, idhash, edges, files, remaining, globals, slice, commitables, writer, task,
                       outcome, failures>>
    BY DEF join, database, reading
  <1>2. Extends(hashtable, hashtable')
    BY <1>1 DEF Extends
  <1>3. AllRows' = AllRows /\ RowData' = RowData /\ files' \in Seq(Firsthalf) /\ remaining' \in 0..Len(files')
        /\ EdgesLeadToOutputs'
    BY <1>1, <1>2, SameRows
  <1>4. InFlight(RowData, hashtable, globals, failures, "join", slice, commitables, writer, task)
    BY <1>1 DEF HalfInv
  <1>5. InFlight(RowData, hashtable, globals, failures, "edges", slice, commitables, writer, task)
    BY <1>4 DEF InFlight, Untouched
  <1>6. InFlight(RowData', hashtable', globals', failures', main', slice', commitables', writer', task')
    BY <1>1, <1>3, <1>5
  <1>7. Known(RowData', hashtable', globals') /\ Intact(hashtable', idhash')
    BY <1>1, <1>3 DEF HalfInv
  <1>8. failures' \in Nat /\ outcome' \in {"running", "terminated", "threw", "answered"}
    BY <1>1 DEF HalfInv
  <1>9. QED
    BY <1>1, <1>3, <1>6, <1>7, <1>8 DEF HalfInv

-----------------------------------------------------------------------------
(* The writer, the edges and other processes.                              *)

\* The writer takes what is in the queue, a slice older than the main thread's.
LEMMA TakeStep ==
  ASSUME HalfInv, writer_takes
  PROVE  HalfInv'
  <1>1. /\ commitables # <<>> /\ outcome = "running" /\ commitables' = <<>> /\ task' = commitables[1]
        /\ writer' = (IF task' = nullopt THEN "returned" ELSE "commit")
        /\ UNCHANGED <<hashtable, idhash, edges, files, remaining, globals, slice, proposed, stores, tasks, kept,
                       main, outcome, failures>>
    BY DEF writer_takes, database, reading
  <1>2. Extends(hashtable, hashtable')
    BY <1>1 DEF Extends
  <1>3. AllRows' = AllRows /\ RowData' = RowData /\ files' \in Seq(Firsthalf) /\ remaining' \in 0..Len(files')
        /\ EdgesLeadToOutputs'
    BY <1>1, <1>2, SameRows
  <1>4. InFlight(RowData, hashtable, globals, failures, main, slice, commitables, writer, task)
    BY DEF HalfInv
  <1>5. writer' = "commit" =>
          /\ task'.slice \in Nat /\ task'.slice < slice
          /\ Commitable(RowData, hashtable, globals, failures, task')
    <2>1. CASE commitables = <<nullopt>>
      BY <1>1, <2>1
    <2>2. CASE commitables # <<nullopt>>
      BY <1>1, <1>4, <2>2 DEF InFlight
    <2>3. QED BY <2>1, <2>2
  <1>6. InFlight(RowData, hashtable, globals, failures, main, slice, <<>>, writer', task')
    BY <1>4, <1>5 DEF InFlight
  <1>7. InFlight(RowData', hashtable', globals', failures', main', slice', commitables', writer', task')
    BY <1>1, <1>3, <1>6
  <1>8. outcome' = "running" /\ main' = "lookup" =>
          Lookups(RowData', hashtable', globals', failures', proposed', stores', slice', tasks', UNION kept')
    BY <1>1, <1>3 DEF HalfInv
  <1>9. Known(RowData', hashtable', globals') /\ Intact(hashtable', idhash')
    BY <1>1, <1>3 DEF HalfInv
  <1>10. failures' \in Nat /\ outcome' \in {"running", "terminated", "threw", "answered"}
    BY <1>1 DEF HalfInv
  <1>11. QED
    BY <1>3, <1>7, <1>8, <1>9, <1>10 DEF HalfInv

\* Another process inserts a gadget that is not there.
LEMMA StrangerStep ==
  ASSUME HalfInv, NEW g \in Strangers, stranger_inserts(g)
  PROVE  HalfInv'
  <1> DEFINE place == FreePlace(g)
             id == Len(idhash) + 1
  <1>1. /\ outcome = "running" /\ \A h \in DOMAIN hashtable : hashtable[h].data # g
        /\ hashtable' = [h \in DOMAIN hashtable \cup {place} |->
                           IF h = place THEN [data |-> g, id |-> id] ELSE hashtable[h]]
        /\ idhash' = Append(idhash, place)
        /\ UNCHANGED <<edges, files, remaining, globals, slice, proposed, stores, tasks, kept, commitables, main,
                       writer, task, outcome, failures>>
    BY DEF stranger_inserts, reading
  <1>2. Intact(hashtable, idhash) /\ g \in Gadget
    BY SecondhalfAssumption DEF HalfInv
  <1>3. place \in Nat /\ HashOf[g] <= place /\ place \notin DOMAIN hashtable /\ Taken(hashtable, HashOf[g], place)
    BY <1>2, FreePlaceFinds DEF Intact
  <1> HIDE DEF place
  <1>4. Extends(hashtable, hashtable')
    BY <1>1, <1>3 DEF Extends
  <1>5. hashtable'[place] = [data |-> g, id |-> id] /\ DOMAIN hashtable' = DOMAIN hashtable \cup {place}
    BY <1>1
  <1>6. idhash \in Seq(Nat) /\ Len(idhash) \in Nat /\ id \in Nat \ {0}
    <2>1. idhash \in Seq(Nat)
      BY <1>2 DEF Intact
    <2>2. QED BY <2>1, LenProperties
  <1>7. idhash' \in Seq(Nat) /\ Len(idhash') = id /\ idhash'[id] = place
        /\ \A i \in 1..Len(idhash) : idhash'[i] = idhash[i]
    BY <1>1, <1>3, <1>6, AppendProperties
  <1>8. Intact(hashtable', idhash')
    <2> DEFINE P == {place}
    <2>1. P \subseteq Nat /\ P \cap DOMAIN hashtable = {}
      BY <1>3
    <2>2. IsFiniteSet(P)
      BY FS_Singleton, Zenon
    <2>3. DOMAIN hashtable' = DOMAIN hashtable \cup P
      BY <1>5
    <2>4. hashtable' \in [DOMAIN hashtable' -> [data : Gadget, id : Nat \ {0}]]
      <3>1. hashtable' = [h \in DOMAIN hashtable' |-> hashtable'[h]]
        BY <1>1
      <3>2. \A h \in DOMAIN hashtable : hashtable'[h] \in [data : Gadget, id : Nat \ {0}]
        BY <1>2, <1>4 DEF Intact, Extends
      <3>3. hashtable'[place] \in [data : Gadget, id : Nat \ {0}]
        BY <1>2, <1>5, <1>6
      <3>4. QED BY <1>5, <3>1, <3>2, <3>3
    <2>5. \A h \in P : hashtable'[h].data = g /\ hashtable'[h].id = id /\ h = place
      BY <1>5
    <2> HIDE DEF P
    <2>6. \A h \in P : /\ HashOf[hashtable'[h].data] <= h /\ Taken(hashtable, HashOf[hashtable'[h].data], h)
                       /\ \A k \in DOMAIN hashtable : hashtable[k].data # hashtable'[h].data
      BY <1>1, <1>3, <2>5
    <2>7. \A h \in P : hashtable'[h].id \in (Len(idhash) + 1)..Len(idhash') /\ idhash'[hashtable'[h].id] = h
      BY <1>6, <1>7, <2>5
    <2>8. \A i \in (Len(idhash) + 1)..Len(idhash') : idhash'[i] \in P /\ hashtable'[idhash'[i]].id = i
      <3>1. \A i \in (Len(idhash) + 1)..Len(idhash') : i = id
        BY <1>6, <1>7
      <3>2. QED BY <1>5, <1>7, <3>1 DEF P
    <2>9. \A h, k \in P : hashtable'[h].data = hashtable'[k].data => h = k
      BY <2>5
    <2>10. Len(idhash) <= Len(idhash')
      BY <1>6, <1>7
    <2>11. QED
      BY <1>2, <1>4, <1>7, <2>1, <2>2, <2>3, <2>4, <2>6, <2>7, <2>8, <2>9, <2>10, TableGrows
  <1>9. AllRows' = AllRows /\ RowData' = RowData /\ files' \in Seq(Firsthalf) /\ remaining' \in 0..Len(files')
        /\ EdgesLeadToOutputs'
    BY <1>1, <1>4, SameRows
  <1>10. Known(RowData, hashtable', globals)
    BY <1>4, KnownGrows DEF HalfInv
  <1>11. InFlight(RowData, hashtable', globals, failures, main, slice, commitables, writer, task)
    <2>1. InFlight(RowData, hashtable, globals, failures, main, slice, commitables, writer, task)
      BY DEF HalfInv
    <2>2. \A r \in DOMAIN RowData : SliceOf(HashOf[RowData[r]]) \in Int
      BY SlicesOfRows
    <2>3. QED BY <1>4, <2>1, <2>2, InFlightKept
  <1>12. outcome = "running" /\ main = "lookup" =>
           Lookups(RowData, hashtable', globals, failures, proposed, stores, slice, tasks, UNION kept)
    <2> SUFFICES ASSUME outcome = "running", main = "lookup"
                 PROVE  Lookups(RowData, hashtable', globals, failures, proposed, stores, slice, tasks, UNION kept)
      OBVIOUS
    <2>1. Lookups(RowData, hashtable, globals, failures, proposed, stores, slice, tasks, UNION kept)
      BY DEF HalfInv
    <2>2. QED BY <1>4, <2>1, LookupsKept
  <1>13. /\ InFlight(RowData', hashtable', globals', failures', main', slice', commitables', writer', task')
         /\ Known(RowData', hashtable', globals')
         /\ outcome' = "running" /\ main' = "lookup" =>
              Lookups(RowData', hashtable', globals', failures', proposed', stores', slice', tasks', UNION kept')
    BY <1>1, <1>9, <1>10, <1>11, <1>12
  <1>14. failures' \in Nat /\ outcome' \in {"running", "terminated", "threw", "answered"}
    BY <1>1 DEF HalfInv
  <1>15. QED
    BY <1>8, <1>9, <1>13, <1>14 DEF HalfInv

\* Committing edges: those of a file lead to rows of it, which have known ids.
LEMMA CommitEdgesStep ==
  ASSUME HalfInv, commit_edges
  PROVE  HalfInv'
  <1>1. /\ main = "edges"
        /\ UNCHANGED <<hashtable, idhash, files, globals, slice, proposed, stores, tasks, kept, commitables, main,
                       writer, task, failures>>
    BY DEF commit_edges, reading
  <1>2. AllRows' = AllRows
    BY <1>1 DEF AllRows
  <1>3. RowData' = RowData
    BY <1>1, <1>2 DEF RowData, DataAt
  <1>4. files \in Seq(Firsthalf) /\ Len(files) \in Nat /\ remaining \in 0..Len(files)
    BY LenProperties DEF HalfInv
  <1>5. Known(RowData, hashtable, globals)
    BY DEF HalfInv
  <1>6. DOMAIN RowData = AllRows /\ \A r \in AllRows : RowData[r] = DataAt(r)
    BY <1>4, RowsOfData
  <1>7. remaining' \in 0..Len(files) /\ EdgesLeadToOutputs' /\ outcome' \in {"running", "terminated", "threw", "answered"}
    <2>1. PICK left \in 0..(remaining - 1) :
            \/ outcome' = "threw" /\ UNCHANGED <<remaining, edges>>
            \/ /\ Mapped((left + 1)..remaining)
               /\ edges' = edges \cup
                    UNION {{[input |-> p.input1, output |-> globals[<<f, p.output1>>]] : p \in files[f].provs} :
                             f \in (left + 1)..remaining}
               /\ remaining' = left
               /\ outcome' = IF left = 0 THEN "answered" ELSE outcome
      BY DEF commit_edges
    <2>2. CASE outcome' = "threw" /\ UNCHANGED <<remaining, edges>>
      BY <1>1, <1>4, <2>2 DEF HalfInv, EdgesLeadToOutputs
    <2>3. CASE /\ Mapped((left + 1)..remaining)
               /\ edges' = edges \cup
                    UNION {{[input |-> p.input1, output |-> globals[<<f, p.output1>>]] : p \in files[f].provs} :
                             f \in (left + 1)..remaining}
               /\ remaining' = left
               /\ outcome' = IF left = 0 THEN "answered" ELSE outcome
      <3>1. remaining' \in 0..Len(files) /\ (remaining + 1)..Len(files) \subseteq (left + 1)..Len(files)
            /\ (left + 1)..remaining \subseteq (left + 1)..Len(files) /\ (left + 1)..remaining \subseteq 1..Len(files)
        BY <1>4, <2>3
      <3> DEFINE Right(e) == \E f \in (left + 1)..Len(files) : \E p \in files[f].provs : \E h \in DOMAIN hashtable :
                               /\ e.input = p.input1
                               /\ hashtable[h] = [data |-> files[f].rows[p.output1], id |-> e.output]
      <3>2. ASSUME NEW e \in edges PROVE Right(e)
        <4>1. PICK f \in (remaining + 1)..Len(files) : \E p \in files[f].provs : \E h \in DOMAIN hashtable :
                e.input = p.input1 /\ hashtable[h] = [data |-> files[f].rows[p.output1], id |-> e.output]
          BY DEF HalfInv, EdgesLeadToOutputs
        <4>2. f \in (left + 1)..Len(files)
          BY <3>1
        <4>3. QED BY <4>1, <4>2
      <3>3. ASSUME NEW f \in (left + 1)..remaining, NEW p \in files[f].provs
            PROVE  Right([input |-> p.input1, output |-> globals[<<f, p.output1>>]])
        <4> DEFINE r == <<f, p.output1>>
        <4>1. f \in 1..Len(files) /\ f \in (left + 1)..Len(files)
          BY <3>1
        <4>2. files[f] \in Firsthalf
          BY <1>4, <4>1, ElementOfSeq
        <4>3. p.output1 \in 1..Len(files[f].rows)
          BY <4>2 DEF Firsthalf
        <4>4. r \in AllRows
          BY <4>1, <4>3 DEF AllRows
        <4>5. r[1] = f /\ r[2] = p.output1
          OBVIOUS
        <4>6. DataAt(r) = files[f].rows[p.output1]
          BY <4>5 DEF DataAt
        <4> HIDE DEF r
        <4>7. globals[r] # Unassigned
          BY <2>3, <4>4, <4>5 DEF Mapped
        <4>8. PICK h \in DOMAIN hashtable : hashtable[h] = [data |-> DataAt(r), id |-> globals[r]]
          BY <1>5, <1>6, <4>4, <4>7 DEF Known
        <4>9. QED BY <4>1, <4>6, <4>8 DEF r
      <3>4. \A e \in edges' : Right(e)
        <4> HIDE DEF Right
        <4>1. \A e \in edges' :
                \/ e \in edges
                \/ \E f \in (left + 1)..remaining : \E p \in files[f].provs :
                     e = [input |-> p.input1, output |-> globals[<<f, p.output1>>]]
          BY <2>3
        <4>2. QED BY <3>2, <3>3, <4>1
      <3>5. EdgesLeadToOutputs'
        BY <1>1, <2>3, <3>4 DEF EdgesLeadToOutputs
      <3>6. outcome \in {"running", "terminated", "threw", "answered"}
        BY DEF HalfInv
      <3>7. QED BY <2>3, <3>1, <3>5, <3>6
    <2>4. QED BY <2>1, <2>2, <2>3
  <1>8. /\ InFlight(RowData', hashtable', globals', failures', main', slice', commitables', writer', task')
        /\ Known(RowData', hashtable', globals') /\ Intact(hashtable', idhash') /\ failures' \in Nat
    BY <1>1, <1>3 DEF HalfInv
  <1>9. QED
    BY <1>1, <1>4, <1>7, <1>8 DEF HalfInv

\* ranked lists the gadgets of t, and they get the next ids, in this order, in their rows.
Ranked(t, ranked) ==
  /\ Len(ranked) \in Nat /\ ranked \in Seq(t.gadgets)
  /\ \A i, j \in 1..Len(ranked) : ranked[i] = ranked[j] => i = j
  /\ \A x \in t.gadgets : \E n \in 1..Len(ranked) : ranked[n] = x
  /\ \A n \in 1..Len(ranked) :
       /\ ranked[n] \in t.gadgets
       /\ t.proposed[ranked[n].data] \in RowsIn(RowData, t.slice)
       /\ RowData[t.proposed[ranked[n].data]] = ranked[n].data
       /\ Assigned(t, ranked)[t.proposed[ranked[n].data]] = Len(idhash) + n
  /\ \A r \in AllRows : (\A n \in 1..Len(ranked) : t.proposed[ranked[n].data] # r) =>
       Assigned(t, ranked)[r] = globals[r]
  /\ Assigned(t, ranked) \in [AllRows -> Nat]

\* Each numbering that commit_secondhalf may choose lists the gadgets so.
LEMMA AssignedIds ==
  ASSUME HalfInv, NEW t, Commitable(RowData, hashtable, globals, failures, t),
         NEW ranked \in Numberings(t.gadgets)
  PROVE  Ranked(t, ranked)
  <1> DEFINE L == Len(ranked)
             row(n) == t.proposed[ranked[n].data]
             ids == Assigned(t, ranked)
  <1>1. Prepared(RowData, globals, t.proposed, t.stores, t.slice)
        /\ Survivors(hashtable, globals, t.proposed, t.gadgets)
    BY DEF Commitable
  <1>2. IsFiniteSet(t.gadgets) /\ ranked \in SetToSeqs(t.gadgets)
    BY <1>1 DEF Survivors, Numberings
  <1>3. /\ L \in Nat /\ ranked \in Seq(t.gadgets) /\ \A i, j \in 1..L : ranked[i] = ranked[j] => i = j
        /\ \A x \in t.gadgets : \E n \in 1..L : ranked[n] = x
    BY <1>2, ListOfSet
  <1>4. \A n \in 1..L : ranked[n] \in t.gadgets
    BY <1>3, ElementOfSeq
  <1>5. \A x \in t.gadgets : t.proposed[x.data] \in RowsIn(RowData, t.slice) /\ RowData[t.proposed[x.data]] = x.data
    <2>1. \A x \in t.gadgets : x.data \in DOMAIN t.proposed
      BY <1>1 DEF Survivors
    <2>2. QED BY <1>1, <2>1 DEF Prepared
  <1>6. \A n \in 1..L : row(n) \in RowsIn(RowData, t.slice) /\ RowData[row(n)] = ranked[n].data
    BY <1>4, <1>5
  <1>7. DOMAIN RowData = AllRows /\ RowsIn(RowData, t.slice) \subseteq AllRows
    BY SlicesOfRows DEF RowsIn
  <1>8. \A i, j \in 1..L : row(i) = row(j) => i = j
    <2> SUFFICES ASSUME NEW i \in 1..L, NEW j \in 1..L, row(i) = row(j) PROVE i = j
      OBVIOUS
    <2>1. ranked[i].data = ranked[j].data
      BY <1>6
    <2>2. ranked[i] = ranked[j]
      BY <1>1, <1>4, <2>1 DEF Survivors
    <2>3. QED BY <1>3, <2>2
  <1>9. \A r \in AllRows : ids[r] = IF \E n \in 1..L : row(n) = r
                                    THEN Len(idhash) + CHOOSE n \in 1..L : row(n) = r ELSE globals[r]
    BY DEF Assigned
  <1> HIDE DEF row, L
  <1>10. \A n \in 1..L : (CHOOSE k \in 1..L : row(k) = row(n)) = n
    BY <1>8
  <1>11. \A n \in 1..L : ids[row(n)] = Len(idhash) + n
    <2> HIDE DEF ids
    <2> QED BY <1>6, <1>7, <1>9, <1>10
  <1>12. \A r \in AllRows : (\A n \in 1..L : row(n) # r) => ids[r] = globals[r]
    <2> HIDE DEF ids
    <2> QED BY <1>9
  <1>13. ids \in [AllRows -> Nat]
    <2>1. globals \in [AllRows -> Nat]
      BY <1>7 DEF HalfInv, Known
    <2>2. Len(idhash) \in Nat
      BY LenProperties DEF HalfInv, Intact
    <2>3. ASSUME NEW r \in AllRows PROVE ids[r] \in Nat
      <3> HIDE DEF ids
      <3>1. CASE \E n \in 1..L : row(n) = r
        <4>1. PICK n \in 1..L : row(n) = r
          BY <3>1
        <4>2. n \in Nat
          BY <1>3 DEF L
        <4>3. QED BY <1>11, <2>2, <4>1, <4>2
      <3>2. CASE \A n \in 1..L : row(n) # r
        BY <1>12, <2>1, <3>2
      <3>3. QED BY <3>1, <3>2
    <2>4. ids = [r \in AllRows |-> ids[r]]
      BY DEF Assigned
    <2> HIDE DEF ids
    <2>5. QED BY <2>3, <2>4
  <1>14. QED BY <1>3, <1>4, <1>6, <1>11, <1>12, <1>13 DEF L, row, Ranked


\* Gadgets that are listed with their places: each is new to the table and was probed to a
\* place that is free and of no other gadget.
Listed(tab, list, L) ==
  /\ \A n \in 1..L : /\ list[n].data \in Gadget /\ list[n].hash \in Nat
                     /\ list[n].hash \notin DOMAIN tab /\ HashOf[list[n].data] <= list[n].hash
                     /\ \A h \in HashOf[list[n].data]..(list[n].hash - 1) :
                          h \in DOMAIN tab /\ tab[h].data # list[n].data
  /\ \A m, n \in 1..L : list[m].hash = list[n].hash \/ list[m].data = list[n].data => m = n

\* The table with the list, after M ids.
Entered(tab, list, M, L, new) ==
  /\ new = [h \in DOMAIN new |-> new[h]]
  /\ DOMAIN new = DOMAIN tab \cup {list[n].hash : n \in 1..L}
  /\ Extends(tab, new)
  /\ \A n \in 1..L : new[list[n].hash] = [data |-> list[n].data, id |-> M + n]

\* The index with the list.
Indexed(idh, list, L, ids) ==
  /\ ids \in Seq(Nat) /\ Len(ids) = Len(idh) + L
  /\ \A i \in 1..Len(idh) : ids[i] = idh[i]
  /\ \A n \in 1..L : ids[Len(idh) + n] = list[n].hash

\* The table and the index after listed gadgets went to their places.
LEMMA ListGrows ==
  ASSUME NEW tab, NEW idh, Intact(tab, idh), NEW list, NEW L \in Nat, Listed(tab, list, L),
         NEW new, Entered(tab, list, Len(idh), L, new), NEW ids, Indexed(idh, list, L, ids)
  PROVE  Intact(new, ids)
  <1> DEFINE P == {list[n].hash : n \in 1..L}
             M == Len(idh)
  <1>1. P \subseteq Nat /\ P \cap DOMAIN tab = {}
    BY DEF Listed
  <1>2. IsFiniteSet(P)
    <2> DEFINE D == 1..L
               placeOf == [n \in D |-> list[n].hash]
    <2>1. IsFiniteSet(D)
      <3>1. 1 \in Int /\ L \in Int
        OBVIOUS
      <3>2. QED BY <3>1, FS_Interval
    <2>2. placeOf \in Surjection(D, P)
      BY DEF Surjection
    <2> HIDE DEF D, placeOf, P
    <2>3. QED BY <2>1, <2>2, FS_Surjection
  <1>3. ASSUME NEW h \in P
        PROVE  \E n \in 1..L : h = list[n].hash /\ new[h] = [data |-> list[n].data, id |-> M + n]
    BY DEF Entered
  <1>4. \A n \in 1..L : list[n].hash \in P
    OBVIOUS
  <1>5. DOMAIN new = DOMAIN tab \cup P /\ new = [h \in DOMAIN new |-> new[h]] /\ Extends(tab, new)
    BY DEF Entered
  <1>6. M \in Nat
    BY LenProperties DEF Intact
  <1> HIDE DEF P, M
  <1>7. new \in [DOMAIN new -> [data : Gadget, id : Nat \ {0}]]
    <2>1. ASSUME NEW h \in DOMAIN tab PROVE new[h] \in [data : Gadget, id : Nat \ {0}]
      <3>1. tab[h] \in [data : Gadget, id : Nat \ {0}]
        BY DEF Intact
      <3>2. QED BY <1>5, <3>1 DEF Extends
    <2>2. ASSUME NEW h \in P PROVE new[h] \in [data : Gadget, id : Nat \ {0}]
      <3>1. PICK n \in 1..L : h = list[n].hash /\ new[h] = [data |-> list[n].data, id |-> M + n]
        BY <1>3
      <3>2. list[n].data \in Gadget
        BY DEF Listed
      <3>3. M + n \in Nat \ {0}
        BY <1>6
      <3>4. QED BY <3>1, <3>2, <3>3
    <2>3. QED BY <1>5, <2>1, <2>2
  <1>8. ASSUME NEW h \in P
        PROVE  /\ HashOf[new[h].data] <= h /\ Taken(tab, HashOf[new[h].data], h)
               /\ \A k \in DOMAIN tab : tab[k].data # new[h].data
    <2>1. PICK n \in 1..L : h = list[n].hash /\ new[h] = [data |-> list[n].data, id |-> M + n]
      BY <1>3
    <2> DEFINE g == list[n].data
    <2>2. new[h].data = g /\ g \in Gadget
      BY <2>1 DEF Listed
    <2>3. /\ h \in Nat /\ h \notin DOMAIN tab /\ HashOf[g] <= h
          /\ \A k \in HashOf[g]..(h - 1) : k \in DOMAIN tab /\ tab[k].data # g
      BY <2>1 DEF Listed
    <2> HIDE DEF g
    <2>4. HashOf[g] \in Nat
      BY <2>2, SecondhalfAssumption
    <2>5. \A k \in DOMAIN tab : tab[k].data # g
      BY <2>3, <2>4, NotStored
    <2>6. QED BY <2>2, <2>3, <2>5 DEF Taken
  <1>9. ASSUME NEW g \in P, NEW h \in P, new[g].data = new[h].data
        PROVE  g = h
    <2>1. PICK m \in 1..L : g = list[m].hash /\ new[g] = [data |-> list[m].data, id |-> M + m]
      BY <1>3
    <2>2. PICK n \in 1..L : h = list[n].hash /\ new[h] = [data |-> list[n].data, id |-> M + n]
      BY <1>3
    <2>3. list[m].data = list[n].data
      BY <1>9, <2>1, <2>2
    <2>4. m = n
      BY <2>3 DEF Listed
    <2>5. QED BY <2>1, <2>2, <2>4
  <1>10. ASSUME NEW h \in P
        PROVE  new[h].id \in (M + 1)..(M + L) /\ ids[new[h].id] = h
    <2>1. PICK n \in 1..L : h = list[n].hash /\ new[h] = [data |-> list[n].data, id |-> M + n]
      BY <1>3
    <2>2. new[h].id = M + n /\ M + n \in (M + 1)..(M + L)
      BY <1>6, <2>1
    <2>3. ids[M + n] = list[n].hash
      BY DEF Indexed, M
    <2>4. QED BY <2>1, <2>2, <2>3
  <1>11. ASSUME NEW i \in (M + 1)..(M + L)
         PROVE  ids[i] \in P /\ new[ids[i]].id = i
    <2>1. i - M \in 1..L /\ M + (i - M) = i
      BY <1>6
    <2>2. ids[M + (i - M)] = list[i - M].hash
      BY <2>1 DEF Indexed, M
    <2>3. new[list[i - M].hash] = [data |-> list[i - M].data, id |-> M + (i - M)]
      BY <2>1 DEF Entered, M
    <2>4. QED BY <1>4, <2>1, <2>2, <2>3
  <1>12. /\ ids \in Seq(Nat) /\ Len(idh) <= Len(ids) /\ \A i \in 1..Len(idh) : ids[i] = idh[i]
         /\ Len(ids) = M + L
    <2>1. ids \in Seq(Nat) /\ Len(ids) = M + L /\ \A i \in 1..Len(idh) : ids[i] = idh[i]
      BY DEF Indexed, M
    <2>2. M <= M + L
      BY <1>6
    <2>3. QED BY <2>1, <2>2 DEF M
  <1>13. /\ \A h \in P : new[h].id \in (Len(idh) + 1)..Len(ids) /\ ids[new[h].id] = h
         /\ \A i \in (Len(idh) + 1)..Len(ids) : ids[i] \in P /\ new[ids[i]].id = i
    BY <1>10, <1>11, <1>12 DEF M
  <1>14. \A g, h \in P : new[g].data = new[h].data => g = h
    BY <1>9
  <1>15. \A h \in P : /\ HashOf[new[h].data] <= h /\ Taken(tab, HashOf[new[h].data], h)
                      /\ \A k \in DOMAIN tab : tab[k].data # new[h].data
    BY <1>8
  <1>16. QED BY <1>1, <1>2, <1>5, <1>7, <1>12, <1>13, <1>14, <1>15, TableGrows

\* The table after the gadgets of a slice went to their places, with the ids of their rows.
Inserted(t, ranked, new) ==
  /\ \A x \in t.gadgets : x.hash \notin DOMAIN hashtable
  /\ \A x, y \in t.gadgets : x # y => x.hash # y.hash
  /\ new = [h \in DOMAIN new |-> new[h]]
  /\ DOMAIN new = DOMAIN hashtable \cup {x.hash : x \in t.gadgets}
  /\ Extends(hashtable, new)
  /\ \A x \in t.gadgets :
       new[x.hash] = [data |-> x.data, id |-> Assigned(t, ranked)[t.proposed[x.data]]]

\* A committed slice keeps the table intact, and its gadgets have the next ids.
LEMMA CommitGrows ==
  ASSUME HalfInv, NEW t, Commitable(RowData, hashtable, globals, failures, t),
         NEW ranked \in Numberings(t.gadgets), NEW new, Inserted(t, ranked, new)
  PROVE  /\ Intact(new, idhash \o Hashes(ranked))
         /\ \A n \in 1..Len(ranked) :
              ranked[n].hash \in DOMAIN new
              /\ new[ranked[n].hash] = [data |-> ranked[n].data, id |-> Len(idhash) + n]
  <1> DEFINE ids == idhash \o Hashes(ranked)
             L == Len(ranked)
             M == Len(idhash)
  <1>1. Intact(hashtable, idhash) /\ Survivors(hashtable, globals, t.proposed, t.gadgets)
        /\ Prepared(RowData, globals, t.proposed, t.stores, t.slice)
    BY DEF HalfInv, Commitable
  <1>2. /\ L \in Nat /\ ranked \in Seq(t.gadgets)
        /\ \A i, j \in 1..L : ranked[i] = ranked[j] => i = j
        /\ \A x \in t.gadgets : \E n \in 1..L : ranked[n] = x
        /\ \A n \in 1..L : /\ ranked[n] \in t.gadgets
                           /\ Assigned(t, ranked)[t.proposed[ranked[n].data]] = M + n
    <2>1. Ranked(t, ranked)
      BY AssignedIds
    <2>2. QED BY <2>1 DEF Ranked, L, M
  <1>3. M \in Nat /\ idhash \in Seq(Nat)
    BY <1>1, LenProperties DEF Intact
  <1> HIDE DEF L, M
  <1>4. ASSUME NEW x \in t.gadgets
        PROVE  /\ x.data \in Gadget /\ x.hash \in Nat /\ HashOf[x.data] <= x.hash
               /\ \A h \in HashOf[x.data]..(x.hash - 1) : h \in DOMAIN hashtable /\ hashtable[h].data # x.data
    <2>1. /\ x \in [data : DOMAIN t.proposed, hash : Nat] /\ HashOf[x.data] <= x.hash
          /\ \A h \in HashOf[x.data]..(x.hash - 1) : h \in DOMAIN hashtable /\ hashtable[h].data # x.data
      BY <1>1 DEF Survivors
    <2>2. RowData \in [AllRows -> Gadget]
      BY RowsOfData DEF HalfInv
    <2>3. DOMAIN t.proposed = GadgetsIn(RowData, t.slice)
      BY <1>1 DEF Prepared
    <2>4. x.data \in Gadget
      BY <2>1, <2>2, <2>3 DEF GadgetsIn, RowsIn
    <2>5. QED BY <2>1, <2>4
  <1>5. \A n \in 1..L : new[ranked[n].hash] = [data |-> ranked[n].data, id |-> M + n]
    BY <1>2 DEF Inserted
  <1>6. {x.hash : x \in t.gadgets} = {ranked[n].hash : n \in 1..L}
    <2>1. \A x \in t.gadgets : \E n \in 1..L : x.hash = ranked[n].hash
      <3>1. \A x \in t.gadgets : \E n \in 1..L : ranked[n] = x
        BY <1>2
      <3>2. QED BY <3>1
    <2>2. \A n \in 1..L : ranked[n] \in t.gadgets
      BY <1>2
    <2>3. QED BY <2>1, <2>2
  <1>7. DOMAIN new = DOMAIN hashtable \cup {ranked[n].hash : n \in 1..L}
    BY <1>6 DEF Inserted
  <1>8. \A n \in 1..L : ranked[n].hash \in DOMAIN new
    BY <1>7
  <1>9. ASSUME NEW n \in 1..L
        PROVE  /\ ranked[n].data \in Gadget /\ ranked[n].hash \in Nat
               /\ ranked[n].hash \notin DOMAIN hashtable /\ HashOf[ranked[n].data] <= ranked[n].hash
               /\ \A h \in HashOf[ranked[n].data]..(ranked[n].hash - 1) :
                    h \in DOMAIN hashtable /\ hashtable[h].data # ranked[n].data
    <2>1. ranked[n] \in t.gadgets
      BY <1>2
    <2>2. ranked[n].hash \notin DOMAIN hashtable
      BY <2>1 DEF Inserted
    <2>3. QED BY <1>4, <2>1, <2>2
  <1>10. \A m, n \in 1..L :
           ranked[m].hash = ranked[n].hash \/ ranked[m].data = ranked[n].data => m = n
    <2> SUFFICES ASSUME NEW m \in 1..L, NEW n \in 1..L,
                        ranked[m].hash = ranked[n].hash \/ ranked[m].data = ranked[n].data
                 PROVE  m = n
      OBVIOUS
    <2>1. ranked[m] \in t.gadgets /\ ranked[n] \in t.gadgets
      BY <1>2
    <2>2. ranked[m] = ranked[n]
      BY <1>1, <2>1 DEF Survivors, Inserted
    <2>3. QED BY <1>2, <2>2
  <1>11. /\ ids \in Seq(Nat) /\ Len(ids) = M + L /\ \A i \in 1..M : ids[i] = idhash[i]
         /\ \A n \in 1..L : ids[M + n] = ranked[n].hash
    <2> DEFINE more == Hashes(ranked)
    <2>1. more = [n \in 1..L |-> ranked[n].hash]
      BY DEF Hashes, L
    <2> HIDE DEF more
    <2>2. more \in Seq(Nat) /\ Len(more) = L /\ \A n \in 1..L : more[n] = ranked[n].hash
      <3>1. \A n \in 1..L : ranked[n].hash \in Nat
        BY <1>9
      <3>2. more \in [1..L -> Nat]
        BY <2>1, <3>1
      <3>3. L \in Nat
        BY <1>2
      <3>4. QED BY <2>1, <3>2, <3>3
    <2>3. idhash \o more \in Seq(Nat) /\ Len(idhash \o more) = M + L
      BY <1>3, <2>2, ConcatProperties DEF M
    <2>4. \A i \in 1..(M + L) : (idhash \o more)[i] = IF i <= M THEN idhash[i] ELSE more[i - M]
      BY <1>3, <2>2, ConcatProperties DEF M
    <2>5. \A n \in 1..L : (idhash \o more)[M + n] = ranked[n].hash
      <3> TAKE n \in 1..L
      <3>1. M + n \in 1..(M + L) /\ ~(M + n <= M) /\ (M + n) - M = n
        BY <1>2, <1>3
      <3>2. QED BY <2>2, <2>4, <3>1
    <2>6. \A i \in 1..M : (idhash \o more)[i] = idhash[i]
      <3> TAKE i \in 1..M
      <3>1. i \in 1..(M + L) /\ i <= M
        BY <1>2, <1>3
      <3>2. QED BY <2>4, <3>1
    <2>7. QED BY <2>3, <2>5, <2>6 DEF more
  <1> HIDE DEF ids
  <1>12. Listed(hashtable, ranked, L)
    BY <1>9, <1>10 DEF Listed
  <1>13. Entered(hashtable, ranked, Len(idhash), L, new)
    BY <1>5, <1>7 DEF Entered, Inserted, M
  <1>14. Indexed(idhash, ranked, L, ids)
    BY <1>11 DEF Indexed, M
  <1>15. Intact(new, ids)
    BY <1>1, <1>2, <1>12, <1>13, <1>14, ListGrows
  <1>16. QED BY <1>5, <1>8, <1>15 DEF ids, L, M

\* A committed slice: ids are known of its rows, the copied ones included, and the
\* rows of other slices keep theirs.
LEMMA CommittedIds ==
  ASSUME HalfInv, NEW t, Commitable(RowData, hashtable, globals, failures, t),
         NEW ranked \in Numberings(t.gadgets), NEW new, Inserted(t, ranked, new)
  PROVE  /\ Known(RowData, new, Copied(Assigned(t, ranked), t))
         /\ \A r \in AllRows : r \notin RowsIn(RowData, t.slice) => Copied(Assigned(t, ranked), t)[r] = globals[r]
  <1> DEFINE glob == Assigned(t, ranked)
             copied == Copied(glob, t)
             Right(r, id) == \E h \in DOMAIN new : new[h] = [data |-> RowData[r], id |-> id]
  <1>1. /\ \A n \in 1..Len(ranked) : /\ t.proposed[ranked[n].data] \in RowsIn(RowData, t.slice)
                                     /\ RowData[t.proposed[ranked[n].data]] = ranked[n].data
                                     /\ glob[t.proposed[ranked[n].data]] = Len(idhash) + n
        /\ \A r \in AllRows : (\A n \in 1..Len(ranked) : t.proposed[ranked[n].data] # r) => glob[r] = globals[r]
        /\ glob \in [AllRows -> Nat]
    <2>1. Ranked(t, ranked)
      BY AssignedIds
    <2>2. QED BY <2>1 DEF Ranked
  <1>2. \A n \in 1..Len(ranked) :
          /\ ranked[n].hash \in DOMAIN new
          /\ new[ranked[n].hash] = [data |-> ranked[n].data, id |-> Len(idhash) + n]
    BY CommitGrows
  <1>3. Prepared(RowData, globals, t.proposed, t.stores, t.slice)
    BY DEF Commitable
  <1>4. DOMAIN RowData = AllRows /\ RowsIn(RowData, t.slice) \subseteq AllRows
    BY SlicesOfRows DEF RowsIn
  <1>5. Extends(hashtable, new) /\ Known(RowData, hashtable, globals)
    BY DEF Inserted, HalfInv
  <1> HIDE DEF glob
  <1>6. ASSUME NEW r \in AllRows, glob[r] # Unassigned PROVE Right(r, glob[r])
    <2>1. CASE \E n \in 1..Len(ranked) : t.proposed[ranked[n].data] = r
      <3>1. PICK n \in 1..Len(ranked) : t.proposed[ranked[n].data] = r
        BY <2>1
      <3>2. RowData[r] = ranked[n].data /\ glob[r] = Len(idhash) + n
        BY <1>1, <3>1
      <3>3. QED BY <1>2, <3>2
    <2>2. CASE \A n \in 1..Len(ranked) : t.proposed[ranked[n].data] # r
      <3>1. glob[r] = globals[r]
        BY <1>1, <2>2
      <3>2. PICK h \in DOMAIN hashtable : hashtable[h] = [data |-> RowData[r], id |-> globals[r]]
        BY <1>4, <1>5, <1>6, <3>1 DEF Known
      <3>3. QED BY <1>5, <3>1, <3>2 DEF Extends
    <2>3. QED BY <2>1, <2>2
  <1>7. ASSUME NEW p \in t.stores
        PROVE  p[1] \in RowsIn(RowData, t.slice) /\ p[2] \in AllRows /\ RowData[p[2]] = RowData[p[1]]
    <2>1. PICK r \in RowsIn(RowData, t.slice) : p = <<r, t.proposed[RowData[r]]>>
      BY <1>3 DEF Prepared
    <2>2. RowData[r] \in DOMAIN t.proposed
      BY <1>3 DEF Prepared, GadgetsIn
    <2>3. t.proposed[RowData[r]] \in RowsIn(RowData, t.slice) /\ RowData[t.proposed[RowData[r]]] = RowData[r]
      BY <1>3, <2>2 DEF Prepared
    <2>4. p[1] = r /\ p[2] = t.proposed[RowData[r]]
      BY <2>1
    <2>5. QED BY <1>4, <2>3, <2>4
  <1>8. ASSUME NEW r \in AllRows
        PROVE  \/ copied[r] = glob[r] /\ \A p \in t.stores : p[1] # r
               \/ \E p \in t.stores : p[1] = r /\ copied[r] = glob[p[2]]
    <2>1. copied[r] = IF \E p \in t.stores : p[1] = r THEN glob[(CHOOSE p \in t.stores : p[1] = r)[2]] ELSE glob[r]
      BY DEF Copied
    <2>2. CASE \E p \in t.stores : p[1] = r
      <3> DEFINE q == CHOOSE p \in t.stores : p[1] = r
      <3>1. q \in t.stores /\ q[1] = r
        BY <2>2
      <3>2. copied[r] = glob[q[2]]
        BY <2>1, <2>2
      <3> HIDE DEF q, copied
      <3>3. QED BY <3>1, <3>2
    <2>3. CASE \A p \in t.stores : p[1] # r
      BY <2>1, <2>3
    <2>4. QED BY <2>2, <2>3
  <1>9. copied = [r \in AllRows |-> copied[r]]
    BY DEF Copied
  <1> HIDE DEF copied
  <1>10. ASSUME NEW r \in AllRows
         PROVE  copied[r] \in Nat /\ (copied[r] # Unassigned => Right(r, copied[r]))
    <2>1. CASE copied[r] = glob[r]
      BY <1>1, <1>6, <2>1
    <2>2. CASE \E p \in t.stores : p[1] = r /\ copied[r] = glob[p[2]]
      <3>1. PICK p \in t.stores : p[1] = r /\ copied[r] = glob[p[2]]
        BY <2>2
      <3>2. p[2] \in AllRows /\ RowData[p[2]] = RowData[r]
        BY <1>7, <3>1
      <3>3. copied[r] # Unassigned => Right(p[2], copied[r])
        BY <1>6, <3>1, <3>2
      <3>4. copied[r] \in Nat
        BY <1>1, <3>1, <3>2
      <3>5. QED BY <3>2, <3>3, <3>4
    <2>3. QED BY <1>8, <2>1, <2>2
  <1>11. ASSUME NEW r \in AllRows, r \notin RowsIn(RowData, t.slice)
         PROVE  copied[r] = globals[r]
    <2>1. \A p \in t.stores : p[1] # r
      BY <1>7, <1>11
    <2>2. copied[r] = glob[r]
      BY <1>8, <2>1
    <2>3. glob[r] = globals[r]
      BY <1>1, <1>11
    <2>4. QED BY <2>2, <2>3
  <1>12. Known(RowData, new, copied)
    <2>1. copied \in [AllRows -> Nat]
      <3> HIDE DEF Right
      <3> QED BY <1>9, <1>10
    <2>2. QED BY <1>4, <1>10, <2>1 DEF Known
  <1>13. QED BY <1>11, <1>12 DEF copied, glob

\* What commit_secondhalf does with a slice that it does not refuse.
LEMMA PlacedGadgets ==
  ASSUME NEW t, NEW ranked, t.gadgets = {} \/ ~Refused(t),
         NEW new,
         new = [h \in DOMAIN hashtable \cup {x.hash : x \in t.gadgets} |->
                  IF h \in {x.hash : x \in t.gadgets}
                  THEN [data |-> (CHOOSE x \in t.gadgets : x.hash = h).data,
                        id |-> Assigned(t, ranked)[t.proposed[(CHOOSE x \in t.gadgets : x.hash = h).data]]]
                  ELSE hashtable[h]]
  PROVE  Inserted(t, ranked, new)
  <1> DEFINE placed == {x.hash : x \in t.gadgets}
             gadgetAt(h) == CHOOSE x \in t.gadgets : x.hash = h
             row(x) == t.proposed[x.data]
             assigned == Assigned(t, ranked)
  <1>1. \A x \in t.gadgets : x.hash \notin DOMAIN hashtable
    BY DEF Refused
  <1>2. \A x, y \in t.gadgets : x # y => x.hash # y.hash
    BY DEF Refused
  <1>3. placed \cap DOMAIN hashtable = {} /\ \A x \in t.gadgets : x.hash \in placed
    BY <1>1
  <1>4. \A x \in t.gadgets : gadgetAt(x.hash) = x
    BY <1>2
  <1> HIDE DEF placed, gadgetAt, assigned
  <1>5. new = [h \in DOMAIN hashtable \cup placed |->
                 IF h \in placed THEN [data |-> gadgetAt(h).data, id |-> assigned[row(gadgetAt(h))]] ELSE hashtable[h]]
    BY DEF placed, gadgetAt, assigned
  <1> HIDE DEF row
  <1>6. new = [h \in DOMAIN new |-> new[h]] /\ DOMAIN new = DOMAIN hashtable \cup placed
    BY <1>5
  <1>7. Extends(hashtable, new)
    BY <1>3, <1>5 DEF Extends
  <1>8. \A x \in t.gadgets : new[x.hash] = [data |-> x.data, id |-> assigned[row(x)]]
    BY <1>3, <1>4, <1>5
  <1>9. QED BY <1>1, <1>2, <1>6, <1>7, <1>8 DEF Inserted, placed, assigned, row

\* The writer commits a slice, or meets a taken place and ends the process.
LEMMA CommitStep ==
  ASSUME HalfInv, writer_commits
  PROVE  HalfInv'
  <1>1. /\ writer = "commit" /\ outcome = "running" /\ writer' = "take" /\ commit_secondhalf(task)
        /\ UNCHANGED <<edges, files, remaining, slice, proposed, stores, tasks, kept, commitables, main, failures>>
    BY DEF writer_commits, reading
  <1>2. PICK t : t = task
    OBVIOUS
  <1>3. InFlight(RowData, hashtable, globals, failures, main, slice, commitables, writer, task)
    BY DEF HalfInv
  <1>4. /\ t.slice \in Nat /\ slice \in Nat /\ t.slice < slice
        /\ Commitable(RowData, hashtable, globals, failures, t)
        /\ commitables # <<>> /\ commitables # <<nullopt>> => t.slice < commitables[1].slice
    BY <1>1, <1>2, <1>3 DEF InFlight
  <1>5. /\ Extends(hashtable, hashtable') /\ Intact(hashtable', idhash')
        /\ Known(RowData, hashtable', globals')
        /\ \A r \in AllRows : r \notin RowsIn(RowData, t.slice) => globals'[r] = globals[r]
        /\ outcome' \in {"running", "terminated", "threw", "answered"}
    <2>1. CASE outcome' = "terminated" /\ UNCHANGED <<hashtable, idhash, globals>>
      BY <2>1 DEF HalfInv, Extends
    <2>2. CASE /\ t.gadgets = {} \/ ~Refused(t)
               /\ \E ranked \in Numberings(t.gadgets) :
                    /\ hashtable' = [h \in DOMAIN hashtable \cup {x.hash : x \in t.gadgets} |->
                         IF h \in {x.hash : x \in t.gadgets}
                         THEN [data |-> (CHOOSE x \in t.gadgets : x.hash = h).data,
                               id |-> Assigned(t, ranked)[t.proposed[(CHOOSE x \in t.gadgets : x.hash = h).data]]]
                         ELSE hashtable[h]]
                    /\ idhash' = idhash \o Hashes(ranked)
                    /\ globals' = Copied(Assigned(t, ranked), t)
                    /\ outcome' = IF CopyThrows(Assigned(t, ranked), t) THEN "terminated" ELSE outcome
      <3>1. PICK ranked \in Numberings(t.gadgets) :
              /\ hashtable' = [h \in DOMAIN hashtable \cup {x.hash : x \in t.gadgets} |->
                   IF h \in {x.hash : x \in t.gadgets}
                   THEN [data |-> (CHOOSE x \in t.gadgets : x.hash = h).data,
                         id |-> Assigned(t, ranked)[t.proposed[(CHOOSE x \in t.gadgets : x.hash = h).data]]]
                   ELSE hashtable[h]]
              /\ idhash' = idhash \o Hashes(ranked)
              /\ globals' = Copied(Assigned(t, ranked), t)
              /\ outcome' = IF CopyThrows(Assigned(t, ranked), t) THEN "terminated" ELSE outcome
        BY <2>2
      <3>2. PICK new : new = hashtable'
        OBVIOUS
      <3>3. Inserted(t, ranked, new)
        <4>1. new = [h \in DOMAIN hashtable \cup {x.hash : x \in t.gadgets} |->
                       IF h \in {x.hash : x \in t.gadgets}
                       THEN [data |-> (CHOOSE x \in t.gadgets : x.hash = h).data,
                             id |-> Assigned(t, ranked)[t.proposed[(CHOOSE x \in t.gadgets : x.hash = h).data]]]
                       ELSE hashtable[h]]
          BY <3>1, <3>2
        <4>2. QED BY <2>2, <4>1, PlacedGadgets
      <3>4. Intact(new, idhash \o Hashes(ranked))
        BY <1>4, <3>3, CommitGrows
      <3>5. /\ Known(RowData, new, Copied(Assigned(t, ranked), t))
            /\ \A r \in AllRows : r \notin RowsIn(RowData, t.slice) =>
                 Copied(Assigned(t, ranked), t)[r] = globals[r]
        BY <1>4, <3>3, CommittedIds
      <3>6. Extends(hashtable, new)
        BY <3>3 DEF Inserted
      <3>7. outcome' \in {"running", "terminated", "threw", "answered"}
        BY <1>1, <3>1
      <3>8. QED BY <3>1, <3>2, <3>4, <3>5, <3>6, <3>7
    <2>3. QED BY <1>1, <1>2, <2>1, <2>2 DEF commit_secondhalf
  <1>6. /\ AllRows' = AllRows /\ RowData' = RowData /\ files' \in Seq(Firsthalf) /\ remaining' \in 0..Len(files')
        /\ EdgesLeadToOutputs'
    BY <1>1, <1>5, SameRows
  <1>7. DOMAIN RowData = AllRows /\ \A r \in AllRows : SliceOf(HashOf[RowData[r]]) \in Nat
    BY SlicesOfRows
  <1>8. \A n : n # t.slice => \A r \in RowsIn(RowData, n) : globals'[r] = globals[r]
    BY <1>5, <1>7 DEF RowsIn
  <1>9. InFlight(RowData, hashtable', globals', failures, main, slice, commitables, "take", nullopt)
    <2>1. Untouched(RowData, globals', main, slice)
      <3> SUFFICES ASSUME NEW r \in AllRows,
                          \/ SliceOf(HashOf[RowData[r]]) > slice
                          \/ SliceOf(HashOf[RowData[r]]) = slice /\ main # "lookup"
                   PROVE  globals'[r] = Unassigned
        BY <1>7 DEF Untouched
      <3>1. globals[r] = Unassigned
        BY <1>3, <1>7 DEF InFlight, Untouched
      <3>2. r \notin RowsIn(RowData, t.slice)
        BY <1>4, <1>7 DEF RowsIn
      <3>3. QED BY <1>5, <3>1, <3>2
    <2>2. CASE commitables = <<>> \/ commitables = <<nullopt>>
      BY <1>4, <2>1, <2>2 DEF InFlight
    <2>3. CASE commitables # <<>> /\ commitables # <<nullopt>>
      <3>1. PICK c : c = commitables[1]
        OBVIOUS
      <3>2. /\ commitables = <<c>> /\ c.slice \in Nat /\ c.slice < slice
            /\ Commitable(RowData, hashtable, globals, failures, c)
        BY <1>3, <2>3, <3>1 DEF InFlight
      <3>3. c.slice # t.slice
        BY <1>4, <2>3, <3>1, <3>2
      <3>4. \A r \in RowsIn(RowData, c.slice) : globals'[r] = globals[r]
        BY <1>8, <3>3
      <3>5. Commitable(RowData, hashtable', globals', failures, c)
        BY <1>5, <3>2, <3>4, CommitableKept
      <3>6. QED BY <1>4, <2>1, <3>1, <3>2, <3>5 DEF InFlight
    <2>4. QED BY <2>2, <2>3
  <1>10. outcome' = "running" /\ main = "lookup" =>
           Lookups(RowData, hashtable', globals', failures, proposed, stores, slice, tasks, UNION kept)
    <2> SUFFICES ASSUME main = "lookup"
                 PROVE  Lookups(RowData, hashtable', globals', failures, proposed, stores, slice, tasks, UNION kept)
      OBVIOUS
    <2>1. Lookups(RowData, hashtable, globals, failures, proposed, stores, slice, tasks, UNION kept)
      BY <1>1 DEF HalfInv
    <2>2. \A r \in RowsIn(RowData, slice) : globals'[r] = globals[r]
      BY <1>4, <1>8
    <2>3. QED BY <1>5, <2>1, <2>2, LookupsKept
  <1>11. task' = nullopt
    BY DEF writer_commits
  <1>12. /\ InFlight(RowData', hashtable', globals', failures', main', slice', commitables', writer', task')
         /\ Known(RowData', hashtable', globals')
         /\ outcome' = "running" /\ main' = "lookup" =>
              Lookups(RowData', hashtable', globals', failures', proposed', stores', slice', tasks', UNION kept')
    BY <1>1, <1>5, <1>6, <1>9, <1>10, <1>11
  <1>13. failures' \in Nat
    BY <1>1 DEF HalfInv
  <1>14. QED
    BY <1>5, <1>6, <1>12, <1>13 DEF HalfInv

-----------------------------------------------------------------------------
(* The theorem.                                                            *)

\* Every step keeps the invariant.
LEMMA NextInv == HalfInv /\ [HalfNext]_halfVars => HalfInv'
  <1> SUFFICES ASSUME HalfInv, [HalfNext]_halfVars PROVE HalfInv'
    OBVIOUS
  <1>1. CASE prepare
    BY <1>1, PrepareStep
  <1>2. CASE put_slice
    BY <1>2, PutSliceStep
  <1>3. CASE put_end
    BY <1>3, PutEndStep
  <1>4. CASE join
    BY <1>4, JoinStep
  <1>5. CASE commit_edges
    BY <1>5, CommitEdgesStep
  <1>6. CASE \E range \in tasks : lookup(range)
    BY <1>6, LookupStep
  <1>7. CASE \E range \in tasks : lookup_throws(range)
    BY <1>7, LookupThrowsStep
  <1>8. CASE writer_takes
    BY <1>8, TakeStep
  <1>9. CASE writer_commits
    BY <1>9, CommitStep
  <1>10. CASE \E g \in Strangers : stranger_inserts(g)
    BY <1>10, StrangerStep
  <1>11. CASE UNCHANGED halfVars
    <2>1. UNCHANGED <<hashtable, idhash, edges, files, remaining, globals, slice, proposed, stores, tasks, kept,
                      commitables, main, writer, task, outcome, failures>>
      BY <1>11 DEF halfVars, database, reading
    <2>2. Extends(hashtable, hashtable')
      BY <2>1 DEF Extends
    <2>3. RowData' = RowData /\ files' \in Seq(Firsthalf) /\ remaining' \in 0..Len(files') /\ EdgesLeadToOutputs'
      BY <2>1, <2>2, SameRows
    <2>4. QED BY <2>1, <2>3 DEF HalfInv
  <1>12. QED
    BY <1>1, <1>2, <1>3, <1>4, <1>5, <1>6, <1>7, <1>8, <1>9, <1>10, <1>11 DEF HalfNext, HalfStep

\* The invariant says what is wanted of the database and of the copied ids.
LEMMA InvImpliesCorrect == HalfInv => SecondhalfCorrect
  <1> SUFFICES ASSUME HalfInv PROVE SecondhalfCorrect
    OBVIOUS
  <1>1. Intact(hashtable, idhash) /\ EdgesLeadToOutputs
        /\ InFlight(RowData, hashtable, globals, failures, main, slice, commitables, writer, task)
    BY DEF HalfInv
  <1>2. HalfTypeOK
    <2>1. \A h \in DOMAIN hashtable : hashtable[h].data \in Gadget /\ hashtable[h].id \in 1..Len(idhash)
      BY <1>1 DEF Intact
    <2>2. Len(commitables) <= 1
      <3>1. commitables = <<>> \/ commitables = <<commitables[1]>>
        BY <1>1 DEF InFlight
      <3>2. CASE commitables = <<>>
        BY <3>2
      <3>3. CASE commitables = <<commitables[1]>>
        <4>1. PICK c : commitables = <<c>>
          BY <3>3
        <4>2. QED BY <4>1
      <3>4. QED BY <3>1, <3>2, <3>3
    <2>3. QED BY <2>1, <2>2 DEF HalfTypeOK, HalfInv
  <1>3. StoredOnceAndFound
    BY <1>1 DEF Intact, Taken, StoredOnceAndFound
  <1>4. IdsIndexed
    BY <1>1 DEF Intact, IdsIndexed
  <1>5. CopiesAssignedIds
    <2> SUFFICES ASSUME writer = "commit"
                 PROVE  /\ \A x \in task.gadgets : globals[task.proposed[x.data]] = Unassigned
                        /\ failures = 0 =>
                             \A p \in task.stores :
                               /\ globals[p[1]] = Unassigned
                               /\ \/ globals[p[2]] # Unassigned
                                  \/ \E x \in task.gadgets : task.proposed[x.data] = p[2]
      BY DEF CopiesAssignedIds
    <2>1. Commitable(RowData, hashtable, globals, failures, task)
      BY <1>1 DEF InFlight
    <2>2. \A x \in task.gadgets : globals[task.proposed[x.data]] = Unassigned
      BY <2>1 DEF Commitable, Survivors
    <2>3. ASSUME failures = 0, NEW p \in task.stores
          PROVE  /\ globals[p[1]] = Unassigned
                 /\ globals[p[2]] # Unassigned \/ \E x \in task.gadgets : task.proposed[x.data] = p[2]
      <3>1. PICK r \in RowsIn(RowData, task.slice) :
              p = <<r, task.proposed[RowData[r]]>> /\ task.proposed[RowData[r]] # r
        BY <2>1 DEF Commitable, Prepared
      <3>2. globals[r] = Unassigned
        BY <2>1, <3>1 DEF Commitable, Prepared
      <3>3. RowData[r] \in DOMAIN task.proposed
        BY <2>1 DEF Commitable, Prepared, GadgetsIn
      <3>4. \/ globals[task.proposed[RowData[r]]] # Unassigned
            \/ \E x \in task.gadgets : x.data = RowData[r]
        BY <2>1, <2>3, <3>3 DEF Commitable, Covered
      <3>5. QED BY <3>1, <3>2, <3>4
    <2>4. QED BY <2>2, <2>3
  <1>6. QED BY <1>1, <1>2, <1>3, <1>4, <1>5 DEF SecondhalfCorrect

\* A secondhalf leaves every gadget once, where its hash and its id lead, and edges at the
\* gadgets they were computed for, whatever the order of its readers, its writer
\* (commit_secondhalf) and the insertions of other processes, and also when a
\* lookup throws; and no gadget that commit_secondhalf inserts has an id.
THEOREM SecondhalfStaysCorrect == HalfSpec => []SecondhalfCorrect
  <1>1. HalfInit => HalfInv
    BY InitHasInv
  <1>2. HalfInv /\ [HalfNext]_halfVars => HalfInv'
    BY NextInv
  <1>3. HalfInv => SecondhalfCorrect
    BY InvImpliesCorrect
  <1>4. QED BY <1>1, <1>2, <1>3, PTL DEF HalfSpec
=============================================================================
