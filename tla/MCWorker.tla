------------------------------ MODULE MCWorker ------------------------------
(***************************************************************************)
(* A worker process: what it computes, with a few small gadgets, and its   *)
(* threads: the queue and the reduction with more threads and tasks than a *)
(* secondhalf gives them, and a secondhalf.  A behaviour is about one of   *)
(* the four.                                                               *)
(***************************************************************************)
EXTENDS BoundedQueue, TransformReduce, Secondhalf, Gadgets

VARIABLE subject
vars == <<subject, queueVars, reduceVars, halfVars, gadget>>

MCHashOf == <<0, 0, 1, 3, 6>>
MCStatsOrder == <<2, 1, 1, 1, 1>>
MCPresent == {<<>>, <<2>>, <<2, 3>>, <<2, 3, 1>>}
Prov(in, out) == [input1 |-> in, output1 |-> out]
MCBatches ==
  {<<[rows |-> <<1, 4>>, provs |-> {Prov(1, 1), Prov(2, 2)}], [rows |-> <<5, 1>>, provs |-> {Prov(3, 1), Prov(3, 2)}]>>,
   <<[rows |-> <<1, 2, 4>>, provs |-> {Prov(1, 1), Prov(1, 2), Prov(2, 3)}]>>,
   <<[rows |-> <<4>>, provs |-> {Prov(1, 1)}], [rows |-> <<2, 4, 5>>, provs |-> {Prov(2, 1), Prov(2, 2), Prov(3, 3)}]>>}

-----------------------------------------------------------------------------
(* Gadgets *)

Both(s, x, y, e) == {<<s, x, y, e>>, <<e, y, x, s>>}

\* With two locations: a wire, a toggle, a passage that can be
\* used once, a toggle with a second way in.
Wire == Both(0, 0, 1, 0)
Toggle == {<<0, 0, 1, 1>>, <<1, 1, 0, 0>>}
Once == {<<0, 0, 1, 1>>}
Lockable == {<<0, 0, 1, 1>>, <<1, 1, 0, 0>>, <<1, 0, 0, 0>>}

\* With three: a passage that is opened elsewhere.
Opener == {<<0, 2, 2, 1>>} \cup Both(1, 0, 1, 1)

\* With four: two toggles that change together, parallel and crossing, a toggle
\* that locks a passage, a location that is left out, no mirror symmetry, a door.
Toggles == {<<0, 0, 1, 1>>, <<1, 1, 0, 0>>, <<0, 2, 3, 1>>, <<1, 3, 2, 0>>}
Crossing == {<<0, 0, 2, 1>>, <<1, 2, 0, 0>>, <<0, 1, 3, 1>>, <<1, 3, 1, 0>>}
ToggleLock == {<<0, 0, 1, 1>>, <<1, 1, 0, 0>>} \cup Both(0, 2, 3, 0)
Gap == {<<0, 0, 2, 1>>, <<1, 2, 3, 0>>}
Chiral == {<<0, 0, 1, 1>>, <<1, 1, 2, 0>>, <<1, 3, 0, 0>>}
Door == {<<0, 0, 1, 1>>, <<1, 2, 3, 0>>, <<0, 2, 2, 1>>}

\* These, gadgets of two states, two locations and two traversals, and some with a
\* third location.
DefinitionsDef ==
  {Wire, Toggle, Once, Lockable, Opener, Toggles, Crossing, ToggleLock, Gap, Chiral, Door} \cup
  {{e, f} : <<e, f>> \in ({0} \X {0} \X {0, 1} \X {1}) \X ({0, 1} \X {0, 1} \X {0, 1} \X {0, 1})} \cup
  {{e, f} : <<e, f>> \in ({0} \X {0} \X {1} \X {1}) \X ({0, 1} \X {2} \X {0, 1} \X {0, 1})}
RightsDef == {Toggle, Opener}

-----------------------------------------------------------------------------

Init ==
  /\ subject \in {"queue", "reduce", "secondhalf", "gadget"}
  /\ IF subject = "gadget" THEN GadgetInit ELSE gadget = clear
  /\ QueueInit
  /\ ReduceInit /\ (subject # "reduce" => size = 0)
  /\ HalfInit /\ (subject # "secondhalf" => files = <<[rows |-> <<1, 2, 4>>, provs |-> {Prov(1, 1), Prov(1, 2), Prov(2, 3)}]>> /\ hashtable = <<>>)

Next ==
  \/ subject = "queue" /\ QueueNext /\ UNCHANGED <<subject, reduceVars, halfVars, gadget>>
  \/ subject = "reduce" /\ ReduceNext /\ UNCHANGED <<subject, queueVars, halfVars, gadget>>
  \/ subject = "secondhalf" /\ HalfNext /\ UNCHANGED <<subject, queueVars, reduceVars, gadget>>
  \/ subject = "gadget" /\ GadgetNext /\ UNCHANGED <<subject, queueVars, reduceVars, halfVars>>

QueueOnly(action) == subject = "queue" /\ action /\ UNCHANGED <<subject, reduceVars, halfVars, gadget>>

Spec ==
  /\ Init /\ [][Next]_vars
  /\ \A p \in Producer : WF_vars(QueueOnly(put(p)))
  /\ \A c \in Consumer : WF_vars(QueueOnly(take(c)))
  /\ WF_vars(\/ subject = "reduce" /\ ReduceNext /\ UNCHANGED <<subject, queueVars, halfVars, gadget>>
             \/ subject = "secondhalf" /\ HalfStep /\ UNCHANGED <<subject, queueVars, reduceVars, gadget>>)

\* The threads get done: everything that the producers put is received, the
\* reduction returns or crashes, and the two threads of a secondhalf never wait
\* for each other for ever, so that the request is answered or its process dies.
ThreadsFinish ==
  <>(CASE subject = "queue" -> EverythingReceived
       [] subject = "reduce" -> ReduceEnded
       [] subject = "secondhalf" -> RequestEnded
       [] subject = "gadget" -> TRUE)

\* A gadget, however it was made, has one stored form, which is read back as it
\* was written.
StoredForm == subject = "gadget" => GadgetTypeOK /\ EncodingExact /\ OneFormPerGadget

\* The search closes a gadget once, and takes the image of an image for the gadget
\* and the image of a closed gadget for closed: close and mirror keep these laws.
SearchLaws == subject = "gadget" => LawsExact

\* Each operation gives exactly the gadgets a robot could tell from its moves.
OperationsExact == subject = "gadget" => CloseExact /\ ConnectExact /\ CombineExact
=============================================================================
