---------------------------- MODULE Search_proofs ----------------------------
(***************************************************************************)
(* Theorems about module Search, for every set of gadgets, every table of  *)
(* operations that obeys the laws, every set of options and any number of  *)
(* failures.                                                               *)
(***************************************************************************)
EXTENDS Search, TLAPS

\* What an operation yields from gadgets is a set of gadgets.
LEMMA OutputType ==
  ASSUME NEW w \in Work
  PROVE  Output(w) \in SUBSET Gadget
  <1>1. w.op \in Op /\ w.in \in Gadget /\ w.right \in Gadget
    BY DEF Work
  <1>2. CASE w.op = "combine"
    BY <1>1, <1>2, SearchAssumption DEF Output
  <1>3. CASE w.op = "connect"
    BY <1>1, <1>3, SearchAssumption DEF Output
  <1>4. CASE w.op = "close"
    BY <1>1, <1>4, SearchAssumption DEF Output
  <1>5. CASE w.op = "mirror"
    BY <1>1, <1>5, SearchAssumption DEF Output
  <1>6. QED BY <1>1, <1>2, <1>3, <1>4, <1>5 DEF Op

\* Committing the work of a task keeps the types of completions and edges.
LEMMA CommitType ==
  ASSUME NEW w \in Work, done \in SUBSET Work, edges \in SUBSET (Work \X Gadget), Commit(w)
  PROVE  done' \in SUBSET Work /\ edges' \in SUBSET (Work \X Gadget) /\ valid' = valid
  <1>1. Output(w) \in SUBSET Gadget
    BY OutputType
  <1>2. {w} \X Output(w) \in SUBSET (Work \X Gadget)
    BY <1>1
  <1>3. \A o \in Output(w) : Unary("close", o) \in Work
    BY <1>1 DEF Unary, Work, Op
  <1>4. Completions(w) \in SUBSET Work
    BY <1>3 DEF Completions
  <1>5. QED BY <1>2, <1>4 DEF Commit

\* The database and the driver's sets keep their types through every step.
THEOREM TypeCorrect == Spec => []TypeOK
  <1>1. Init => TypeOK
    <2> SUFFICES ASSUME Init PROVE TypeOK
      OBVIOUS
    <2>1. done \in SUBSET Work
      BY SearchAssumption DEF Init
    <2>2. edges \in SUBSET (Work \X Gadget)
      BY <2>1, OutputType DEF Init
    <2>3. faults \in 0..MaxFaults
      BY SearchAssumption DEF Init
    <2>4. running \in BOOLEAN /\ error \in BOOLEAN /\ phase \in PhaseName
      BY DEF Init, PhaseName
    <2>5. QED BY <2>1, <2>2, <2>3, <2>4 DEF Init, TypeOK
  <1>2. TypeOK /\ [Next]_vars => TypeOK'
    <2> SUFFICES ASSUME TypeOK, [Next]_vars PROVE TypeOK'
      OBVIOUS
    <2> USE DEF TypeOK, PhaseName, Ended, Quiet, Filtering, state, needs, counters, operation, database
    <2>1. CASE collect_initial
      BY <2>1, SearchAssumption DEF collect_initial, AddToSubgen, OptionType
    <2>2. CASE begin_generation
      BY <2>2 DEF begin_generation, flip_generation
    <2>3. CASE discover_needs_combine
      <3>1. \A l \in Gadget, r \in Gadget : Binary(l, r) \in Work
        BY DEF Binary, Work, Op
      <3>2. QED BY <2>3, <3>1 DEF discover_needs_combine
    <2>3a. CASE NestedTransaction
      BY <2>3a DEF NestedTransaction
    <2>4. CASE compute_combine
      BY <2>4 DEF compute_combine, Launch, Return
    <2>5. CASE follow_combine
      BY <2>5 DEF follow_combine, AddToSubgen, follow_combine_edges
    <2>6. CASE discover_needs_close
      BY <2>6 DEF discover_needs_close, filter_unary, Covered
    <2>7. ASSUME NEW op \in Op, NEW from, NEW to \in PhaseName, compute_unary(op, from, to)
          PROVE  TypeOK'
      <3>1. \A g \in Gadget : Unary(op, g) \in Work
        BY DEF Unary, Work, Op
      <3>2. QED BY <2>7, <3>1 DEF compute_unary, Launch, Return
    <2>8. CASE compute_close \/ compute_mirror \/ compute_connect
      BY <2>7, <2>8 DEF compute_close, compute_mirror, compute_connect, Op
    <2>9. CASE follow_close
      BY <2>9 DEF follow_close, edge_inputs, follow_edges
    <2>10. CASE discover_needs_mirror
      BY <2>10 DEF discover_needs_mirror, filter_unary, Covered
    <2>11. CASE follow_mirror
      BY <2>11 DEF follow_mirror, AddToSubgen, follow_edges
    <2>12. CASE begin_subgeneration
      BY <2>12 DEF begin_subgeneration, flip_subgeneration
    <2>13. CASE discover_needs_connect
      BY <2>13 DEF discover_needs_connect, filter_unary, Covered
    <2>14. CASE follow_connect
      BY <2>14 DEF follow_connect, AddToSubgen, follow_edges
    <2>15. CASE OperationThrows \/ PredicateMissing \/ KillBlocked
      <3>1. FreshSearch /\ phase' = "dead" /\ UNCHANGED <<opts, database, stale, faults>>
        BY <2>15 DEF OperationThrows, PredicateMissing, KillBlocked
      <3>2. QED BY <3>1 DEF FreshSearch
    <2>16. ASSUME NEW w \in tasks, TaskCommits(w) PROVE TypeOK'
      BY <2>16, CommitType DEF TaskCommits
    <2>17. ASSUME NEW w \in tasks, TaskThrows(w) PROVE TypeOK'
      BY <2>17 DEF TaskThrows
    <2>18. ASSUME NEW w \in tasks, TaskFails(w) PROVE TypeOK'
      <3>1. done' \in SUBSET Work /\ edges' \in SUBSET (Work \X Gadget) /\ valid' = valid
        BY <2>18, CommitType DEF TaskFails
      <3>2. faults' \in 0..MaxFaults
        BY <2>18, SearchAssumption DEF TaskFails
      <3>3. QED BY <2>18, <3>1, <3>2 DEF TaskFails
    <2>19. ASSUME NEW w \in stale, StaleCommits(w) PROVE TypeOK'
      <3>1. done' \in SUBSET Work /\ edges' \in SUBSET (Work \X Gadget) /\ valid' = valid
        BY <2>19, CommitType DEF StaleCommits
      <3>2. QED BY <2>19, <3>1 DEF StaleCommits, driver
    <2>20. CASE Crash
      <3>1. faults' \in 0..MaxFaults
        BY <2>20, SearchAssumption DEF Crash
      <3>2. QED BY <2>20, <3>1 DEF Crash, FreshSearch
    <2>21. CASE NewSearch
      BY <2>21 DEF NewSearch, FreshSearch
    <2>22. CASE UNCHANGED vars
      BY <2>22 DEF vars, driver
    <2>23. QED
      BY <2>1, <2>2, <2>3, <2>3a, <2>4, <2>5, <2>6, <2>8, <2>9, <2>10, <2>11, <2>12, <2>13, <2>14,
         <2>15, <2>16, <2>17, <2>18, <2>19, <2>20, <2>21, <2>22 DEF Next, Phases, TaskEnds
  <1>3. QED BY <1>1, <1>2, PTL DEF Spec

-----------------------------------------------------------------------------
(* The database.                                                           *)

\* A step leaves completions and edges alone, or commits the work of one task.
LEMMA DatabaseSteps ==
  ASSUME TypeOK, [Next]_vars
  PROVE  UNCHANGED <<done, edges>> \/ \E w \in Work : Commit(w)
  <1> USE DEF Quiet, Filtering, database, state, needs, counters, operation
  <1>1. CASE Phases
    BY <1>1 DEF Phases, collect_initial, begin_generation, discover_needs_combine,
                NestedTransaction, compute_combine,
      follow_combine, discover_needs_close, compute_close, follow_close, discover_needs_mirror,
      compute_mirror, follow_mirror, begin_subgeneration, discover_needs_connect, compute_connect,
      follow_connect, OperationThrows, PredicateMissing, compute_unary, Launch, Return
  <1>2. CASE TaskEnds
    BY <1>2 DEF TaskEnds, TaskCommits, TaskThrows, TypeOK
  <1>3. CASE \E w \in tasks : TaskFails(w)
    BY <1>3 DEF TaskFails, TypeOK
  <1>4. CASE \E w \in stale : StaleCommits(w)
    BY <1>4 DEF StaleCommits, TypeOK
  <1>5. CASE Crash \/ KillBlocked \/ NewSearch
    BY <1>5 DEF Crash, KillBlocked, NewSearch
  <1>6. CASE UNCHANGED vars
    BY <1>6 DEF vars
  <1>7. QED BY <1>1, <1>2, <1>3, <1>4, <1>5, <1>6 DEF Next

\* A gadget that is a closure has no close edge.
LEMMA ClosureOutput ==
  ASSUME NEW w \in Work, w.op = "close", NEW o \in Output(w)
  PROVE  Output(Unary("close", o)) = {}
  <1>1. w.in \in Gadget
    BY DEF Work
  <1>2. o = Close[w.in]
    BY DEF Output
  <1>3. Close[o] = o
    BY <1>1, <1>2, OperationLaws
  <1>4. Output(Unary("close", o)) = {Close[o]} \ {o}
    BY DEF Output, Unary
  <1>5. QED BY <1>3, <1>4

\* One transaction stores the edges of all the work it records as completed,
\* for close the outputs that are recorded along with the input included.
LEMMA CommitConsistent ==
  ASSUME TypeOK, DatabaseConsistent, NEW w \in Work, Commit(w)
  PROVE  DatabaseConsistent'
  <1>1. \A v \in done' : \A o \in Output(v) : <<v, o>> \in edges'
    <2> SUFFICES ASSUME NEW v \in done', NEW o \in Output(v) PROVE <<v, o>> \in edges'
      OBVIOUS
    <2>1. CASE v \in done
      BY <2>1 DEF Commit, DatabaseConsistent
    <2>2. CASE v = w
      BY <2>2 DEF Commit
    <2>3. CASE w.op = "close" /\ v \in {Unary("close", p) : p \in Output(w)}
      BY <2>3, ClosureOutput
    <2>4. QED BY <2>1, <2>2, <2>3 DEF Commit, Completions
  <1>2. \A e \in edges' : e[2] \in Output(e[1])
    BY DEF Commit, DatabaseConsistent
  <1>3. QED BY <1>1, <1>2 DEF DatabaseConsistent, Output

\* What is recorded as completed has all its edges stored, and the edges are
\* real, whichever workers and drivers fail and in whatever order work is
\* committed.
THEOREM DatabaseAlwaysConsistent == Spec => []DatabaseConsistent
  <1>1. Init => DatabaseConsistent
    BY DEF Init, DatabaseConsistent
  <1>2. TypeOK /\ DatabaseConsistent /\ [Next]_vars => DatabaseConsistent'
    <2> SUFFICES ASSUME TypeOK, DatabaseConsistent, [Next]_vars PROVE DatabaseConsistent'
      OBVIOUS
    <2>1. CASE UNCHANGED <<done, edges>>
      BY <2>1 DEF DatabaseConsistent, Output
    <2>2. QED BY <2>1, DatabaseSteps, CommitConsistent
  <1>3. QED BY <1>1, <1>2, TypeCorrect, PTL DEF Spec

-----------------------------------------------------------------------------
(* The inductive invariant of the driver.                                  *)

CombinePhase == {"discover_needs_combine", "blocked", "compute_combine", "follow_combine"}
ConnectPhase == {"discover_needs_connect", "compute_connect", "follow_connect"}
ClosePhase == {"compute_close", "follow_close"}
MirrorPhase == {"compute_mirror", "follow_mirror"}
ComputePhase == {"compute_combine", "compute_close", "compute_mirror", "compute_connect"}

\* Generation 0 before the first flip, when combine_rights_ is not yet known.
AtStart == generation = 0 /\ subgeneration = 0

\* Which sets are empty in which phase.
PhaseSets ==
  /\ phase \in {"collect_initial", "begin_generation", "stopped"} \cup CombinePhase
       => subgen = {} /\ prev_subgen = {}
  /\ phase \in CombinePhase \cup {"stopped"} => curgen = {}
  /\ phase \in ConnectPhase => subgen = {}
  /\ phase \notin ComputePhase \cup CombinePhase \cup {"suspended"} => unary_needs = {}
  /\ phase \in ClosePhase => ~opts.multiplayer
  /\ phase \in MirrorPhase \cup CombinePhase => ~AtStart
  /\ phase = "collect_initial" => closed = {}
  /\ phase \in {"collect_initial", "dead"} => combine_rights = {} /\ AtStart
  /\ tasks # {} \/ error => running
  /\ running => phase \in ComputePhase
  /\ unary_needs \subseteq Found
  /\ combine_rights \subseteq closed
  /\ AtStart => combine_rights = {} /\ curgen = {}

Structure == StatePartition /\ PhaseSets

\* Every step of driver, workers and faults keeps the sets of SearchState apart
\* and leaves behind each phase what the next one expects.
LEMMA StructureInductive ==
  ASSUME TypeOK, Structure, [Next]_vars
  PROVE  Structure'
  <1> USE DEF Structure, StatePartition, PhaseSets, Found, AtStart, CombinePhase, ConnectPhase,
              ClosePhase, MirrorPhase, ComputePhase, TypeOK, Quiet, Filtering, Ended,
              state, needs, counters, operation, database
  <1>1. CASE collect_initial
    BY <1>1 DEF collect_initial, AddToSubgen
  <1>2. CASE begin_generation
    BY <1>2 DEF begin_generation, flip_generation
  <1>3. CASE discover_needs_combine \/ NestedTransaction
    BY <1>3 DEF discover_needs_combine, NestedTransaction
  <1>4. CASE compute_combine
    BY <1>4 DEF compute_combine, Launch, Return
  <1>5. CASE follow_combine
    BY <1>5 DEF follow_combine, AddToSubgen
  <1>6. CASE discover_needs_close
    BY <1>6 DEF discover_needs_close, filter_unary
  <1>7. CASE compute_close
    BY <1>7 DEF compute_close, compute_unary, Launch, Return
  <1>8. CASE follow_close
    BY <1>8 DEF follow_close, edge_inputs
  <1>9. CASE discover_needs_mirror
    BY <1>9 DEF discover_needs_mirror, filter_unary
  <1>10. CASE compute_mirror
    BY <1>10 DEF compute_mirror, compute_unary, Launch, Return
  <1>11. CASE follow_mirror
    BY <1>11 DEF follow_mirror, AddToSubgen
  <1>12. CASE begin_subgeneration
    BY <1>12 DEF begin_subgeneration, flip_subgeneration
  <1>13. CASE discover_needs_connect
    BY <1>13 DEF discover_needs_connect, filter_unary
  <1>14. CASE compute_connect
    BY <1>14 DEF compute_connect, compute_unary, Launch, Return
  <1>15. CASE follow_connect
    BY <1>15 DEF follow_connect, AddToSubgen
  <1>16. CASE OperationThrows \/ PredicateMissing \/ KillBlocked \/ Crash
    <2>1. FreshSearch /\ phase' = "dead"
      BY <1>16 DEF OperationThrows, PredicateMissing, KillBlocked, Crash
    <2>2. QED BY <2>1 DEF FreshSearch
  <1>17. CASE NewSearch
    <2>1. FreshSearch /\ phase' = "collect_initial"
      BY <1>17 DEF NewSearch
    <2>2. QED BY <2>1 DEF FreshSearch
  <1>18. CASE TaskEnds \/ \E w \in tasks : TaskFails(w)
    BY <1>18 DEF TaskEnds, TaskCommits, TaskThrows, TaskFails
  <1>19. CASE \E w \in stale : StaleCommits(w)
    BY <1>19 DEF StaleCommits, driver
  <1>20. CASE UNCHANGED vars
    BY <1>20 DEF vars, driver
  <1>21. QED
    BY <1>1, <1>2, <1>3, <1>4, <1>5, <1>6, <1>7, <1>8, <1>9, <1>10, <1>11, <1>12, <1>13, <1>14,
       <1>15, <1>16, <1>17, <1>18, <1>19, <1>20 DEF Next, Phases

\* Found ids are partitioned as SearchState says.
THEOREM StateAlwaysPartitioned == Spec => []StatePartition
  <1>1. Init => Structure
    BY DEF Init, Structure, StatePartition, PhaseSets, CombinePhase, ConnectPhase, ClosePhase,
           MirrorPhase, ComputePhase, Found, AtStart
  <1>2. Structure => StatePartition
    BY DEF Structure
  <1>3. QED BY <1>1, <1>2, TypeCorrect, StructureInductive, PTL DEF Spec

-----------------------------------------------------------------------------
(* Completeness.                                                           *)

Closing == ~opts.multiplayer /\ opts.compute_close

SelfClosed(g) == g \in opts.eligible["close"] => Close[g] = g

\* While closures are computed: what has been closed over has its closure
\* among the ids found, and what goes on to the generation is its own closure.
ClosureInv ==
  Closing =>
    /\ \A g \in closed : ClosureFound(g)
    /\ \A g \in curgen : SelfClosed(g)
    /\ phase \in {"discover_needs_mirror", "begin_subgeneration"} \cup MirrorPhase =>
         \A g \in subgen : SelfClosed(g)

\* Each candidate of a unary operation is completed, or needed in the compute
\* phase, where it is in flight while the operation runs without error.
UnaryProgress(op, computing, following, candidates) ==
  /\ phase = computing =>
       /\ \A g \in candidates \cap opts.eligible[op] : Unary(op, g) \in done \/ g \in unary_needs
       /\ running /\ ~error => \A g \in unary_needs : Unary(op, g) \in tasks \cup done
  /\ phase = following => \A g \in candidates \cap opts.eligible[op] : Unary(op, g) \in done

CombineProgress ==
  /\ phase \in {"compute_combine", "follow_combine"} =>
       \A l \in unary_needs, r \in combine_rights :
         Fits(l, r) => \/ Binary(l, r) \in done
                       \/ Output(Binary(l, r)) = {}
                       \/ phase = "compute_combine" /\ Binary(l, r) \in combine_needs
  /\ phase = "compute_combine" /\ running /\ ~error =>
       \A w \in combine_needs : w \in tasks \cup done \/ Output(w) = {}

Progress ==
  /\ opts.compute_close => UnaryProgress("close", "compute_close", "follow_close", subgen)
  /\ opts.compute_mirror => UnaryProgress("mirror", "compute_mirror", "follow_mirror", subgen)
  /\ UnaryProgress("connect", "compute_connect", "follow_connect", prev_subgen)
  /\ CombineProgress

\* What is still to be expanded.
PendingConnect == IF phase \in ConnectPhase THEN prev_subgen ELSE {}
PendingCombine == curgen \cup (IF phase \in CombinePhase THEN unary_needs ELSE {})

\* Everything closed over is expanded, except what is pending.
Coverage ==
  phase # "suspended" =>
    /\ AtStart => \A g \in closed : Erased(g)
    /\ \A g \in closed \ PendingConnect : Erased(g) \/ Connected(g)
    /\ \A g \in closed \ PendingCombine : Erased(g) \/ Combined(g)
    /\ \A g \in closed : Erased(g) \/ Mirrored(g)
    /\ phase = "begin_subgeneration" /\ ~AtStart => \A g \in subgen : Mirrored(g)

Reset == FreshSearch /\ phase' \in {"dead", "collect_initial"}

\* Within a search nothing found is lost, and the database only grows.
LEMMA SearchSteps ==
  ASSUME TypeOK, Structure, [Next]_vars
  PROVE  /\ done \subseteq done' /\ edges \subseteq edges'
         /\ \/ Reset
            \/ opts' = opts /\ Found \subseteq Found' /\ closed \subseteq closed'
  <1>1. done \subseteq done' /\ edges \subseteq edges'
    BY DatabaseSteps DEF database, Commit
  <1> USE DEF Found, Quiet, Filtering, state, needs, counters, operation
  <1>2. CASE OperationThrows \/ PredicateMissing \/ KillBlocked \/ Crash \/ NewSearch
    BY <1>1, <1>2 DEF OperationThrows, PredicateMissing, KillBlocked, Crash, NewSearch, Reset
  <1>3. CASE compute_combine \/ compute_close \/ compute_mirror \/ compute_connect
    BY <1>1, <1>3 DEF compute_combine, compute_close, compute_mirror, compute_connect,
                      compute_unary, Launch, Return
  <1>4. CASE \/ discover_needs_combine \/ NestedTransaction
             \/ discover_needs_close \/ discover_needs_mirror \/ discover_needs_connect
    BY <1>1, <1>4 DEF discover_needs_combine, NestedTransaction, discover_needs_close,
                      discover_needs_mirror,
                      discover_needs_connect
  <1>5. CASE \/ collect_initial \/ begin_generation \/ begin_subgeneration \/ follow_combine
             \/ follow_close \/ follow_mirror \/ follow_connect
    BY <1>1, <1>5 DEF collect_initial, begin_generation, begin_subgeneration, follow_combine,
         follow_close, follow_mirror, follow_connect, AddToSubgen, flip_generation,
         flip_subgeneration, Structure, PhaseSets
  <1>6. CASE TaskEnds \/ \E w \in tasks : TaskFails(w)
    BY <1>1, <1>6 DEF TaskEnds, TaskCommits, TaskThrows, TaskFails
  <1>7. CASE (\E w \in stale : StaleCommits(w)) \/ UNCHANGED vars
    BY <1>1, <1>7 DEF StaleCommits, driver, vars
  <1>8. QED BY <1>2, <1>3, <1>4, <1>5, <1>6, <1>7 DEF Next, Phases

\* Work that left the needs of a compute phase without an error is completed,
\* whichever worker committed it.
LEMMA ProgressInductive ==
  ASSUME TypeOK, Structure, Progress, [Next]_vars
  PROVE  Progress'
  <1> USE DEF Progress, UnaryProgress, CombineProgress, Fits, LeftLocations, Quiet, Filtering,
              state, needs, counters, operation, database
  <1>1. CASE discover_needs_close
    BY <1>1 DEF discover_needs_close, filter_unary, Structure, PhaseSets, ComputePhase
  <1>2. CASE discover_needs_mirror
    BY <1>2 DEF discover_needs_mirror, filter_unary, Structure, PhaseSets, ComputePhase
  <1>3. CASE discover_needs_connect
    BY <1>3 DEF discover_needs_connect, filter_unary, Structure, PhaseSets, ComputePhase
  <1>4. CASE discover_needs_combine
    <2>1. /\ phase' = "compute_combine" /\ ~running' /\ done' = done /\ opts' = opts
          /\ combine_rights' = combine_rights
      BY <1>4 DEF discover_needs_combine, Structure, PhaseSets, ComputePhase
    <2>2. ASSUME NEW l \in unary_needs', NEW r \in combine_rights', Fits(l, r)'
          PROVE  Binary(l, r) \in done' \cup combine_needs'
      <3>1. Binary(l, r).in = l /\ Binary(l, r).right = r
        BY DEF Binary
      <3>2. Fits(l, r)
        BY <2>1, <2>2
      <3>3. QED BY <1>4, <2>1, <2>2, <3>1, <3>2 DEF discover_needs_combine
    <2>3. QED BY <2>1, <2>2
  <1>5. CASE compute_close
    BY <1>5 DEF compute_close, compute_unary, Launch, Return
  <1>6. CASE compute_mirror
    BY <1>6 DEF compute_mirror, compute_unary, Launch, Return
  <1>7. CASE compute_connect
    BY <1>7 DEF compute_connect, compute_unary, Launch, Return
  <1>8. CASE compute_combine
    BY <1>8 DEF compute_combine, Launch, Return
  <1>9. CASE \/ collect_initial \/ begin_generation \/ begin_subgeneration \/ follow_combine
             \/ follow_close \/ follow_mirror \/ follow_connect \/ NestedTransaction
    BY <1>9 DEF NestedTransaction, collect_initial, begin_generation, begin_subgeneration,
                follow_combine,
         follow_close, follow_mirror, follow_connect
  <1>10. CASE OperationThrows \/ PredicateMissing \/ KillBlocked \/ Crash \/ NewSearch
    BY <1>10 DEF OperationThrows, PredicateMissing, KillBlocked, Crash, NewSearch
  <1>11. ASSUME NEW w \in tasks, TaskCommits(w) PROVE Progress'
    <2>1. w \in done' \/ (w.op = "combine" /\ Output(w) = {})
      BY <1>11 DEF TaskCommits, Commit, Completions
    <2>2. /\ \A op \in Op, g \in Gadget : Unary(op, g).op = op
          /\ tasks' = tasks \ {w} /\ done \subseteq done'
          /\ UNCHANGED <<phase, opts, state, needs, counters, running, error>>
      BY <1>11, SearchSteps DEF TaskCommits, Unary
    <2>3. CombineProgress'
      BY <2>1, <2>2
    <2>4. ASSUME NEW op \in Op \ {"combine"}, NEW computing, NEW following,
                 NEW candidates \in SUBSET Gadget,
                 UnaryProgress(op, computing, following, candidates)
          PROVE  /\ phase' = computing =>
                      /\ \A g \in candidates \cap opts.eligible[op] :
                           Unary(op, g) \in done' \/ g \in unary_needs
                      /\ running /\ ~error => \A g \in unary_needs : Unary(op, g) \in tasks' \cup done'
                 /\ phase' = following =>
                      \A g \in candidates \cap opts.eligible[op] : Unary(op, g) \in done'
      BY <2>1, <2>2, <2>4 DEF TypeOK
    <2>5. subgen \in SUBSET Gadget /\ prev_subgen \in SUBSET Gadget
      BY DEF TypeOK
    <2> HIDE DEF CombineProgress
    <2>6. QED BY <2>2, <2>3, <2>4, <2>5 DEF Op
  <1>12. ASSUME NEW w \in tasks, TaskThrows(w) PROVE Progress'
    BY <1>12, SearchSteps DEF TaskThrows
  <1>13. ASSUME NEW w \in tasks, TaskFails(w) PROVE Progress'
    BY <1>13, SearchSteps DEF TaskFails
  <1>14. ASSUME NEW w \in stale, StaleCommits(w) PROVE Progress'
    BY <1>14, SearchSteps DEF StaleCommits, driver
  <1>15. CASE UNCHANGED vars
    BY <1>15 DEF vars, driver
  <1>16. QED
    BY <1>1, <1>2, <1>3, <1>4, <1>5, <1>6, <1>7, <1>8, <1>9, <1>10, <1>11, <1>12, <1>13, <1>14,
       <1>15 DEF Next, Phases, TaskEnds

\* The edges of one piece of completed work all lead to gadgets found when
\* they are followed, and nothing else does.
LEMMA EdgesFollowed ==
  ASSUME TypeOK, DatabaseConsistent, NEW op \in Op, NEW ids \in SUBSET Gadget,
         NEW g \in ids, op # "combine", Unary(op, g) \in done
  PROVE  Output(Unary(op, g)) \subseteq follow_edges(op, ids)
  <1> SUFFICES ASSUME NEW o \in Output(Unary(op, g)) PROVE o \in follow_edges(op, ids)
    OBVIOUS
  <1> DEFINE e == <<Unary(op, g), o>>
  <1>1. e \in edges
    BY DEF DatabaseConsistent
  <1>2. e[1].op = op /\ e[1].in = g /\ e[2] = o
    BY DEF Unary
  <1> HIDE DEF e
  <1>3. QED BY <1>1, <1>2 DEF follow_edges

\* A stored close edge leads to the closure of a gadget that is not closed.
LEMMA CloseEdges ==
  ASSUME TypeOK, DatabaseConsistent, NEW e \in edges, e[1].op = "close"
  PROVE  e[1].in \in Gadget /\ e[2] = Close[e[1].in] /\ e[2] # e[1].in
  <1>1. e[1] \in Work /\ e[2] \in Output(e[1])
    BY DEF TypeOK, DatabaseConsistent
  <1>2. QED BY <1>1 DEF Output, Work

\* A stored mirror edge leads to the mirror image of its input.
LEMMA MirrorEdges ==
  ASSUME TypeOK, DatabaseConsistent, NEW e \in edges, e[1].op = "mirror"
  PROVE  e[1].in \in Gadget /\ e[2] = Mirror[e[1].in]
  <1>1. e[1] \in Work /\ e[2] \in Output(e[1])
    BY DEF TypeOK, DatabaseConsistent
  <1>2. QED BY <1>1 DEF Output, Work

\* While closures are computed, what is left in a subgeneration after follow_close
\* is its own closure, and mirroring adds only closures.
LEMMA ClosureInductive ==
  ASSUME TypeOK, Structure, DatabaseConsistent, Progress, ClosureInv, [Next]_vars
  PROVE  ClosureInv'
  <1>1. CASE Reset
    BY <1>1 DEF Reset, FreshSearch, ClosureInv, MirrorPhase
  <1>2. CASE ~Reset /\ ~Closing
    BY <1>2, SearchSteps DEF ClosureInv, Closing
  <1> SUFFICES ASSUME ~Reset, Closing PROVE ClosureInv'
    BY <1>1, <1>2
  <1>3. opts' = opts /\ Found \subseteq Found' /\ Closing'
    BY SearchSteps DEF Closing
  <1>4. /\ \A g \in closed : ClosureFound(g)
        /\ \A g \in curgen : SelfClosed(g)
    BY DEF ClosureInv
  <1>5. \A g \in Gadget : ClosureFound(g) => ClosureFound(g)'
    BY <1>3 DEF ClosureFound
  <1>6. \A g \in Gadget : SelfClosed(g) <=> SelfClosed(g)'
    BY <1>3 DEF SelfClosed
  <1> USE DEF Quiet, Filtering, state, needs, counters, operation, database, MirrorPhase
  <1>7. CASE /\ UNCHANGED <<closed, curgen, subgen>>
             /\ phase' \notin {"discover_needs_mirror", "begin_subgeneration"} \cup MirrorPhase
    BY <1>4, <1>5, <1>6, <1>7 DEF ClosureInv, TypeOK
  <1>8. CASE /\ UNCHANGED <<closed, curgen, subgen>>
             /\ phase \in {"discover_needs_mirror", "begin_subgeneration"} \cup MirrorPhase
    BY <1>4, <1>5, <1>6, <1>8 DEF ClosureInv, TypeOK
  <1>9. CASE follow_close
    <2>1. \A g \in closed' : ClosureFound(g)'
      <3> SUFFICES ASSUME NEW g \in closed', g \notin closed PROVE ClosureFound(g)'
        BY <1>4, <1>5 DEF TypeOK
      <3>1. g \in edge_inputs("close", subgen)
        BY <1>9 DEF follow_close
      <3>2. PICK e \in edges : e[1].op = "close" /\ e[1].in = g
        BY <3>1 DEF edge_inputs
      <3>3. Close[g] \in follow_edges("close", subgen)
        BY <3>1, <3>2, CloseEdges DEF follow_edges, edge_inputs
      <3>4. QED BY <1>9, <3>3 DEF follow_close, ClosureFound, Found
    <2>2. \A g \in subgen' : SelfClosed(g)'
      <3> SUFFICES ASSUME NEW g \in subgen', g \in opts.eligible["close"] PROVE Close[g] = g
        BY <1>3 DEF SelfClosed
      <3>1. CASE g \in subgen \ edge_inputs("close", subgen)
        <4>1. Unary("close", g) \in done
          BY <3>1, <1>9 DEF follow_close, Progress, UnaryProgress, Closing
        <4>2. ~ \E e \in edges : e[1].op = "close" /\ e[1].in = g
          BY <3>1 DEF edge_inputs
        <4>3. Output(Unary("close", g)) = {Close[g]} \ {g}
          BY DEF Output, Unary
        <4>4. \A o : ~(<<Unary("close", g), o>> \in edges)
          BY <4>2 DEF Unary
        <4>5. QED BY <4>1, <4>3, <4>4 DEF DatabaseConsistent
      <3>2. CASE g \in follow_edges("close", subgen)
        <4>1. PICK e \in edges : e[1].op = "close" /\ e[2] = g
          BY <3>2 DEF follow_edges
        <4>2. QED BY <4>1, CloseEdges, OperationLaws
      <3>3. QED BY <3>1, <3>2, <1>9 DEF follow_close
    <2>3. QED BY <1>4, <1>6, <1>9, <2>1, <2>2 DEF follow_close, ClosureInv, TypeOK
  <1>10. CASE follow_mirror
    <2>1. \A g \in subgen' : SelfClosed(g)'
      <3> SUFFICES ASSUME NEW g \in subgen', g \notin subgen PROVE SelfClosed(g)'
        BY <1>6, <1>10 DEF ClosureInv, follow_mirror, TypeOK
      <3>1. PICK e \in edges : e[1].op = "mirror" /\ e[1].in \in subgen /\ e[2] = g
        BY <1>10 DEF follow_mirror, AddToSubgen, follow_edges
      <3> DEFINE h == e[1].in
      <3>2. h \in Gadget /\ h \in subgen /\ g = Mirror[h]
        BY <3>1, MirrorEdges
      <3>3. SelfClosed(h)
        BY <3>2, <1>10 DEF follow_mirror, ClosureInv
      <3> HIDE DEF h
      <3>4. h \in opts.eligible["close"] <=> g \in opts.eligible["close"]
        BY <3>2, OperationLaws DEF TypeOK, Op
      <3>5. Close[g] = Mirror[Close[h]]
        BY <3>2, OperationLaws
      <3>6. QED BY <3>2, <3>3, <3>4, <3>5, <1>3 DEF SelfClosed
    <2>2. QED BY <1>4, <1>5, <1>6, <1>10, <2>1 DEF follow_mirror, ClosureInv, TypeOK
  <1>11. CASE begin_subgeneration
    <2>1. \A g \in subgen : ClosureFound(g) /\ SelfClosed(g)
      BY <1>11 DEF begin_subgeneration, ClosureInv, ClosureFound, SelfClosed, Found
    <2>2. QED
      BY <1>4, <1>5, <1>6, <1>11, <2>1 DEF begin_subgeneration, flip_subgeneration, ClosureInv, TypeOK
  <1>12. CASE begin_generation
    BY <1>4, <1>5, <1>12 DEF begin_generation, flip_generation, ClosureInv, TypeOK
  <1>13. CASE collect_initial \/ follow_combine \/ follow_connect
    BY <1>4, <1>5, <1>6, <1>13 DEF collect_initial, follow_combine, follow_connect, ClosureInv, TypeOK
  <1>14. CASE \/ discover_needs_combine \/ NestedTransaction
              \/ discover_needs_close \/ discover_needs_mirror \/ discover_needs_connect
    BY <1>7, <1>8, <1>14 DEF discover_needs_combine, NestedTransaction, discover_needs_close,
                             discover_needs_mirror,
                             discover_needs_connect, Closing
  <1>15. CASE compute_combine \/ compute_close \/ compute_mirror \/ compute_connect
    BY <1>7, <1>8, <1>15 DEF compute_combine, compute_close, compute_mirror, compute_connect,
                             compute_unary, Launch, Return
  <1>16. CASE OperationThrows \/ PredicateMissing \/ KillBlocked \/ Crash \/ NewSearch
    BY <1>16 DEF OperationThrows, PredicateMissing, KillBlocked, Crash, NewSearch, Reset
  <1>17. CASE TaskEnds \/ \E w \in tasks : TaskFails(w)
    BY <1>7, <1>8, <1>17 DEF TaskEnds, TaskCommits, TaskThrows, TaskFails
  <1>18. CASE (\E w \in stale : StaleCommits(w)) \/ UNCHANGED vars
    BY <1>7, <1>8, <1>18 DEF StaleCommits, driver, vars
  <1>19. QED
    BY <1>9, <1>10, <1>11, <1>12, <1>13, <1>14, <1>15, <1>16, <1>17, <1>18 DEF Next, Phases

\* What has been expanded has its outputs among the gadgets found, through all
\* phases and faults.
LEMMA CoverageInductive ==
  ASSUME TypeOK, Structure, DatabaseConsistent, Progress, Coverage, [Next]_vars
  PROVE  Coverage'
  <1>1. CASE Reset
    BY <1>1 DEF Reset, FreshSearch, Coverage
  <1>2. CASE phase' = "suspended"
    BY <1>2 DEF Coverage
  <1> SUFFICES ASSUME ~Reset, phase' # "suspended" PROVE Coverage'
    BY <1>1, <1>2
  <1>3. opts' = opts /\ Found \subseteq Found' /\ edges \subseteq edges'
    BY SearchSteps
  <1>4. \A g \in Gadget : /\ Erased(g) => Erased(g)'
                          /\ Connected(g) => Connected(g)'
    BY <1>3 DEF Erased, Connected, edge_inputs
  <1>5. ASSUME combine_rights' = combine_rights
        PROVE  \A g \in Gadget : /\ Combined(g) => Combined(g)'
                                 /\ Mirrored(g) => Mirrored(g)'
    BY <1>3, <1>5 DEF Combined, Mirrored, Fits, LeftLocations
  <1>6. closed \subseteq Gadget /\ subgen \subseteq Gadget /\ prev_subgen \subseteq Gadget
    BY DEF TypeOK
  <1> USE DEF Quiet, Filtering, state, needs, counters, operation, database, CombinePhase, ConnectPhase
  <1>7. CASE /\ UNCHANGED <<closed, curgen, subgen, combine_rights, generation, subgeneration>>
             /\ phase # "suspended"
             /\ PendingConnect \subseteq PendingConnect'
             /\ PendingCombine \subseteq PendingCombine'
             /\ phase' = "begin_subgeneration" => phase = "begin_subgeneration" \/ AtStart
    BY <1>4, <1>5, <1>6, <1>7 DEF Coverage, AtStart
  <1>8. CASE discover_needs_combine
    <2>1. \A g \in unary_needs \ unary_needs' : Combined(g)
      BY <1>8 DEF discover_needs_combine, CombineEligible, Combined
    <2>2. UNCHANGED <<closed, curgen, subgen, prev_subgen, combine_rights, generation, subgeneration>>
      BY <1>8 DEF discover_needs_combine
    <2>3. phase = "discover_needs_combine" /\ phase' = "compute_combine"
      BY <1>8 DEF discover_needs_combine
    <2>4. QED
      BY <1>4, <1>5, <1>6, <2>1, <2>2, <2>3 DEF Coverage, AtStart, PendingConnect, PendingCombine
  <1>9. CASE follow_combine
    <2>1. \A g \in unary_needs : Combined(g)'
      <3> SUFFICES ASSUME NEW g \in unary_needs, NEW r \in combine_rights, Fits(g, r),
                          NEW o \in Combine[g, r]
                   PROVE  o \in Found'
        BY <1>3, <1>9 DEF follow_combine, Combined, Fits, LeftLocations
      <3>1. o \in Output(Binary(g, r))
        BY DEF Output, Binary
      <3>2. Binary(g, r) \in done
        BY <1>9, <3>1 DEF follow_combine, Progress, CombineProgress
      <3>3. <<Binary(g, r), o>> \in edges
        BY <3>1, <3>2 DEF DatabaseConsistent
      <3>4. Binary(g, r).op = "combine" /\ Binary(g, r).in = g /\ Binary(g, r).right = r
        BY DEF Binary
      <3> DEFINE e == <<Binary(g, r), o>>
      <3>5. e \in edges /\ e[1].op = "combine" /\ e[1].in = g /\ e[1].right = r /\ e[2] = o
        BY <3>3, <3>4
      <3> HIDE DEF e
      <3>6. o \in follow_combine_edges(unary_needs)
        BY <3>5 DEF follow_combine_edges
      <3>7. QED BY <1>9, <3>6 DEF follow_combine, AddToSubgen, Found
    <2>2. UNCHANGED <<closed, curgen, prev_subgen, combine_rights, generation, subgeneration>>
      BY <1>9 DEF follow_combine
    <2>3. phase = "follow_combine" /\ phase' = "discover_needs_close"
      BY <1>9 DEF follow_combine
    <2>4. QED
      BY <1>4, <1>5, <1>6, <2>1, <2>2, <2>3 DEF Coverage, AtStart, PendingConnect, PendingCombine
  <1>10. CASE follow_connect
    <2>1. \A g \in prev_subgen : Connected(g)'
      <3> SUFFICES ASSUME NEW g \in prev_subgen, g \in opts.eligible["connect"]
                   PROVE  Connect[g] \subseteq Found'
        BY <1>3 DEF Connected
      <3>1. Unary("connect", g) \in done
        BY <1>10 DEF follow_connect, Progress, UnaryProgress
      <3>2. Output(Unary("connect", g)) = Connect[g]
        BY DEF Output, Unary
      <3>3. Connect[g] \subseteq follow_edges("connect", prev_subgen)
        BY <1>6, <3>1, <3>2, EdgesFollowed DEF Op
      <3>4. QED BY <1>10, <3>3 DEF follow_connect, AddToSubgen, Found
    <2>2. UNCHANGED <<closed, curgen, prev_subgen, combine_rights, generation, subgeneration>>
      BY <1>10 DEF follow_connect
    <2>3. phase = "follow_connect" /\ phase' = "discover_needs_close"
      BY <1>10 DEF follow_connect
    <2>4. QED
      BY <1>4, <1>5, <1>6, <2>1, <2>2, <2>3 DEF Coverage, AtStart, PendingConnect, PendingCombine
  <1>11. CASE follow_close
    <2>1. /\ UNCHANGED <<curgen, prev_subgen, combine_rights, generation, subgeneration>>
          /\ phase = "follow_close" /\ phase' = "discover_needs_mirror"
      BY <1>11 DEF follow_close
    <2>2. \A g \in closed' \ closed : Erased(g)'
      <3> SUFFICES ASSUME NEW g \in closed' \ closed PROVE Erased(g)'
        OBVIOUS
      <3>1. PICK e \in edges : e[1].op = "close" /\ e[1].in = g
        BY <1>11 DEF follow_close, edge_inputs
      <3>2. ~opts.multiplayer
        BY <2>1 DEF Structure, PhaseSets, ClosePhase
      <3>3. QED BY <1>3, <3>1, <3>2 DEF Erased, edge_inputs
    <2>3. QED
      BY <1>4, <1>5, <1>6, <2>1, <2>2 DEF Coverage, AtStart, PendingConnect, PendingCombine
  <1>12. CASE follow_mirror
    <2>1. /\ UNCHANGED <<closed, curgen, prev_subgen, combine_rights, generation, subgeneration>>
          /\ phase = "follow_mirror" /\ phase' = "begin_subgeneration"
      BY <1>12 DEF follow_mirror
    <2>2. \A g \in subgen' : Mirrored(g)'
      <3> SUFFICES ASSUME NEW g \in subgen', opts.compute_mirror, opts.follow_mirror,
                          g \in opts.eligible["mirror"]
                   PROVE  Mirror[g] \in Found'
        BY <1>3, <2>1 DEF Mirrored
      <3>1. CASE g \in subgen
        <4>1. Unary("mirror", g) \in done
          BY <3>1, <2>1 DEF Progress, UnaryProgress
        <4>2. Output(Unary("mirror", g)) = {Mirror[g]} \ {g}
          BY DEF Output, Unary
        <4>3. Output(Unary("mirror", g)) \subseteq follow_edges("mirror", subgen)
          BY <1>6, <3>1, <4>1, EdgesFollowed DEF Op
        <4>4. QED BY <1>12, <3>1, <4>2, <4>3 DEF follow_mirror, AddToSubgen, Found
      <3>2. CASE g \in follow_edges("mirror", subgen)
        <4>1. PICK e \in edges : e[1].op = "mirror" /\ e[1].in \in subgen /\ e[2] = g
          BY <3>2 DEF follow_edges
        <4>2. Mirror[g] \in subgen
          BY <4>1, MirrorEdges, OperationLaws
        <4>3. QED BY <1>3, <4>2 DEF Found
      <3>3. QED BY <1>12, <3>1, <3>2 DEF follow_mirror, AddToSubgen
    <2>3. QED
      BY <1>4, <1>5, <1>6, <2>1, <2>2 DEF Coverage, AtStart, PendingConnect, PendingCombine
  <1>13. CASE begin_subgeneration
    <2>1. closed' = closed \cup subgen /\ curgen' = curgen \cup subgen /\ prev_subgen' = subgen
      BY <1>13 DEF begin_subgeneration, flip_subgeneration
    <2>2. phase = "begin_subgeneration" /\ phase' # "begin_subgeneration"
      BY <1>13 DEF begin_subgeneration
    <2>3. subgen \subseteq PendingConnect' /\ subgen \subseteq PendingCombine'
      BY <1>13, <2>1 DEF begin_subgeneration, PendingConnect, PendingCombine
    <2>4. curgen \subseteq PendingCombine'
      BY <2>1 DEF PendingCombine
    <2>5. CASE AtStart
      <3>1. \A g \in closed : Erased(g)
        BY <2>2, <2>5 DEF Coverage
      <3>2. combine_rights' = subgen
        BY <1>13, <2>5 DEF begin_subgeneration, AtStart
      <3>3. AtStart' => subgen = {}
        BY <1>13, <2>5 DEF begin_subgeneration, AtStart, TypeOK
      <3>4. \A g \in subgen : Mirrored(g)'
        BY <3>2 DEF Mirrored
      <3>5. QED
        BY <1>4, <1>6, <2>1, <2>2, <2>3, <3>1, <3>3, <3>4 DEF Coverage
    <2>6. CASE ~AtStart
      <3>1. combine_rights' = combine_rights /\ ~AtStart'
        BY <1>13, <2>6 DEF begin_subgeneration, AtStart, TypeOK
      <3>2. \A g \in subgen : Mirrored(g)
        BY <2>2, <2>6 DEF Coverage
      <3>3. QED
        BY <1>4, <1>5, <1>6, <2>1, <2>2, <2>3, <2>4, <3>1, <3>2
           DEF Coverage, PendingConnect, PendingCombine
    <2>7. QED BY <2>5, <2>6
  <1>14. CASE begin_generation
    <2>1. /\ UNCHANGED <<closed, combine_rights>>
          /\ phase = "begin_generation" /\ phase' # "begin_subgeneration"
      BY <1>14 DEF begin_generation, flip_generation
    <2>2. PendingCombine \subseteq PendingCombine'
      BY <1>14 DEF begin_generation, flip_generation, PendingCombine
    <2>3. AtStart' => AtStart
      BY <1>14 DEF begin_generation, AtStart, TypeOK
    <2>4. QED
      BY <1>4, <1>5, <1>6, <2>1, <2>2, <2>3 DEF Coverage, PendingConnect
  <1>15. CASE collect_initial
    BY <1>15 DEF collect_initial, Coverage, Structure, PhaseSets
  <1>16. CASE \/ NestedTransaction \/ discover_needs_close \/ discover_needs_mirror
              \/ discover_needs_connect
    BY <1>7, <1>16 DEF NestedTransaction, discover_needs_close, discover_needs_mirror,
                       discover_needs_connect,
         AtStart, PendingConnect, PendingCombine
  <1>17. CASE compute_combine \/ compute_close \/ compute_mirror \/ compute_connect
    BY <1>7, <1>17 DEF compute_combine, compute_close, compute_mirror, compute_connect,
         compute_unary, Launch, Return, PendingConnect, PendingCombine
  <1>18. CASE OperationThrows \/ PredicateMissing \/ KillBlocked \/ Crash \/ NewSearch
    BY <1>18 DEF OperationThrows, PredicateMissing, KillBlocked, Crash, NewSearch, Reset
  <1>19. CASE TaskEnds \/ \E w \in tasks : TaskFails(w)
    BY <1>7, <1>19 DEF TaskEnds, TaskCommits, TaskThrows, TaskFails, PendingConnect, PendingCombine
  <1>20. CASE (\E w \in stale : StaleCommits(w)) \/ UNCHANGED vars
    BY <1>7, <1>20 DEF StaleCommits, driver, vars, PendingConnect, PendingCombine
  <1>21. QED
    BY <1>8, <1>9, <1>10, <1>11, <1>12, <1>13, <1>14, <1>15, <1>16, <1>17, <1>18, <1>19, <1>20
       DEF Next, Phases

SearchInv == Structure /\ DatabaseConsistent /\ Progress /\ ClosureInv /\ Coverage

\* The inductive invariant of the search: the partition, the needs, the
\* database, the closures and the coverage of each phase hold together.
THEOREM SearchInvariant == Spec => []SearchInv
  <1>1. Init => Structure /\ Progress /\ ClosureInv /\ Coverage
    BY DEF Init, Structure, StatePartition, PhaseSets, CombinePhase, ConnectPhase, ClosePhase,
           MirrorPhase, ComputePhase, Found, AtStart, Progress, UnaryProgress, CombineProgress,
           ClosureInv, Coverage
  <1>2. /\ TypeOK /\ DatabaseConsistent /\ Structure /\ Progress /\ ClosureInv /\ Coverage
        /\ [Next]_vars
        => (Structure /\ Progress /\ ClosureInv /\ Coverage)'
    BY StructureInductive, ProgressInductive, ClosureInductive, CoverageInductive
  <1>3. QED
    BY <1>1, <1>2, TypeCorrect, DatabaseAlwaysConsistent, PTL DEF Spec, SearchInv

\* filter_unary never throws its logic_error, in any search.
THEOREM NeedsAlwaysConsumed == Spec => []NeedsConsumed
  <1>1. SearchInv => NeedsConsumed
    BY DEF SearchInv, Structure, PhaseSets, NeedsConsumed, ComputePhase, CombinePhase
  <1>2. QED BY <1>1, SearchInvariant, PTL

\* Only closures are connected and combined while closures are computed, for
\* mirror images closures too, because mirroring and closing commute.
THEOREM OnlyClosuresExpanded == Spec => []OnlyClosedExpanded
  <1>1. SearchInv => OnlyClosedExpanded
    BY DEF SearchInv, ClosureInv, Closing, SelfClosed, OnlyClosedExpanded
  <1>2. QED BY <1>1, SearchInvariant, PTL

\* A search that stops by itself has found everything that can be made.
THEOREM SearchComplete == Spec => []CompleteAtStop
  <1>1. SearchInv => CompleteAtStop
    <2> SUFFICES ASSUME SearchInv, phase = "stopped", NEW g \in Found
                 PROVE  /\ ClosureFound(g)
                        /\ ~Erased(g) => Connected(g) /\ Combined(g) /\ Mirrored(g)
      BY DEF CompleteAtStop
    <2>1. g \in closed /\ curgen = {}
      BY DEF SearchInv, Structure, PhaseSets, Found
    <2>2. ClosureFound(g)
      BY <2>1 DEF SearchInv, ClosureInv, Closing, ClosureFound
    <2>3. QED
      BY <2>1, <2>2 DEF SearchInv, Coverage, PendingConnect, PendingCombine, CombinePhase, ConnectPhase
  <1>2. QED BY <1>1, SearchInvariant, PTL

-----------------------------------------------------------------------------
(* Soundness.                                                              *)

\* Following a real edge from a set closed under the operations stays in it.
LEMMA RealEdges ==
  ASSUME TypeOK, DatabaseConsistent, NEW R \in Derivable(opts.initial), NEW e \in edges,
         e[1].in \in R, e[1].op = "combine" => e[1].right \in R
  PROVE  e[2] \in R
  <1>1. e[1] \in Work /\ e[2] \in Output(e[1])
    BY DEF TypeOK, DatabaseConsistent
  <1>2. /\ {Close[e[1].in], Mirror[e[1].in]} \cup Connect[e[1].in] \subseteq R
        /\ \A r \in R : Combine[e[1].in, r] \subseteq R
    BY DEF Derivable
  <1>3. e[1].op \in Op
    BY <1>1 DEF Work
  <1>4. CASE e[1].op = "combine"
    BY <1>1, <1>2, <1>4 DEF Output
  <1>5. CASE e[1].op = "connect"
    BY <1>1, <1>2, <1>5 DEF Output
  <1>6. CASE e[1].op \in {"close", "mirror"}
    BY <1>1, <1>2, <1>6 DEF Output
  <1>7. QED BY <1>3, <1>4, <1>5, <1>6 DEF Op

\* A search finds only what can be made from its initial gadgets, whatever
\* other searches have stored in the database.
THEOREM SearchSound == Spec => []SoundlyFound
  <1>1. Init => SoundlyFound
    BY DEF Init, SoundlyFound, Found
  <1>2. TypeOK /\ SearchInv /\ SoundlyFound /\ [Next]_vars => SoundlyFound'
    <2> SUFFICES ASSUME TypeOK, SearchInv, SoundlyFound, [Next]_vars PROVE SoundlyFound'
      OBVIOUS
    <2>1. CASE Reset
      BY <2>1 DEF Reset, FreshSearch, SoundlyFound, Found
    <2> SUFFICES ASSUME ~Reset, NEW R \in Derivable(opts.initial) PROVE Found' \subseteq R
      <3>1. opts' = opts \/ Reset
        BY SearchSteps DEF SearchInv
      <3>2. QED BY <2>1, <3>1 DEF SoundlyFound, Derivable
    <2>2. /\ Found \subseteq R /\ opts.initial \subseteq R /\ combine_rights \subseteq R
          /\ unary_needs \subseteq R /\ prev_subgen \subseteq R
      BY DEF SoundlyFound, SearchInv, Structure, PhaseSets, StatePartition, Found, Derivable
    <2>3. DatabaseConsistent
      BY DEF SearchInv
    <2>4. ASSUME NEW op \in Op, op # "combine", NEW ids, ids \subseteq R
          PROVE  follow_edges(op, ids) \subseteq R
      BY <2>3, <2>4, RealEdges DEF follow_edges
    <2>5. follow_combine_edges(unary_needs) \subseteq R
      BY <2>2, <2>3, RealEdges DEF follow_combine_edges
    <2> USE DEF Found, Quiet, Filtering, state, needs, counters, operation
    <2>6. CASE collect_initial
      BY <2>2, <2>6 DEF collect_initial, AddToSubgen
    <2>7. CASE follow_combine
      BY <2>2, <2>5, <2>7 DEF follow_combine, AddToSubgen
    <2>8. CASE follow_close
      BY <2>2, <2>4, <2>8 DEF follow_close, edge_inputs, Op
    <2>9. CASE follow_mirror
      BY <2>2, <2>4, <2>9 DEF follow_mirror, AddToSubgen, Op
    <2>10. CASE follow_connect
      BY <2>2, <2>4, <2>10 DEF follow_connect, AddToSubgen, Op
    <2>11. CASE begin_generation \/ begin_subgeneration
      BY <2>2, <2>11 DEF begin_generation, begin_subgeneration, flip_generation, flip_subgeneration
    <2>12. CASE \/ discover_needs_combine \/ NestedTransaction
                \/ discover_needs_close \/ discover_needs_mirror \/ discover_needs_connect
      BY <2>2, <2>12 DEF discover_needs_combine, NestedTransaction, discover_needs_close,
                         discover_needs_mirror,
                         discover_needs_connect
    <2>13. CASE compute_combine \/ compute_close \/ compute_mirror \/ compute_connect
      BY <2>2, <2>13 DEF compute_combine, compute_close, compute_mirror, compute_connect,
                         compute_unary, Launch, Return
    <2>14. CASE OperationThrows \/ PredicateMissing \/ KillBlocked \/ Crash \/ NewSearch
      BY <2>14 DEF OperationThrows, PredicateMissing, KillBlocked, Crash, NewSearch, Reset
    <2>15. CASE TaskEnds \/ \E w \in tasks : TaskFails(w)
      BY <2>2, <2>15 DEF TaskEnds, TaskCommits, TaskThrows, TaskFails
    <2>16. CASE (\E w \in stale : StaleCommits(w)) \/ UNCHANGED vars
      BY <2>2, <2>16 DEF StaleCommits, driver, vars
    <2>17. QED
      BY <2>6, <2>7, <2>8, <2>9, <2>10, <2>11, <2>12, <2>13, <2>14, <2>15, <2>16 DEF Next, Phases
  <1>3. QED BY <1>1, <1>2, TypeCorrect, SearchInvariant, PTL DEF Spec

-----------------------------------------------------------------------------
(* Errors.                                                                 *)

\* Until something fails, there is no work without a driver, and none that
\* is handed out, or about to be, is already recorded.
NoCollision ==
  faults = 0 =>
    /\ stale = {} /\ (error => Unsupported)
    /\ \A w \in tasks : ~Collides(w)
    /\ ~running /\ phase = "compute_combine" => \A w \in combine_needs : ~Collides(w)
    /\ ~running /\ phase = "compute_connect" => \A g \in unary_needs : ~Collides(Unary("connect", g))

\* No search reports an error of its own making.
THEOREM NoErrorWithoutFault == Spec => []NoSpuriousError
  <1>1. Init => NoCollision
    BY DEF Init, NoCollision
  <1>2. TypeOK /\ SearchInv /\ NoCollision /\ [Next]_vars => NoCollision'
    <2> SUFFICES ASSUME TypeOK, SearchInv, NoCollision, [Next]_vars, faults' = 0 PROVE NoCollision'
      BY DEF NoCollision
    <2>1. faults = 0 \/ faults \in Nat \ {0}
      BY DEF TypeOK
    <2>1a. /\ ~running => ~error
           /\ phase \notin {"compute_combine", "compute_close", "compute_mirror", "compute_connect"}
                => ~running
      BY DEF SearchInv, Structure, PhaseSets, ComputePhase
    <2>1b. UNCHANGED <<phase, opts, unary_needs>> => (Unsupported' <=> Unsupported)
      BY DEF Unsupported
    <2> USE DEF NoCollision, Collides, Quiet, Filtering, state, needs, counters, operation, database
    <2>2. CASE discover_needs_combine \/ NestedTransaction
      BY <2>2, <2>1a DEF discover_needs_combine, NestedTransaction
    <2>3. CASE discover_needs_connect
      BY <2>3, <2>1a DEF discover_needs_connect, filter_unary
    <2>4. CASE compute_combine
      BY <2>4, <2>1a, <2>1b DEF compute_combine, Launch, Return
    <2>5. ASSUME NEW op \in {"close", "mirror"}, NEW from, NEW to,
                 to \notin {"compute_combine", "compute_connect"},
                 from \notin {"compute_combine", "compute_connect"}, compute_unary(op, from, to)
          PROVE  NoCollision'
      BY <2>5, <2>1a, <2>1b DEF compute_unary, Launch, Return, Unary
    <2>6. CASE compute_close \/ compute_mirror
      BY <2>5, <2>6 DEF compute_close, compute_mirror
    <2>7. CASE compute_connect
      BY <2>7, <2>1a, <2>1b DEF compute_connect, compute_unary, Launch, Return
    <2>8. CASE \/ collect_initial \/ begin_generation \/ begin_subgeneration \/ follow_combine
               \/ follow_close \/ follow_mirror \/ follow_connect \/ discover_needs_close
               \/ discover_needs_mirror
      BY <2>8, <2>1a DEF collect_initial, begin_generation, begin_subgeneration, follow_combine,
           follow_close, follow_mirror, follow_connect, discover_needs_close, discover_needs_mirror
    <2>9. CASE OperationThrows \/ PredicateMissing \/ KillBlocked \/ NewSearch
      BY <2>9 DEF OperationThrows, PredicateMissing, KillBlocked, NewSearch, FreshSearch
    <2>10. CASE Crash \/ \E w \in tasks : TaskFails(w)
      BY <2>1, <2>10 DEF Crash, TaskFails
    <2>11. ASSUME NEW w \in tasks, TaskCommits(w) PROVE NoCollision'
      <3>1. running
        BY DEF SearchInv, Structure, PhaseSets
      <3>2. \A v \in Work : v \in Completions(w) => v = w \/ v.op = "close"
        BY DEF Completions, Unary
      <3>3. \A v \in tasks' : ~Collides(v)'
        BY <2>11, <3>2 DEF TaskCommits, Commit, TypeOK
      <3>4. QED BY <2>11, <2>1b, <3>1, <3>3 DEF TaskCommits
    <2>12. ASSUME NEW w \in tasks, TaskThrows(w) PROVE NoCollision'
      BY <2>12, <2>1b DEF TaskThrows
    <2>13. CASE (\E w \in stale : StaleCommits(w)) \/ UNCHANGED vars
      BY <2>13, <2>1b DEF StaleCommits, driver, vars
    <2>14. QED
      BY <2>2, <2>3, <2>4, <2>6, <2>7, <2>8, <2>9, <2>10, <2>11, <2>12, <2>13
         DEF Next, Phases, TaskEnds
  <1>3. NoCollision => NoSpuriousError
    BY DEF NoCollision, NoSpuriousError
  <1>4. QED BY <1>1, <1>2, <1>3, TypeCorrect, SearchInvariant, PTL DEF Spec

-----------------------------------------------------------------------------
(* The nested write transaction.                                           *)

\* update_predicates covers its candidates.
LEMMA CandidatesCovered ==
  ASSUME NEW ids \in SUBSET Gadget
  PROVE  ids \subseteq Covered(ids)
  <1>1. \A g \in Gadget : g <= g
    BY SearchAssumption
  <1>2. QED BY <1>1 DEF Covered

\* What of the current generation has been a candidate of discover_needs_connect
\* is covered by the predicates, and so is the previous generation.
ValidInv ==
  "connect" \in opts.filtered =>
    /\ phase # "blocked"
    /\ phase = "discover_needs_combine" => unary_needs \subseteq valid
    /\ phase # "suspended" =>
         curgen \ (IF phase = "discover_needs_connect" THEN prev_subgen ELSE {}) \subseteq valid

\* Predicates are only ever brought further, and before each generation through
\* all of it when they filter what is connected.
LEMMA ValidInductive ==
  ASSUME TypeOK, Structure, ValidInv, [Next]_vars
  PROVE  ValidInv'
  <1> USE DEF ValidInv, Quiet, Filtering, state, needs, counters, operation, database
  <1>1. CASE collect_initial
    BY <1>1 DEF collect_initial
  <1>2. CASE begin_generation
    BY <1>2 DEF begin_generation, flip_generation, Structure, PhaseSets
  <1>3. CASE discover_needs_combine \/ NestedTransaction
    BY <1>3 DEF discover_needs_combine, NestedTransaction
  <1>4. CASE compute_combine \/ compute_close \/ compute_mirror \/ compute_connect
    BY <1>4 DEF compute_combine, compute_close, compute_mirror, compute_connect, compute_unary,
                Launch, Return
  <1>5. CASE follow_combine \/ follow_close \/ follow_mirror \/ follow_connect
    BY <1>5 DEF follow_combine, follow_close, follow_mirror, follow_connect
  <1>6. CASE discover_needs_close \/ discover_needs_mirror
    BY <1>6 DEF discover_needs_close, discover_needs_mirror, filter_unary
  <1>7. CASE begin_subgeneration
    BY <1>7 DEF begin_subgeneration, flip_subgeneration
  <1>8. CASE discover_needs_connect
    <2>1. prev_subgen \subseteq Covered(prev_subgen)
      BY CandidatesCovered DEF TypeOK
    <2>2. QED BY <1>8, <2>1 DEF discover_needs_connect, filter_unary
  <1>9. CASE OperationThrows \/ PredicateMissing \/ KillBlocked \/ Crash \/ NewSearch
    BY <1>9 DEF OperationThrows, PredicateMissing, KillBlocked, Crash, NewSearch, FreshSearch
  <1>10. CASE TaskEnds \/ \E w \in tasks : TaskFails(w)
    BY <1>10 DEF TaskEnds, TaskCommits, TaskThrows, TaskFails, Commit
  <1>11. CASE (\E w \in stale : StaleCommits(w)) \/ UNCHANGED vars
    BY <1>11 DEF StaleCommits, Commit, driver, vars
  <1>12. QED
    BY <1>1, <1>2, <1>3, <1>4, <1>5, <1>6, <1>7, <1>8, <1>9, <1>10, <1>11 DEF Next, Phases

\* A driver that filters what it connects never waits for the write lock it
\* holds itself, whatever other predicates it uses, what earlier searches left
\* and which of its workers fail.
THEOREM NeverBlocksFiltered == Spec => []BlocksOnlyUnfiltered
  <1>1. Init => ValidInv
    BY DEF Init, ValidInv
  <1>2. ValidInv => BlocksOnlyUnfiltered
    BY DEF ValidInv, BlocksOnlyUnfiltered
  <1>3. SearchInv => Structure
    BY DEF SearchInv
  <1>4. QED BY <1>1, <1>2, <1>3, TypeCorrect, SearchInvariant, ValidInductive, PTL DEF Spec

\* The driver's sets, needs, errors and transactions stay consistent, as run
\* search checks it on a small world, for all gadgets, operations, options and
\* numbers of faults.
THEOREM DriverAlwaysConsistent == Spec => []DriverConsistent
  <1>1. StatePartition /\ NeedsConsumed /\ NoSpuriousError /\ OnlyClosedExpanded
        /\ BlocksOnlyUnfiltered => DriverConsistent
    BY DEF DriverConsistent
  <1>2. QED
    BY <1>1, StateAlwaysPartitioned, NeedsAlwaysConsumed, NoErrorWithoutFault, OnlyClosuresExpanded,
       NeverBlocksFiltered, PTL
=============================================================================
