------------------------------- MODULE Search -------------------------------
(***************************************************************************)
(* The generational search of the driver process (class Search and class   *)
(* SearchState of driver/toggles-driver.cpp), together with the part of    *)
(* the shared database it works on: which operations are recorded as       *)
(* completed and which edges are stored.                                   *)
(*                                                                         *)
(* The driver is one thread that walks through phases.  In a compute phase *)
(* it hands work to worker processes, which commit their results to the    *)
(* database one by one, in any order; a worker can fail, the driver can    *)
(* die, and the work it had handed out may still be committed afterwards,  *)
(* while a new driver is already running on the same database.             *)
(*                                                                         *)
(* A set of gadget ids is a TLA+ set (the code keeps sorted vectors of     *)
(* half-open intervals).  What an operation computes from a gadget is a    *)
(* constant; how workers are scheduled is in module Scheduler, how         *)
(* completions are stored in module CompletionLSM.                         *)
(***************************************************************************)
EXTENDS Integers, FiniteSets

CONSTANTS
  Gadget,       \* gadget ids, numbers
  Close,        \* Close[g]: g with its accepting closure taken
  Mirror,       \* Mirror[g]: the other enantiomorph of g
  Connect,      \* Connect[g]: what connecting two locations of g yields
  Combine,      \* Combine[l, r]: what combining left l with right r yields
  Locations,    \* Locations[g]: number of locations of g
  Options,      \* the command lines a search may be started with
  GadgetsPerTask, \* close_gadgets_per_task and mirror_gadgets_per_task
  PriorWork,    \* what earlier searches may have completed (bounds Init)
  MaxFaults     \* bound on worker failures and driver crashes

Op == {"combine", "connect", "close", "mirror"}

\* A unit of work: an operation with its inputs.  Only combine has a right
\* input; for the others the field repeats the input.
Work == [op : Op, in : Gadget, right : Gadget]

Unary(op, g) == [op |-> op, in |-> g, right |-> g]
Binary(l, r) == [op |-> "combine", in |-> l, right |-> r]

\* The location predicates the database is created with are locations<=2 to
\* locations<=16; a query for any other one throws.
LocationKeys == 2..16

\* CompletenessOptions, the --stop-after option and the number of workers.  "eligible" is what the
\* --min and --max predicates of each operation let through, "filtered" are the
\* operations other than combine that have such predicates.
OptionType ==
  [initial : (SUBSET Gadget) \ {{}},
   eligible : [Op -> SUBSET Gadget],
   filtered : SUBSET (Op \ {"combine"}),
   precision : Nat,
   multiplayer : BOOLEAN,       \* --multiplayer
   follow_mirror : BOOLEAN,     \* FALSE for --no-follow-mirror
   compute_close : BOOLEAN,     \* FALSE for --skip-close
   compute_mirror : BOOLEAN,    \* FALSE for --skip-mirror
   stop_after_gen : Nat, stop_after_subgen : Nat,
   workers : Nat \ {0}]

ASSUME SearchAssumption ==
  /\ Gadget \subseteq Nat
  /\ Close \in [Gadget -> Gadget]
  /\ Mirror \in [Gadget -> Gadget]
  /\ Connect \in [Gadget -> SUBSET Gadget]
  /\ Combine \in [Gadget \X Gadget -> SUBSET Gadget]
  /\ Locations \in [Gadget -> LocationKeys]
  /\ Options # {} /\ \A o \in Options : o \in OptionType
  /\ \A o \in Options, op \in Op \ {"combine"} : op \in o.filtered \/ o.eligible[op] = Gadget
  /\ GadgetsPerTask \in Nat \ {0}
  /\ PriorWork \in SUBSET Work
  /\ MaxFaults \in Nat

\* What the operations on gadgets guarantee: closing twice is closing once,
\* mirroring twice is not mirroring, and a mirror image has the same
\* statistics and closes to the mirror image of the closure.
ASSUME OperationLaws ==
  \A g \in Gadget :
    /\ Close[Close[g]] = Close[g]
    /\ Mirror[Mirror[g]] = g
    /\ Close[Mirror[g]] = Mirror[Close[g]]
    /\ \A o \in Options, op \in Op : Mirror[g] \in o.eligible[op] <=> g \in o.eligible[op]

\* The outputs for which the worker stores edges; close and mirror store none
\* when the gadget does not change.
Output(w) ==
  CASE w.op = "combine" -> Combine[w.in, w.right]
    [] w.op = "connect" -> Connect[w.in]
    [] w.op = "close"   -> {Close[w.in]} \ {w.in}
    [] w.op = "mirror"  -> {Mirror[w.in]} \ {w.in}

VARIABLES
  opts,             \* complete_opts_ and the stop limits, fixed when a search starts
  phase,            \* phase_, or how the process ended
  closed, subgen,   \* closed_ and subgen_: all ids encountered so far
  curgen,           \* curgen_: the current generation except subgen_
  prev_subgen,      \* prev_subgen_
  unary_needs,      \* unary_needs_, also the lefts during the combine phases
  combine_needs,    \* combine_needs_, as the set of pairs it stands for
  combine_rights,   \* combine_rights_
  generation, subgeneration,
  running,          \* the driver is inside do_generic_operation
  error,            \* error_happened
  tasks,            \* work handed out by the running operation, not yet committed
  stale,            \* work handed out by a driver that has died
  done,             \* database: the completions
  edges,            \* database: the stored edges, <<work, output>>
  valid,            \* database: the gadgets below valid_before of the predicates
  faults            \* failures and crashes so far

state == <<closed, subgen, curgen, prev_subgen>>
needs == <<unary_needs, combine_needs, combine_rights>>
counters == <<generation, subgeneration>>
operation == <<running, error, tasks>>
database == <<done, edges, valid>>
driver == <<phase, opts, state, needs, counters, operation>>
vars == <<driver, database, stale, faults>>

-----------------------------------------------------------------------------
(* Following edges: only what is stored in the database is followed.       *)

\* Mutant: the half-open intervals of outputs are taken as closed.
follow_edges_off_by_one(op, ids) ==
  UNION {{e[2], e[2] + 1} : e \in {f \in edges : f[1].op = op /\ f[1].in \in ids}}

\* follow_edges and follow_skinny_edges: the outputs of the edges of op from
\* the given ids.
follow_edges(op, ids) == {e[2] : e \in {f \in edges : f[1].op = op /\ f[1].in \in ids}}

\* The inputs among ids that have an edge (follow_edges_with_inputs).
edge_inputs(op, ids) == {g \in ids : \E e \in edges : e[1].op = op /\ e[1].in = g}

\* Mutant: the tables of all rights are followed.
follow_all_combine_edges(lefts) ==
  {e[2] : e \in {f \in edges : f[1].op = "combine" /\ f[1].in \in lefts}}

\* The combine edges are in one table per right; those of combine_rights_ are followed.
follow_combine_edges(lefts) ==
  {e[2] : e \in {f \in edges : /\ f[1].op = "combine"
                              /\ f[1].in \in lefts
                              /\ f[1].right \in combine_rights}}

-----------------------------------------------------------------------------
(* SearchState: closed_ and subgen_ together are the ids encountered.      *)

\* Mutant: the ids already closed are not subtracted.
AddAllToSubgen(ids) == subgen \cup ids

\* operator(): add to the subgeneration the ids that are not closed.
AddToSubgen(ids) == subgen \cup (ids \ closed)

\* flip_generation(): the previous generation.
flip_generation ==
  /\ unary_needs' = curgen \cup subgen
  /\ curgen' = {}
  /\ subgen' = {}
  /\ UNCHANGED <<closed, prev_subgen>>

flip_subgeneration ==
  /\ closed' = closed \cup subgen
  /\ curgen' = curgen \cup subgen
  /\ prev_subgen' = subgen
  /\ subgen' = {}

should_stop(gen, sub) ==
  gen > opts.stop_after_gen \/ (gen = opts.stop_after_gen /\ sub > opts.stop_after_subgen)

-----------------------------------------------------------------------------
(* The phases.                                                             *)

\* What every phase leaves alone but the compute phases; one that filters its
\* candidates may update the predicates.
Filtering == UNCHANGED <<opts, operation, done, edges, stale, faults>>
Quiet == Filtering /\ UNCHANGED valid

collect_initial ==
  /\ phase = "collect_initial"
  /\ subgen' = AddToSubgen(opts.initial)
  /\ phase' = "discover_needs_close"
  /\ UNCHANGED <<closed, curgen, prev_subgen, needs, counters>> /\ Quiet

begin_generation ==
  /\ phase = "begin_generation"
  /\ flip_generation
  /\ \/ /\ curgen \cup subgen = {}
        /\ phase' = "stopped"
        /\ UNCHANGED counters
     \/ /\ curgen \cup subgen # {}
        /\ generation' = generation + 1
        /\ subgeneration' = 0
        /\ phase' = IF should_stop(generation + 1, 0) THEN "suspended"
                                                     ELSE "discover_needs_combine"
  /\ UNCHANGED <<combine_needs, combine_rights>> /\ Quiet

\* precision - locations, the bound on the locations of a left for right r; a
\* negative difference wraps to a value no predicate key exists for.
LeftLocations(r) == opts.precision - Locations[r]

Fits(l, r) == Locations[l] <= LeftLocations(r)

\* combine_maxs always holds a bound on locations: the largest LeftLocations.
CombineEligible(g) == g \in opts.eligible["combine"] /\ \E r \in combine_rights : Fits(g, r)

\* The predicates of the generation are brought up to date inside a write
\* transaction, for the compaction of the completions.  That works only when
\* they are up to date already, for an update begins a write transaction of its
\* own (see NestedTransaction).
discover_needs_combine ==
  /\ phase = "discover_needs_combine"
  /\ unary_needs \subseteq valid
  /\ \A r \in combine_rights : LeftLocations(r) \in LocationKeys
  /\ unary_needs' = {g \in unary_needs : CombineEligible(g)}
  /\ combine_needs' = {w \in {Binary(l, r) : l \in unary_needs', r \in combine_rights} :
                         w \notin done /\ Fits(w.in, w.right)}
  /\ phase' = "compute_combine"
  /\ UNCHANGED <<state, combine_rights, counters>> /\ Quiet

\* The driver waits for the write lock of the database, which it holds itself.
\* The update has computed its result, and nothing has been committed.
NestedTransaction ==
  /\ phase = "discover_needs_combine"
  /\ ~(unary_needs \subseteq valid)
  /\ phase' = "blocked"
  /\ UNCHANGED <<state, needs, counters>> /\ Quiet

follow_combine ==
  /\ phase = "follow_combine"
  /\ subgen' = AddToSubgen(follow_combine_edges(unary_needs))
  /\ unary_needs' = {}
  /\ combine_needs' = {}
  /\ phase' = "discover_needs_close"
  /\ UNCHANGED <<closed, curgen, prev_subgen, combine_rights, counters>> /\ Quiet

\* update_predicates through the last candidate covers every gadget before it.
Covered(candidates) == {g \in Gadget : \E c \in candidates : g <= c}

\* Mutant: subtract_completion is forgotten.
filter_eligible(op, candidates) ==
  /\ unary_needs = {}
  /\ unary_needs' = candidates \cap opts.eligible[op]
  /\ valid' = IF op \in opts.filtered THEN valid \cup Covered(candidates) ELSE valid

\* Mutant: the predicates are taken as they are.
filter_without_update(op, candidates) ==
  /\ unary_needs = {}
  /\ unary_needs' = {g \in candidates \cap opts.eligible[op] : Unary(op, g) \notin done}
  /\ UNCHANGED valid

\* filter_unary: throws when unary_needs_ is not empty (see NeedsConsumed).
\* Predicates are brought up to date only when there are any to apply.
filter_unary(op, candidates) ==
  /\ unary_needs = {}
  /\ unary_needs' = {g \in candidates \cap opts.eligible[op] : Unary(op, g) \notin done}
  /\ valid' = IF op \in opts.filtered THEN valid \cup Covered(candidates) ELSE valid

discover_needs_close ==
  /\ phase = "discover_needs_close"
  /\ \/ /\ opts.multiplayer
        /\ phase' = "discover_needs_mirror"
        /\ UNCHANGED <<unary_needs, valid>>
     \/ /\ ~opts.multiplayer /\ ~opts.compute_close
        /\ phase' = "follow_close"
        /\ UNCHANGED <<unary_needs, valid>>
     \/ /\ ~opts.multiplayer /\ opts.compute_close
        /\ filter_unary("close", subgen)
        /\ phase' = "compute_close"
  /\ UNCHANGED <<state, combine_needs, combine_rights, counters>> /\ Filtering

\* Mutant: the inputs are not erased from the subgeneration.
follow_close_keeping_inputs ==
  /\ phase = "follow_close"
  /\ subgen' = AddToSubgen(follow_edges("close", subgen))
  /\ phase' = "discover_needs_mirror"
  /\ UNCHANGED <<closed, curgen, prev_subgen, needs, counters>> /\ Quiet

\* erase_from_subgeneration(inputs), then add the outputs.
follow_close ==
  /\ phase = "follow_close"
  /\ LET inputs == edge_inputs("close", subgen)
     IN  /\ closed' = closed \cup inputs
         /\ subgen' = (subgen \ inputs) \cup (follow_edges("close", subgen) \ closed')
  /\ phase' = "discover_needs_mirror"
  /\ UNCHANGED <<curgen, prev_subgen, needs, counters>> /\ Quiet

discover_needs_mirror ==
  /\ phase = "discover_needs_mirror"
  /\ \/ /\ generation = 0 /\ subgeneration = 0
        /\ phase' = "begin_subgeneration"
        /\ UNCHANGED <<unary_needs, valid>>
     \/ /\ ~(generation = 0 /\ subgeneration = 0) /\ ~opts.compute_mirror
        /\ phase' = "follow_mirror"
        /\ UNCHANGED <<unary_needs, valid>>
     \/ /\ ~(generation = 0 /\ subgeneration = 0) /\ opts.compute_mirror
        /\ filter_unary("mirror", subgen)
        /\ phase' = "compute_mirror"
  /\ UNCHANGED <<state, combine_needs, combine_rights, counters>> /\ Filtering

follow_mirror ==
  /\ phase = "follow_mirror"
  /\ subgen' = IF opts.follow_mirror THEN AddToSubgen(follow_edges("mirror", subgen)) ELSE subgen
  /\ phase' = "begin_subgeneration"
  /\ UNCHANGED <<closed, curgen, prev_subgen, needs, counters>> /\ Quiet

\* initialize_combine_rights, then flip_subgeneration, then the next phase.
begin_subgeneration ==
  /\ phase = "begin_subgeneration"
  /\ combine_rights' = IF generation = 0 /\ subgeneration = 0 THEN subgen ELSE combine_rights
  /\ flip_subgeneration
  /\ \/ /\ subgen = {}
        /\ phase' = "begin_generation"
        /\ UNCHANGED counters
     \/ /\ subgen # {}
        /\ subgeneration' = subgeneration + 1
        /\ phase' = IF should_stop(generation, subgeneration + 1) THEN "suspended"
                                                                ELSE "discover_needs_connect"
        /\ UNCHANGED generation
  /\ UNCHANGED <<unary_needs, combine_needs>> /\ Quiet

discover_needs_connect ==
  /\ phase = "discover_needs_connect"
  /\ filter_unary("connect", prev_subgen)
  /\ phase' = "compute_connect"
  /\ UNCHANGED <<state, combine_needs, combine_rights, counters>> /\ Filtering

\* Mutant: only what this search computed is followed.
follow_connect_needs ==
  /\ phase = "follow_connect"
  /\ subgen' = AddToSubgen(follow_edges("connect", unary_needs))
  /\ phase' = "discover_needs_close"
  /\ UNCHANGED <<closed, curgen, prev_subgen, needs, counters>> /\ Quiet

follow_connect ==
  /\ phase = "follow_connect"
  /\ subgen' = AddToSubgen(follow_edges("connect", prev_subgen))
  /\ phase' = "discover_needs_close"
  /\ UNCHANGED <<closed, curgen, prev_subgen, needs, counters>> /\ Quiet

-----------------------------------------------------------------------------
(* The compute phases: the driver hands out the needed work and waits.     *)

\* The call of do_generic_operation: one task after the other goes to a worker.
Launch(from, work) ==
  /\ phase = from /\ ~running /\ work # {}
  /\ running' = TRUE
  /\ error' = FALSE
  /\ tasks' = work
  /\ UNCHANGED <<phase, opts, state, needs, counters, database, stale, faults>>

\* Its return without error, or the phase when there is nothing to do.
Return(from, work, to) ==
  /\ phase = from
  /\ \/ ~running /\ work = {}
     \/ running /\ ~error /\ tasks = {}
  /\ running' = FALSE
  /\ phase' = to
  /\ UNCHANGED <<opts, state, combine_needs, combine_rights, counters, error, tasks, database,
                 stale, faults>>

compute_combine ==
  \/ Launch("compute_combine", combine_needs)
  \/ Return("compute_combine", combine_needs, "follow_combine") /\ UNCHANGED unary_needs

\* Mutant: unary_needs_ is not cleared.
compute_unary_keeping_needs(op, from, to) ==
  LET work == {Unary(op, g) : g \in unary_needs}
  IN  \/ Launch(from, work)
      \/ Return(from, work, to) /\ UNCHANGED unary_needs

compute_unary(op, from, to) ==
  LET work == {Unary(op, g) : g \in unary_needs}
  IN  \/ Launch(from, work)
      \/ Return(from, work, to) /\ unary_needs' = {}

compute_close   == compute_unary("close", "compute_close", "follow_close")
compute_mirror  == compute_unary("mirror", "compute_mirror", "follow_mirror")
compute_connect == compute_unary("connect", "compute_connect", "follow_connect")

-----------------------------------------------------------------------------
(* The workers.  A worker stores the edges of its work and records it as   *)
(* completed in one transaction.                                           *)

\* Mutant: mirror is taken for idempotent, too.
CompletionsOfOutputs(w) ==
  IF w.op \in {"close", "mirror"} THEN {w} \cup {Unary(w.op, o) : o \in Output(w)} ELSE {w}

\* What a task records as completed: for combine a summary of the edges, so
\* nothing when there are none; for close also the outputs ("idempotent").
Completions(w) ==
  CASE w.op = "combine" /\ Output(w) = {} -> {}
    [] w.op = "close" -> {w} \cup {Unary("close", o) : o \in Output(w)}
    [] OTHER -> {w}

Commit(w) ==
  /\ edges' = edges \cup ({w} \X Output(w))
  /\ done' = done \cup Completions(w)
  /\ UNCHANGED valid

\* For combine and connect, recording a completion twice is an error and
\* aborts the transaction; close and mirror allow the overlap.
Collides(w) == w.op \in {"combine", "connect"} /\ w \in done

\* With several workers, an operation of several chunks is done in halves; the
\* secondhalf of close and of mirror is not implemented and always throws.
Unsupported ==
  /\ phase \in {"compute_close", "compute_mirror"}
  /\ opts.workers > 1 /\ Cardinality(unary_needs) > GadgetsPerTask

TaskCommits(w) ==
  /\ w \in tasks /\ ~Collides(w) /\ ~Unsupported
  /\ Commit(w)
  /\ tasks' = tasks \ {w}
  /\ UNCHANGED <<phase, opts, state, needs, counters, running, error, stale, faults>>

TaskThrows(w) ==
  /\ w \in tasks /\ (Collides(w) \/ Unsupported)
  /\ error' = TRUE
  /\ tasks' = tasks \ {w}
  /\ UNCHANGED <<phase, opts, state, needs, counters, running, database, stale, faults>>

\* The worker dies or reports an exception, before or after its commit.
TaskFails(w) ==
  /\ w \in tasks /\ ~Collides(w) /\ ~Unsupported /\ faults < MaxFaults
  /\ Commit(w) \/ UNCHANGED database
  /\ error' = TRUE
  /\ tasks' = tasks \ {w}
  /\ faults' = faults + 1
  /\ UNCHANGED <<phase, opts, state, needs, counters, running, stale>>

\* A worker whose driver has died finishes all the same, unless another driver
\* holds the write lock for ever.
StaleCommits(w) ==
  /\ w \in stale /\ phase # "blocked"
  /\ IF Collides(w) THEN UNCHANGED database ELSE Commit(w)
  /\ stale' = stale \ {w}
  /\ UNCHANGED <<driver, faults>>

-----------------------------------------------------------------------------
(* The end of a driver process, and the next one on the same database.     *)

Ended == {"stopped", "suspended", "dead"}

\* The members of a new Search object.
FreshSearch ==
  /\ closed' = {} /\ subgen' = {} /\ curgen' = {} /\ prev_subgen' = {}
  /\ unary_needs' = {} /\ combine_needs' = {} /\ combine_rights' = {}
  /\ generation' = 0 /\ subgeneration' = 0
  /\ running' = FALSE /\ error' = FALSE /\ tasks' = {}

\* Mutant: a failed operation is tried again.
OperationRetries ==
  /\ running /\ error
  /\ running' = FALSE /\ error' = FALSE /\ tasks' = {}
  /\ UNCHANGED <<phase, opts, state, needs, counters, database, stale, faults>>

\* do_generic_operation throws once the work in flight has finished; the work
\* not yet handed out is dropped.
OperationThrows ==
  /\ running /\ error
  /\ phase' = "dead"
  /\ FreshSearch
  /\ UNCHANGED <<opts, database, stale, faults>>

\* intersect_predicate throws in discover_needs_combine: there is no predicate
\* for the number of locations a left may have.
PredicateMissing ==
  /\ phase = "discover_needs_combine"
  /\ unary_needs \subseteq valid
  /\ \E r \in combine_rights : LeftLocations(r) \notin LocationKeys
  /\ phase' = "dead"
  /\ FreshSearch
  /\ UNCHANGED <<opts, database, stale, faults>>

\* The driver is killed, or a socket error is thrown out of WorkerManager::run.
\* Any of the work handed out may go on.
Crash ==
  /\ phase \notin Ended /\ faults < MaxFaults
  /\ \E orphaned \in SUBSET (IF Unsupported THEN {} ELSE tasks) : stale' = stale \cup orphaned
  /\ phase' = "dead"
  /\ faults' = faults + 1
  /\ FreshSearch
  /\ UNCHANGED <<opts, database>>

\* Somebody kills a driver that is blocked.
KillBlocked ==
  /\ phase = "blocked"
  /\ phase' = "dead"
  /\ FreshSearch
  /\ UNCHANGED <<opts, database, stale, faults>>

\* The next search, with any options.
NewSearch ==
  /\ phase \in Ended
  /\ opts' \in Options
  /\ phase' = "collect_initial"
  /\ FreshSearch
  /\ UNCHANGED <<database, stale, faults>>

Init ==
  /\ phase = "collect_initial"
  /\ opts \in Options
  /\ closed = {} /\ subgen = {} /\ curgen = {} /\ prev_subgen = {}
  /\ unary_needs = {} /\ combine_needs = {} /\ combine_rights = {}
  /\ generation = 0 /\ subgeneration = 0
  /\ running = FALSE /\ error = FALSE /\ tasks = {}
  /\ stale = {} /\ faults = 0
  /\ done \in SUBSET PriorWork
  /\ edges = UNION {{w} \X Output(w) : w \in done}
  /\ valid \in {{}, Gadget}

Phases ==
  \/ collect_initial \/ begin_generation
  \/ discover_needs_combine \/ NestedTransaction \/ compute_combine \/ follow_combine
  \/ discover_needs_close \/ compute_close \/ follow_close
  \/ discover_needs_mirror \/ compute_mirror \/ follow_mirror
  \/ begin_subgeneration
  \/ discover_needs_connect \/ compute_connect \/ follow_connect
  \/ OperationThrows \/ PredicateMissing

TaskEnds == \E w \in tasks : TaskCommits(w) \/ TaskThrows(w)

Next ==
  \/ Phases
  \/ TaskEnds
  \/ \E w \in tasks : TaskFails(w)
  \/ \E w \in stale : StaleCommits(w)
  \/ Crash
  \/ KillBlocked
  \/ NewSearch

\* The driver does not stop between two phases, and a worker that was given
\* work ends sooner or later; failures, new searches and somebody who kills a
\* blocked driver need not happen.
Spec == Init /\ [][Next]_vars /\ WF_vars(Phases) /\ WF_vars(TaskEnds)

-----------------------------------------------------------------------------
(* Properties.                                                             *)

PhaseName ==
  {"collect_initial", "begin_generation", "discover_needs_combine", "compute_combine",
   "follow_combine", "discover_needs_close", "compute_close", "follow_close",
   "discover_needs_mirror", "compute_mirror", "follow_mirror", "begin_subgeneration",
   "discover_needs_connect", "compute_connect", "follow_connect", "blocked"} \cup Ended

\* The types of the members of Search and SearchState and of the database.
TypeOK ==
  /\ phase \in PhaseName
  /\ opts \in Options
  /\ closed \in SUBSET Gadget /\ subgen \in SUBSET Gadget
  /\ curgen \in SUBSET Gadget /\ prev_subgen \in SUBSET Gadget
  /\ unary_needs \in SUBSET Gadget /\ combine_needs \in SUBSET Work
  /\ combine_rights \in SUBSET Gadget
  /\ generation \in Nat /\ subgeneration \in Nat
  /\ running \in BOOLEAN /\ error \in BOOLEAN
  /\ tasks \in SUBSET Work /\ stale \in SUBSET Work
  /\ done \in SUBSET Work /\ edges \in SUBSET (Work \X Gadget) /\ valid \in SUBSET Gadget
  /\ faults \in 0..MaxFaults

\* The comments on the members of SearchState: an id encountered is in closed_
\* or in subgen_, never in both, and the previous subgeneration is part of the
\* current generation.
StatePartition ==
  /\ closed \cap subgen = {}
  /\ prev_subgen \subseteq curgen
  /\ curgen \subseteq closed

\* filter_unary never finds needs left over from an earlier phase, so its
\* logic_error is never thrown.
NeedsConsumed ==
  phase \in {"discover_needs_close", "discover_needs_mirror", "discover_needs_connect",
            "begin_generation"} => unary_needs = {}

\* Whatever fails, crashes or is committed late: what the database records as
\* completed has all its edges stored, and only edges that are real.
DatabaseConsistent ==
  /\ \A w \in done : \A o \in Output(w) : <<w, o>> \in edges
  /\ \A e \in edges : e[2] \in Output(e[1])

\* Without a failure or a crash no operation reports an error, but for the one
\* that is not implemented: work never collides with what is already recorded.
NoSpuriousError == faults = 0 /\ ~Unsupported => ~error

\* While closures are computed, a gadget that is not its own closure never
\* gets into a generation, so it is never connected or combined, although
\* mirror images are added after the close phase.
OnlyClosedExpanded ==
  ~opts.multiplayer /\ opts.compute_close =>
    \A g \in curgen \cap opts.eligible["close"] : Close[g] = g

\* The nested transaction of discover_needs_combine does no harm in a search that
\* filters what it connects: every subgeneration of the generation has been a
\* candidate of discover_needs_connect, which brought the predicates up to date.
BlocksOnlyUnfiltered == "connect" \in opts.filtered => phase # "blocked"

\* The driver is consistent in itself, whatever the command line, the database
\* and the workers: its sets stay apart, no phase meets needs or errors of
\* another one, only closed gadgets are expanded, and it waits for itself only
\* when nothing filters what is connected.
DriverConsistent ==
  StatePartition /\ NeedsConsumed /\ NoSpuriousError /\ OnlyClosedExpanded /\ BlocksOnlyUnfiltered

Found == closed \cup subgen

Erased(g) == ~opts.multiplayer /\ edge_inputs("close", {g}) # {}

\* What a search must have found once it has expanded gadget g.
Connected(g) == g \in opts.eligible["connect"] => Connect[g] \subseteq Found
Combined(g) ==
  g \in opts.eligible["combine"] =>
    \A r \in combine_rights : Fits(g, r) => Combine[g, r] \subseteq Found
Mirrored(g) ==
  opts.compute_mirror /\ opts.follow_mirror /\ g \in opts.eligible["mirror"] \ combine_rights =>
    Mirror[g] \in Found
ClosureFound(g) ==
  ~opts.multiplayer /\ opts.compute_close /\ g \in opts.eligible["close"] => Close[g] \in Found

\* "no more gadgets can be made" (Control::stop): when the search stops by
\* itself, everything that the eligible operations make from the gadgets found
\* has been found, whatever the database held at the start and whatever was
\* lost or committed late.
CompleteAtStop ==
  phase = "stopped" =>
    \A g \in Found :
      /\ ClosureFound(g)
      /\ ~Erased(g) => Connected(g) /\ Combined(g) /\ Mirrored(g)

\* The sets of gadgets that contain the initial ones and are closed under all operations.
Derivable(initial) ==
  {R \in SUBSET Gadget :
     /\ initial \subseteq R
     /\ \A g \in R : /\ {Close[g], Mirror[g]} \cup Connect[g] \subseteq R
                      /\ \A r \in R : Combine[g, r] \subseteq R}

\* A search finds nothing that cannot be made from its initial gadgets, even
\* though it follows every edge earlier searches left in the database.
SoundlyFound == \A R \in Derivable(opts.initial) : Found \subseteq R

\* Every search whose connects are filtered comes to an end: the generations run
\* dry, a limit is reached or the process dies.  Any other search does, too, or
\* blocks in discover_needs_combine.
SearchEnds ==
  phase = "collect_initial"
    ~> phase \in IF "connect" \in opts.filtered THEN Ended ELSE Ended \cup {"blocked"}

\* "The flow is combine -> close -> mirror -> connect -> close" (the comment of
\* enum class Phase, toggles-driver.cpp:279): what discover_needs_combine finds
\* is combined, or the search ends.  The code refutes it: the driver can wait for
\* ever for the write lock it holds.
FlowContinues == phase = "discover_needs_combine" ~> phase \in {"compute_combine"} \cup Ended
=============================================================================
