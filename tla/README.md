# TLA+ models of the motion planning gadget search

The repository searches for simulations between motion planning gadgets. Gadgets are stored in a shared LMDB database and
numbered; a *driver* process runs a generational search over them; *worker* processes compute what operations on gadgets
yield and commit the results to the same database. This directory holds TLA+ models of that system, the TLC configurations
that check them on small instances, and proofs checked by TLAPS. `PROJECT.json` lists runs, mutants, hazards and theorems,
and maps each definition to the lines it models.

Paths below are relative to `src/src/toggles/` unless they begin with `src/`.

## The system

| Part | State | Operations | Interacts with |
| --- | --- | --- | --- |
| Generational search, `driver/toggles-driver.cpp` class `Search`, `SearchState` | phase, generation and subgeneration, `closed_`, `subgen_`, `curgen_`, `prev_subgen_`, needs, combine rights | 15 phases: discover, compute and follow for combine, close, mirror, connect | reads completions, predicates and edges; hands work to the scheduler |
| Operation scheduler, `do_generic_operation` and `driver/worker-manager.cpp` | task queue, pending firsthalf files, running secondhalf, error flag, one socket per worker | `run`, `next`, `process`, the socket callbacks | workers over TCP (one request per connection) |
| Workers, `runner/msgpack-mode.cpp`, `rpc.cpp` | none between requests; firsthalf files | combine, connect, close, mirror; whole, firsthalf, secondhalf | gadget store, edges and completions, in LMDB transactions |
| Completions, `completions.cpp` | per kind, a log-structured merge tree of id intervals | record, subtract, intersect, compact | written by workers, read and compacted by the driver |
| Predicates, `predicates.cpp` | per predicate, the ids that satisfy it; `valid_before` | discover, compute, commit; create | several processes, optimistically |
| Gadget store, `runner/selsert-gadget-by-data.cpp`, `select-by-id.cpp` | hash table and index of hashes | select or insert, select by id | workers, concurrently |
| Edges, skinny pages in `msgpack-mode.cpp` and `toggles-shared.*` | pages of outputs per input | paginate, insert, visit, follow | workers write, driver reads |
| Secondhalf, `do_secondhalf_db` in `msgpack-mode.cpp` | slices of outputs, ids assigned so far, a queue of commits | reader threads look gadgets up, a writer thread stores them, the main thread commits the edges | gadget store, edges; other processes insert meanwhile |
| Threads, `src/src/bounded_queue.hpp`, `transform_reduce.hpp`, `task_parallel.*` | a queue; a reduction tree | put, take, offer, poll; transform and reduce | threads within one process |
| Intervals and encodings, `src/src/intervals.hpp`, `varint.hpp`, `runner/gadget-encoding*.cpp` | none | set operations on interval lists; bytes of numbers, headers and edges | everything that is stored |
| Gadget operations, `runner/ops.cpp`, `canonicalize.*`, `gadget-encoding.cpp` | none | build, canonicalise, connect, combine, close, mirror | called by workers and sync |
| Automata library, `src/src/automaton*`, `hopcroft.cpp`, `nfa-optimize.cpp` | an automaton and three flags of what is known of it | edit, determinise, minimise, optimise, canonicalise, combine | gadget operations, puzzle solvers |
| Containers, `circular_deque.*`, `bitset.hpp` | an array that wraps around; a word | | automata library, queue |
| Sync, `runner/sync.cpp` | names, groups and aliases; the database it creates | read definitions, store, name, close, mirror | may run while searches and workers are at work, may crash in between |
| Report, `toggles-report.cpp` | what it has reached and awaits, provenances, two caches of derivations | follow edges step by step, ask runners for full edges, print derivations | reads while workers commit; starts runner processes |
| Maintenance tools (migrate, repair, invert, ...), puzzle solvers, generators | | one-shot programs | |

What is hard here: work is committed by many processes in any order; a driver can die and leave workers running that commit
while the next driver is at work; the driver plans from a snapshot of the completions; an operation in halves passes
results through files; the merge tree reorganises itself in the middle of a record; and a search follows edges that other
searches, with other options, have stored.

What makes each part correct:

* search: it finds everything the eligible operations make, and nothing that cannot be made; what is marked as completed is
  stored; it ends, unless it waits for a lock of its own (see Findings); a failure never passes for success;
* scheduler: every task is carried out once or the operation throws; no file is lost; one secondhalf at a time;
* completions: the tree is a set, whatever was compacted when;
* predicates: an id below `valid_before` is in a predicate if and only if it satisfies it, but for ids that a failing task left
  out;
* gadget store: one id per gadget, and the index leads from the id back to the gadget;
* threads: the queue loses nothing and never blocks for ever; the reduction combines every result once; a secondhalf stores
  every gadget once and leads every edge to the gadget it was computed for, whatever its threads and other processes do;
* intervals and encodings: interval operations are set operations; what is written is read back, at every boundary;
* gadget operations: each yields exactly the gadgets that a robot moving in the input would see, in one canonical form; they
  obey the laws that the search takes for granted;
* automata library: transformations keep the language, and an automaton has one canonical form;
* sync: whatever crashes and whoever works on the database meanwhile, the names are those of one run, and a run that ends leaves what the reporter needs;
* report: it ends, it has followed what was there, and what it prints is a derivation.

## Modules

| Module | Models |
| --- | --- |
| `Search` | the driver's search with its database, workers, faults and successive driver processes |
| `MCSearch` | a world of seven gadgets and six command lines for `Search` |
| `Search_proofs` | theorems about `Search` |
| `Operation` | what one operation promises to the search |
| `Scheduler` | `do_generic_operation`, `WorkerManager` and the workers at the other end; implements `Operation` |
| `MCScheduler` | the gadget size threshold for `Scheduler` |
| `Scheduler_proofs` | theorems about `Scheduler`, the refinement of `Operation` among them |
| `CompletionSet` | what the completions of one kind promise: a set that only grows |
| `CompletionLSM` | `completions.cpp`; implements `CompletionSet` |
| `Database_proofs` | theorems about `CompletionLSM`, the refinement among them, and about `Sync` |
| `Predicates` | `predicates.cpp` as used by several processes, and the predicates mode |
| `MCPredicates` | statistics and key lists for `Predicates` |
| `Predicates_proofs` | theorems about `Predicates` |
| `GadgetStore` | what the gadget store promises: each gadget has one id for good |
| `Selsert` | `selsert-gadget-by-data.cpp` and `select-by-id.cpp`; implements `GadgetStore` |
| `MCSelsert` | gadgets with colliding hashes for `Selsert` |
| `Selsert_proofs` | theorems about `Selsert`, the refinement among them |
| `BoundedQueue`, `TransformReduce`, `Secondhalf` | the queue, the parallel reduction, and `do_secondhalf_db` on top of them |
| `MCWorker` | the three and `Gadgets` with a few small gadgets, one per behaviour |
| `Threading_proofs` | theorems about `BoundedQueue`, `TransformReduce` and `Secondhalf` |
| `NumberInduction` | least and greatest elements, lists of finite sets, iteration and induction on natural numbers, for the proofs |
| `Automaton`, `Minimization`, `Regexesque` | automata as values: edits and graph algorithms; determinising, Hopcroft and the optimiser, canonical form; combinators |
| `Automata`, `CircularDeque`, `Bitset` | the life of an automaton, of two deques, of a bitset |
| `MCAutomata` | the three together |
| `Varint`, `GadgetEncoding` | numbers, headers and edges as bytes |
| `Gadgets` | gadgets as automata, their operations, canonical form and encoding |
| `Intervals`, `SkinnyEdges`, `Sync` | interval lists, pages of edges, the sync mode |
| `MCStorage` | these, `CompletionLSM` and the encodings, one per behaviour |
| `Report`, `MCReport` | the report tool; a database of eleven gadgets and its command lines |
| `Report_proofs` | theorems about `Report` |

`Sync`, `Search` and `Report` see gadgets as ids and operations as tables; `Gadgets` has the operations themselves and shows
the laws that `Search` assumes of its tables (`LawsExact`, which `SearchLaws` of run `worker` checks). `Gadgets` is built on `Regexesque`, `Minimization` and
`Automaton` as the code is on the library, and on `GadgetEncoding` and `Varint`.

A definition named `Mutant: ...` in its comment is a plausible bug, not used by any specification; each shows that a
property, or one conjunct of it, can fail. A property of a run is a conjunction of named parts; each part has its comment.

### Search

Variables carry the names of the members of `Search` and `SearchState`; `phase` also takes the values `stopped`
(`Control::stop`), `suspended` (`Control::suspend`) and `dead` (an exception or a crash). Each phase of `Search::execute` is
an action that does what the whole function does. A compute phase is several steps: `Launch` (the operation is handed out),
the ends of its tasks, and `Return` or `OperationThrows`. In between workers commit (`TaskCommits`), throw (`TaskThrows`)
or fail (`TaskFails`: before or after the commit), and the driver can die (`Crash`); what was in flight then may be committed
at any later time (`StaleCommits`), also while the next search runs (`NewSearch`, with any of the command lines).

`valid` is the set of gadgets below `valid_before` of the predicates. A filter of an operation that has predicates brings it up to date
(`filtered` names these operations). `discover_needs_combine` brings it up to date too, but inside a write transaction
of its own. When all its gadgets are valid already nothing is written and the phase goes on; otherwise the driver waits for itself
(`NestedTransaction`, phase `blocked`). A blocked driver holds LMDB's write lock, so that no worker commits until somebody
kills it (`KillBlocked`, not fair).

Abstractions:

* Sets of ids are sets, where the code keeps sorted vectors of half-open intervals.
* What an operation yields is a constant function (`Close`, `Mirror`, `Connect`, `Combine`). `OperationLaws` states what
  the driver and the workers rely on: closing is idempotent (`commit_simple_result` relies on it in a comment), mirroring is
  an involution, keeps the statistics that predicates look at, and commutes with closing.
* The predicates of an operation (`--min`, `--max`) are the set of ids they let through (`eligible`), as if none were lost
  (`Predicates` has what makes them inexact); whether they have to be updated is in `valid`.
  The one case in which a query throws that the search can reach is kept: the location bound of a combine right that has no
  key (`PredicateMissing`), the wrapped subtraction included.
* A unit of work is one gadget (one pair for combine). A task of the code takes a chunk of them in one transaction; the
  model also allows the commits of a chunk one by one, which is what chunks of one gadget do.
* With several workers and several chunks, close and mirror go through a secondhalf that is not implemented and always
  throws (`Unsupported`); the model keeps that.
* A combine that yields nothing records no completion, as in the code, and is done again by the next search.

### Scheduler

The locals of `do_generic_operation` are variables of the same names; `worker[i]` is the state of worker i's socket
(connecting, writing, working, then what the driver will read: a result, an error, or nothing because the process died). The
generator `next` runs inside the callback that has just processed a response, so `process_task`, `process_secondhalf` and
`process_error` pass it the values the response left behind. `work_task` commits, or writes its firsthalf file;
`work_secondhalf` commits its files in groups, each in one transaction followed by the deletion of the group.
`work_fails` lets a handler throw or a process die at any of these points, `socket_error` lets an exception leave the event
loop. The byte threshold for a secondhalf is a constant family of file sets (`BigEnough`).

`Operation` is the abstraction that `Search` uses: between its start and its end, work is committed at any time; it returns
only when everything is committed; otherwise it throws, and work in flight may still be committed afterwards. In `Search`
that is `Launch`, `TaskCommits`, `Return`, `OperationThrows` and `StaleCommits`.

### CompletionLSM

`main` is the value of the key of the kind, `pages[<<level, index>>]` those of the keys with level and index. `Parsed`,
`Height` and `Width` are what `parse_lsm` makes of the keys, the silent skip of a level above an empty one and the key gap
included. A tree has a shape (pages per level, last level, bound on records), chosen at the start, so that one run has both
deep trees and trees that overflow. A record is one transaction, hence one step; it is split by outcome (`RecordFirst`, `RecordRefused`,
`RecordMerged`, `RecordNewPage`, `RecordCompacting`, `RecordThrows`). The recursion of `compact_lsm` merges the levels from 0
up to the first that has space; `CompactWith` gives the keys after the recursion has returned. `allow_overlap` is fixed per
kind, as by the callers (close and mirror pass true).

### Predicates

`pred[k]` is the value of the key with threshold k, `valid_before` the key of that name. The six statistics of a gadget go
through the same code with separate lists; the model has one. An update is three steps: the snapshot
(`update_SL_predicates_discover`), the computation (`meet_update_demand`), the write transaction
(`update_SL_predicates_commit`); `create_predicates` has a snapshot of its own and either joins them or puts empty keys
(`create_empty`). The computation reads gadgets in many short transactions; since gadgets never change and all of the range
existed at the snapshot, one read stands for them. A task of the
computation may throw (`operation_fails`): its gadgets, or any that were to be reduced with them, are missing from the result (`missed`), because
`transform_reduce` waits for its futures without reading them, and the commit goes on. `lost` collects what has been missed,
`MaxLost` bounds it. `LowerBound` is the binary search as the library does it, because the
predicates mode can hand it an unsorted list; an update sorts its keys (`Ascending`), a creation keeps the order of the caller
(`OrderedAs`). `delete` and `reinitialize` are those of the predicates mode. `create_alone` is
the rule under which the protocol is exact: operations that create or remove keys do not overlap with others. It is chosen at
the start, so that both disciplines are checked. `min_spec` and `apply_predicates` are what the driver makes of `--min` and
`--max`.

### Selsert

`table` is the hash table, `index` the pages of hashes under the last id of each. A call is `selsert_gadget_by_data` (hash,
sort, prune in a read transaction, sort by statistics) and then a write transaction of several steps, because it contains a loop:
`late_prune`, `resolve_self_collision` and `reprune` as often as needed, `insert`, which also appends to the index and commits.
`writer` is LMDB's write lock. The sorts are not stable, so any order of equal elements is tried. A process can die at any
point (`die`), which aborts its transaction. Hashes are small naturals and do not wrap around; `MaxHash` bounds the loop that makes no
progress. A write past the end of `pending` is taken to hit memory that the vector no longer uses; with at most three gadgets
in a batch it does not occur.

### Secondhalf, BoundedQueue, TransformReduce

A step of `BoundedQueue` is what a thread does under the mutex. A waiting thread sleeps until it is notified, or wakes
spuriously, and tests its predicate again. `TransformReduce` has the tree of publications with its compare-and-exchange; a
task may throw, which ends its thread and is never seen by the caller. `Secondhalf` has the main thread, the readers of each
slice, the writer and its queue of one, the copies of ids after a commit, the edges of the files, and other processes
that insert gadgets between any two transactions. A failed lookup is swallowed, as in the code.

### Automata, CircularDeque, Bitset

An automaton is a value with its states, transitions, accept states and the flags deterministic, minimal and canonical; each
operator is one call. The order of transitions in memory is left out. Where the code numbers states by the order of a hash
set any numbering would do; one is taken. Thresholds (64 states for the fast path, the limit of the first attempt at
minimising) are constants small enough to be crossed. Where the code goes wrong the operators do as well, and the properties of run
`automata` say for which automata they speak (what happens to the others is under Findings):

* `FlagsTrue`, for canonical forms and for further transformations of a result: the flags minimal and canonical are true of the automaton;
* `~PrefixClosed`: some state that accepts nothing leads to one that accepts;
* `TiesAgree`: relabellings that give the same edges accept in the same states;
* `ResultFits`, in `Optimizes` and `Minimizes`: the optimiser has a place for each of its parts;
* `first + a.n <= Unvisited`: the counter of `find_components`, which is not initialised and may begin at any number of `CounterBits`
  bits, does not come to the number that marks a state as not visited, nor wraps.

The deque's model follows the array, so that objects that are leaked
or destroyed twice show.

### Gadgets and encodings

A gadget is an automaton whose accept states are the gadget's states; a traversal passes through a state that does not accept.
The operators of `Gadgets` are the functions of `ops.cpp` and `canonicalize.cpp` and the workers' loops around them, on an
alphabet of five locations; the code chooses an alphabet by template and dispatch. The reference definitions work on sets of
traversals and reachability. 64-bit integers are eight bytes, the width of `unsigned int` is a constant.

### SkinnyEdges, Intervals, Sync

Pages are sequences of bytes. A batch of edges is paginated and inserted; visitors proceed, skip or quit. Intervals are
sequences of pairs, the operators follow the iterators. `Sync` has one step per transaction: create, store the gadgets, replace
the names; read what needs closing, store the outputs, record them; follow the edges; the same again for mirroring. What is read in one transaction (`needs`)
is used in the next two. A crash may come between any two of them, and so may steps of a search and of workers, from the
moment the database exists: `WorkerStore` stores a gadget, `WorkerClose` and `WorkerMirror` commit the result of an operation that was computed,
which is `commit_simple_result` as in sync itself, and `SearchUpdates` updates the predicates. `MaxOthers` bounds these steps.
Two runs of sync at once are not modelled. What a definition's states canonicalise to is given by its records.

### Report

`awaiting` is the three sets of ids, `prov` the list of provenances in the order of discovery, `edge_cache` and `target_cache`
the derivations known so far, `record` the progress of `record_closed`: trace back, start runners for full edges, ask for
deleted locations, print. Between any two transactions workers commit edges and completions (`Late`) and runners fail. An exception
terminates the report with one thread; with several it is dropped by `task_parallel`, and the loop goes on. `todo` is the tables that
a step of the loop has yet to follow, taken in the order of the code (`Foremost`); the trace of `fill_cache` is the set of edges
that its stack would visit (`Closure`).

## Runs

| Run | Bounds | Result |
| --- | --- | --- |
| `search` | 7 gadgets, 6 command lines, 1 fault, one piece of prior work or none, predicates up to date or not, any number of searches in sequence | passes, about 370,000 states |
| `search_blocked` | the same | violates `FlowContinues` (see Findings) |
| `scheduler` | 3 workers, 1 to 4 tasks, all three modes, 2 faults | passes, about 62,000 states |
| `predicates` | 2 processes, 3 gadgets, 3 keys; any number of operations, overlapping or not; one id lost by failing tasks | passes, about 2,600,000 states |
| `predicates_race` | the same | violates `Exact` (see Findings) |
| `predicates_minimum` | the same, no task fails | violates `MinimumKept` (see Findings) |
| `selsert` | 2 processes, 4 gadgets on 2 hashes, 5 batches, index pages of 2; any number of calls | passes, about 20,000 states |
| `selsert_index` | the same | violates `IndexAgrees` (see Findings) |
| `worker` | some 50 gadgets of up to 4 locations and what is made of them, up to 3 states; queue of 2 with 3 producers and 2 consumers; up to 5 tasks on 3 threads; secondhalves of up to 2 files, 5 gadgets, 3 slices, 2 readers, 1 failing lookup | passes, about 27,000 states, those of gadgets each an exhaustive comparison |
| `automata` | 2 symbols, up to 3 states and 3 transitions by edits, and seven larger automata; deques of capacity 4; 4 bits; counters of 4 bits | passes, about 54,000 states |
| `storage` | completions: 5 ids in 4 batches, 2 pages per level of 1 interval and 8 records, or 1 page per level, last level 1 and 6 records, any compactions; 4 inputs, pages of 4 bytes; pairs of interval lists in 0..4; numbers, headers and codes at their boundaries; 2 runs of sync on 7 files, 2 steps of searches and workers in between | passes, about 240,000 states |
| `report` | 11 gadgets, 10 command lines, 2 failing runners, late commits | passes, about 60,000 states |

`search`. The world is made so that each interesting path is taken: the initial gadget is not its own closure; a gadget is
reached only through a mirror image, another only by combining what a connect made; a connect leads back to a gadget
already closed over; a right has too many locations for the precision; an operation is not eligible for some gadgets;
`--skip-close`, `--skip-mirror`, `--multiplayer` and `--stop-after` occur; a search with two workers runs into the
unimplemented secondhalf. One fault is enough for each kind of fault in each state, and successive searches on the
same database meet what it left behind. `DriverConsistent` is the driver's own consistency: its sets are disjoint, no phase
meets needs left by another (`NeedsConsumed`), only closed gadgets are expanded although mirror images come after the close
phase (`OnlyClosedExpanded`), no search collides with what it could have known (`NoSpuriousError`), and one that filters what it
connects never blocks (`BlocksOnlyUnfiltered`).
`DatabaseConsistent` is what later searches rely on, `CompleteAtStop` and `SoundlyFound` say that the search finds what it
should, `SearchEnds` that it terminates: always when it filters what it connects, and otherwise unless it blocks. `FlowContinues`, of
run `search_blocked`, says that `discover_needs_combine` comes to its end, which is refuted.

`scheduler`. Three workers are the fewest for which a secondhalf, a firsthalf and an idle worker coexist; four tasks leave
files over after the first secondhalf and let the last firsthalf be answered while it runs. Two faults let a failure
meet a socket error. `WorkConserved` is the accounting of files, requests and answers; `NothingIssuedAfterError` the promise
after a failure; `ImplementsOperation` the refinement that justifies how `Search` sees an operation.

`storage`, completions. Two pages per level make a cascade over two levels after seven records of new intervals; adjacent ids, a batch
of two intervals that fits on no page and batches recorded again occur. In the second shape the last level is 1
instead of 8, so that the overflow is reached; the comment on `struct LSM` suggests such a reduction for testing. `TreeExact`
says that the next reader finds everything, `ImplementsSet` that the tree is a set, also when an overflow throws.

`predicates`. Statistics 2, 1, 3 in the order of insertion put gadgets below, on and above each key and
make an update add to every key in turn; two processes are enough for every pair of overlapping operations, and one id that is
lost for a predicate that is too small for good. `PredicatesExact` is what the driver may rely on: there is never a wrong id
(`Sound`), and while the operations that create and remove keys keep to themselves a predicate lacks none but the lost ones
(`ExactWhenAlone`). An update reaches the id it was asked for (`Suffices`), and nothing is taken back (`NothingLost`). What the comments say
beyond that is refuted: `Exact` when keys are created meanwhile, `MinimumKept` for the gadgets of exactly the minimum.

`selsert`. Three gadgets of one hash beside one of the hash before make chains of probes, self-collisions that the loop resolves
and some that it does not, and late pruning in the middle of a batch. Pages of two hashes let a batch fill the last page,
end on its boundary and go beyond it. `TableIntact` and the refinement hold on all of these behaviours, those included in which
the index goes wrong.

`worker`, threads. Three producers and two consumers on two places let notified threads find the condition gone again.
Five tasks on three threads give an uneven tree in which threads wait at two levels. The batches of a
secondhalf have gadgets that occur twice, in one slice and across slices, that are stored already, that collide with each other and
with gadgets another process inserts meanwhile.

`automata`. The edits reach every small automaton up to the bounds, with any history of flags; larger ones are given
where more states are needed (splitting late, overlapping words, giving up the subset construction). Four bits of counter
let the components begin at any number, with room for automata of twelve states below the mark. `ShuffleExact` is the meaning that the
code gives to the accepting shuffle, and the one that `CombineExact` needs: a robot may change gadgets whenever it is not inside a
passage.

`worker`, gadgets. The gadgets have every
symmetry and none, one-way passages, doors, locations that are left out; connecting and combining is checked where the
result fits the alphabet. `SearchLaws` is what `Search` assumes.

`storage`. Pages of four bytes hold two lists, so that batches fill, end and skip pages; the outputs 1 and 150 have codes of
one and two bytes. Numbers are all powers of two, their neighbours, and the boundaries of each encoding.
`RepresentationsExact` has both (`IntervalsExact`, `EncodingsExact`).
The files of sync have all kinds of state names, aliases of aliases, refused files, mirror images that are states
themselves, and gadgets that close to one another. Two steps of others are enough for a worker to store a gadget and close or mirror it,
or to close it and mirror the result, between two transactions of sync, or to do one of them before a crash and the other in the next run. `SyncCorrect` has what holds of the
database after any runs, crashes and steps of others (`NamesOfOneRun`, `ReporterReady`, `ClosingEnds`, `DatabaseKept`), and that sync never
meets an edge that differs from its own (`DuplicatesAgree`); `GroupsAgree` is about the names alone.

`report`. The database has a target reached by each kind of edge, one reached twice, a combine right that is no
source, a connect with and without deleted locations, edges that only the report's runners fill in, and edges committed while it runs.
`OutcomeJustified` has that everything reached goes back to the sources (`ProvenanceFounded`), that what is cached can be traced while
no runner has failed (`CacheComplete`), what a completed report has followed and printed (`NothingMissed`, `TargetsReported`) and why
one gives up; `DerivationsCorrect` that everything printed is a derivation.

Deadlock is checked in `predicates` and `selsert` (a process can always start another call), in `search` (a search that has ended
can always be followed by another) and in `scheduler` (an operation that is over stutters). The completion store stops when its bound on
records is reached; threads, reports and the runs of sync come to an end; and a behaviour of the libraries is a single value or
a bounded sequence of calls. Their runs switch the check off; where something must not stop too early a liveness property
says so (`ThreadsFinish`, `ReportEnds`).

### Fairness

`Search` assumes weak fairness of the phases together (the driver is a loop that runs until it exits; a blocked one has no phase to
run) and of the ends of
tasks (a worker that has a request ends it by a commit or an exception; a worker that hangs for ever would hang the
code as well). It assumes nothing of faults, late commits, new searches or the end of a blocked driver. `Scheduler` assumes weak fairness of every callback that is
ready (one event loop) and of every worker that has a request. `MCWorker` assumes weak fairness of each
producer and consumer (a runnable thread runs; one that waits runs only after a wakeup), of the
threads of a reduction together and of those of a secondhalf together, not of the other processes. `Report` assumes weak fairness of the
report's own steps (one process in a loop; runners end), not of the workers that commit. The other modules have
safety properties only and need none.

## Proofs

| Proof module | Properties of the runs proved for all values of the constants | Assumptions |
| --- | --- | --- |
| `Search_proofs` | `TypeOK`, `DriverConsistent`, `DatabaseConsistent`, `CompleteAtStop`, `SoundlyFound` | types of the constants, `OperationLaws` |
| `Scheduler_proofs` | `TypeOK`, `WorkConserved`, `NothingIssuedAfterError`; of `ImplementsOperation` the initial states and the steps | `SchedulerAssumption` |
| `Database_proofs` | `TypeOK`, `TreeExact`, `ImplementsSet`; `SyncCorrect` | `LSMAssumption`; `OperationsAssumption`, `FilesAssumption` |
| `Predicates_proofs` | `TypeOK`, `PredicatesExact` (for sorted requests), `Suffices`, `NothingLost` | `PredicatesAssumption` |
| `Selsert_proofs` | `TypeOK`, `TableIntact`, `ImplementsStore` | `SelsertAssumption` |
| `Threading_proofs` | `QueueCorrect`, `ReductionCorrect`, `SecondhalfCorrect` | `QueueAssumption`, `ReduceAssumption`, `SecondhalfAssumption` |
| `Report_proofs` | `TypeOK`, `OutcomeJustified`, `DerivationsCorrect` | `ReportAssumption` |

The assumptions give the constants their types and say that numbers of workers, tasks, pages are not zero where the code
divides by them or takes the first; those on the queue add that there are finitely many threads and that none is on both
sides, those on the gadget store that batches are finite and not empty, those on a secondhalf that the provenances of a
firsthalf name rows of it and that the table held each gadget once before, those on the report that there are finitely many gadgets and
that what is closed closes to itself, which is one of the `SearchLaws` of `Gadgets` and is assumed for sync as well. The files of sync
are finite lists of definitions, and where a definition names a single state that state is left after pruning; otherwise the code
dereferences an end iterator. Each of the inductive invariants below was checked by TLC on the instance of its run before it was proved.

### Search

`Search_proofs` proves, for every set of gadgets, every operation table that obeys the laws, every set of command lines, every
database left by earlier searches and any number of faults, all the invariants that run `search` checks
(`DriverConsistent` by its parts `StatePartition`, `NeedsConsumed`, `NoSpuriousError`, `OnlyClosedExpanded` and
`BlocksOnlyUnfiltered`). The last one, theorem `NeverBlocksFiltered`, has an invariant of its own (`ValidInv`): whatever of the current
generation has been a candidate of `discover_needs_connect` is valid, so that a generation that ends leaves nothing to update.

`DatabaseConsistent` is inductive on its own (every step leaves the database alone or commits one task: lemma
`DatabaseSteps`). `CompleteAtStop` is far from inductive. Its invariant `SearchInv`
has five parts:

* `Structure`: the partition of the found ids, and which sets are empty in which phase;
* `DatabaseConsistent`;
* `Progress`: in a compute phase each candidate is completed or needed, and while the operation runs without error each need
  is completed or in flight; so it is completed when the edges are followed;
* `ClosureInv`: what `follow_close` leaves behind is its own closure, and remains so when mirror images are added, because
  mirroring commutes with closing;
* `Coverage`: everything in `closed_` has been connected, combined and mirrored, unless it was replaced by its closure or
  is still pending in the current phase.

When the search stops nothing is pending, which gives `CompleteAtStop`. Steps that end a search reset its sets, so the
invariant holds again trivially; steps of workers only add to the database, and each part is monotone in it.
`SoundlyFound` is proved by an invariant of its own for an arbitrary set closed under the operations: stored edges are real
(`RealEdges`), and a search follows combine edges only for its own rights. `NoSpuriousError` needs that, without a fault, no
work is in flight twice.

### Scheduler

For any number of workers, tasks and faults. `WorkConserved` speaks of files, answers and requests at the driver and says
nothing about what is on its way, so it is not inductive. `IInv` adds: how an operation ends (`EndsInv`); what
each worker was asked for, and that no two were asked for the same (`RequestInv`); what a worker has committed or written when
its answer is on the way (`WorkInv`); that until something fails each dispatched task is in exactly one place, in a file, counted, or
with one worker (`PlaceInv`); that the number of answers is the cardinality of the set of answered tasks (`CountInv`); and that
somebody is at work as long as something is left (`ProgressInv`). The callbacks process a response and then run the generator; the
proof goes through the values in between (`LeftBehind`), which satisfy the invariant without the worker that has answered.
`SchedulerRefines` shows that the initial states and each step map to `Operation` under the mapping of the run.
The fairness conjunct of `ImplementsOperation` and `OperationEnds` are left to TLC.

### CompletionLSM

For any ids, page size and shapes of the tree, and any number of records and compactions. `TreeExact` is about what the next
reader finds. The invariant behind it is about the keys (`KeysInv`): the pages of a level are numbered from 0 without a gap and no
level below a page is empty, so that `parse_lsm`, which skips silently what does not fit, finds everything (lemma `KeysRead`).
Pages that share no id are needed as well, since a record decides by them where new ids go. A compaction merges the levels
below the first with space: a least number, which `LeastNumber` gives. The contents of the tree are the same before and
after, which is also the refinement of `CompletionSet`; that one is proved in full, since it has no fairness.

### Predicates

For any number of processes, gadgets, keys and requests, and any statistics. Two things come together.
`LowerBoundExact`: on an ascending list the binary search finds the first key that is not below its argument, for
every list. The search is a recursive function; the proof gives a function that satisfies its equation, so that the definition
has the meaning it seems to have, and then argues from the shortest range on which the search could go wrong.
The invariant: a demand stays within the gadgets that existed at its snapshot and a result is that of its demand
(`DemandInv`), less what failing tasks have left out, and no more than that is ever missing; when `create_alone` holds, an
update has all keys and starts no higher than `valid_before`, and a creation has the ids that are valid at its commit
(`AloneInv`). The finding about `Exact` below is what `AloneInv` excludes. `PredicatesStayExact` has the
hypothesis `RequestsAscending`: the driver sorts what it asks for, but the predicates mode takes lists in the order of its
command line, and a binary search on an unsorted list promises nothing. `TypeCorrect`, `UpdatesSuffice` and `NothingIsLost`
need no such hypothesis.

### BoundedQueue

For any number of producers, consumers, items and places, and any spurious wakeups. `NoLostWakeup` counts: when somebody
sleeps on a condition, there are at least as many notified threads as places or items it could use. With the order of the items and the
fact that a thread inside `put` has an item, it is inductive. A push or a pop changes both counts by at most one, and wakes
one thread if one sleeps, which is why `notify_one` is enough.

### Selsert

For any processes, gadgets, hashes, orders of the statistics, batches and page sizes, and with calls that overlap, collide,
loop and die at any point. `TableIntact` is what a caller sees; it says nothing of what a call carries from its read
transaction into its write transaction, where everything is decided. `IInv` adds:

* `TableInv`: each gadget is at or above its own hash and everything in between is taken, so that probing, which stops at the
  first free place, finds it;
* `IndexInv`: the pages of the index follow one another without a gap, all full but the last (`Tiles`), which
  `append_gadget_index` keeps (lemma `AppendTiles`, the longest one: the open page moves to a new key, and whole pages follow);
* `EarlyInv`, of a call between its transactions: everything it probed past is still there and is another gadget. This is
  why it may go on from the place where it stopped, whatever others insert, and still find a gadget that is stored meanwhile;
* `LocalInv` and `KnownInv`: the ids a call lacks are those of its pending gadgets, and the others are stored ids;
* in the write transaction, `Placeable` or `Stuck`. A call that meets no self-collision can put its gadgets where they are
  without a gap below any of them. One that does goes on with hashes that `resolve_self_collision` moves in the wrong place
  (element `i+i`, see Findings): then either a collision is left that it never moves (`Stuck`), and the call never gets to its
  insertion, or the third gadget may have been moved above the place of the second. That place is filled by the same
  insertion, which is what the proof turns on.

`Insertion` collects what an insertion does to the table and the ids, and serves the invariant and the refinement. `TableRefines` is
proved in full: every insertion is one of `GadgetStore`, of a batch that is not empty under the next ids in a row
(by counting: as many gadgets are stored as there are ids), and everything else leaves the ids alone.

### TransformReduce

For any number of threads and tasks, and tasks that throw. `ResultDetermined` is about the root of the tree only. The invariant follows
each result on its way up: `top` gives for each task the node whose result it carries now, no node of a live result
is above another one (`Forest`), a live result is with a thread or in the slot where the thread with its sibling will look
for it (`Held`, `Published`), and it is what the leaves below its node give in order. The recursive definition of the leaves
is given a function that satisfies its equation, as in `Predicates`, by induction down the tree. When all threads have ended
every task is below a published result, so that the root has all of them.

### Secondhalf

For any files, gadgets, hashes and statistics, any number and size of slices, any number of readers, lookups that throw, and
other processes that insert between any two transactions. `SecondhalfCorrect` is about the database and about what the writer
asserts; the invariant follows the ids of the rows from slice to slice:

* `Intact`: each gadget once, everything between its hash and its place taken, and index and table inverse to each other. It is
  kept by insertions at places that are free and were probed to (lemma `TableGrows`), by the writer and by other processes;
* `Known`: an id in `globals` is the stored id of the row's gadget;
* `Prepared`: one row stands for each gadget of a slice, and the others are to copy from it;
* `Survivors`: what was probed past by the readers is still there and is another gadget. So when the writer finds the place
  free, two slices later, the gadget is not stored: its lookup need not be repeated. When the place is not free it throws;
* `Covered`: unless a lookup has failed, each gadget has its id, is among the survivors, or still waits for a reader. That is
  why the copied ids are assigned ones;
* `InFlight`: the writer's slice is older than the one in the queue, which is older than the main thread's, and rows of later
  slices have no id (`Untouched`). So what one thread writes to `globals` is not what another one reads, although the code
  takes no lock there.

The readers' ranges are shown to be a partition of the slice's list (`RangesPartition`), so that no two of them write the same id.
That edges lead to the right gadgets then follows from `Known`; after a failed lookup the gap in `globals` makes the request throw.

### Report

For any database, sources, targets and command lines, any commits of workers meanwhile and any runners that fail. The inductive
invariant is TypeOK with the following:

* `Where`: which sets are empty at which step of the loop, and that the rights are fixed before anything is combined;
* `Founded`: each entry of the provenances leads by an edge of the database from what was reached before, through a right of
  the pool. It is stated for any list, set, rights and completions, so that appending an entry, fixing the rights and a commit each
  keep it by a lemma of their own. The right that is recovered later need not be the one that was followed, but there is one;
* `Followed`: whatever has been reached still awaits a table (`Open`) or the edges that were there at the beginning lead to what has
  been reached. The closing of what was just closed is the case that needs the law of closing, and the mirroring of it the
  order of the tables: close comes first, so that mirror is still to do;
* `Traced`: every edge in the batch is one of the database and comes from what has been reached, and while no runner has failed the
  inputs of all that is cached are cached or in the batch. The trace is the least set that has the targets and
  the inputs of its members (`ClosureIsLeast`: the iteration stops by counting the keys of the cache), so that what it needs and does
  not have is known already;
* `Reported`: the targets other than those now being reported can be sorted and have been printed. Filling the cache further does
  not change a derivation that is complete (`SameDerivation`).

That no lookup throws by itself (`GivesUpForCause`) follows from `Traced`: the printing finds every input, and the deleted locations of a
connect are asked for once.

`DerivationsCorrect` has an invariant of its own, which also holds after runners have failed: an edge that is cached or in the batch leads to
its gadget from what was reached before it (`MadeFrom`; for the right of a combine because the rights are reached before
anything is combined, `RightsFirst`), the targets are named, closed from named, or mirror images of those (`TargetFounded`), and what
has been printed stays a derivation as the database grows. The cache alone may lack inputs; `toposort_provs` throws then, so that
only what `Sortable` has is printed. `SortedIs` is about the sort, for any set of edges with one edge for each gadget, closed under
inputs and without cycles: between two turns the stack has exactly the edges that have not been emitted and lack nothing
(`Emitting`, kept by `EmitKeeps`), so that no edge is emitted twice, and an empty stack means that all are (`AllEmitted`: the least
edge that is left would be ready). The sort ends after as many turns as there are edges. The last edge is the root because
everything else is an input of something (`TraceDerives`).

### Sync

For any files, any gadgets with a closing that is idempotent, any number of runs, and any crashes and steps of searches and workers between
any two transactions. The inductive invariant `SyncInv` says what each transaction leaves for the next one and for the next run:

* `Store`: the gadgets of the database are distinct. A gadget keeps its id when more is stored (`ExtendsIs`), and what is new
  is appended once however often it occurs in the request (`SelsertedIs`);
* `Done`: what is recorded as closed or mirrored leads, by its edge or by the lack of one, to the result of the operation, and an edge
  always leads elsewhere. It is kept by anything that is stored later (`DoneExtends`) and by a commit whose outputs are stored
  (`DoneCommits`); that they are is what `PlaceInv` says of the places before the two commits. A run that crashed in between
  leaves gadgets without edges, and the next run does them again;
* the targets of close edges are recorded as closed. That they have no edges of their own (`ClosingEnds`) follows from idempotence;
* `PlaceInv`: what `needs` holds, and what is stored and recorded by then, at each place; at "follow" everything named is closed, at "done" it is
  mirrored with what it closes to. The transactions in between only add, and the ids that `Named` gives do not change by that. Others add too: a
  worker that closes what sync was about to close makes what sync has read stale, but the edge that sync then computes is the one that is there
  (`DoneAgrees`, from which `DuplicatesAgree`), and each place is kept by any step that only adds (`PlaceKept`), of which the steps of workers
  are instances;
* names: `NamingWithin` shows that names and aliases are only for gadgets that the files register, through the reflections and
  rotations that are dropped (`LeftMorphsIs`), the groups, the assignments that replace one another (`AssignedIs`) and the aliases of
  aliases, which are a recursion along the list (`PrefixRecursion`). So writing the names meets only ids that are stored, and
  `NamesOfOneRun` survives later runs that crash before they write theirs.

### Only model-checked

* Liveness: `SearchEnds`, `OperationEnds`, `ThreadsFinish`, `ReportEnds`, and the fairness of `ImplementsOperation`; the prover
  has no rules for fairness.
* `GroupsAgree`: it holds of the files of the run, whose mirror images are those of their gadgets; it says something about
  the input of sync and not about its states.
* Automata, gadgets, encodings, intervals, edges and containers: recursive operators, for which tlapm has no SMT backend, and algorithms
  whose correctness is an induction over data. `NumberInduction` shows what can be done: induction as a statement about a set of
  numbers. It is enough for one search in a list, and would have to be repeated for every operator of these modules.

## Findings

The four disagreements between the code and its comments or checks that matter most have runs of their own, each with one property that is refuted.

* `search_blocked`: `discover_needs_combine` calls `update_predicates` inside a write transaction of its own. When gadgets have been stored
  since the last update, a second write transaction begins in the same thread and waits for ever. A search that filters what it
  connects has just brought the predicates up to date and does not block (`NeverBlocksFiltered`).
* `predicates_race`: `create_predicates` and `update_predicates` are not safe against each other. Empty keys are put on the
  strength of a `valid_before` read in an earlier transaction, and a key created between the discovery and the commit of an
  update is left out by that update. The key then lacks ids that `valid_before` says it covers, and nothing ever adds them.
* `predicates_minimum`: `--min` is exclusive; the pair is made before the value is decremented (`driver/toggles-driver.cpp:1087`), against
  the comments at 218 and 888.
* `selsert_index`: `selsert_gadget_by_data` writes to the index the hash from before the write transaction, although late probing
  may have moved the gadget. It needs gadgets whose 64-bit hashes are equal or adjacent. The table itself stays right.

The models follow the code in the following as well; the properties say what holds all the same, and name what they except.

Search, completions, predicates, store:

* `compact_lsm` falls back on `compact_lsm_full` when the last level is full ("the fallback for level overflow"). That empties the
  tree which the callers in the recursion go on to index: the record throws and is lost with its transaction; the set stays
  intact. With eight pages in each of nine levels it takes an extremely large database to get there.
* A task that throws while predicates are updated leaves its gadgets out of the result, and the commit advances `valid_before` past them
  all the same, against `predicates.cpp:345`, "update SL predicates through given id"; `ExactWhenAlone` excepts these ids (`lost`).
* `create_predicates` does not sort its keys. The driver does; the predicates mode passes them in the order of its arguments, and the
  binary search goes astray.
* To resolve a collision `selsert_gadget_by_data` moves element `i+i` instead of `i+1` (line 156), so that for the first two elements the
  loop does not end, with the write lock held. The model goes on up to `MaxHash` and stops.
* `selsert_gadget_by_data` overlooks a collision of two gadgets with a late-pruned one between them, which throws what "can't
  happen".

Secondhalf and threads:

* `transform_reduce` and `task_parallel` only wait for their futures: an exception is dropped and the caller goes on.
* The result of `transform_reduce` is in the order of its tree, not of the tasks; `do_secondhalf_db` sorts afterwards.
* The comparisons of `ProposedInsert` in `do_secondhalf_db` compare an object's own hash with itself, so that gadgets are sorted
  by their bytes only.

Gadgets and encodings:

* A location at which one can only turn round is counted in the header but occurs in no edge; a definition with nothing
  else is refused.
* The products in the edge codes are of type `unsigned int`: with 16 locations they overflow from 4096 states on, while the header
  accepts 65535. `CoderExact` goes up to the last sizes that fit.
* A page's reader casts the length of each list to 16 bits; the writer does not limit it. An input inserted twice would hide the
  edges of a page; only the completions prevent it.
* The lower bound on the locations of rights in `operate_combine` is always 0.

Automata and containers:

* The optimiser drops empty parts only while it divides on symbols (`PartsFit`). An automaton without transitions all of whose states
  accept, or reversed one of a single state, keeps one, against `nfa-optimize.cpp:142`, "every partition contains at least one state": the
  list of parts overflows and the process aborts, or `finish` writes past an array (`ResultFits`).
* A symbol added to an edge that is there leaves the flags minimal and canonical set. The language is kept all the same (`LanguageKept`), the
  canonical form is not.
* Hopcroft's first partition has an empty class when all states accept. A total automaton becomes one that accepts the empty
  word only; another one may keep states that are equivalent. Along the transitions of a gadget's automaton states that
  accept and states that do not alternate (`GadgetTypeOK`), so that gadgets do not meet it.
* Relabellings are compared by their edges only, and those that are left are called equivalent (`automaton.hpp:308`). The edges of a gadget's
  automaton determine which states accept.
* The counter of `find_components` is not initialised. `ComponentsExact` tries every first value and excepts those from which it comes to
  the number that marks a state as not visited.
* The comment of `shuffleAccept` (`automaton.hpp:686-690`) says that it switches "only when both automata are in accepting states"; the
  code asks the active one only, which is what `ShuffleExact` states. Gadget operations need what the code does (`CombineExact`).
* `optimize(LEFT)` merges states without their acceptance; the variadic `alt` has no
  initial state of its own; the fast path of `determinize` ignores its limit; the condition of `conj`'s fallback is inverted;
  `setAccept` returns whether nothing changed.
* `circular_deque`: assignment may read past the end of the other deque; a small deque moved to a larger one and the swap of
  deques that wrap in their common part go wrong. `linear_set::erase(key)` calls itself for ever; `bitset::at` throws for valid
  positions; `<<=` keeps bits above N. The models take the calls for which these have a defined result.

Sync and report:

* With state names "all" the names are keyed by the position of a state, not by its number (`runner/sync.cpp:576`, against the comment at
  553-556), so that states get no name once one before them was dropped. No property is about it.
* If no state that is left has a name the group is empty. A single state name whose state was pruned dereferences an end iterator.
* With several threads a failure of a runner is dropped and the report says that it completed; the comment at
  `toggles-report.cpp:295` wonders at it. Entries cached before the failure make later derivations throw, which is dropped too, and
  connects may be printed without their deleted locations.
* Mirror images are not closed again; that is right because the two commute, if everything is completed. With partial
  completions the close edges of mirror images are not followed, and `NothingMissed` leaves them out.

## Not modelled

* The message loop of the workers (unpacking calls, packing answers) and the spilling of a firsthalf to its file: input and output
  without decisions beyond those in `Scheduler`.
* Packing of whole automata, their printed formats, and the storage of states in blocks.
* The generated tables of `canonicalize-perms-inl.hpp` are modelled by the permutations they hold (`m0perms`, `m1perms`).
* The maintenance tools (migrate, repair, invert, inspection), which work offline on a database nobody else uses; the puzzle
  solvers, separate programs on the automata library; the generators, scripts that print definitions; small utilities.
* LMDB and its wrapper: transactions are taken as atomic and isolated. A second write transaction in the thread that has one, which
  LMDB does not support, is taken to wait for ever (`NestedTransaction`).
* Two runs of sync at the same time.
* Pruning statistics, which are only printed (reader threads increment them without a lock).

## Plan

Done: `Search` with its proofs; `Scheduler` and `Operation`; `CompletionLSM` and `CompletionSet`; `Predicates`; `Selsert` and
`GadgetStore`; the threads of a worker; the automata library, gadgets and encodings; intervals, edges and sync; the report.

Proofs done: `Search`, `Scheduler` with the steps of its refinement, `CompletionLSM` with its refinement, `Predicates`,
`Selsert` with its refinement, `BoundedQueue`, `TransformReduce`, `Secondhalf`, `Report`, `Sync`.

Left: what "Only model-checked" lists.
