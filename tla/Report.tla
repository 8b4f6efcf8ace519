------------------------------- MODULE Report -------------------------------
(***************************************************************************)
(* toggles-report.cpp: the tool that reads a database, follows the stored  *)
(* edges from a set of source gadgets and prints how each named gadget it  *)
(* reaches is built.  It may run while the workers of a search commit to   *)
(* the same database.                                                      *)
(*                                                                         *)
(* The search keeps one skinny provenance per gadget (the input and the    *)
(* kind).  Only for a derivation that is printed does fill_cache look up   *)
(* the full edges, and those of connect and combine that nobody has stored *)
(* are computed by a runner process, request by request.                   *)
(*                                                                         *)
(* A table of edges is <<kind, right>>, with right 0 unless the kind is    *)
(* combine.  Sorted vectors of intervals are sets of ids, and the fields   *)
(* of an edge other than its ends are left out.                            *)
(***************************************************************************)
EXTENDS Integers, Sequences, FiniteSets, SequencesExt

CONSTANTS
  Gadget,      \* gadget ids, greater than 0
  Named,       \* the gadgets with a name of their own
  Source,      \* the gadgets of the source specification
  RightOrder,  \* the rights that have an edge table, by locations, states and id
  Makes,       \* Makes[t]: what the operation of table t makes, <<input, output>>
  Done,        \* Done[t]: the inputs completed when the report starts
  Deleting,    \* the gadgets whose making also deletes other locations
  Filled,      \* <<t, input>> whose full edges an earlier report has stored
  Options,     \* the command lines
  Late,        \* <<t, input>> that workers may complete meanwhile
  MaxFaults    \* bound on the runner processes that fail

Rights == Range(RightOrder)
Simple == {<<"close", 0>>, <<"mirror", 0>>}
Skinny == {<<"connect", 0>>} \cup {<<"combine", r>> : r \in Rights}
Table == Simple \cup Skinny

ASSUME ReportAssumption ==
  /\ Gadget \subseteq Nat \ {0} /\ IsFiniteSet(Gadget)
  /\ Named \subseteq Gadget /\ Source \subseteq Gadget /\ Named # {} /\ Source # {} /\ RightOrder \in Seq(Gadget)
  /\ Makes \in [Table -> SUBSET (Gadget \X Gadget)]
  /\ \A e, f \in Makes[<<"close", 0>>] : f[1] = e[2] => f[2] = e[2]  \* what is closed closes to itself
  /\ Done \in [Table -> SUBSET Gadget]
  /\ Deleting \subseteq Gadget /\ Filled \subseteq Skinny \X Gadget /\ Late \subseteq Table \X Gadget
  /\ Options \subseteq [multiplayer : BOOLEAN, skip_mirror : BOOLEAN,
                        combine_all : BOOLEAN, threads : Nat]
  /\ MaxFaults \in Nat

VARIABLES
  done,         \* the completions in the database
  filled,       \* the inputs that have their full edges, by table
  opt,          \* the command line
  pc,           \* the step of the loop the report is in
  record,       \* where it is in record_closed, or "no"
  target_cache, \* target.edge_cache: how the targets come from named gadgets
  closed,       \* the gadgets reached
  awaiting,     \* awaiting_closemirror, awaiting_connect, awaiting_combine
  pool,         \* edges_skinny_combine: the rights, once they are fixed
  todo,         \* the tables this step of the loop has yet to follow
  possible,     \* what discover_whats_possible returned
  next,         \* awaiting_combine_next, or what a connect has discovered
  prov,         \* the skinny provenances, one entry per gadget discovered
  found,        \* the targets that record_closed is reporting
  batch,        \* the connects and combines of the trace that are not cached
  requests,     \* the tables for which a runner has yet to be run
  edge_cache,   \* edge_cache[g]: the full edge that g is derived by
  dellocs,      \* the gadgets whose deleted locations are known
  printed,      \* the derivations printed: <<root, target trace, source trace>>
  faults        \* runner processes that failed

db == <<done, filled>>
search == <<closed, awaiting, pool, todo, possible, next, prov>>
cache == <<edge_cache, dellocs, batch, requests>>
vars == <<db, opt, pc, record, target_cache, search, found, cache, printed, faults>>

\* An edge as AnyProv has it.
Prov(kind, output, input, right) ==
  [kind |-> kind, output |-> output, input |-> input, right |-> right]
source(g) == Prov("source", g, 0, 0)
inputs(p) == {p.input, p.right} \ {0}

\* The edges in the database.  A completion and its edges are one transaction.
Edges(t) == {e \in Makes[t] : e[1] \in done[t]}

\* The table of ts that comes first: close before mirror, and the tables of
\* combine in the order of the rights.
Turn(t) ==
  IF t[1] = "combine" THEN CHOOSE i \in DOMAIN RightOrder : RightOrder[i] = t[2]
  ELSE IF t[1] = "mirror" THEN 1 ELSE 0
Foremost(ts) == CHOOSE t \in ts : \A u \in ts : Turn(t) <= Turn(u)

-----------------------------------------------------------------------------
(* The database, seen from the report.                                     *)

\* A worker of a search that is running commits one input.
WorkerCommits ==
  \E t \in Table : \E g \in Gadget \ done[t] :
    /\ <<t, g>> \in Late
    /\ done' = [done EXCEPT ![t] = @ \cup {g}]
    /\ UNCHANGED <<filled, opt, pc, record, target_cache, search, found, cache, printed, faults>>

-----------------------------------------------------------------------------
(* Derivations.                                                            *)

\* set and all it is derived from, as far as c has it: the inputs of what is there
\* are added as often as there can be something new.
Closure(c, set) ==
  LET up[n \in Nat] ==
        IF n = 0 THEN set
        ELSE UNION {{g} \cup (IF g \in DOMAIN c THEN inputs(c[g]) ELSE {}) : g \in up[n - 1]}
  IN  up[Cardinality(DOMAIN c)]

\* toposort_provs throws when an input is not cached.
Sortable(c, root) == Closure(c, {root}) \subseteq DOMAIN c

\* Mutant: an input is taken as released by the first of what it needs.
ReleasedEarly(edges, emitted, cur) ==
  {p \in edges : cur.output \in inputs(p) /\ p.output \notin emitted}

\* What emitting cur leaves without anything it needs.
Released(edges, emitted, cur) ==
  {p \in edges : cur.output \in inputs(p) /\ inputs(p) \subseteq emitted}

\* ps by output, the greatest first.
Descending(ps) ==
  [i \in 1..Cardinality(ps) |-> CHOOSE p \in ps : Cardinality({q \in ps : q.output > p.output}) = i - 1]

\* The edge on top of the stack is emitted, and what that releases is pushed.
Emit(edges, at) ==
  LET cur == Last(at.stack)
      ret == Append(at.ret, cur)
  IN  [ret |-> ret,
       stack |-> Front(at.stack) \o Descending(Released(edges, {p.output : p \in Range(ret)}, cur))]

\* edges, inputs first: each of them is emitted once.
Sorted(edges) ==
  LET from[n \in Nat] ==
        [at \in [ret : Seq(edges), stack : Seq(edges)] |->
           IF n = 0 \/ at.stack = <<>> THEN at.ret ELSE from[n - 1][Emit(edges, at)]]
  IN  from[Cardinality(edges)][[ret |-> <<>>, stack |-> Descending({p \in edges : inputs(p) = {}})]]

\* The derivation of root.
toposort_provs(c, root) == Sorted({c[g] : g \in Closure(c, {root})})

-----------------------------------------------------------------------------
(* Before the loop.                                                        *)

\* try_emplace: what is cached is kept.
AddTo(c, new) == [g \in DOMAIN c \cup DOMAIN new |-> IF g \in DOMAIN c THEN c[g] ELSE new[g]]

\* Each gadget of outs with one of the edges of E that lead to it.
ProvsOf(kind, E, outs) ==
  {[g \in outs |-> Prov(kind, g, f[g], 0)] :
     f \in {f \in [outs -> {e[1] : e \in E}] : \A g \in outs : <<f[g], g>> \in E}}

\* The first edge to a gadget that is not cached is kept.
AddEdges(t, c, ins) ==
  LET E == {e \in Edges(t) : e[1] \in ins /\ e[2] \notin DOMAIN c}
  IN  {AddTo(c, new) : new \in ProvsOf(t[1], E, {e[2] : e \in E})}

\* The named gadgets, their closures, and the mirror images of all of those.
target_stuff ==
  /\ pc = "start" /\ pc' = "loop"
  /\ \E c \in AddEdges(<<"close", 0>>, [g \in Named |-> source(g)], Named) :
       target_cache' \in AddEdges(<<"mirror", 0>>, c, DOMAIN c)
  /\ UNCHANGED <<db, opt, record, search, found, cache, printed, faults>>

-----------------------------------------------------------------------------
(* The loop: close and mirror first, then connect, and then combine.       *)

Combining == {<<"combine", r>> : r \in pool}

begin_step ==
  /\ pc = "loop"
  /\ IF awaiting.closemirror # {}
       THEN /\ todo' = (IF opt.multiplayer THEN {} ELSE {<<"close", 0>>}) \cup
                       (IF opt.skip_mirror THEN {} ELSE {<<"mirror", 0>>})
            /\ pc' = "closemirror"
     ELSE IF awaiting.connect # {} THEN todo' = {<<"connect", 0>>} /\ pc' = "connect"
     ELSE IF awaiting.combine # {} THEN todo' = Combining /\ pc' = "combine"
     ELSE UNCHANGED todo /\ pc' = "completed"
  /\ UNCHANGED <<db, opt, record, target_cache, closed, awaiting, pool, possible, next, prov, found, cache,
                 printed, faults>>

Step == {"closemirror", "connect", "combine"}

\* The completions, read in a transaction of their own.
discover_whats_possible ==
  /\ pc \in Step /\ record = "no" /\ todo # {} /\ possible = {}
  /\ possible' = awaiting[pc] \cap done[Foremost(todo)]
  /\ todo' = IF possible' = {} THEN todo \ {Foremost(todo)} ELSE todo
  /\ UNCHANGED <<db, opt, pc, record, target_cache, closed, awaiting, pool, next, prov, found, cache,
                 printed, faults>>

\* Where the gadgets discovered through a kind of edge go.  Mirror images are
\* not closed; what connect and combine discover they await in their next step.
Awaiting(kind, new) ==
  [closemirror |-> IF kind = "mirror" THEN awaiting.closemirror ELSE awaiting.closemirror \cup new,
   connect |-> IF kind = "connect" THEN awaiting.connect ELSE awaiting.connect \cup new,
   combine |-> IF kind = "combine" THEN awaiting.combine ELSE awaiting.combine \cup new]

\* Mutant: only what this step began with is passed over.
NewFromUnseen(E) == {e[2] : e \in E} \ Source

\* EdgeVisitor
New(E) == {e[2] : e \in E} \ closed

\* discover_through_edges and discover_through_skinny_edges, and the first
\* half of record_closed.  Which of several inputs is remembered depends on
\* the chunks and on the order they are reduced in.
follow ==
  /\ pc \in Step /\ record = "no" /\ possible # {}
  /\ LET t == Foremost(todo)
         E == {e \in Edges(t) : e[1] \in possible}
         new == New(E)
     IN  /\ \E choice \in ProvsOf(t[1], E, new) :
              prov' = IF new = {} THEN prov ELSE Append(prov, choice)
         /\ closed' = closed \cup new
         /\ awaiting' = Awaiting(t[1], new)
         /\ next' = IF t \in Skinny THEN next \cup new ELSE next
         /\ found' = new \cap DOMAIN target_cache
         /\ possible' = {} /\ todo' = todo \ {t}
         /\ record' = CASE found' # {} -> "trace"
                        [] found' = {} /\ new # {} -> "end"
                        [] OTHER -> "no"
  /\ UNCHANGED <<db, opt, pc, target_cache, pool, cache, printed, faults>>

\* Mutant: awaiting_closemirror is not cleared.
end_closemirror_kept ==
  /\ pc = "closemirror" /\ record = "no" /\ todo = {}
  /\ pool' = IF pool = {} THEN Rights \cap closed ELSE pool
  /\ pc' = IF pool' = {} THEN "terminated" ELSE "loop"
  /\ UNCHANGED <<db, opt, record, target_cache, closed, awaiting, todo, possible, next, prov, found, cache,
                 printed, faults>>

\* awaiting_closemirror is cleared, and after the first step the rights are
\* fixed: what has been reached and has an edge table.
end_closemirror ==
  /\ pc = "closemirror" /\ record = "no" /\ todo = {}
  /\ awaiting' = [awaiting EXCEPT !.closemirror = {}]
  /\ pool' = IF pool = {} THEN Rights \cap closed ELSE pool
  /\ pc' = IF pool' = {} THEN "terminated" ELSE "loop"
  /\ UNCHANGED <<db, opt, record, target_cache, closed, todo, possible, next, prov, found, cache,
                 printed, faults>>

end_connect ==
  /\ pc = "connect" /\ record = "no" /\ todo = {}
  /\ pc' = "loop"
  /\ awaiting' = [awaiting EXCEPT !.connect = next] /\ next' = {}
  /\ UNCHANGED <<db, opt, record, target_cache, closed, pool, todo, possible, prov, found, cache,
                 printed, faults>>

\* Mutant: what the step has discovered is not awaited.
end_combine_cleared ==
  /\ pc = "combine" /\ record = "no" /\ todo = {}
  /\ pc' = "loop"
  /\ awaiting' = [awaiting EXCEPT !.combine = {}] /\ next' = {}
  /\ UNCHANGED <<db, opt, record, target_cache, closed, pool, todo, possible, prov, found, cache,
                 printed, faults>>

end_combine ==
  /\ pc = "combine" /\ record = "no" /\ todo = {}
  /\ pc' = "loop"
  /\ awaiting' = [awaiting EXCEPT !.combine = next] /\ next' = {}
  /\ UNCHANGED <<db, opt, record, target_cache, closed, pool, todo, possible, prov, found, cache,
                 printed, faults>>

-----------------------------------------------------------------------------
(* record_closed: fill_cache and the printing.                             *)

\* An exception leaves main when there is one thread.  With more, it stays in
\* a future that task_parallel waits for and never reads.
Throws ==
  /\ record' = "no"
  /\ found' = {} /\ batch' = {} /\ requests' = {}
  /\ pc' = IF opt.threads <= 1 THEN "terminated" ELSE pc

find_sp(g) == LET i == CHOOSE i \in DOMAIN prov : g \in DOMAIN prov[i]
              IN  prov[i][g]

\* The first right of the pool whose edges lead from the input to the output.
recover_combine_right(p) ==
  Foremost({t \in Combining : <<p.input, p.output>> \in Edges(t)})[2]

\* Mutant: the right is taken for known.
RecoveredLater(p) == p

Recovered(p) ==
  IF p.kind = "combine" THEN [p EXCEPT !.right = recover_combine_right(p)] ELSE p

\* Mutant: the inputs are not traced.
TraceRoots(roots) == {Recovered(find_sp(g)) : g \in roots \ DOMAIN edge_cache}

\* Mutant: the trace goes on through what is cached.
TraceToSources(roots) ==
  LET sp == [g \in closed \ Source |-> Recovered(find_sp(g))]
  IN  {sp[g] : g \in Closure(sp, roots) \cap DOMAIN sp}

\* What the derivations of roots need that is not cached.
Trace(roots) ==
  LET sp == [g \in closed \ DOMAIN edge_cache |-> Recovered(find_sp(g))]
  IN  {sp[g] : g \in Closure(sp, roots) \cap DOMAIN sp}

TableOf(p) == <<p.kind, p.right>>
HasFullEdge(p, full) == TableOf(p) \in Simple \/ <<TableOf(p), p.input>> \in full

Cached(ps) == AddTo(edge_cache, [g \in {p.output : p \in ps} |-> CHOOSE p \in ps : p.output = g])

\* The requests are by combine right, in order of ids, and connect is the last.
NextRequest ==
  CHOOSE t \in requests :
    \A u \in requests \ {t} : u[1] = "connect" \/ (t[1] = "combine" /\ t[2] < u[2])

fill_cache ==
  /\ record = "trace"
  /\ LET edges == Trace(found)
         missing == {p \in edges : ~HasFullEdge(p, filled)}
     IN  /\ edge_cache' = Cached(edges \ missing)
         /\ batch' = {p \in edges : TableOf(p) \in Skinny}
         /\ requests' = {TableOf(p) : p \in missing}
         /\ record' = IF batch' = {} THEN "print" ELSE "runner"
  /\ UNCHANGED <<db, opt, pc, target_cache, search, found, dellocs, printed, faults>>

\* A runner stores the full edges of the inputs of one request, unless they are
\* there.  Completions are about skinny edges and stay as they are.
Fills(kind) ==
  /\ record = "runner" /\ requests # {} /\ NextRequest[1] = kind
  /\ filled' = filled \cup {<<TableOf(p), p.input>> : p \in {p \in batch : TableOf(p) = NextRequest}}
  /\ requests' = requests \ {NextRequest}
  /\ UNCHANGED <<done, opt, pc, record, target_cache, search, found, edge_cache, dellocs, batch,
                 printed, faults>>

commit_combine_result_full == Fills("combine")
commit_connect_result_full == Fills("connect")

\* "Collect any missing edges."
collect ==
  /\ record = "runner" /\ requests = {}
  /\ edge_cache' = Cached({p \in batch : HasFullEdge(p, filled)})
  /\ record' = "deleted-locations"
  /\ UNCHANGED <<db, opt, pc, target_cache, search, found, dellocs, batch, requests,
                 printed, faults>>

\* A runner finds the locations that the connects of the batch delete; it is
\* an error if they are known already.
deleted_locations ==
  /\ record = "deleted-locations"
  /\ LET responses == Deleting \cap {p.output : p \in batch}
     IN  IF dellocs \cap responses = {}
           THEN /\ dellocs' = dellocs \cup responses
                /\ batch' = {} /\ record' = "print"
                /\ UNCHANGED <<pc, found, requests>>
           ELSE Throws /\ UNCHANGED dellocs
  /\ UNCHANGED <<db, opt, target_cache, search, edge_cache, printed, faults>>

\* A runner process ends with an error or returns one.
RunnerFails ==
  /\ record \in {"runner", "deleted-locations"}
  /\ record = "runner" => requests # {}
  /\ faults < MaxFaults
  /\ faults' = faults + 1
  /\ Throws
  /\ UNCHANGED <<db, opt, target_cache, search, edge_cache, dellocs, printed>>

Derivation(root) ==
  <<root, toposort_provs(target_cache, root), toposort_provs(edge_cache, root)>>

\* Mutant: a derivation that is no longer than that of the target is passed over.
PrintedLonger(roots) == {d \in {Derivation(g) : g \in roots} : Len(d[2]) < Len(d[3])}

\* "There's no need to tell me X builds X."
Printed(roots) == {d \in {Derivation(g) : g \in roots} : d[2] # d[3]}

\* The roots are taken in order, up to one whose derivation is not cached.
print ==
  /\ record = "print"
  /\ LET bad == {g \in found : ~Sortable(edge_cache, g)}
         good == {g \in found : \A b \in bad : g < b}
     IN  /\ printed' = printed \cup Printed(good)
         /\ IF bad = {}
              THEN record' = "end" /\ found' = {} /\ UNCHANGED <<pc, batch, requests>>
              ELSE Throws
  /\ UNCHANGED <<db, opt, target_cache, search, edge_cache, dellocs, faults>>

\* combine_all is not implemented: record_closed throws when it is done.
end_record ==
  /\ record = "end"
  /\ IF opt.combine_all
       THEN Throws
       ELSE record' = "no" /\ UNCHANGED <<pc, found, batch, requests>>
  /\ UNCHANGED <<db, opt, target_cache, search, edge_cache, dellocs, printed, faults>>

-----------------------------------------------------------------------------
Init ==
  /\ done = Done /\ filled = Filled
  /\ opt \in Options
  /\ pc = "start" /\ record = "no"
  /\ target_cache = <<>>
  /\ closed = Source
  /\ awaiting = [closemirror |-> Source, connect |-> Source, combine |-> Source]
  /\ pool = {} /\ todo = {} /\ possible = {} /\ next = {} /\ prov = <<>>
  /\ found = {} /\ batch = {} /\ requests = {}
  /\ edge_cache = [g \in Source |-> source(g)]
  /\ dellocs = {} /\ printed = {}
  /\ faults = 0

ReportStep ==
  \/ target_stuff \/ begin_step \/ discover_whats_possible \/ follow
  \/ end_closemirror \/ end_connect \/ end_combine
  \/ fill_cache \/ commit_combine_result_full \/ commit_connect_result_full
  \/ collect \/ deleted_locations \/ print \/ end_record

Next == ReportStep \/ RunnerFails \/ WorkerCommits

\* The report is one process that the system schedules.
Fairness == WF_vars(ReportStep \/ RunnerFails)
Spec == Init /\ [][Next]_vars /\ Fairness

-----------------------------------------------------------------------------
(* Properties *)

ProvType == [kind : {"source", "close", "mirror", "connect", "combine"},
             output : Gadget, input : Gadget \cup {0}, right : Rights \cup {0}]

\* The types; what is cached by a combine has its right, although the skinny
\* provenance does not say it.
TypeOK ==
  /\ done \in [Table -> SUBSET Gadget] /\ filled \subseteq Skinny \X Gadget
  /\ pc \in {"start", "loop", "completed", "terminated"} \cup Step
  /\ record \in {"no", "trace", "runner", "deleted-locations", "print", "end"}
  /\ closed \subseteq Gadget /\ found \subseteq closed \cap DOMAIN target_cache
  /\ \A k \in Step : awaiting[k] \subseteq closed
  /\ possible \subseteq closed /\ next \subseteq closed
  /\ pool \subseteq Rights /\ requests \subseteq Skinny /\ todo \subseteq Table
  /\ batch \subseteq ProvType /\ dellocs \subseteq DOMAIN edge_cache
  /\ \A c \in {edge_cache, target_cache} : \A g \in DOMAIN c :
       c[g] \in ProvType /\ c[g].output = g /\ (c[g].kind = "combine") = (c[g].right # 0)
  /\ faults \in 0..MaxFaults

Discovered(i) == DOMAIN prov[i]
Before(i) == Source \cup UNION {Discovered(j) : j \in 1..(i - 1)}

\* Every gadget reached is a source or was discovered exactly once, along an
\* edge of the database and from a gadget reached before it: a traceback
\* always ends, whatever the workers commit meanwhile.
ProvenanceFounded ==
  /\ closed = Before(Len(prov) + 1)
  /\ \A i \in DOMAIN prov :
       /\ Discovered(i) \cap Before(i) = {}
       /\ \A g \in Discovered(i) :
            /\ prov[i][g].input \in Before(i)
            /\ \E t \in Table : t[1] = prov[i][g].kind /\ <<prov[i][g].input, g>> \in Edges(t)

\* A derivation of root from the gadgets of base: each line is an edge of the
\* database, after the lines of its inputs, and the last one is root.
Derives(trace, root, base) ==
  /\ Last(trace).output = root
  /\ \A i \in DOMAIN trace :
       LET p == trace[i]
           earlier == {trace[j].output : j \in 1..(i - 1)}
       IN  /\ p.output \notin earlier /\ inputs(p) \subseteq earlier
           /\ IF p.kind = "source" THEN p.output \in base
              ELSE <<p.input, p.output>> \in Edges(TableOf(p))

\* Every derivation printed is one, also after runners have failed and left
\* the cache with edges whose inputs are missing.
DerivationsCorrect ==
  \A d \in printed : Derives(d[2], d[1], Named) /\ Derives(d[3], d[1], Source)

\* While no runner has failed, whatever is cached can be traced back to
\* sources, and the deleted locations of its connects are known.
CacheComplete ==
  faults = 0 /\ record \in {"no", "print", "end"} =>
    \A g \in DOMAIN edge_cache :
      /\ inputs(edge_cache[g]) \subseteq DOMAIN edge_cache
      /\ TableOf(edge_cache[g]) \in Skinny /\ g \in Deleting => g \in dellocs

Following == {t \in Table : /\ t[1] = "close" => ~opt.multiplayer
                            /\ t[1] = "mirror" => ~opt.skip_mirror
                            /\ t[1] = "combine" => t[2] \in pool}

MirrorImages == {g \in closed \ Source : find_sp(g).kind = "mirror"}

\* A report that completes has followed all the edges that were there when it
\* began from all it reached, but for the closing and the mirroring of mirror
\* images, also when the failures of runners were passed over.
NothingMissed ==
  pc = "completed" =>
    \A t \in Following :
      \A e \in Makes[t] : e[1] \in (closed \cap Done[t]) \ (IF t \in Simple THEN MirrorImages ELSE {}) =>
        e[2] \in closed

\* A report that completes without failures of runners has printed how each
\* target it reached is built, unless the target is built that way itself.
TargetsReported ==
  pc = "completed" /\ faults = 0 =>
    \A g \in (closed \ Source) \cap DOMAIN target_cache :
      \/ Derivation(g) \in printed
      \/ toposort_provs(target_cache, g) = toposort_provs(edge_cache, g)

\* The report gives up only because a runner failed, because of combine_all or
\* because no source is a right: its lookups never fail by themselves.
GivesUpForCause ==
  pc = "terminated" => faults > 0 \/ opt.combine_all \/ pool = {}

\* What a report traces can be traced, a report that says it is complete is, and
\* one that gives up has a reason, whatever was committed or failed meanwhile.
OutcomeJustified ==
  ProvenanceFounded /\ CacheComplete /\ NothingMissed /\ TargetsReported /\ GivesUpForCause

\* The report ends, also when workers go on committing and runners fail.
ReportEnds == <>(pc \in {"completed", "terminated"})
=============================================================================
