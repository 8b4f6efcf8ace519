-------------------------------- MODULE Sync --------------------------------
(***************************************************************************)
(* sync_mode: the gadgets that files define are stored and named, and what *)
(* the reporter needs of them is computed.  A gadget is a number; what     *)
(* closing and mirroring give is told by CloseOf and MirrorOf (Gadgets has *)
(* the operations).  A name is the sequence of the parts between dashes.   *)
(*                                                                         *)
(* A definition has a name, the records of canonicalize_from_slls (morphs: *)
(* gadget_state, normal, mirror as a set, initial_component), state_names, *)
(* and the pragma.  state_names is [kind |-> "default"], "all", "single"   *)
(* with the state, or "map" with the names of states.                      *)
(*                                                                         *)
(* Each database transaction is a step.  A crash may come between any two, *)
(* and sync is run again, with the same files or others.  Searches, and    *)
(* the workers they leave behind, may act between any two as well: they    *)
(* store gadgets, record what they closed and mirrored, and update the     *)
(* predicates.                                                             *)
(***************************************************************************)
EXTENDS Integers, Sequences, FiniteSets, TLC, SequencesExt, FiniteSetsExt

CONSTANTS
  Files,              \* [gadgets |-> sequence of definitions, aliases |-> sequence of <<source, target>>]
  CloseOf, MirrorOf,  \* gadget -> gadget, itself if nothing changes
  MaxRuns,            \* of sync
  MaxOthers           \* steps of searches and workers

VARIABLES
  pc, file, run_count,
  needs,              \* ids that sync has read for its next operation
  others,             \* steps of searches and workers so far
  stored,             \* gadgets in the order of their ids, from 1
  names,              \* name -> set of ids
  uid,                \* the id of the database, 0 if none was drawn
  predicates,         \* "absent", "initial" or, after a search, "filled"
  closed, mirrored,   \* completions: sets of ids
  closeEdges, mirrorEdges
operations == <<closed, mirrored, closeEdges, mirrorEdges>>
syncVars == <<pc, file, run_count, needs, others, stored, names, uid, predicates, operations>>

KnownGadgets == DOMAIN CloseOf
Morphs ==
  [gadget_state : Nat, normal : KnownGadgets, mirror : {{}} \cup {{m} : m \in KnownGadgets},
   initial_component : BOOLEAN]

\* What is closed stays as it is when it is closed again.  Numbers are in the order
\* in which outputs are sorted.
ASSUME OperationsAssumption ==
  /\ KnownGadgets \subseteq Int
  /\ CloseOf \in [KnownGadgets -> KnownGadgets] /\ \A g \in KnownGadgets : CloseOf[CloseOf[g]] = CloseOf[g]
  /\ MirrorOf \in [KnownGadgets -> KnownGadgets]
  /\ MaxRuns \in Nat /\ MaxOthers \in Nat

-----------------------------------------------------------------------------
(* Sequences *)

\* A set of numbers in order.
Ascending(S) == [k \in 1..Cardinality(S) |-> CHOOSE x \in S : Cardinality({y \in S : y < x}) = k - 1]

\* What is at these places of a sequence.
Kept(seq, places) == LET order == Ascending(places) IN [k \in 1..Len(order) |-> seq[order[k]]]

\* An assignment, assignments that replace others, and assignments one after another.
Only(n, v) == [m \in {n} |-> v]
Over(new, old) == [n \in DOMAIN new \cup DOMAIN old |-> IF n \in DOMAIN new THEN new[n] ELSE old[n]]
Assigned(maps) ==
  [n \in UNION {DOMAIN maps[i] : i \in DOMAIN maps} |-> maps[Max({i \in DOMAIN maps : n \in DOMAIN maps[i]})][n]]

-----------------------------------------------------------------------------
(* Naming *)

\* std::includes of sorted sequences: repetitions count.
includes(s, t) ==
  LET count(seq, x) == Cardinality({i \in 1..Len(seq) : seq[i] = x})
  IN  \A i \in 1..Len(t) : count(s, t[i]) >= count(t, t[i])

\* If all mirror images are among the states, reflection only changes the state.
WithoutReflection(morphs) ==
  LET all_normals == [i \in 1..Len(morphs) |-> morphs[i].normal]
      all_mirrors == FlattenSeq([i \in 1..Len(morphs) |-> Ascending(morphs[i].mirror)])
  IN  IF includes(all_normals, all_mirrors)
      THEN [i \in 1..Len(morphs) |-> [morphs[i] EXCEPT !.mirror = {}]]
      ELSE morphs

\* If changing the state is a rotation, the later names are dropped.
WithoutRotations(morphs) ==
  Kept(morphs, {i \in 1..Len(morphs) : \A j \in 1..(i - 1) : morphs[j].normal # morphs[i].normal})

StatesOf(morphs) == {morphs[i].gadget_state : i \in 1..Len(morphs)}

\* A named state that was dropped is an error, unless the pragma allows it.
NamesRefused(g, morphs) ==
  g.state_names.kind = "map" /\ ~g.allow_pruning_named_states /\ ~(DOMAIN g.state_names.map \subseteq StatesOf(morphs))

\* For "all" the names are kept under the places of the morphs, not their states.
state_names(g, morphs) ==
  CASE g.state_names.kind = "map" -> g.state_names.map
    [] g.state_names.kind = "single" -> Only(g.state_names.state, "BUGBUGBUG")
    [] g.state_names.kind = "all" -> [i \in 0..(Len(morphs) - 1) |-> ToString(morphs[i + 1].gadget_state)]
    [] g.state_names.kind = "default" ->
         [s \in {morphs[i].gadget_state : i \in {i \in 1..Len(morphs) : morphs[i].initial_component}} |-> ToString(s)]

\* The gadgets of a state.
Images(r) == {r.normal} \cup r.mirror

\* One state with the name of the gadget itself.
SingleName(name, r) ==
  Over(Only(name, Images(r)),
       IF r.mirror = {} THEN <<>> ELSE Over(Only(name \o <<"r">>, {r.normal}), Only(name \o <<"s">>, r.mirror)))

\* Mutant: a state that is its own mirror image is left out of one group.
ChiralGroupsProper(name, named) ==
  Over(Only(name \o <<"r">>, {r.normal : r \in named}), Only(name \o <<"s">>, UNION {r.mirror : r \in named}))

\* A state that is its own mirror image belongs to both groups.
ChiralGroups(name, named) ==
  Over(Only(name \o <<"r">>, {r.normal : r \in named}),
       Only(name \o <<"s">>, UNION {IF r.mirror = {} THEN {r.normal} ELSE r.mirror : r \in named}))

\* The names of states and of groups; each assignment replaces an earlier one.
GroupNames(name, morphs, of) ==
  LET order == Kept(morphs, {k \in 1..Len(morphs) : morphs[k].gadget_state \in DOMAIN of})
      named == ToSet(order)
      each == Assigned([k \in 1..Len(order) |-> SingleName(name \o <<of[order[k].gadget_state]>>, order[k])])
      chiral == IF \E r \in named : r.mirror # {} THEN ChiralGroups(name, named) ELSE <<>>
  IN  Over(Only(name, UNION {Images(r) : r \in named}), Over(chiral, each))

LeftMorphs(g) == WithoutRotations(WithoutReflection(g.morphs))
OneState(g) == g.state_names.kind # "map" /\ Cardinality(DOMAIN state_names(g, LeftMorphs(g))) = 1
FrontMorphs(g) ==
  LET front == CHOOSE s \in DOMAIN state_names(g, LeftMorphs(g)) : TRUE
  IN  {r \in ToSet(LeftMorphs(g)) : r.gadget_state = front}
NamesOf(g) ==
  IF OneState(g) THEN SingleName(g.name, CHOOSE r \in FrontMorphs(g) : TRUE)
  ELSE GroupNames(g.name, LeftMorphs(g), state_names(g, LeftMorphs(g)))

\* A state that is named alone is one of those that are left: the code looks at what
\* it finds without asking whether it found it.
ASSUME FilesAssumption ==
  \A f \in Files :
    /\ f.gadgets \in Seq(ToSet(f.gadgets)) /\ f.aliases \in Seq(ToSet(f.aliases))
    /\ \A g \in ToSet(f.gadgets) : g.morphs \in Seq(Morphs) /\ (g.morphs # <<>> /\ OneState(g) => FrontMorphs(g) # {})

\* An alias may lead to an earlier one.
AliasesRefused(naming, aliases) ==
  \E k \in 1..Len(aliases) :
    LET known == DOMAIN naming \cup {aliases[j][1] : j \in 1..(k - 1)}
    IN  aliases[k][1] \in known \/ aliases[k][2] \notin known

Defs(f) == Kept(f.gadgets, {i \in 1..Len(f.gadgets) : f.gadgets[i].morphs # <<>>})
DefinedNames(f) == Assigned([i \in 1..Len(Defs(f)) |-> NamesOf(Defs(f)[i])])
Refused(f) ==
  \/ \E g \in ToSet(Defs(f)) : NamesRefused(g, LeftMorphs(g))
  \/ AliasesRefused(DefinedNames(f), f.aliases)
Naming(f) ==
  LET after[k \in 0..Len(f.aliases)] ==
        IF k = 0 THEN DefinedNames(f)
        ELSE Over(Only(f.aliases[k][1], after[k - 1][f.aliases[k][2]]), after[k - 1])
  IN  after[Len(f.aliases)]

Accepted == {f \in Files : ~Refused(f)}
NamingOf == [f \in Accepted |-> Naming(f)]

\* Every state and mirror image is registered, named or not.
canonicals(f) ==
  FlattenSeq([i \in 1..Len(Defs(f)) |->
    LET morphs == Defs(f)[i].morphs
    IN  FlattenSeq([k \in 1..Len(morphs) |-> <<morphs[k].normal>> \o Ascending(morphs[k].mirror)])])

-----------------------------------------------------------------------------
(* The database *)

IdOf(g) == CHOOSE i \in 1..Len(stored) : stored[i] = g

\* Mutant: what is stored already is stored again.
SelsertedAgain(gadgets) == stored \o gadgets

\* selsert_gadget_by_data: those that are new, in this order.
Selserted(gadgets) ==
  stored \o Kept(gadgets, {k \in 1..Len(gadgets) :
                           gadgets[k] \notin ToSet(stored) /\ \A j \in 1..(k - 1) : gadgets[j] # gadgets[k]})
Named == {IdOf(g) : g \in ToSet(canonicals(file))}

SyncInit ==
  /\ pc = "read" /\ file \in Files /\ run_count = 0 /\ needs = {} /\ others = 0
  /\ stored = <<>> /\ names = <<>> /\ uid = 0 /\ predicates = "absent"
  /\ closed = {} /\ mirrored = {} /\ closeEdges = <<>> /\ mirrorEdges = <<>>

\* Files that are refused end sync before it opens the database.
Read ==
  /\ pc \in {"read", "done"} /\ run_count < MaxRuns
  /\ \E f \in Files : file' = f /\ pc' = IF f \in Accepted THEN "create" ELSE "read"
  /\ run_count' = run_count + 1 /\ needs' = {}
  /\ UNCHANGED <<others, stored, names, uid, predicates, operations>>

\* Mutant: every run draws an id.
CreatedAnew(id) == id
\* The id of the database after a run that has drawn this one.
Created(id) == IF uid = 0 THEN id ELSE uid

CreateDatabases ==
  /\ pc = "create" /\ pc' = "selsert"
  /\ uid' = Created(run_count)
  /\ predicates' = IF predicates = "absent" THEN "initial" ELSE predicates
  /\ UNCHANGED <<file, run_count, needs, others, stored, names, operations>>

SelsertGadgets ==
  /\ pc = "selsert" /\ pc' = "names"
  /\ stored' = Selserted(canonicals(file))
  /\ UNCHANGED <<file, run_count, needs, others, names, uid, predicates, operations>>

\* Mutant: names of earlier runs stay.
ReplacedKept(new) == Over(new, names)
Replaced(new) == new

WriteNames ==
  /\ pc = "names" /\ pc' = "close"
  /\ names' = Replaced([n \in DOMAIN NamingOf[file] |-> {IdOf(g) : g \in NamingOf[file][n]}])
  /\ UNCHANGED <<file, run_count, needs, others, stored, uid, predicates, operations>>

\* What an operation has to do and gives: the outputs of inputs that change.
Changed(inputs, op) == {i \in inputs : op[stored[i]] # stored[i]}
OutputsOf(inputs, op) == Ascending({op[stored[i]] : i \in Changed(inputs, op)})

\* Mutant: the outputs are not mapped from their places in the result to ids.
EdgesByPlace(inputs, op) ==
  [i \in Changed(inputs, op) |->
     CHOOSE k \in 1..Len(OutputsOf(inputs, op)) : OutputsOf(inputs, op)[k] = op[stored[i]]]
EdgesOf(inputs, op) == [i \in Changed(inputs, op) |-> IdOf(op[stored[i]])]

\* Mutant: everything that is stored by now is taken to be closed.
IdempotentAll(inputs) == 1..Len(stored)
\* What was closed needs no closing.
Idempotent(inputs) == {IdOf(g) : g \in ToSet(OutputsOf(inputs, CloseOf))}

\* An edge that is there already stays; one that differs is an error.
Agree(new, old) == \A i \in DOMAIN new \cap DOMAIN old : new[i] = old[i]

\* commit_simple_result, after the outputs of these inputs were stored
commit_close(inputs) ==
  /\ Agree(EdgesOf(inputs, CloseOf), closeEdges)
  /\ closeEdges' = Over(closeEdges, EdgesOf(inputs, CloseOf))
  /\ closed' = closed \cup inputs \cup Idempotent(inputs)
commit_mirror(inputs) ==
  /\ Agree(EdgesOf(inputs, MirrorOf), mirrorEdges)
  /\ mirrorEdges' = Over(mirrorEdges, EdgesOf(inputs, MirrorOf))
  /\ mirrored' = mirrored \cup inputs

\* What needs closing is read once: others may close it before sync does.
CloseNeeds ==
  /\ pc = "close" /\ pc' = "store_close"
  /\ needs' = Named \ closed
  /\ UNCHANGED <<file, run_count, others, stored, names, uid, predicates, operations>>

CloseStore ==
  /\ pc = "store_close" /\ pc' = "commit_close"
  /\ stored' = Selserted(OutputsOf(needs, CloseOf))
  /\ UNCHANGED <<file, run_count, needs, others, names, uid, predicates, operations>>

CloseCommit ==
  /\ pc = "commit_close" /\ pc' = "follow"
  /\ commit_close(needs)
  /\ UNCHANGED <<file, run_count, needs, others, stored, names, uid, predicates, mirrored, mirrorEdges>>

\* Mutant: the edges of this run are followed, from gadgets that needed closing.
FollowedNew(ids) == {closeEdges[i] : i \in ids \cap needs \cap DOMAIN closeEdges}
\* follow_edges
Followed(ids) == {closeEdges[i] : i \in ids \cap DOMAIN closeEdges}

FollowClose ==
  /\ pc = "follow" /\ pc' = "mirror"
  /\ needs' = Named \cup Followed(Named)
  /\ UNCHANGED <<file, run_count, others, stored, names, uid, predicates, operations>>

MirrorNeeds ==
  /\ pc = "mirror" /\ pc' = "store_mirror"
  /\ needs' = needs \ mirrored
  /\ UNCHANGED <<file, run_count, others, stored, names, uid, predicates, operations>>

MirrorStore ==
  /\ pc = "store_mirror" /\ pc' = "commit_mirror"
  /\ stored' = Selserted(OutputsOf(needs, MirrorOf))
  /\ UNCHANGED <<file, run_count, needs, others, names, uid, predicates, operations>>

MirrorCommit ==
  /\ pc = "commit_mirror" /\ pc' = "done"
  /\ commit_mirror(needs)
  /\ UNCHANGED <<file, run_count, needs, others, stored, names, uid, predicates, closed, closeEdges>>

SyncCrash ==
  /\ pc \notin {"read", "done"} /\ pc' = "read" /\ needs' = {}
  /\ UNCHANGED <<file, run_count, others, stored, names, uid, predicates, operations>>

-----------------------------------------------------------------------------
(* Searches and workers.  They find a database as soon as sync has created *)
(* it, whatever sync does then.                                            *)

Other == uid # 0 /\ others < MaxOthers /\ others' = others + 1

\* A worker stores a result of any operation.
WorkerStore ==
  /\ Other
  /\ \E g \in KnownGadgets : stored' = Selserted(<<g>>)
  /\ UNCHANGED <<pc, file, run_count, needs, names, uid, predicates, operations>>

\* A worker records the closing of a gadget, once the output is stored.
WorkerClose ==
  /\ Other
  /\ \E i \in 1..Len(stored) : CloseOf[stored[i]] \in ToSet(stored) /\ commit_close({i})
  /\ UNCHANGED <<pc, file, run_count, needs, stored, names, uid, predicates, mirrored, mirrorEdges>>

WorkerMirror ==
  /\ Other
  /\ \E i \in 1..Len(stored) : MirrorOf[stored[i]] \in ToSet(stored) /\ commit_mirror({i})
  /\ UNCHANGED <<pc, file, run_count, needs, stored, names, uid, predicates, closed, closeEdges>>

\* A search updates the predicates.
SearchUpdates ==
  /\ Other /\ predicates' = "filled"
  /\ UNCHANGED <<pc, file, run_count, needs, stored, names, uid, operations>>

SyncNext ==
  \/ Read \/ CreateDatabases \/ SelsertGadgets \/ WriteNames
  \/ CloseNeeds \/ CloseStore \/ CloseCommit \/ FollowClose \/ MirrorNeeds \/ MirrorStore \/ MirrorCommit
  \/ SyncCrash
  \/ WorkerStore \/ WorkerClose \/ WorkerMirror \/ SearchUpdates

SyncSpec == SyncInit /\ [][SyncNext]_syncVars

-----------------------------------------------------------------------------
(* Properties *)

SyncTypeOK ==
  /\ ToSet(stored) \subseteq DOMAIN CloseOf /\ Len(stored) = Cardinality(ToSet(stored))
  /\ closed \cup mirrored \subseteq 1..Len(stored)
  /\ \A n \in DOMAIN names : names[n] \subseteq 1..Len(stored)
  /\ predicates \in {"absent", "initial", "filled"}

\* The names are always those of one set of files as a whole, whatever crashes and
\* other files came in between, and lead to the gadgets that it defines.
NamesOfOneRun ==
  \/ names = <<>>
  \/ \E f \in Accepted : /\ DOMAIN names = DOMAIN NamingOf[f]
                         /\ \A n \in DOMAIN names : {stored[i] : i \in names[n]} = NamingOf[f][n]

\* Once sync is done the reporter finds for every gadget of the files the closed
\* one, and the mirror images of both, although a run that crashed, or workers that
\* go on meanwhile, may have stored some of them, or recorded them as closed.
ReporterReady ==
  pc = "done" =>
    LET follow(edges, i) == IF i \in DOMAIN edges THEN edges[i] ELSE i
    IN  \A i \in Named :
          LET c == follow(closeEdges, i)
          IN  /\ i \in closed /\ stored[c] = CloseOf[stored[i]]
              /\ \A k \in {i, c} : k \in mirrored /\ stored[follow(mirrorEdges, k)] = MirrorOf[stored[k]]

\* A closed gadget is recorded as such: no edge leads on from the target of an
\* edge, and no gadget that has to be closed is passed over.
ClosingEnds ==
  /\ \A i \in DOMAIN closeEdges : closeEdges[i] \in closed \ DOMAIN closeEdges
  /\ \A k \in closed \ DOMAIN closeEdges : CloseOf[stored[k]] = stored[k]

\* Work that sync and workers do twice gives the same edges, also when others stored
\* gadgets in between: no commit of sync ends with "differing edges".
DuplicatesAgree ==
  /\ pc = "commit_close" => Agree(EdgesOf(needs, CloseOf), closeEdges)
  /\ pc = "commit_mirror" => Agree(EdgesOf(needs, MirrorOf), mirrorEdges)

\* The groups that the names form: a gadget's own name stands for all its named
\* states and their images, -r and -s divide it, and the gadgets named -s are the
\* mirror images of those named -r.
GroupsAgree ==
  pc = "create" => \A g \in ToSet(Defs(file)) :
    LET naming == NamesOf(g)
        gadgets(n) == naming[n]
        parts == DOMAIN naming \ {g.name}
        image(n) == [n EXCEPT ![Len(n)] = "s"]
    IN  /\ g.name \in DOMAIN naming
        /\ parts # {} => gadgets(g.name) = UNION {gadgets(n) : n \in parts}
        /\ \A n \in {n \in parts : Last(n) = "r"} :
             image(n) \in parts /\ gadgets(image(n)) = {MirrorOf[x] : x \in gadgets(n)}

\* The database keeps the id that its checkpoints name, and what a search has put
\* into the predicates, when sync is run again.
DatabaseKept == [][(uid # 0 => uid' = uid) /\ (predicates = "filled" => predicates' = "filled")]_syncVars

\* Whatever crashes and whatever steps of searches and workers come between the
\* transactions of sync, and whatever files it is run on next: the names are those
\* of one run, a run that ends leaves all that the reporter needs, work done twice
\* agrees, and what the database had is kept.
SyncCorrect ==
  /\ [](SyncTypeOK /\ NamesOfOneRun /\ ReporterReady /\ ClosingEnds /\ DuplicatesAgree)
  /\ DatabaseKept
=============================================================================
