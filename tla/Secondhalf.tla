------------------------------ MODULE Secondhalf ----------------------------
(***************************************************************************)
(* do_secondhalf_db in msgpack-mode.cpp: the gadgets of several firsthalf  *)
(* files are inserted slice by slice, then the edges of the files.  The    *)
(* main thread prepares a slice, reader threads of transform_reduce look   *)
(* up its gadgets, and a writer thread commits it, while the main thread   *)
(* is at the next slices; a queue of one element is between the two.       *)
(* Unlike selsert_gadget_by_data nothing is looked up again in the write   *)
(* transaction: an insertion that meets a taken place throws.  An          *)
(* exception in the writer thread, or one that leaves the main thread      *)
(* while the writer runs, ends the process ("terminated"); later ones are  *)
(* answered to the driver ("threw").                                       *)
(***************************************************************************)
EXTENDS Integers, Sequences, FiniteSets, SequencesExt, FiniteSetsExt

CONSTANTS
  Slices, Divisor,   \* firsthalf_slices, firsthalf_slice_divisor
  Readers,           \* num_reader_threads
  Gadget,            \* gadgets as encoded, numbered in the order of their bytes
  HashOf,            \* HashOf[g]: contig_range_hash
  StatsOrder,        \* StatsOrder[g]: the order of SortStats, hashes aside
  Batches,           \* the possible lists of firsthalves: sequences of [rows, provs]
  Present,           \* what the table may hold before, a set of sequences of gadgets
  Strangers,         \* gadgets that another process may insert meanwhile
  MaxFailures        \* bound: lookups that throw

Firsthalf ==
  {x \in [rows : Seq(Gadget), provs : SUBSET [input1 : Nat, output1 : Nat]] :
     \A p \in x.provs : p.output1 \in 1..Len(x.rows)}

ASSUME SecondhalfAssumption ==
  /\ Slices \in Nat \ {0} /\ Divisor \in Nat \ {0} /\ Readers \in Nat \ {0} /\ MaxFailures \in Nat
  /\ Gadget \subseteq Nat /\ HashOf \in [Gadget -> Nat] /\ StatsOrder \in [Gadget -> Nat]
  /\ Batches \subseteq Seq(Firsthalf) /\ Strangers \subseteq Gadget
  /\ \A s \in Present : s \in Seq(Gadget) /\ \A i, j \in 1..Len(s) : s[i] = s[j] => i = j

VARIABLES
  hashtable,   \* hashtable[hash] = [data, id]
  idhash,      \* the index: the hash of each id
  files,       \* the firsthalves
  remaining,   \* how many of them are not committed yet
  globals,     \* firsthalf_to_globals: an id per file and row, 0 while there is none
  slice,       \* the slice of the main thread
  proposed,    \* its gadgets that were looked for and are not there, with hashes
  stores,      \* pending_stores: pairs of places in globals
  tasks,       \* the ranges that still have to be looked up
  kept,        \* the surviving gadgets of each range that was looked up
  commitables, \* the queue
  edges,       \* committed edges: input and output id
  main, writer, \* where the two threads are
  task,        \* what the writer took
  outcome,     \* of the request
  failures

database == <<hashtable, idhash, edges>>
reading == <<slice, proposed, stores, tasks, kept>>
halfVars == <<database, files, remaining, globals, reading, commitables, main, writer, task, outcome, failures>>

Unassigned == 0
nullopt == [gadgets |-> {}, proposed |-> <<>>, stores |-> {}, slice |-> Slices]
SliceOf(hash) == hash \div Divisor

Holds(hash, g) == hash \in DOMAIN hashtable /\ hashtable[hash].data = g

\* The place for a gadget that is not there.  Mutant of Lookup: the gadgets on the way are
\* not compared.
FreePlace(g) ==
  Min({h \in HashOf[g]..(HashOf[g] + Cardinality(DOMAIN hashtable)) : h \notin DOMAIN hashtable})

\* Linear probing, on across the end of a slice.
Lookup(g) ==
  Min({h \in HashOf[g]..(HashOf[g] + Cardinality(DOMAIN hashtable)) :
         h \notin DOMAIN hashtable \/ Holds(h, g)})

\* The places of the gadgets of s when they were inserted one after the other.
Placements(s) ==
  {places \in [1..Len(s) -> UNION {HashOf[s[n]]..(HashOf[s[n]] + Len(s)) : n \in 1..Len(s)}] :
     \A n \in 1..Len(s) :
       /\ HashOf[s[n]] <= places[n] /\ \A m \in 1..(n - 1) : places[m] # places[n]
       /\ \A h \in HashOf[s[n]]..(places[n] - 1) : \E m \in 1..(n - 1) : places[m] = h}

\* The rows of the files: file and row of each, and the gadget in it.
AllRows == UNION {{<<f, i>> : i \in 1..Len(files[f].rows)} : f \in 1..Len(files)}
DataAt(r) == files[r[1]].rows[r[2]]

HalfInit ==
  /\ files \in Batches /\ remaining = Len(files)
  /\ \E s \in Present :
       /\ idhash \in Placements(s)
       /\ hashtable = [h \in ToSet(idhash) |->
                         LET id == CHOOSE n \in 1..Len(s) : idhash[n] = h IN [data |-> s[id], id |-> id]]
  /\ globals = [r \in AllRows |-> Unassigned]
  /\ slice = 0 /\ proposed = <<>> /\ stores = {} /\ tasks = {} /\ kept = {}
  /\ commitables = <<>> /\ edges = {}
  /\ main = "prepare" /\ writer = "take" /\ task = nullopt /\ outcome = "running" /\ failures = 0

-----------------------------------------------------------------------------
(* The main thread: read_and_prepare.                                      *)

\* The rows in a slice.
Rows(s) == {r \in AllRows : SliceOf(HashOf[DataAt(r)]) = s}

\* The size of a reader's range, for so many gadgets.
task_size(count) == (count + (Readers - 1)) \div Readers

\* The ranges of a list of gadgets that the readers get.
Ranges(sorted) ==
  LET length == task_size(Len(sorted))
  IN  {SubSeq(sorted, i, Min({i + length - 1, Len(sorted)})) :
         i \in {j \in 1..Len(sorted) : (j - 1) % length = 0}}

\* One row per gadget is kept; the ids of the others are copied from it later.
\* Any of several equal rows may come first.  The gadgets are in the order of their bytes,
\* because ProposedInsert compares its own hash with itself.
prepare ==
  LET rows == Rows(slice)
      data == {DataAt(r) : r \in rows}
  IN  /\ main = "prepare" /\ outcome = "running"
      /\ \E first \in [data -> rows] :
           /\ \A g \in data : DataAt(first[g]) = g
           /\ proposed' = first
           /\ stores' = {<<r, first[DataAt(r)]>> : r \in {q \in rows : first[DataAt(q)] # q}}
      /\ \E sorted \in SetToSeqs(data) :
           /\ \A i, j \in 1..Len(sorted) : i < j => sorted[i] < sorted[j]
           /\ tasks' = Ranges(sorted)
      /\ kept' = {} /\ main' = "lookup"
      /\ UNCHANGED <<database, files, remaining, globals, slice, commitables, writer, task,
                     outcome, failures>>

\* Mutant: the id of a gadget that is there already is not taken over.
FoundNone(range) == globals

Found(range) ==
  [r \in AllRows |->
     LET g == DataAt(r)
     IN  IF g \in ToSet(range) /\ proposed[g] = r /\ Holds(Lookup(g), g)
         THEN hashtable[Lookup(g)].id ELSE globals[r]]

\* A reader thread looks up the gadgets of a range, in a read transaction.
lookup(range) ==
  /\ main = "lookup" /\ outcome = "running"
  /\ tasks' = tasks \ {range}
  /\ globals' = Found(range)
  /\ kept' = kept \cup {{[data |-> g, hash |-> Lookup(g)] : g \in {x \in ToSet(range) : ~Holds(Lookup(x), x)}}}
  /\ UNCHANGED <<database, files, remaining, slice, proposed, stores, commitables, main, writer,
                 task, outcome, failures>>

\* A lookup throws.  The only task of a slice runs in the main thread; of
\* several tasks transform_reduce then returns some of the results, or crashes.
lookup_throws(range) ==
  /\ main = "lookup" /\ outcome = "running" /\ failures < MaxFailures
  /\ failures' = failures + 1
  /\ \E n \in 0..(Len(range) - 1) : globals' = Found(SubSeq(range, 1, n))
  /\ \/ outcome' = "terminated" /\ UNCHANGED <<tasks, kept>>
     \/ /\ task_size(Cardinality(DOMAIN proposed)) < Cardinality(DOMAIN proposed)
        /\ tasks' = tasks \ {range}
        /\ kept' \in SUBSET kept
        /\ UNCHANGED outcome
  /\ UNCHANGED <<database, files, remaining, slice, proposed, stores, commitables, main, writer, task>>

\* The survivors of all ranges go to the writer, when the queue has space.
put_slice ==
  /\ main = "lookup" /\ tasks = {} /\ outcome = "running"
  /\ commitables = <<>>
  /\ commitables' = <<[gadgets |-> UNION kept, proposed |-> proposed, stores |-> stores, slice |-> slice]>>
  /\ slice' = slice + 1
  /\ main' = IF slice + 1 < Slices THEN "prepare" ELSE "finish"
  /\ UNCHANGED <<database, files, remaining, globals, proposed, stores, tasks, kept, writer, task,
                 outcome, failures>>

\* The empty optional that ends the writer.
put_end ==
  /\ main = "finish" /\ commitables = <<>> /\ outcome = "running"
  /\ commitables' = <<nullopt>> /\ main' = "join"
  /\ UNCHANGED <<database, files, remaining, globals, reading, writer, task, outcome, failures>>

-----------------------------------------------------------------------------
(* The writer thread: commit_secondhalf.                                   *)

\* "supreme unluckiness", or a place that is taken, also by this slice.
Refused(t) ==
  \/ t.slice # 0 /\ (t.slice * Divisor - 1) \in DOMAIN hashtable
  \/ \E x \in t.gadgets : x.hash \in DOMAIN hashtable
  \/ \E x, y \in t.gadgets : x # y /\ x.hash = y.hash

StatsLess(x, y) ==
  \/ StatsOrder[x.data] < StatsOrder[y.data]
  \/ StatsOrder[x.data] = StatsOrder[y.data] /\ x.hash < y.hash

\* sorted_stats: the orders in which the gadgets may get their ids
Numberings(gadgets) ==
  {s \in SetToSeqs(gadgets) : \A i, j \in 1..Len(s) : i < j => ~StatsLess(s[j], s[i])}

\* Mutant: the hashes from before the probing.
HashesBeforeProbing(ranked) == [n \in 1..Len(ranked) |-> HashOf[ranked[n].data]]

\* What the index gets.
Hashes(ranked) == [n \in 1..Len(ranked) |-> ranked[n].hash]

\* The ids that the gadgets get.
Assigned(t, ranked) ==
  [r \in AllRows |->
     IF \E n \in 1..Len(ranked) : t.proposed[ranked[n].data] = r
     THEN Len(idhash) + CHOOSE n \in 1..Len(ranked) : t.proposed[ranked[n].data] = r
     ELSE globals[r]]

\* The ids of duplicate rows, or "can't happen".
Copied(glob, t) ==
  [r \in AllRows |->
     IF \E p \in t.stores : p[1] = r THEN glob[(CHOOSE p \in t.stores : p[1] = r)[2]] ELSE glob[r]]

CopyThrows(glob, t) ==
  \E p \in t.stores : glob[p[1]] # Unassigned \/ glob[p[2]] = Unassigned

commit_secondhalf(t) ==
  \/ /\ t.gadgets # {} /\ Refused(t)
     /\ outcome' = "terminated"
     /\ UNCHANGED <<hashtable, idhash, globals>>
  \/ /\ t.gadgets = {} \/ ~Refused(t)
     /\ \E ranked \in Numberings(t.gadgets) :
          LET assigned == Assigned(t, ranked)
              placed == {x.hash : x \in t.gadgets}
              at(h) == CHOOSE x \in t.gadgets : x.hash = h
          IN  /\ hashtable' = [h \in DOMAIN hashtable \cup placed |->
                   IF h \in placed THEN [data |-> at(h).data, id |-> assigned[t.proposed[at(h).data]]]
                                   ELSE hashtable[h]]
              /\ idhash' = idhash \o Hashes(ranked)
              /\ globals' = Copied(assigned, t)
              /\ outcome' = IF CopyThrows(assigned, t) THEN "terminated" ELSE outcome

writer_takes ==
  /\ writer = "take" /\ commitables # <<>> /\ outcome = "running"
  /\ commitables' = <<>>
  /\ task' = Head(commitables)
  /\ writer' = IF task' = nullopt THEN "returned" ELSE "commit"
  /\ UNCHANGED <<database, files, remaining, globals, reading, main, outcome, failures>>

writer_commits ==
  /\ writer = "commit" /\ outcome = "running"
  /\ commit_secondhalf(task)
  /\ writer' = "take" /\ task' = nullopt
  /\ UNCHANGED <<edges, files, remaining, reading, commitables, main, failures>>

join ==
  /\ main = "join" /\ writer = "returned" /\ outcome = "running"
  /\ main' = "edges"
  /\ UNCHANGED <<database, files, remaining, globals, reading, commitables, writer, task, outcome, failures>>

-----------------------------------------------------------------------------
(* The edges, of one or more of the last files in a transaction.           *)

\* Mutant: ids that were never assigned go into the pages.
AlwaysMapped(group) == TRUE

\* "can't happen: didn't find global id for local id"
Mapped(group) ==
  \A r \in AllRows : r[1] \in group /\ files[r[1]].provs # {} => globals[r] # Unassigned

commit_edges ==
  /\ main = "edges" /\ outcome = "running"
  /\ \E left \in 0..(remaining - 1) :
       LET group == (left + 1)..remaining
       IN  \/ /\ ~Mapped(group)
              /\ outcome' = "threw"
              /\ UNCHANGED <<remaining, edges>>
           \/ /\ Mapped(group)
              /\ edges' = edges \cup
                   UNION {{[input |-> p.input1, output |-> globals[<<f, p.output1>>]] : p \in files[f].provs} : f \in group}
              /\ remaining' = left
              /\ outcome' = IF left = 0 THEN "answered" ELSE outcome
  /\ UNCHANGED <<hashtable, idhash, files, globals, reading, commitables, main, writer, task, failures>>

-----------------------------------------------------------------------------
\* Another process inserts a gadget, in a transaction of its own.
stranger_inserts(g) ==
  /\ outcome = "running" /\ \A h \in DOMAIN hashtable : hashtable[h].data # g
  /\ hashtable' = [h \in DOMAIN hashtable \cup {FreePlace(g)} |->
                     IF h = FreePlace(g) THEN [data |-> g, id |-> Len(idhash) + 1] ELSE hashtable[h]]
  /\ idhash' = Append(idhash, FreePlace(g))
  /\ UNCHANGED <<edges, files, remaining, globals, reading, commitables, main, writer, task, outcome, failures>>

HalfStep ==
  \/ prepare \/ put_slice \/ put_end \/ join \/ commit_edges
  \/ \E range \in tasks : lookup(range)
  \/ writer_takes \/ writer_commits

HalfNext ==
  \/ HalfStep
  \/ \E range \in tasks : lookup_throws(range)
  \/ \E g \in Strangers : stranger_inserts(g)

HalfSpec == HalfInit /\ [][HalfNext]_halfVars

HalfTypeOK ==
  /\ \A h \in DOMAIN hashtable : hashtable[h].data \in Gadget /\ hashtable[h].id \in 1..Len(idhash)
  /\ Len(commitables) <= 1
  /\ outcome \in {"running", "terminated", "threw", "answered"}

\* No gadget is stored twice and probing finds each one, although the lookup
\* is not repeated when the slice is committed, two slices later or more, and
\* another process may have inserted the same gadget or taken its place.
StoredOnceAndFound ==
  \A h \in DOMAIN hashtable :
    /\ \A k \in HashOf[hashtable[h].data]..(h - 1) : k \in DOMAIN hashtable
    /\ \A k \in DOMAIN hashtable \ {h} : hashtable[k].data # hashtable[h].data

\* The index leads from each id to the place of the gadget with that id.
IdsIndexed ==
  \A id \in 1..Len(idhash) :
    idhash[id] \in DOMAIN hashtable /\ hashtable[idhash[id]].id = id

\* An edge that is committed leads to the id of the gadget that the firsthalf
\* computed, whichever slice, thread or process stored it, and also when the
\* failure of a lookup was swallowed by transform_reduce.
EdgesLeadToOutputs ==
  \A e \in edges :
    \E f \in (remaining + 1)..Len(files) : \E p \in files[f].provs : \E h \in DOMAIN hashtable :
      e.input = p.input1 /\ hashtable[h] = [data |-> files[f].rows[p.output1], id |-> e.output]

\* What commit_secondhalf asserts, that a gadget it inserts has no id yet, is so;
\* and the two exceptions of the copying of ids that "can't happen" do not, unless
\* a lookup has failed.
CopiesAssignedIds ==
  writer = "commit" /\ (task.gadgets = {} \/ ~Refused(task)) =>
    /\ \A x \in task.gadgets : globals[task.proposed[x.data]] = Unassigned
    /\ failures = 0 =>
         \A p \in task.stores :
           /\ globals[p[1]] = Unassigned
           /\ globals[p[2]] # Unassigned \/ \E x \in task.gadgets : task.proposed[x.data] = p[2]

\* What a secondhalf leaves in the database, with its threads, its slices and
\* other processes in any order: every gadget once, found by hash and by id, and
\* every edge at the gadget it was computed for.
SecondhalfCorrect ==
  HalfTypeOK /\ StoredOnceAndFound /\ IdsIndexed /\ EdgesLeadToOutputs /\ CopiesAssignedIds

RequestEnded == outcome # "running"
=============================================================================
