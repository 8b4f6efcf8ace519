------------------------------- MODULE Selsert -------------------------------
(***************************************************************************)
(* selsert-gadget-by-data.cpp: find or insert a batch of gadgets.  The     *)
(* gadgets are in a hash table with linear probing, each with its id; an   *)
(* index gives the hash of an id, in pages of hashes.                      *)
(*                                                                         *)
(* A call prunes the gadgets that are there already twice: in a read       *)
(* transaction, and again in the write transaction that inserts the rest,  *)
(* because other processes insert in between.  The write transaction is    *)
(* several steps here, since it may loop; writer holds LMDB's write lock.  *)
(***************************************************************************)
EXTENDS Integers, Sequences, FiniteSets, SequencesExt, FiniteSetsExt

CONSTANTS
  Proc,        \* processes that insert gadgets
  NoProc,
  Data,        \* gadgets, as encoded
  HashOf,      \* HashOf[d]: contig_range_hash
  Rank,        \* Rank[d]: the place of d in the order of SortStats, hashes aside
  Batch,       \* the sets of gadgets that callers pass
  IndexPage,   \* hashes per page of the index (510)
  MaxHash      \* bound on the hashes that resolve_self_collision reaches

ASSUME SelsertAssumption ==
  /\ NoProc \notin Proc
  /\ HashOf \in [Data -> Nat] /\ Rank \in [Data -> Nat]
  /\ Batch \subseteq (SUBSET Data) \ {{}} /\ \A batch \in Batch : IsFiniteSet(batch)
  /\ IndexPage \in Nat \ {0} /\ MaxHash \in Nat

VARIABLES
  table,      \* table[hash] = [data, id], for the hashes in use
  index,      \* index[last id of the page]: the hashes of the page
  writer,     \* the process in a write transaction
  pc,
  pending,    \* the gadgets a call still has to insert, with their hashes
  ranked,     \* sorted_stats: the same gadgets in the order they get ids
  ids         \* local_to_global, 0 where no id is known yet

store == <<table, index>>
locals == <<pending, ranked, ids>>
vars == <<store, writer, pc, locals>>

Proposed == [data : Data, hash : Nat]

Init ==
  /\ table = <<>> /\ index = <<>> /\ writer = NoProc
  /\ pc = [p \in Proc |-> "idle"]
  /\ pending = [p \in Proc |-> <<>>] /\ ranked = [p \in Proc |-> <<>>]
  /\ ids = [p \in Proc |-> <<>>]

Become(p, where, pend, rank, map) ==
  /\ pc' = [pc EXCEPT ![p] = where]
  /\ pending' = [pending EXCEPT ![p] = pend]
  /\ ranked' = [ranked EXCEPT ![p] = rank]
  /\ ids' = [ids EXCEPT ![p] = map]

-----------------------------------------------------------------------------
(* The pruning loop.                                                       *)

Holds(hash, d) == hash \in DOMAIN table /\ table[hash].data = d

\* Mutant: the gadgets on the way are not compared.
ProbeFree(d, hash) ==
  Min({h \in hash..(hash + Cardinality(DOMAIN table)) : h \notin DOMAIN table})

\* Linear probing: from hash on, the first place that is free or holds d.
Probe(d, hash) ==
  Min({h \in hash..(hash + Cardinality(DOMAIN table)) : h \notin DOMAIN table \/ Holds(h, d)})

Probed(s) == [i \in 1..Len(s) |-> [s[i] EXCEPT !.hash = Probe(s[i].data, s[i].hash)]]
Pruned(s) == {x \in Range(Probed(s)) : Holds(x.hash, x.data)}

\* What is left of s, in its order, when only the places in keep are.
Kept(s, keep) ==
  [k \in 1..Cardinality(keep) |->
     s[CHOOSE i \in keep : Cardinality({j \in keep : j <= i}) = k]]

Survivors(s) ==
  Kept(Probed(s), {i \in 1..Len(s) : ~Holds(Probed(s)[i].hash, Probed(s)[i].data)})

\* A place that is not above the place of the element before it, which may be
\* one that was just pruned.
SelfCollision(s) ==
  \E i \in 2..Len(s) : /\ ~Holds(Probed(s)[i].hash, Probed(s)[i].data)
                       /\ Probed(s)[i].hash <= Probed(s)[i - 1].hash

\* Mutant: the ids of pruned gadgets are not taken over.
FoundNothing(s, map) == map

\* local_to_global after a pruning loop
Found(s, map) ==
  [d \in DOMAIN map |->
     IF \E x \in Pruned(s) : x.data = d
     THEN LET x == CHOOSE y \in Pruned(s) : y.data = d IN table[x.hash].id
     ELSE map[d]]

-----------------------------------------------------------------------------
(* The read transaction and the two sorts, neither of them stable.         *)

HashOrder(s) == \A i, j \in 1..Len(s) : i < j => s[i].hash <= s[j].hash
RankOrder(s) ==
  \A i, j \in 1..Len(s) : i < j =>
    \/ Rank[s[i].data] < Rank[s[j].data]
    \/ Rank[s[i].data] = Rank[s[j].data] /\ s[i].hash <= s[j].hash

selsert_gadget_by_data(p, batch) ==
  /\ pc[p] = "idle"
  /\ \E s \in SetToSeqs({[data |-> d, hash |-> HashOf[d]] : d \in batch}) :
       LET left == Survivors(s)
           map == Found(s, [d \in batch |-> 0])
       IN  /\ HashOrder(s)
           /\ \/ left = <<>> /\ Become(p, "returned", <<>>, <<>>, map)
              \/ /\ left # <<>>
                 /\ \E r \in SetToSeqs(Range(left)) :
                      RankOrder(r) /\ Become(p, "pruned", left, r, map)
  /\ UNCHANGED <<store, writer>>

-----------------------------------------------------------------------------
(* The write transaction.                                                  *)

\* Late pruning.  A call with nothing left returns and aborts the transaction.
late_prune(p) ==
  LET left == Survivors(pending[p])
      map == Found(pending[p], ids[p])
  IN  /\ pc[p] = "pruned" /\ writer = NoProc
      /\ \/ /\ left = <<>>
            /\ Become(p, "returned", <<>>, <<>>, map)
            /\ UNCHANGED writer
         \/ /\ left # <<>>
            /\ Become(p, IF SelfCollision(pending[p]) THEN "resolve" ELSE "insert",
                      left, ranked[p], map)
            /\ writer' = p
      /\ UNCHANGED store

\* Mutant: one place too far.
SeparateFar(s, i) ==
  LET target == 2 * (i - 1) + 1
  IN  IF s[i + 1].hash <= s[i].hash /\ target <= Len(s)
      THEN [s EXCEPT ![target].hash = s[i].hash + 2]
      ELSE s

\* One pass of the loop of resolve_self_collision, at element i of s.  The
\* element it moves is the one at i + i, counting from zero.  Past the end of
\* the vector the write lands in memory the vector no longer uses.
Separate(s, i) ==
  LET target == 2 * (i - 1) + 1
  IN  IF s[i + 1].hash <= s[i].hash /\ target <= Len(s)
      THEN [s EXCEPT ![target].hash = s[i].hash + 1]
      ELSE s

Separated(s) ==
  LET pass[i \in 0..(Len(s) - 1)] == IF i = 0 THEN s ELSE Separate(pass[i - 1], i)
  IN  pass[Len(s) - 1]

resolve_self_collision(p) ==
  /\ pc[p] = "resolve"
  /\ \A x \in Range(pending[p]) : x.hash < MaxHash
  /\ Become(p, "resolved", Separated(pending[p]), ranked[p], ids[p])
  /\ UNCHANGED <<store, writer>>

\* Its pruning loop, which finds free places again and prunes nothing.
reprune(p) ==
  /\ pc[p] = "resolved"
  /\ Become(p, IF SelfCollision(pending[p]) THEN "resolve" ELSE "insert",
            Probed(pending[p]), ranked[p], ids[p])
  /\ UNCHANGED <<store, writer>>

\* get_current_max_gadget_id
MaxGadgetId == Max(DOMAIN index \cup {0})

\* Mutant: the page that was filled up is left in place.
AppendKeepingOpenPage(hashes, first_novel_id) ==
  LET fill == IF MaxGadgetId = 0 THEN 0
              ELSE Min({Len(hashes), IndexPage - Len(index[MaxGadgetId])})
      last == MaxGadgetId + Len(hashes)
  IN  [k \in DOMAIN index \cup {last} |->
         IF k \in DOMAIN index THEN index[k]
         ELSE (IF fill = 0 THEN <<>> ELSE index[MaxGadgetId]) \o hashes]

\* append_gadget_index: fill up the last page under a new key, then add pages.
append_gadget_index(hashes, first_novel_id) ==
  LET open == MaxGadgetId # 0 /\ Len(index[MaxGadgetId]) # IndexPage
      fill == IF open THEN Min({Len(hashes), IndexPage - Len(index[MaxGadgetId])}) ELSE 0
      kept == IF open THEN DOMAIN index \ {MaxGadgetId} ELSE DOMAIN index
      filled == IF open THEN {MaxGadgetId + fill} ELSE {}
      \* the pages added: page n has the hashes after from(n), up to to(n)
      from(n) == fill + n * IndexPage
      to(n) == Min({from(n) + IndexPage, Len(hashes)})
      added == {n \in 0..Len(hashes) : from(n) < Len(hashes)}
      key(n) == first_novel_id + to(n) - 1
  IN  [k \in kept \cup filled \cup {key(n) : n \in added} |->
         IF k \in kept THEN index[k]
         ELSE IF k \in filled THEN index[MaxGadgetId] \o SubSeq(hashes, 1, fill)
         ELSE LET n == CHOOSE m \in added : key(m) = k
              IN  SubSeq(hashes, from(n) + 1, to(n))]

\* Gadgets get ids in the order of ranked; the ones pruned late are passed
\* over.  The index gets the hash that ranked has.
Novel(p) == Kept(ranked[p], {i \in 1..Len(ranked[p]) : ids[p][ranked[p][i].data] = 0})

\* Mutant: gadgets that were pruned late use up ids too.
AssignedWithGaps(p) ==
  [d \in DOMAIN ids[p] |->
     IF ids[p][d] # 0 THEN ids[p][d]
     ELSE MaxGadgetId + (CHOOSE i \in 1..Len(ranked[p]) : ranked[p][i].data = d)]

Assigned(p) ==
  [d \in DOMAIN ids[p] |->
     IF ids[p][d] # 0 THEN ids[p][d]
     ELSE MaxGadgetId + (CHOOSE i \in 1..Len(Novel(p)) : Novel(p)[i].data = d)]

\* "can't happen: collision after late-pruning"
Collides(p) ==
  LET s == pending[p]
  IN  \/ \E i \in 1..Len(s) : s[i].hash \in DOMAIN table
      \/ \E i, j \in 1..Len(s) : i # j /\ s[i].hash = s[j].hash

insert(p) ==
  LET placed == {x.hash : x \in Range(pending[p])}
      at(h) == CHOOSE x \in Range(pending[p]) : x.hash = h
  IN  /\ pc[p] = "insert"
      /\ \/ /\ Collides(p)
            /\ Become(p, "threw", <<>>, <<>>, <<>>)
            /\ UNCHANGED store
         \/ /\ ~Collides(p)
            /\ table' = [h \in DOMAIN table \cup placed |->
                           IF h \in placed THEN [data |-> at(h).data, id |-> Assigned(p)[at(h).data]]
                                           ELSE table[h]]
            /\ index' = append_gadget_index([i \in 1..Len(Novel(p)) |-> Novel(p)[i].hash],
                                            MaxGadgetId + 1)
            /\ Become(p, "returned", <<>>, <<>>, Assigned(p))
      /\ writer' = NoProc

\* The caller goes on, or its process is killed, which ends its transaction.
return(p) ==
  /\ pc[p] \in {"returned", "threw"}
  /\ Become(p, "idle", <<>>, <<>>, <<>>)
  /\ UNCHANGED <<store, writer>>

\* Mutant: the lock outlives the process.
DieLocked(p) ==
  /\ pc[p] \in {"pruned", "resolve", "resolved", "insert"}
  /\ Become(p, "idle", <<>>, <<>>, <<>>)
  /\ UNCHANGED <<store, writer>>

die(p) ==
  /\ pc[p] \in {"pruned", "resolve", "resolved", "insert"}
  /\ Become(p, "idle", <<>>, <<>>, <<>>)
  /\ writer' = IF writer = p THEN NoProc ELSE writer
  /\ UNCHANGED store

Next ==
  \E p \in Proc :
    \/ \E batch \in Batch : selsert_gadget_by_data(p, batch)
    \/ late_prune(p)
    \/ resolve_self_collision(p)
    \/ reprune(p)
    \/ insert(p)
    \/ return(p)
    \/ die(p)

Spec == Init /\ [][Next]_vars

-----------------------------------------------------------------------------
(* select-by-id.cpp: from an id to its hash, and from there to the gadget. *)

select_gadget_id_to_hash(id) ==
  LET last_id_on_page == Min({k \in DOMAIN index : k >= id})
      page == index[last_id_on_page]
  IN  page[id - (last_id_on_page - Len(page))]

\* select_gadget_id_to_value does not throw.
Selects(id) ==
  LET hash == select_gadget_id_to_hash(id)
  IN  hash \in DOMAIN table /\ table[hash].id = id

-----------------------------------------------------------------------------
(* Properties.                                                             *)

\* The store and the calls in progress have the shapes the code gives them,
\* and only a process in its write transaction holds the lock.
TypeOK ==
  /\ \A h \in DOMAIN table : h \in Nat /\ table[h].data \in Data /\ table[h].id \in Nat \ {0}
  /\ \A k \in DOMAIN index : k \in Nat /\ index[k] \in Seq(Nat)
  /\ writer \in Proc \cup {NoProc}
  /\ \A p \in Proc : (writer = p) <=> (pc[p] \in {"resolve", "resolved", "insert"})
  /\ \A p \in Proc : pending[p] \in Seq(Proposed) /\ ranked[p] \in Seq(Proposed)

\* No gadget is stored twice, although several calls decide at the same time
\* that it is missing.
StoredOnce == \A g, h \in DOMAIN table : table[g].data = table[h].data => g = h

\* Probing from a gadget's own hash finds it: no insertion leaves a gap on the
\* way, whatever a call probed past before it had the lock.
Probeable == \A h \in DOMAIN table : Probe(table[h].data, HashOf[table[h].data]) = h

\* The pages of the index cover each id in use exactly once, and only the last
\* page is not full: what select_gadget_id_to_hash computes with.
IndexTiles ==
  /\ {table[h].id : h \in DOMAIN table} = 1..MaxGadgetId
  /\ \A id \in 1..MaxGadgetId :
       Cardinality({k \in DOMAIN index : id \in (k - Len(index[k]) + 1)..k}) = 1
  /\ \A k \in DOMAIN index : k # MaxGadgetId => Len(index[k]) = IndexPage

\* A call that returns has the stored id of every gadget of its batch, whether
\* it was there, was inserted by this call or by another one meanwhile.
ReturnsStoredIds ==
  \A p \in Proc : pc[p] = "returned" =>
    \A d \in DOMAIN ids[p] : \E h \in DOMAIN table : table[h] = [data |-> d, id |-> ids[p][d]]

\* However calls overlap, collide and die: a gadget is stored once, found by
\* probing, counted once in the index, and returned under its stored id.
TableIntact == StoredOnce /\ Probeable /\ IndexTiles /\ ReturnsStoredIds

GadgetIds == [d \in {table[h].data : h \in DOMAIN table} |->
                table[CHOOSE h \in DOMAIN table : table[h].data = d].id]

\* The table is a store in which each gadget has one id for good.
Store == INSTANCE GadgetStore WITH ids <- GadgetIds

\* Every commit is the insertion of a batch of novel gadgets under the next
\* ids; everything else leaves the store as it is.
ImplementsStore == Store!Spec

\* The index leads from every id to the gadget with that id: "looked up hash
\* for id, but hashtable gives id" is never thrown.
IndexAgrees == \A id \in 1..MaxGadgetId : Selects(id)
=============================================================================
