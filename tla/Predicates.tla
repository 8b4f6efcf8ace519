----------------------------- MODULE Predicates -----------------------------
(***************************************************************************)
(* predicates.cpp: for a threshold k, the predicate "statistic <= k" holds *)
(* the ids of the gadgets whose statistic is at most k, among the ids      *)
(* below valid_before.  A process that extends the predicates or creates   *)
(* one reads a snapshot, computes for a long time without a lock, and      *)
(* commits in a write transaction.  Other processes insert gadgets and     *)
(* commit predicates meanwhile, and a computation may fail.                *)
(*                                                                         *)
(* The six statistics of a gadget are treated alike; one is modelled.  An  *)
(* interval list is the set of its ids.                                    *)
(***************************************************************************)
EXTENDS Integers, Sequences, FiniteSets, Functions

CONSTANTS
  Proc,          \* driver and tool processes
  MaxId,         \* bound on the gadgets ever inserted
  Stat,          \* Stat[id]: the statistic of the gadget, fixed by its data
  InitialKeys,   \* the keys of initialize_predicates_database
  Requests,      \* the lists of keys that callers ask create_predicates for
  MaxLost        \* bound on the ids that failing tasks leave out

ASSUME PredicatesAssumption ==
  /\ MaxId \in Nat /\ Stat \in [1..MaxId -> Nat]
  /\ InitialKeys \subseteq Nat /\ IsFiniteSet(InitialKeys)
  /\ \A r \in Requests : r \in Seq(Nat) /\ IsInjective(r)
  /\ MaxLost \in Nat

VARIABLES
  create_alone,  \* whether the users keep every other predicate operation
                 \* from overlapping with one that creates or removes keys
  max_id,        \* the largest gadget id in the database
  valid_before,  \* the key valid_before
  pred,          \* pred[k]: the ids of the key k, for the keys that exist
  pc,            \* where each process is
  demand,        \* its PredicateDemand
  result,        \* its PredicateUpdateResult
  lost           \* the ids that failing tasks have ever left out of a result

db == <<valid_before, pred>>
vars == <<create_alone, max_id, db, pc, demand, result, lost>>

Key == InitialKeys \cup UNION {Range(r) : r \in Requests}
NoDemand == [first |-> 0, end |-> 0, keys |-> <<>>, create |-> FALSE]

\* The lists of the keys K, each once.
Listings(K) == {s \in [1..Cardinality(K) -> K] : Range(s) = K}

Ascending(s) == \A i, j \in 1..Len(s) : i < j => s[i] < s[j]

\* The elements of s are in the order they have in r.
OrderedAs(s, r) ==
  \A i, j \in 1..Len(s) : i < j => \E a, b \in 1..Len(r) : a < b /\ r[a] = s[i] /\ r[b] = s[j]

\* The ids that the predicate k is meant to hold.
Matching(k, end) == {id \in 1..(end - 1) : Stat[id] <= k}

Init ==
  /\ create_alone \in BOOLEAN
  /\ max_id = 0 /\ valid_before = 1
  /\ pred = [k \in InitialKeys |-> {}]
  /\ pc = [p \in Proc |-> "idle"]
  /\ demand = [p \in Proc |-> NoDemand]
  /\ result = [p \in Proc |-> <<>>]
  /\ lost = {}

\* Any process that inserts gadgets.
insert_gadget ==
  /\ max_id < MaxId
  /\ max_id' = max_id + 1
  /\ UNCHANGED <<create_alone, db, pc, demand, result, lost>>

-----------------------------------------------------------------------------
(* What keeps operations apart when create_alone holds.                    *)

Quiet == \A p \in Proc : pc[p] = "idle"
MayUpdate == create_alone => \A p \in Proc : pc[p] = "idle" \/ ~demand[p].create
MayCreate == create_alone => Quiet

Goto(p, where, d) ==
  /\ pc' = [pc EXCEPT ![p] = where]
  /\ demand' = [demand EXCEPT ![p] = d]
  /\ UNCHANGED <<result, lost>>

Finish(p, how) == pc' = [pc EXCEPT ![p] = how]

\* The caller takes the return value, or the exception ends it, and the
\* process is free for the next call.
return(p) ==
  /\ pc[p] \in {"updated", "current", "threw"}
  /\ Goto(p, "idle", NoDemand)
  /\ UNCHANGED <<create_alone, max_id, db>>

-----------------------------------------------------------------------------
(* The read transactions.                                                  *)

\* Mutant: the id asked for is not limited to the gadgets that exist.
DiscoverUnlimited(p, asked) ==
  /\ pc[p] = "idle" /\ MayUpdate
  /\ asked > valid_before
  /\ \E keys \in Listings(DOMAIN pred) :
       /\ Ascending(keys)
       /\ Goto(p, "compute", [first |-> valid_before, end |-> asked, create |-> FALSE, keys |-> keys])
  /\ UNCHANGED <<create_alone, max_id, db>>

\* update_SL_predicates_discover: everything from valid_before up to the id
\* asked for, as far as gadgets exist, for the keys that exist, sorted.
update_SL_predicates_discover(p, asked) ==
  LET end == IF asked < max_id + 1 THEN asked ELSE max_id + 1
  IN  /\ pc[p] = "idle" /\ MayUpdate
      /\ \/ /\ end <= valid_before
            /\ Goto(p, "current", NoDemand)
         \/ /\ end > valid_before
            /\ \E keys \in Listings(DOMAIN pred) :
                 /\ Ascending(keys)
                 /\ Goto(p, "compute",
                         [first |-> valid_before, end |-> end, create |-> FALSE, keys |-> keys])
      /\ UNCHANGED <<create_alone, max_id, db>>

\* The first half of create_predicates.  The list is taken in the caller's
\* order.
create_predicates(p, required) ==
  LET missing == Range(required) \ DOMAIN pred
      create(keys) == [first |-> 1, end |-> valid_before, create |-> TRUE, keys |-> keys]
  IN  /\ pc[p] = "idle" /\ MayCreate
      /\ \/ /\ valid_before = 1
            /\ Goto(p, "create_empty", create(required))
         \/ /\ valid_before # 1 /\ missing = {}
            /\ Goto(p, "current", create(required))
         \/ /\ valid_before # 1 /\ missing # {}
            /\ \E keys \in Listings(missing) :
                 OrderedAs(keys, required) /\ Goto(p, "compute", create(keys))
      /\ UNCHANGED <<create_alone, max_id, db>>

-----------------------------------------------------------------------------
(* The result, from gadgets that no longer change.                         *)

\* A range of a list of n keys: how many keys are before it and in it.
KeyRange(n) == {w \in (0..n) \X (0..n) : w[1] + w[2] <= n}

\* lower_bound: a binary search for the first key that is not below datum.
LowerBound(keys, datum) ==
  LET search[w \in KeyRange(Len(keys))] ==
        LET middle == w[1] + w[2] \div 2 + 1
        IN  IF w[2] = 0 THEN w[1] + 1
            ELSE IF keys[middle] < datum THEN search[<<middle, w[1] + w[2] - middle>>]
                                         ELSE search[<<w[1], w[2] \div 2>>]
  IN  search[<<0, Len(keys)>>]

\* A gadget is counted at one key; a key then takes over what the keys before
\* it in the list have.
\* Mutant: the keys before it are left out.
EqualOnly(d, ids) ==
  [i \in 1..Len(d.keys) |-> {id \in ids : LowerBound(d.keys, Stat[id]) = i}]

Accumulate(d, ids) ==
  [i \in 1..Len(d.keys) |-> {id \in ids : LowerBound(d.keys, Stat[id]) <= i}]

\* The sequential scan and the random accesses find the same gadgets, in
\* several tasks by hash or by id.  transform_reduce only waits for the futures
\* of its threads: when a task throws (a read transaction too many, say), its
\* gadgets and those of every task that was to be merged with it are missed,
\* and what reached the root of the tree is the result.
meet_update_demand(p, missed) ==
  LET ids == {id \in demand[p].first..(demand[p].end - 1) : id <= max_id}
  IN  /\ pc[p] = "compute"
      /\ missed \subseteq ids /\ Cardinality(lost \cup missed) <= MaxLost
      /\ result' = [result EXCEPT ![p] = Accumulate(demand[p], ids \ missed)]
      /\ lost' = lost \cup missed
      /\ pc' = [pc EXCEPT ![p] = "commit"]
      /\ UNCHANGED <<create_alone, max_id, db, demand>>

\* The only task throws in the thread of the caller, nothing at all reached the
\* root and the process dies of it, or the write transaction does not commit.
operation_fails(p) ==
  /\ pc[p] \in {"compute", "commit", "create_empty"}
  /\ Finish(p, "threw")
  /\ result' = [result EXCEPT ![p] = <<>>]
  /\ UNCHANGED <<create_alone, max_id, db, demand, lost>>

-----------------------------------------------------------------------------
(* The write transactions.                                                 *)

\* Mutant: the new ids take the place of the old ones.
PutOver(d, r, k) ==
  IF k \in Range(d.keys) THEN r[CHOOSE j \in 1..Len(d.keys) : d.keys[j] = k] ELSE pred[k]

\* What becomes of the value of key k when d and its result r are committed.
Put(d, r, k) ==
  LET i == CHOOSE j \in 1..Len(d.keys) : d.keys[j] = k
  IN  IF k \notin Range(d.keys) THEN pred[k]
      ELSE IF k \notin DOMAIN pred THEN r[i]
      ELSE IF d.end = valid_before THEN pred[k] ELSE pred[k] \cup r[i]

Written(d, r) ==
  \E i \in 1..Len(d.keys) :
    d.keys[i] \notin DOMAIN pred \/ (d.end > valid_before /\ r[i] # {})

\* Mutant: a result older than the database is committed too.
CommitAnyway(p) ==
  LET d == demand[p]
      r == result[p]
  IN  /\ pc[p] = "commit"
      /\ valid_before' = d.end
      /\ pred' = [k \in DOMAIN pred \cup Range(d.keys) |-> Put(d, r, k)]
      /\ Finish(p, IF Written(d, r) THEN "updated" ELSE IF d.create THEN "threw" ELSE "current")
      /\ result' = [result EXCEPT ![p] = <<>>]
      /\ UNCHANGED <<create_alone, max_id, demand, lost>>

\* Mutant: the keys are written but not valid_before.
CommitKeysOnly(p) ==
  LET d == demand[p]
      r == result[p]
  IN  /\ pc[p] = "commit"
      /\ pred' = IF d.end < valid_before THEN pred
                 ELSE [k \in DOMAIN pred \cup Range(d.keys) |-> Put(d, r, k)]
      /\ Finish(p, IF Written(d, r) THEN "updated" ELSE IF d.create THEN "threw" ELSE "current")
      /\ result' = [result EXCEPT ![p] = <<>>]
      /\ UNCHANGED <<create_alone, max_id, valid_before, demand, lost>>

\* update_SL_predicates_commit.  A caller that creates takes "not updated"
\* for a failed speculation and throws.
update_SL_predicates_commit(p) ==
  LET d == demand[p]
      r == result[p]
      unchanged == IF d.create THEN "threw" ELSE "current"
  IN  /\ pc[p] = "commit"
      /\ \/ /\ d.end < valid_before
            /\ Finish(p, unchanged)
            /\ UNCHANGED db
         \/ /\ d.end >= valid_before
            /\ valid_before' = d.end
            /\ pred' = [k \in DOMAIN pred \cup Range(d.keys) |-> Put(d, r, k)]
            /\ Finish(p, IF Written(d, r) THEN "updated" ELSE unchanged)
      /\ result' = [result EXCEPT ![p] = <<>>]
      /\ UNCHANGED <<create_alone, max_id, demand, lost>>

\* The second half of create_predicates when nothing was ever updated.
create_empty(p) ==
  /\ pc[p] = "create_empty"
  /\ pred' = [k \in DOMAIN pred \cup Range(demand[p].keys) |->
                IF k \in DOMAIN pred THEN pred[k] ELSE {}]
  /\ Finish(p, "updated")
  /\ UNCHANGED <<create_alone, max_id, valid_before, demand, result, lost>>

\* --delete and --reinitialize of the predicates mode.
delete(p, k) ==
  /\ pc[p] = "idle" /\ MayCreate
  /\ k \in DOMAIN pred
  /\ pred' = [j \in DOMAIN pred \ {k} |-> pred[j]]
  /\ UNCHANGED <<create_alone, max_id, valid_before, pc, demand, result, lost>>

reinitialize(p) ==
  /\ pc[p] = "idle" /\ MayCreate
  /\ valid_before' = 1
  /\ pred' = [k \in InitialKeys |-> {}]
  /\ UNCHANGED <<create_alone, max_id, pc, demand, result, lost>>

Next ==
  \/ insert_gadget
  \/ \E p \in Proc :
       \/ \E asked \in 1..(MaxId + 1) : update_SL_predicates_discover(p, asked)
       \/ \E required \in Requests : create_predicates(p, required)
       \/ \E missed \in SUBSET (1..MaxId) : meet_update_demand(p, missed)
       \/ operation_fails(p)
       \/ update_SL_predicates_commit(p)
       \/ create_empty(p)
       \/ \E k \in Key : delete(p, k)
       \/ reinitialize(p)
       \/ return(p)

Spec == Init /\ [][Next]_vars

-----------------------------------------------------------------------------
(* What the driver makes of the predicates.                                *)

\* The key that a minimum on the command line is stored with: the pair is
\* made from the value as it was given, and only then is the value decremented.
min_spec(value) == value

\* apply_predicates, when no key is missing.
apply_predicates(candidates, mins, maxs) ==
  {id \in candidates : /\ \A m \in mins : id \notin pred[m]
                       /\ \A m \in maxs : id \in pred[m]}

-----------------------------------------------------------------------------
(* Properties.                                                             *)

\* Every process is at a step of one of the operations, and the index never
\* claims ids that no gadget has.
TypeOK ==
  /\ max_id \in 0..MaxId /\ valid_before \in 1..(max_id + 1)
  /\ DOMAIN pred \subseteq Key /\ \A k \in DOMAIN pred : pred[k] \subseteq 1..max_id
  /\ pc \in [Proc -> {"idle", "create_empty", "compute", "commit", "updated", "current", "threw"}]
  /\ \A p \in Proc : Len(result[p]) \in {0, Len(demand[p].keys)}

\* Each predicate holds exactly the ids below valid_before whose statistic is
\* at most its key: what filter_unary and discover_needs_combine rely on.
Exact == \A k \in DOMAIN pred : pred[k] = Matching(k, valid_before)

\* However many processes update the predicates at once, however their commits
\* fall and whatever fails, a predicate has every id it should but those that a
\* failing task once left out (for the commit advances valid_before all the same,
\* against the comment of predicates.cpp:345, "update SL predicates through given
\* id"), and none it should not, provided that nobody creates or removes a key
\* meanwhile.  (The keys of a request in the order the
\* driver has them; in another order the binary search goes astray.)
ExactWhenAlone ==
  create_alone =>
    \A k \in DOMAIN pred :
      /\ Matching(k, valid_before) \ lost \subseteq pred[k]
      /\ pred[k] \subseteq Matching(k, valid_before)

\* No predicate ever holds an id it should not, or one that valid_before does
\* not cover yet, even when operations that create, delete and reinitialize
\* keys overlap with updates.
Sound == \A k \in DOMAIN pred : pred[k] \subseteq Matching(k, valid_before)

\* When update_predicates returns by way of its commit, the predicates are
\* valid up to the id asked for, whether this process or another one did it;
\* when create_predicates returns normally, each key it was to create exists.
Suffices ==
  [][\A p \in Proc : pc[p] \in {"commit", "create_empty"} /\ pc'[p] # pc[p] =>
       /\ ~demand[p].create /\ pc'[p] # "threw" => valid_before' >= demand[p].end
       /\ demand[p].create /\ pc'[p] = "updated" => Range(demand[p].keys) \subseteq DOMAIN pred']_vars

\* The predicates lose validity or a key only by --reinitialize and --delete,
\* never because an older result is committed late; a key never loses ids.
NothingLost ==
  [][\/ \E p \in Proc : reinitialize(p)
     \/ \E p \in Proc, k \in Key : delete(p, k)
     \/ /\ valid_before' >= valid_before
        /\ \A k \in DOMAIN pred : k \in DOMAIN pred' /\ pred[k] \subseteq pred'[k]]_vars

\* --min v keeps the gadgets whose statistic is v or more: the comments of
\* toggles-driver.cpp:218 and 888 say that 1 was subtracted from the value, so
\* that "statistic <= v - 1" is what is taken away.  The code refutes it: the
\* key is v, and a gadget of exactly the minimum is taken away too.
MinimumKept ==
  create_alone =>
    \A v \in Key : min_spec(v) \in DOMAIN pred =>
      {id \in 1..(valid_before - 1) : Stat[id] >= v}
        \subseteq apply_predicates(1..(valid_before - 1), {min_spec(v)}, {})

\* What the driver may take the predicates for: exact while keys are created and
\* removed by one process at a time and no task fails, never with an id too many
\* in any case.
PredicatesExact == Sound /\ ExactWhenAlone
=============================================================================
