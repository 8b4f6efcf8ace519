---------------------------- MODULE Report_proofs -----------------------------
(***************************************************************************)
(* Proofs about Report, for any database, options, rights and runners that *)
(* fail: TypeOK, OutcomeJustified and DerivationsCorrect.                  *)
(***************************************************************************)
EXTENDS Report, NumberInduction, SequenceTheorems, TLAPS

-----------------------------------------------------------------------------
(* The inductive invariant.                                                *)

\* The step that follows the edges of a table.
StepOf(t) == IF t \in Simple THEN "closemirror" ELSE t[1]

Provs == UNION {[set -> ProvType] : set \in SUBSET Gadget}
Outputs(ps) == {p.output : p \in ps}
Known == DOMAIN edge_cache \cup Outputs(batch)

\* The types, and which sets of gadgets have been reached.
Types ==
  /\ TypeOK
  /\ awaiting \in [Step -> SUBSET Gadget]
  /\ Source \subseteq closed /\ Source \subseteq DOMAIN edge_cache
  /\ DOMAIN edge_cache \subseteq closed /\ DOMAIN target_cache \subseteq Gadget
  /\ pool \subseteq closed
  /\ \A t \in Table : Done[t] \subseteq done[t]

\* What each step of the loop and of record_closed leaves empty, and what is
\* still awaited.
Where ==
  /\ pc \in Step => \A t \in todo : StepOf(t) = pc
  /\ \A t \in todo : t[2] \in pool \cup {0}
  /\ <<"close", 0>> \in todo /\ ~opt.skip_mirror => <<"mirror", 0>> \in todo
  /\ pc \in {"start", "loop", "completed"} => todo = {}
  /\ pc \notin Step => possible = {} /\ record = "no"
  /\ pc \notin {"connect", "combine", "terminated"} => next = {}
  /\ record # "no" => possible = {}
  /\ record \in {"no", "end"} => found = {}
  /\ record \notin {"runner", "deleted-locations"} => batch = {}
  /\ record # "runner" => requests = {}
  /\ possible # {} => todo # {} /\ awaiting[pc] \cap Done[Foremost(todo)] \subseteq possible
  /\ pc = "start" => closed = Source
  /\ pc = "completed" => \A k \in Step : awaiting[k] = {}
  /\ pool = {} => /\ pc \in {"start", "loop", "closemirror", "terminated"}
                  /\ closed \subseteq awaiting.combine
                  /\ pc \in {"start", "loop"} => awaiting.closemirror # {}

\* What has been reached before the i-th entry of the provenances, and the edges
\* in a database with the completions dn.
Upto(pr, i) == Source \cup UNION {DOMAIN pr[j] : j \in 1..(i - 1)}
EdgesIn(t, dn) == {e \in Makes[t] : e[1] \in dn[t]}

\* ProvenanceFounded, with the rights of the step that discovered a gadget.
FoundedBy(pr, cl, rights, dn) ==
  /\ pr \in Seq(Provs) /\ cl = Upto(pr, Len(pr) + 1)
  /\ \A i \in DOMAIN pr :
       /\ DOMAIN pr[i] \cap Upto(pr, i) = {}
       /\ \A g \in DOMAIN pr[i] :
            /\ pr[i][g].input \in Upto(pr, i)
            /\ \E t \in Table : /\ t[2] \in rights \cup {0}
                                /\ pr[i][g] = Prov(t[1], g, pr[i][g].input, 0)
                                /\ <<pr[i][g].input, g>> \in EdgesIn(t, dn)

Founded == FoundedBy(prov, closed, pool, done)

\* The inputs whose edges of table t are still to be followed.
Open(t) ==
  IF pc = StepOf(t) THEN next \cup (IF t \in todo THEN awaiting[StepOf(t)] ELSE {})
  ELSE awaiting[StepOf(t)]

FollowedFrom(t, g, cl) == g \in Done[t] => \A e \in Makes[t] : e[1] = g => e[2] \in cl

\* What has been reached is awaited, or all its edges have been followed.
Followed ==
  pc # "terminated" =>
    \A t \in Following : \A g \in closed \ (IF t \in Simple THEN MirrorImages ELSE {}) :
      g \in Open(t) \/ FollowedFrom(t, g, closed)

\* The edge that a gadget is derived by, with its right: what it is made from has
\* been reached, and the database has the edge.
FromClosed(p, g) ==
  /\ p \in ProvType /\ p.output = g /\ p.input \in closed /\ inputs(p) \subseteq closed
  /\ p.kind # "source" /\ (p.kind = "combine") = (p.right # 0)
  /\ TableOf(p) \in Table /\ <<p.input, g>> \in Edges(TableOf(p))

\* What is cached or about to be cached can be traced back, unless a runner failed.
Traced ==
  /\ \A p \in batch : TableOf(p) \in Skinny /\ FromClosed(p, p.output) /\ p.output \in closed
  /\ dellocs \cap Outputs(batch) = {}
  /\ record = "runner" => \A p \in batch : HasFullEdge(p, filled) \/ TableOf(p) \in requests
  /\ record = "deleted-locations" => Outputs(batch) \subseteq DOMAIN edge_cache
  /\ faults = 0 =>
       /\ \A g \in DOMAIN edge_cache :
            /\ inputs(edge_cache[g]) \subseteq Known
            /\ TableOf(edge_cache[g]) \in Skinny /\ g \in Deleting => g \in dellocs \cup Outputs(batch)
       /\ \A p \in batch : inputs(p) \subseteq Known
       /\ record \notin {"no", "trace"} => found \subseteq Known

\* Each target that has been reached is reported, unless a runner failed.
Reported ==
  faults = 0 /\ pc # "terminated" =>
    \A g \in ((closed \ Source) \cap DOMAIN target_cache) \ found :
      /\ Sortable(edge_cache, g)
      /\ Derivation(g) \in printed \/ toposort_provs(target_cache, g) = toposort_provs(edge_cache, g)

IInv == Types /\ Where /\ Founded /\ Followed /\ Traced /\ Reported /\ GivesUpForCause

\* Closure is the least set that has set and the inputs of its members.
LEMMA ClosureIsLeast ==
  ASSUME NEW c, NEW set, IsFiniteSet(DOMAIN c)
  PROVE  /\ set \subseteq Closure(c, set)
         /\ \A g \in Closure(c, set) \cap DOMAIN c : inputs(c[g]) \subseteq Closure(c, set)
         /\ \A s : set \subseteq s /\ (\A g \in s \cap DOMAIN c : inputs(c[g]) \subseteq s) =>
              Closure(c, set) \subseteq s
  <1> DEFINE D == DOMAIN c
             Up(s) == UNION {{g} \cup (IF g \in D THEN inputs(c[g]) ELSE {}) : g \in s}
             All == set \cup UNION {inputs(c[g]) : g \in D}
             S == SUBSET All
             F == [s \in S |-> Up(s)]
             N == Cardinality(D)
  <1>1. \A s, g : g \in Up(s) <=> g \in s \/ \E h \in s \cap D : g \in inputs(c[h])
    OBVIOUS
  <1>2. F \in [S -> S] /\ set \in S
    <2> SUFFICES ASSUME NEW s \in S PROVE Up(s) \in S
      OBVIOUS
    <2> HIDE DEF Up
    <2>1. QED BY <1>1
  <1>3. PICK f \in [Nat -> S] : f[0] = set /\ \A n \in Nat : f[n + 1] = Up(f[n])
    <2> HIDE DEF F, S, All
    <2>1. PICK f : Iterates(f, S, F, set)
      <3> HIDE DEF Up, D, N
      <3>1. QED BY <1>2, Iteration
    <2>2. \A n \in Nat : F[f[n]] = Up(f[n])
      BY <2>1 DEF F, Iterates
    <2>3. QED BY <2>1, <2>2 DEF Iterates
  <1>4. f = [n \in Nat |-> IF n = 0 THEN set ELSE Up(f[n - 1])]
    <2> HIDE DEF Up, S
    <2>1. \A n \in Nat : f[n] = IF n = 0 THEN set ELSE Up(f[n - 1])
      <3> SUFFICES ASSUME NEW n \in Nat, n # 0 PROVE f[n] = Up(f[n - 1])
        BY <1>3
      <3>1. n - 1 \in Nat /\ (n - 1) + 1 = n
        OBVIOUS
      <3>2. QED BY <3>1, <1>3
    <2>2. QED BY <2>1, <1>3
  <1> DEFINE up == CHOOSE u : u = [n \in Nat |-> IF n = 0 THEN set ELSE Up(u[n - 1])]
  <1>5. up = [n \in Nat |-> IF n = 0 THEN set ELSE Up(up[n - 1])]
    <2> HIDE DEF Up
    <2>1. QED BY <1>4
  <1>6. /\ up[0] = set
        /\ \A n \in Nat : up[n + 1] = Up(up[n])
    <2> HIDE DEF Up, up
    <2>1. up[0] = set
      BY <1>5
    <2>2. \A n \in Nat : n + 1 \in Nat /\ n + 1 # 0 /\ (n + 1) - 1 = n
      OBVIOUS
    <2>3. ASSUME NEW n \in Nat PROVE up[n + 1] = Up(up[n])
      BY <1>5, <2>2
    <2>4. QED BY <2>1, <2>3
  <1>7. Closure(c, set) = up[N]
    BY DEF Closure
  <1> HIDE DEF up, Up, F, S, All
  <1>8. N \in Nat /\ IsFiniteSet(D) /\ N = Cardinality(D)
    BY FS_CardinalityType
  <1> HIDE DEF D, N
  <1>9. \A n \in Nat : up[n] \subseteq up[n + 1]
    BY <1>1, <1>6
  <1>10. set \subseteq up[N]
    <2> DEFINE T == {n \in Nat : set \subseteq up[n]}
    <2>1. 0 \in T /\ \A n \in Nat : n \in T => n + 1 \in T
      BY <1>6, <1>9
    <2> HIDE DEF T
    <2>2. N \in T
      BY <2>1, <1>8, InductionOnNumbers
    <2>3. QED BY <2>2 DEF T
  <1>11. ASSUME NEW s, set \subseteq s, \A g \in s \cap D : inputs(c[g]) \subseteq s
         PROVE  up[N] \subseteq s
    <2> DEFINE T == {n \in Nat : up[n] \subseteq s}
    <2>1. 0 \in T
      BY <1>6, <1>11
    <2>2. \A n \in Nat : n \in T => n + 1 \in T
      BY <1>1, <1>6, <1>11
    <2> HIDE DEF T
    <2>3. N \in T
      BY <2>1, <2>2, <1>8, InductionOnNumbers
    <2>4. QED BY <2>3 DEF T
  \* Each step adds a key of c, until nothing new is added.
  <1>12. up[N + 1] = up[N]
    <2> DEFINE T == {n \in Nat : up[n + 1] = up[n] \/ Cardinality(up[n] \cap D) >= n + 1}
    <2>1. \A n \in Nat : IsFiniteSet(up[n] \cap D) /\ Cardinality(up[n] \cap D) \in Nat /\ Cardinality(up[n] \cap D) <= N
      <3> SUFFICES ASSUME NEW n \in Nat
                   PROVE  IsFiniteSet(up[n] \cap D) /\ Cardinality(up[n] \cap D) \in Nat /\ Cardinality(up[n] \cap D) <= N
        OBVIOUS
      <3>1. up[n] \cap D \subseteq D
        OBVIOUS
      <3>2. QED BY <3>1, <1>8, FS_Subset, FS_CardinalityType
    <2>2. 0 \in T
      <3>1. CASE up[0] \cap D = {}
        <4>1. \A g : g \in up[1] => g \in up[0]
          BY <3>1, <1>1, <1>6
        <4>2. 0 \in Nat /\ 0 + 1 = 1
          OBVIOUS
        <4>3. up[0] \subseteq up[1]
          BY <4>2, <1>9
        <4>4. up[1] = up[0]
          BY <4>1, <4>3
        <4>5. QED BY <4>2, <4>4
      <3>2. CASE up[0] \cap D # {}
        <4>1. Cardinality(up[0] \cap D) # 0
          BY <3>2, <2>1, FS_EmptySet
        <4>2. QED BY <4>1, <2>1
      <3>3. QED BY <3>1, <3>2
    <2>3. ASSUME NEW n \in Nat, n \in T PROVE n + 1 \in T
      <3>1. CASE up[n + 1] = up[n]
        BY <3>1, <1>6
      <3>2. CASE up[n + 1] # up[n] /\ up[n + 1] \cap D = up[n] \cap D
        <4>1. up[(n + 1) + 1] = up[n + 1]
          <5>1. n + 1 \in Nat
            OBVIOUS
          <5>2. up[(n + 1) + 1] = Up(up[n + 1]) /\ up[n + 1] = Up(up[n])
            BY <1>6, <5>1
          <5>3. \A g : g \in Up(up[n + 1]) => g \in Up(up[n]) \/ g \in up[n + 1]
            BY <1>1, <3>2
          <5>4. up[n + 1] \subseteq up[(n + 1) + 1]
            BY <5>1, <1>9
          <5>5. QED BY <5>2, <5>3, <5>4
        <4>2. QED BY <4>1
      <3>3. CASE up[n + 1] # up[n] /\ up[n + 1] \cap D # up[n] \cap D
        <4> DEFINE A == up[n] \cap D
                   B == up[n + 1] \cap D
        <4>1. A \subseteq B /\ A # B
          BY <3>3, <1>9
        <4>2. Cardinality(A) < Cardinality(B)
          <5>1. IsFiniteSet(B) /\ IsFiniteSet(A)
            BY <2>1
          <5> HIDE DEF A, B
          <5>2. Cardinality(A) <= Cardinality(B) /\ (Cardinality(A) = Cardinality(B) => A = B)
            BY <4>1, <5>1, FS_Subset
          <5>3. Cardinality(A) \in Nat /\ Cardinality(B) \in Nat
            BY <5>1, FS_CardinalityType
          <5>4. QED BY <4>1, <5>2, <5>3
        <4>3. Cardinality(A) >= n + 1 /\ Cardinality(A) \in Nat /\ Cardinality(B) \in Nat
          <5>1. Cardinality(A) >= n + 1
            BY <2>3, <3>3
          <5>2. n + 1 \in Nat
            OBVIOUS
          <5>3. QED BY <2>1, <5>1, <5>2
        <4>4. QED BY <4>2, <4>3
      <3>4. QED BY <3>1, <3>2, <3>3
    <2> HIDE DEF T
    <2>4. N \in T
      BY <2>2, <2>3, <1>8, InductionOnNumbers
    <2>5. ~ (Cardinality(up[N] \cap D) >= N + 1)
      <3> DEFINE k == Cardinality(up[N] \cap D)
      <3>1. k \in Nat /\ k <= N
        BY <2>1, <1>8
      <3> HIDE DEF k
      <3>2. ~ (k >= N + 1)
        BY <3>1, <1>8
      <3>3. QED BY <3>2 DEF k
    <2>6. QED BY <2>4, <2>5 DEF T
  <1>13. \A g \in up[N] \cap D : inputs(c[g]) \subseteq up[N]
    BY <1>1, <1>6, <1>8, <1>12
  <1>14. set \subseteq up[N] /\ \A g \in up[N] \cap DOMAIN c : inputs(c[g]) \subseteq up[N]
    BY <1>10, <1>13 DEF D
  <1>15. \A s : set \subseteq s /\ (\A g \in s \cap DOMAIN c : inputs(c[g]) \subseteq s) => up[N] \subseteq s
    BY <1>11 DEF D
  <1>16. QED BY <1>7, <1>14, <1>15

\* The tables.
LEMMA Tables ==
  /\ Rights \subseteq Gadget /\ 0 \notin Gadget /\ Gadget \subseteq Nat
  /\ Table = Simple \cup Skinny
  /\ \A t \in Table : t \in {<<"close", 0>>, <<"mirror", 0>>, <<"connect", 0>>} \/ \E r \in Rights : t = <<"combine", r>>
  /\ \A t \in Table : StepOf(t) \in Step
  /\ \A t \in Table : t[1] = "combine" => t[2] \in Rights /\ t = <<"combine", t[2]>>
  /\ \A t \in Table : t[1] # "combine" => t[2] = 0 /\ t = <<t[1], 0>>
  <1>1. Rights \subseteq Gadget
    BY ReportAssumption DEF Rights, Range
  <1>2. 0 \notin Gadget /\ Gadget \subseteq Nat
    BY ReportAssumption
  <1>3. Table = Simple \cup Skinny
    BY DEF Table
  <1>4. \A t \in Table : t \in {<<"close", 0>>, <<"mirror", 0>>, <<"connect", 0>>} \/ \E r \in Rights : t = <<"combine", r>>
    BY DEF Table, Simple, Skinny
  <1>5. \A t \in Table : StepOf(t) \in Step
    BY DEF StepOf, Step, Table, Simple, Skinny
  <1>6. \A t \in Table : t[1] = "combine" => t[2] \in Rights /\ t = <<"combine", t[2]>>
    BY <1>4
  <1>7. \A t \in Table : t[1] # "combine" => t[2] = 0 /\ t = <<t[1], 0>>
    BY <1>4
  <1>8. QED BY <1>1, <1>2, <1>3, <1>4, <1>5, <1>6, <1>7

LEMMA ForemostOf ==
  ASSUME NEW ts, ts \subseteq Table, ts # {}
  PROVE  Foremost(ts) \in ts /\ \A u \in ts : Turn(Foremost(ts)) <= Turn(u)
  <1>1. \A t \in ts : Turn(t) \in Nat
    <2> SUFFICES ASSUME NEW t \in ts PROVE Turn(t) \in Nat
      OBVIOUS
    <2>1. CASE t[1] = "combine"
      <3>1. t[2] \in Rights
        BY <2>1, Tables
      <3>2. \E i \in DOMAIN RightOrder : RightOrder[i] = t[2]
        BY <3>1 DEF Rights, Range
      <3>3. DOMAIN RightOrder \subseteq Nat
        BY ReportAssumption
      <3>4. QED BY <2>1, <3>2, <3>3 DEF Turn
    <2>2. CASE t[1] # "combine"
      BY <2>2 DEF Turn
    <2>3. QED BY <2>1, <2>2
  <1> DEFINE T == {Turn(t) : t \in ts}
  <1>2. T \subseteq Nat /\ T # {}
    BY <1>1
  <1>3. \E x \in T : \A y \in T : x <= y
    <2> HIDE DEF T
    <2>1. QED BY <1>2, LeastNumber
  <1>4. \E t \in ts : \A u \in ts : Turn(t) <= Turn(u)
    BY <1>3
  <1>5. QED BY <1>4 DEF Foremost

\* try_emplace keeps what is cached.
LEMMA CachedIs ==
  ASSUME NEW ps
  PROVE  /\ DOMAIN Cached(ps) = DOMAIN edge_cache \cup Outputs(ps)
         /\ \A g \in DOMAIN edge_cache : Cached(ps)[g] = edge_cache[g]
         /\ \A g \in Outputs(ps) \ DOMAIN edge_cache : Cached(ps)[g] \in ps /\ Cached(ps)[g].output = g
  <1> DEFINE d == [g \in Outputs(ps) |-> CHOOSE p \in ps : p.output = g]
  <1>1. \A g \in Outputs(ps) : d[g] \in ps /\ d[g].output = g
    BY DEF Outputs
  <1>2. Cached(ps) = [g \in DOMAIN edge_cache \cup Outputs(ps) |-> IF g \in DOMAIN edge_cache THEN edge_cache[g] ELSE d[g]]
    BY DEF Cached, AddTo, Outputs
  <1>3. QED BY <1>1, <1>2

-----------------------------------------------------------------------------
(* What the provenances say of a gadget that has been reached.             *)

LEMMA UptoGrows ==
  ASSUME NEW pr \in Seq(Provs), NEW i \in DOMAIN pr
  PROVE  /\ DOMAIN pr = 1..Len(pr) /\ Len(pr) \in Nat
         /\ Upto(pr, i) \subseteq Upto(pr, Len(pr) + 1)
         /\ DOMAIN pr[i] \subseteq Upto(pr, Len(pr) + 1)
  <1>1. DOMAIN pr = 1..Len(pr) /\ Len(pr) \in Nat
    BY LenProperties
  <1>2. \A j \in 1..(i - 1) : j \in 1..((Len(pr) + 1) - 1)
    BY <1>1
  <1>3. i \in 1..((Len(pr) + 1) - 1)
    BY <1>1
  <1>4. QED BY <1>1, <1>2, <1>3 DEF Upto

LEMMA FoundProv ==
  ASSUME Types, Founded, NEW g \in closed \ Source
  PROVE  \E i \in DOMAIN prov : \E t \in Table :
           /\ g \in DOMAIN prov[i] /\ find_sp(g) = prov[i][g]
           /\ find_sp(g).input \in closed /\ t[2] \in pool \cup {0}
           /\ find_sp(g) = Prov(t[1], g, find_sp(g).input, 0)
           /\ <<find_sp(g).input, g>> \in Edges(t)
  <1>1. prov \in Seq(Provs) /\ closed = Upto(prov, Len(prov) + 1)
    BY DEF Founded, FoundedBy
  <1>2. DOMAIN prov = 1..Len(prov) /\ Len(prov) \in Nat
    BY <1>1, LenProperties
  <1>3. \E i \in DOMAIN prov : g \in DOMAIN prov[i]
    <2>1. (Len(prov) + 1) - 1 = Len(prov)
      BY <1>2
    <2>2. QED BY <1>1, <1>2, <2>1 DEF Upto
  <1>4. PICK i \in DOMAIN prov : g \in DOMAIN prov[i] /\ find_sp(g) = prov[i][g]
    BY <1>3 DEF find_sp
  <1>5. prov[i][g].input \in closed
    <2>1. prov[i][g].input \in Upto(prov, i)
      BY <1>4 DEF Founded, FoundedBy
    <2>2. Upto(prov, i) \subseteq Upto(prov, Len(prov) + 1)
      BY <1>1, UptoGrows
    <2>3. QED BY <1>1, <2>1, <2>2
  <1>6. PICK t \in Table : /\ t[2] \in pool \cup {0}
                           /\ prov[i][g] = Prov(t[1], g, prov[i][g].input, 0)
                           /\ <<prov[i][g].input, g>> \in EdgesIn(t, done)
    BY <1>4 DEF Founded, FoundedBy
  <1>7. EdgesIn(t, done) = Edges(t)
    BY DEF EdgesIn, Edges
  <1>8. QED BY <1>4, <1>5, <1>6, <1>7

LEMMA SpIs ==
  ASSUME Types, Founded, NEW g \in closed \ Source
  PROVE  /\ FromClosed(Recovered(find_sp(g)), g)
         /\ Recovered(find_sp(g)).kind = find_sp(g).kind /\ Recovered(find_sp(g)).input = find_sp(g).input
         /\ Recovered(find_sp(g)).right \in pool \cup {0}
  <1> DEFINE p == find_sp(g)
  <1>1. PICK t \in Table : /\ p.input \in closed /\ t[2] \in pool \cup {0}
                           /\ p = Prov(t[1], g, p.input, 0)
                           /\ <<p.input, g>> \in Edges(t)
    BY FoundProv
  <1>2. closed \subseteq Gadget /\ pool \subseteq closed /\ pool \subseteq Rights /\ 0 \notin Gadget /\ g \in Gadget
    BY Tables DEF Types, TypeOK
  <1> HIDE DEF p
  <1>3. p.kind = t[1] /\ p.output = g /\ p.right = 0
    BY <1>1 DEF Prov
  <1>4. CASE t[1] # "combine"
    <2>1. Recovered(p) = p
      BY <1>3, <1>4 DEF Recovered
    <2>2. t = <<p.kind, p.right>> /\ p.kind \in {"close", "mirror", "connect"}
      BY <1>3, <1>4, Tables
    <2>3. p \in ProvType
      BY <1>1, <1>2, <1>3, <2>2 DEF ProvType, Prov
    <2>4. inputs(p) \subseteq closed
      BY <1>1, <1>3 DEF inputs
    <2>5. TableOf(p) = t
      BY <2>2 DEF TableOf
    <2>6. FromClosed(p, g)
      BY <1>1, <1>3, <2>2, <2>3, <2>4, <2>5 DEF FromClosed
    <2>7. QED BY <1>3, <2>1, <2>6 DEF p
  <1>5. CASE t[1] = "combine"
    <2> DEFINE ts == {u \in Combining : <<p.input, p.output>> \in Edges(u)}
               r == Foremost(ts)[2]
               q == [p EXCEPT !.right = r]
    <2>1. t[2] \in Rights /\ t = <<"combine", t[2]>> /\ t[2] \in pool
      BY <1>1, <1>2, <1>5, Tables
    <2>2. ts # {} /\ ts \subseteq Table
      <3>1. t \in ts
        BY <1>1, <1>3, <2>1 DEF Combining
      <3>2. Combining \subseteq Table
        BY <1>2 DEF Combining, Table, Skinny
      <3>3. QED BY <3>1, <3>2
    <2>3. Foremost(ts) \in ts
      <3> HIDE DEF ts
      <3>1. QED BY <2>2, ForemostOf
    <2>4. PICK s \in pool : Foremost(ts) = <<"combine", s>> /\ <<p.input, p.output>> \in Edges(<<"combine", s>>)
      BY <2>3 DEF Combining
    <2>5. r = s
      BY <2>4
    <2>6. Recovered(p) = [p EXCEPT !.right = s]
      BY <1>3, <1>5, <2>5 DEF Recovered, recover_combine_right
    <2>7. [p EXCEPT !.right = s] = Prov("combine", g, p.input, s)
      BY <1>1, <1>5 DEF Prov
    <2> HIDE DEF ts, r, q
    <2>8. FromClosed(Prov("combine", g, p.input, s), g)
      <3>1. s \in Gadget /\ s \in closed /\ s \in Rights /\ s # 0
        BY <1>2, <2>4
      <3>2. Prov("combine", g, p.input, s) \in ProvType
        BY <1>1, <1>2, <3>1 DEF ProvType, Prov
      <3>3. TableOf(Prov("combine", g, p.input, s)) = <<"combine", s>>
        BY DEF TableOf, Prov
      <3>4. <<"combine", s>> \in Table
        BY <3>1 DEF Table, Skinny
      <3>5. inputs(Prov("combine", g, p.input, s)) \subseteq closed
        BY <1>1, <3>1 DEF inputs, Prov
      <3>6. <<p.input, g>> \in Edges(<<"combine", s>>)
        BY <1>3, <2>4
      <3>7. QED BY <1>1, <3>1, <3>2, <3>3, <3>4, <3>5, <3>6 DEF FromClosed, Prov
    <2>9. Recovered(p) = Prov("combine", g, p.input, s) /\ p.kind = "combine"
      BY <1>3, <1>5, <2>6, <2>7
    <2>10. Recovered(p).kind = p.kind /\ Recovered(p).input = p.input /\ Recovered(p).right = s
      BY <2>9 DEF Prov
    <2>11. QED BY <2>4, <2>8, <2>9, <2>10 DEF p
  <1>6. QED BY <1>4, <1>5

\* What is traced is what is known, and its edges.
LEMMA TraceIs ==
  ASSUME Types, Founded, found \subseteq closed
  PROVE  /\ \A p \in Trace(found) : FromClosed(p, p.output) /\ p.output \in closed \ DOMAIN edge_cache
         /\ found \subseteq DOMAIN edge_cache \cup Outputs(Trace(found))
         /\ \A p \in Trace(found) : inputs(p) \subseteq DOMAIN edge_cache \cup Outputs(Trace(found))
  <1> DEFINE sp == [g \in closed \ DOMAIN edge_cache |-> Recovered(find_sp(g))]
             C == Closure(sp, found)
  <1>1. \A g \in DOMAIN sp : FromClosed(sp[g], g)
    BY SpIs DEF Types
  <1>2. IsFiniteSet(DOMAIN sp) /\ DOMAIN sp = closed \ DOMAIN edge_cache
    <2>1. closed \ DOMAIN edge_cache \subseteq Gadget /\ IsFiniteSet(Gadget)
      BY ReportAssumption DEF Types, TypeOK
    <2>2. QED BY <2>1, FS_Subset
  <1>3. Trace(found) = {sp[g] : g \in C \cap DOMAIN sp}
    BY DEF Trace
  <1> HIDE DEF sp
  <1>4. /\ found \subseteq C
        /\ \A g \in C \cap DOMAIN sp : inputs(sp[g]) \subseteq C
        /\ \A s : found \subseteq s /\ (\A g \in s \cap DOMAIN sp : inputs(sp[g]) \subseteq s) => C \subseteq s
    BY <1>2, ClosureIsLeast
  <1> HIDE DEF C
  <1>5. C \subseteq closed
    <2>1. \A g \in closed \cap DOMAIN sp : inputs(sp[g]) \subseteq closed
      BY <1>1 DEF FromClosed
    <2>2. QED BY <1>4, <2>1
  <1>6. \A g \in C \cap DOMAIN sp : sp[g].output = g
    BY <1>1 DEF FromClosed
  <1>7. C \subseteq DOMAIN edge_cache \cup Outputs(Trace(found))
    BY <1>2, <1>3, <1>5, <1>6 DEF Outputs
  <1>8. \A p \in Trace(found) : FromClosed(p, p.output) /\ p.output \in closed \ DOMAIN edge_cache
    BY <1>1, <1>2, <1>3, <1>6
  <1>9. \A p \in Trace(found) : inputs(p) \subseteq C
    BY <1>3, <1>4
  <1>10. QED BY <1>4, <1>7, <1>8, <1>9

-----------------------------------------------------------------------------
(* Founded is kept.                                                        *)

LEMMA FoundedMore ==
  ASSUME NEW pr, NEW cl, NEW rights, NEW dn, NEW rights2, NEW dn2, FoundedBy(pr, cl, rights, dn),
         rights \subseteq rights2, \A t \in Table : dn[t] \subseteq dn2[t]
  PROVE  FoundedBy(pr, cl, rights2, dn2)
  <1>1. \A t \in Table : EdgesIn(t, dn) \subseteq EdgesIn(t, dn2)
    BY DEF EdgesIn
  <1>2. QED BY <1>1 DEF FoundedBy

\* What a step of the report discovers.
LEMMA ChosenProvs ==
  ASSUME NEW kind, NEW E, NEW outs, NEW choice, choice \in ProvsOf(kind, E, outs)
  PROVE  /\ DOMAIN choice = outs /\ choice = [g \in outs |-> choice[g]]
         /\ \A g \in outs : choice[g] = Prov(kind, g, choice[g].input, 0) /\ <<choice[g].input, g>> \in E
  <1> DEFINE fs == {f \in [outs -> {e[1] : e \in E}] : \A g \in outs : <<f[g], g>> \in E}
  <1>1. PICK f \in fs : choice = [g \in outs |-> Prov(kind, g, f[g], 0)]
    BY DEF ProvsOf
  <1>2. \A g \in outs : choice[g] = Prov(kind, g, f[g], 0) /\ choice[g].input = f[g]
    BY <1>1 DEF Prov
  <1>3. QED BY <1>1, <1>2

LEMMA TodoIs ==
  ASSUME Types, Where, todo # {}
  PROVE  /\ Foremost(todo) \in todo /\ Foremost(todo) \in Table
         /\ Foremost(todo)[2] \in pool \cup {0}
         /\ Foremost(todo)[1] \in {"close", "mirror", "connect", "combine"}
  <1>1. todo \subseteq Table
    BY DEF Types, TypeOK
  <1>2. Foremost(todo) \in todo
    BY <1>1, ForemostOf
  <1>3. Foremost(todo)[2] \in pool \cup {0}
    BY <1>2 DEF Where
  <1>4. \A t \in Table : t[1] \in {"close", "mirror", "connect", "combine"}
    BY Tables
  <1>5. QED BY <1>1, <1>2, <1>3, <1>4

\* The edges that a step follows lead from what has been reached.
LEMMA FollowedEdges ==
  ASSUME Types, Where, possible # {}, NEW e \in {x \in Edges(Foremost(todo)) : x[1] \in possible}
  PROVE  /\ e[1] \in closed /\ e[2] \in Gadget /\ e = <<e[1], e[2]>>
         /\ e \in Makes[Foremost(todo)]
  <1>1. todo # {}
    BY DEF Where
  <1>2. Foremost(todo) \in Table
    BY <1>1, TodoIs
  <1>3. Makes[Foremost(todo)] \subseteq Gadget \X Gadget
    BY <1>2, ReportAssumption
  <1>4. e \in Makes[Foremost(todo)]
    BY DEF Edges
  <1>5. QED BY <1>3, <1>4 DEF Types, TypeOK

LEMMA FoundedAppend ==
  ASSUME NEW pr, NEW cl, NEW rights, NEW dn, FoundedBy(pr, cl, rights, dn), cl \subseteq Gadget,
         NEW t \in Table, t[2] \in rights \cup {0},
         NEW E, E \subseteq EdgesIn(t, dn), \A e \in E : e[1] \in cl,
         NEW new, new \subseteq Gadget, new \cap cl = {},
         NEW choice, choice \in ProvsOf(t[1], E, new)
  PROVE  FoundedBy(Append(pr, choice), cl \cup new, rights, dn)
  <1> DEFINE n == Len(pr)
             q == Append(pr, choice)
  <1>1. /\ DOMAIN choice = new /\ choice = [g \in new |-> choice[g]]
        /\ \A g \in new : choice[g] = Prov(t[1], g, choice[g].input, 0) /\ <<choice[g].input, g>> \in E
    BY ChosenProvs
  <1>2. \A g \in new : choice[g].input \in cl
    BY <1>1
  <1>3. choice \in Provs
    <2>1. t[1] \in {"close", "mirror", "connect", "combine"}
      BY Tables
    <2>2. \A g \in new : g \in Gadget /\ choice[g].input \in Gadget
      BY <1>2
    <2>3. \A g \in new : Prov(t[1], g, choice[g].input, 0) \in ProvType
      BY <2>1, <2>2 DEF Prov, ProvType
    <2>4. \A g \in new : choice[g] \in ProvType
      BY <1>1, <2>3
    <2>5. choice \in [new -> ProvType]
      BY <1>1, <2>4
    <2>6. QED BY <2>5 DEF Provs
  <1>4. pr \in Seq(Provs) /\ cl = Upto(pr, n + 1)
    BY DEF FoundedBy
  <1>5. /\ q \in Seq(Provs) /\ Len(q) = n + 1 /\ n \in Nat
        /\ DOMAIN q = 1..(n + 1) /\ DOMAIN pr = 1..n
        /\ \A i \in 1..n : q[i] = pr[i]
        /\ q[n + 1] = choice
    BY <1>3, <1>4, AppendProperties, LenProperties
  <1> HIDE DEF n, q
  <1>6. \A i \in 1..(n + 1) : Upto(q, i) = Upto(pr, i)
    <2> SUFFICES ASSUME NEW i \in 1..(n + 1) PROVE Upto(q, i) = Upto(pr, i)
      OBVIOUS
    <2>1. \A j \in 1..(i - 1) : j \in 1..n
      BY <1>5
    <2>2. {DOMAIN q[j] : j \in 1..(i - 1)} = {DOMAIN pr[j] : j \in 1..(i - 1)}
      BY <1>5, <2>1
    <2>3. QED BY <2>2 DEF Upto
  <1>7. Upto(q, (n + 1) + 1) = cl \cup new
    <2>1. 1..(((n + 1) + 1) - 1) = 1..n \cup {n + 1} /\ 1..((n + 1) - 1) = 1..n
      BY <1>5
    <2>2. Upto(q, (n + 1) + 1) = (Source \cup UNION {DOMAIN q[j] : j \in 1..n}) \cup DOMAIN q[n + 1]
      BY <2>1 DEF Upto
    <2>3. Upto(q, n + 1) = Source \cup UNION {DOMAIN q[j] : j \in 1..n}
      BY <2>1 DEF Upto
    <2>4. n + 1 \in 1..(n + 1)
      BY <1>5
    <2>5. QED BY <1>1, <1>4, <1>5, <1>6, <2>2, <2>3, <2>4
  <1>8. ASSUME NEW i \in DOMAIN q
        PROVE  /\ DOMAIN q[i] \cap Upto(q, i) = {}
               /\ \A g \in DOMAIN q[i] :
                    /\ q[i][g].input \in Upto(q, i)
                    /\ \E u \in Table : /\ u[2] \in rights \cup {0}
                                        /\ q[i][g] = Prov(u[1], g, q[i][g].input, 0)
                                        /\ <<q[i][g].input, g>> \in EdgesIn(u, dn)
    <2>1. CASE i \in 1..n
      <3>1. i \in DOMAIN pr /\ q[i] = pr[i] /\ Upto(q, i) = Upto(pr, i)
        BY <1>5, <1>6, <2>1
      <3>2. QED BY <3>1 DEF FoundedBy
    <2>2. CASE i = n + 1
      <3>1. q[i] = choice /\ Upto(q, i) = cl
        <4>1. n + 1 \in 1..(n + 1)
          BY <1>5
        <4>2. QED BY <1>4, <1>5, <1>6, <2>2, <4>1
      <3>2. \A g \in new : <<choice[g].input, g>> \in EdgesIn(t, dn)
        BY <1>1
      <3>3. QED BY <1>1, <1>2, <3>1, <3>2
    <2>3. QED BY <1>5, <2>1, <2>2
  <1>9. FoundedBy(q, cl \cup new, rights, dn)
    BY <1>5, <1>7, <1>8 DEF FoundedBy
  <1>10. QED BY <1>9 DEF q

LEMMA FollowKeepsFounded == IInv /\ follow => Founded'
  <1> SUFFICES ASSUME IInv, follow PROVE Founded'
    OBVIOUS
  <1> DEFINE t == Foremost(todo)
             E == {e \in Edges(t) : e[1] \in possible}
             new == New(E)
  <1>1. Types /\ Where /\ FoundedBy(prov, closed, pool, done) /\ possible # {}
    BY DEF IInv, follow, Founded
  <1>2. /\ todo # {} /\ t \in Table /\ t[2] \in pool \cup {0}
    BY <1>1, TodoIs DEF Where
  <1>3. done' = done /\ pool' = pool /\ closed' = closed \cup new
    BY DEF follow, db
  <1>4. \A e \in E : e[1] \in closed /\ e[2] \in Gadget
    BY <1>1, FollowedEdges
  <1>5. new \subseteq Gadget /\ new \cap closed = {} /\ E \subseteq EdgesIn(t, done) /\ closed \subseteq Gadget
    BY <1>1, <1>4 DEF New, Edges, EdgesIn, Types, TypeOK
  <1>6. CASE new = {}
    <2>1. prov' = prov /\ closed' = closed
      BY <1>3, <1>6 DEF follow
    <2>2. QED BY <1>1, <1>3, <2>1 DEF Founded
  <1>7. CASE new # {}
    <2>1. PICK choice : choice \in ProvsOf(t[1], E, new) /\ prov' = Append(prov, choice)
      BY <1>7 DEF follow
    <2> HIDE DEF E, new, t
    <2>2. FoundedBy(Append(prov, choice), closed \cup new, pool, done)
      BY <1>1, <1>2, <1>4, <1>5, <2>1, FoundedAppend
    <2>3. QED BY <1>3, <2>1, <2>2 DEF Founded
  <1>8. QED BY <1>6, <1>7

-----------------------------------------------------------------------------
(* Types and Where are kept.                                               *)

\* What a cache of edges looks like.
CacheTyped(c) ==
  /\ DOMAIN c \subseteq Gadget
  /\ \A g \in DOMAIN c : c[g] \in ProvType /\ c[g].output = g /\ (c[g].kind = "combine") = (c[g].right # 0)

LEMMA AddEdgesTyped ==
  ASSUME NEW t \in Simple, NEW c, CacheTyped(c), NEW ins, NEW c2, c2 \in AddEdges(t, c, ins)
  PROVE  CacheTyped(c2)
  <1> DEFINE E == {e \in Edges(t) : e[1] \in ins /\ e[2] \notin DOMAIN c}
             outs == {e[2] : e \in E}
  <1>1. PICK new \in ProvsOf(t[1], E, outs) : c2 = AddTo(c, new)
    BY DEF AddEdges
  <1>2. /\ DOMAIN new = outs
        /\ \A g \in outs : new[g] = Prov(t[1], g, new[g].input, 0) /\ <<new[g].input, g>> \in E
    <2> HIDE DEF E, outs
    <2>1. QED BY ChosenProvs
  <1>3. \A x, y : <<x, y>> \in E => x \in Gadget /\ y \in Gadget
    <2>1. t \in Table
      BY DEF Table
    <2>2. Makes[t] \subseteq Gadget \X Gadget
      BY <2>1, ReportAssumption
    <2>3. QED BY <2>2 DEF Edges
  <1> HIDE DEF E
  <1>4. \A g \in outs : g \in Gadget /\ new[g].input \in Gadget
    BY <1>2, <1>3
  <1>5. t[1] \in {"close", "mirror"}
    BY DEF Simple
  <1>6. \A g \in outs : new[g] \in ProvType /\ new[g].output = g /\ new[g].kind # "combine" /\ new[g].right = 0
    <2> SUFFICES ASSUME NEW g \in outs
                 PROVE  new[g] \in ProvType /\ new[g].output = g /\ new[g].kind # "combine" /\ new[g].right = 0
      OBVIOUS
    <2> HIDE DEF outs
    <2>1. new[g] = Prov(t[1], g, new[g].input, 0) /\ g \in Gadget /\ new[g].input \in Gadget
      BY <1>2, <1>4
    <2>2. Prov(t[1], g, new[g].input, 0) \in ProvType
      BY <1>5, <2>1 DEF Prov, ProvType
    <2>3. new[g] = [kind |-> t[1], output |-> g, input |-> new[g].input, right |-> 0]
      BY <2>1 DEF Prov
    <2>4. new[g].output = g /\ new[g].kind = t[1] /\ new[g].right = 0
      BY <2>3
    <2>5. QED BY <1>5, <2>1, <2>2, <2>4
  <1> HIDE DEF outs
  <1>7. c2 = [g \in DOMAIN c \cup outs |-> IF g \in DOMAIN c THEN c[g] ELSE new[g]]
    BY <1>1, <1>2 DEF AddTo
  <1>8. QED BY <1>4, <1>6, <1>7 DEF CacheTyped

\* What follow discovers.
LEMMA FollowTypes ==
  ASSUME IInv, follow
  PROVE  /\ todo # {} /\ Foremost(todo) \in todo /\ Foremost(todo) \in Table
         /\ Foremost(todo)[2] \in pool \cup {0} /\ StepOf(Foremost(todo)) = pc
         /\ New({e \in Edges(Foremost(todo)) : e[1] \in possible}) \subseteq Gadget
  <1>1. Types /\ Where /\ possible # {}
    BY DEF IInv, follow
  <1>2. \A e \in {e \in Edges(Foremost(todo)) : e[1] \in possible} : e[2] \in Gadget
    BY <1>1, FollowedEdges
  <1>3. todo # {} /\ pc \in Step
    BY <1>1 DEF Where, follow
  <1>4. QED BY <1>1, <1>2, <1>3, TodoIs DEF New, Where

\* What is cached of a trace or of a batch.
LEMMA CachedTyped ==
  ASSUME Types, NEW ps, \A p \in ps : FromClosed(p, p.output) /\ p.output \in closed
  PROVE  CacheTyped(Cached(ps)) /\ DOMAIN Cached(ps) = DOMAIN edge_cache \cup Outputs(ps)
         /\ DOMAIN Cached(ps) \subseteq closed
  <1>1. /\ DOMAIN Cached(ps) = DOMAIN edge_cache \cup Outputs(ps)
        /\ \A g \in DOMAIN edge_cache : Cached(ps)[g] = edge_cache[g]
        /\ \A g \in Outputs(ps) \ DOMAIN edge_cache : Cached(ps)[g] \in ps /\ Cached(ps)[g].output = g
    BY CachedIs
  <1>2. CacheTyped(edge_cache)
    BY DEF Types, TypeOK, CacheTyped
  <1>3. Outputs(ps) \subseteq closed
    BY DEF Outputs
  <1>4. \A g \in DOMAIN Cached(ps) : Cached(ps)[g] \in ProvType /\ Cached(ps)[g].output = g
                                    /\ (Cached(ps)[g].kind = "combine") = (Cached(ps)[g].right # 0)
    <2>1. ASSUME NEW g \in DOMAIN edge_cache
          PROVE  Cached(ps)[g] \in ProvType /\ Cached(ps)[g].output = g
                 /\ (Cached(ps)[g].kind = "combine") = (Cached(ps)[g].right # 0)
      BY <1>1, <1>2 DEF CacheTyped
    <2>2. ASSUME NEW g \in Outputs(ps) \ DOMAIN edge_cache
          PROVE  Cached(ps)[g] \in ProvType /\ Cached(ps)[g].output = g
                 /\ (Cached(ps)[g].kind = "combine") = (Cached(ps)[g].right # 0)
      BY <1>1 DEF FromClosed
    <2>3. QED BY <1>1, <2>1, <2>2
  <1>5. DOMAIN Cached(ps) \subseteq closed /\ closed \subseteq Gadget
    BY <1>1, <1>3 DEF Types, TypeOK
  <1>6. QED BY <1>1, <1>4, <1>5 DEF CacheTyped

\* Mirroring waits for closing.
LEMMA CloseFirst ==
  ASSUME Types, Where, todo # {}
  PROVE  <<"close", 0>> \in todo => Foremost(todo) # <<"mirror", 0>>
  <1> SUFFICES ASSUME <<"close", 0>> \in todo, Foremost(todo) = <<"mirror", 0>> PROVE FALSE
    OBVIOUS
  <1>1. todo \subseteq Table
    BY DEF Types, TypeOK
  <1>2. Turn(<<"mirror", 0>>) <= Turn(<<"close", 0>>)
    BY <1>1, ForemostOf
  <1>3. Turn(<<"mirror", 0>>) = 1 /\ Turn(<<"close", 0>>) = 0
    BY DEF Turn
  <1>4. QED BY <1>2, <1>3

LEMMA Shape ==
  ASSUME IInv, Next
  PROVE  Types' /\ Where'
  <1> USE DEF db, search, cache
  <1>1. Types /\ Where /\ Founded /\ Traced
    BY DEF IInv
  <1>2. CASE WorkerCommits
    <2>1. Types'
      BY <1>1, <1>2 DEF WorkerCommits, Types, TypeOK
    <2>2. Where'
      BY <1>1, <1>2 DEF WorkerCommits, Where
    <2>3. QED BY <2>1, <2>2
  <1>3. CASE target_stuff
    <2>1. Types'
      <3>1. CacheTyped([g \in Named |-> source(g)])
        BY ReportAssumption DEF CacheTyped, source, Prov, ProvType
      <3>2. <<"close", 0>> \in Simple /\ <<"mirror", 0>> \in Simple
        BY DEF Simple
      <3>3. CacheTyped(target_cache')
        BY <1>3, <3>1, <3>2, AddEdgesTyped DEF target_stuff
      <3>4. found = {}
        BY <1>1, <1>3 DEF target_stuff, Where, Step
      <3>5. QED BY <1>1, <1>3, <3>3, <3>4 DEF target_stuff, Types, TypeOK, CacheTyped
    <2>2. Where'
      BY <1>1, <1>3 DEF target_stuff, Where, Step
    <2>3. QED BY <2>1, <2>2
  <1>4. CASE begin_step
    <2>1. Types'
      BY <1>1, <1>4, Tables DEF begin_step, Types, TypeOK, Combining, Table, Simple, Skinny, Step
    <2>2. Where'
      BY <1>1, <1>4 DEF begin_step, Where, Step, Combining, StepOf, Simple, Types, TypeOK
    <2>3. QED BY <2>1, <2>2
  <1>5. CASE discover_whats_possible
    <2>1. Types'
      BY <1>1, <1>5 DEF discover_whats_possible, Types, TypeOK
    <2>2. Where'
      <3>1. <<"close", 0>> \in todo' /\ ~opt'.skip_mirror => <<"mirror", 0>> \in todo'
        BY <1>1, <1>5, CloseFirst DEF discover_whats_possible, Where
      <3>2. todo' \subseteq todo /\ (possible' # {} => todo' = todo /\ possible' = awaiting[pc] \cap done[Foremost(todo)])
            /\ UNCHANGED <<opt, pc, record, closed, awaiting, pool, next, found, batch, requests>> /\ pc \in Step /\ record = "no" /\ todo # {}
        BY <1>5 DEF discover_whats_possible
      <3>3. Done[Foremost(todo)] \subseteq done[Foremost(todo)]
        BY <1>1, <3>2, TodoIs DEF Types
      <3>4. QED BY <1>1, <3>1, <3>2, <3>3 DEF Where, Step
    <2>3. QED BY <2>1, <2>2
  <1>6. CASE follow
    <2> DEFINE t == Foremost(todo)
               new == New({e \in Edges(t) : e[1] \in possible})
    <2>1. /\ todo # {} /\ t \in todo /\ t \in Table /\ t[2] \in pool \cup {0} /\ StepOf(t) = pc
          /\ new \subseteq Gadget
      BY <1>6, FollowTypes
    <2>2. /\ closed' = closed \cup new /\ awaiting' = Awaiting(t[1], new)
          /\ next' = (IF t \in Skinny THEN next \cup new ELSE next)
          /\ found' = new \cap DOMAIN target_cache /\ possible' = {} /\ todo' = todo \ {t}
          /\ record' \in {"no", "trace", "end"} /\ (record' # "trace" => found' = {})
          /\ pc \in Step /\ record = "no"
      BY <1>6 DEF follow
    <2>3. UNCHANGED <<db, opt, pc, target_cache, pool, cache, printed, faults>>
      BY <1>6 DEF follow
    <2> HIDE DEF new, t
    <2>4. Types'
      <3>1. awaiting' \in [Step -> SUBSET Gadget] /\ \A k \in Step : awaiting'[k] \subseteq closed'
        <4>1. \A k \in Step : awaiting[k] \subseteq closed /\ awaiting[k] \subseteq Gadget
          BY <1>1 DEF Types, TypeOK
        <4>2. QED BY <2>1, <2>2, <4>1 DEF Awaiting, Step
      <3>2. QED BY <1>1, <2>1, <2>2, <2>3, <3>1 DEF Types, TypeOK
    <2>5. Where'
      <3>1. pool = {} => pc = "closemirror" /\ closed' \subseteq awaiting'.combine
        <4>1. ASSUME pool = {} PROVE pc = "closemirror" /\ t[1] # "combine" /\ closed \subseteq awaiting.combine
          BY <1>1, <2>1, <2>2, <4>1, Tables DEF Where, Step
        <4>2. QED BY <2>2, <4>1 DEF Awaiting
      <3>2. pc = "closemirror" => next' = {}
        <4>1. ASSUME pc = "closemirror" PROVE t \notin Skinny
          BY <2>1, <4>1 DEF StepOf, Skinny, Simple
        <4>2. QED BY <1>1, <2>2, <4>1 DEF Where
      <3>3. batch = {} /\ requests = {}
        BY <1>1, <2>2 DEF Where
      <3>4. <<"close", 0>> \in todo' /\ ~opt'.skip_mirror => <<"mirror", 0>> \in todo'
        BY <1>1, <2>1, <2>2, <2>3, CloseFirst DEF Where, t
      <3>5. QED BY <1>1, <2>2, <2>3, <3>1, <3>2, <3>3, <3>4 DEF Where, Step
    <2>6. QED BY <2>4, <2>5
  <1>7. CASE end_closemirror
    <2>1. Types'
      BY <1>1, <1>7, Tables DEF end_closemirror, Types, TypeOK, Step
    <2>2. Where'
      BY <1>1, <1>7 DEF end_closemirror, Where, Step, Types, TypeOK
    <2>3. QED BY <2>1, <2>2
  <1>8. CASE end_connect
    <2>1. Types'
      BY <1>1, <1>8 DEF end_connect, Types, TypeOK, Step
    <2>2. Where'
      BY <1>1, <1>8 DEF end_connect, Where, Step
    <2>3. QED BY <2>1, <2>2
  <1>9. CASE end_combine
    <2>1. Types'
      BY <1>1, <1>9 DEF end_combine, Types, TypeOK, Step
    <2>2. Where'
      BY <1>1, <1>9 DEF end_combine, Where, Step
    <2>3. QED BY <2>1, <2>2
  <1>10. CASE fill_cache
    <2> DEFINE edges == Trace(found)
               missing == {p \in edges : ~HasFullEdge(p, filled)}
    <2>1. \A p \in edges : FromClosed(p, p.output) /\ p.output \in closed
      BY <1>1, TraceIs DEF Types, TypeOK
    <2>2. /\ edge_cache' = Cached(edges \ missing)
          /\ batch' = {p \in edges : TableOf(p) \in Skinny}
          /\ requests' = {TableOf(p) : p \in missing}
          /\ record' = (IF batch' = {} THEN "print" ELSE "runner")
          /\ record = "trace"
          /\ UNCHANGED <<db, opt, pc, target_cache, search, found, dellocs, printed, faults>>
      BY <1>10 DEF fill_cache
    <2>3. missing \subseteq batch'
      <3>1. \A p \in missing : TableOf(p) \in Skinny
        BY <2>1 DEF HasFullEdge, FromClosed, Table
      <3>2. QED BY <2>2, <3>1
    <2>4. \A p \in edges : p \in ProvType
      BY <2>1 DEF FromClosed
    <2>5. /\ CacheTyped(Cached(edges \ missing))
          /\ DOMAIN Cached(edges \ missing) = DOMAIN edge_cache \cup Outputs(edges \ missing)
          /\ DOMAIN Cached(edges \ missing) \subseteq closed
      <3>1. \A p \in edges \ missing : FromClosed(p, p.output) /\ p.output \in closed
        BY <2>1
      <3> HIDE DEF edges, missing
      <3>2. QED BY <1>1, <3>1, CachedTyped
    <2> HIDE DEF edges, missing
    <2>6. Types'
      <3>1. requests' \subseteq Skinny
        BY <2>2, <2>3
      <3>2. batch' \subseteq ProvType
        BY <2>2, <2>4
      <3>3. DOMAIN edge_cache \subseteq DOMAIN edge_cache' /\ DOMAIN edge_cache' \subseteq closed /\ CacheTyped(edge_cache')
        BY <2>2, <2>5
      <3>4. UNCHANGED <<done, filled, opt, pc, target_cache, closed, awaiting, pool, todo, possible, next, found, dellocs, faults>>
            /\ record' \in {"print", "runner"}
        BY <2>2
      <3>5. QED BY <1>1, <3>1, <3>2, <3>3, <3>4 DEF Types, TypeOK, CacheTyped
    <2>7. Where'
      BY <1>1, <2>2, <2>3 DEF Where, Step
    <2>8. QED BY <2>6, <2>7
  <1>11. CASE commit_combine_result_full \/ commit_connect_result_full
    <2>1. Types'
      <3>1. \A p \in batch : TableOf(p) \in Skinny /\ p.input \in Gadget
        BY <1>1 DEF Traced, FromClosed, Types, TypeOK
      <3>2. filled' \subseteq filled \cup {<<TableOf(p), p.input>> : p \in batch}
        BY <1>11 DEF commit_combine_result_full, commit_connect_result_full, Fills
      <3>3. filled' \subseteq Skinny \X Gadget
        BY <1>1, <3>1, <3>2 DEF Types, TypeOK
      <3>4. requests' \subseteq requests /\ UNCHANGED <<done, opt, pc, record, target_cache, search, found, edge_cache, dellocs, batch, printed, faults>>
        BY <1>11 DEF commit_combine_result_full, commit_connect_result_full, Fills
      <3>5. QED BY <1>1, <3>3, <3>4 DEF Types, TypeOK
    <2>2. Where'
      BY <1>1, <1>11 DEF commit_combine_result_full, commit_connect_result_full, Fills, Where, Step
    <2>3. QED BY <2>1, <2>2
  <1>12. CASE collect
    <2>1. Types'
      <3>1. CacheTyped(edge_cache') /\ DOMAIN edge_cache' \subseteq closed /\ DOMAIN edge_cache \subseteq DOMAIN edge_cache'
        <4> DEFINE ps == {p \in batch : HasFullEdge(p, filled)}
        <4>1. \A p \in ps : FromClosed(p, p.output) /\ p.output \in closed
          BY <1>1 DEF Traced
        <4>2. edge_cache' = Cached(ps)
          BY <1>12 DEF collect
        <4> HIDE DEF ps
        <4>3. QED BY <1>1, <4>1, <4>2, CachedTyped
      <3>2. record' = "deleted-locations" /\ UNCHANGED <<db, opt, pc, target_cache, search, found, dellocs, batch, requests, printed, faults>>
        BY <1>12 DEF collect
      <3>3. QED BY <1>1, <3>1, <3>2 DEF Types, TypeOK, CacheTyped
    <2>2. Where'
      BY <1>1, <1>12 DEF collect, Where, Step
    <2>3. QED BY <2>1, <2>2
  <1>13. CASE deleted_locations
    <2>1. Types'
      <3>1. Outputs(batch) \subseteq DOMAIN edge_cache
        BY <1>1, <1>13 DEF deleted_locations, Traced
      <3>2. dellocs' \subseteq DOMAIN edge_cache
        BY <1>1, <1>13, <3>1 DEF deleted_locations, Outputs, Types, TypeOK
      <3>3. QED BY <1>1, <1>13, <3>2 DEF deleted_locations, Throws, Types, TypeOK
    <2>2. Where'
      BY <1>1, <1>13 DEF deleted_locations, Throws, Where, Step
    <2>3. QED BY <2>1, <2>2
  <1>14. CASE print
    <2>1. Types'
      BY <1>1, <1>14 DEF print, Throws, Types, TypeOK
    <2>2. Where'
      BY <1>1, <1>14 DEF print, Throws, Where, Step
    <2>3. QED BY <2>1, <2>2
  <1>15. CASE end_record
    <2>1. Types'
      BY <1>1, <1>15 DEF end_record, Throws, Types, TypeOK
    <2>2. Where'
      BY <1>1, <1>15 DEF end_record, Throws, Where, Step
    <2>3. QED BY <2>1, <2>2
  <1>16. CASE RunnerFails
    <2>1. Types'
      BY <1>1, <1>16, ReportAssumption DEF RunnerFails, Throws, Types, TypeOK
    <2>2. Where'
      BY <1>1, <1>16 DEF RunnerFails, Throws, Where, Step
    <2>3. QED BY <2>1, <2>2
  <1>17. QED
    BY <1>2, <1>3, <1>4, <1>5, <1>6, <1>7, <1>8, <1>9, <1>10, <1>11, <1>12, <1>13, <1>14, <1>15, <1>16 DEF Next, ReportStep

LEMMA KeepsFounded ==
  ASSUME IInv, Next
  PROVE  Founded'
  <1>1. CASE follow
    BY <1>1, FollowKeepsFounded
  <1>2. CASE ~follow
    <2>1. FoundedBy(prov, closed, pool, done) /\ done \in [Table -> SUBSET Gadget]
      BY DEF IInv, Founded, Types, TypeOK
    <2>2. /\ UNCHANGED <<prov, closed>> /\ pool \subseteq pool'
          /\ \A t \in Table : done[t] \subseteq done'[t]
      <3>1. CASE WorkerCommits
        BY <2>1, <3>1 DEF WorkerCommits, search
      <3>2. CASE end_closemirror
        BY <3>2 DEF end_closemirror, db
      <3>3. CASE Next /\ ~WorkerCommits /\ ~end_closemirror
        BY <1>2, <3>3 DEF Next, ReportStep, RunnerFails, target_stuff, begin_step, discover_whats_possible, end_connect, end_combine,
             fill_cache, commit_combine_result_full, commit_connect_result_full, Fills, collect, deleted_locations, print,
             end_record, Throws, search, db
      <3>4. QED BY <3>1, <3>2, <3>3
    <2>3. FoundedBy(prov, closed, pool', done')
      BY <2>1, <2>2, FoundedMore
    <2>4. QED BY <2>2, <2>3 DEF Founded
  <1>3. QED BY <1>1, <1>2

-----------------------------------------------------------------------------
(* Traced is kept.                                                         *)

\* An edge of the database stays one, and what has been reached stays reached.
LEMMA DatabaseGrows ==
  ASSUME IInv, Next
  PROVE  /\ \A t \in Table : Edges(t) \subseteq Edges(t)'
         /\ closed \subseteq closed'
         /\ \A p, g : FromClosed(p, g) => FromClosed(p, g)'
  <1>1. \A t \in Table : done[t] \subseteq done'[t]
    <2>1. done \in [Table -> SUBSET Gadget]
      BY DEF IInv, Types, TypeOK
    <2>2. QED
      BY <2>1 DEF Next, ReportStep, RunnerFails, WorkerCommits, target_stuff, begin_step, discover_whats_possible, end_connect, end_combine,
             end_closemirror, follow, fill_cache, commit_combine_result_full, commit_connect_result_full, Fills, collect, deleted_locations, print,
             end_record, Throws, search, db
  <1>2. closed \subseteq closed'
      BY DEF Next, ReportStep, RunnerFails, WorkerCommits, target_stuff, begin_step, discover_whats_possible, end_connect, end_combine,
             end_closemirror, follow, fill_cache, commit_combine_result_full, commit_connect_result_full, Fills, collect, deleted_locations, print,
             end_record, Throws, search, db
  <1>3. ASSUME NEW t \in Table PROVE Edges(t) \subseteq Edges(t)'
    BY <1>1 DEF Edges
  <1>4. ASSUME NEW p, NEW g, FromClosed(p, g) PROVE FromClosed(p, g)'
    BY <1>2, <1>3, <1>4 DEF FromClosed
  <1>5. QED BY <1>2, <1>3, <1>4

LEMMA TracedByFrame ==
  ASSUME IInv, Next, UNCHANGED <<batch, dellocs, record, filled, requests, edge_cache, faults, found>>
  PROVE  Traced'
  <1>1. \A p \in batch : FromClosed(p, p.output)' /\ p.output \in closed'
    BY DatabaseGrows DEF IInv, Traced
  <1>2. QED BY <1>1 DEF IInv, Traced, Outputs, Known, HasFullEdge, TableOf

LEMMA FillKeepsTraced ==
  ASSUME IInv, fill_cache
  PROVE  Traced'
  <1> DEFINE edges == Trace(found)
             missing == {p \in edges : ~HasFullEdge(p, filled)}
             D == DOMAIN edge_cache
  <1>1. Types /\ Where /\ Founded /\ Traced
    BY DEF IInv
  <1>2. /\ \A p \in edges : FromClosed(p, p.output) /\ p.output \in closed \ D
        /\ found \subseteq D \cup Outputs(edges)
        /\ \A p \in edges : inputs(p) \subseteq D \cup Outputs(edges)
    BY <1>1, TraceIs DEF Types, TypeOK
  <1>3. /\ edge_cache' = Cached(edges \ missing)
        /\ batch' = {p \in edges : TableOf(p) \in Skinny}
        /\ requests' = {TableOf(p) : p \in missing}
        /\ record' = (IF batch' = {} THEN "print" ELSE "runner")
        /\ record = "trace" /\ batch = {}
        /\ UNCHANGED <<done, filled, closed, found, dellocs, faults>>
    BY <1>1 DEF fill_cache, db, search, Where
  <1>4. \A p \in edges \ missing : HasFullEdge(p, filled)
    OBVIOUS
  <1>5. \A p \in missing : p \in edges /\ TableOf(p) \in Skinny
    BY <1>2 DEF HasFullEdge, FromClosed, Table
  <1>6. /\ DOMAIN edge_cache' = D \cup Outputs(edges \ missing)
        /\ \A g \in D : edge_cache'[g] = edge_cache[g]
        /\ \A g \in Outputs(edges \ missing) \ D : edge_cache'[g] \in edges \ missing /\ edge_cache'[g].output = g
    <2> HIDE DEF missing, edges
    <2>1. QED BY <1>3, CachedIs
  <1>7. Known' = D \cup Outputs(edges)
    <2>1. missing \subseteq batch' /\ batch' \subseteq edges
      BY <1>3, <1>5
    <2> HIDE DEF missing, edges
    <2>2. Known' = DOMAIN edge_cache' \cup Outputs(batch')
      BY DEF Known, Outputs
    <2>3. Outputs(edges \ missing) \cup Outputs(batch') = Outputs(edges)
      BY <2>1 DEF Outputs
    <2>4. QED BY <1>6, <2>2, <2>3
  <1> HIDE DEF missing, edges
  <1>8. \A p \in batch' : /\ TableOf(p) \in Skinny /\ FromClosed(p, p.output)' /\ p.output \in closed'
    BY <1>2, <1>3 DEF FromClosed, Edges
  <1>9. dellocs' \cap Outputs(batch') = {}
    BY <1>1, <1>2, <1>3 DEF Types, TypeOK, Outputs
  <1>10. record' = "runner" => \A p \in batch' : HasFullEdge(p, filled') \/ TableOf(p) \in requests'
    BY <1>3, <1>4
  <1>11. record' # "deleted-locations"
    BY <1>3
  <1>12. faults' = 0 => \A g \in DOMAIN edge_cache' :
            /\ inputs(edge_cache'[g]) \subseteq Known'
            /\ TableOf(edge_cache'[g]) \in Skinny /\ g \in Deleting => g \in dellocs' \cup Outputs(batch')
    <2> SUFFICES ASSUME faults = 0, NEW g \in DOMAIN edge_cache'
                 PROVE  /\ inputs(edge_cache'[g]) \subseteq Known'
                        /\ TableOf(edge_cache'[g]) \in Skinny /\ g \in Deleting => g \in dellocs' \cup Outputs(batch')
      BY <1>3
    <2>1. CASE g \in D
      <3>1. edge_cache'[g] = edge_cache[g] /\ Outputs(batch) = {}
        BY <1>3, <1>6, <2>1 DEF Outputs
      <3>2. inputs(edge_cache[g]) \subseteq D /\ (TableOf(edge_cache[g]) \in Skinny /\ g \in Deleting => g \in dellocs)
        BY <1>1, <2>1, <3>1 DEF Traced, Known
      <3>3. QED BY <1>3, <1>7, <3>1, <3>2
    <2>2. CASE g \notin D
      <3>1. edge_cache'[g] \in edges /\ edge_cache'[g].output = g
        BY <1>6, <2>2
      <3>2. TableOf(edge_cache'[g]) \in Skinny => g \in Outputs(batch')
        BY <1>3, <3>1 DEF Outputs
      <3>3. QED BY <1>2, <1>7, <3>1, <3>2
    <2>3. QED BY <2>1, <2>2
  <1>13. \A p \in batch' : inputs(p) \subseteq Known'
    BY <1>2, <1>3, <1>7
  <1>14. found' \subseteq Known'
    BY <1>2, <1>3, <1>7
  <1>15. QED
    BY <1>8, <1>9, <1>10, <1>11, <1>12, <1>13, <1>14 DEF Traced, HasFullEdge, TableOf, Outputs, inputs

LEMMA FillsKeepsTraced ==
  ASSUME IInv, Next, commit_combine_result_full \/ commit_connect_result_full
  PROVE  Traced'
  <1>1. /\ filled' = filled \cup {<<TableOf(p), p.input>> : p \in {p \in batch : TableOf(p) = NextRequest}}
        /\ requests' = requests \ {NextRequest} /\ record = "runner"
        /\ UNCHANGED <<done, closed, record, found, edge_cache, dellocs, batch, faults>>
    BY DEF commit_combine_result_full, commit_connect_result_full, Fills, search
  <1>2. \A p \in batch : FromClosed(p, p.output)' /\ p.output \in closed'
    BY DatabaseGrows DEF IInv, Traced
  <1>3. \A p \in batch : HasFullEdge(p, filled) \/ TableOf(p) \in requests
    BY <1>1 DEF IInv, Traced
  <1>4. \A p \in batch : HasFullEdge(p, filled') \/ TableOf(p) \in requests'
    <2> SUFFICES ASSUME NEW p \in batch PROVE HasFullEdge(p, filled') \/ TableOf(p) \in requests'
      OBVIOUS
    <2>1. CASE HasFullEdge(p, filled)
      BY <1>1, <2>1 DEF HasFullEdge
    <2>2. CASE TableOf(p) = NextRequest
      BY <1>1, <2>2 DEF HasFullEdge
    <2>3. CASE TableOf(p) \in requests \ {NextRequest}
      BY <1>1, <2>3
    <2>4. QED BY <1>3, <2>1, <2>2, <2>3
  <1> HIDE DEF HasFullEdge
  <1>5. QED BY <1>1, <1>2, <1>4 DEF IInv, Traced, Outputs, Known, TableOf

LEMMA CollectKeepsTraced ==
  ASSUME IInv, Next, collect
  PROVE  Traced'
  <1>1. Types /\ Where /\ Traced
    BY DEF IInv
  <1>2. {p \in batch : HasFullEdge(p, filled)} = batch
    BY <1>1 DEF collect, Traced
  <1>3. /\ edge_cache' = Cached(batch) /\ record' = "deleted-locations"
        /\ UNCHANGED <<done, filled, closed, found, dellocs, batch, requests, faults>> /\ record = "runner"
    BY <1>2 DEF collect, db, search
  <1>4. /\ DOMAIN edge_cache' = DOMAIN edge_cache \cup Outputs(batch)
        /\ \A g \in DOMAIN edge_cache : edge_cache'[g] = edge_cache[g]
        /\ \A g \in Outputs(batch) \ DOMAIN edge_cache : edge_cache'[g] \in batch /\ edge_cache'[g].output = g
    BY <1>3, CachedIs
  <1>5. Known' = Known /\ Outputs(batch)' = Outputs(batch)
    BY <1>3, <1>4 DEF Known, Outputs
  <1>6. \A p \in batch : FromClosed(p, p.output)' /\ p.output \in closed'
    BY <1>1, DatabaseGrows DEF Traced
  <1>7. faults = 0 => \A g \in DOMAIN edge_cache' :
            /\ inputs(edge_cache'[g]) \subseteq Known
            /\ TableOf(edge_cache'[g]) \in Skinny /\ g \in Deleting => g \in dellocs \cup Outputs(batch)
    BY <1>1, <1>4 DEF Traced
  <1>8. QED BY <1>1, <1>3, <1>4, <1>5, <1>6, <1>7 DEF Traced, TableOf, inputs

LEMMA DelLocsKeepsTraced ==
  ASSUME IInv, deleted_locations
  PROVE  /\ Traced' /\ UNCHANGED <<pc, found, edge_cache>> /\ record' = "print"
  <1>1. Types /\ Where /\ Traced
    BY DEF IInv
  <1>2. dellocs \cap (Deleting \cap Outputs(batch)) = {}
    BY <1>1 DEF Traced
  <1>3. /\ dellocs' = dellocs \cup (Deleting \cap Outputs(batch)) /\ batch' = {} /\ record' = "print"
        /\ UNCHANGED <<pc, found, requests, edge_cache, faults>> /\ record = "deleted-locations"
    BY <1>2 DEF deleted_locations, Outputs
  <1>4. Outputs(batch) \subseteq DOMAIN edge_cache
    BY <1>1, <1>3 DEF Traced
  <1>5. Known' = DOMAIN edge_cache /\ Known = DOMAIN edge_cache /\ Outputs(batch') = {}
    BY <1>3, <1>4 DEF Known, Outputs
  <1>6. QED BY <1>1, <1>3, <1>5 DEF Traced, TableOf, inputs, Outputs

\* While no runner has failed, the roots of a printing can all be sorted.
LEMMA PrintSorts ==
  ASSUME IInv, record = "print", faults = 0
  PROVE  \A g \in found : Sortable(edge_cache, g)
  <1>1. Types /\ Where /\ Traced
    BY DEF IInv
  <1>2. batch = {} /\ Known = DOMAIN edge_cache
    BY <1>1 DEF Where, Known, Outputs
  <1>3. IsFiniteSet(DOMAIN edge_cache)
    <2>1. DOMAIN edge_cache \subseteq Gadget /\ IsFiniteSet(Gadget)
      BY <1>1, ReportAssumption DEF Types, TypeOK
    <2>2. QED BY <2>1, FS_Subset
  <1> SUFFICES ASSUME NEW g \in found PROVE Closure(edge_cache, {g}) \subseteq DOMAIN edge_cache
    BY DEF Sortable
  <1>4. {g} \subseteq DOMAIN edge_cache
    BY <1>1, <1>2 DEF Traced
  <1>5. \A h \in DOMAIN edge_cache : inputs(edge_cache[h]) \subseteq DOMAIN edge_cache
    BY <1>1, <1>2 DEF Traced
  <1>6. QED BY <1>3, <1>4, <1>5, ClosureIsLeast

LEMMA KeepsTraced ==
  ASSUME IInv, Next
  PROVE  Traced'
  <1>1. Types /\ Where /\ Traced
    BY DEF IInv
  <1>2. CASE WorkerCommits \/ target_stuff \/ begin_step \/ discover_whats_possible \/ end_closemirror \/ end_connect \/ end_combine
    <2>1. UNCHANGED <<batch, dellocs, record, filled, requests, edge_cache, faults, found>>
      BY <1>2 DEF WorkerCommits, target_stuff, begin_step, discover_whats_possible, end_closemirror, end_connect, end_combine,
           cache, db
    <2>2. QED BY <2>1, TracedByFrame
  <1>3. CASE follow
    <2>1. /\ UNCHANGED <<batch, dellocs, filled, requests, edge_cache, faults>> /\ batch = {} /\ requests = {}
          /\ record' \in {"no", "trace", "end"} /\ (record' = "end" => found' = {})
      BY <1>1, <1>3 DEF follow, cache, db, Where
    <2>2. QED BY <1>1, <2>1 DEF Traced, Outputs, Known, TableOf, inputs
  <1>4. CASE fill_cache
    BY <1>4, FillKeepsTraced
  <1>5. CASE commit_combine_result_full \/ commit_connect_result_full
    BY <1>5, FillsKeepsTraced
  <1>6. CASE collect
    BY <1>6, CollectKeepsTraced
  <1>7. CASE deleted_locations
    BY <1>7, DelLocsKeepsTraced
  <1>8. CASE print \/ end_record
    <2>1. /\ UNCHANGED <<dellocs, edge_cache, filled, faults>> /\ batch = {} /\ batch' = {} /\ found' = {} /\ record' \in {"no", "end"}
      BY <1>1, <1>8 DEF print, end_record, Throws, db, Where
    <2>2. QED BY <1>1, <2>1 DEF Traced, Outputs, Known, TableOf, inputs
  <1>9. CASE RunnerFails
    <2>1. /\ UNCHANGED <<dellocs, edge_cache, filled>> /\ faults' # 0 /\ batch' = {} /\ record' = "no"
      BY <1>1, <1>9, ReportAssumption DEF RunnerFails, Throws, db, Types, TypeOK
    <2>2. QED BY <2>1 DEF Traced, Outputs
  <1>10. QED BY <1>2, <1>3, <1>4, <1>5, <1>6, <1>7, <1>8, <1>9 DEF Next, ReportStep

-----------------------------------------------------------------------------
(* Reported is kept.                                                       *)

\* c2 has all that c has.
Extends(c, c2) == DOMAIN c \subseteq DOMAIN c2 /\ \A g \in DOMAIN c : c2[g] = c[g]

\* A derivation that is cached in full stays what it is.
LEMMA SameDerivation ==
  ASSUME NEW c, NEW c2, IsFiniteSet(DOMAIN c), IsFiniteSet(DOMAIN c2), Extends(c, c2),
         NEW g, Sortable(c, g)
  PROVE  Sortable(c2, g) /\ toposort_provs(c2, g) = toposort_provs(c, g)
  <1> DEFINE C == Closure(c, {g})
             D == Closure(c2, {g})
  <1>1. /\ {g} \subseteq C /\ \A h \in C \cap DOMAIN c : inputs(c[h]) \subseteq C
        /\ \A s : {g} \subseteq s /\ (\A h \in s \cap DOMAIN c : inputs(c[h]) \subseteq s) => C \subseteq s
    BY ClosureIsLeast
  <1>2. /\ {g} \subseteq D /\ \A h \in D \cap DOMAIN c2 : inputs(c2[h]) \subseteq D
        /\ \A s : {g} \subseteq s /\ (\A h \in s \cap DOMAIN c2 : inputs(c2[h]) \subseteq s) => D \subseteq s
    BY ClosureIsLeast
  <1>3. C \subseteq DOMAIN c
    BY DEF Sortable
  <1>4. toposort_provs(c, g) = Sorted({c[h] : h \in C}) /\ toposort_provs(c2, g) = Sorted({c2[h] : h \in D})
    BY DEF toposort_provs
  <1>5. Sortable(c2, g) <=> D \subseteq DOMAIN c2
    BY DEF Sortable
  <1> HIDE DEF C, D
  <1>6. D \subseteq C
    BY <1>1, <1>2, <1>3 DEF Extends
  <1>7. C \subseteq D
    BY <1>1, <1>2 DEF Extends
  <1>8. D = C
    BY <1>6, <1>7
  <1>9. {c2[h] : h \in D} = {c[h] : h \in C}
    BY <1>3, <1>8 DEF Extends
  <1>10. D \subseteq DOMAIN c2
    BY <1>3, <1>8 DEF Extends
  <1>11. QED BY <1>4, <1>5, <1>9, <1>10

\* What is reported of a gadget.
ReportedAs(g, tc, ec, pr) ==
  /\ Sortable(ec, g)
  /\ \/ <<g, toposort_provs(tc, g), toposort_provs(ec, g)>> \in pr
     \/ toposort_provs(tc, g) = toposort_provs(ec, g)

LEMMA ReportedIs ==
  Reported <=> (faults = 0 /\ pc # "terminated" =>
    \A g \in ((closed \ Source) \cap DOMAIN target_cache) \ found : ReportedAs(g, target_cache, edge_cache, printed))
  BY DEF Reported, ReportedAs, Derivation

LEMMA ReportedAsKept ==
  ASSUME Types, NEW ec, IsFiniteSet(DOMAIN ec), Extends(edge_cache, ec),
         NEW g, ReportedAs(g, target_cache, edge_cache, printed)
  PROVE  ReportedAs(g, target_cache, ec, printed)
  <1>1. IsFiniteSet(DOMAIN edge_cache)
    <2>1. DOMAIN edge_cache \subseteq Gadget /\ IsFiniteSet(Gadget)
      BY ReportAssumption DEF Types, TypeOK
    <2>2. QED BY <2>1, FS_Subset
  <1>2. Sortable(edge_cache, g)
    BY DEF ReportedAs
  <1>3. Sortable(ec, g) /\ toposort_provs(ec, g) = toposort_provs(edge_cache, g)
    BY <1>1, <1>2, SameDerivation
  <1>4. QED BY <1>3 DEF ReportedAs

LEMMA KeepsReported ==
  ASSUME IInv, Next, Types'
  PROVE  Reported'
  <1>1. Types /\ Where /\ Traced /\ Reported
    BY DEF IInv
  <1> DEFINE Targets == ((closed \ Source) \cap DOMAIN target_cache) \ found
             Concern == faults = 0 /\ pc # "terminated"
  <1>2. Concern => \A g \in Targets : ReportedAs(g, target_cache, edge_cache, printed)
    BY <1>1, ReportedIs
  <1>3. SUFFICES Concern' => \A g \in Targets' : ReportedAs(g, target_cache', edge_cache', printed')
    <2>1. Reported' <=> (Concern' => \A g \in Targets' : ReportedAs(g, target_cache', edge_cache', printed'))
      BY DEF Reported, ReportedAs, Derivation
    <2>2. QED BY <2>1
  <1>4. CASE UNCHANGED <<closed, target_cache, found, edge_cache, printed>> /\ (Concern' => Concern)
    BY <1>2, <1>4
  <1>5. CASE WorkerCommits \/ begin_step \/ discover_whats_possible \/ end_closemirror \/ end_connect \/ end_combine
              \/ commit_combine_result_full \/ commit_connect_result_full
    <2>1. UNCHANGED <<closed, target_cache, found, edge_cache, printed>> /\ (Concern' => Concern)
      BY <1>5 DEF WorkerCommits, begin_step, discover_whats_possible, end_closemirror, end_connect, end_combine,
           commit_combine_result_full, commit_connect_result_full, Fills, search, cache, Step
    <2>2. QED BY <1>4, <2>1
  <1>6. CASE deleted_locations
    <2>1. UNCHANGED <<closed, target_cache, found, edge_cache, printed, pc, faults>>
      BY <1>6, DelLocsKeepsTraced DEF deleted_locations, search
    <2>2. QED BY <1>4, <2>1
  <1>7. CASE target_stuff
    <2>1. Targets' = {}
      BY <1>1, <1>7 DEF target_stuff, search, Where
    <2>2. QED BY <2>1
  <1>8. CASE follow
    <2> DEFINE new == New({e \in Edges(Foremost(todo)) : e[1] \in possible})
    <2>1. closed' = closed \cup new /\ found' = new \cap DOMAIN target_cache /\ UNCHANGED <<target_cache, edge_cache, printed, pc, faults>>
      BY <1>8 DEF follow, cache
    <2>2. found = {}
      BY <1>1, <1>8 DEF follow, Where
    <2> HIDE DEF new
    <2>3. Targets' \subseteq Targets /\ (Concern' => Concern)
      BY <2>1, <2>2
    <2> HIDE DEF Targets, Concern
    <2>4. QED BY <1>2, <2>1, <2>3
  <1>9. CASE fill_cache \/ collect
    <2>1. PICK ps : edge_cache' = Cached(ps)
      BY <1>9 DEF fill_cache, collect
    <2>2. Extends(edge_cache, edge_cache')
      BY <2>1, CachedIs DEF Extends
    <2>3. UNCHANGED <<closed, found, target_cache, printed, pc, faults>>
      BY <1>9 DEF fill_cache, collect, search
    <2>4. IsFiniteSet(DOMAIN edge_cache')
      <3>1. DOMAIN edge_cache' \subseteq Gadget /\ IsFiniteSet(Gadget)
        BY ReportAssumption DEF Types, TypeOK
      <3>2. QED BY <3>1, FS_Subset
    <2>5. \A g \in Targets : Concern => ReportedAs(g, target_cache, edge_cache', printed)
      <3> HIDE DEF Targets, Concern
      <3>1. QED BY <1>1, <1>2, <2>2, <2>4, ReportedAsKept
    <2>6. QED BY <2>3, <2>5
  <1>10. CASE print
    <2>1. SUFFICES ASSUME faults = 0 PROVE \A g \in Targets' : ReportedAs(g, target_cache', edge_cache', printed')
      BY <1>10 DEF print
    <2>2. \A g \in found : Sortable(edge_cache, g)
      BY <1>10, <2>1, PrintSorts DEF print
    <2>3. printed' = printed \cup Printed(found) /\ UNCHANGED <<closed, target_cache, edge_cache, pc>> /\ pc # "terminated"
      <3>1. {g \in found : ~Sortable(edge_cache, g)} = {}
        BY <2>2
      <3>2. {g \in found : \A b \in {} : g < b} = found
        OBVIOUS
      <3>3. pc # "terminated"
        BY <1>1, <1>10 DEF print, Where, Step
      <3>4. QED BY <1>10, <3>1, <3>2, <3>3 DEF print, search
    <2>4. \A g \in found : ReportedAs(g, target_cache, edge_cache, printed')
      <3>1. \A g \in found : \/ Derivation(g) \in Printed(found)
                             \/ toposort_provs(target_cache, g) = toposort_provs(edge_cache, g)
        BY DEF Printed, Derivation
      <3>2. QED BY <2>2, <2>3, <3>1 DEF ReportedAs, Derivation
    <2>5. \A g \in Targets : ReportedAs(g, target_cache, edge_cache, printed')
      BY <1>2, <2>1, <2>3 DEF ReportedAs
    <2>6. QED BY <2>3, <2>4, <2>5
  <1>11. CASE end_record
    <2>1. UNCHANGED <<closed, target_cache, edge_cache, printed, faults>> /\ found = {} /\ found' = {} /\ (Concern' => Concern)
      BY <1>1, <1>11 DEF end_record, Throws, search, Where, Step
    <2>2. QED BY <1>4, <2>1
  <1>12. CASE RunnerFails
    <2>1. faults' # 0
      BY <1>1, <1>12, ReportAssumption DEF RunnerFails, Types, TypeOK
    <2>2. QED BY <2>1
  <1>13. QED BY <1>5, <1>6, <1>7, <1>8, <1>9, <1>10, <1>11, <1>12 DEF Next, ReportStep

-----------------------------------------------------------------------------
(* Followed is kept.                                                       *)

\* The entry of the provenances that has a gadget is the only one.
provenance(pr, g) == LET i == CHOOSE i \in DOMAIN pr : g \in DOMAIN pr[i] IN pr[i][g]

LEMMA OnlyProvenance ==
  ASSUME NEW pr, NEW cl, NEW rights, NEW dn, FoundedBy(pr, cl, rights, dn),
         NEW i \in DOMAIN pr, NEW g \in DOMAIN pr[i]
  PROVE  provenance(pr, g) = pr[i][g]
  <1>1. DOMAIN pr = 1..Len(pr) /\ Len(pr) \in Nat
    BY LenProperties DEF FoundedBy
  <1>2. ASSUME NEW j \in DOMAIN pr, NEW k \in DOMAIN pr, j < k, g \in DOMAIN pr[j], g \in DOMAIN pr[k]
        PROVE  FALSE
    <2>1. j \in 1..(k - 1)
      BY <1>1, <1>2
    <2>2. g \in Upto(pr, k)
      BY <1>2, <2>1 DEF Upto
    <2>3. QED BY <1>2, <2>2 DEF FoundedBy
  <1>3. \A j \in DOMAIN pr : g \in DOMAIN pr[j] => j = i
    <2> SUFFICES ASSUME NEW j \in DOMAIN pr, g \in DOMAIN pr[j], j # i PROVE FALSE
      OBVIOUS
    <2>1. j < i \/ i < j
      BY <1>1
    <2>2. QED BY <1>2, <2>1
  <1>4. QED BY <1>3 DEF provenance

\* A mirror image stays one, and what mirroring discovers is one.
LEMMA MirrorsStay ==
  ASSUME IInv, follow
  PROVE  LET t == Foremost(todo)
             new == New({e \in Edges(t) : e[1] \in possible})
         IN  MirrorImages \subseteq MirrorImages' /\ (t[1] = "mirror" => new \subseteq MirrorImages')
  <1> DEFINE t == Foremost(todo)
             E == {e \in Edges(t) : e[1] \in possible}
             new == New(E)
  <1>1. Types /\ Founded
    BY DEF IInv
  <1>2. FoundedBy(prov, closed, pool, done) /\ FoundedBy(prov', closed', pool', done')
    BY <1>1, FollowKeepsFounded DEF Founded
  <1>3. MirrorImages = {g \in closed \ Source : provenance(prov, g).kind = "mirror"}
    BY DEF MirrorImages, find_sp, provenance
  <1>4. MirrorImages' = {g \in closed' \ Source : provenance(prov', g).kind = "mirror"}
    BY DEF MirrorImages, find_sp, provenance
  <1>5. closed' = closed \cup new /\ new \cap closed = {} /\ Source \subseteq closed
    BY <1>1 DEF follow, New, Types
  <1>6. new = {} => prov' = prov
    BY DEF follow
  <1>7. new # {} => \E choice \in ProvsOf(t[1], E, new) : prov' = Append(prov, choice)
    BY DEF follow
  <1> HIDE DEF E, new, t
  <1>8. CASE new = {}
    <2>1. MirrorImages' = MirrorImages
      BY <1>3, <1>4, <1>5, <1>6, <1>8
    <2>2. QED BY <1>8, <2>1 DEF t, E, new
  <1>9. CASE new # {}
    <2>1. PICK choice \in ProvsOf(t[1], E, new) : prov' = Append(prov, choice)
      BY <1>7, <1>9
    <2>2. /\ DOMAIN choice = new /\ choice = [g \in new |-> choice[g]]
          /\ \A g \in new : choice[g] = Prov(t[1], g, choice[g].input, 0) /\ <<choice[g].input, g>> \in E
      BY ChosenProvs
    <2>3. prov \in Seq(Provs) /\ prov' \in Seq(Provs)
      BY <1>2 DEF FoundedBy
    <2>4. /\ Len(prov') = Len(prov) + 1 /\ Len(prov) \in Nat
          /\ DOMAIN prov = 1..Len(prov) /\ DOMAIN prov' = 1..(Len(prov) + 1)
          /\ \A i \in 1..Len(prov) : prov'[i] = prov[i]
          /\ prov'[Len(prov) + 1] = choice
      BY <2>1, <2>3
    <2>5. \A g \in MirrorImages : g \in MirrorImages'
      <3> SUFFICES ASSUME NEW g \in MirrorImages PROVE g \in MirrorImages'
        OBVIOUS
      <3>1. g \in closed \ Source /\ find_sp(g).kind = "mirror"
        BY DEF MirrorImages
      <3>2. PICK i \in DOMAIN prov : g \in DOMAIN prov[i] /\ find_sp(g) = prov[i][g]
        BY <1>1, <3>1, FoundProv
      <3>3. i \in DOMAIN prov' /\ prov'[i] = prov[i]
        BY <2>4
      <3>4. provenance(prov', g) = prov[i][g]
        BY <1>2, <3>2, <3>3, OnlyProvenance
      <3>5. QED BY <1>4, <1>5, <3>1, <3>2, <3>4
    <2>6. ASSUME t[1] = "mirror", NEW g \in new PROVE g \in MirrorImages'
      <3>1. Len(prov) + 1 \in DOMAIN prov' /\ g \in DOMAIN prov'[Len(prov) + 1]
        BY <2>2, <2>4
      <3>2. provenance(prov', g) = choice[g]
        BY <1>2, <2>4, <3>1, OnlyProvenance
      <3>3. choice[g].kind = "mirror"
        <4>1. choice[g] = Prov(t[1], g, choice[g].input, 0)
          BY <2>2
        <4>2. Prov(t[1], g, choice[g].input, 0).kind = t[1]
          BY DEF Prov
        <4>3. QED BY <2>6, <4>1, <4>2
      <3>4. QED BY <1>4, <1>5, <3>2, <3>3
    <2>7. QED BY <2>5, <2>6 DEF t, E, new
  <1>10. QED BY <1>8, <1>9

LEMMA FollowKeepsFollowed ==
  ASSUME IInv, follow
  PROVE  Followed'
  <1> DEFINE T == Foremost(todo)
             E == {e \in Edges(T) : e[1] \in possible}
             new == New(E)
  <1>1. Types /\ Where /\ Followed
    BY DEF IInv
  <1>2. /\ T \in todo /\ T \in Table /\ StepOf(T) = pc /\ pc \in Step
    BY FollowTypes DEF follow
  <1>3. /\ closed' = closed \cup new /\ awaiting' = Awaiting(T[1], new)
        /\ next' = (IF T \in Skinny THEN next \cup new ELSE next)
        /\ todo' = todo \ {T} /\ possible # {} /\ record = "no"
        /\ UNCHANGED <<done, opt, pc, pool>>
    BY DEF follow, db
  <1>4. MirrorImages \subseteq MirrorImages' /\ (T[1] = "mirror" => new \subseteq MirrorImages')
    BY MirrorsStay
  <1>5. awaiting[pc] \cap Done[T] \subseteq possible
    BY <1>1, <1>3 DEF Where
  <1>6. \A e \in Makes[T] : e[1] \in possible \cap Done[T] => e[2] \in closed'
    <2>1. ASSUME NEW e \in Makes[T], e[1] \in possible \cap Done[T] PROVE e \in E
      BY <1>1, <1>2, <2>1 DEF Edges, Types
    <2>2. \A e \in E : e[2] \in closed \cup new
      BY DEF New
    <2>3. QED BY <1>3, <2>1, <2>2
  <1>7. ASSUME NEW g \in new PROVE \E e \in Makes[T] : g = e[2]
    BY DEF New, Edges
  <1>8. T[1] \in {"close", "mirror", "connect", "combine"} /\ (T \in Simple <=> T[1] \in {"close", "mirror"})
        /\ (T \in Skinny <=> T[1] \in {"connect", "combine"}) /\ (T[1] \notin {"combine"} => T = <<T[1], 0>>)
    BY <1>2, Tables DEF Simple, Skinny
  <1>9. \A k \in Step : /\ awaiting[k] \subseteq awaiting'[k]
                        /\ (k = "closemirror" => T[1] # "mirror") /\ k # T[1] => new \subseteq awaiting'[k]
    <2> HIDE DEF T, new
    <2>1. QED BY <1>3 DEF Awaiting, Step
  <1>10. next \subseteq next' /\ (T \in Skinny => new \subseteq next')
    BY <1>3
  <1>11. <<"close", 0>> \in todo /\ ~opt.skip_mirror => <<"mirror", 0>> \in todo
    BY <1>1 DEF Where
  <1> HIDE DEF T, E, new
  <1> SUFFICES ASSUME NEW t \in Following', NEW g \in closed' \ (IF t \in Simple THEN MirrorImages' ELSE {})
               PROVE  g \in Open(t)' \/ FollowedFrom(t, g, closed')
    BY DEF Followed, FollowedFrom
  <1>12. t \in Following /\ t \in Table
    BY <1>3 DEF Following
  <1>13. StepOf(t) \in Step /\ (t \in Simple => StepOf(t) = "closemirror") /\ (t \in Skinny => StepOf(t) = t[1] /\ t \notin Simple)
         /\ (t \in Skinny \/ t \in Simple) /\ (t \in Simple => t \in {<<"close", 0>>, <<"mirror", 0>>})
    BY <1>12, Tables DEF StepOf, Simple, Skinny
  <1>14. pc = StepOf(t) => (g \in next' \/ (t \in todo' /\ g \in awaiting'[pc]) <=> g \in Open(t)')
    BY <1>3 DEF Open
  <1>15. pc # StepOf(t) => (g \in awaiting'[StepOf(t)] <=> g \in Open(t)')
    BY <1>3 DEF Open
  <1>16. CASE g \in closed
    <2>1. g \in Open(t) \/ FollowedFrom(t, g, closed)
      BY <1>1, <1>2, <1>4, <1>12, <1>16 DEF Followed, Step
    <2>2. CASE FollowedFrom(t, g, closed)
      BY <1>3, <2>2 DEF FollowedFrom
    <2>3. CASE g \in Open(t) /\ pc # StepOf(t)
      BY <1>9, <1>13, <1>15, <2>3 DEF Open
    <2>4. CASE g \in Open(t) /\ pc = StepOf(t)
      <3>1. CASE g \in next
        BY <1>10, <1>14, <2>4, <3>1
      <3>2. CASE t \in todo /\ g \in awaiting[pc] /\ t # T
        BY <1>2, <1>3, <1>9, <1>14, <2>4, <3>2
      <3>3. CASE t = T /\ g \in awaiting[pc]
        BY <1>5, <1>6, <3>3 DEF FollowedFrom
      <3>4. QED BY <2>4, <3>1, <3>2, <3>3 DEF Open
    <2>5. QED BY <2>1, <2>2, <2>3, <2>4
  <1>17. CASE g \in new
    <2>1. CASE t \in Skinny /\ pc = StepOf(t)
      <3>1. T \in Skinny
        BY <1>2, <1>8, <1>13, <2>1, Tables DEF StepOf, Skinny, Simple
      <3>2. QED BY <1>10, <1>14, <1>17, <2>1, <3>1
    <2>2. CASE t \in Skinny /\ pc # StepOf(t)
      <3>1. StepOf(t) # T[1] /\ StepOf(t) # "closemirror"
        BY <1>2, <1>8, <1>12, <1>13, <2>2 DEF StepOf, Skinny, Simple
      <3>2. QED BY <1>9, <1>13, <1>15, <1>17, <2>2, <3>1
    <2>3. CASE t \in Simple
      <3>1. T[1] # "mirror"
        BY <1>4, <1>17, <2>3
      <3>2. CASE T \in Skinny
        <4>1. pc # "closemirror" /\ T[1] # "closemirror"
          BY <1>2, <1>8, <3>2 DEF StepOf
        <4>2. QED BY <1>9, <1>13, <1>15, <1>17, <2>3, <3>1, <4>1
      <3>3. CASE T \notin Skinny
        <4>1. T = <<"close", 0>> /\ pc = "closemirror"
          BY <1>2, <1>8, <3>1, <3>3 DEF StepOf
        <4>2. CASE t = <<"mirror", 0>>
          <5>1. ~opt.skip_mirror
            BY <1>12, <4>2 DEF Following
          <5>2. t \in todo'
            BY <1>2, <1>3, <1>11, <4>1, <4>2, <5>1
          <5>3. g \in awaiting'[pc]
            BY <1>2, <1>9, <1>17, <4>1
          <5>4. QED BY <1>13, <1>14, <2>3, <4>1, <5>2, <5>3
        <4>3. CASE t = <<"close", 0>>
          <5>1. PICK e \in Makes[<<"close", 0>>] : g = e[2]
            BY <1>7, <1>17, <4>1
          <5>2. \A f \in Makes[<<"close", 0>>] : f[1] = g => f[2] = g
            BY <5>1, ReportAssumption
          <5>3. QED BY <1>3, <1>17, <4>3, <5>2 DEF FollowedFrom
        <4>4. QED BY <1>13, <2>3, <4>2, <4>3
      <3>4. QED BY <3>2, <3>3
    <2>4. QED BY <1>13, <2>1, <2>2, <2>3
  <1>18. QED BY <1>3, <1>16, <1>17

LEMMA KeepsFollowed ==
  ASSUME IInv, Next, Where'
  PROVE  Followed'
  <1> USE DEF db, search, cache
  <1>1. Types /\ Where /\ Followed
    BY DEF IInv
  <1>2. CASE follow
    BY <1>2, FollowKeepsFollowed
  <1>3. CASE UNCHANGED <<closed, prov, opt>> /\ pool' = pool /\ pc # "terminated"
             /\ (pc' # "terminated" => \A t \in Following : \A g \in closed : g \in Open(t) => g \in Open(t)' \/ g \notin Done[t])
    <2>1. Following' = Following /\ MirrorImages' = MirrorImages
      BY <1>3 DEF Following, MirrorImages, find_sp
    <2>2. QED BY <1>1, <1>3, <2>1 DEF Followed, FollowedFrom
  <1>4. CASE pc = "terminated"
    <2>1. UNCHANGED pc
      BY <1>1, <1>4 DEF Next, ReportStep, RunnerFails, WorkerCommits, target_stuff, begin_step, discover_whats_possible, end_connect,
             end_combine, end_closemirror, follow, fill_cache, commit_combine_result_full, commit_connect_result_full, Fills, collect,
             deleted_locations, print, end_record, Throws, Where, Step
    <2>2. QED BY <1>4, <2>1 DEF Followed
  <1>5. CASE (WorkerCommits \/ target_stuff \/ fill_cache \/ commit_combine_result_full \/ commit_connect_result_full \/ collect
              \/ deleted_locations \/ print \/ end_record \/ RunnerFails) /\ pc # "terminated"
    <2>1. UNCHANGED search /\ UNCHANGED opt /\ (pc' \in {pc, "terminated"} \/ (pc = "start" /\ pc' = "loop"))
      BY <1>5 DEF RunnerFails, WorkerCommits, target_stuff, fill_cache, commit_combine_result_full, commit_connect_result_full, Fills,
           collect, deleted_locations, print, end_record, Throws
    <2>2. ASSUME NEW t \in Following, pc' # "terminated" PROVE Open(t)' = Open(t)
      <3>1. StepOf(t) \in Step
        BY Tables DEF Following
      <3>2. pc = StepOf(t) <=> pc' = StepOf(t)
        BY <2>1, <2>2, <3>1 DEF Step
      <3>3. QED BY <2>1, <3>2 DEF Open
    <2>3. QED BY <1>3, <1>5, <2>1, <2>2
  <1>6. CASE begin_step
    <2>1. /\ UNCHANGED <<closed, prov, opt, pool, awaiting, next>> /\ pc = "loop"
      BY <1>6 DEF begin_step
    <2>2. ASSUME NEW t \in Following, NEW g \in closed, g \in Open(t) PROVE g \in Open(t)'
      <3>1. StepOf(t) \in Step /\ t \in Table
        BY Tables DEF Following
      <3>2. g \in awaiting[StepOf(t)]
        BY <2>1, <2>2, <3>1 DEF Open, Step
      <3>3. pc' = StepOf(t) => t \in todo'
        <4>1. ASSUME pc' = "closemirror", t \in Simple PROVE t \in todo'
          BY <1>6, <4>1 DEF begin_step, Following, Simple
        <4>2. ASSUME pc' = "connect", t[1] = "connect" PROVE t \in todo'
          <5>1. t = <<"connect", 0>>
            BY <3>1, <4>2, Tables
          <5>2. QED BY <1>6, <4>2, <5>1 DEF begin_step
        <4>3. ASSUME pc' = "combine", t[1] = "combine" PROVE t \in todo'
          <5>1. t = <<"combine", t[2]>> /\ t[2] \in pool
            BY <3>1, <4>3, Tables DEF Following
          <5>2. t \in Combining
            BY <5>1 DEF Combining
          <5>3. QED BY <1>6, <4>3, <5>2 DEF begin_step
        <4>4. StepOf(t) = "closemirror" => t \in Simple
          BY <3>1, Tables DEF StepOf
        <4>5. StepOf(t) \in {"connect", "combine"} => t[1] = StepOf(t)
          BY DEF StepOf
        <4>6. QED BY <3>1, <4>1, <4>2, <4>3, <4>4, <4>5 DEF Step
      <3>4. QED BY <2>1, <3>2, <3>3 DEF Open
    <2>3. QED BY <1>3, <2>1, <2>2
  <1>7. CASE discover_whats_possible
    <2>1. /\ UNCHANGED <<closed, prov, opt, pool, awaiting, next, pc>> /\ pc \in Step /\ todo # {}
          /\ possible' = awaiting[pc] \cap done[Foremost(todo)]
          /\ todo' = (IF possible' = {} THEN todo \ {Foremost(todo)} ELSE todo)
      BY <1>7 DEF discover_whats_possible
    <2>2. ASSUME NEW t \in Following, NEW g \in closed, g \in Open(t) PROVE g \in Open(t)' \/ g \notin Done[t]
      <3>1. Done[t] \subseteq done[t]
        BY <1>1 DEF Types, Following
      <3>2. CASE pc = StepOf(t) /\ t \in todo /\ t \notin todo' /\ g \in awaiting[pc]
        BY <2>1, <3>1, <3>2
      <3>3. CASE ~(pc = StepOf(t) /\ t \in todo /\ t \notin todo' /\ g \in awaiting[pc])
        BY <2>1, <2>2, <3>3 DEF Open
      <3>4. QED BY <3>2, <3>3
    <2>3. QED BY <1>3, <2>1, <2>2 DEF Step
  <1>8. CASE end_closemirror
    <2>1. /\ UNCHANGED <<closed, prov, opt, next>> /\ awaiting' = [awaiting EXCEPT !.closemirror = {}]
          /\ pool' = (IF pool = {} THEN Rights \cap closed ELSE pool) /\ pc = "closemirror" /\ todo = {} /\ pc' \in {"loop", "terminated"}
      BY <1>8 DEF end_closemirror
    <2>2. next = {} /\ (pool = {} => closed \subseteq awaiting.combine) /\ awaiting \in [Step -> SUBSET Gadget]
      BY <1>1, <2>1 DEF Where, Types
    <2>3. SUFFICES ASSUME NEW t \in Following', NEW g \in closed \ (IF t \in Simple THEN MirrorImages ELSE {}), pc' = "loop"
                   PROVE  g \in Open(t)' \/ FollowedFrom(t, g, closed)
      <3>1. MirrorImages' = MirrorImages
        BY <2>1 DEF MirrorImages, find_sp
      <3>2. QED BY <2>1, <3>1 DEF Followed, FollowedFrom
    <2>4. t \in Table /\ StepOf(t) \in Step
      BY Tables DEF Following
    <2>5. CASE t \in Following
      <3>1. g \in Open(t) => StepOf(t) # "closemirror" /\ g \in awaiting[StepOf(t)]
        BY <2>1, <2>2 DEF Open
      <3>2. StepOf(t) # "closemirror" => awaiting'[StepOf(t)] = awaiting[StepOf(t)]
        BY <2>1, <2>2, <2>4 DEF Step
      <3>3. Open(t)' = awaiting'[StepOf(t)]
        BY <2>3, <2>4 DEF Open, Step
      <3>4. QED BY <1>1, <2>1, <2>3, <2>5, <3>1, <3>2, <3>3 DEF Followed
    <2>6. CASE t \notin Following
      <3>1. t[1] = "combine" /\ pool # pool'
        BY <2>1, <2>6 DEF Following
      <3>2. StepOf(t) = "combine" /\ pool = {}
        BY <2>1, <3>1 DEF StepOf, Simple
      <3>3. Open(t)' = awaiting.combine
        BY <2>1, <2>2, <2>3, <3>2 DEF Open, Step
      <3>4. QED BY <2>2, <3>2, <3>3
    <2>7. QED BY <2>5, <2>6
  <1>9. CASE end_connect \/ end_combine
    <2>1. /\ UNCHANGED <<closed, prov, opt, pool>> /\ awaiting' = [awaiting EXCEPT ![pc] = next] /\ pc \in Step /\ pc' = "loop" /\ todo = {}
      BY <1>9 DEF end_connect, end_combine, Step
    <2>2. ASSUME NEW t \in Following, NEW g \in closed, g \in Open(t) PROVE g \in Open(t)'
      <3>1. StepOf(t) \in Step /\ awaiting \in [Step -> SUBSET Gadget]
        BY <1>1, Tables DEF Following, Types
      <3>2. Open(t)' = awaiting'[StepOf(t)]
        BY <2>1, <3>1 DEF Open, Step
      <3>3. Open(t) \subseteq awaiting'[StepOf(t)]
        BY <2>1, <3>1 DEF Open, Step
      <3>4. QED BY <2>2, <3>2, <3>3
    <2>3. QED BY <1>3, <2>1, <2>2 DEF Step
  <1>10. QED BY <1>2, <1>4, <1>5, <1>6, <1>7, <1>8, <1>9 DEF Next, ReportStep

-----------------------------------------------------------------------------
(* The report gives up for cause, and the theorems.                        *)

LEMMA KeepsCause ==
  ASSUME IInv, Next
  PROVE  GivesUpForCause'
  <1>1. Types /\ Where /\ Traced /\ GivesUpForCause
    BY DEF IInv
  <1>2. CASE WorkerCommits
    BY <1>1, <1>2 DEF WorkerCommits, search, GivesUpForCause
  <1>3. CASE target_stuff \/ begin_step \/ end_connect \/ end_combine
    BY <1>3 DEF target_stuff, begin_step, end_connect, end_combine, GivesUpForCause
  <1>4. CASE discover_whats_possible \/ follow \/ fill_cache \/ commit_combine_result_full \/ commit_connect_result_full \/ collect
    <2>1. pc' = pc /\ (pc \in Step \/ record # "no")
      BY <1>4 DEF discover_whats_possible, follow, fill_cache, commit_combine_result_full, commit_connect_result_full, Fills, collect
    <2>2. QED BY <1>1, <2>1 DEF Where, Step, GivesUpForCause
  <1>5. CASE end_closemirror
    BY <1>5 DEF end_closemirror, GivesUpForCause
  <1>6. CASE deleted_locations
    <2>1. pc' = pc /\ record # "no"
      BY <1>6, DelLocsKeepsTraced DEF deleted_locations
    <2>2. QED BY <1>1, <2>1 DEF Where, Step, GivesUpForCause
  <1>7. CASE print
    <2>1. CASE faults = 0
      <3>1. {g \in found : ~Sortable(edge_cache, g)} = {}
        BY <1>7, <2>1, PrintSorts DEF print
      <3>2. pc' = pc /\ record # "no"
        BY <1>7, <3>1 DEF print
      <3>3. QED BY <1>1, <3>2 DEF Where, Step, GivesUpForCause
    <2>2. CASE faults # 0
      <3>1. faults' > 0
        BY <1>1, <1>7, <2>2, ReportAssumption DEF print, Types, TypeOK
      <3>2. QED BY <3>1 DEF GivesUpForCause
    <2>3. QED BY <2>1, <2>2
  <1>8. CASE end_record
    <2>1. (pc' = pc \/ opt'.combine_all) /\ record # "no"
      BY <1>8 DEF end_record, Throws
    <2>2. QED BY <1>1, <2>1 DEF Where, Step, GivesUpForCause
  <1>9. CASE RunnerFails
    <2>1. faults' > 0
      BY <1>1, <1>9, ReportAssumption DEF RunnerFails, Types, TypeOK
    <2>2. QED BY <2>1 DEF GivesUpForCause
  <1>10. QED BY <1>2, <1>3, <1>4, <1>5, <1>6, <1>7, <1>8, <1>9 DEF Next, ReportStep

LEMMA IInvAtFirst == Init => IInv
  <1> SUFFICES ASSUME Init PROVE IInv
    OBVIOUS
  <1> USE DEF Init
  <1>1. Types
    <2>1. 0 \notin Gadget /\ Source \subseteq Gadget
      BY Tables, ReportAssumption
    <2>2. \A g \in Source : edge_cache[g] \in ProvType /\ edge_cache[g].output = g
                            /\ (edge_cache[g].kind = "combine") = (edge_cache[g].right # 0)
      BY <2>1 DEF source, Prov, ProvType
    <2>3. awaiting \in [Step -> SUBSET Gadget] /\ \A k \in Step : awaiting[k] \subseteq closed
      BY <2>1 DEF Step
    <2>4. TypeOK
      <3>1. DOMAIN target_cache = {} /\ DOMAIN edge_cache = Source
        OBVIOUS
      <3>2. \A c \in {edge_cache, target_cache} : \A g \in DOMAIN c :
              c[g] \in ProvType /\ c[g].output = g /\ (c[g].kind = "combine") = (c[g].right # 0)
        BY <2>2, <3>1
      <3>3. done \in [Table -> SUBSET Gadget] /\ filled \subseteq Skinny \X Gadget /\ faults \in 0..MaxFaults
        BY ReportAssumption
      <3>4. QED BY <2>1, <2>3, <3>2, <3>3 DEF TypeOK
    <2>5. QED BY <2>1, <2>3, <2>4 DEF Types
  <1>2. Where
    BY ReportAssumption DEF Where, Step
  <1>3. Founded
    <2>1. prov \in Seq(Provs) /\ Len(prov) = 0 /\ DOMAIN prov = {}
      OBVIOUS
    <2>2. Upto(prov, 1) = Source
      BY DEF Upto
    <2>3. QED BY <2>1, <2>2 DEF Founded, FoundedBy
  <1>4. Followed
    <2>1. ASSUME NEW t \in Following PROVE Open(t) = Source
      <3>1. StepOf(t) \in Step
        BY Tables DEF Following
      <3>2. QED BY <3>1 DEF Open, Step
    <2>2. QED BY <2>1 DEF Followed
  <1>5. Traced
    BY DEF Traced, Outputs, Known, source, Prov, inputs, TableOf, Skinny
  <1>6. Reported
    BY DEF Reported
  <1>7. GivesUpForCause
    BY DEF GivesUpForCause
  <1>8. QED BY <1>1, <1>2, <1>3, <1>4, <1>5, <1>6, <1>7 DEF IInv

LEMMA IInvIsKept == IInv /\ [Next]_vars => IInv'
  <1>1. CASE IInv /\ Next
    <2>1. Types' /\ Where'
      BY <1>1, Shape
    <2>2. Founded' /\ Traced' /\ Reported' /\ Followed' /\ GivesUpForCause'
      BY <1>1, <2>1, KeepsFounded, KeepsTraced, KeepsReported, KeepsFollowed, KeepsCause
    <2>3. QED BY <2>1, <2>2 DEF IInv
  <1>2. CASE IInv /\ UNCHANGED vars
    <2>1. UNCHANGED <<done, filled, opt, pc, record, target_cache, closed, awaiting, pool, todo, possible, next, prov, found,
                      edge_cache, dellocs, batch, requests, printed, faults>>
      BY <1>2 DEF vars, db, search, cache
    <2>2. Types' /\ Where' /\ Founded'
      BY <1>2, <2>1 DEF IInv, Types, TypeOK, Where, Founded
    <2>3. Followed' /\ GivesUpForCause'
      BY <1>2, <2>1 DEF IInv, Followed, FollowedFrom, Following, MirrorImages, find_sp, Open, GivesUpForCause
    <2>4. Traced'
      BY <1>2, <2>1 DEF IInv, Traced, FromClosed, Edges, Known
    <2>5. Reported'
      BY <1>2, <2>1 DEF IInv, Reported, Derivation
    <2>6. QED BY <2>2, <2>3, <2>4, <2>5 DEF IInv
  <1>3. QED BY <1>1, <1>2

LEMMA IInvAlways == Spec => []IInv
  <1>1. Init => IInv
    BY IInvAtFirst
  <1>2. IInv /\ [Next]_vars => IInv'
    BY IInvIsKept
  <1>3. QED BY <1>1, <1>2, PTL DEF Spec

\* The types: what is being reported has been reached and is a target, the rights
\* of the combines that are cached are known, and the deleted locations are those
\* of gadgets that are cached.
THEOREM ReportTypeCorrect == Spec => []TypeOK
  <1>1. IInv => TypeOK
    BY DEF IInv, Types
  <1>2. QED BY <1>1, IInvAlways, PTL

\* What a report traces back can be traced back, a report that completes has
\* followed all the edges that were there when it began and reported each target
\* unless a runner failed, and one that gives up has a reason: for every database,
\* whatever the workers commit meanwhile and whichever runners fail.
THEOREM OutcomeIsJustified == Spec => []OutcomeJustified
  <1>1. ASSUME IInv PROVE OutcomeJustified
    <2>1. Types /\ Where /\ Founded /\ Followed /\ Traced /\ Reported /\ GivesUpForCause
      BY <1>1 DEF IInv
    <2>2. ProvenanceFounded
      <3>1. FoundedBy(prov, closed, pool, done)
        BY <2>1 DEF Founded
      <3>2. \A i : Before(i) = Upto(prov, i)
        BY DEF Before, Upto, Discovered
      <3>3. \A t : Edges(t) = EdgesIn(t, done)
        BY DEF Edges, EdgesIn
      <3>4. ASSUME NEW i \in DOMAIN prov, NEW g \in DOMAIN prov[i]
            PROVE  \E t \in Table : t[1] = prov[i][g].kind /\ <<prov[i][g].input, g>> \in EdgesIn(t, done)
        <4>1. PICK t \in Table : /\ prov[i][g] = Prov(t[1], g, prov[i][g].input, 0)
                                 /\ <<prov[i][g].input, g>> \in EdgesIn(t, done)
          BY <3>1 DEF FoundedBy
        <4>2. Prov(t[1], g, prov[i][g].input, 0).kind = t[1]
          BY DEF Prov
        <4>3. QED BY <4>1, <4>2
      <3>5. QED BY <3>1, <3>2, <3>3, <3>4 DEF FoundedBy, ProvenanceFounded, Discovered
    <2>3. CacheComplete
      <3>1. record \in {"no", "print", "end"} => batch = {}
        BY <2>1 DEF Where
      <3>2. QED BY <2>1, <3>1 DEF CacheComplete, Traced, Known, Outputs
    <2>4. NothingMissed
      <3>1. ASSUME pc = "completed", NEW t \in Following PROVE Open(t) = {}
        <4>1. StepOf(t) \in Step
          BY Tables DEF Following
        <4>2. QED BY <2>1, <3>1, <4>1 DEF Open, Where, Step
      <3>2. QED BY <2>1, <3>1 DEF NothingMissed, Followed, FollowedFrom
    <2>5. TargetsReported
      <3>1. pc = "completed" => found = {}
        BY <2>1 DEF Where, Step
      <3>2. QED BY <2>1, <3>1 DEF TargetsReported, Reported
    <2>6. QED BY <2>1, <2>2, <2>3, <2>4, <2>5 DEF OutcomeJustified
  <1>2. QED BY <1>1, IInvAlways, PTL

-----------------------------------------------------------------------------
(* toposort_provs: each edge is emitted once, after its inputs.            *)

\* Descending lists a set of edges with different outputs.
LEMMA DescendingIs ==
  ASSUME NEW ps, IsFiniteSet(ps), \A p \in ps : p.output \in Nat,
         \A p, q \in ps : p.output = q.output => p = q
  PROVE  /\ Descending(ps) \in Seq(ps) /\ Len(Descending(ps)) \in Nat
         /\ Range(Descending(ps)) = ps
         /\ \A i, j \in 1..Len(Descending(ps)) : Descending(ps)[i] = Descending(ps)[j] => i = j
  <1> DEFINE n == Cardinality(ps)
             Greater(p) == {q \in ps : q.output > p.output}
             r == [p \in ps |-> Cardinality(Greater(p))]
             d == Descending(ps)
  <1>1. n \in Nat
    BY FS_CardinalityType
  <1>2. ASSUME NEW p \in ps PROVE r[p] \in 0..(n - 1) /\ IsFiniteSet(Greater(p))
    <2>1. Greater(p) \in SUBSET ps /\ p \notin Greater(p)
      OBVIOUS
    <2>2. IsFiniteSet(Greater(p)) /\ Cardinality(Greater(p)) <= n /\ (n = Cardinality(Greater(p)) => ps = Greater(p))
      BY <2>1, FS_Subset
    <2>3. Cardinality(Greater(p)) \in Nat
      BY <2>2, FS_CardinalityType
    <2> HIDE DEF Greater
    <2>4. QED BY <1>1, <2>1, <2>2, <2>3
  <1>3. ASSUME NEW p \in ps, NEW q \in ps, p.output < q.output PROVE r[q] < r[p]
    <2>1. Greater(q) \in SUBSET Greater(p) /\ q \in Greater(p) /\ q \notin Greater(q)
      BY <1>3
    <2>2. Cardinality(Greater(q)) <= Cardinality(Greater(p)) /\ Cardinality(Greater(q)) # Cardinality(Greater(p))
      BY <1>2, <2>1, FS_Subset
    <2> HIDE DEF Greater
    <2>3. r[q] \in Int /\ r[p] \in Int
      BY <1>1, <1>2
    <2>4. QED BY <2>2, <2>3
  <1>4. r \in Injection(ps, 0..(n - 1))
    <2> HIDE DEF r
    <2>1. \A p, q \in ps : p # q => r[p] # r[q]
      <3> SUFFICES ASSUME NEW p \in ps, NEW q \in ps, p # q PROVE r[p] # r[q]
        OBVIOUS
      <3>1. p.output < q.output \/ q.output < p.output
        OBVIOUS
      <3>2. r[p] \in 0..(n - 1) /\ r[q] \in 0..(n - 1)
        BY <1>2
      <3>3. QED BY <1>3, <3>1, <3>2
    <2>2. r \in [ps -> 0..(n - 1)]
      BY <1>2 DEF r
    <2>3. QED BY <2>1, <2>2 DEF Injection, IsInjective
  <1>5. Cardinality(0..(n - 1)) = n /\ IsFiniteSet(0..(n - 1))
    BY <1>1, FS_Interval
  <1>6. r \in Surjection(ps, 0..(n - 1))
    BY <1>4, <1>5, FS_Injection
  <1>7. \A i \in 1..n : \E p \in ps : r[p] = i - 1
    <2>1. \A k \in 0..(n - 1) : \E p \in ps : r[p] = k
      BY <1>6 DEF Surjection
    <2> HIDE DEF r
    <2>2. \A i \in 1..n : i - 1 \in 0..(n - 1)
      BY <1>1
    <2>3. QED BY <2>1, <2>2
  <1>8. d = [i \in 1..n |-> CHOOSE p \in ps : Cardinality(Greater(p)) = i - 1]
    BY DEF Descending
  <1>9. ASSUME NEW i \in 1..n PROVE d[i] \in ps /\ r[d[i]] = i - 1
    <2>1. \E p \in ps : Cardinality(Greater(p)) = i - 1
      BY <1>7
    <2> HIDE DEF d, Greater
    <2>2. d[i] = CHOOSE p \in ps : Cardinality(Greater(p)) = i - 1
      BY <1>8
    <2>3. d[i] \in ps /\ Cardinality(Greater(d[i])) = i - 1
      BY <2>1, <2>2
    <2>4. QED BY <2>3
  <1>10. d \in [1..n -> ps] /\ d \in Seq(ps) /\ Len(d) = n
    <2> HIDE DEF r, d, n
    <2>1. d \in [1..n -> ps]
      BY <1>8, <1>9
    <2>2. QED BY <1>1, <2>1
  <1>11. \A p \in ps : d[r[p] + 1] = p /\ r[p] + 1 \in 1..n
    <2> SUFFICES ASSUME NEW p \in ps PROVE d[r[p] + 1] = p /\ r[p] + 1 \in 1..n
      OBVIOUS
    <2> DEFINE k == r[p] + 1
    <2>1. k \in 1..n /\ k - 1 = r[p]
      BY <1>1, <1>2
    <2>2. d[k] \in ps /\ r[d[k]] = r[p]
      BY <1>9, <2>1
    <2> HIDE DEF r, d, k
    <2>3. d[k] = p
      BY <1>4, <2>2 DEF Injection, IsInjective
    <2>4. QED BY <2>1, <2>3 DEF k
  <1> HIDE DEF r, d, n
  <1>12. Range(d) = ps
    BY <1>9, <1>10, <1>11 DEF Range
  <1>13. \A i, j \in 1..n : d[i] = d[j] => i = j
    BY <1>1, <1>9
  <1>14. QED BY <1>1, <1>10, <1>12, <1>13 DEF d

\* Edges of which no two lead to the same gadget.
Listable(edges) ==
  /\ IsFiniteSet(edges) /\ \A p \in edges : p.output \in Nat
  /\ \A p, q \in edges : p.output = q.output => p = q

Distinct(s) == \A i, j \in 1..Len(s) : s[i] = s[j] => i = j
InputsFirst(s) == \A i \in 1..Len(s) : inputs(s[i]) \subseteq {s[j].output : j \in 1..(i - 1)}

\* Between two turns, the stack has the edges that lack nothing.
Emitting(edges, at) ==
  /\ at \in [ret : Seq(edges), stack : Seq(edges)]
  /\ Distinct(at.ret) /\ Distinct(at.stack) /\ InputsFirst(at.ret)
  /\ Range(at.stack) = {p \in edges \ Range(at.ret) : inputs(p) \subseteq Outputs(Range(at.ret))}

LEMMA ListedIs ==
  ASSUME NEW edges, Listable(edges), NEW ps, ps \subseteq edges
  PROVE  Descending(ps) \in Seq(edges) /\ Range(Descending(ps)) = ps /\ Distinct(Descending(ps))
  <1>1. IsFiniteSet(ps)
    BY FS_Subset DEF Listable
  <1>2. /\ Descending(ps) \in Seq(ps) /\ Range(Descending(ps)) = ps
        /\ \A i, j \in 1..Len(Descending(ps)) : Descending(ps)[i] = Descending(ps)[j] => i = j
    BY <1>1, DescendingIs DEF Listable
  <1>3. Descending(ps) \in Seq(edges)
    BY <1>2, SeqMonotonic
  <1>4. QED BY <1>2, <1>3 DEF Distinct

\* Sequences that have nothing in common.
LEMMA DistinctConcat ==
  ASSUME NEW S, NEW s \in Seq(S), NEW t \in Seq(S), Distinct(s), Distinct(t), Range(s) \cap Range(t) = {}
  PROVE  Distinct(s \o t)
  <1>1. /\ Len(s) \in Nat /\ Len(t) \in Nat /\ Len(s \o t) = Len(s) + Len(t)
        /\ \A i \in 1..(Len(s) + Len(t)) : (s \o t)[i] = IF i <= Len(s) THEN s[i] ELSE t[i - Len(s)]
    BY ConcatProperties, LenProperties
  <1>2. Range(s) = {s[i] : i \in 1..Len(s)} /\ Range(t) = {t[i] : i \in 1..Len(t)}
    BY RangeEquality
  <1>3. \A i \in 1..Len(s), j \in 1..Len(t) : s[i] # t[j]
    BY <1>2
  <1> SUFFICES ASSUME NEW i \in 1..(Len(s) + Len(t)), NEW j \in 1..(Len(s) + Len(t)), (s \o t)[i] = (s \o t)[j]
               PROVE  i = j
    BY <1>1 DEF Distinct
  <1>4. (i <= Len(s) => i \in 1..Len(s)) /\ (~(i <= Len(s)) => i - Len(s) \in 1..Len(t))
    BY <1>1
  <1>5. (j <= Len(s) => j \in 1..Len(s)) /\ (~(j <= Len(s)) => j - Len(s) \in 1..Len(t))
    BY <1>1
  <1>6. CASE i <= Len(s) /\ j <= Len(s)
    BY <1>1, <1>4, <1>5, <1>6 DEF Distinct
  <1>7. CASE ~(i <= Len(s)) /\ ~(j <= Len(s))
    <2>1. t[i - Len(s)] = t[j - Len(s)]
      BY <1>1, <1>7
    <2>2. i - Len(s) = j - Len(s)
      BY <1>4, <1>5, <1>7, <2>1 DEF Distinct
    <2>3. QED BY <1>1, <2>2
  <1>8. CASE i <= Len(s) /\ ~(j <= Len(s))
    BY <1>1, <1>3, <1>4, <1>5, <1>8
  <1>9. CASE ~(i <= Len(s)) /\ j <= Len(s)
    BY <1>1, <1>3, <1>4, <1>5, <1>9
  <1>10. QED BY <1>6, <1>7, <1>8, <1>9

\* A sequence is its last element after the others.
LEMMA FrontAndLast ==
  ASSUME NEW S, NEW s \in Seq(S), s # <<>>
  PROVE  /\ Front(s) \in Seq(S) /\ Last(s) \in S /\ Last(s) \in Range(s)
         /\ Range(s) = Range(Front(s)) \cup {Last(s)}
         /\ Distinct(s) => Distinct(Front(s)) /\ Last(s) \notin Range(Front(s))
  <1> DEFINE n == Len(s)
             f == Front(s)
  <1>1. n \in Nat \ {0} /\ \A i \in 1..n : s[i] \in S
    BY EmptySeq, ElementOfSeq
  <1>2. f \in Seq(S) /\ Len(f) = n - 1 /\ \A i \in 1..(n - 1) : f[i] = s[i]
    <2>1. f = SubSeq(s, 1, n - 1)
      BY DEF Front
    <2>2. \A i \in 1..(n - 1) : s[i] \in S
      BY <1>1
    <2>3. \A i \in 1..(((n - 1) - 1) + 1) : SubSeq(s, 1, n - 1)[i] = s[(1 + i) - 1]
      BY <1>1, <2>2, SubSeqProperties
    <2>4. SubSeq(s, 1, n - 1) \in Seq(S) /\ Len(SubSeq(s, 1, n - 1)) = IF 1 <= n - 1 THEN ((n - 1) - 1) + 1 ELSE 0
      BY <1>1, <2>2, SubSeqProperties
    <2> HIDE DEF n, f
    <2>5. \A i \in 1..(n - 1) : i \in 1..(((n - 1) - 1) + 1) /\ (1 + i) - 1 = i
      BY <1>1
    <2>6. Len(SubSeq(s, 1, n - 1)) = n - 1
      BY <1>1, <2>4
    <2>7. QED BY <2>1, <2>3, <2>4, <2>5, <2>6
  <1>3. Range(s) = {s[i] : i \in 1..n} /\ Range(f) = {f[i] : i \in 1..(n - 1)}
    BY <1>2, RangeEquality
  <1>4. Last(s) = s[n]
    BY DEF Last
  <1>5. 1..n = 1..(n - 1) \cup {n} /\ n \notin 1..(n - 1)
    BY <1>1
  <1> HIDE DEF n, f
  <1>6. Range(f) = {s[i] : i \in 1..(n - 1)}
    BY <1>2, <1>3
  <1>7. Range(s) = Range(f) \cup {s[n]}
    BY <1>3, <1>5, <1>6
  <1>8. ASSUME Distinct(s) PROVE Distinct(f) /\ s[n] \notin Range(f)
    <2>1. \A i, j \in 1..n : s[i] = s[j] => i = j
      BY <1>8 DEF Distinct, n
    <2>2. Distinct(f)
      BY <1>2, <1>5, <2>1 DEF Distinct
    <2>3. QED BY <1>5, <1>6, <2>1, <2>2
  <1>9. QED BY <1>1, <1>2, <1>4, <1>5, <1>7, <1>8 DEF f

\* An edge is added to a list that has what it needs.
LEMMA AppendListed ==
  ASSUME NEW S, NEW s \in Seq(S), NEW x \in S, Distinct(s), InputsFirst(s),
         x \notin Range(s), inputs(x) \subseteq Outputs(Range(s))
  PROVE  /\ Append(s, x) \in Seq(S) /\ Distinct(Append(s, x)) /\ InputsFirst(Append(s, x))
         /\ Range(Append(s, x)) = Range(s) \cup {x} /\ Len(Append(s, x)) = Len(s) + 1
  <1> DEFINE a == Append(s, x)
             n == Len(s)
  <1>1. /\ n \in Nat /\ a \in Seq(S) /\ Len(a) = n + 1
        /\ \A i \in 1..n : a[i] = s[i]
        /\ a[n + 1] = x
    BY AppendProperties, LenProperties
  <1>2. Range(a) = {a[i] : i \in 1..(n + 1)} /\ Range(s) = {s[i] : i \in 1..n}
    BY <1>1, RangeEquality
  <1> HIDE DEF a
  <1>3. 1..(n + 1) = 1..n \cup {n + 1} /\ n + 1 \notin 1..n
    BY <1>1
  <1>4. Range(a) = Range(s) \cup {x}
    BY <1>1, <1>2, <1>3
  <1>5. Distinct(a)
    <2>1. \A i \in 1..n : s[i] # x
      BY <1>2
    <2>2. \A i, j \in 1..n : s[i] = s[j] => i = j
      BY DEF Distinct
    <2> HIDE DEF n
    <2>3. QED BY <1>1, <1>3, <2>1, <2>2 DEF Distinct
  <1>6. InputsFirst(a)
    <2> SUFFICES ASSUME NEW i \in 1..(n + 1) PROVE inputs(a[i]) \subseteq {a[j].output : j \in 1..(i - 1)}
      BY <1>1 DEF InputsFirst
    <2>1. \A j \in 1..(i - 1) : j \in 1..n /\ a[j] = s[j]
      BY <1>1
    <2>2. {a[j].output : j \in 1..(i - 1)} = {s[j].output : j \in 1..(i - 1)}
      BY <2>1
    <2>3. CASE i \in 1..n
      <3>1. inputs(s[i]) \subseteq {s[j].output : j \in 1..(i - 1)}
        BY <2>3 DEF InputsFirst
      <3>2. QED BY <1>1, <2>2, <2>3, <3>1
    <2>4. CASE i = n + 1
      <3>1. Outputs(Range(s)) = {s[j].output : j \in 1..n}
        BY <1>2 DEF Outputs
      <3>2. i - 1 = n
        BY <1>1, <2>4
      <3>3. QED BY <1>1, <2>2, <2>4, <3>1, <3>2
    <2>5. QED BY <1>3, <2>3, <2>4
  <1>7. QED BY <1>1, <1>4, <1>5, <1>6 DEF a

LEMMA EmitKeeps ==
  ASSUME NEW edges, Listable(edges), NEW at, Emitting(edges, at), at.stack # <<>>
  PROVE  Emitting(edges, Emit(edges, at)) /\ Len(Emit(edges, at).ret) = Len(at.ret) + 1
  <1> DEFINE cur == Last(at.stack)
             ret == Append(at.ret, cur)
             old == Outputs(Range(at.ret))
             now == {p.output : p \in Range(ret)}
             new == Released(edges, now, cur)
             stack == Front(at.stack) \o Descending(new)
             Ready == {p \in edges \ Range(at.ret) : inputs(p) \subseteq old}
  <1>1. /\ at.ret \in Seq(edges) /\ at.stack \in Seq(edges)
        /\ Distinct(at.ret) /\ Distinct(at.stack) /\ InputsFirst(at.ret)
        /\ Range(at.stack) = Ready
    BY DEF Emitting
  <1>2. Emit(edges, at) = [ret |-> ret, stack |-> stack]
    BY DEF Emit
  <1>3. /\ Front(at.stack) \in Seq(edges) /\ cur \in edges /\ cur \in Ready
        /\ Ready = Range(Front(at.stack)) \cup {cur}
        /\ Distinct(Front(at.stack)) /\ cur \notin Range(Front(at.stack))
    <2> HIDE DEF Ready, cur
    <2>1. QED BY <1>1, FrontAndLast DEF cur
  <1>4. /\ ret \in Seq(edges) /\ Distinct(ret) /\ InputsFirst(ret)
        /\ Range(ret) = Range(at.ret) \cup {cur} /\ Len(ret) = Len(at.ret) + 1
    <2>1. cur \notin Range(at.ret) /\ inputs(cur) \subseteq Outputs(Range(at.ret))
      BY <1>3
    <2> HIDE DEF cur
    <2>2. QED BY <1>1, <1>3, <2>1, AppendListed
  <1>5. now = old \cup {cur.output} /\ now = Outputs(Range(ret))
    <2> HIDE DEF cur, ret
    <2>1. QED BY <1>4 DEF Outputs
  <1>6. new = {p \in edges : cur.output \in inputs(p) /\ inputs(p) \subseteq now}
    BY DEF Released
  <1> HIDE DEF cur, ret, now, new
  <1>7. Range(at.ret) \subseteq edges
    BY <1>1, RangeOfSeq
  <1>8. cur.output \notin old
    BY <1>3, <1>7 DEF Listable, Outputs
  \* What has been emitted has its inputs among what was emitted before.
  <1>9. \A p \in Range(at.ret) : inputs(p) \subseteq old
    <2>1. Len(at.ret) \in Nat /\ Range(at.ret) = {at.ret[i] : i \in 1..Len(at.ret)}
      BY <1>1, RangeEquality, LenProperties
    <2> SUFFICES ASSUME NEW i \in 1..Len(at.ret) PROVE inputs(at.ret[i]) \subseteq old
      BY <2>1
    <2>2. inputs(at.ret[i]) \subseteq {at.ret[j].output : j \in 1..(i - 1)}
      BY <1>1 DEF InputsFirst
    <2>3. \A j \in 1..(i - 1) : j \in 1..Len(at.ret)
      BY <2>1
    <2>4. \A j \in 1..(i - 1) : at.ret[j].output \in old
      BY <2>1, <2>3 DEF Outputs
    <2>5. QED BY <2>2, <2>4
  <1>10. new \subseteq edges /\ new \cap Range(Front(at.stack)) = {} /\ new \cap Range(ret) = {}
    <2>1. \A p \in new : ~(inputs(p) \subseteq old)
      BY <1>6, <1>8
    <2>2. \A p \in Range(Front(at.stack)) \cup Range(ret) : inputs(p) \subseteq old
      BY <1>3, <1>4, <1>9
    <2>3. QED BY <1>6, <2>1, <2>2
  <1>11. Descending(new) \in Seq(edges) /\ Range(Descending(new)) = new /\ Distinct(Descending(new))
    BY <1>10, ListedIs
  <1>12. stack \in Seq(edges) /\ Range(stack) = Range(Front(at.stack)) \cup new /\ Distinct(stack)
    <2>1. stack \in Seq(edges)
      BY <1>3, <1>11, ConcatProperties
    <2>2. Range(stack) = Range(Front(at.stack)) \cup new
      BY <1>3, <1>11, RangeConcatenation
    <2>3. Distinct(stack)
      BY <1>3, <1>10, <1>11, DistinctConcat
    <2>4. QED BY <2>1, <2>2, <2>3
  <1>13. Range(stack) = {p \in edges \ Range(ret) : inputs(p) \subseteq now}
    <2>1. ASSUME NEW p \in Range(Front(at.stack)) PROVE p \in edges \ Range(ret) /\ inputs(p) \subseteq now
      BY <1>3, <1>4, <1>5, <2>1
    <2>2. ASSUME NEW p \in new PROVE p \in edges \ Range(ret) /\ inputs(p) \subseteq now
      BY <1>6, <1>10
    <2>3. ASSUME NEW p \in edges \ Range(ret), inputs(p) \subseteq now PROVE p \in Range(Front(at.stack)) \cup new
      <3>1. CASE cur.output \in inputs(p)
        BY <1>6, <2>3, <3>1
      <3>2. CASE cur.output \notin inputs(p)
        <4>1. inputs(p) \subseteq old
          BY <1>5, <2>3, <3>2
        <4>2. p \in Ready /\ p # cur
          BY <1>4, <4>1
        <4>3. QED BY <1>3, <4>2
      <3>3. QED BY <3>1, <3>2
    <2>4. QED BY <1>12, <2>1, <2>2, <2>3
  <1> HIDE DEF stack, old
  <1>14. Emitting(edges, [ret |-> ret, stack |-> stack])
    BY <1>4, <1>5, <1>12, <1>13 DEF Emitting
  <1>15. QED BY <1>2, <1>4, <1>14

\* With an order in which the inputs of an edge are below it, the stack is empty
\* only when all edges have been emitted.
LEMMA AllEmitted ==
  ASSUME NEW edges, Listable(edges), \A p \in edges : inputs(p) \subseteq Outputs(edges),
         NEW rank, \A p \in edges : rank[p.output] \in Nat,
         \A p, q \in edges : q.output \in inputs(p) => rank[q.output] < rank[p.output],
         NEW at, Emitting(edges, at), at.stack = <<>> \/ Len(at.ret) = Cardinality(edges)
  PROVE  at.ret \in Seq(edges) /\ Distinct(at.ret) /\ InputsFirst(at.ret) /\ Range(at.ret) = edges
  <1> DEFINE r == at.ret
  <1>1. /\ r \in Seq(edges) /\ at.stack \in Seq(edges) /\ Distinct(r) /\ InputsFirst(r)
        /\ Range(at.stack) = {p \in edges \ Range(r) : inputs(p) \subseteq Outputs(Range(r))}
    BY DEF Emitting
  <1>2. Range(r) \subseteq edges /\ Range(r) = {r[i] : i \in 1..Len(r)} /\ Len(r) \in Nat /\ r \in [1..Len(r) -> edges]
    BY <1>1, RangeOfSeq, RangeEquality, LenProperties
  <1> HIDE DEF r
  <1>3. CASE Len(r) = Cardinality(edges)
    <2>1. r \in Injection(1..Len(r), edges)
      BY <1>1, <1>2 DEF Injection, IsInjective, Distinct
    <2>2. Cardinality(1..Len(r)) = Len(r)
      <3>1. \A k \in Nat : Cardinality(1..k) = k
        BY FS_Interval
      <3>2. QED BY <1>2, <3>1
    <2>3. r \in Surjection(1..Len(r), edges)
      BY <1>3, <2>1, <2>2, FS_Injection DEF Listable
    <2>4. edges \subseteq Range(r)
      BY <1>2, <2>3 DEF Surjection
    <2>5. QED BY <1>1, <1>2, <2>4 DEF r
  <1>4. CASE at.stack = <<>>
    <2>1. Range(at.stack) = {}
      BY <1>4 DEF Range
    <2> SUFFICES ASSUME edges \ Range(r) # {} PROVE FALSE
      BY <1>1, <1>2 DEF r
    <2> DEFINE T == {rank[p.output] : p \in edges \ Range(r)}
    <2>2. T \subseteq Nat /\ T # {}
      OBVIOUS
    <2>3. \E x \in T : \A y \in T : x <= y
      <3> HIDE DEF T
      <3>1. QED BY <2>2, LeastNumber
    <2>4. PICK p \in edges \ Range(r) : \A q \in edges \ Range(r) : rank[p.output] <= rank[q.output]
      BY <2>3
    <2>5. \A q \in edges : q.output \in inputs(p) => q \in Range(r)
      <3> SUFFICES ASSUME NEW q \in edges, q.output \in inputs(p), q \notin Range(r) PROVE FALSE
        OBVIOUS
      <3>1. rank[q.output] < rank[p.output] /\ rank[p.output] <= rank[q.output]
        BY <2>4
      <3>2. rank[q.output] \in Nat /\ rank[p.output] \in Nat
        OBVIOUS
      <3>3. QED BY <3>1, <3>2
    <2>6. inputs(p) \subseteq Outputs(Range(r))
      BY <2>5 DEF Outputs
    <2>7. QED BY <1>1, <2>1, <2>6
  <1>5. QED BY <1>3, <1>4 DEF r

\* What toposort_provs is to return.
LEMMA SortedIs ==
  ASSUME NEW edges, Listable(edges), \A p \in edges : inputs(p) \subseteq Outputs(edges),
         NEW rank, \A p \in edges : rank[p.output] \in Nat,
         \A p, q \in edges : q.output \in inputs(p) => rank[q.output] < rank[p.output]
  PROVE  /\ Sorted(edges) \in Seq(edges) /\ Distinct(Sorted(edges)) /\ InputsFirst(Sorted(edges))
         /\ Range(Sorted(edges)) = edges
  <1> DEFINE S == [ret : Seq(edges), stack : Seq(edges)]
             N == Cardinality(edges)
             G == [S -> Seq(edges)]
             Turned(g) == [at \in S |-> IF at.stack = <<>> THEN at.ret ELSE g[Emit(edges, at)]]
             F == [g \in G |-> Turned(g)]
             x == [at \in S |-> at.ret]
             first == [ret |-> <<>>, stack |-> Descending({p \in edges : inputs(p) = {}})]
             Good(s) == s \in Seq(edges) /\ Distinct(s) /\ InputsFirst(s) /\ Range(s) = edges
  <1>1. ASSUME NEW at \in S, at.stack # <<>> PROVE Emit(edges, at) \in S
    <2> DEFINE cur == Last(at.stack)
               new == Released(edges, {p.output : p \in Range(Append(at.ret, cur))}, cur)
    <2>1. at.ret \in Seq(edges) /\ at.stack \in Seq(edges)
      OBVIOUS
    <2>2. Emit(edges, at) = [ret |-> Append(at.ret, cur), stack |-> Front(at.stack) \o Descending(new)]
      BY <1>1 DEF Emit
    <2>3. cur \in edges /\ Front(at.stack) \in Seq(edges)
      BY <1>1, <2>1, FrontAndLast
    <2>4. new \subseteq edges
      BY DEF Released
    <2> HIDE DEF cur, new
    <2>5. Append(at.ret, cur) \in Seq(edges)
      BY <2>1, <2>3, AppendProperties
    <2>6. Front(at.stack) \o Descending(new) \in Seq(edges)
      BY <2>3, <2>4, ListedIs, ConcatProperties
    <2>7. QED BY <2>2, <2>5, <2>6
  <1>2. F \in [G -> G] /\ x \in G
    <2>1. \A g \in G : Turned(g) \in G
      BY <1>1
    <2>2. x \in G
      OBVIOUS
    <2> HIDE DEF Turned, G, x
    <2>3. QED BY <2>1, <2>2
  <1>3. PICK f \in [Nat -> G] : f[0] = x /\ \A n \in Nat : f[n + 1] = Turned(f[n])
    <2> HIDE DEF F, G, x
    <2>1. PICK f : Iterates(f, G, F, x)
      BY <1>2, Iteration
    <2>2. \A n \in Nat : F[f[n]] = Turned(f[n])
      <3> HIDE DEF Turned
      <3>1. QED BY <2>1 DEF F, Iterates
    <2>3. QED BY <2>1, <2>2 DEF Iterates
  <1> DEFINE From(u, n) == [at \in S |-> IF n = 0 \/ at.stack = <<>> THEN at.ret ELSE u[n - 1][Emit(edges, at)]]
             from == CHOOSE u : u = [n \in Nat |-> From(u, n)]
  <1>4. \A u : From(u, 0) = x /\ \A n \in Nat \ {0} : From(u, n) = Turned(u[n - 1])
    OBVIOUS
  <1>5. Sorted(edges) = from[N][first]
    BY DEF Sorted
  <1> HIDE DEF From
  <1>6. \A n \in Nat : n + 1 \in Nat \ {0} /\ (n + 1) - 1 = n /\ (n # 0 => n - 1 \in Nat /\ (n - 1) + 1 = n)
    OBVIOUS
  <1>7. f = [n \in Nat |-> From(f, n)]
    <2> HIDE DEF Turned, x, G
    <2>1. \A n \in Nat : f[n] = From(f, n)
      <3> SUFFICES ASSUME NEW n \in Nat PROVE f[n] = From(f, n)
        OBVIOUS
      <3>1. CASE n = 0
        BY <1>3, <1>4, <3>1
      <3>2. CASE n # 0
        <4>1. f[(n - 1) + 1] = Turned(f[n - 1]) /\ (n - 1) + 1 = n
          BY <1>3, <1>6, <3>2
        <4>2. QED BY <1>4, <3>2, <4>1
      <3>3. QED BY <3>1, <3>2
    <2>2. QED BY <1>3, <2>1
  <1>8. from = [n \in Nat |-> From(from, n)]
    BY <1>7
  <1>9. from[0] = x /\ \A n \in Nat : from[n + 1] = Turned(from[n])
    <2> HIDE DEF from, x, Turned
    <2>1. \A n \in Nat : from[n] = From(from, n)
      BY <1>8
    <2>2. from[0] = x
      BY <1>4, <2>1
    <2>3. ASSUME NEW n \in Nat PROVE from[n + 1] = Turned(from[n])
      <3>1. n + 1 \in Nat \ {0} /\ (n + 1) - 1 = n
        BY <1>6
      <3>2. from[n + 1] = Turned(from[(n + 1) - 1])
        BY <1>4, <2>1, <3>1
      <3>3. QED BY <3>1, <3>2
    <2>4. QED BY <2>2, <2>3
  <1> HIDE DEF from
  <1>10. /\ \A at \in S : from[0][at] = at.ret
         /\ \A n \in Nat : \A at \in S : from[n + 1][at] = IF at.stack = <<>> THEN at.ret ELSE from[n][Emit(edges, at)]
    <2> HIDE DEF S
    <2>1. QED BY <1>9
  <1>11. N \in Nat
    BY FS_CardinalityType DEF Listable
  <1>12. \A at : Emitting(edges, at) /\ (at.stack = <<>> \/ Len(at.ret) = N) => Good(at.ret)
    BY AllEmitted
  <1>13. \A at : Emitting(edges, at) => at \in S /\ Len(at.ret) \in Nat
    BY LenProperties DEF Emitting
  <1>14. \A at : Emitting(edges, at) /\ at.stack # <<>> =>
           Emitting(edges, Emit(edges, at)) /\ Len(Emit(edges, at).ret) = Len(at.ret) + 1
    BY EmitKeeps
  <1> DEFINE T == {n \in Nat : \A at : Emitting(edges, at) /\ Len(at.ret) + n = N => Good(from[n][at])}
  <1> HIDE DEF S, N, Good
  <1>15. 0 \in T
    <2> SUFFICES ASSUME NEW at, Emitting(edges, at), Len(at.ret) + 0 = N PROVE Good(from[0][at])
      OBVIOUS
    <2>1. at \in S /\ Len(at.ret) = N
      BY <1>13
    <2>2. Good(at.ret) /\ from[0][at] = at.ret
      BY <1>10, <1>12, <2>1
    <2>3. QED BY <2>2
  <1>16. ASSUME NEW n \in T PROVE n + 1 \in T
    <2>0. n \in Nat /\ n + 1 \in Nat /\ \A at : Emitting(edges, at) /\ Len(at.ret) + n = N => Good(from[n][at])
      OBVIOUS
    <2> SUFFICES ASSUME NEW at, Emitting(edges, at), Len(at.ret) + (n + 1) = N PROVE Good(from[n + 1][at])
      BY <2>0
    <2>1. n \in Nat /\ at \in S /\ Len(at.ret) \in Nat
      BY <1>13, <2>0
    <2>2. CASE at.stack = <<>>
      BY <1>10, <1>12, <2>0, <2>1, <2>2
    <2>3. CASE at.stack # <<>>
      <3>1. Emitting(edges, Emit(edges, at)) /\ Len(Emit(edges, at).ret) = Len(at.ret) + 1
        BY <1>14, <2>3
      <3>2. Len(Emit(edges, at).ret) + n = N
        <4>1. n \in Nat /\ Len(at.ret) \in Nat
          BY <2>0, <2>1
        <4>2. \A k, m \in Nat : k + (m + 1) = N => (k + 1) + m = N
          BY <1>11
        <4>3. (Len(at.ret) + 1) + n = N
          BY <4>1, <4>2
        <4>4. QED BY <3>1, <4>3
      <3>3. Good(from[n][Emit(edges, at)])
        BY <2>0, <3>1, <3>2
      <3>4. QED BY <1>10, <2>0, <2>1, <2>3, <3>3
    <2>4. QED BY <2>2, <2>3
  <1>17. N \in T
    <2> HIDE DEF T
    <2>1. \A n \in Nat : n \in T => n + 1 \in T
      BY <1>16
    <2>2. QED BY <1>11, <1>15, <2>1, InductionOnNumbers
  <1>18. Emitting(edges, first) /\ Len(first.ret) = 0
    <2> DEFINE ps == {p \in edges : inputs(p) = {}}
               d == Descending(ps)
    <2>1. d \in Seq(edges) /\ Range(d) = ps /\ Distinct(d)
      <3> HIDE DEF ps
      <3>1. ps \subseteq edges
        BY DEF ps
      <3>2. QED BY <3>1, ListedIs
    <2>2. <<>> \in Seq(edges) /\ Range(<<>>) = {} /\ Distinct(<<>>) /\ InputsFirst(<<>>) /\ Len(<<>>) = 0
      BY EmptySeq DEF Range, Distinct, InputsFirst
    <2>3. Outputs({}) = {}
      BY DEF Outputs
    <2>4. first = [ret |-> <<>>, stack |-> d]
      OBVIOUS
    <2> HIDE DEF d, first
    <2>5. first.ret = <<>> /\ first.stack = d /\ first \in [ret : Seq(edges), stack : Seq(edges)]
      BY <2>1, <2>2, <2>4
    <2>6. QED BY <2>1, <2>2, <2>3, <2>5 DEF Emitting
  <1>19. Good(from[N][first])
    <2> HIDE DEF first
    <2>1. QED BY <1>11, <1>17, <1>18
  <1>20. QED BY <1>5, <1>19 DEF Good

\* A trace of a cache that is founded on base: each line is an edge of the
\* database, after the lines of its inputs.
LEMMA TraceDerives ==
  ASSUME NEW c, IsFiniteSet(DOMAIN c), \A g \in DOMAIN c : g \in Nat /\ c[g].output = g,
         NEW root, Sortable(c, root),
         NEW rank, \A g \in DOMAIN c : rank[g] \in Nat,
         \A g, h \in DOMAIN c : h \in inputs(c[g]) => rank[h] < rank[g],
         NEW base, \A g \in DOMAIN c : IF c[g].kind = "source" THEN g \in base
                                       ELSE <<c[g].input, g>> \in Edges(TableOf(c[g]))
  PROVE  /\ Derives(toposort_provs(c, root), root, base)
         /\ \A i \in DOMAIN toposort_provs(c, root) : \E g \in DOMAIN c : toposort_provs(c, root)[i] = c[g]
  <1> DEFINE C == Closure(c, {root})
             edges == {c[g] : g \in C}
             s == toposort_provs(c, root)
             n == Len(s)
  <1>1. /\ root \in C /\ \A h \in C \cap DOMAIN c : inputs(c[h]) \subseteq C
        /\ \A u : {root} \subseteq u /\ (\A h \in u \cap DOMAIN c : inputs(c[h]) \subseteq u) => C \subseteq u
    BY ClosureIsLeast
  <1>2. C \subseteq DOMAIN c /\ IsFiniteSet(C)
    BY FS_Subset DEF Sortable
  <1>3. s = Sorted(edges)
    BY DEF toposort_provs
  <1> HIDE DEF C, s
  <1>4. Listable(edges)
    <2>1. IsFiniteSet(edges)
      <3> DEFINE f == [g \in C |-> c[g]]
      <3>1. edges = {f[g] : g \in C}
        OBVIOUS
      <3>2. f \in Surjection(C, edges)
        <4>1. f \in [C -> edges] /\ \A e \in edges : \E g \in C : f[g] = e
          OBVIOUS
        <4> HIDE DEF f, edges
        <4>2. QED BY <4>1 DEF Surjection
      <3> HIDE DEF f, edges
      <3>3. QED BY <1>2, <3>2, FS_Surjection
    <2>2. QED BY <1>2, <2>1 DEF Listable
  <1>5. Outputs(edges) = C
    BY <1>2 DEF Outputs
  <1>6. \A p \in edges : inputs(p) \subseteq Outputs(edges) /\ rank[p.output] \in Nat
    <2>1. \A g \in C : inputs(c[g]) \subseteq C /\ rank[c[g].output] \in Nat
      BY <1>1, <1>2
    <2>2. QED BY <1>5, <2>1
  <1>7. \A p, q \in edges : q.output \in inputs(p) => rank[q.output] < rank[p.output]
    BY <1>2
  <1>8. \A p \in edges : IF p.kind = "source" THEN p.output \in base ELSE <<p.input, p.output>> \in Edges(TableOf(p))
    BY <1>2
  <1>9. c[root] \in edges /\ c[root].output = root
    BY <1>1, <1>2
  \* Everything but root is an input of something.
  <1>10. \A p \in edges : p.output # root => \E q \in edges : p.output \in inputs(q)
    <2> DEFINE u == {root} \cup UNION {inputs(c[h]) : h \in C}
    <2>1. C \subseteq C \cap u
      <3>1. {root} \subseteq C \cap u
        BY <1>1
      <3>2. \A h \in (C \cap u) \cap DOMAIN c : inputs(c[h]) \subseteq C \cap u
        BY <1>1
      <3> HIDE DEF u
      <3>3. QED BY <1>1, <3>1, <3>2
    <2>2. \A g \in C : g # root => \E h \in C : g \in inputs(c[h])
      BY <2>1
    <2>3. QED BY <1>2, <2>2
  <1>11. \A p \in edges : \E g \in DOMAIN c : p = c[g]
    BY <1>2
  <1> HIDE DEF edges
  <1>12. s \in Seq(edges) /\ Distinct(s) /\ InputsFirst(s) /\ Range(s) = edges
    BY <1>3, <1>4, <1>6, <1>7, SortedIs
  <1>13. n \in Nat /\ DOMAIN s = 1..n /\ edges = {s[i] : i \in 1..n} /\ \A i \in 1..n : s[i] \in edges
    BY <1>12, LenProperties, RangeEquality, ElementOfSeq
  <1> HIDE DEF n
  <1>14. n \in 1..n
    BY <1>9, <1>13
  <1>15. \A i, j \in 1..n : s[i].output = s[j].output => i = j
    BY <1>4, <1>12, <1>13 DEF Listable, Distinct, n
  <1>16. \A i \in 1..n : inputs(s[i]) \subseteq {s[j].output : j \in 1..(i - 1)}
    BY <1>12 DEF InputsFirst, n
  <1>17. Last(s).output = root
    <2> SUFFICES ASSUME s[n].output # root PROVE FALSE
      BY DEF Last, n
    <2>1. PICK i \in 1..n : s[n].output \in inputs(s[i])
      BY <1>10, <1>13, <1>14
    <2>2. PICK j \in 1..(i - 1) : s[n].output = s[j].output
      BY <1>16, <2>1
    <2>3. j \in 1..n /\ j # n
      BY <1>13
    <2>4. QED BY <1>14, <1>15, <2>2, <2>3
  <1>18. ASSUME NEW i \in 1..n
         PROVE  /\ s[i].output \notin {s[j].output : j \in 1..(i - 1)}
                /\ inputs(s[i]) \subseteq {s[j].output : j \in 1..(i - 1)}
                /\ IF s[i].kind = "source" THEN s[i].output \in base
                   ELSE <<s[i].input, s[i].output>> \in Edges(TableOf(s[i]))
    <2>1. \A j \in 1..(i - 1) : j \in 1..n /\ j # i
      BY <1>13
    <2>2. QED BY <1>8, <1>13, <1>15, <1>16, <2>1
  <1>19. QED BY <1>11, <1>13, <1>17, <1>18 DEF Derives, s

-----------------------------------------------------------------------------
(* What DerivationsCorrect needs of the caches, beyond IInv.               *)

\* What an edge is made from was reached before what it makes.
MadeFrom(p, g) == \A i \in DOMAIN prov : g \in DOMAIN prov[i] => inputs(p) \subseteq Upto(prov, i)

\* The rights are fixed before anything is combined.
RightsFirst ==
  \A i \in DOMAIN prov : \A g \in DOMAIN prov[i] :
    prov[i][g].kind = "combine" => pool # {} /\ pool \subseteq Upto(prov, i)

CacheFounded ==
  /\ \A g \in Source : edge_cache[g] = source(g)
  /\ \A g \in DOMAIN edge_cache \ Source : FromClosed(edge_cache[g], g) /\ MadeFrom(edge_cache[g], g)
  /\ \A p \in batch : MadeFrom(p, p.output)

\* The targets are the named gadgets, their closures and the mirror images of both.
TargetFounded(c, g) ==
  \/ g \in Named /\ c[g] = source(g)
  \/ \E h \in DOMAIN c :
       \/ c[g] = Prov("close", g, h, 0) /\ c[h].kind = "source" /\ <<h, g>> \in Edges(<<"close", 0>>)
       \/ c[g] = Prov("mirror", g, h, 0) /\ c[h].kind \in {"source", "close"} /\ <<h, g>> \in Edges(<<"mirror", 0>>)

TargetsFounded == \A g \in DOMAIN target_cache : TargetFounded(target_cache, g)

\* A derivation that stays one.
Stays(trace, root, base) ==
  /\ Derives(trace, root, base)
  /\ \A i \in DOMAIN trace : trace[i].kind = "source" \/ TableOf(trace[i]) \in Table

AllDerived == \A d \in printed : Stays(d[2], d[1], Named) /\ Stays(d[3], d[1], Source)

DInv == RightsFirst /\ CacheFounded /\ TargetsFounded /\ AllDerived

LEMMA ProvFields ==
  /\ \A g : source(g).kind = "source" /\ source(g).output = g /\ inputs(source(g)) = {}
  /\ \A kind, g, h, r : LET p == Prov(kind, g, h, r)
                        IN  /\ p.kind = kind /\ p.output = g /\ p.input = h /\ p.right = r
                            /\ TableOf(p) = <<kind, r>> /\ inputs(p) = {h, r} \ {0}
  BY DEF source, Prov, inputs, TableOf

\* A gadget is discovered once.
LEMMA DiscoveredOnce ==
  ASSUME Founded, NEW i \in DOMAIN prov, NEW j \in DOMAIN prov, NEW g \in DOMAIN prov[i], g \in DOMAIN prov[j]
  PROVE  i = j /\ g \notin Source
  <1>1. DOMAIN prov = 1..Len(prov) /\ Len(prov) \in Nat
    BY LenProperties DEF Founded, FoundedBy
  <1>2. ASSUME NEW k \in DOMAIN prov, NEW m \in DOMAIN prov, k < m, g \in DOMAIN prov[k], g \in DOMAIN prov[m]
        PROVE  FALSE
    <2>1. k \in 1..(m - 1)
      BY <1>1, <1>2
    <2>2. g \in Upto(prov, m)
      BY <1>2, <2>1 DEF Upto
    <2>3. QED BY <1>2, <2>2 DEF Founded, FoundedBy
  <1>3. i \in Int /\ j \in Int
    BY <1>1
  <1>4. i = j
    BY <1>2, <1>3
  <1>5. g \notin Upto(prov, i)
    BY DEF Founded, FoundedBy
  <1>6. QED BY <1>4, <1>5 DEF Upto

LEMMA SpMade ==
  ASSUME Types, Founded, RightsFirst, NEW g \in closed \ Source
  PROVE  MadeFrom(Recovered(find_sp(g)), g)
  <1> DEFINE p == find_sp(g)
             q == Recovered(find_sp(g))
  <1>1. /\ FromClosed(q, g) /\ q.kind = p.kind /\ q.input = p.input /\ q.right \in pool \cup {0}
    BY SpIs
  <1>2. PICK i \in DOMAIN prov : g \in DOMAIN prov[i] /\ p = prov[i][g]
    BY FoundProv
  <1> HIDE DEF p, q
  <1>3. p.input \in Upto(prov, i)
    BY <1>2 DEF Founded, FoundedBy
  <1>4. q.right \in Upto(prov, i) \cup {0}
    <2>1. CASE q.right = 0
      BY <2>1
    <2>2. CASE q.right # 0
      <3>1. q.right \in pool /\ p.kind = "combine"
        BY <1>1, <2>2 DEF FromClosed
      <3>2. QED BY <1>2, <3>1 DEF RightsFirst
    <2>3. QED BY <2>1, <2>2
  <1>5. inputs(q) \subseteq Upto(prov, i)
    BY <1>1, <1>3, <1>4 DEF inputs
  <1>6. \A j \in DOMAIN prov : g \in DOMAIN prov[j] => j = i
    BY <1>2, DiscoveredOnce
  <1>7. MadeFrom(q, g)
    BY <1>5, <1>6 DEF MadeFrom
  <1>8. QED BY <1>7 DEF q

LEMMA TraceMade ==
  ASSUME Types, Founded, RightsFirst, NEW p \in Trace(found)
  PROVE  MadeFrom(p, p.output)
  <1>1. PICK g \in closed \ DOMAIN edge_cache : p = Recovered(find_sp(g))
    BY DEF Trace
  <1>2. g \in closed \ Source
    BY <1>1 DEF Types
  <1>3. FromClosed(p, g)
    BY <1>1, <1>2, SpIs
  <1>4. QED BY <1>1, <1>2, <1>3, SpMade DEF FromClosed

\* The edges that are cached lead from what was reached to what was reached later.
LEMMA CacheRanked ==
  ASSUME Types, Founded, CacheFounded
  PROVE  \E rank : /\ \A g \in DOMAIN edge_cache : rank[g] \in Nat
                   /\ \A g, h \in DOMAIN edge_cache : h \in inputs(edge_cache[g]) => rank[h] < rank[g]
  <1> DEFINE rank == [g \in closed |-> IF g \in Source THEN 0 ELSE CHOOSE i \in DOMAIN prov : g \in DOMAIN prov[i]]
  <1>1. DOMAIN prov = 1..Len(prov) /\ Len(prov) \in Nat /\ DOMAIN edge_cache \subseteq closed
    BY LenProperties DEF Founded, FoundedBy, Types
  <1>2. \A g \in closed \ Source : rank[g] \in DOMAIN prov /\ g \in DOMAIN prov[rank[g]]
    BY FoundProv
  <1>3. \A g \in closed \cap Source : rank[g] = 0
    OBVIOUS
  <1>4. \A i \in DOMAIN prov : \A g \in DOMAIN prov[i] : g \in closed => rank[g] = i
    BY DiscoveredOnce
  <1> HIDE DEF rank
  <1>5. \A g \in DOMAIN edge_cache : rank[g] \in Nat
    BY <1>1, <1>2, <1>3
  <1>6. ASSUME NEW g \in DOMAIN edge_cache, NEW h \in DOMAIN edge_cache, h \in inputs(edge_cache[g])
        PROVE  rank[h] < rank[g]
    <2>1. g \notin Source
      BY <1>6, ProvFields DEF CacheFounded
    <2>2. rank[g] \in DOMAIN prov /\ g \in DOMAIN prov[rank[g]] /\ g \in closed /\ h \in closed
      BY <1>1, <1>2, <2>1
    <2>3. h \in Upto(prov, rank[g])
      BY <1>6, <2>1, <2>2 DEF CacheFounded, MadeFrom
    <2>4. CASE h \in Source
      BY <1>1, <1>3, <2>2, <2>4
    <2>5. CASE h \notin Source
      <3>1. PICK j \in 1..(rank[g] - 1) : h \in DOMAIN prov[j]
        BY <2>3, <2>5 DEF Upto
      <3>2. j \in DOMAIN prov /\ j < rank[g]
        BY <1>1, <2>2
      <3>3. QED BY <1>4, <2>2, <3>1, <3>2
    <2>6. QED BY <2>4, <2>5
  <1>7. QED BY <1>5, <1>6

LEMMA TargetsRanked ==
  ASSUME TargetsFounded
  PROVE  \E rank : /\ \A g \in DOMAIN target_cache : rank[g] \in Nat
                   /\ \A g, h \in DOMAIN target_cache : h \in inputs(target_cache[g]) => rank[h] < rank[g]
  <1> DEFINE rank == [g \in DOMAIN target_cache |->
                        CASE target_cache[g].kind = "source" -> 0
                          [] target_cache[g].kind = "close" -> 1
                          [] OTHER -> 2]
  <1>1. \A g \in DOMAIN target_cache : rank[g] \in Nat
    OBVIOUS
  <1>2. ASSUME NEW g \in DOMAIN target_cache, NEW h \in DOMAIN target_cache, h \in inputs(target_cache[g])
        PROVE  rank[h] < rank[g]
    <2>1. TargetFounded(target_cache, g)
      BY DEF TargetsFounded
    <2>2. CASE target_cache[g] = source(g)
      BY <1>2, <2>2 DEF source, Prov, inputs
    <2>3. ASSUME NEW kind \in {"close", "mirror"}, NEW input \in DOMAIN target_cache,
                 target_cache[g] = Prov(kind, g, input, 0),
                 target_cache[input].kind = "source" \/ (kind = "mirror" /\ target_cache[input].kind = "close")
          PROVE  rank[h] < rank[g]
      <3>1. h = input /\ target_cache[g].kind = kind
        BY <1>2, <2>3 DEF Prov, inputs
      <3>2. QED BY <2>3, <3>1
    <2>4. QED BY <2>1, <2>2, <2>3 DEF TargetFounded
  <1>3. QED BY <1>1, <1>2

\* What is printed of a gadget whose trace can be sorted.
LEMMA DerivationIs ==
  ASSUME Types, Founded, CacheFounded, TargetsFounded, NEW g \in DOMAIN target_cache, Sortable(edge_cache, g)
  PROVE  Stays(toposort_provs(target_cache, g), g, Named) /\ Stays(toposort_provs(edge_cache, g), g, Source)
  <1>1. IsFiniteSet(Gadget) /\ Gadget \subseteq Nat
    BY ReportAssumption
  <1>2. Stays(toposort_provs(edge_cache, g), g, Source)
    <2>1. PICK rank : /\ \A x \in DOMAIN edge_cache : rank[x] \in Nat
                      /\ \A x, y \in DOMAIN edge_cache : y \in inputs(edge_cache[x]) => rank[y] < rank[x]
      BY CacheRanked
    <2>2. DOMAIN edge_cache \subseteq Gadget /\ \A x \in DOMAIN edge_cache : edge_cache[x].output = x
      BY DEF Types, TypeOK
    <2>3. IsFiniteSet(DOMAIN edge_cache)
      BY <1>1, <2>2, FS_Subset
    <2>4. \A x \in DOMAIN edge_cache :
            IF edge_cache[x].kind = "source" THEN x \in Source
            ELSE <<edge_cache[x].input, x>> \in Edges(TableOf(edge_cache[x]))
      BY ProvFields DEF CacheFounded, FromClosed
    <2>5. \A x \in DOMAIN edge_cache : edge_cache[x].kind = "source" \/ TableOf(edge_cache[x]) \in Table
      <3> SUFFICES ASSUME NEW x \in DOMAIN edge_cache PROVE edge_cache[x].kind = "source" \/ TableOf(edge_cache[x]) \in Table
        OBVIOUS
      <3>1. CASE x \in Source
        <4>1. edge_cache[x] = source(x) /\ source(x).kind = "source"
          BY <3>1, ProvFields DEF CacheFounded
        <4>2. QED BY <4>1
      <3>2. CASE x \notin Source
        BY <3>2 DEF CacheFounded, FromClosed
      <3>3. QED BY <3>1, <3>2
    <2> DEFINE s == toposort_provs(edge_cache, g)
    <2>6. Derives(s, g, Source) /\ \A i \in DOMAIN s : \E x \in DOMAIN edge_cache : s[i] = edge_cache[x]
      <3>1. \A x \in DOMAIN edge_cache : x \in Nat /\ edge_cache[x].output = x
        BY <1>1, <2>2
      <3>2. /\ Derives(toposort_provs(edge_cache, g), g, Source)
            /\ \A i \in DOMAIN toposort_provs(edge_cache, g) :
                 \E x \in DOMAIN edge_cache : toposort_provs(edge_cache, g)[i] = edge_cache[x]
        BY <2>1, <2>3, <2>4, <3>1, TraceDerives
      <3>3. QED BY <3>2
    <2> HIDE DEF s
    <2>7. Stays(s, g, Source)
      BY <2>5, <2>6 DEF Stays
    <2>8. QED BY <2>7 DEF s
  <1>3. Stays(toposort_provs(target_cache, g), g, Named)
    <2>1. PICK rank : /\ \A x \in DOMAIN target_cache : rank[x] \in Nat
                      /\ \A x, y \in DOMAIN target_cache : y \in inputs(target_cache[x]) => rank[y] < rank[x]
      BY TargetsRanked
    <2>2. DOMAIN target_cache \subseteq Gadget /\ \A x \in DOMAIN target_cache : target_cache[x].output = x
      BY DEF Types, TypeOK
    <2>3. IsFiniteSet(DOMAIN target_cache)
      BY <1>1, <2>2, FS_Subset
    <2>4. \A x \in DOMAIN target_cache :
            IF target_cache[x].kind = "source" THEN x \in Named
            ELSE <<target_cache[x].input, x>> \in Edges(TableOf(target_cache[x])) /\ TableOf(target_cache[x]) \in Table
      <3> SUFFICES ASSUME NEW x \in DOMAIN target_cache
                   PROVE  IF target_cache[x].kind = "source" THEN x \in Named
                          ELSE /\ <<target_cache[x].input, x>> \in Edges(TableOf(target_cache[x]))
                               /\ TableOf(target_cache[x]) \in Table
        OBVIOUS
      <3>1. TargetFounded(target_cache, x)
        BY DEF TargetsFounded
      <3>2. CASE x \in Named /\ target_cache[x] = source(x)
        BY <3>2, ProvFields
      <3>3. ASSUME NEW kind \in {"close", "mirror"}, NEW h, target_cache[x] = Prov(kind, x, h, 0), <<h, x>> \in Edges(<<kind, 0>>)
            PROVE  /\ target_cache[x].kind # "source" /\ <<target_cache[x].input, x>> \in Edges(TableOf(target_cache[x]))
                   /\ TableOf(target_cache[x]) \in Table
        <4>1. target_cache[x].kind = kind /\ target_cache[x].input = h /\ TableOf(target_cache[x]) = <<kind, 0>>
          BY <3>3, ProvFields
        <4>2. <<kind, 0>> \in Table
          BY DEF Table, Simple
        <4>3. QED BY <3>3, <4>1, <4>2
      <3>4. QED BY <3>1, <3>2, <3>3 DEF TargetFounded
    <2>5. Sortable(target_cache, g)
      <3>1. \A h \in DOMAIN target_cache : inputs(target_cache[h]) \subseteq DOMAIN target_cache
        <4> SUFFICES ASSUME NEW h \in DOMAIN target_cache
                     PROVE  inputs(target_cache[h]) \subseteq DOMAIN target_cache
          OBVIOUS
        <4>1. TargetFounded(target_cache, h)
          BY DEF TargetsFounded
        <4>2. inputs(source(h)) = {} /\ \A kind, x : inputs(Prov(kind, h, x, 0)) \subseteq {x}
          BY ProvFields
        <4>3. CASE target_cache[h] = source(h)
          BY <4>2, <4>3
        <4>4. CASE \E x \in DOMAIN target_cache : \E kind : target_cache[h] = Prov(kind, h, x, 0)
          BY <4>2, <4>4
        <4>5. QED BY <4>1, <4>3, <4>4 DEF TargetFounded
      <3>2. Closure(target_cache, {g}) \subseteq DOMAIN target_cache
        BY <2>3, <3>1, ClosureIsLeast
      <3>3. QED BY <3>2 DEF Sortable
    <2> DEFINE s == toposort_provs(target_cache, g)
    <2>6. Derives(s, g, Named) /\ \A i \in DOMAIN s : \E x \in DOMAIN target_cache : s[i] = target_cache[x]
      <3>1. \A x \in DOMAIN target_cache : x \in Nat /\ target_cache[x].output = x
        BY <1>1, <2>2
      <3>2. \A x \in DOMAIN target_cache :
              IF target_cache[x].kind = "source" THEN x \in Named
              ELSE <<target_cache[x].input, x>> \in Edges(TableOf(target_cache[x]))
        BY <2>4
      <3>3. /\ Derives(toposort_provs(target_cache, g), g, Named)
            /\ \A i \in DOMAIN toposort_provs(target_cache, g) :
                 \E x \in DOMAIN target_cache : toposort_provs(target_cache, g)[i] = target_cache[x]
        BY <2>1, <2>3, <2>5, <3>1, <3>2, TraceDerives
      <3>4. QED BY <3>3
    <2> HIDE DEF s
    <2>7. Stays(s, g, Named)
      BY <2>4, <2>6 DEF Stays
    <2>8. QED BY <2>7 DEF s
  <1>4. QED BY <1>2, <1>3

-----------------------------------------------------------------------------
(* The derivations stay correct.                                           *)

\* The entries of what has been reached stay where they are, and what a step
\* discovers comes after them.
LEMMA FollowAppends ==
  ASSUME IInv, follow
  PROVE  /\ \A i \in DOMAIN prov : i \in DOMAIN prov' /\ prov'[i] = prov[i] /\ Upto(prov', i) = Upto(prov, i)
         /\ \A i \in DOMAIN prov' \ DOMAIN prov :
              /\ Upto(prov', i) = closed /\ DOMAIN prov'[i] \cap closed = {}
              /\ \A g \in DOMAIN prov'[i] : prov'[i][g].kind = "combine" => pool # {}
  <1> DEFINE t == Foremost(todo)
             E == {e \in Edges(t) : e[1] \in possible}
             new == New(E)
             n == Len(prov)
  <1>1. Types /\ Where /\ Founded /\ todo # {} /\ prov \in Seq(Provs) /\ closed = Upto(prov, n + 1)
    BY DEF IInv, follow, Founded, FoundedBy, Where
  <1>2. n \in Nat /\ DOMAIN prov = 1..n
    BY <1>1, LenProperties
  <1>3. new \cap closed = {}
    BY DEF New
  <1>4. new = {} => prov' = prov
    BY DEF follow
  <1>5. new # {} => \E choice \in ProvsOf(t[1], E, new) : prov' = Append(prov, choice)
    BY DEF follow
  <1>6. t \in Table /\ t[2] \in pool \cup {0}
    BY <1>1, TodoIs
  <1>7. t[1] = "combine" => pool # {}
    BY <1>6, Tables
  <1> HIDE DEF E, new, t
  <1>8. CASE new = {}
    BY <1>4, <1>8
  <1>9. CASE new # {}
    <2>1. PICK choice \in ProvsOf(t[1], E, new) : prov' = Append(prov, choice)
      BY <1>5, <1>9
    <2>2. DOMAIN choice = new /\ \A g \in new : choice[g].kind = t[1]
      <3>1. /\ DOMAIN choice = new /\ choice = [g \in new |-> choice[g]]
            /\ \A g \in new : choice[g] = Prov(t[1], g, choice[g].input, 0) /\ <<choice[g].input, g>> \in E
        BY ChosenProvs
      <3>2. \A g \in new : choice[g].kind = t[1]
        <4> SUFFICES ASSUME NEW g \in new PROVE choice[g].kind = t[1]
          OBVIOUS
        <4>1. choice[g] = Prov(t[1], g, choice[g].input, 0)
          BY <3>1
        <4>2. Prov(t[1], g, choice[g].input, 0).kind = t[1]
          BY ProvFields
        <4>3. QED BY <4>1, <4>2
      <3>3. QED BY <3>1, <3>2
    <2>3. DOMAIN prov' = 1..(n + 1) /\ (\A i \in 1..n : prov'[i] = prov[i]) /\ prov'[n + 1] = choice
      BY <1>1, <1>2, <2>1
    <2>4. \A i \in 1..(n + 1) : Upto(prov', i) = Upto(prov, i)
      <3> SUFFICES ASSUME NEW i \in 1..(n + 1) PROVE Upto(prov', i) = Upto(prov, i)
        OBVIOUS
      <3>1. \A j \in 1..(i - 1) : j \in 1..n
        BY <1>2
      <3>2. {DOMAIN prov'[j] : j \in 1..(i - 1)} = {DOMAIN prov[j] : j \in 1..(i - 1)}
        BY <2>3, <3>1
      <3>3. QED BY <3>2 DEF Upto
    <2>5. 1..n \subseteq 1..(n + 1) /\ n + 1 \in 1..(n + 1) /\ 1..(n + 1) \ 1..n = {n + 1}
      BY <1>2
    <2> HIDE DEF n
    <2>6. \A i \in DOMAIN prov : i \in DOMAIN prov' /\ prov'[i] = prov[i] /\ Upto(prov', i) = Upto(prov, i)
      BY <1>2, <2>3, <2>4, <2>5
    <2>7. /\ Upto(prov', n + 1) = closed /\ DOMAIN prov'[n + 1] \cap closed = {}
          /\ \A g \in DOMAIN prov'[n + 1] : prov'[n + 1][g].kind = "combine" => pool # {}
      BY <1>1, <1>3, <1>7, <2>2, <2>3, <2>4, <2>5
    <2>8. DOMAIN prov' \ DOMAIN prov = {n + 1}
      BY <1>2, <2>3, <2>5
    <2>9. QED BY <2>6, <2>7, <2>8
  <1>10. QED BY <1>8, <1>9

LEMMA MadeStays ==
  ASSUME IInv, Next, NEW p, NEW g \in closed, MadeFrom(p, g)
  PROVE  MadeFrom(p, g)'
  <1>1. CASE follow
    <2>1. /\ \A i \in DOMAIN prov : prov'[i] = prov[i] /\ Upto(prov', i) = Upto(prov, i)
          /\ \A i \in DOMAIN prov' \ DOMAIN prov : DOMAIN prov'[i] \cap closed = {}
      BY <1>1, FollowAppends
    <2>2. QED BY <2>1 DEF MadeFrom
  <1>2. CASE ~follow
    <2>1. prov' = prov
      BY <1>2 DEF Next, ReportStep, RunnerFails, WorkerCommits, target_stuff, begin_step, discover_whats_possible, end_connect, end_combine,
             end_closemirror, fill_cache, commit_combine_result_full, commit_connect_result_full, Fills, collect, deleted_locations, print,
             end_record, Throws, search
    <2>2. QED BY <2>1 DEF MadeFrom
  <1>3. QED BY <1>1, <1>2

LEMMA KeepsRightsFirst ==
  ASSUME IInv, Next, RightsFirst
  PROVE  RightsFirst'
  <1>1. CASE follow
    <2>1. pool' = pool /\ pool \subseteq closed
      BY <1>1 DEF follow, IInv, Types
    <2>2. QED BY <1>1, <2>1, FollowAppends DEF RightsFirst
  <1>2. CASE end_closemirror
    <2>1. prov' = prov /\ (pool # {} => pool' = pool)
      BY <1>2 DEF end_closemirror
    <2>2. QED BY <2>1 DEF RightsFirst
  <1>3. CASE ~follow /\ ~end_closemirror
    <2>1. prov' = prov /\ pool' = pool
      BY <1>3 DEF Next, ReportStep, RunnerFails, WorkerCommits, target_stuff, begin_step, discover_whats_possible, end_connect, end_combine,
             fill_cache, commit_combine_result_full, commit_connect_result_full, Fills, collect, deleted_locations, print,
             end_record, Throws, search
    <2>2. QED BY <2>1 DEF RightsFirst
  <1>4. QED BY <1>1, <1>2, <1>3

LEMMA KeepsCacheFounded ==
  ASSUME IInv, Next, RightsFirst, CacheFounded
  PROVE  CacheFounded'
  <1>1. Types /\ Where /\ Founded /\ Traced
    BY DEF IInv
  <1>2. \A p, g : FromClosed(p, g) => FromClosed(p, g)'
    BY DatabaseGrows
  <1>3. \A p : \A g \in closed : MadeFrom(p, g) => MadeFrom(p, g)'
    BY MadeStays
  <1>4. Source \subseteq DOMAIN edge_cache /\ DOMAIN edge_cache \subseteq closed /\ \A p \in batch : p.output \in closed /\ FromClosed(p, p.output)
    BY <1>1 DEF Types, Traced
  <1>5. CASE edge_cache' = edge_cache /\ batch' \in {batch, {}}
    BY <1>2, <1>3, <1>4, <1>5 DEF CacheFounded
  <1>6. ASSUME NEW ps, edge_cache' = Cached(ps), \A p \in ps : FromClosed(p, p.output) /\ MadeFrom(p, p.output) /\ p.output \in closed,
               \A p \in batch' : MadeFrom(p, p.output) /\ p.output \in closed
        PROVE  CacheFounded'
    <2>1. /\ DOMAIN edge_cache' = DOMAIN edge_cache \cup Outputs(ps)
          /\ \A g \in DOMAIN edge_cache : edge_cache'[g] = edge_cache[g]
          /\ \A g \in Outputs(ps) \ DOMAIN edge_cache : edge_cache'[g] \in ps /\ edge_cache'[g].output = g
      BY <1>6, CachedIs
    <2>2. \A g \in Source : edge_cache'[g] = source(g)
      BY <1>4, <2>1 DEF CacheFounded
    <2>3. ASSUME NEW g \in DOMAIN edge_cache' \ Source
          PROVE  FromClosed(edge_cache'[g], g) /\ MadeFrom(edge_cache'[g], g) /\ g \in closed
      <3>1. CASE g \in DOMAIN edge_cache
        BY <1>4, <2>1, <3>1 DEF CacheFounded
      <3>2. CASE g \notin DOMAIN edge_cache
        <4>1. edge_cache'[g] \in ps /\ edge_cache'[g].output = g
          BY <2>1, <2>3, <3>2
        <4>2. QED BY <1>6, <4>1
      <3>3. QED BY <3>1, <3>2
    <2>4. ASSUME NEW g \in DOMAIN edge_cache' \ Source
          PROVE  FromClosed(edge_cache[g], g)' /\ MadeFrom(edge_cache[g], g)'
      <3>1. PICK p : p = edge_cache'[g]
        OBVIOUS
      <3>2. FromClosed(p, g) /\ MadeFrom(p, g) /\ g \in closed
        BY <2>3, <3>1
      <3>3. FromClosed(p, g)' /\ MadeFrom(p, g)'
        BY <1>2, <1>3, <3>2
      <3>4. FromClosed(edge_cache[g], g)'
        BY <3>1, <3>3 DEF FromClosed
      <3>5. MadeFrom(edge_cache[g], g)'
        BY <3>1, <3>3 DEF MadeFrom
      <3>6. QED BY <3>4, <3>5
    <2>5. \A p \in batch' : MadeFrom(p, p.output)'
      BY <1>3, <1>6
    <2>6. QED BY <2>2, <2>4, <2>5 DEF CacheFounded
  <1>7. CASE fill_cache
    <2> DEFINE edges == Trace(found)
               ps == {p \in edges : HasFullEdge(p, filled)}
    <2>1. edge_cache' = Cached(ps) /\ batch' \subseteq edges
      <3>1. edges \ {p \in edges : ~HasFullEdge(p, filled)} = ps
        OBVIOUS
      <3>2. QED BY <1>7, <3>1 DEF fill_cache
    <2>2. \A p \in edges : FromClosed(p, p.output) /\ p.output \in closed /\ MadeFrom(p, p.output)
      BY <1>1, TraceIs, TraceMade DEF Types, TypeOK
    <2>3. \A p \in ps : p \in edges
      OBVIOUS
    <2> HIDE DEF ps, edges
    <2>4. QED BY <1>6, <2>1, <2>2, <2>3
  <1>8. CASE collect
    <2> DEFINE ps == {p \in batch : HasFullEdge(p, filled)}
    <2>1. edge_cache' = Cached(ps) /\ batch' = batch /\ ps \subseteq batch
      BY <1>8 DEF collect
    <2> HIDE DEF ps
    <2>2. \A p \in batch : MadeFrom(p, p.output)
      BY DEF CacheFounded
    <2>3. QED BY <1>4, <1>6, <2>1, <2>2
  <1>9. CASE ~fill_cache /\ ~collect
    <2>1. edge_cache' = edge_cache /\ batch' \in {batch, {}}
      BY <1>9 DEF Next, ReportStep, RunnerFails, WorkerCommits, target_stuff, begin_step, discover_whats_possible, end_connect, end_combine,
             end_closemirror, follow, commit_combine_result_full, commit_connect_result_full, Fills, deleted_locations, print,
             end_record, Throws, cache
    <2>2. QED BY <1>5, <2>1
  <1>10. QED BY <1>7, <1>8, <1>9

\* What target_stuff caches.
LEMMA AddEdgesFounded ==
  ASSUME NEW t \in Simple, NEW c, NEW ins, ins \subseteq DOMAIN c, \A g \in DOMAIN c : TargetFounded(c, g),
         NEW kinds, \A h \in ins : c[h].kind \in kinds,
         (t[1] = "close" /\ kinds = {"source"}) \/ (t[1] = "mirror" /\ kinds = {"source", "close"}),
         NEW c2, c2 \in AddEdges(t, c, ins)
  PROVE  /\ \A g \in DOMAIN c2 : TargetFounded(c2, g)
         /\ \A g \in DOMAIN c2 : c2[g].kind = t[1] \/ (g \in DOMAIN c /\ c2[g] = c[g])
  <1> DEFINE E == {e \in Edges(t) : e[1] \in ins /\ e[2] \notin DOMAIN c}
             outs == {e[2] : e \in E}
  <1>1. PICK new \in ProvsOf(t[1], E, outs) : c2 = AddTo(c, new)
    BY DEF AddEdges
  <1>2. /\ DOMAIN new = outs /\ new = [g \in outs |-> new[g]]
        /\ \A g \in outs : new[g] = Prov(t[1], g, new[g].input, 0) /\ <<new[g].input, g>> \in E
    <2> HIDE DEF E, outs
    <2>1. QED BY <1>1, ChosenProvs
  <1>3. t = <<t[1], 0>>
    BY DEF Simple
  <1>4. \A x, y : <<x, y>> \in E => x \in ins /\ <<x, y>> \in Edges(t) /\ y \notin DOMAIN c
    OBVIOUS
  <1> HIDE DEF E, outs
  <1>5. c2 = [g \in DOMAIN c \cup outs |-> IF g \in DOMAIN c THEN c[g] ELSE new[g]]
    BY <1>1, <1>2 DEF AddTo
  <1>6. DOMAIN c2 = DOMAIN c \cup outs /\ (\A g \in DOMAIN c : c2[g] = c[g]) /\ \A g \in outs \ DOMAIN c : c2[g] = new[g]
    BY <1>5
  <1>7. ASSUME NEW g \in DOMAIN c PROVE TargetFounded(c2, g)
    <2>1. TargetFounded(c, g)
      OBVIOUS
    <2>2. c2[g] = c[g] /\ \A h \in DOMAIN c : h \in DOMAIN c2 /\ c2[h] = c[h]
      BY <1>6
    <2>3. QED BY <2>1, <2>2 DEF TargetFounded
  <1>8. ASSUME NEW g \in outs \ DOMAIN c PROVE TargetFounded(c2, g) /\ c2[g].kind = t[1]
    <2>1. PICK h \in ins : c2[g] = Prov(t[1], g, h, 0) /\ <<h, g>> \in Edges(t)
      BY <1>2, <1>4, <1>6
    <2>2. h \in DOMAIN c2 /\ c2[h].kind \in kinds
      BY <1>6
    <2>3. c2[g].kind = t[1]
      BY <2>1, ProvFields
    <2>4. TargetFounded(c2, g)
      BY <1>3, <2>1, <2>2 DEF TargetFounded
    <2>5. QED BY <2>3, <2>4
  <1>9. QED BY <1>6, <1>7, <1>8

LEMMA KeepsTargetsFounded ==
  ASSUME IInv, Next, TargetsFounded
  PROVE  TargetsFounded'
  <1>1. CASE target_stuff
    <2> DEFINE c0 == [g \in Named |-> source(g)]
    <2>1. PICK c \in AddEdges(<<"close", 0>>, c0, Named) : target_cache' \in AddEdges(<<"mirror", 0>>, c, DOMAIN c)
      BY <1>1 DEF target_stuff
    <2>2. DOMAIN c0 = Named /\ \A g \in Named : c0[g] = source(g) /\ c0[g].kind = "source"
      BY ProvFields
    <2> HIDE DEF c0
    <2>3. \A g \in DOMAIN c0 : TargetFounded(c0, g)
      BY <2>2 DEF TargetFounded
    <2> DEFINE t == <<"close", 0>>
    <2>4. <<"close", 0>> \in Simple /\ <<"mirror", 0>> \in Simple /\ <<"close", 0>>[1] = "close" /\ <<"mirror", 0>>[1] = "mirror"
      BY DEF Simple
    <2>5. /\ \A g \in DOMAIN c : TargetFounded(c, g)
          /\ \A g \in DOMAIN c : c[g].kind = t[1] \/ (g \in DOMAIN c0 /\ c[g] = c0[g])
      <3>1. \A h \in Named : c0[h].kind \in {"source"}
        BY <2>2
      <3>2. Named \subseteq DOMAIN c0
        BY <2>2
      <3> DEFINE kinds == {"source"}
      <3>3. /\ t \in Simple /\ c \in AddEdges(t, c0, Named) /\ \A h \in Named : c0[h].kind \in kinds
            /\ t[1] = "close" /\ kinds = {"source"}
        BY <2>1, <2>4, <3>1
      <3> HIDE DEF t, kinds
      <3>4. QED BY <2>3, <3>2, <3>3, AddEdgesFounded
    <2>6. \A g \in DOMAIN c : c[g].kind \in {"source", "close"}
      BY <2>2, <2>4, <2>5
    <2>7. \A c2 \in AddEdges(<<"mirror", 0>>, c, DOMAIN c) : \A g \in DOMAIN c2 : TargetFounded(c2, g)
      BY <2>4, <2>5, <2>6, AddEdgesFounded
    <2>8. PICK c2 \in AddEdges(<<"mirror", 0>>, c, DOMAIN c) : c2 = target_cache'
      BY <2>1
    <2>9. done' = done
      BY <1>1 DEF target_stuff, db
    <2>10. \A g \in DOMAIN target_cache' : TargetFounded(target_cache', g)
      BY <2>7, <2>8
    <2>11. QED BY <2>9, <2>10 DEF TargetsFounded, TargetFounded, Edges
  <1>2. CASE ~target_stuff
    <2>1. target_cache' = target_cache
      BY <1>2 DEF Next, ReportStep, RunnerFails, WorkerCommits, begin_step, discover_whats_possible, end_connect, end_combine,
             end_closemirror, follow, fill_cache, commit_combine_result_full, commit_connect_result_full, Fills, collect, deleted_locations, print,
             end_record, Throws
    <2>2. Edges(<<"close", 0>>) \subseteq Edges(<<"close", 0>>)' /\ Edges(<<"mirror", 0>>) \subseteq Edges(<<"mirror", 0>>)'
      BY DatabaseGrows DEF Table, Simple
    <2>3. QED BY <2>1, <2>2 DEF TargetsFounded, TargetFounded
  <1>3. QED BY <1>1, <1>2

LEMMA KeepsDerivations ==
  ASSUME IInv, Next, DInv
  PROVE  AllDerived'
  <1>1. Types /\ Where /\ Founded /\ CacheFounded /\ TargetsFounded /\ AllDerived
    BY DEF IInv, DInv
  \* The database keeps its edges.
  <1>2. ASSUME NEW trace, NEW root, NEW base, Stays(trace, root, base) PROVE Stays(trace, root, base)'
    <2>1. \A t \in Table : Edges(t) \subseteq Edges(t)'
      BY DatabaseGrows
    <2>2. QED BY <1>2, <2>1 DEF Stays, Derives
  <1>3. \A d \in printed : Stays(d[2], d[1], Named)' /\ Stays(d[3], d[1], Source)'
    BY <1>1, <1>2 DEF AllDerived
  <1>4. CASE print
    <2> DEFINE bad == {g \in found : ~Sortable(edge_cache, g)}
               good == {g \in found : \A b \in bad : g < b}
    <2>1. printed' = printed \cup Printed(good)
      BY <1>4 DEF print
    <2>2. \A g \in good : g \in DOMAIN target_cache /\ Sortable(edge_cache, g)
      <3>1. found \subseteq Gadget /\ Gadget \subseteq Nat /\ found \subseteq DOMAIN target_cache
        BY <1>1, ReportAssumption DEF Types, TypeOK
      <3>2. \A g \in Nat : ~(g < g)
        OBVIOUS
      <3>3. \A g \in found : ~(g < g)
        BY <3>1, <3>2
      <3>4. \A g \in good : g \in found /\ g \notin bad
        BY <3>3
      <3>5. QED BY <3>1, <3>4
    <2> HIDE DEF good, bad
    <2>3. ASSUME NEW g \in good
          PROVE  Stays(toposort_provs(target_cache, g), g, Named)' /\ Stays(toposort_provs(edge_cache, g), g, Source)'
      <3>1. PICK s1, s2 : s1 = toposort_provs(target_cache, g) /\ s2 = toposort_provs(edge_cache, g)
        OBVIOUS
      <3>2. Stays(s1, g, Named) /\ Stays(s2, g, Source)
        BY <1>1, <2>2, <3>1, DerivationIs
      <3>3. Stays(s1, g, Named)' /\ Stays(s2, g, Source)'
        BY <1>2, <3>2
      <3>4. UNCHANGED <<target_cache, edge_cache>>
        BY <1>4 DEF print
      <3>5. QED BY <3>1, <3>3, <3>4
    <2>4. ASSUME NEW d \in Printed(good) PROVE Stays(d[2], d[1], Named)' /\ Stays(d[3], d[1], Source)'
      <3>1. PICK g \in good : d = <<g, toposort_provs(target_cache, g), toposort_provs(edge_cache, g)>>
        BY DEF Printed, Derivation
      <3>2. d[1] = g /\ d[2] = toposort_provs(target_cache, g) /\ d[3] = toposort_provs(edge_cache, g)
        BY <3>1
      <3>3. UNCHANGED <<target_cache, edge_cache>>
        BY <1>4 DEF print
      <3>4. QED BY <2>3, <3>2, <3>3
    <2>5. QED BY <1>3, <2>1, <2>4 DEF AllDerived
  <1>5. CASE ~print
    <2>1. printed' = printed
      BY <1>5 DEF Next, ReportStep, RunnerFails, WorkerCommits, target_stuff, begin_step, discover_whats_possible, end_connect, end_combine,
             end_closemirror, follow, fill_cache, commit_combine_result_full, commit_connect_result_full, Fills, collect, deleted_locations,
             end_record, Throws
    <2>2. QED BY <1>3, <2>1 DEF AllDerived
  <1>6. QED BY <1>4, <1>5

LEMMA DInvAtFirst == Init => DInv
  <1> SUFFICES ASSUME Init PROVE DInv
    OBVIOUS
  <1>1. RightsFirst /\ CacheFounded /\ TargetsFounded /\ AllDerived
    BY DEF Init, RightsFirst, CacheFounded, TargetsFounded, AllDerived
  <1>2. QED BY <1>1 DEF DInv

LEMMA DInvIsKept == IInv /\ DInv /\ [Next]_vars => DInv'
  <1>1. CASE IInv /\ DInv /\ Next
    <2>1. RightsFirst /\ CacheFounded /\ TargetsFounded
      BY <1>1 DEF DInv
    <2>2. RightsFirst' /\ CacheFounded' /\ TargetsFounded' /\ AllDerived'
      BY <1>1, <2>1, KeepsRightsFirst, KeepsCacheFounded, KeepsTargetsFounded, KeepsDerivations
    <2>3. QED BY <2>2 DEF DInv
  <1>2. CASE DInv /\ UNCHANGED vars
    <2>1. UNCHANGED <<done, pool, prov, closed, target_cache, edge_cache, batch, printed>>
      BY <1>2 DEF vars, db, search, cache
    <2>2. RightsFirst' /\ CacheFounded'
      BY <1>2, <2>1 DEF DInv, RightsFirst, CacheFounded, FromClosed, MadeFrom, Edges
    <2>3. TargetsFounded'
      BY <1>2, <2>1 DEF DInv, TargetsFounded, TargetFounded, Edges
    <2>4. AllDerived'
      BY <1>2, <2>1 DEF DInv, AllDerived, Stays, Derives, Edges
    <2>5. QED BY <2>2, <2>3, <2>4 DEF DInv
  <1>3. QED BY <1>1, <1>2

\* What the report prints is how to build each gadget, from the source gadgets and
\* from the named ones: each line is an edge of the database, after the lines of
\* its inputs, and the last one is the gadget.  This holds for every database,
\* whatever the workers commit meanwhile, and also after runners have failed and
\* left the cache with edges whose inputs are missing.
THEOREM DerivationsAreCorrect == Spec => []DerivationsCorrect
  <1>1. DInv => DerivationsCorrect
    BY DEF DInv, AllDerived, Stays, DerivationsCorrect
  <1>2. QED BY <1>1, IInvAlways, DInvAtFirst, DInvIsKept, PTL DEF Spec
=============================================================================
