------------------------- MODULE PrepareGraphProofs --------------------------
(***************************************************************************)
(* validate_graph gives the right verdict on every finite graph: a cyclic  *)
(* core is never completed (CoresUntouched), and whatever can be completed *)
(* is still ahead in the list (CandidatesAhead), because completing a node *)
(* lists its dependents again.                                             *)
(*                                                                         *)
(* prepare_graph keeps the order of the task files exactly, however many    *)
(* compilations it makes of each task, and so makes no cycle.               *)
(*                                                                         *)
(* parse_arguments says what it was told: after each word it has read, the  *)
(* arguments say what the words up to there say (Read, ReadNext), so that   *)
(* create_tasks loses no source and no option of a command line, however    *)
(* long it is (CommandCompiles).                                            *)
(***************************************************************************)
EXTENDS PrepareGraph, FiniteSetTheorems, WellFoundedInduction, TLAPS

\* A listing of a set of nodes is a sequence in which each of them occurs.
LEMMA ListingIsSeq ==
  ASSUME NEW S, IsFiniteSet(S), NEW q \in Listings(S)
  PROVE  /\ q \in Seq(S)
         /\ Len(q) = Cardinality(S)
         /\ \A n \in S : \E j \in 1..Len(q) : q[j] = n
<1>1. Cardinality(S) \in Nat
  BY FS_CardinalityType
<1> QED
  BY <1>1 DEF Listings

\* Subsets of the nodes are finite, and one with as many elements is all of them.
LEMMA NodesFinite ==
  ASSUME TypeOK, NEW S \in SUBSET nodes
  PROVE  IsFiniteSet(S) /\ Cardinality(S) \in Nat /\ (Cardinality(S) = Cardinality(nodes) => S = nodes)
BY FS_Subset, FS_CardinalityType DEF TypeOK

\* The first list of candidates holds every node.
LEMMA InitInd == Init => IndInv
<1> SUFFICES ASSUME Init PROVE IndInv
  OBVIOUS
<1>1. IsFiniteSet(nodes)
  BY UniverseFinite, FS_Subset DEF Init
<1>2. /\ queue \in Seq(nodes)
      /\ \A n \in nodes : \E j \in 1..Len(queue) : queue[j] = n
  BY <1>1, ListingIsSeq DEF Init
<1>3. TypeOK
  BY <1>1, <1>2 DEF Init, TypeOK
<1>4. CoresUntouched
  BY DEF Init, CoresUntouched
<1>5. CandidatesAhead
  BY <1>2 DEF Init, CandidatesAhead
<1>6. Counted
  BY FS_EmptySet DEF Init, Counted
<1> QED
  BY <1>3, <1>4, <1>5, <1>6 DEF IndInv

\* Completing a node preserves the invariant.
LEMMA CompleteInd == IndInv /\ Complete => IndInv'
<1> SUFFICES ASSUME IndInv, Complete PROVE IndInv'
  OBVIOUS
<1> USE DEF IndInv
<1> DEFINE c == queue[i]
<1>1. /\ c \in nodes /\ c \notin completed
      /\ i \in 1..Len(queue) /\ verdict = "run"
      /\ nodes' = nodes /\ edges' = edges
      /\ completed' = completed \cup {c} /\ count' = count + 1
      /\ Outgoing(nodes, edges, c) \subseteq completed
  BY DEF Complete, TypeOK, Completable, IsReady, graph
<1>2. PICK s \in Listings(Incoming(nodes, edges, c)) : queue' = queue \o s
  BY DEF Complete
<1>3. /\ s \in Seq(nodes)
      /\ \A n \in Incoming(nodes, edges, c) : \E k \in 1..Len(s) : s[k] = n
  <2>1. Incoming(nodes, edges, c) \in SUBSET nodes
    BY DEF Incoming
  <2>2. IsFiniteSet(Incoming(nodes, edges, c))
    BY <2>1, NodesFinite
  <2> QED
    BY <2>1, <2>2, ListingIsSeq
<1>4. /\ Len(queue') = Len(queue) + Len(s)
      /\ \A j \in 1..Len(queue) : queue'[j] = queue[j]
      /\ \A k \in 1..Len(s) : queue'[Len(queue) + k] = s[k]
      /\ Len(queue) \in Nat /\ Len(s) \in Nat
  BY <1>2, <1>3 DEF TypeOK
<1>5. TypeOK'
  BY <1>1, <1>2, <1>3 DEF TypeOK, Complete
<1>6. CoresUntouched'
  <2> SUFFICES ASSUME NEW S \in SUBSET nodes, IsCyclicCore(S, edges), c \in S
               PROVE  FALSE
    BY <1>1 DEF CoresUntouched
  <2>1. PICK m \in S : <<c, m>> \in edges
    BY DEF IsCyclicCore
  <2>2. m \in completed
    BY <2>1, <1>1 DEF Outgoing
  <2> QED
    BY <2>2 DEF CoresUntouched
<1>7. CandidatesAhead'
  <2> SUFFICES ASSUME verdict' # "Ok", NEW n \in nodes, Completable(n)'
               PROVE  \E j \in i'..Len(queue') : queue'[j] = n
    BY <1>1 DEF CandidatesAhead
  <2>1. i' = i + 1
    BY <1>1 DEF Complete
  <2>2. n # c /\ n \notin completed /\ Outgoing(nodes, edges, n) \subseteq completed \cup {c}
    BY <1>1 DEF Completable, IsReady
  <2>3. CASE Completable(n)
    <3>1. PICK j \in i..Len(queue) : queue[j] = n
      BY <2>3, <1>1 DEF CandidatesAhead
    <3>2. j \in i'..Len(queue') /\ queue'[j] = n
      BY <3>1, <2>1, <2>2, <1>1, <1>4 DEF TypeOK
    <3> QED
      BY <3>2
  <2>4. CASE ~Completable(n)
    <3>1. n \in Incoming(nodes, edges, c)
      BY <2>2, <2>4 DEF Completable, IsReady, Outgoing, Incoming
    <3>2. PICK k \in 1..Len(s) : s[k] = n
      BY <3>1, <1>3
    <3>3. Len(queue) + k \in i'..Len(queue') /\ queue'[Len(queue) + k] = n
      BY <3>2, <2>1, <1>1, <1>4 DEF TypeOK
    <3> QED
      BY <3>3
  <2> QED
    BY <2>3, <2>4
<1>8. Counted'
  <2>1. IsFiniteSet(completed)
    BY NodesFinite DEF TypeOK
  <2>2. Cardinality(completed') = count'
    BY <2>1, <1>1, FS_AddElement DEF Counted
  <2>3. completed' \in SUBSET nodes
    BY <1>1 DEF TypeOK
  <2>4. Cardinality(completed') = Cardinality(nodes) <=> completed' = nodes
    BY <2>3, NodesFinite
  <2>5. verdict' = (IF count' = Cardinality(nodes) THEN "Ok" ELSE "run")
    BY <1>1 DEF Complete
  <2> QED
    BY <2>2, <2>4, <2>5, <1>1 DEF Counted
<1> QED
  BY <1>5, <1>6, <1>7, <1>8

\* Passing a node over preserves the invariant: it could not be completed.
LEMMA SkipInd == IndInv /\ Skip => IndInv'
<1> SUFFICES ASSUME IndInv, Skip PROVE IndInv'
  OBVIOUS
<1> USE DEF IndInv
<1>1. TypeOK' /\ CoresUntouched' /\ Counted'
  BY DEF Skip, graph, TypeOK, CoresUntouched, Counted
<1>2. CandidatesAhead'
  <2> SUFFICES ASSUME NEW n \in nodes, Completable(n)
               PROVE  \E j \in (i + 1)..Len(queue) : queue[j] = n
    BY DEF Skip, graph, CandidatesAhead, Completable
  <2>1. PICK j \in i..Len(queue) : queue[j] = n
    BY DEF CandidatesAhead, Skip
  <2>2. j # i
    BY <2>1 DEF Skip
  <2> QED
    BY <2>1, <2>2 DEF TypeOK
<1> QED
  BY <1>1, <1>2

\* Every iteration preserves the invariant.
LEMMA NextInd == IndInv /\ [Next]_vars => IndInv'
<1> SUFFICES ASSUME IndInv, [Next]_vars PROVE IndInv'
  OBVIOUS
<1>1. CASE ReturnEmpty
  BY <1>1 DEF ReturnEmpty, graph, IndInv, TypeOK, CoresUntouched, CandidatesAhead, Counted
<1>2. CASE Complete
  BY <1>2, CompleteInd
<1>3. CASE Skip
  BY <1>3, SkipInd
<1>4. CASE Exhausted
  BY <1>4 DEF Exhausted, graph, IndInv, TypeOK, CoresUntouched, CandidatesAhead, Counted, Completable
<1>5. CASE UNCHANGED vars
  BY <1>5 DEF vars, IndInv, TypeOK, CoresUntouched, CandidatesAhead, Counted, Completable
<1> QED
  BY <1>1, <1>2, <1>3, <1>4, <1>5 DEF Next, Returned

\* What the verdict says of the graph.
LEMMA VerdictRight == IndInv => AcceptsOnlyAcyclic /\ RejectsOnlyCyclic
<1>1. IndInv => AcceptsOnlyAcyclic
  BY DEF IndInv, Counted, CoresUntouched, AcceptsOnlyAcyclic, HasCycle, IsCyclicCore
<1>2. IndInv => RejectsOnlyCyclic
  <2> SUFFICES ASSUME IndInv, verdict = "Err" PROVE HasCycle(nodes, edges)
    BY DEF RejectsOnlyCyclic
  <2> DEFINE S == nodes \ completed
  <2>1. S # {}
    BY DEF IndInv, Counted, TypeOK
  <2>2. ASSUME NEW n \in S PROVE \E m \in S : <<n, m>> \in edges
    <3>1. ~Completable(n)
      BY DEF IndInv, Counted, CandidatesAhead, TypeOK
    <3> QED
      BY <3>1 DEF Completable, IsReady, Outgoing
  <2> QED
    BY <2>1, <2>2 DEF HasCycle, IsCyclicCore
<1> QED
  BY <1>1, <1>2

\* The invariant of the candidate loop holds for every finite set of nodes.
THEOREM ValidateInvariant == Spec => []IndInv
  BY InitInd, NextInd, PTL DEF Spec

\* Whatever the graph, validate_graph never lets a cyclic one through.
THEOREM AcceptsOnlyAcyclicAlways == Spec => []AcceptsOnlyAcyclic
  BY VerdictRight, ValidateInvariant, PTL

\* Whatever the graph and the order of its nodes and neighbours, the error
\* "Found cycles in build dependencies" is given only for a cyclic graph.
THEOREM RejectsOnlyCyclicAlways == Spec => []RejectsOnlyCyclic
  BY VerdictRight, ValidateInvariant, PTL

-------------------------------------------------------------------------------
(* Recursion and induction                                                 *)

\* A set of numbers that is not empty has a least one.
LEMMA LeastNumber ==
  ASSUME NEW T \in SUBSET Nat, T # {}
  PROVE  \E x \in T : \A y \in T : x <= y
<1>1. \E x \in T : \A y \in T : ~(<<y, x>> \in OpToRel(<, Nat))
  BY NatLessThanWellFounded, WFMin, Zenon
<1>2. PICK x \in T : \A y \in T : ~(<<y, x>> \in OpToRel(<, Nat))
  BY <1>1
<1>3. \A y \in T : ~(y < x)
  BY <1>2, Zenon DEF OpToRel
<1> QED BY <1>3

\* A set with 0 that has, with a number below n, the next has n.
LEMMA Upwards ==
  ASSUME NEW n \in Nat, NEW T, 0 \in T, \A k \in 0..n : k \in T /\ k < n => k + 1 \in T
  PROVE  n \in T
<1> SUFFICES ASSUME n \notin T PROVE FALSE
  OBVIOUS
<1>1. PICK M : M = {k \in 0..n : k \notin T}
  OBVIOUS
<1>2. M \in SUBSET Nat /\ M # {}
  BY <1>1
<1>3. PICK k \in M : \A y \in M : k <= y
  BY <1>2, LeastNumber
<1>4. k # 0 /\ k - 1 \in 0..n /\ k - 1 \notin M
  BY <1>1, <1>3
<1>5. (k - 1) + 1 \in T
  BY <1>1, <1>3, <1>4
<1> QED BY <1>1, <1>3, <1>4, <1>5

\* What a sequence has.
LEMMA SeqHas ==
  ASSUME NEW T, NEW s \in Seq(T)
  PROVE  /\ Len(s) \in Nat /\ DOMAIN s = 1..Len(s) /\ (Len(s) = 0 <=> s = <<>>)
         /\ \A k \in 1..Len(s) : s[k] \in T
OBVIOUS

\* What is repeated n times from b on, the k-th time by G[k].
Repeats(f, b, n, G) == f[0] = b /\ \A k \in 1..n : f[k] = G[k][f[k - 1]]

LEMMA Repeated ==
  ASSUME NEW S, NEW b, NEW n, NEW G, b \in S, n \in Nat, G \in [1..n -> [S -> S]]
  PROVE  \E f \in [0..n -> S] : Repeats(f, b, n, G)
<1> USE DEF Repeats
<1> DEFINE R(f, m) == f \in [0..m -> S] /\ f[0] = b /\ \A k \in 1..m : f[k] = G[k][f[k - 1]]
<1>1. PICK T : T = {m \in 0..n : \E f : R(f, m)}
  OBVIOUS
<1>2. 0 \in T
  <2>1. PICK f : f = [k \in 0..0 |-> b]
    OBVIOUS
  <2>2. f \in [0..0 -> S] /\ f[0] = b
    BY <2>1
  <2>3. R(f, 0)
    BY <2>2
  <2> HIDE DEF R
  <2> QED BY <1>1, <2>3
<1>3. ASSUME NEW m \in 0..n, m \in T, m < n PROVE m + 1 \in T
  <2>1. PICK f : R(f, m)
    BY <1>1, <1>3
  <2>2. m + 1 \in 1..n /\ m \in 0..m /\ m + 1 \in 0..n
    BY <1>3
  <2>3. G[m + 1][f[m]] \in S
    BY <2>1, <2>2
  <2>4. PICK g : g = [k \in 0..(m + 1) |-> IF k = m + 1 THEN G[m + 1][f[m]] ELSE f[k]]
    OBVIOUS
  <2>5. ASSUME NEW k \in 0..(m + 1) PROVE g[k] \in S
    <3>1. CASE k = m + 1
      BY <2>3, <2>4, <3>1
    <3>2. CASE k # m + 1
      <4>1. k \in 0..m
        BY <3>2
      <4> QED BY <2>1, <2>4, <3>2, <4>1
    <3> QED BY <3>1, <3>2
  <2>6. g \in [0..(m + 1) -> S]
    BY <2>4, <2>5
  <2>7. g[0] = b
    BY <2>1, <2>4
  <2>8. ASSUME NEW k \in 1..(m + 1) PROVE g[k] = G[k][g[k - 1]]
    <3>1. CASE k = m + 1
      <4>1. g[m + 1] = G[m + 1][f[m]] /\ g[m] = f[m] /\ (m + 1) - 1 = m
        BY <2>2, <2>4
      <4> QED BY <3>1, <4>1
    <3>2. CASE k # m + 1
      <4>1. k \in 1..m /\ k \in 0..(m + 1) /\ k - 1 \in 0..(m + 1) /\ k - 1 # m + 1
        BY <3>2
      <4>2. g[k] = f[k] /\ g[k - 1] = f[k - 1]
        BY <2>4, <3>2, <4>1
      <4> QED BY <2>1, <4>1, <4>2
    <3> QED BY <3>1, <3>2
  <2>9. R(g, m + 1)
    BY <2>6, <2>7, <2>8
  <2> HIDE DEF R
  <2> QED BY <1>1, <2>2, <2>9
<1>4. n \in T
  BY <1>2, <1>3, Upwards
<1> QED BY <1>1, <1>4

\* Appending to a sequence.
LEMMA AppendGives ==
  ASSUME NEW S, NEW s \in Seq(S), NEW e \in S
  PROVE  /\ Append(s, e) \in Seq(S) /\ Len(Append(s, e)) = Len(s) + 1 /\ Len(s) \in Nat
         /\ \A k \in 1..Len(s) : Append(s, e)[k] = s[k]
         /\ Append(s, e)[Len(s) + 1] = e
OBVIOUS

\* FlattenSeq puts one sequence after the other.
Joined(f, s) == f[0] = <<>> /\ \A k \in 1..Len(s) : f[k] = f[k - 1] \o s[k]

LEMMA FlattenJoins ==
  ASSUME NEW S, NEW s \in Seq(Seq(S))
  PROVE  \E f \in [0..Len(s) -> Seq(S)] : Joined(f, s) /\ FlattenSeq(s) = f[Len(s)]
<1>1. PICK n \in Nat : /\ n = Len(s) /\ (n = 0 => s = <<>>)
                      /\ \A k \in 1..n : s[k] \in Seq(S)
  BY SeqHas
<1>2. PICK G : G = [k \in 1..n |-> [x \in Seq(S) |-> x \o s[k]]]
  OBVIOUS
<1>3. G \in [1..n -> [Seq(S) -> Seq(S)]]
  <2>1. ASSUME NEW k \in 1..n, NEW x \in Seq(S) PROVE x \o s[k] \in Seq(S)
    <3>1. s[k] \in Seq(S)
      BY <1>1
    <3> QED BY <3>1
  <2> QED BY <1>2, <2>1
<1>4. PICK f \in [0..n -> Seq(S)] : f[0] = <<>> /\ \A k \in 1..n : f[k] = G[k][f[k - 1]]
  <2>1. PICK D, b : D = Seq(S) /\ b = <<>>
    OBVIOUS
  <2>2. b \in D /\ G \in [1..n -> [D -> D]]
    BY <1>3, <2>1
  <2>3. \E f \in [0..n -> D] : Repeats(f, b, n, G)
    BY <2>2, Repeated
  <2> QED BY <2>1, <2>3 DEF Repeats
<1>5. ASSUME NEW k \in 1..n PROVE f[k] = f[k - 1] \o s[k] /\ f[k] \in Seq(S) /\ f[k - 1] \in Seq(S)
  <2>1. k - 1 \in 0..n /\ k \in 0..n
    OBVIOUS
  <2>2. f[k - 1] \in Seq(S) /\ f[k] \in Seq(S)
    BY <2>1
  <2> QED BY <1>2, <1>4, <2>2
<1>6. Joined(f, s)
  BY <1>1, <1>4, <1>5 DEF Joined
<1>7. FlattenSeq(s) = f[n]
  <2>1. CASE n = 0
    <3>1. s = <<>>
      BY <1>1, <2>1
    <3> QED BY <1>1, <1>4, <2>1, <3>1 DEF FlattenSeq
  <2>2. CASE n # 0
    <3> DEFINE Q(g) == g = [k \in 1..n |-> IF k = 1 THEN s[k] ELSE g[k - 1] \o s[k]]
    <3>1. PICK h : h = [k \in 1..n |-> f[k]]
      OBVIOUS
    <3>2. ASSUME NEW k \in 1..n PROVE h[k] = IF k = 1 THEN s[k] ELSE h[k - 1] \o s[k]
      <4>1. CASE k = 1
        <5>1. s[1] \in Seq(S) /\ f[1] = f[0] \o s[1]
          <6>1. 1 \in 1..n /\ 1 - 1 = 0
            BY <4>1
          <6> QED BY <1>1, <1>5, <6>1
        <5>2. f[1] = s[1]
          BY <1>4, <5>1
        <5> QED BY <3>1, <4>1, <5>2
      <4>2. CASE k # 1
        <5>1. k - 1 \in 1..n
          BY <4>2
        <5> QED BY <1>5, <3>1, <4>2, <5>1
      <4> QED BY <4>1, <4>2
    <3>3. Q(h)
      BY <3>1, <3>2
    <3>4. PICK F : F = CHOOSE g : Q(g)
      OBVIOUS
    <3>5. Q(F)
      BY <3>3, <3>4
    <3>6. FlattenSeq(s) = F[n]
      BY <1>1, <2>2, <3>4 DEF FlattenSeq
    <3>7. PICK T : T = {k \in 0..n : k = 0 \/ F[k] = f[k]}
      OBVIOUS
    <3>8. ASSUME NEW k \in 0..n, k \in T, k < n PROVE k + 1 \in T
      <4>1. PICK m \in 1..n : m = k + 1 /\ m - 1 = k /\ m \in 0..n /\ (m = 1 <=> k = 0)
        BY <3>8
      <4>2. F[m] = IF m = 1 THEN s[m] ELSE F[m - 1] \o s[m]
        BY <3>5
      <4>3. f[m] = f[k] \o s[m] /\ s[m] \in Seq(S)
        BY <1>1, <1>5, <4>1
      <4>4. F[m] = f[m]
        <5>1. CASE k = 0
          <6>1. f[k] = <<>> /\ <<>> \o s[m] = s[m]
            BY <1>4, <4>3, <5>1
          <6> QED BY <4>1, <4>2, <4>3, <5>1, <6>1
        <5>2. CASE k # 0
          <6>1. F[k] = f[k]
            BY <3>7, <3>8, <5>2
          <6> QED BY <4>1, <4>2, <4>3, <5>2, <6>1
        <5> QED BY <5>1, <5>2
      <4> QED BY <3>7, <4>1, <4>4
    <3>9. n \in T
      <4>1. 0 \in T
        BY <3>7
      <4> QED BY <3>8, <4>1, Upwards
    <3> QED BY <2>2, <3>6, <3>7, <3>9
  <2> QED BY <2>1, <2>2
<1> QED BY <1>1, <1>6, <1>7

\* Two that join the same sequences, as far as the shorter goes, agree.
SameUpTo(s, t, n) == n <= Len(s) /\ n <= Len(t) /\ \A k \in 1..n : s[k] = t[k]
SameAt(f, g, n) == f[n] = g[n]

LEMMA JoinedSame ==
  ASSUME NEW s, NEW t, NEW n, NEW f, NEW g, n \in Nat, Len(s) \in Nat, Len(t) \in Nat,
         SameUpTo(s, t, n), Joined(f, s), Joined(g, t)
  PROVE  SameAt(f, g, n)
<1>1. PICK T : T = {k \in 0..n : f[k] = g[k]}
  OBVIOUS
<1>2. 0 \in T
  BY <1>1 DEF Joined
<1>3. ASSUME NEW k \in 0..n, k \in T, k < n PROVE k + 1 \in T
  <2>1. k + 1 \in 1..n /\ (k + 1) - 1 = k /\ k + 1 \in 1..Len(s) /\ k + 1 \in 1..Len(t) /\ k + 1 \in 0..n
    BY <1>3 DEF SameUpTo
  <2>2. f[k + 1] = f[k] \o s[k + 1] /\ g[k + 1] = g[k] \o t[k + 1]
    BY <2>1 DEF Joined
  <2>3. f[k] = g[k] /\ s[k + 1] = t[k + 1]
    BY <1>1, <1>3, <2>1 DEF SameUpTo
  <2> QED BY <1>1, <2>1, <2>2, <2>3
<1>4. n \in T
  BY <1>2, <1>3, Upwards
<1> QED BY <1>1, <1>4 DEF SameAt

\* One sequence more.
LEMMA FlattenAppend ==
  ASSUME NEW S, NEW s \in Seq(Seq(S)), NEW e \in Seq(S)
  PROVE  /\ FlattenSeq(s) \in Seq(S) /\ FlattenSeq(Append(s, e)) = FlattenSeq(s) \o e
         /\ FlattenSeq(<<>>) = <<>>
<1>1. PICK f \in [0..Len(s) -> Seq(S)] : Joined(f, s) /\ FlattenSeq(s) = f[Len(s)]
  BY FlattenJoins
<1>2. PICK t : t = Append(s, e)
  OBVIOUS
<1>3. /\ t \in Seq(Seq(S)) /\ Len(t) = Len(s) + 1 /\ Len(s) \in Nat /\ t[Len(s) + 1] = e
      /\ \A k \in 1..Len(s) : s[k] = t[k]
  BY <1>2
<1>4. PICK g \in [0..Len(t) -> Seq(S)] : Joined(g, t) /\ FlattenSeq(t) = g[Len(t)]
  BY <1>3, FlattenJoins
<1>5. f[Len(s)] = g[Len(s)]
  <2>1. PICK n \in Nat : n = Len(s)
    BY <1>3
  <2>2. Len(t) \in Nat /\ Len(s) \in Nat /\ SameUpTo(s, t, n)
    BY <1>3, <2>1 DEF SameUpTo
  <2>3. Joined(f, s) /\ Joined(g, t)
    BY <1>1, <1>4
  <2>4. SameAt(f, g, n)
    BY <2>1, <2>2, <2>3, JoinedSame
  <2> QED BY <2>1, <2>4 DEF SameAt
<1>6. g[Len(t)] = g[Len(s)] \o e
  <2>1. Len(t) \in 1..Len(t) /\ Len(t) - 1 = Len(s)
    BY <1>3
  <2> QED BY <1>3, <1>4, <2>1 DEF Joined
<1>7. Len(s) \in 0..Len(s)
  BY <1>3
<1>8. FlattenSeq(<<>>) = <<>>
  BY DEF FlattenSeq
<1> QED BY <1>1, <1>2, <1>4, <1>5, <1>6, <1>7, <1>8

-------------------------------------------------------------------------------
(* How a command line is read                                              *)

Types == {"flag", "param", "input", "output"}
Scopes == {"Ignore", "Shared", "Compiler", "Preprocessor", "Object", "Marker", "Precompiled", "Source"}
Arg == [type : Types, scope : Scopes, key : STRING, val : Seq(STRING)]

Compilers == {"cl", "clang"}

IsSource(a) == Meant(a, "input", "Source", "")

\* While words are read, an option may wait for its value.
Readings(compiler) ==
  {s \in [args : Seq(Arg), bad : BOOLEAN, option : Seq(Word)] :
     s.option = Nothing \/ \E w \in Word : s.option = <<w>> /\ TakesNext(compiler, w)}

\* An argument that says what a word that does not take the next one says: a
\* plain word is a source, and an option is not.
Says(a, w) == Text(a) = Text(w) /\ (IsSource(a) <=> ~Dashed(w)) /\ a.val = (IF Dashed(w) THEN a.val ELSE w.val)

\* None, or one such.
SaysOrNot(as, w) == as = <<>> \/ \E a \in Arg : as = <<a>> /\ Says(a, w)

\* What reading a word w makes of s.
Waits(compiler, s, w, r) ==
  /\ s.option = Nothing /\ TakesNext(compiler, w)
  /\ r.args = s.args /\ r.bad = s.bad /\ r.option = <<w>>
Fails(s, r) == r.bad /\ r.option = Nothing
Takes(compiler, s, w, r) ==
  /\ s.option = Nothing /\ ~TakesNext(compiler, w) /\ r.option = Nothing
  /\ \E a \in Arg : r.args = Append(s.args, a) /\ r.bad = s.bad /\ Says(a, w)
TakesBoth(s, w, r) ==
  /\ s.option # Nothing /\ r.option = Nothing
  /\ \E a \in Arg : /\ r.args = Append(s.args, a) /\ r.bad = s.bad
                    /\ Text(a) = Text(s.option[1]) \o Text(w) /\ ~IsSource(a)

\* Sequences of one element.
LEMMA OneIsSeq ==
  ASSUME NEW S, NEW e, e \in S
  PROVE  <<e>> \in Seq(S) /\ <<>> \in Seq(S)
OBVIOUS

\* The words as fields.
LEMMA WordHas ==
  ASSUME NEW w, w \in Word
  PROVE  /\ w.dash \in {"", "-", "--", "@"} /\ w.key \in STRING /\ w.val \in Seq(STRING)
         /\ (~Dashed(w) => w.key = "") /\ Text(w) \in Seq(STRING)
         /\ w = [dash |-> w.dash, key |-> w.key, val |-> w.val]
<1>1. /\ w.dash \in {"", "-", "--", "@"} /\ w.key \in STRING /\ w.val \in Seq(STRING)
      /\ (~Dashed(w) => w.key = "") /\ w = [dash |-> w.dash, key |-> w.key, val |-> w.val]
  BY DEF Word
<1>2. Text(w) \in Seq(STRING)
  <2>1. PICK key, val, S : key = w.key /\ val = w.val /\ S = STRING
    OBVIOUS
  <2>2. <<key>> \in Seq(S) /\ <<>> \in Seq(S) /\ val \in Seq(S)
    BY <1>1, <2>1, OneIsSeq
  <2>3. PICK start \in Seq(S) : start = (IF key = "" THEN <<>> ELSE <<key>>)
    BY <2>2
  <2>4. start \o val \in Seq(S)
    BY <2>2
  <2> QED BY <2>1, <2>3, <2>4 DEF Text
<1> QED BY <1>1, <1>2

\* parse_argument of the two compilers: an option that is known.
LEMMA FlagsSay ==
  ASSUME NEW w, w \in Word, Dashed(w)
  PROVE  SaysOrNot(ClangFlag(w), w) /\ SaysOrNot(VsFlag(w), w)
<1>1. /\ w.key \in STRING /\ w.val \in Seq(STRING) /\ Text(w) = (IF w.key = "" THEN <<>> ELSE <<w.key>>) \o w.val
  BY WordHas DEF Text
<1>2. ASSUME NEW a, a \in Arg, a.key = w.key, a.val = w.val, a.scope # "Source" PROVE SaysOrNot(<<a>>, w)
  <2>1. Text(a) = Text(w) /\ ~IsSource(a)
    BY <1>2 DEF Text, IsSource, Meant
  <2> QED BY <1>2, <2>1 DEF SaysOrNot, Says
<1>3. SaysOrNot(<<>>, w)
  BY DEF SaysOrNot
<1>4. ASSUME NEW scope, scope \in Scopes, scope # "Source"
      PROVE  /\ SaysOrNot(<<Flag(scope, w)>>, w) /\ SaysOrNot(<<Param(scope, w.key, w.val)>>, w)
             /\ SaysOrNot(<<Output(scope, w.key, w.val)>>, w) /\ SaysOrNot(<<Input(scope, w.key, w.val)>>, w)
  <2>1. /\ Flag(scope, w) \in Arg /\ Param(scope, w.key, w.val) \in Arg
        /\ Output(scope, w.key, w.val) \in Arg /\ Input(scope, w.key, w.val) \in Arg
    BY <1>1, <1>4 DEF Arg, Types, Flag, Param, Output, Input
  <2>2. /\ Flag(scope, w).key = w.key /\ Flag(scope, w).val = w.val /\ Flag(scope, w).scope # "Source"
        /\ Param(scope, w.key, w.val).key = w.key
        /\ Param(scope, w.key, w.val).val = w.val /\ Param(scope, w.key, w.val).scope # "Source"
        /\ Output(scope, w.key, w.val).key = w.key
        /\ Output(scope, w.key, w.val).val = w.val /\ Output(scope, w.key, w.val).scope # "Source"
        /\ Input(scope, w.key, w.val).key = w.key
        /\ Input(scope, w.key, w.val).val = w.val /\ Input(scope, w.key, w.val).scope # "Source"
    BY <1>4 DEF Flag, Param, Output, Input
  <2> QED BY <1>2, <2>1, <2>2
<1>5. ASSUME NEW scope \in {"Ignore", "Shared", "Compiler", "Preprocessor", "Object", "Marker", "Precompiled"}
      PROVE  /\ SaysOrNot(<<Flag(scope, w)>>, w) /\ SaysOrNot(<<Param(scope, w.key, w.val)>>, w)
             /\ SaysOrNot(<<Output(scope, w.key, w.val)>>, w) /\ SaysOrNot(<<Input(scope, w.key, w.val)>>, w)
  <2>1. scope \in Scopes /\ scope # "Source"
    BY DEF Scopes
  <2> QED BY <1>4, <2>1
<1>6. SaysOrNot(ClangFlag(w), w)
  BY <1>3, <1>5 DEF ClangFlag
<1>7. SaysOrNot(VsFlag(w), w)
  <2>1. /\ SaysOrNot(<<Flag("Ignore", w)>>, w) /\ SaysOrNot(<<Flag("Compiler", w)>>, w)
        /\ SaysOrNot(<<Flag("Shared", w)>>, w) /\ SaysOrNot(<<Param("Ignore", w.key, w.val)>>, w)
        /\ SaysOrNot(<<Output("Object", w.key, w.val)>>, w) /\ SaysOrNot(<<Input("Precompiled", w.key, w.val)>>, w)
        /\ SaysOrNot(<<Output("Marker", w.key, w.val)>>, w) /\ SaysOrNot(<<Input("Marker", w.key, w.val)>>, w)
        /\ SaysOrNot(<<Param("Preprocessor", w.key, w.val)>>, w)
    BY <1>5
  <2> QED BY <1>3, <2>1 DEF VsFlag
<1> QED BY <1>6, <1>7
\* Nothing before or after a sequence.
LEMMA EmptyEnds ==
  ASSUME NEW S, NEW s, s \in Seq(S)
  PROVE  s \o <<>> = s /\ <<>> \o s = s
OBVIOUS

\* The text of a word without a value.
LEMMA BareText ==
  ASSUME NEW w, w \in Word, w.val = Nothing, w.key # ""
  PROVE  Text(w) = <<w.key>>
<1>1. PICK key, S : key = w.key /\ S = STRING
  OBVIOUS
<1>2. key \in S
  BY <1>1, WordHas
<1>3. <<key>> \o <<>> = <<key>>
  <2>1. PICK one : one = <<key>> /\ one \in Seq(S)
    BY <1>2, OneIsSeq
  <2>2. one \o <<>> = one
    BY <2>1, EmptyEnds
  <2> QED BY <2>1, <2>2
<1> QED BY <1>1, <1>3 DEF Text, Nothing

\* An argument that says what the waiting option and the word say.
SaysBoth(as, o, w) ==
  as = <<>> \/ \E a \in Arg : as = <<a>> /\ Text(a) = Text(o) \o Text(w) /\ ~IsSource(a)

\* parse_argument of the two compilers: an option and the word that is its value.
LEMMA ValuesSay ==
  ASSUME NEW o, NEW w, o \in Word, w \in Word
  PROVE  /\ TakesNext("clang", o) /\ o.dash = "--" => SaysBoth(ClangLong(o, Text(w)), o, w)
         /\ TakesNext("clang", o) /\ o.dash # "--" /\ ~Dashed(w) => SaysBoth(ClangValue(o, w.val), o, w)
         /\ TakesNext("cl", o) /\ ~Dashed(w) => SaysBoth(<<Param(VsSpaceable(o), o.key, w.val)>>, o, w)
<1>1. /\ o.key \in STRING /\ o.val \in Seq(STRING) /\ w.val \in Seq(STRING) /\ Text(w) \in Seq(STRING)
      /\ o = [dash |-> o.dash, key |-> o.key, val |-> o.val]
  BY WordHas
<1>2. ASSUME NEW a, a \in Arg, a.key = o.key, NEW v, a.val = v, v = Text(w), a.scope # "Source", o.key # "",
             o.val = Nothing
      PROVE  SaysBoth(<<a>>, o, w)
  <2>1. Text(a) = Text(o) \o Text(w)
    <3>1. Text(o) = <<o.key>>
      BY <1>2, BareText
    <3> QED BY <1>2, <3>1 DEF Text
  <2>2. ~IsSource(a)
    BY <1>2 DEF IsSource, Meant
  <2> QED BY <1>2, <2>1, <2>2 DEF SaysBoth
<1>3. ASSUME ~Dashed(w) PROVE Text(w) = w.val
  <2>1. PICK val, S : val = w.val /\ S = STRING
    OBVIOUS
  <2>2. <<>> \o val = val
    BY <1>1, <2>1
  <2>3. w.key = ""
    BY <1>3, WordHas
  <2> QED BY <2>1, <2>2, <2>3 DEF Text
<1>4. ASSUME TakesNext("clang", o), o.dash = "--" PROVE SaysBoth(ClangLong(o, Text(w)), o, w)
  <2>1. o.val = Nothing
    BY <1>4 DEF TakesNext
  <2>2. CASE o.key = "sysroot"
    <3>1. PICK a : a = [type |-> "flag", scope |-> "Shared", key |-> o.key, val |-> Text(w)]
      OBVIOUS
    <3>2. a \in Arg /\ a.key = o.key /\ a.val = Text(w) /\ a.scope # "Source"
      BY <1>1, <3>1 DEF Arg, Types, Scopes
    <3>3. ClangLong(o, Text(w)) = <<a>>
      BY <1>1, <2>2, <3>1 DEF ClangLong, Flag
    <3>4. o.key # ""
      BY <2>2
    <3> QED BY <1>2, <2>1, <3>2, <3>3, <3>4
  <2>3. CASE o.key # "sysroot"
    BY <2>3 DEF ClangLong, SaysBoth
  <2> QED BY <2>2, <2>3
<1>5. ASSUME TakesNext("clang", o), o.dash # "--", ~Dashed(w) PROVE SaysBoth(ClangValue(o, w.val), o, w)
  <2>1. o.val = Nothing /\ o.key \in {"include", "include-pch", "target", "D", "o", "x", "I"}
    BY <1>5 DEF TakesNext
  <2>2. o.key # ""
    BY <2>1
  <2>3. CASE o.key = "o"
    <3>1. PICK a : a = [type |-> "output", scope |-> "Object", key |-> "o", val |-> w.val]
      OBVIOUS
    <3>2. a \in Arg /\ a.key = o.key /\ a.val = w.val /\ a.scope # "Source"
      BY <1>1, <2>3, <3>1 DEF Arg, Types, Scopes
    <3>3. ClangValue(o, w.val) = <<a>>
      BY <2>3, <3>1 DEF ClangValue, Output
    <3> QED BY <1>2, <1>3, <1>5, <2>1, <2>2, <3>2, <3>3
  <2>4. CASE o.key # "o"
    <3>1. PICK scope : scope = ClangSpaceable(o)
      OBVIOUS
    <3>2. scope \in {"Preprocessor", "Shared", "Ignore"}
      BY <2>1, <2>4, <3>1 DEF ClangSpaceable
    <3>3. PICK a : a = [type |-> "param", scope |-> scope, key |-> o.key, val |-> w.val]
      OBVIOUS
    <3>4. a \in Arg /\ a.key = o.key /\ a.val = w.val /\ a.scope # "Source"
      BY <1>1, <3>2, <3>3 DEF Arg, Types, Scopes
    <3>5. ClangValue(o, w.val) = <<a>>
      BY <2>4, <3>1, <3>3 DEF ClangValue, Param
    <3> QED BY <1>2, <1>3, <1>5, <2>1, <2>2, <3>4, <3>5
  <2> QED BY <2>3, <2>4
<1>6. ASSUME TakesNext("cl", o), ~Dashed(w) PROVE SaysBoth(<<Param(VsSpaceable(o), o.key, w.val)>>, o, w)
  <2>1. o.val = Nothing /\ o.key \in {"D", "I", "W", "wd", "we", "wo", "w"}
    BY <1>6 DEF TakesNext
  <2>2. o.key # ""
    BY <2>1
  <2>3. PICK scope : scope = VsSpaceable(o)
    OBVIOUS
  <2>4. scope \in {"Preprocessor", "Shared", "Compiler"}
    BY <2>1, <2>3 DEF VsSpaceable
  <2>5. PICK a : a = [type |-> "param", scope |-> scope, key |-> o.key, val |-> w.val]
    OBVIOUS
  <2>6. a \in Arg /\ a.key = o.key /\ a.val = w.val /\ a.scope # "Source"
    BY <1>1, <2>4, <2>5 DEF Arg, Types, Scopes
  <2>7. Param(VsSpaceable(o), o.key, w.val) = a
    BY <2>3, <2>5 DEF Param
  <2> QED BY <1>2, <1>3, <1>6, <2>1, <2>2, <2>6, <2>7
<1> QED BY <1>4, <1>5, <1>6

\* What Found makes of s.
LEMMA FoundGives ==
  ASSUME NEW s, s.args \in Seq(Arg), s.bad \in BOOLEAN
  PROVE  /\ Found(s, <<>>).bad /\ Found(s, <<>>).option = Nothing
         /\ Found(s, <<>>) \in [args : Seq(Arg), bad : BOOLEAN, option : Seq(Word)]
         /\ \A a \in Arg : /\ Found(s, <<a>>).args = Append(s.args, a) /\ Found(s, <<a>>).bad = s.bad
                           /\ Found(s, <<a>>).option = Nothing
                           /\ Found(s, <<a>>) \in [args : Seq(Arg), bad : BOOLEAN, option : Seq(Word)]
<1>1. PICK args, bad, A : args = s.args /\ bad = s.bad /\ A = Arg
  OBVIOUS
<1>2. args \o <<>> = args /\ args \in Seq(A)
  BY <1>1
<1>3. \A a \in A : args \o <<a>> = Append(args, a) /\ Append(args, a) \in Seq(A) /\ <<a>> # <<>>
  BY <1>2
<1>4. <<>> \in Seq(Word)
  OBVIOUS
<1>5. /\ Found(s, <<>>).bad /\ Found(s, <<>>).option = Nothing
      /\ Found(s, <<>>) \in [args : Seq(Arg), bad : BOOLEAN, option : Seq(Word)]
  BY <1>1, <1>2, <1>4 DEF Found, Scanned, Nothing
<1>6. ASSUME NEW a \in A
      PROVE  /\ Found(s, <<a>>).args = Append(s.args, a) /\ Found(s, <<a>>).bad = s.bad
             /\ Found(s, <<a>>).option = Nothing
             /\ Found(s, <<a>>) \in [args : Seq(Arg), bad : BOOLEAN, option : Seq(Word)]
  BY <1>1, <1>3, <1>4 DEF Found, Scanned, Nothing
<1> QED BY <1>1, <1>5, <1>6
\* The cases of ReadWord.
Becomes(compiler, s, w, r) ==
  \/ Waits(compiler, s, w, r) \/ Fails(s, r) \/ Takes(compiler, s, w, r) \/ TakesBoth(s, w, r)

\* Reading a word: it waits, is an argument, is one with the option before it,
\* or makes the command unknown.
LEMMA ReadStep ==
  ASSUME NEW compiler, NEW s, NEW w, NEW r, compiler \in Compilers, s \in Readings(compiler), w \in Word,
         r = ReadWord(compiler, s, w)
  PROVE  r \in Readings(compiler) /\ Becomes(compiler, s, w, r)
<1> DEFINE Plain(x) == x \in [args : Seq(Arg), bad : BOOLEAN, option : Seq(Word)]
<1>1. Plain(s) /\ s.args \in Seq(Arg) /\ s.bad \in BOOLEAN
  BY DEF Readings
<1>2. s.option # Nothing => \E o \in Word : s.option = <<o>> /\ TakesNext(compiler, o)
  BY DEF Readings
<1>3. ASSUME Plain(r), r.option = Nothing PROVE r \in Readings(compiler)
  BY <1>3 DEF Readings
<1>4. ASSUME r = Found(s, <<>>) PROVE r \in Readings(compiler) /\ Fails(s, r)
  BY <1>1, <1>3, <1>4, FoundGives DEF Fails
<1>5. ASSUME NEW as, SaysOrNot(as, w), r = Found(s, as), s.option = Nothing, ~TakesNext(compiler, w)
      PROVE  r \in Readings(compiler) /\ (Fails(s, r) \/ Takes(compiler, s, w, r))
  <2>1. CASE as = <<>>
    BY <1>4, <1>5, <2>1
  <2>2. CASE as # <<>>
    <3>1. PICK a \in Arg : as = <<a>> /\ Says(a, w)
      BY <1>5, <2>2 DEF SaysOrNot
    <3>2. r.args = Append(s.args, a) /\ r.bad = s.bad /\ r.option = Nothing /\ Plain(r)
      BY <1>1, <1>5, <3>1, FoundGives
    <3> QED BY <1>3, <1>5, <3>1, <3>2 DEF Takes
  <2> QED BY <2>1, <2>2
<1>6. ASSUME NEW as, NEW o, s.option = <<o>>, SaysBoth(as, o, w), r = Found(s, as)
      PROVE  r \in Readings(compiler) /\ (Fails(s, r) \/ TakesBoth(s, w, r))
  <2>1. CASE as = <<>>
    BY <1>4, <1>6, <2>1
  <2>2. CASE as # <<>>
    <3>1. PICK a \in Arg : as = <<a>> /\ Text(a) = Text(o) \o Text(w) /\ ~IsSource(a)
      BY <1>6, <2>2 DEF SaysBoth
    <3>2. r.args = Append(s.args, a) /\ r.bad = s.bad /\ r.option = Nothing /\ Plain(r)
      <4>1. r = Found(s, <<a>>)
        BY <1>6, <3>1
      <4> QED BY <1>1, <4>1, FoundGives
    <3>3. s.option # Nothing /\ s.option[1] = o
      BY <1>6 DEF Nothing
    <3> QED BY <1>3, <3>1, <3>2, <3>3 DEF TakesBoth
  <2> QED BY <2>1, <2>2
<1>7. ASSUME r = Waiting(s, w), s.option = Nothing, TakesNext(compiler, w)
      PROVE  r \in Readings(compiler) /\ Waits(compiler, s, w, r)
  <2>1. r.args = s.args /\ r.bad = s.bad /\ r.option = <<w>>
    BY <1>1, <1>7 DEF Waiting
  <2>2. <<w>> \in Seq(Word)
    BY OneIsSeq
  <2>3. Plain(r)
    BY <1>1, <1>7, <2>2 DEF Waiting
  <2> QED BY <1>7, <2>1, <2>3 DEF Readings, Waits
<1>8. SaysOrNot(<<Input("Source", "", w.val)>>, w) \/ Dashed(w)
  <2>1. CASE ~Dashed(w)
    <3>1. PICK a : a = [type |-> "input", scope |-> "Source", key |-> w.key, val |-> w.val]
      OBVIOUS
    <3>2. w.key \in STRING /\ w.val \in Seq(STRING) /\ w.key = ""
      BY <2>1, WordHas
    <3>3. a \in Arg
      BY <3>1, <3>2 DEF Arg, Types, Scopes
    <3>4. Text(a) = Text(w) /\ IsSource(a) /\ a.val = w.val /\ Input("Source", "", w.val) = a
      BY <3>1, <3>2 DEF Text, IsSource, Meant, Input
    <3> QED BY <2>1, <3>3, <3>4 DEF SaysOrNot, Says
  <2> QED BY <2>1
<1>9. w.dash \in {"", "-", "--", "@"} /\ w.key \in STRING /\ w.val \in Seq(STRING)
      /\ w = [dash |-> w.dash, key |-> w.key, val |-> w.val]
  BY WordHas
<1>10. ASSUME NEW scope, scope \in Scopes, scope # "Source", Dashed(w)
       PROVE  SaysOrNot(<<Param(scope, w.key, w.val)>>, w) /\ SaysOrNot(<<Flag(scope, w)>>, w)
  <2>1. PICK a, b : a = Param(scope, w.key, w.val) /\ b = Flag(scope, w)
    OBVIOUS
  <2>2. a \in Arg /\ b \in Arg
    BY <1>9, <1>10, <2>1 DEF Arg, Types, Param, Flag
  <2>3. Text(a) = Text(w) /\ ~IsSource(a) /\ Text(b) = Text(w) /\ ~IsSource(b)
    BY <1>10, <2>1 DEF Text, IsSource, Meant, Param, Flag
  <2> QED BY <1>10, <2>1, <2>2, <2>3 DEF SaysOrNot, Says
<1>11. CASE compiler = "cl"
  <2>1. r = VsWord(s, w)
    BY <1>11 DEF ReadWord
  <2>2. CASE s.option # Nothing
    <3>1. PICK o \in Word : s.option = <<o>> /\ TakesNext("cl", o)
      BY <1>2, <1>11, <2>2
    <3>2. s.option[1] = o
      BY <3>1
    <3>3. CASE Dashed(w)
      <4>1. r = Found(s, <<>>)
        BY <2>1, <2>2, <3>2, <3>3 DEF VsWord
      <4> QED BY <1>4, <4>1 DEF Becomes
    <3>4. CASE ~Dashed(w)
      <4>1. r = Found(s, <<Param(VsSpaceable(o), o.key, w.val)>>)
        BY <2>1, <2>2, <3>2, <3>4 DEF VsWord
      <4>2. SaysBoth(<<Param(VsSpaceable(o), o.key, w.val)>>, o, w)
        BY <3>1, <3>4, ValuesSay
      <4> QED BY <1>6, <3>1, <4>1, <4>2 DEF Becomes
    <3> QED BY <3>3, <3>4
  <2>3. CASE s.option = Nothing /\ Dashed(w)
    <3>1. r = IF VsSpaceable(w) = "" THEN Found(s, VsFlag(w))
              ELSE IF w.val = Nothing THEN Waiting(s, w)
              ELSE Found(s, <<Param(VsSpaceable(w), w.key, w.val)>>)
      BY <2>1, <2>3 DEF VsWord
    <3>2. /\ VsSpaceable(w) \in {"", "Preprocessor", "Shared", "Compiler"}
          /\ VsSpaceable(w) # "" <=> w.key \in {"D", "I", "W", "wd", "we", "wo", "w"}
      BY DEF VsSpaceable
    <3>3. TakesNext(compiler, w) <=> VsSpaceable(w) # "" /\ w.val = Nothing
      BY <1>11, <2>3, <3>2 DEF TakesNext
    <3>4. CASE VsSpaceable(w) = ""
      <4>1. SaysOrNot(VsFlag(w), w)
        BY <2>3, FlagsSay
      <4> QED BY <1>5, <2>3, <3>1, <3>3, <3>4, <4>1 DEF Becomes
    <3>5. CASE VsSpaceable(w) # "" /\ w.val = Nothing
      BY <1>7, <2>3, <3>1, <3>3, <3>5 DEF Becomes
    <3>6. CASE VsSpaceable(w) # "" /\ w.val # Nothing
      <4>1. VsSpaceable(w) \in Scopes /\ VsSpaceable(w) # "Source"
        BY <3>2, <3>6 DEF Scopes
      <4>2. SaysOrNot(<<Param(VsSpaceable(w), w.key, w.val)>>, w)
        BY <1>10, <2>3, <4>1
      <4>3. r = Found(s, <<Param(VsSpaceable(w), w.key, w.val)>>) /\ ~TakesNext(compiler, w)
        BY <3>1, <3>3, <3>6
      <4> QED BY <1>5, <2>3, <4>2, <4>3 DEF Becomes
    <3> QED BY <3>4, <3>5, <3>6
  <2>4. CASE s.option = Nothing /\ ~Dashed(w)
    <3>1. r = Found(s, <<Input("Source", "", w.val)>>)
      BY <2>1, <2>4 DEF VsWord
    <3>2. ~TakesNext(compiler, w)
      BY <2>4 DEF TakesNext
    <3> QED BY <1>5, <1>8, <2>4, <3>1, <3>2 DEF Becomes
  <2> QED BY <2>2, <2>3, <2>4
<1>12. CASE compiler = "clang"
  <2>1. r = ClangWord(s, w)
    BY <1>12 DEF ReadWord
  <2>2. CASE s.option # Nothing
    <3>1. PICK o \in Word : s.option = <<o>> /\ TakesNext("clang", o)
      BY <1>2, <1>12, <2>2
    <3>2. s.option[1] = o
      BY <3>1
    <3>3. r = IF o.dash = "--" THEN Found(s, ClangLong(o, Text(w)))
              ELSE Found(s, IF Dashed(w) THEN <<>> ELSE ClangValue(o, w.val))
      BY <2>1, <2>2, <3>2 DEF ClangWord, ClangNext
    <3>4. CASE o.dash = "--"
      <4>1. SaysBoth(ClangLong(o, Text(w)), o, w)
        BY <3>1, <3>4, ValuesSay
      <4> QED BY <1>6, <3>1, <3>3, <3>4, <4>1 DEF Becomes
    <3>5. CASE o.dash # "--" /\ Dashed(w)
      BY <1>4, <3>3, <3>5 DEF Becomes
    <3>6. CASE o.dash # "--" /\ ~Dashed(w)
      <4>1. SaysBoth(ClangValue(o, w.val), o, w)
        BY <3>1, <3>6, ValuesSay
      <4> QED BY <1>6, <3>1, <3>3, <3>6, <4>1 DEF Becomes
    <3> QED BY <3>4, <3>5, <3>6
  <2>3. CASE s.option = Nothing /\ w.dash = "--"
    <3>1. r = IF w.val = Nothing THEN Waiting(s, w) ELSE Found(s, ClangLong(w, w.val))
      BY <2>1, <2>3 DEF ClangWord
    <3>2. Dashed(w)
      BY <2>3 DEF Dashed
    <3>3. TakesNext(compiler, w) <=> w.val = Nothing
      BY <1>12, <2>3, <3>2 DEF TakesNext
    <3>4. CASE w.val = Nothing
      BY <1>7, <2>3, <3>1, <3>3, <3>4 DEF Becomes
    <3>5. CASE w.val # Nothing
      <4>1. SaysOrNot(ClangLong(w, w.val), w)
        <5>1. CASE w.key = "sysroot"
          <6>1. ClangLong(w, w.val) = <<Flag("Shared", w)>>
            BY <1>9, <5>1 DEF ClangLong, Flag
          <6>2. "Shared" \in Scopes
            BY DEF Scopes
          <6> QED BY <1>10, <3>2, <6>1, <6>2
        <5>2. CASE w.key # "sysroot"
          BY <5>2 DEF ClangLong, SaysOrNot
        <5> QED BY <5>1, <5>2
      <4> QED BY <1>5, <2>3, <3>1, <3>3, <3>5, <4>1 DEF Becomes
    <3> QED BY <3>4, <3>5
  <2>4. CASE s.option = Nothing /\ w.dash = "-"
    <3>1. r = IF ClangSpaceable(w) = "" THEN Found(s, ClangFlag(w))
              ELSE IF w.val = Nothing THEN Waiting(s, w)
              ELSE Found(s, <<Param(ClangSpaceable(w), w.key, w.val)>>)
      BY <2>1, <2>4 DEF ClangWord
    <3>2. Dashed(w)
      BY <2>4 DEF Dashed
    <3>3. ClangSpaceable(w) \in {"", "Preprocessor", "Shared", "Ignore"}
      BY DEF ClangSpaceable
    <3>4. w.val = Nothing =>
            (ClangSpaceable(w) # "" <=> w.key \in {"include", "include-pch", "target", "D", "o", "x", "I"})
      BY DEF ClangSpaceable
    <3>5. TakesNext(compiler, w) <=> ClangSpaceable(w) # "" /\ w.val = Nothing
      BY <1>12, <2>4, <3>2, <3>4 DEF TakesNext
    <3>6. CASE ClangSpaceable(w) = ""
      <4>1. SaysOrNot(ClangFlag(w), w)
        BY <3>2, FlagsSay
      <4> QED BY <1>5, <2>4, <3>1, <3>5, <3>6, <4>1 DEF Becomes
    <3>7. CASE ClangSpaceable(w) # "" /\ w.val = Nothing
      BY <1>7, <2>4, <3>1, <3>5, <3>7 DEF Becomes
    <3>8. CASE ClangSpaceable(w) # "" /\ w.val # Nothing
      <4>1. ClangSpaceable(w) \in Scopes /\ ClangSpaceable(w) # "Source"
        BY <3>3, <3>8 DEF Scopes
      <4>2. SaysOrNot(<<Param(ClangSpaceable(w), w.key, w.val)>>, w)
        BY <1>10, <3>2, <4>1
      <4>3. r = Found(s, <<Param(ClangSpaceable(w), w.key, w.val)>>) /\ ~TakesNext(compiler, w)
        BY <3>1, <3>5, <3>8
      <4> QED BY <1>5, <2>4, <4>2, <4>3 DEF Becomes
    <3> QED BY <3>6, <3>7, <3>8
  <2>5. CASE s.option = Nothing /\ ~Dashed(w)
    <3>1. r = Found(s, <<Input("Source", "", w.val)>>)
      BY <2>1, <2>5 DEF ClangWord, Dashed
    <3>2. ~TakesNext(compiler, w)
      BY <2>5 DEF TakesNext
    <3> QED BY <1>5, <1>8, <2>5, <3>1, <3>2 DEF Becomes
  <2> QED BY <1>9, <2>2, <2>3, <2>4, <2>5 DEF Dashed
<1> QED BY <1>11, <1>12 DEF Compilers
-------------------------------------------------------------------------------
(* The values of the arguments that are meant                               *)

Collected(x, a, type, scope, key) == IF Meant(a, type, scope, key) THEN Append(x, a.val) ELSE x

Collects(f, args, type, scope, key) ==
  f[0] = <<>> /\ \A k \in 1..Len(args) : f[k] = Collected(f[k - 1], args[k], type, scope, key)

\* The recursion of Values has a solution, its values being sequences.
LEMMA ValuesCollect ==
  ASSUME NEW args, NEW type, NEW scope, NEW key, args \in Seq(Arg)
  PROVE  \E f \in [0..Len(args) -> Seq(Seq(STRING))] :
           Collects(f, args, type, scope, key) /\ Values(args, type, scope, key) = f[Len(args)]
<1>1. PICK n \in Nat : n = Len(args) /\ \A k \in 1..n : args[k] \in Arg
  BY SeqHas
<1>2. PICK V : V = Seq(STRING)
  OBVIOUS
<1>3. PICK D, b : D = Seq(V) /\ b = <<>>
  OBVIOUS
<1>4. ASSUME NEW a, NEW x, a \in Arg, x \in D PROVE Collected(x, a, type, scope, key) \in D
  <2>1. a.val \in V
    BY <1>2, <1>4 DEF Arg
  <2>2. Append(x, a.val) \in D
    BY <1>3, <1>4, <2>1
  <2> QED BY <1>4, <2>2 DEF Collected
<1>5. PICK G : G = [k \in 1..n |-> [x \in D |-> Collected(x, args[k], type, scope, key)]]
  OBVIOUS
<1>6. G \in [1..n -> [D -> D]]
  BY <1>1, <1>4, <1>5
<1>7. PICK f \in [0..n -> D] : Repeats(f, b, n, G)
  <2>1. b \in D
    BY <1>3
  <2> QED BY <1>6, <2>1, Repeated
<1>8. f[0] = <<>> /\ \A k \in 1..n : f[k] = Collected(f[k - 1], args[k], type, scope, key)
  <2>1. ASSUME NEW k \in 1..n PROVE f[k] = Collected(f[k - 1], args[k], type, scope, key)
    <3>1. f[k - 1] \in D
      OBVIOUS
    <3>2. f[k] = G[k][f[k - 1]]
      BY <1>7 DEF Repeats
    <3> QED BY <1>5, <3>1, <3>2
  <2> QED BY <1>3, <1>7, <2>1 DEF Repeats
<1> DEFINE Q(g) == g = [k \in 0..n |-> IF k = 0 THEN <<>>
                                       ELSE IF Meant(args[k], type, scope, key) THEN Append(g[k - 1], args[k].val)
                                       ELSE g[k - 1]]
<1>9. Q(f)
  <2>1. ASSUME NEW k \in 0..n
        PROVE  f[k] = IF k = 0 THEN <<>>
                      ELSE IF Meant(args[k], type, scope, key) THEN Append(f[k - 1], args[k].val)
                      ELSE f[k - 1]
    <3>1. CASE k = 0
      BY <1>8, <3>1
    <3>2. CASE k # 0
      <4>1. f[k] = Collected(f[k - 1], args[k], type, scope, key)
        BY <1>8, <3>2
      <4> QED BY <3>2, <4>1 DEF Collected
    <3> QED BY <3>1, <3>2
  <2> QED BY <2>1
<1>10. PICK F : F = CHOOSE g : Q(g)
  OBVIOUS
<1>11. Q(F)
  BY <1>9, <1>10
<1>12. Values(args, type, scope, key) = F[n]
  BY <1>1, <1>10 DEF Values
<1>13. PICK T : T = {k \in 0..n : F[k] = f[k]}
  OBVIOUS
<1>14. F[0] = <<>> /\ \A k \in 1..n : F[k] = Collected(F[k - 1], args[k], type, scope, key)
  <2>1. F[0] = <<>>
    BY <1>11
  <2>2. ASSUME NEW k \in 1..n PROVE F[k] = Collected(F[k - 1], args[k], type, scope, key)
    <3>1. k \in 0..n /\ k # 0
      OBVIOUS
    <3>2. F[k] = IF Meant(args[k], type, scope, key) THEN Append(F[k - 1], args[k].val) ELSE F[k - 1]
      BY <1>11, <3>1
    <3> QED BY <3>2 DEF Collected
  <2> QED BY <2>1, <2>2
<1>15. n \in T
  <2>1. 0 \in T
    BY <1>8, <1>13, <1>14
  <2>2. ASSUME NEW k \in 0..n, k \in T, k < n PROVE k + 1 \in T
    <3>1. k + 1 \in 1..n /\ (k + 1) - 1 = k /\ k + 1 \in 0..n
      BY <2>2
    <3>2. F[k + 1] = Collected(F[k], args[k + 1], type, scope, key) /\ f[k + 1] = Collected(f[k], args[k + 1], type, scope, key)
      BY <1>8, <1>14, <3>1
    <3>3. F[k] = f[k]
      BY <1>13, <2>2
    <3> QED BY <1>13, <3>1, <3>2, <3>3
  <2> QED BY <2>1, <2>2, Upwards
<1> QED BY <1>1, <1>2, <1>3, <1>8, <1>12, <1>13, <1>15 DEF Collects

\* One argument more.
LEMMA ValuesAppend ==
  ASSUME NEW args, NEW a, NEW type, NEW scope, NEW key, args \in Seq(Arg), a \in Arg
  PROVE  /\ Values(Append(args, a), type, scope, key) = Collected(Values(args, type, scope, key), a, type, scope, key)
         /\ Values(args, type, scope, key) \in Seq(Seq(STRING))
<1>1. PICK f \in [0..Len(args) -> Seq(Seq(STRING))] :
        Collects(f, args, type, scope, key) /\ Values(args, type, scope, key) = f[Len(args)]
  BY ValuesCollect
<1>2. PICK more : more = Append(args, a)
  OBVIOUS
<1>3. PICK n \in Nat : n = Len(args)
  OBVIOUS
<1>4. /\ more \in Seq(Arg) /\ Len(more) = n + 1 /\ more[n + 1] = a
      /\ \A k \in 1..n : more[k] = args[k]
  BY <1>2, <1>3
<1>5. PICK g \in [0..Len(more) -> Seq(Seq(STRING))] :
        Collects(g, more, type, scope, key) /\ Values(more, type, scope, key) = g[Len(more)]
  BY <1>4, ValuesCollect
<1>6. PICK T : T = {k \in 0..n : f[k] = g[k]}
  OBVIOUS
<1>7. 0 \in T
  BY <1>1, <1>5, <1>6 DEF Collects
<1>8. ASSUME NEW k \in 0..n, k \in T, k < n PROVE k + 1 \in T
  <2>1. k + 1 \in 1..n /\ k + 1 \in 1..Len(args) /\ k + 1 \in 1..Len(more) /\ (k + 1) - 1 = k /\ k + 1 \in 0..n
    BY <1>3, <1>4, <1>8
  <2>2. f[k + 1] = Collected(f[k], args[k + 1], type, scope, key)
    BY <1>1, <2>1 DEF Collects
  <2>3. g[k + 1] = Collected(g[k], more[k + 1], type, scope, key)
    BY <1>5, <2>1 DEF Collects
  <2>4. f[k] = g[k] /\ more[k + 1] = args[k + 1]
    BY <1>4, <1>6, <1>8, <2>1
  <2> QED BY <1>6, <2>1, <2>2, <2>3, <2>4
<1>9. n \in T
  BY <1>7, <1>8, Upwards
<1>10. g[n + 1] = Collected(g[n], a, type, scope, key)
  <2>1. n + 1 \in 1..Len(more) /\ (n + 1) - 1 = n
    BY <1>4
  <2> QED BY <1>4, <1>5, <2>1 DEF Collects
<1>11. f[n] \in Seq(Seq(STRING)) /\ f[n] = g[n]
  BY <1>3, <1>6, <1>9
<1> QED BY <1>1, <1>2, <1>3, <1>4, <1>5, <1>10, <1>11

\* Every value is an argument's that is meant.
AllFrom(values, args, type, scope, key) ==
  /\ values \in Seq(Seq(STRING))
  /\ \A m \in DOMAIN values : \E k \in DOMAIN args :
       Meant(args[k], type, scope, key) /\ args[k].val = values[m]

LEMMA ValuesFrom ==
  ASSUME NEW args, NEW type, NEW scope, NEW key, args \in Seq(Arg)
  PROVE  AllFrom(Values(args, type, scope, key), args, type, scope, key)
<1>1. PICK f \in [0..Len(args) -> Seq(Seq(STRING))] :
        Collects(f, args, type, scope, key) /\ Values(args, type, scope, key) = f[Len(args)]
  BY ValuesCollect
<1>2. PICK n \in Nat : n = Len(args) /\ DOMAIN args = 1..n /\ \A k \in 1..n : args[k] \in Arg
  BY SeqHas
<1> DEFINE From(x) == \A m \in DOMAIN x : \E k \in 1..n : Meant(args[k], type, scope, key) /\ args[k].val = x[m]
<1>3. PICK T : T = {k \in 0..n : From(f[k])}
  OBVIOUS
<1>4. 0 \in T
  BY <1>1, <1>3 DEF Collects
<1>5. ASSUME NEW k \in 0..n, k \in T, k < n PROVE k + 1 \in T
  <2>1. k + 1 \in 1..n /\ k + 1 \in 1..Len(args) /\ (k + 1) - 1 = k /\ k + 1 \in 0..n
    BY <1>2, <1>5
  <2>2. f[k + 1] = Collected(f[k], args[k + 1], type, scope, key)
    BY <1>1, <2>1 DEF Collects
  <2>3. From(f[k])
    BY <1>3, <1>5
  <2>4. CASE ~Meant(args[k + 1], type, scope, key)
    <3>1. f[k + 1] = f[k]
      BY <2>2, <2>4 DEF Collected
    <3> HIDE DEF From
    <3> QED BY <1>3, <2>1, <2>3, <3>1
  <2>5. CASE Meant(args[k + 1], type, scope, key)
    <3>1. PICK V, x, e : V = Seq(STRING) /\ x = f[k] /\ e = args[k + 1].val
      OBVIOUS
    <3>2. x \in Seq(V) /\ e \in V
      <4>1. args[k + 1] \in Arg
        BY <1>2, <2>1
      <4> QED BY <1>2, <3>1, <4>1 DEF Arg
    <3>3. f[k + 1] = Append(x, e)
      BY <2>2, <2>5, <3>1 DEF Collected
    <3>4. ASSUME NEW m \in DOMAIN Append(x, e)
          PROVE  \E j \in 1..n : Meant(args[j], type, scope, key) /\ args[j].val = Append(x, e)[m]
      <4>1. CASE m = Len(x) + 1
        <5>1. Append(x, e)[m] = e
          BY <3>2, <4>1
        <5> QED BY <2>1, <2>5, <3>1, <5>1
      <4>2. CASE m # Len(x) + 1
        <5>1. m \in DOMAIN x /\ Append(x, e)[m] = x[m]
          BY <3>2, <4>2
        <5> QED BY <2>3, <3>1, <5>1
      <4> QED BY <4>1, <4>2
    <3> QED BY <1>3, <2>1, <3>3, <3>4
  <2> QED BY <2>4, <2>5
<1>6. n \in T
  BY <1>4, <1>5, Upwards
<1>7. f[n] \in Seq(Seq(STRING))
  OBVIOUS
<1> QED BY <1>1, <1>2, <1>3, <1>6, <1>7 DEF AllFrom

\* Without arguments there are none.
LEMMA ValuesOfNone ==
  ASSUME NEW type, NEW scope, NEW key
  PROVE  Values(<<>>, type, scope, key) = <<>>
<1>1. PICK none : none = <<>>
  OBVIOUS
<1>2. none \in Seq(Arg) /\ Len(none) = 0
  BY <1>1
<1>3. PICK f \in [0..Len(none) -> Seq(Seq(STRING))] :
        Collects(f, none, type, scope, key) /\ Values(none, type, scope, key) = f[Len(none)]
  BY <1>2, ValuesCollect
<1> QED BY <1>1, <1>2, <1>3 DEF Collects
-------------------------------------------------------------------------------
(* What is read says what the words say                                    *)

\* The reading of a command line, word by word.
ReadsAll(f, compiler, words) ==
  /\ f[0] = Scanned(<<>>, FALSE, Nothing)
  /\ \A k \in 1..Len(words) : f[k] = ReadWord(compiler, f[k - 1], words[k])

\* The recursion of ReadWords has a solution, and it is a reading.
LEMMA WordsRead ==
  ASSUME NEW compiler, NEW words, compiler \in Compilers, words \in Seq(Word)
  PROVE  \E f \in [0..Len(words) -> Readings(compiler)] :
           ReadsAll(f, compiler, words) /\ ReadWords(compiler, words) = f[Len(words)]
<1>1. PICK n \in Nat : n = Len(words) /\ \A k \in 1..n : words[k] \in Word
  BY SeqHas
<1>2. PICK D, b : D = Readings(compiler) /\ b = Scanned(<<>>, FALSE, Nothing)
  OBVIOUS
<1>3. b \in D
  <2>1. PICK A, W, args, option : A = Arg /\ W = Word /\ args = <<>> /\ option = <<>>
    OBVIOUS
  <2>2. args \in Seq(A) /\ option \in Seq(W)
    BY <2>1
  <2>3. b = [args |-> args, bad |-> FALSE, option |-> option]
    BY <1>2, <2>1 DEF Scanned, Nothing
  <2>4. b \in [args : Seq(Arg), bad : BOOLEAN, option : Seq(Word)] /\ b.option = Nothing
    BY <2>1, <2>2, <2>3 DEF Nothing
  <2> QED BY <1>2, <2>4 DEF Readings
<1>4. ASSUME NEW x, NEW w, x \in D, w \in Word PROVE ReadWord(compiler, x, w) \in D
  <2>1. PICK r : r = ReadWord(compiler, x, w)
    OBVIOUS
  <2>2. r \in Readings(compiler)
    BY <1>2, <1>4, <2>1, ReadStep
  <2> QED BY <1>2, <2>1, <2>2
<1>5. PICK G : G = [k \in 1..n |-> [x \in D |-> ReadWord(compiler, x, words[k])]]
  OBVIOUS
<1>6. G \in [1..n -> [D -> D]]
  BY <1>1, <1>4, <1>5
<1>7. PICK f \in [0..n -> D] : Repeats(f, b, n, G)
  BY <1>3, <1>6, Repeated
<1>8. f[0] = b /\ \A k \in 1..n : f[k] = ReadWord(compiler, f[k - 1], words[k])
  <2>1. ASSUME NEW k \in 1..n PROVE f[k] = ReadWord(compiler, f[k - 1], words[k])
    <3>1. f[k - 1] \in D
      OBVIOUS
    <3>2. f[k] = G[k][f[k - 1]]
      BY <1>7 DEF Repeats
    <3> QED BY <1>5, <3>1, <3>2
  <2> QED BY <1>7, <2>1 DEF Repeats
<1> DEFINE Q(g) == g = [k \in 0..n |-> IF k = 0 THEN Scanned(<<>>, FALSE, Nothing)
                                       ELSE ReadWord(compiler, g[k - 1], words[k])]
<1>9. Q(f)
  <2>1. ASSUME NEW k \in 0..n PROVE f[k] = IF k = 0 THEN b ELSE ReadWord(compiler, f[k - 1], words[k])
    BY <1>8
  <2> QED BY <1>2, <2>1
<1>10. PICK F : F = CHOOSE g : Q(g)
  OBVIOUS
<1>11. Q(F)
  BY <1>9, <1>10
<1>12. ReadWords(compiler, words) = F[n]
  BY <1>1, <1>10 DEF ReadWords
<1>13. F[0] = b /\ \A k \in 1..n : F[k] = ReadWord(compiler, F[k - 1], words[k])
  <2>1. F[0] = b
    BY <1>2, <1>11
  <2>2. ASSUME NEW k \in 1..n PROVE F[k] = ReadWord(compiler, F[k - 1], words[k])
    <3>1. k \in 0..n /\ k # 0
      OBVIOUS
    <3> QED BY <1>11, <3>1
  <2> QED BY <2>1, <2>2
<1>14. PICK T : T = {k \in 0..n : F[k] = f[k]}
  OBVIOUS
<1>15. n \in T
  <2>1. 0 \in T
    BY <1>8, <1>13, <1>14
  <2>2. ASSUME NEW k \in 0..n, k \in T, k < n PROVE k + 1 \in T
    <3>1. k + 1 \in 1..n /\ (k + 1) - 1 = k /\ k + 1 \in 0..n
      BY <2>2
    <3>2. F[k + 1] = ReadWord(compiler, F[k], words[k + 1]) /\ f[k + 1] = ReadWord(compiler, f[k], words[k + 1])
      BY <1>8, <1>13, <3>1
    <3>3. F[k] = f[k]
      BY <1>14, <2>2
    <3> QED BY <1>14, <3>1, <3>2, <3>3
  <2> QED BY <2>1, <2>2, Upwards
<1> QED BY <1>1, <1>2, <1>8, <1>12, <1>14, <1>15 DEF ReadsAll

\* The words that are values, as far as word k.
NextValues(compiler, words, k, x) ==
  IF k > 1 /\ k - 1 \notin x /\ TakesNext(compiler, words[k - 1]) THEN x \cup {k} ELSE x

MarksAll(v, compiler, words) ==
  v[0] = {} /\ \A k \in 1..Len(words) : v[k] = NextValues(compiler, words, k, v[k - 1])

\* The recursion of NoValues has a solution.
LEMMA ValuesMarked ==
  ASSUME NEW compiler, NEW words, words \in Seq(Word)
  PROVE  \E v \in [0..Len(words) -> SUBSET (1..Len(words))] :
           MarksAll(v, compiler, words) /\ NoValues(compiler, words) = (1..Len(words)) \ v[Len(words)]
<1>1. PICK n \in Nat : n = Len(words) /\ DOMAIN words = 1..n
  BY SeqHas
<1>2. PICK D, b : D = SUBSET (1..n) /\ b = {}
  OBVIOUS
<1>3. b \in D
  BY <1>2
<1>4. ASSUME NEW x \in D, NEW k \in 1..n PROVE NextValues(compiler, words, k, x) \in D
  BY <1>2 DEF NextValues
<1>5. PICK G : G = [k \in 1..n |-> [x \in D |-> NextValues(compiler, words, k, x)]]
  OBVIOUS
<1>6. G \in [1..n -> [D -> D]]
  BY <1>4, <1>5
<1>7. PICK f \in [0..n -> D] : Repeats(f, b, n, G)
  BY <1>3, <1>6, Repeated
<1>8. f[0] = b /\ \A k \in 1..n : f[k] = NextValues(compiler, words, k, f[k - 1])
  <2>1. ASSUME NEW k \in 1..n PROVE f[k] = NextValues(compiler, words, k, f[k - 1])
    <3>1. f[k - 1] \in D
      OBVIOUS
    <3>2. f[k] = G[k][f[k - 1]]
      BY <1>7 DEF Repeats
    <3> QED BY <1>5, <3>1, <3>2
  <2> QED BY <1>7, <2>1 DEF Repeats
<1> DEFINE Q(g) == g = [k \in 0..n |->
                          IF k = 0 THEN {}
                          ELSE IF k > 1 /\ k - 1 \notin g[k - 1] /\ TakesNext(compiler, words[k - 1])
                            THEN g[k - 1] \cup {k}
                          ELSE g[k - 1]]
<1>9. Q(f)
  <2>1. ASSUME NEW k \in 0..n
        PROVE  f[k] = IF k = 0 THEN {}
                      ELSE IF k > 1 /\ k - 1 \notin f[k - 1] /\ TakesNext(compiler, words[k - 1])
                        THEN f[k - 1] \cup {k}
                      ELSE f[k - 1]
    <3>1. CASE k = 0
      BY <1>2, <1>8, <3>1
    <3>2. CASE k # 0
      <4>1. f[k] = NextValues(compiler, words, k, f[k - 1])
        BY <1>8, <3>2
      <4> QED BY <3>2, <4>1 DEF NextValues
    <3> QED BY <3>1, <3>2
  <2> QED BY <2>1
<1>10. PICK F : F = CHOOSE g : Q(g)
  OBVIOUS
<1>11. Q(F)
  BY <1>9, <1>10
<1>12. NoValues(compiler, words) = (1..n) \ F[n]
  BY <1>1, <1>10 DEF NoValues
<1>13. F[0] = b /\ \A k \in 1..n : F[k] = NextValues(compiler, words, k, F[k - 1])
  <2>1. F[0] = b
    BY <1>2, <1>11
  <2>2. ASSUME NEW k \in 1..n PROVE F[k] = NextValues(compiler, words, k, F[k - 1])
    <3>1. k \in 0..n /\ k # 0
      OBVIOUS
    <3>2. F[k] = IF k > 1 /\ k - 1 \notin F[k - 1] /\ TakesNext(compiler, words[k - 1])
                   THEN F[k - 1] \cup {k} ELSE F[k - 1]
      BY <1>11, <3>1
    <3> QED BY <3>2 DEF NextValues
  <2> QED BY <2>1, <2>2
<1>14. PICK T : T = {k \in 0..n : F[k] = f[k]}
  OBVIOUS
<1>15. n \in T
  <2>1. 0 \in T
    BY <1>8, <1>13, <1>14
  <2>2. ASSUME NEW k \in 0..n, k \in T, k < n PROVE k + 1 \in T
    <3>1. k + 1 \in 1..n /\ (k + 1) - 1 = k /\ k + 1 \in 0..n
      BY <2>2
    <3>2. /\ F[k + 1] = NextValues(compiler, words, k + 1, F[k])
          /\ f[k + 1] = NextValues(compiler, words, k + 1, f[k])
      BY <1>8, <1>13, <3>1
    <3>3. F[k] = f[k]
      BY <1>14, <2>2
    <3> QED BY <1>14, <3>1, <3>2, <3>3
  <2> QED BY <2>1, <2>2, Upwards
<1> QED BY <1>1, <1>2, <1>8, <1>12, <1>14, <1>15 DEF MarksAll

\* One word, or argument, more says its text more.
LEMMA SaidAppend ==
  ASSUME NEW L, NEW list, NEW x, list \in Seq(L), x \in L, \A y \in L : Text(y) \in Seq(STRING)
  PROVE  /\ Said(list) \in Seq(STRING) /\ Said(Append(list, x)) = Said(list) \o Text(x)
         /\ Said(<<>>) = <<>>
<1>1. PICK S : S = STRING
  OBVIOUS
<1>2. PICK n \in Nat : n = Len(list) /\ DOMAIN list = 1..n /\ \A k \in 1..n : list[k] \in L
  BY SeqHas
<1>3. PICK texts, e : texts = [j \in DOMAIN list |-> Text(list[j])] /\ e = Text(x)
  OBVIOUS
<1>4. texts \in Seq(Seq(S)) /\ e \in Seq(S)
  BY <1>1, <1>2, <1>3
<1>5. [j \in DOMAIN Append(list, x) |-> Text(Append(list, x)[j])] = Append(texts, e)
  BY <1>2, <1>3, <1>4
<1>6. /\ FlattenSeq(texts) \in Seq(S) /\ FlattenSeq(Append(texts, e)) = FlattenSeq(texts) \o e
      /\ FlattenSeq(<<>>) = <<>>
  BY <1>4, FlattenAppend
<1>7. [j \in DOMAIN <<>> |-> Text(<<>>[j])] = <<>>
  OBVIOUS
<1> QED BY <1>1, <1>3, <1>5, <1>6, <1>7 DEF Said
\* The first words of a command line.
First(words, k) == [j \in 1..k |-> words[j]]

Sources(words, k, v) == {j \in (1..k) \ v : ~Dashed(words[j])}

\* A value for each of the places J, and the one that is there.
ValuesOf(values, words, J) ==
  /\ values \in Seq(Seq(STRING)) /\ IsFiniteSet(J) /\ Cardinality(J) = Len(values)
  /\ \A j \in J : \E m \in DOMAIN values : values[m] = words[j].val

\* Word k waits for its value.
Pends(compiler, words, k, v) == k > 0 /\ k \notin v /\ TakesNext(compiler, words[k])

\* What has been read when k words are, if all were known: v are the places of
\* the values among them.
Read(compiler, words, k, s, v) ==
  /\ v \subseteq 1..k
  /\ ~s.bad =>
       /\ IF Pends(compiler, words, k, v)
            THEN s.option = <<words[k]>> /\ Said(s.args) \o Text(words[k]) = Said(First(words, k))
            ELSE s.option = Nothing /\ Said(s.args) = Said(First(words, k))
       /\ ValuesOf(Values(s.args, "input", "Source", ""), words, Sources(words, k, v))

\* A source more.
LEMMA OneMoreValue ==
  ASSUME NEW values, NEW words, NEW J, NEW n, NEW e, ValuesOf(values, words, J), n \notin J,
         e \in Seq(STRING), e = words[n].val
  PROVE  ValuesOf(Append(values, e), words, J \cup {n})
<1>1. PICK V : V = Seq(STRING)
  OBVIOUS
<1>2. PICK m \in Nat : m = Len(values) /\ DOMAIN values = 1..m
  BY SeqHas DEF ValuesOf
<1>3. PICK more : more = Append(values, e)
  OBVIOUS
<1>4. /\ more \in Seq(V) /\ Len(more) = m + 1 /\ more[m + 1] = e /\ DOMAIN more = 1..(m + 1)
      /\ \A j \in 1..m : more[j] = values[j]
  BY <1>1, <1>2, <1>3 DEF ValuesOf
<1>5. IsFiniteSet(J \cup {n}) /\ Cardinality(J \cup {n}) = m + 1
  BY <1>2, FS_AddElement DEF ValuesOf
<1>6. ASSUME NEW j \in J \cup {n} PROVE \E k \in DOMAIN more : more[k] = words[j].val
  <2>1. CASE j = n
    BY <1>4, <2>1
  <2>2. CASE j # n
    <3>1. PICK k \in 1..m : values[k] = words[j].val
      BY <1>2, <2>2 DEF ValuesOf
    <3> QED BY <1>4, <3>1
  <2> QED BY <2>1, <2>2
<1> QED BY <1>1, <1>3, <1>4, <1>5, <1>6 DEF ValuesOf

\* Its sources, with an argument more.
LEMMA SourcesAppend ==
  ASSUME NEW args, NEW a, args \in Seq(Arg), a \in Arg
  PROVE  Values(Append(args, a), "input", "Source", "")
           = IF IsSource(a) THEN Append(Values(args, "input", "Source", ""), a.val)
             ELSE Values(args, "input", "Source", "")
<1>1. PICK type, scope, key : type = "input" /\ scope = "Source" /\ key = ""
  OBVIOUS
<1>2. Values(Append(args, a), type, scope, key) = Collected(Values(args, type, scope, key), a, type, scope, key)
  BY ValuesAppend
<1> QED BY <1>1, <1>2 DEF Collected, IsSource

\* The invariant of the reading: the next word.
LEMMA ReadNext ==
  ASSUME NEW compiler, NEW words, NEW k, NEW s, NEW v, NEW r,
         compiler \in Compilers, words \in Seq(Word), k \in 0..Len(words), k < Len(words),
         s \in Readings(compiler), Read(compiler, words, k, s, v), r = ReadWord(compiler, s, words[k + 1])
  PROVE  Read(compiler, words, k + 1, r, NextValues(compiler, words, k + 1, v))
<1>1. PICK n \in Nat : n = Len(words) /\ DOMAIN words = 1..n /\ \A j \in 1..n : words[j] \in Word
  BY SeqHas
<1>2. k \in Nat /\ k + 1 \in 1..n /\ (k + 1) - 1 = k /\ (k + 1 > 1 <=> k > 0)
  BY <1>1
<1>3. PICK w \in Word : w = words[k + 1]
  BY <1>1, <1>2
<1>4. PICK u : u = NextValues(compiler, words, k + 1, v)
  OBVIOUS
<1> DEFINE pending == Pends(compiler, words, k, v)
<1>5. u = IF pending THEN v \cup {k + 1} ELSE v
  BY <1>2, <1>4 DEF NextValues, Pends
<1>6. v \subseteq 1..k /\ u \subseteq 1..(k + 1) /\ k + 1 \notin v
  <2>1. v \subseteq 1..k
    BY DEF Read
  <2>2. k + 1 \notin 1..k /\ 1..k \subseteq 1..(k + 1) /\ k + 1 \in 1..(k + 1)
    BY <1>2
  <2> QED BY <1>5, <2>1, <2>2
<1> SUFFICES ASSUME ~r.bad
             PROVE  /\ IF Pends(compiler, words, k + 1, u)
                         THEN r.option = <<w>> /\ Said(r.args) \o Text(w) = Said(First(words, k + 1))
                         ELSE r.option = Nothing /\ Said(r.args) = Said(First(words, k + 1))
                    /\ ValuesOf(Values(r.args, "input", "Source", ""), words, Sources(words, k + 1, u))
  BY <1>3, <1>4, <1>6 DEF Read
<1>17. Pends(compiler, words, k + 1, u) <=> k + 1 \notin u /\ TakesNext(compiler, w)
  BY <1>2, <1>3 DEF Pends
<1>7. Becomes(compiler, s, w, r) /\ ~Fails(s, r)
  <2>1. Becomes(compiler, s, w, r)
    BY <1>3, ReadStep
  <2> QED BY <2>1 DEF Fails
<1>8. ~s.bad
  BY <1>7 DEF Becomes, Waits, Takes, TakesBoth
<1>9. s.args \in Seq(Arg) /\ \A a \in Arg : Text(a) \in Seq(STRING)
  <2>1. ASSUME NEW a \in Arg PROVE Text(a) \in Seq(STRING)
    <3>1. PICK S, key, val : S = STRING /\ key = a.key /\ val = a.val
      OBVIOUS
    <3>2. key \in S /\ val \in Seq(S)
      BY <3>1 DEF Arg
    <3>3. PICK start : start = IF key = "" THEN <<>> ELSE <<key>>
      OBVIOUS
    <3>4. start \in Seq(S)
      BY <3>2, <3>3, OneIsSeq
    <3>5. start \o val \in Seq(S)
      BY <3>2, <3>4
    <3> QED BY <3>1, <3>3, <3>5 DEF Text
  <2> QED BY <2>1 DEF Readings
<1>10. Said(First(words, k + 1)) = Said(First(words, k)) \o Text(w)
  <2>1. First(words, k) \in Seq(Word)
    BY <1>1, <1>2 DEF First
  <2>2. First(words, k + 1) = Append(First(words, k), w)
    <3>1. PICK a, b : a = First(words, k) /\ b = First(words, k + 1)
      OBVIOUS
    <3>2. Len(a) = k /\ \A j \in 1..k : a[j] = words[j]
      BY <1>2, <3>1 DEF First
    <3>3. b \in Seq(Word) /\ Len(b) = k + 1 /\ \A j \in 1..(k + 1) : b[j] = words[j]
      BY <1>1, <1>2, <3>1 DEF First
    <3>4. Append(a, w) \in Seq(Word) /\ Len(Append(a, w)) = k + 1
      BY <2>1, <3>1, <3>2
    <3>5. \A j \in 1..(k + 1) : Append(a, w)[j] = b[j]
      BY <1>3, <2>1, <3>1, <3>2, <3>3
    <3> QED BY <3>1, <3>3, <3>4, <3>5
  <2>3. \A y \in Word : Text(y) \in Seq(STRING)
    BY WordHas
  <2> QED BY <2>1, <2>2, <2>3, SaidAppend
<1>11. /\ IF pending THEN s.option = <<words[k]>> /\ Said(s.args) \o Text(words[k]) = Said(First(words, k))
          ELSE s.option = Nothing /\ Said(s.args) = Said(First(words, k))
       /\ ValuesOf(Values(s.args, "input", "Source", ""), words, Sources(words, k, v))
  BY <1>8 DEF Read
<1>12. s.option # Nothing <=> pending
  <2>1. <<words[k]>> # <<>>
    OBVIOUS
  <2> HIDE DEF pending
  <2> QED BY <1>11, <2>1 DEF Nothing
<1>13. ASSUME Dashed(w) \/ pending PROVE Sources(words, k + 1, u) = Sources(words, k, v)
  <2>1. ASSUME NEW j \in Sources(words, k + 1, u) PROVE j \in Sources(words, k, v)
    <3>1. j \in 1..(k + 1) /\ j \notin u /\ ~Dashed(words[j])
      BY <2>1 DEF Sources
    <3>2. j # k + 1 /\ j \notin v
      BY <1>3, <1>5, <1>13, <3>1
    <3>3. j \in 1..k
      BY <1>2, <3>1, <3>2
    <3> QED BY <3>1, <3>2, <3>3 DEF Sources
  <2>2. ASSUME NEW j \in Sources(words, k, v) PROVE j \in Sources(words, k + 1, u)
    <3>1. j \in 1..k /\ j \notin v /\ ~Dashed(words[j])
      BY <2>2 DEF Sources
    <3>2. j # k + 1 /\ j \in 1..(k + 1)
      BY <1>2, <3>1
    <3> QED BY <1>5, <3>1, <3>2 DEF Sources
  <2> QED BY <2>1, <2>2
<1>14. CASE Waits(compiler, s, w, r)
  <2>1. ~pending /\ TakesNext(compiler, w) /\ r.args = s.args /\ r.option = <<w>>
    BY <1>12, <1>14 DEF Waits
  <2>2. Dashed(w)
    BY <2>1 DEF TakesNext
  <2> HIDE DEF pending
  <2> QED BY <1>5, <1>6, <1>10, <1>11, <1>17, <1>13, <2>1, <2>2
<1>15. CASE Takes(compiler, s, w, r)
  <2>1. ~pending /\ ~TakesNext(compiler, w) /\ r.option = Nothing
    BY <1>12, <1>15 DEF Takes
  <2>2. PICK a \in Arg : r.args = Append(s.args, a) /\ Says(a, w)
    BY <1>15 DEF Takes
  <2>3. Said(r.args) = Said(s.args) \o Text(a)
    BY <1>9, <2>2, SaidAppend
  <2>4. Values(r.args, "input", "Source", "")
          = IF IsSource(a) THEN Append(Values(s.args, "input", "Source", ""), a.val)
            ELSE Values(s.args, "input", "Source", "")
    BY <1>9, <2>2, SourcesAppend
  <2>5. CASE Dashed(w)
    <3>1. Values(r.args, "input", "Source", "") = Values(s.args, "input", "Source", "")
      BY <2>2, <2>4, <2>5 DEF Says
    <3> HIDE DEF pending
    <3> QED BY <1>5, <1>10, <1>11, <1>17, <1>13, <2>1, <2>2, <2>3, <2>5, <3>1 DEF Says
  <2>6. CASE ~Dashed(w)
    <3>1. a.val = w.val /\ Values(r.args, "input", "Source", "")
                             = Append(Values(s.args, "input", "Source", ""), a.val)
      BY <2>2, <2>4, <2>6 DEF Says
    <3>2. Sources(words, k + 1, u) = Sources(words, k, v) \cup {k + 1} /\ k + 1 \notin Sources(words, k, v)
      <4>1. u = v
        BY <1>5, <2>1
      <4>2. 1..(k + 1) = (1..k) \cup {k + 1} /\ k + 1 \notin 1..k
        BY <1>2
      <4> QED BY <1>3, <1>6, <2>6, <4>1, <4>2 DEF Sources
    <3>3. ValuesOf(Append(Values(s.args, "input", "Source", ""), a.val), words, Sources(words, k, v) \cup {k + 1})
      <4>1. a.val \in Seq(STRING) /\ a.val = words[k + 1].val
        BY <1>3, <3>1, WordHas
      <4> QED BY <1>11, <3>2, <4>1, OneMoreValue
    <3> HIDE DEF pending
    <3> QED BY <1>5, <1>10, <1>11, <1>17, <2>1, <2>2, <2>3, <3>1, <3>2, <3>3 DEF Says
  <2> QED BY <2>5, <2>6
<1>16. CASE TakesBoth(s, w, r)
  <2>1. pending /\ r.option = Nothing /\ s.option = <<words[k]>>
    BY <1>11, <1>12, <1>16 DEF TakesBoth
  <2>2. s.option[1] = words[k]
    BY <2>1
  <2>3. PICK a \in Arg : r.args = Append(s.args, a) /\ Text(a) = Text(words[k]) \o Text(w) /\ ~IsSource(a)
    BY <1>16, <2>2 DEF TakesBoth
  <2>4. Said(r.args) = Said(s.args) \o Text(a)
    BY <1>9, <2>3, SaidAppend
  <2>5. Said(s.args) \o Text(a) = (Said(s.args) \o Text(words[k])) \o Text(w)
    <3>1. Said(s.args) \in Seq(STRING)
      BY <1>9, <2>3, SaidAppend
    <3>2. words[k] \in Word
      BY <1>1, <1>2, <2>1 DEF Pends
    <3>3. Text(words[k]) \in Seq(STRING) /\ Text(w) \in Seq(STRING)
      BY <3>2, WordHas
    <3>4. PICK S, x, y, z : S = STRING /\ x = Said(s.args) /\ y = Text(words[k]) /\ z = Text(w)
      OBVIOUS
    <3>5. x \in Seq(S) /\ y \in Seq(S) /\ z \in Seq(S)
      BY <3>1, <3>3, <3>4
    <3>6. x \o (y \o z) = (x \o y) \o z
      BY <3>5
    <3> QED BY <2>3, <3>4, <3>6
  <2>6. Values(r.args, "input", "Source", "") = Values(s.args, "input", "Source", "")
    <3>1. Values(r.args, "input", "Source", "")
            = IF IsSource(a) THEN Append(Values(s.args, "input", "Source", ""), a.val)
              ELSE Values(s.args, "input", "Source", "")
      BY <1>9, <2>3, SourcesAppend
    <3> QED BY <2>3, <3>1
  <2>7. k + 1 \in u
    BY <1>5, <2>1
  <2> HIDE DEF pending
  <2> QED BY <1>10, <1>11, <1>17, <1>13, <2>1, <2>4, <2>5, <2>6, <2>7
<1> QED BY <1>7, <1>14, <1>15, <1>16 DEF Becomes
\* The places of the sources.
SourcesOf(compiler, words) == {j \in NoValues(compiler, words) : ~Dashed(words[j])}

\* The arguments say what the words say, and have their sources.
Understood(compiler, words, args) ==
  /\ args \in Seq(Arg) /\ Said(args) = Said(words)
  /\ ValuesOf(Values(args, "input", "Source", ""), words, SourcesOf(compiler, words))

\* A command line all of whose words are known is read to its end.
LEMMA LineRead ==
  ASSUME NEW compiler, NEW words, NEW s, compiler \in Compilers, words \in Seq(Word),
         s = ReadWords(compiler, words), ~s.bad, s.option = Nothing
  PROVE  Understood(compiler, words, s.args)
<1>1. PICK n \in Nat : n = Len(words) /\ DOMAIN words = 1..n /\ \A j \in 1..n : words[j] \in Word
  BY SeqHas
<1>2. PICK f \in [0..n -> Readings(compiler)] : ReadsAll(f, compiler, words) /\ s = f[n]
  BY <1>1, WordsRead
<1>3. PICK v \in [0..n -> SUBSET (1..n)] : MarksAll(v, compiler, words) /\ NoValues(compiler, words) = (1..n) \ v[n]
  BY <1>1, ValuesMarked
<1>4. PICK T : T = {k \in 0..n : Read(compiler, words, k, f[k], v[k])}
  OBVIOUS
<1>5. 0 \in T
  <2>1. f[0] = Scanned(<<>>, FALSE, Nothing) /\ v[0] = {}
    BY <1>2, <1>3 DEF ReadsAll, MarksAll
  <2>2. f[0].args = <<>> /\ f[0].option = Nothing
    BY <2>1 DEF Scanned
  <2>3. First(words, 0) = <<>>
    BY DEF First
  <2>4. Sources(words, 0, {}) = {}
    BY DEF Sources
  <2>5. ValuesOf(<<>>, words, {})
    <3>1. PICK none, V : none = <<>> /\ V = Seq(STRING)
      OBVIOUS
    <3>2. none \in Seq(V) /\ Len(none) = 0
      BY <3>1
    <3> QED BY <3>1, <3>2, FS_EmptySet DEF ValuesOf
  <2>6. ~Pends(compiler, words, 0, v[0])
    BY DEF Pends
  <2>7. Values(f[0].args, "input", "Source", "") = <<>>
    <3>1. PICK type, scope, key : type = "input" /\ scope = "Source" /\ key = ""
      OBVIOUS
    <3>2. Values(<<>>, type, scope, key) = <<>>
      BY ValuesOfNone
    <3> QED BY <2>2, <3>1, <3>2
  <2>8. Said(f[0].args) = Said(First(words, 0))
    BY <2>2, <2>3
  <2>9. v[0] \subseteq 1..0
    BY <2>1
  <2>10. ValuesOf(Values(f[0].args, "input", "Source", ""), words, Sources(words, 0, v[0]))
    BY <2>1, <2>4, <2>5, <2>7
  <2>11. Read(compiler, words, 0, f[0], v[0])
    BY <2>2, <2>6, <2>8, <2>9, <2>10 DEF Read
  <2> QED BY <1>4, <2>11
<1>6. ASSUME NEW k \in 0..n, k \in T, k < n PROVE k + 1 \in T
  <2>1. k + 1 \in 1..n /\ k + 1 \in 0..n /\ (k + 1) - 1 = k
    BY <1>6
  <2>2. f[k + 1] = ReadWord(compiler, f[k], words[k + 1]) /\ f[k] \in Readings(compiler)
    BY <1>1, <1>2, <2>1 DEF ReadsAll
  <2>3. v[k + 1] = NextValues(compiler, words, k + 1, v[k])
    BY <1>1, <1>3, <2>1 DEF MarksAll
  <2>4. Read(compiler, words, k, f[k], v[k]) /\ k \in 0..Len(words) /\ k < Len(words)
    BY <1>1, <1>4, <1>6
  <2>5. Read(compiler, words, k + 1, f[k + 1], v[k + 1])
    BY <2>2, <2>3, <2>4, ReadNext
  <2> QED BY <1>4, <2>1, <2>5
<1>7. n \in T
  BY <1>5, <1>6, Upwards
<1>8. Read(compiler, words, n, s, v[n])
  BY <1>2, <1>4, <1>7
<1>9. First(words, n) = words
  BY <1>1 DEF First
<1>10. Said(s.args) = Said(words)
  <2>1. <<words[n]>> # <<>>
    OBVIOUS
  <2> QED BY <1>8, <1>9, <2>1 DEF Read, Nothing
<1>11. Sources(words, n, v[n]) = SourcesOf(compiler, words)
  BY <1>3 DEF Sources, SourcesOf
<1>12. ValuesOf(Values(s.args, "input", "Source", ""), words, Sources(words, n, v[n]))
  BY <1>8 DEF Read
<1>13. s.args \in Seq(Arg)
  <2>1. s \in Readings(compiler)
    BY <1>2
  <2> QED BY <2>1 DEF Readings
<1> QED BY <1>10, <1>11, <1>12, <1>13 DEF Understood

-------------------------------------------------------------------------------
(* The compilations of a command                                            *)

\* What is a sequence, whatever its elements are.
IsSeq(s) == s \in Seq(Range(s))

\* The empty sequence is one.
LEMMA EmptyIsSeq == IsSeq(<<>>)
<1>1. PICK R : R = Range(<<>>)
  OBVIOUS
<1>2. <<>> \in Seq(R)
  OBVIOUS
<1> QED BY <1>1, <1>2 DEF IsSeq

\* What a sequence has.
LEMMA SeqDomain ==
  ASSUME NEW s, IsSeq(s)
  PROVE  Len(s) \in Nat /\ DOMAIN s = 1..Len(s)
<1>1. PICK R : R = Range(s)
  OBVIOUS
<1>2. s \in Seq(R)
  BY <1>1 DEF IsSeq
<1> QED BY <1>2

\* A listing of values by number is a sequence.
LEMMA ListIsSeq ==
  ASSUME NEW s, NEW n, n \in Nat, DOMAIN s = 1..n, s = [k \in 1..n |-> s[k]]
  PROVE  IsSeq(s) /\ Len(s) = n
<1>1. PICK R : R = Range(s)
  OBVIOUS
<1>2. \A k \in 1..n : s[k] \in R
  BY <1>1 DEF Range
<1>3. s \in Seq(R) /\ Len(s) = n
  BY <1>2
<1> QED BY <1>1, <1>3 DEF IsSeq

\* Sequences with the same numbers are as long.
LEMMA SameLength ==
  ASSUME NEW m, NEW n, m \in Nat, n \in Nat, 1..m = 1..n
  PROVE  m = n
<1>1. \A k \in Nat : k \in 1..m <=> k \in 1..n
  OBVIOUS
<1>2. m # 0 => m \in 1..n
  BY <1>1
<1>3. n # 0 => n \in 1..m
  BY <1>1
<1> QED BY <1>2, <1>3

\* Two compilations have one object file exactly if OneObject says so.
Foretold(compiler, first, second) ==
  LET objects == IF compiler = "cl" THEN Values(first.args, "output", "Object", "Fo") ELSE <<>>
  IN first.object = second.object <=> OneObject(objects, first.source, second.source)

\* Compilations of the words: one of each source, and the arguments say what
\* the words say.
Compilations(compiler, words, tasks) ==
  /\ Cardinality(SourcesOf(compiler, words)) = Len(tasks)
  /\ \A j \in SourcesOf(compiler, words) : \E m \in DOMAIN tasks : tasks[m].source = words[j].val
  /\ \A m \in DOMAIN tasks : Said(words) = Said(tasks[m].args)
  /\ \A m, n \in DOMAIN tasks : m # n => Foretold(compiler, tasks[m], tasks[n])

\* No compilations, or these.
Made(compiler, words, tasks) == IsSeq(tasks) /\ (tasks # <<>> => Compilations(compiler, words, tasks))

\* A task for each source.
EachOf(compiler, tasks, sources, args) ==
  /\ DOMAIN tasks = DOMAIN sources
  /\ \A k \in DOMAIN sources : tasks[k].source = sources[k] /\ tasks[k].args = args
  /\ \A m, n \in DOMAIN sources : m # n => Foretold(compiler, tasks[m], tasks[n])

\* What TasksOf makes of tasks that have one source each.
LEMMA TasksMade ==
  ASSUME NEW compiler, NEW words, NEW s, NEW sources, NEW tasks,
         compiler \in Compilers, words \in Seq(Word),
         s = ReadWords(compiler, words), ~s.bad, s.option = Nothing,
         sources = Values(s.args, "input", "Source", ""),
         IsSeq(tasks), EachOf(compiler, tasks, sources, s.args)
  PROVE  Made(compiler, words, TasksOf(tasks).tasks)
<1>1. /\ DOMAIN tasks = DOMAIN sources
      /\ \A k \in DOMAIN sources : tasks[k].source = sources[k] /\ tasks[k].args = s.args
      /\ \A m, n \in DOMAIN sources : m # n => Foretold(compiler, tasks[m], tasks[n])
  BY DEF EachOf
<1>2. Said(s.args) = Said(words) /\ ValuesOf(sources, words, SourcesOf(compiler, words))
  <2>1. Understood(compiler, words, s.args)
    BY LineRead
  <2> QED BY <2>1 DEF Understood
<1>3. PICK n \in Nat : n = Len(sources) /\ DOMAIN sources = 1..n
  BY <1>2, SeqHas DEF ValuesOf
<1>4. Len(tasks) = n /\ DOMAIN tasks = 1..n
  <2>1. Len(tasks) \in Nat /\ DOMAIN tasks = 1..Len(tasks)
    BY SeqDomain
  <2> QED BY <1>3, <1>1, <2>1, SameLength
<1>5. Compilations(compiler, words, tasks)
  <2>1. Cardinality(SourcesOf(compiler, words)) = Len(tasks)
    BY <1>2, <1>3, <1>4 DEF ValuesOf
  <2>2. \A j \in SourcesOf(compiler, words) : \E m \in DOMAIN tasks : tasks[m].source = words[j].val
    <3>1. ASSUME NEW j \in SourcesOf(compiler, words) PROVE \E m \in DOMAIN tasks : tasks[m].source = words[j].val
      <4>1. PICK m \in DOMAIN sources : sources[m] = words[j].val
        BY <1>2 DEF ValuesOf
      <4> QED BY <1>1, <4>1
    <3> QED BY <3>1
  <2>3. \A m \in DOMAIN tasks : Said(words) = Said(tasks[m].args)
    BY <1>2, <1>3, <1>4, <1>1
  <2> QED BY <1>3, <1>4, <1>1, <2>1, <2>2, <2>3 DEF Compilations
<1>6. IsSeq(<<>>)
  BY EmptyIsSeq
<1>7. TasksOf(tasks).tasks = tasks \/ TasksOf(tasks).tasks = <<>>
  BY DEF TasksOf, Created, Refused
<1> QED BY <1>5, <1>6, <1>7 DEF Made

\* The names of two files with one extension are equal exactly if the files are
\* namesakes.
LEMMA SameButExtension ==
  ASSUME NEW f, NEW g, NEW e, f \in Seq(STRING), g \in Seq(STRING)
  PROVE  WithExtension(f, e) = WithExtension(g, e) <=> Namesakes(f, g)
<1>1. PICK V : V = STRING
  OBVIOUS
<1>2. f \in Seq(V) /\ g \in Seq(V)
  BY <1>1
<1>3. PICK m \in Nat : m = Len(f) /\ DOMAIN f = 1..m
  BY <1>2
<1>4. PICK n \in Nat : n = Len(g) /\ DOMAIN g = 1..n
  BY <1>2
<1>5. f = [j \in 1..m |-> f[j]] /\ g = [j \in 1..n |-> g[j]]
  BY <1>2, <1>3, <1>4
<1>6. PICK h, l : h = [f EXCEPT ![2] = e] /\ l = [g EXCEPT ![2] = e]
  OBVIOUS
<1>7. /\ DOMAIN h = 1..m /\ \A j \in 1..m : h[j] = IF j = 2 THEN e ELSE f[j]
      /\ DOMAIN l = 1..n /\ \A j \in 1..n : l[j] = IF j = 2 THEN e ELSE g[j]
      /\ h = [j \in 1..m |-> h[j]] /\ l = [j \in 1..n |-> l[j]]
  BY <1>3, <1>4, <1>6
<1>8. h = l <=> m = n /\ \A j \in 1..m \ {2} : f[j] = g[j]
  <2>1. ASSUME h = l PROVE m = n /\ \A j \in 1..m \ {2} : f[j] = g[j]
    <3>1. m = n
      <4>1. 1..m = 1..n
        BY <1>7, <2>1
      <4> QED BY <4>1, SameLength
    <3> QED BY <1>7, <2>1, <3>1
  <2>2. ASSUME m = n, \A j \in 1..m \ {2} : f[j] = g[j] PROVE h = l
    <3>1. \A j \in 1..m : h[j] = l[j]
      BY <1>7, <2>2
    <3>2. h = [j \in 1..m |-> h[j]] /\ l = [j \in 1..m |-> l[j]]
      BY <1>7, <2>2
    <3> QED BY <3>1, <3>2
  <2> QED BY <2>1, <2>2
<1>9. h = l <=> Namesakes(f, g)
  BY <1>3, <1>4, <1>8 DEF Namesakes
<1>10. (f = <<>> => h = f) /\ (g = <<>> => l = g)
  <2>1. f = <<>> => m = 0
    BY <1>2, <1>3
  <2>2. g = <<>> => n = 0
    BY <1>2, <1>4
  <2>3. m = 0 => h = f
    <3>1. m = 0 => \A j \in 1..m : h[j] = f[j]
      OBVIOUS
    <3> QED BY <1>5, <1>7, <3>1
  <2>4. n = 0 => l = g
    <3>1. n = 0 => \A j \in 1..n : l[j] = g[j]
      OBVIOUS
    <3> QED BY <1>5, <1>7, <3>1
  <2> QED BY <2>1, <2>2, <2>3, <2>4
<1>11. WithExtension(f, e) = h /\ WithExtension(g, e) = l
  BY <1>6, <1>10 DEF WithExtension, Nothing
<1> QED BY <1>9, <1>11

\* The objects that are given.
GivenBy(values) ==
  /\ values \in Seq(Seq(STRING))
  /\ Len(values) \in Nat /\ (Len(values) = 0 <=> values = <<>>)

\* They are names.
LEMMA ObjectGiven ==
  ASSUME NEW args, NEW type, NEW scope, NEW key, NEW values, args \in Seq(Arg),
         values = Values(args, type, scope, key)
  PROVE  GivenBy(values)
<1>1. values \in Seq(Seq(STRING))
  <2>1. AllFrom(values, args, type, scope, key)
    BY ValuesFrom
  <2> QED BY <2>1 DEF AllFrom
<1>2. Len(values) \in Nat /\ (Len(values) = 0 <=> values = <<>>)
  <2>1. PICK V : V = Seq(STRING)
    OBVIOUS
  <2>2. values \in Seq(V)
    BY <1>1, <2>1
  <2> QED BY <2>2, SeqHas
<1> QED BY <1>1, <1>2 DEF GivenBy

\* create_tasks of clang.
LEMMA ClangCompiles ==
  ASSUME NEW words, words \in Seq(Word), NEW tasks, tasks = ClangCreateTasks(words).tasks
  PROVE  Made("clang", words, tasks)
<1> DEFINE line == ClangArguments(words)
           sources == Values(line.args, "input", "Source", "")
           objects == Values(line.args, "output", "Object", "o")
           languages == Values(line.args, "param", "Ignore", "x")
           language == Single(languages)
           known == [cpp |-> "c++", c |-> "c", hpp |-> "c++-header", h |-> "c-header"]
           all == [k \in DOMAIN sources |->
            [source |-> sources[k],
             object |-> IF objects = <<>> THEN WithExtension(sources[k], "o") ELSE objects[1],
             language |-> Language(language, sources[k], known),
             args |-> line.args, input_precompiled |-> Nothing, output_precompiled |-> Nothing,
             marker |-> Single(Values(line.args, "param", "Preprocessor", "include"))]]
<1>1. PICK s : s = ReadWords("clang", words)
  OBVIOUS
<1>2. line.args = s.args /\ (line.ok <=> ~s.bad /\ s.option = Nothing)
  BY <1>1 DEF Parsed, ClangArguments
<1>3. Created(<<>>).tasks = <<>> /\ Refused.tasks = <<>>
  BY DEF Created, Refused
<1>4. tasks = <<>> \/ (line.ok /\ OutputAllowed(sources, objects) /\ tasks = TasksOf(all).tasks)
  BY <1>3, Zenon DEF ClangCreateTasks
<1>5. tasks = <<>> \/ (~s.bad /\ s.option = Nothing /\ OutputAllowed(sources, objects) /\ tasks = TasksOf(all).tasks)
  BY <1>2, <1>4
<1>6. CASE tasks = <<>>
  BY <1>6, EmptyIsSeq DEF Made
<1>7. CASE ~s.bad /\ s.option = Nothing /\ OutputAllowed(sources, objects) /\ tasks = TasksOf(all).tasks
  <2>1. PICK S, O, A : S = sources /\ O = objects /\ A = all
    OBVIOUS
  <2>2. S = Values(s.args, "input", "Source", "") /\ O = Values(s.args, "output", "Object", "o")
    BY <1>2, <2>1
  <2>3. A = [k \in DOMAIN S |-> A[k]]
    BY <2>1
  <2>4. \A k \in DOMAIN S :
          /\ A[k].source = S[k] /\ A[k].args = s.args
          /\ A[k].object = IF O = <<>> THEN WithExtension(S[k], "o") ELSE O[1]
    BY <1>2, <2>1
  <2>5. ~s.bad /\ s.option = Nothing /\ OutputAllowed(S, O) /\ tasks = TasksOf(A).tasks
    BY <1>7, <2>1
  <2> HIDE DEF line, sources, objects, languages, language, known, all
  <2>6. "clang" \in Compilers
    BY DEF Compilers
  <2>7. Understood("clang", words, s.args)
    BY <1>1, <2>5, <2>6, LineRead
  <2>8. PICK n \in Nat : n = Len(S) /\ DOMAIN S = 1..n /\ \A k \in DOMAIN S : S[k] \in Seq(STRING)
    <3>1. S \in Seq(Seq(STRING))
      BY <2>2, <2>7 DEF Understood, ValuesOf
    <3> QED BY <3>1, SeqHas
  <2>9. IsSeq(A)
    BY <2>3, <2>8, ListIsSeq
  <2>10. ASSUME NEW m \in DOMAIN S, NEW k \in DOMAIN S, m # k PROVE Foretold("clang", A[m], A[k])
    <3>1. n # 1
      BY <2>8, <2>10
    <3>2. Len(O) <= 0
      BY <2>5, <2>8, <3>1 DEF OutputAllowed
    <3>3. s.args \in Seq(Arg)
      BY <2>7 DEF Understood
    <3>4. O = <<>>
      <4>1. GivenBy(O)
        BY <2>2, <3>3, ObjectGiven
      <4> QED BY <3>2, <4>1 DEF GivenBy
    <3>5. /\ A[m].object = WithExtension(S[m], "o") /\ A[k].object = WithExtension(S[k], "o")
          /\ A[m].source = S[m] /\ A[k].source = S[k]
      BY <2>4, <2>10, <3>4
    <3>6. S[m] \in Seq(STRING) /\ S[k] \in Seq(STRING)
      BY <2>8, <2>10
    <3>7. WithExtension(S[m], "o") = WithExtension(S[k], "o") <=> Namesakes(S[m], S[k])
      BY <3>6, SameButExtension
    <3> QED BY <3>5, <3>7 DEF Foretold, OneObject
  <2>11. EachOf("clang", A, S, s.args)
    <3>1. DOMAIN A = DOMAIN S
      BY <2>3
    <3> QED BY <2>4, <2>10, <3>1 DEF EachOf
  <2> QED BY <1>1, <2>2, <2>5, <2>6, <2>9, <2>11, TasksMade
<1> QED BY <1>5, <1>6, <1>7

\* The words of the files in the place of these.
LEMMA WordsLoaded ==
  ASSUME NEW words, NEW files, words \in Seq(Word), \A name \in DOMAIN files : files[name] \in Seq(Word),
         Loadable(words, files)
  PROVE  LoadArguments(words, files) \in Seq(Word)
<1>1. PICK n \in Nat : n = Len(words) /\ DOMAIN words = 1..n /\ \A k \in 1..n : words[k] \in Word
  BY SeqHas
<1>2. PICK W : W = Word
  OBVIOUS
<1>3. PICK parts : parts = [k \in 1..n |-> IF words[k].dash = "@" THEN files[words[k].val] ELSE <<words[k]>>]
  OBVIOUS
<1>4. ASSUME NEW k \in 1..n PROVE parts[k] \in Seq(W)
  <2>1. words[k].dash = "@" => files[words[k].val] \in Seq(W)
    BY <1>1, <1>2 DEF Loadable
  <2>2. <<words[k]>> \in Seq(W)
    BY <1>1, <1>2, OneIsSeq
  <2> QED BY <1>3, <2>1, <2>2
<1>5. parts \in Seq(Seq(W))
  BY <1>3, <1>4
<1>6. <<>> \in Seq(W)
  OBVIOUS
<1>7. FlattenSeq(parts) \in Seq(W)
  BY <1>5, <1>6, FlattenAppend
<1> QED BY <1>1, <1>2, <1>3, <1>7 DEF LoadArguments

\* create_tasks of Visual Studio.
LEMMA VsCompiles ==
  ASSUME NEW given, NEW files, NEW words, NEW tasks, given \in Seq(Word),
         \A name \in DOMAIN files : files[name] \in Seq(Word), words = LoadArguments(given, files),
         tasks = VsCreateTasks(given, files).tasks
  PROVE  Made("cl", words, tasks)
<1> DEFINE line == VsArguments(LoadArguments(given, files))
           sources == Values(line.args, "input", "Source", "")
           objects == Values(line.args, "output", "Object", "Fo")
           headers == Values(line.args, "input", "Precompiled", "Fp")
           uses == Values(line.args, "input", "Marker", "Yu")
           makes == Values(line.args, "output", "Marker", "Yc")
           languages == Values(line.args, "param", "Ignore", "T")
           marker == Single(uses \o makes)
           header == CurrentDirJoin(IF headers # <<>> THEN headers[1] ELSE WithExtension(marker, ".pch"))
           all == [k \in DOMAIN sources |->
            [source |-> sources[k], object |-> VsObject(sources[k], objects),
             language |-> Language(Single(languages), sources[k], [cpp |-> "P", c |-> "C"]),
             args |-> line.args,
             input_precompiled |-> IF uses = <<>> THEN Nothing ELSE header,
             output_precompiled |-> IF makes = <<>> THEN Nothing ELSE header,
             marker |-> marker]]
<1>1. PICK s : s = ReadWords("cl", words)
  OBVIOUS
<1>2. line.args = s.args /\ (line.ok <=> ~s.bad /\ s.option = Nothing)
  BY <1>1 DEF Parsed, VsArguments
<1>3. Refused.tasks = <<>>
  BY DEF Refused
<1>4. tasks = <<>> \/ (Loadable(given, files) /\ line.ok /\ tasks = TasksOf(all).tasks)
  BY <1>3, Zenon DEF VsCreateTasks
<1>5. tasks = <<>> \/ (Loadable(given, files) /\ ~s.bad /\ s.option = Nothing /\ tasks = TasksOf(all).tasks)
  BY <1>2, <1>4
<1>6. CASE tasks = <<>>
  BY <1>6, EmptyIsSeq DEF Made
<1>7. CASE Loadable(given, files) /\ ~s.bad /\ s.option = Nothing /\ tasks = TasksOf(all).tasks
  <2>1. PICK S, O, A : S = sources /\ O = objects /\ A = all
    OBVIOUS
  <2>2. S = Values(s.args, "input", "Source", "") /\ O = Values(s.args, "output", "Object", "Fo")
    BY <1>2, <2>1
  <2>3. A = [k \in DOMAIN S |-> A[k]]
    BY <2>1
  <2>4. \A k \in DOMAIN S :
          A[k].source = S[k] /\ A[k].args = s.args /\ A[k].object = VsObject(S[k], O)
    BY <1>2, <2>1
  <2>5. Loadable(given, files) /\ ~s.bad /\ s.option = Nothing /\ tasks = TasksOf(A).tasks
    BY <1>7, <2>1
  <2> HIDE DEF line, sources, objects, headers, uses, makes, languages, marker, header, all
  <2>6. "cl" \in Compilers
    BY DEF Compilers
  <2>7. words \in Seq(Word)
    BY <2>5, WordsLoaded
  <2>8. Understood("cl", words, s.args)
    BY <1>1, <2>5, <2>6, <2>7, LineRead
  <2>9. PICK n \in Nat : n = Len(S) /\ DOMAIN S = 1..n /\ \A k \in DOMAIN S : S[k] \in Seq(STRING)
    <3>1. S \in Seq(Seq(STRING))
      BY <2>2, <2>8 DEF Understood, ValuesOf
    <3> QED BY <3>1, SeqHas
  <2>10. IsSeq(A)
    BY <2>3, <2>9, ListIsSeq
  <2>11. ASSUME NEW m \in DOMAIN S, NEW k \in DOMAIN S PROVE Foretold("cl", A[m], A[k])
    <3>1. /\ A[m].object = VsObject(S[m], O) /\ A[k].object = VsObject(S[k], O)
          /\ A[m].source = S[m] /\ A[k].source = S[k] /\ A[m].args = s.args
      BY <2>4, <2>11
    <3>2. S[m] \in Seq(STRING) /\ S[k] \in Seq(STRING)
      BY <2>9, <2>11
    <3>3. VsObject(S[m], O) = VsObject(S[k], O) <=> OneObject(O, S[m], S[k])
      <4>1. CASE O = <<>>
        <5>1. WithExtension(S[m], "obj") = WithExtension(S[k], "obj") <=> Namesakes(S[m], S[k])
          BY <3>2, SameButExtension
        <5> QED BY <4>1, <5>1 DEF VsObject, OneObject
      <4>2. CASE O # <<>>
        <5>1. PICK object : object = CurrentDirJoin(O[1])
          OBVIOUS
        <5>2. 1 \in DOMAIN object
          <6>1. s.args \in Seq(Arg)
            BY <2>8 DEF Understood
          <6>2. O \in Seq(Seq(STRING)) /\ Len(O) \in Nat /\ Len(O) # 0
            <7>1. GivenBy(O)
              BY <2>2, <6>1, ObjectGiven
            <7> QED BY <4>2, <7>1 DEF GivenBy
          <6>3. O[1] \in Seq(STRING)
            BY <6>2
          <6>4. PICK V : V = STRING
            OBVIOUS
          <6>5. O[1] \in Seq(V) /\ 1 \in DOMAIN <<"", "/">>
            BY <6>3, <6>4
          <6>6. O[1] # <<>> => 1 \in DOMAIN O[1]
            BY <6>5
          <6> QED BY <5>1, <6>5, <6>6 DEF CurrentDirJoin, Nothing
        <5>3. VsObject(S[m], O) = (IF IsDir(object) THEN [object EXCEPT ![1] = S[m][1], ![2] = "obj"] ELSE object)
          BY <4>2, <5>1 DEF VsObject
        <5>4. VsObject(S[k], O) = (IF IsDir(object) THEN [object EXCEPT ![1] = S[k][1], ![2] = "obj"] ELSE object)
          BY <4>2, <5>1 DEF VsObject
        <5>5. OneObject(O, S[m], S[k]) <=> (IsDir(object) => S[m][1] = S[k][1])
          BY <4>2, <5>1 DEF OneObject
        <5>6. ASSUME NEW x, NEW y
              PROVE  [object EXCEPT ![1] = x, ![2] = "obj"] = [object EXCEPT ![1] = y, ![2] = "obj"] <=> x = y
          <6>1. /\ [object EXCEPT ![1] = x, ![2] = "obj"][1] = x
                /\ [object EXCEPT ![1] = y, ![2] = "obj"][1] = y
            BY <5>2
          <6> QED BY <6>1
        <5> QED BY <5>3, <5>4, <5>5, <5>6
      <4> QED BY <4>1, <4>2
    <3> QED BY <2>2, <3>1, <3>3 DEF Foretold
  <2>12. EachOf("cl", A, S, s.args)
    <3>1. DOMAIN A = DOMAIN S
      BY <2>3
    <3> QED BY <2>4, <2>11, <3>1 DEF EachOf
  <2> QED BY <1>1, <2>2, <2>5, <2>6, <2>7, <2>10, <2>12, TasksMade
<1> QED BY <1>5, <1>6, <1>7

\* The words of a command, and of the files it names.
WordedCommand(command) ==
  /\ command.words \in Seq(Word)
  /\ \A name \in DOMAIN command.files : command.files[name] \in Seq(Word)

\* Compiler::create_tasks: no compilations, or one of each source.
LEMMA CommandCompiles ==
  ASSUME NEW command, NEW tasks, WordedCommand(command), tasks = CreateCompilations(command).tasks
  PROVE  Made(command.program.name, WordsOf(command), tasks)
<1>1. Refused.tasks = <<>>
  BY DEF Refused
<1>2. CASE tasks = <<>>
  BY <1>2, EmptyIsSeq DEF Made
<1>3. CASE tasks # <<>>
  <2>1. CASE command.program.name = "cl"
    <3>1. tasks = VsCreateTasks(command.words, command.files).tasks
      BY <1>1, <1>3, <2>1 DEF CreateCompilations
    <3>2. WordsOf(command) = LoadArguments(command.words, command.files)
      BY <2>1 DEF WordsOf
    <3> QED BY <2>1, <3>1, <3>2, VsCompiles DEF WordedCommand
  <2>2. CASE command.program.name = "clang"
    <3>1. tasks = ClangCreateTasks(command.words).tasks
      BY <1>1, <1>3, <2>2 DEF CreateCompilations
    <3>2. WordsOf(command) = command.words
      BY <2>2 DEF WordsOf
    <3> QED BY <2>2, <3>1, <3>2, ClangCompiles DEF WordedCommand
  <2>3. CASE command.program.name \notin {"cl", "clang"}
    BY <1>1, <1>3, <2>3 DEF CreateCompilations
  <2> QED BY <2>1, <2>2, <2>3
<1> QED BY <1>2, <1>3

-------------------------------------------------------------------------------
(* The invariant of the preparation                                        *)

Parsing == {"project", "nodes", "edges"}

\* Task s has task t among its dependencies.
Wants(s, t) == s[1] = t[1] /\ t[2] \in projects[s[1]][s[2]]

\* Whether graph_project has been through the dependencies of task s.
Linked(s) == s[1] < p \/ (s[1] = p /\ pc = "edges" /\ s[2] \notin todo)

\* The projects before p are in the graph, each task once.
ProjectsOK ==
  /\ pc \in {"project", "nodes", "edges", "validate", "prepare", "link", "Ok", "Err"}
  /\ p \in Nat \ {0} /\ Len(projects) \in Nat /\ DOMAIN projects = 1..Len(projects)
  /\ pc \in {"nodes", "edges"} => p \in DOMAIN projects
  /\ pc \notin Parsing \cup {"Err"} => p > Len(projects)

NodesOK ==
  /\ xg \in Seq(Tasks)
  /\ \A j, k \in DOMAIN xg : xg[j] = xg[k] => j = k
  /\ pc # "Err" =>
       \A s \in Tasks :
         (\E k \in DOMAIN xg : xg[k] = s) <=>
           \/ s[1] < p
           \/ s[1] = p /\ (pc = "edges" \/ (pc = "nodes" /\ s[2] \notin todo))

\* task_refs finds the nodes of project p.
RefsOK ==
  pc \in {"nodes", "edges"} =>
    /\ todo \subseteq DOMAIN projects[p]
    /\ DOMAIN refs = IF pc = "nodes" THEN (DOMAIN projects[p]) \ todo ELSE DOMAIN projects[p]
    /\ \A t \in DOMAIN refs : refs[t] \in DOMAIN xg /\ xg[refs[t]] = <<p, t>>

\* The edges are the dependencies of the tasks graph_project has been through,
\* and all of these are known.
EdgesOK ==
  /\ xgEdges \subseteq (DOMAIN xg) \X (DOMAIN xg)
  /\ pc # "Err" =>
       /\ \A j, k \in DOMAIN xg : <<j, k>> \in xgEdges <=> Linked(xg[j]) /\ Wants(xg[j], xg[k])
       /\ \A s \in Tasks : Linked(s) => projects[s[1]][s[2]] \subseteq DOMAIN projects[s[1]]

\* validate_graph is called once, on the parsed graph.
CallOK ==
  /\ IndInv
  /\ pc \in Parsing => i = 1 /\ completed = {} /\ count = 0 /\ verdict = "run"
  /\ pc \notin Parsing \cup {"Err"} => nodes = DOMAIN xg /\ edges = xgEdges
  /\ pc \in {"prepare", "link", "Ok"} => verdict = "Ok"

ParseInv == ProjectsOK /\ NodesOK /\ RefsOK /\ EdgesOK /\ CallOK

\* Node x of the new graph is the group of the task whose action y is.
Groups(x, y) == \E k \in DOMAIN remap : remap[k] = x /\ depends[x] = End /\ depends[y] = k

\* x is an action of a task that depends on the task y stands for.
Links(x, y) == \E n \in DOMAIN xg : <<depends[x], n>> \in xgEdges /\ remap[n] = y

\* How far the two loops of prepare_graph are.
SizesOK ==
  /\ IsSeq(build) /\ depends \in Seq(Nat) /\ remap \in Seq(Nat)
  /\ Len(depends) = Len(build) /\ Len(remap) <= Len(xg) /\ at \in Nat \ {0}
  /\ pc \in Parsing \cup {"validate"} =>
       remap = <<>> /\ depends = <<>> /\ build = <<>> /\ buildEdges = {} /\ at = 1
  /\ pc = "prepare" => at = Len(remap) + 1
  /\ pc \in {"link", "Ok"} => Len(remap) = Len(xg)
  /\ pc = "Ok" => at > Len(depends)

\* Every node is an action, and knows its task, or the group of a task.
ActionsOK ==
  \A n \in DOMAIN build :
    /\ depends[n] \in 0..Len(remap)
    /\ build[n].kind \in {"empty", "exec", "compile"}
    /\ depends[n] # End =>
         /\ Real(n) /\ build[n].task = xg[depends[n]]
         /\ remap[depends[n]] = n \/ depends[remap[depends[n]]] = End
    /\ depends[n] = End => ~Real(n) /\ \E k \in DOMAIN remap : remap[k] = n

\* Every task has a node of its own that stands for it, and an action.
RemapOK ==
  /\ \A k \in DOMAIN remap :
       /\ remap[k] \in DOMAIN build /\ depends[remap[k]] \in {k, End}
       /\ build[remap[k]].task = xg[k]
       /\ \E n \in DOMAIN build : depends[n] = k
  /\ \A j, k \in DOMAIN remap : remap[j] = remap[k] => j = k

\* The edges are those of the groups and, as far as the second loop is, those
\* of the task files.
BuildEdgesOK ==
  /\ buildEdges \subseteq (DOMAIN build) \X (DOMAIN build)
  /\ pc # "Err" =>
       \A x, y \in DOMAIN build :
         <<x, y>> \in buildEdges <=>
           Groups(x, y) \/ (pc \in {"link", "Ok"} /\ x < at /\ Links(x, y))

BuildInv == SizesOK /\ ActionsOK /\ RemapOK /\ BuildEdgesOK

PrepInv == ParseInv /\ BuildInv

-------------------------------------------------------------------------------
(* The parser                                                              *)

\* A task is the pair of its project and its name.
LEMMA TaskPairs ==
  /\ \A s \in Tasks : s = <<s[1], s[2]>> /\ s[1] \in DOMAIN projects /\ s[2] \in DOMAIN projects[s[1]]
  /\ \A k \in DOMAIN projects : \A t \in DOMAIN projects[k] :
       <<k, t>> \in Tasks /\ <<k, t>>[1] = k /\ <<k, t>>[2] = t
BY DEF Tasks

\* validate_graph's variables rest while it is not called.
LEMMA CallRests == IndInv /\ UNCHANGED validation => IndInv'
BY NextInd DEF validation

\* prepare_graph has not begun.
LEMMA BuildRests ==
  ASSUME SizesOK, pc \in Parsing \cup {"validate"}, UNCHANGED <<prepared, at>>,
         pc' \in Parsing \cup {"validate", "prepare", "Err"}, xg' \in Seq(Tasks)
  PROVE  BuildInv'
<1>1. remap' = <<>> /\ depends' = <<>> /\ build' = <<>> /\ buildEdges' = {} /\ at' = 1
  BY DEF SizesOK, prepared
<1>2. SizesOK'
  <2>1. build' \in Seq(Range(build')) /\ depends' \in Seq(Nat) /\ remap' \in Seq(Nat)
    BY <1>1
  <2>2. Len(remap') = 0 /\ Len(depends') = 0 /\ Len(build') = 0 /\ Len(xg') \in Nat
    BY <1>1
  <2>3. pc' \notin {"link", "Ok"}
    BY DEF Parsing
  <2> QED BY <1>1, <2>1, <2>2, <2>3 DEF SizesOK, IsSeq
<1>3. DOMAIN build' = {} /\ DOMAIN remap' = {}
  BY <1>1
<1> QED BY <1>1, <1>2, <1>3 DEF BuildInv, ActionsOK, RemapOK, BuildEdgesOK

\* Nothing is parsed yet.
LEMMA PrepareInitOK == PrepareInit => PrepInv
<1> SUFFICES ASSUME PrepareInit PROVE PrepInv
  OBVIOUS
<1>1. PICK layout \in Layouts : DOMAIN projects = DOMAIN layout /\ projects = [k \in DOMAIN layout |-> projects[k]]
  BY DEF PrepareInit
<1>2. ProjectsOK
  <2>1. DOMAIN projects = 1..Len(layout) /\ Len(layout) \in Nat
    BY <1>1, LayoutsListed
  <2>2. Len(projects) = Len(layout)
    <3>1. projects \in Seq(Range(projects))
      <4>1. projects = [k \in 1..Len(layout) |-> projects[k]]
        BY <1>1, <2>1
      <4>2. \A k \in 1..Len(layout) : projects[k] \in Range(projects)
        BY <2>1 DEF Range
      <4> QED BY <2>1, <4>1, <4>2
    <3> QED BY <2>1, <3>1
  <2> QED BY <2>1, <2>2 DEF PrepareInit, ProjectsOK, Parsing
<1>3. xg = <<>> /\ xg \in Seq(Tasks) /\ DOMAIN xg = {} /\ p = 1 /\ pc = "project" /\ xgEdges = {}
  BY DEF PrepareInit
<1>4. NodesOK
  <2>1. \A s \in Tasks : ~(s[1] < p)
    BY <1>2, <1>3, TaskPairs DEF ProjectsOK
  <2> QED BY <1>3, <2>1 DEF NodesOK
<1>5. RefsOK /\ EdgesOK
  <2>1. \A s \in Tasks : ~Linked(s)
    BY <1>2, <1>3, TaskPairs DEF ProjectsOK, Linked
  <2> QED BY <1>3, <2>1 DEF RefsOK, EdgesOK
<1>6. CallOK
  <2>1. IndInv
    <3>1. IsFiniteSet(nodes) /\ Cardinality(nodes) = 0
      BY FS_EmptySet DEF PrepareInit
    <3> QED BY <3>1 DEF PrepareInit, IndInv, TypeOK, CoresUntouched, CandidatesAhead, Counted
  <2> QED BY <2>1 DEF PrepareInit, CallOK, Parsing
<1>7. BuildInv
  <2>1. remap = <<>> /\ depends = <<>> /\ build = <<>> /\ buildEdges = {} /\ at = 1
    BY DEF PrepareInit
  <2>2. SizesOK
    <3>1. build \in Seq(Range(build)) /\ depends \in Seq(Nat) /\ remap \in Seq(Nat)
      BY <2>1
    <3>2. Len(remap) = 0 /\ Len(depends) = 0 /\ Len(build) = 0 /\ Len(xg) = 0
      BY <1>3, <2>1
    <3> QED BY <1>3, <2>1, <3>1, <3>2 DEF SizesOK, IsSeq
  <2>3. DOMAIN build = {} /\ DOMAIN remap = {}
    BY <2>1
  <2> QED BY <2>1, <2>2, <2>3 DEF BuildInv, ActionsOK, RemapOK, BuildEdgesOK
<1> QED BY <1>2, <1>4, <1>5, <1>6, <1>7 DEF PrepInv, ParseInv

\* The next project begins with no references.
LEMMA NextProjectOK ==
  ASSUME PrepInv, NextProject
  PROVE  PrepInv'
<1> USE DEF PrepInv, ParseInv
<1>1. /\ pc = "project" /\ p \in DOMAIN projects /\ UNCHANGED <<projects, p, xg, xgEdges, prepared, at, validation>>
      /\ \/ pc' = "nodes" /\ todo' = DOMAIN projects[p] /\ refs' = <<>>
         \/ pc' = "Err"
  BY DEF NextProject, ProjectsOK
<1>2. ProjectsOK'
  BY <1>1 DEF ProjectsOK, Parsing
<1>3. NodesOK'
  <2>1. Tasks' = Tasks /\ \A s \in Tasks : s[2] \in DOMAIN projects[s[1]]
    BY <1>1, TaskPairs DEF Tasks
  <2> QED BY <1>1, <2>1 DEF NodesOK
<1>4. RefsOK'
  <2>1. pc' = "nodes" => DOMAIN refs' = {}
    BY <1>1
  <2> QED BY <1>1, <2>1 DEF RefsOK
<1>5. EdgesOK'
  <2>1. Tasks' = Tasks
    BY <1>1 DEF Tasks
  <2> QED BY <1>1, <2>1 DEF EdgesOK, Linked, Wants
<1>6. CallOK'
  BY <1>1, CallRests DEF CallOK, Parsing, validation, vars
<1>7. BuildInv'
  BY <1>1, <1>3, BuildRests DEF BuildInv, Parsing, NodesOK
<1> QED BY <1>2, <1>3, <1>4, <1>5, <1>6, <1>7

\* An error ends the preparation where it is.
LEMMA ErrorOK ==
  ASSUME PrepInv, pc \in Parsing \cup {"validate"}, pc' = "Err",
         UNCHANGED <<projects, p, xg, xgEdges, prepared, at, validation>>
  PROVE  PrepInv'
<1> USE DEF PrepInv, ParseInv
<1>1. Tasks' = Tasks
  BY DEF Tasks
<1>2. ProjectsOK' /\ NodesOK' /\ RefsOK' /\ EdgesOK'
  BY <1>1 DEF ProjectsOK, NodesOK, RefsOK, EdgesOK, Parsing
<1>3. CallOK'
  BY CallRests DEF CallOK, Parsing, validation, vars
<1>4. BuildInv'
  BY BuildRests DEF BuildInv, Parsing, NodesOK
<1> QED BY <1>2, <1>3, <1>4

\* A task gets a node, and task_refs its number.
LEMMA AddNodeOK ==
  ASSUME PrepInv, NEW t, AddNode(t)
  PROVE  PrepInv'
<1> USE DEF PrepInv, ParseInv
<1>0. /\ pc = "nodes" /\ t \in todo /\ p \in DOMAIN projects /\ t \in DOMAIN projects[p]
      /\ UNCHANGED <<projects, p, xgEdges, prepared, at, validation>> /\ Tasks' = Tasks
  BY DEF AddNode, ProjectsOK, RefsOK, Tasks
<1>1. CASE pc' = "Err" /\ UNCHANGED <<xg, refs, todo>>
  BY <1>0, <1>1, ErrorOK DEF Parsing
<1>2. CASE /\ xg' = Append(xg, <<p, t>>)
           /\ refs' = [u \in DOMAIN refs \cup {t} |-> IF u = t THEN Len(xg') ELSE refs[u]]
           /\ todo' = todo \ {t} /\ pc' = pc
  <2>1. <<p, t>> \in Tasks /\ <<p, t>>[1] = p /\ <<p, t>>[2] = t
    BY <1>0, TaskPairs
  <2>2. /\ xg' \in Seq(Tasks) /\ DOMAIN xg = 1..Len(xg) /\ Len(xg) \in Nat
        /\ Len(xg') = Len(xg) + 1 /\ DOMAIN xg' = 1..(Len(xg) + 1)
        /\ xg'[Len(xg) + 1] = <<p, t>> /\ \A k \in DOMAIN xg : xg'[k] = xg[k]
    BY <1>2, <2>1 DEF NodesOK
  <2>3. \A k \in DOMAIN xg' : k \in DOMAIN xg \/ k = Len(xg) + 1
    BY <2>2
  <2>4. \A k \in DOMAIN xg : xg[k] # <<p, t>> /\ xg[k] \in Tasks
    <3>1. ~\E k \in DOMAIN xg : xg[k] = <<p, t>>
      BY <1>0, <2>1 DEF NodesOK, ProjectsOK
    <3> QED BY <2>2, <3>1 DEF NodesOK
  <2>5. ProjectsOK'
    BY <1>0, <1>2 DEF ProjectsOK, Parsing
  <2>6. NodesOK'
    <3>1. \A j, k \in DOMAIN xg' : xg'[j] = xg'[k] => j = k
      BY <2>2, <2>3, <2>4 DEF NodesOK
    <3>2. ASSUME NEW s \in Tasks
          PROVE  (\E k \in DOMAIN xg' : xg'[k] = s) <=> s[1] < p \/ (s[1] = p /\ s[2] \notin todo')
      <4>1. (\E k \in DOMAIN xg' : xg'[k] = s) <=> (\E k \in DOMAIN xg : xg[k] = s) \/ s = <<p, t>>
        <5>1. Len(xg) + 1 \in DOMAIN xg' /\ DOMAIN xg \subseteq DOMAIN xg'
          BY <2>2
        <5> HIDE DEF PrepInv, ParseInv
        <5> QED BY <2>2, <2>3, <5>1, Zenon
      <4>2. (\E k \in DOMAIN xg : xg[k] = s) <=> s[1] < p \/ (s[1] = p /\ s[2] \notin todo)
        BY <1>0 DEF NodesOK
      <4>3. s = <<p, t>> <=> s[1] = p /\ s[2] = t
        BY <2>1, TaskPairs
      <4> QED BY <1>0, <1>2, <4>1, <4>2, <4>3
    <3> QED BY <1>0, <1>2, <2>2, <3>1, <3>2 DEF NodesOK
  <2>7. RefsOK'
    <3>1. DOMAIN refs' = (DOMAIN projects[p]) \ todo'
      BY <1>0, <1>2 DEF RefsOK
    <3>2. ASSUME NEW u \in DOMAIN refs' PROVE refs'[u] \in DOMAIN xg' /\ xg'[refs'[u]] = <<p, u>>
      <4>1. CASE u = t
        BY <1>2, <2>2, <4>1
      <4>2. CASE u # t
        BY <1>0, <1>2, <2>2, <4>2 DEF RefsOK
      <4> QED BY <4>1, <4>2
    <3> QED BY <1>0, <1>2, <3>1, <3>2 DEF RefsOK
  <2>8. EdgesOK'
    <3>1. xgEdges' \subseteq (DOMAIN xg') \X (DOMAIN xg')
      BY <1>0, <2>2 DEF EdgesOK
    <3>2. \A s : Linked(s)' <=> s[1] < p
      BY <1>0, <1>2 DEF Linked
    <3>3. \A s : Linked(s) <=> s[1] < p
      BY <1>0 DEF Linked
    <3>4. ASSUME NEW j \in DOMAIN xg', NEW k \in DOMAIN xg'
          PROVE  <<j, k>> \in xgEdges <=> xg'[j][1] < p /\ Wants(xg'[j], xg'[k])
      <4>1. CASE j \in DOMAIN xg /\ k \in DOMAIN xg
        BY <1>0, <2>2, <3>3, <4>1 DEF EdgesOK
      <4>2. CASE j = Len(xg) + 1
        BY <2>1, <2>2, <4>2 DEF EdgesOK, ProjectsOK
      <4>3. CASE j \in DOMAIN xg /\ k = Len(xg) + 1
        <5>1. <<j, k>> \notin xgEdges
          BY <2>2, <4>3 DEF EdgesOK
        <5>2. xg'[j][1] < p => ~Wants(xg'[j], xg'[k])
          BY <1>0, <2>1, <2>2, <2>4, <4>3, TaskPairs DEF Wants, ProjectsOK
        <5> QED BY <5>1, <5>2
      <4> QED BY <2>3, <4>1, <4>2, <4>3
    <3>5. \A s \in Tasks : s[1] < p => projects[s[1]][s[2]] \subseteq DOMAIN projects[s[1]]
      BY <1>0, <3>3 DEF EdgesOK
    <3>6. \A j, k \in DOMAIN xg' : Wants(xg'[j], xg'[k]) <=> Wants(xg[j], xg[k])'
      BY <1>0 DEF Wants
    <3> QED BY <1>0, <3>1, <3>2, <3>4, <3>5, <3>6 DEF EdgesOK
  <2>9. CallOK'
    BY <1>0, <1>2, CallRests DEF CallOK, Parsing, validation, vars
  <2>10. BuildInv'
    BY <1>0, <1>2, <2>2, BuildRests DEF BuildInv, Parsing
  <2> QED BY <2>5, <2>6, <2>7, <2>8, <2>9, <2>10
<1> QED BY <1>1, <1>2 DEF AddNode

\* All tasks of the project have a node.
LEMMA NodesAddedOK ==
  ASSUME PrepInv, NodesAdded
  PROVE  PrepInv'
<1> USE DEF PrepInv, ParseInv
<1>1. /\ pc = "nodes" /\ todo = {} /\ pc' = "edges" /\ todo' = DOMAIN projects[p] /\ p \in DOMAIN projects
      /\ UNCHANGED <<projects, p, xg, xgEdges, refs, prepared, at, validation>> /\ Tasks' = Tasks
  BY DEF NodesAdded, parsed, ProjectsOK, Tasks
<1>2. ProjectsOK'
  BY <1>1 DEF ProjectsOK, Parsing
<1>3. NodesOK'
  BY <1>1 DEF NodesOK
<1>4. RefsOK'
  BY <1>1 DEF RefsOK
<1>5. EdgesOK'
  <2>1. \A s \in Tasks : Linked(s)' <=> Linked(s)
    BY <1>1, TaskPairs DEF Linked
  <2>2. \A k \in DOMAIN xg : xg[k] \in Tasks
    BY DEF NodesOK
  <2> QED BY <1>1, <2>1, <2>2 DEF EdgesOK, Wants
<1>6. CallOK'
  BY <1>1, CallRests DEF CallOK, Parsing, validation, vars
<1>7. BuildInv'
  BY <1>1, BuildRests DEF BuildInv, Parsing, NodesOK
<1> QED BY <1>2, <1>3, <1>4, <1>5, <1>6, <1>7

\* A task gets an edge to each of its dependencies, if all of them are known.
LEMMA AddEdgesOK ==
  ASSUME PrepInv, NEW t, AddEdges(t)
  PROVE  PrepInv'
<1> USE DEF PrepInv, ParseInv
<1>0. /\ pc = "edges" /\ t \in todo /\ p \in DOMAIN projects /\ t \in DOMAIN projects[p]
      /\ UNCHANGED <<projects, p, xg, refs, prepared, at, validation>> /\ Tasks' = Tasks
  BY DEF AddEdges, ProjectsOK, RefsOK, Tasks
<1>1. CASE pc' = "Err" /\ UNCHANGED <<xgEdges, todo>>
  BY <1>0, <1>1, ErrorOK DEF Parsing
<1>2. CASE /\ projects[p][t] \subseteq DOMAIN refs
           /\ xgEdges' = xgEdges \cup {<<refs[t], refs[d]>> : d \in projects[p][t]}
           /\ todo' = todo \ {t} /\ pc' = pc
  <2>1. ProjectsOK' /\ NodesOK'
    BY <1>0, <1>2 DEF ProjectsOK, NodesOK
  <2>2. RefsOK'
    BY <1>0, <1>2 DEF RefsOK
  <2>3. EdgesOK'
    <3>0. /\ DOMAIN refs = DOMAIN projects[p]
          /\ \A d \in DOMAIN refs : refs[d] \in DOMAIN xg /\ xg[refs[d]] = <<p, d>>
          /\ \A d \in DOMAIN refs : <<p, d>>[1] = p /\ <<p, d>>[2] = d
      BY <1>0 DEF RefsOK
    <3>1. xgEdges' \subseteq (DOMAIN xg') \X (DOMAIN xg')
      BY <1>0, <1>2, <3>0 DEF EdgesOK
    <3>2. \A s \in Tasks : Linked(s)' <=> Linked(s) \/ s = <<p, t>>
      BY <1>0, <1>2, TaskPairs DEF Linked, ProjectsOK
    <3>3. ASSUME NEW j \in DOMAIN xg, NEW k \in DOMAIN xg
          PROVE  <<j, k>> \in xgEdges' <=> Linked(xg[j])' /\ Wants(xg[j], xg[k])
      <4>1. xg[j] \in Tasks /\ xg[k] \in Tasks
        BY DEF NodesOK
      <4>2. xg[j] = <<p, t>> <=> j = refs[t]
        BY <1>0, <3>0 DEF NodesOK
      <4>3. CASE j # refs[t]
        <5>1. <<j, k>> \in xgEdges' <=> <<j, k>> \in xgEdges
          BY <1>2, <4>3
        <5> QED BY <1>0, <3>2, <4>1, <4>2, <4>3, <5>1 DEF EdgesOK
      <4>4. CASE j = refs[t]
        <5>1. ~Linked(xg[j]) /\ Linked(xg[j])'
          <6>1. xg[j] = <<p, t>> /\ xg[j][1] = p /\ xg[j][2] = t /\ xg' = xg /\ p \in Nat
            BY <1>0, <4>2, <4>4 DEF ProjectsOK
          <6> QED BY <1>0, <1>2, <6>1 DEF Linked
        <5>2. <<j, k>> \in xgEdges' <=> \E d \in projects[p][t] : refs[d] = k
          BY <1>0, <1>2, <4>4, <5>1 DEF EdgesOK
        <5>3. (\E d \in projects[p][t] : refs[d] = k) <=> \E d \in projects[p][t] : xg[k] = <<p, d>>
          <6>1. ASSUME NEW d \in projects[p][t] PROVE refs[d] = k <=> xg[k] = <<p, d>>
            <7>1. refs[d] \in DOMAIN xg /\ xg[refs[d]] = <<p, d>>
              BY <1>2, <3>0, <6>1
            <7>2. xg[k] = xg[refs[d]] => k = refs[d]
              BY <7>1 DEF NodesOK
            <7> QED BY <7>1, <7>2
          <6> QED BY <6>1
        <5>4. Wants(xg[j], xg[k]) <=> xg[k][1] = p /\ xg[k][2] \in projects[p][t]
          BY <1>0, <3>0, <4>4 DEF Wants
        <5>5. (\E d \in projects[p][t] : xg[k] = <<p, d>>) <=> xg[k][1] = p /\ xg[k][2] \in projects[p][t]
          <6>1. xg[k] = <<xg[k][1], xg[k][2]>>
            BY <4>1, TaskPairs
          <6>2. \A d : <<p, d>>[1] = p /\ <<p, d>>[2] = d
            OBVIOUS
          <6> QED BY <6>1, <6>2
        <5> QED BY <5>1, <5>2, <5>3, <5>4, <5>5
      <4> QED BY <4>3, <4>4
    <3>4. ASSUME NEW s \in Tasks, Linked(s)' PROVE projects[s[1]][s[2]] \subseteq DOMAIN projects[s[1]]
      <4>1. CASE Linked(s)
        BY <1>0, <4>1 DEF EdgesOK
      <4>2. CASE s = <<p, t>>
        BY <1>0, <1>2, <3>0, <4>2
      <4> QED BY <3>2, <3>4, <4>1, <4>2
    <3> QED BY <1>0, <3>1, <3>3, <3>4 DEF EdgesOK, Wants
  <2>4. CallOK'
    BY <1>0, <1>2, CallRests DEF CallOK, Parsing, validation, vars
  <2>5. BuildInv'
    BY <1>0, <1>2, BuildRests DEF BuildInv, Parsing, NodesOK
  <2> QED BY <2>1, <2>2, <2>3, <2>4, <2>5
<1> QED BY <1>0, <1>1, <1>2 DEF AddEdges

\* All tasks of the project have their edges.
LEMMA EdgesAddedOK ==
  ASSUME PrepInv, EdgesAdded
  PROVE  PrepInv'
<1> USE DEF PrepInv, ParseInv
<1>1. /\ pc = "edges" /\ todo = {} /\ pc' = "project" /\ p' = p + 1 /\ p \in Nat \ {0}
      /\ UNCHANGED <<projects, todo, xg, xgEdges, refs, prepared, at, validation>> /\ Tasks' = Tasks
  BY DEF EdgesAdded, parsed, ProjectsOK, Tasks
<1>2. ProjectsOK'
  BY <1>1 DEF ProjectsOK, Parsing
<1>3. \A s \in Tasks : s[1] \in Nat
  BY TaskPairs DEF ProjectsOK
<1>4. NodesOK'
  BY <1>1, <1>3 DEF NodesOK
<1>5. RefsOK'
  BY <1>1 DEF RefsOK
<1>6. EdgesOK'
  <2>1. \A s \in Tasks : Linked(s)' <=> Linked(s)
    BY <1>1, <1>3 DEF Linked
  <2>2. \A k \in DOMAIN xg : xg[k] \in Tasks
    BY DEF NodesOK
  <2> QED BY <1>1, <2>1, <2>2 DEF EdgesOK, Wants
<1>7. CallOK'
  BY <1>1, CallRests DEF CallOK, Parsing, validation, vars
<1>8. BuildInv'
  BY <1>1, BuildRests DEF BuildInv, Parsing, NodesOK
<1> QED BY <1>2, <1>4, <1>5, <1>6, <1>7, <1>8

\* The parsed projects do not change any more.
LEMMA ParseKept ==
  ASSUME PrepInv, pc \notin {"nodes", "edges", "Err"},
         pc' \in {"project", "validate", "prepare", "link", "Ok", "Err"},
         pc' \in {"project", "Err"} \/ p > Len(projects), UNCHANGED <<parsed, p>>
  PROVE  ProjectsOK' /\ NodesOK' /\ RefsOK' /\ EdgesOK'
<1> USE DEF PrepInv, ParseInv
<1>1. UNCHANGED <<projects, p, xg, xgEdges, refs>> /\ Tasks' = Tasks
  BY DEF parsed, Tasks
<1>2. ProjectsOK'
  BY <1>1 DEF ProjectsOK, Parsing
<1>3. NodesOK'
  BY <1>1 DEF NodesOK
<1>4. RefsOK'
  BY DEF RefsOK
<1>5. EdgesOK'
  <2>1. \A s \in Tasks : Linked(s)' <=> Linked(s)
    BY <1>1 DEF Linked
  <2>2. \A k \in DOMAIN xg : xg[k] \in Tasks
    BY DEF NodesOK
  <2> QED BY <1>1, <2>1, <2>2 DEF EdgesOK, Wants
<1> QED BY <1>2, <1>3, <1>4, <1>5

\* validate_graph gets the parsed graph, and every node is a candidate.
LEMMA StartValidateOK ==
  ASSUME PrepInv, StartValidate
  PROVE  PrepInv'
<1> USE DEF PrepInv, ParseInv
<1>1. /\ pc = "project" /\ p > Len(projects) /\ pc' = "validate" /\ UNCHANGED <<parsed, p, prepared, at>>
      /\ nodes' = DOMAIN xg /\ edges' = xgEdges /\ queue' = [n \in DOMAIN xg |-> n]
      /\ UNCHANGED <<i, completed, count, verdict>>
  BY DEF StartValidate
<1>2. ProjectsOK' /\ NodesOK' /\ RefsOK' /\ EdgesOK'
  BY <1>1, ParseKept
<1>3. CallOK'
  <2>1. i = 1 /\ completed = {} /\ count = 0 /\ verdict = "run"
    BY <1>1 DEF CallOK, Parsing
  <2>2. DOMAIN xg = 1..Len(xg) /\ Len(xg) \in Nat
    BY DEF NodesOK
  <2>3. IsFiniteSet(nodes') /\ Cardinality(completed') = 0
    BY <1>1, <2>1, <2>2, FS_Interval, FS_EmptySet
  <2>4. queue' \in Seq(nodes') /\ Len(queue') = Len(xg)
    BY <1>1, <2>2
  <2>5. TypeOK'
    BY <1>1, <2>1, <2>3, <2>4 DEF TypeOK, EdgesOK
  <2>6. CoresUntouched'
    BY <1>1, <2>1 DEF CoresUntouched
  <2>7. CandidatesAhead'
    <3>1. \A n \in nodes' : n \in (1..Len(xg)) /\ queue'[n] = n
      BY <1>1, <2>2
    <3>2. i' = 1
      BY <1>1, <2>1
    <3> QED BY <2>4, <3>1, <3>2 DEF CandidatesAhead
  <2>8. Counted'
    BY <1>1, <2>1, <2>3 DEF Counted
  <2>9. xg' = xg /\ xgEdges' = xgEdges
    BY <1>1 DEF parsed
  <2> QED BY <1>1, <2>5, <2>6, <2>7, <2>8, <2>9 DEF IndInv, CallOK, Parsing
<1>4. BuildInv'
  BY <1>1, <1>2, BuildRests DEF BuildInv, Parsing, NodesOK, Tasks, parsed
<1> QED BY <1>2, <1>3, <1>4

\* validate_graph runs on that graph.
LEMMA ValidateStepOK ==
  ASSUME PrepInv, ValidateStep
  PROVE  PrepInv'
<1> USE DEF PrepInv, ParseInv
<1>1. /\ pc = "validate" /\ pc' = pc /\ UNCHANGED <<parsed, p, prepared, at>>
      /\ ReturnEmpty \/ Complete \/ Skip \/ Exhausted
  BY DEF ValidateStep
<1>2. ProjectsOK' /\ NodesOK' /\ RefsOK' /\ EdgesOK'
  BY <1>1, ParseKept DEF ProjectsOK, Parsing
<1>3. CallOK'
  <2>1. IndInv'
    BY <1>1, NextInd DEF CallOK, Next
  <2>2. UNCHANGED <<nodes, edges, xg, xgEdges>>
    BY <1>1 DEF ReturnEmpty, Complete, Skip, Exhausted, graph, parsed
  <2> QED BY <1>1, <2>1, <2>2 DEF CallOK, Parsing
<1>4. BuildInv'
  BY <1>1, <1>2, BuildRests DEF BuildInv, Parsing, NodesOK, Tasks, parsed
<1> QED BY <1>2, <1>3, <1>4

\* Only an acyclic graph is prepared.
LEMMA ValidatedOK ==
  ASSUME PrepInv, Validated
  PROVE  PrepInv'
<1> USE DEF PrepInv, ParseInv
<1>1. /\ pc = "validate" /\ verdict # "run" /\ pc' = IF verdict = "Ok" THEN "prepare" ELSE "Err"
      /\ UNCHANGED <<parsed, p, prepared, at, validation>>
  BY DEF Validated
<1>2. ProjectsOK' /\ NodesOK' /\ RefsOK' /\ EdgesOK'
  BY <1>1, ParseKept DEF ProjectsOK, Parsing
<1>3. CallOK'
  BY <1>1, CallRests DEF CallOK, Parsing, validation, vars, parsed
<1>4. BuildInv'
  BY <1>1, <1>2, BuildRests DEF BuildInv, Parsing, NodesOK, Tasks, parsed
<1> QED BY <1>2, <1>3, <1>4

-------------------------------------------------------------------------------
(* prepare_graph                                                           *)

\* What is a sequence over some set.
LEMMA SeqIsSeq ==
  ASSUME NEW S, NEW r \in Seq(S)
  PROVE  IsSeq(r)
<1>1. \A k \in 1..Len(r) : r[k] \in Range(r)
  BY DEF Range
<1>2. r \in Seq(Range(r))
  BY <1>1
<1> QED BY <1>2 DEF IsSeq

\* Two sequences one after the other.
LEMMA CatSeq ==
  ASSUME NEW s, NEW t, IsSeq(s), IsSeq(t)
  PROVE  /\ IsSeq(s \o t) /\ Len(s \o t) = Len(s) + Len(t) /\ Len(s) \in Nat /\ Len(t) \in Nat
         /\ \A k \in 1..Len(s) : (s \o t)[k] = s[k]
         /\ \A k \in 1..Len(t) : (s \o t)[Len(s) + k] = t[k]
<1> DEFINE S == Range(s) \cup Range(t)
<1>1. s \in Seq(S) /\ t \in Seq(S)
  BY DEF IsSeq
<1> HIDE DEF S
<1>2. s \o t \in Seq(S)
  BY <1>1
<1>4. IsSeq(s \o t)
  BY <1>2, SeqIsSeq
<1>5. Len(s \o t) = Len(s) + Len(t) /\ Len(s) \in Nat /\ Len(t) \in Nat
  BY <1>1
<1>6. ASSUME NEW k \in 1..Len(s) PROVE (s \o t)[k] = s[k]
  BY <1>1, <1>6
<1>7. ASSUME NEW k \in 1..Len(t) PROVE (s \o t)[Len(s) + k] = t[k]
  <2>1. Len(s) + k \in 1..(Len(s) + Len(t)) /\ ~(Len(s) + k <= Len(s)) /\ (Len(s) + k) - Len(s) = k
    BY <1>5, <1>7
  <2> QED BY <1>1, <2>1
<1> QED BY <1>4, <1>5, <1>6, <1>7

\* A sequence of one element.
LEMMA OneSeq ==
  ASSUME NEW e
  PROVE  IsSeq(<<e>>) /\ Len(<<e>>) = 1 /\ <<e>>[1] = e
<1>1. e \in Range(<<e>>)
  BY DEF Range
<1> QED BY <1>1 DEF IsSeq

\* Appending an element.
LEMMA AppendIsCat ==
  ASSUME NEW s, NEW e, IsSeq(s)
  PROVE  Append(s, e) = s \o <<e>>
<1>1. s \in Seq(Range(s) \cup {e}) /\ <<e>> \in Seq(Range(s) \cup {e})
  BY DEF IsSeq
<1> QED BY <1>1

\* create_tasks makes at least one action of a task, and only of this one.
LEMMA ActionsMade ==
  ASSUME NEW command, NEW task, NEW actions, WordedCommand(command),
         actions = CreateTasks(task, CreateCompilations(command))
  PROVE  /\ IsSeq(actions) /\ Len(actions) \in Nat \ {0}
         /\ \A k \in 1..Len(actions) :
              actions[k].task = task /\ actions[k].kind \in {"exec", "compile"}
<1>1. PICK tasks : tasks = CreateCompilations(command).tasks
  OBVIOUS
<1>2. IsSeq(tasks)
  <2>1. Made(command.program.name, WordsOf(command), tasks)
    BY <1>1, CommandCompiles
  <2> QED BY <2>1 DEF Made
<1>3. CASE tasks = <<>>
  <2>1. actions = <<Node(task, "exec", Nothing)>>
    BY <1>1, <1>3 DEF CreateTasks
  <2> QED BY <2>1, OneSeq DEF Node
<1>4. CASE tasks # <<>>
  <2>1. Len(tasks) \in Nat \ {0} /\ DOMAIN tasks = 1..Len(tasks)
    BY <1>2, <1>4 DEF IsSeq
  <2>2. actions = [k \in 1..Len(tasks) |-> Node(task, "compile", tasks[k])]
    BY <1>1, <1>4, <2>1 DEF CreateTasks, Compiles
  <2>3. \A k \in 1..Len(tasks) : actions[k] \in Range(actions)
    BY <2>2 DEF Range
  <2>4. actions \in Seq(Range(actions)) /\ Len(actions) = Len(tasks)
    BY <2>1, <2>2, <2>3
  <2> QED BY <2>1, <2>2, <2>4 DEF IsSeq, Node
<1> QED BY <1>3, <1>4

\* What an iteration of the first loop adds to a task's place: m actions after
\* g group nodes.
Extended(g, m) ==
  LET size == Len(build)
      node == Len(remap) + 1
  IN /\ g = 0 => m = 1
     /\ IsSeq(build') /\ depends' \in Seq(Nat) /\ remap' \in Seq(Nat)
     /\ Len(build') = size + g + m /\ Len(depends') = size + g + m /\ Len(remap') = node
     /\ \A n \in 1..size : build'[n] = build[n] /\ depends'[n] = depends[n]
     /\ \A k \in 1..Len(remap) : remap'[k] = remap[k]
     /\ remap'[node] = size + 1
     /\ g = 1 => /\ depends'[size + 1] = End
                 /\ build'[size + 1].task = xg[node] /\ build'[size + 1].kind = "empty"
     /\ \A n \in (size + g + 1)..(size + g + m) :
          /\ depends'[n] = node
          /\ build'[n].task = xg[node] /\ build'[n].kind \in {"exec", "compile"}
     /\ buildEdges' = buildEdges \cup
          (IF g = 1 THEN {size + 1} \X ((size + 2)..(size + 1 + m)) ELSE {})

\* They are the actions of a command.
AddedFor(g, m) ==
  \E command \in Commands(Len(xg)) :
    LET actions == CreateTasks(xg[Len(remap) + 1], CreateCompilations(command))
    IN /\ commands' = Append(commands, command) /\ m = Len(actions)
       /\ \A j \in 1..m : build'[Len(build) + g + j] = actions[j]

\* Either a node, or a group node and its actions, are added at the end.
LEMMA PrepareExtends ==
  ASSUME PrepInv, Worded(Len(xg)), Prepare
  PROVE  \E g \in {0, 1}, m \in Nat \ {0} : Extended(g, m) /\ AddedFor(g, m)
<1> DEFINE size == Len(build)
           node == Len(remap) + 1
<1>1. /\ pc = "prepare" /\ at = node /\ IsSeq(build) /\ depends \in Seq(Nat) /\ remap \in Seq(Nat)
      /\ Len(depends) = size /\ size \in Nat /\ node \in Nat
  BY DEF PrepInv, BuildInv, SizesOK, Prepare, IsSeq
<1>2. PICK command \in Commands(Len(xg)) :
        /\ commands' = Append(commands, command)
        /\ LET actions == CreateTasks(xg[at], CreateCompilations(command))
           IN IF Len(actions) = 1
             THEN /\ depends' = Append(depends, node)
                  /\ remap' = Append(remap, size + 1)
                  /\ build' = build \o actions
                  /\ buildEdges' = buildEdges
             ELSE /\ depends' = depends \o DependsOfGroup(node, Len(actions))
                  /\ remap' = Append(remap, RemapGroup(size + 1, Len(actions)))
                  /\ build' = Append(build, Node(xg[at], "empty", Nothing)) \o actions
                  /\ buildEdges' = buildEdges \cup GroupEdges(size + 1, Len(actions))
  BY DEF Prepare
<1>3. PICK actions : actions = CreateTasks(xg[at], CreateCompilations(command))
  OBVIOUS
<1>4. /\ IsSeq(actions) /\ Len(actions) \in Nat \ {0}
      /\ \A k \in 1..Len(actions) :
           actions[k].task = xg[at] /\ actions[k].kind \in {"exec", "compile"}
  <2>1. WordedCommand(command)
    BY DEF Worded, WordedCommand
  <2> QED BY <1>3, <2>1, ActionsMade
<1>5. remap' = Append(remap, size + 1)
  BY <1>2, <1>3 DEF RemapGroup
<1>6. /\ remap' \in Seq(Nat) /\ Len(remap') = node /\ remap'[node] = size + 1
      /\ \A k \in 1..Len(remap) : remap'[k] = remap[k]
  BY <1>1, <1>5
<1>7. CASE Len(actions) = 1
  <2>1. depends' = Append(depends, node) /\ build' = build \o actions /\ buildEdges' = buildEdges
    BY <1>2, <1>3, <1>7
  <2>2. /\ depends' \in Seq(Nat) /\ Len(depends') = size + 1 /\ depends'[size + 1] = node
        /\ \A n \in 1..size : depends'[n] = depends[n]
    BY <1>1, <2>1
  <2>3. /\ IsSeq(build') /\ Len(build') = size + 1 /\ build'[size + 1] = actions[1]
        /\ \A n \in 1..size : build'[n] = build[n]
    <3>1. PICK b : b = build \o actions
      OBVIOUS
    <3>2. /\ IsSeq(b) /\ Len(b) = Len(build) + Len(actions)
          /\ \A n \in 1..Len(build) : b[n] = build[n]
          /\ \A k \in 1..Len(actions) : b[Len(build) + k] = actions[k]
      BY <1>1, <1>4, <3>1, CatSeq
    <3> QED BY <1>7, <2>1, <3>1, <3>2
  <2>4. \A n \in (size + 1)..(size + 1) : n = size + 1
    BY <1>1
  <2>5. Extended(0, 1)
    BY <1>1, <1>4, <1>6, <1>7, <2>1, <2>2, <2>3, <2>4 DEF Extended
  <2>6. AddedFor(0, 1)
    <3>1. \A j \in 1..1 : j = 1
      OBVIOUS
    <3>2. \A j \in 1..1 : build'[size + 0 + j] = actions[j]
      BY <1>1, <2>3, <3>1
    <3>3. commands' = Append(commands, command) /\ actions = CreateTasks(xg[node], CreateCompilations(command))
      BY <1>1, <1>2, <1>3
    <3> QED BY <1>7, <3>2, <3>3 DEF AddedFor
  <2> QED BY <2>5, <2>6
<1>8. CASE Len(actions) # 1
  <2>0. PICK m \in Nat \ {0} : m = Len(actions)
    BY <1>4
  <2> DEFINE head == <<Node(xg[at], "empty", Nothing)>>
  <2>1. /\ depends' = depends \o DependsOfGroup(node, m)
        /\ build' = Append(build, Node(xg[at], "empty", Nothing)) \o actions
        /\ buildEdges' = buildEdges \cup GroupEdges(size + 1, m)
    BY <1>2, <1>3, <1>8, <2>0
  <2>2. /\ depends' \in Seq(Nat) /\ Len(depends') = size + 1 + m /\ depends'[size + 1] = End
        /\ \A n \in 1..size : depends'[n] = depends[n]
        /\ \A n \in (size + 2)..(size + 1 + m) : depends'[n] = node
    <3>1. PICK rest : rest = [j \in 1..m |-> node]
      OBVIOUS
    <3>2. IsSeq(rest) /\ Len(rest) = m /\ rest \in Seq(Nat) /\ \A j \in 1..m : rest[j] = node
      <4>1. \A j \in 1..m : rest[j] \in Range(rest)
        BY <3>1 DEF Range
      <4> QED BY <1>1, <3>1, <4>1 DEF IsSeq
    <3>3. PICK group : group = <<End>> \o rest
      OBVIOUS
    <3>4. /\ IsSeq(group) /\ Len(group) = 1 + m /\ group[1] = End /\ group \in Seq(Nat)
          /\ \A j \in 1..m : group[1 + j] = node
      <4>1. IsSeq(<<End>>) /\ Len(<<End>>) = 1 /\ <<End>>[1] = End
        BY OneSeq
      <4>2. group \in Seq(Nat)
        BY <3>2, <3>3 DEF End
      <4>3. /\ IsSeq(group) /\ Len(group) = Len(<<End>>) + Len(rest)
            /\ \A k \in 1..Len(<<End>>) : group[k] = <<End>>[k]
            /\ \A k \in 1..Len(rest) : group[Len(<<End>>) + k] = rest[k]
        BY <3>2, <3>3, <4>1, CatSeq
      <4>4. Len(group) = 1 + m /\ group[1] = End
        BY <3>2, <4>1, <4>3
      <4>5. ASSUME NEW j \in 1..m PROVE group[1 + j] = node
        BY <3>2, <4>1, <4>3, <4>5
      <4> QED BY <4>2, <4>3, <4>4, <4>5
    <3>5. IsSeq(depends)
      BY <1>1, SeqIsSeq
    <3>6. PICK d : d = depends \o group
      OBVIOUS
    <3>7. depends' = d /\ d \in Seq(Nat)
      BY <1>1, <2>1, <3>1, <3>3, <3>4, <3>6 DEF DependsOfGroup
    <3>8. /\ Len(d) = size + (1 + m)
          /\ \A n \in 1..size : d[n] = depends[n]
          /\ \A k \in 1..(1 + m) : d[size + k] = group[k]
      <4>1. IsSeq(group) /\ Len(group) = 1 + m /\ Len(depends) = size
        BY <1>1, <3>4
      <4>2. /\ Len(depends \o group) = Len(depends) + Len(group)
            /\ \A n \in 1..Len(depends) : (depends \o group)[n] = depends[n]
            /\ \A k \in 1..Len(group) : (depends \o group)[Len(depends) + k] = group[k]
        BY <3>5, <4>1, CatSeq
      <4> QED BY <3>6, <4>1, <4>2
    <3>9. d[size + 1] = End
      BY <3>4, <3>8
    <3>10. ASSUME NEW n \in (size + 2)..(size + 1 + m) PROVE d[n] = node
      <4>1. n - (size + 1) \in 1..m /\ 1 + (n - (size + 1)) \in 1..(1 + m) /\ size + (1 + (n - (size + 1))) = n
        BY <1>1, <3>10
      <4> QED BY <3>4, <3>8, <4>1
    <3> QED BY <1>1, <3>7, <3>8, <3>9, <3>10
  <2>3. /\ IsSeq(build') /\ Len(build') = size + 1 + m
        /\ build'[size + 1] = Node(xg[at], "empty", Nothing)
        /\ \A n \in 1..size : build'[n] = build[n]
        /\ \A n \in (size + 2)..(size + 1 + m) : build'[n] = actions[n - (size + 1)]
    <3>1. PICK first : first = build \o head
      OBVIOUS
    <3>2. IsSeq(head) /\ Len(head) = 1 /\ head[1] = Node(xg[at], "empty", Nothing)
      BY OneSeq
    <3>3. Append(build, Node(xg[at], "empty", Nothing)) = first
      BY <1>1, <3>1, AppendIsCat
    <3>4. /\ IsSeq(first) /\ Len(first) = size + 1 /\ first[size + 1] = Node(xg[at], "empty", Nothing)
          /\ \A n \in 1..size : first[n] = build[n]
      <4> HIDE DEF head
      <4>1. /\ IsSeq(build \o head) /\ Len(build \o head) = Len(build) + Len(head)
            /\ \A n \in 1..Len(build) : (build \o head)[n] = build[n]
            /\ \A k \in 1..Len(head) : (build \o head)[Len(build) + k] = head[k]
        <5>1. IsSeq(build) /\ IsSeq(head)
          BY <1>1, <3>2
        <5> QED BY <5>1, CatSeq
      <4> QED BY <1>1, <3>1, <3>2, <4>1
    <3>5. build' = first \o actions
      BY <2>1, <3>3
    <3>6. /\ IsSeq(build') /\ Len(build') = Len(first) + Len(actions)
          /\ \A n \in 1..Len(first) : build'[n] = first[n]
          /\ \A k \in 1..Len(actions) : build'[Len(first) + k] = actions[k]
      <4>1. /\ IsSeq(first \o actions) /\ Len(first \o actions) = Len(first) + Len(actions)
            /\ \A n \in 1..Len(first) : (first \o actions)[n] = first[n]
            /\ \A k \in 1..Len(actions) : (first \o actions)[Len(first) + k] = actions[k]
        <5>1. IsSeq(first) /\ IsSeq(actions)
          BY <1>4, <3>4
        <5> QED BY <5>1, CatSeq
      <4> QED BY <3>5, <4>1
    <3>7. ASSUME NEW n \in (size + 2)..(size + 1 + m) PROVE build'[n] = actions[n - (size + 1)]
      <4>1. n - (size + 1) \in 1..Len(actions) /\ Len(first) + (n - (size + 1)) = n
        BY <1>1, <2>0, <3>4, <3>7
      <4> QED BY <3>6, <4>1
    <3> QED BY <1>1, <2>0, <3>4, <3>6, <3>7
  <2>4. GroupEdges(size + 1, m) = {size + 1} \X ((size + 2)..(size + 1 + m))
    <3>1. ASSUME NEW y \in (size + 2)..(size + 1 + m)
          PROVE  y - (size + 1) \in 1..m /\ size + 1 + (y - (size + 1)) = y
      BY <1>1, <3>1
    <3>2. \A j \in 1..m : size + 1 + j \in (size + 2)..(size + 1 + m)
      BY <1>1, <1>4
    <3>3. ASSUME NEW e \in GroupEdges(size + 1, m)
          PROVE  e \in {size + 1} \X ((size + 2)..(size + 1 + m))
      <4>1. PICK j \in 1..m : e = <<size + 1, size + 1 + j>>
        BY <3>3 DEF GroupEdges
      <4> QED BY <3>2, <4>1
    <3>4. ASSUME NEW e \in {size + 1} \X ((size + 2)..(size + 1 + m))
          PROVE  e \in GroupEdges(size + 1, m)
      <4>1. PICK y \in (size + 2)..(size + 1 + m) : e = <<size + 1, y>>
        BY <3>4
      <4>2. e = <<size + 1, size + 1 + (y - (size + 1))>> /\ y - (size + 1) \in 1..m
        BY <3>1, <4>1
      <4> QED BY <4>2 DEF GroupEdges
    <3> QED BY <3>3, <3>4
  <2>5. \A n \in (size + 2)..(size + 1 + m) : n - (size + 1) \in 1..m
    BY <1>1, <1>4
  <2>6. Extended(1, m)
    <3>1. ASSUME NEW n \in (size + 1 + 1)..(size + 1 + m)
          PROVE  /\ depends'[n] = node
                 /\ build'[n].task = xg[node] /\ build'[n].kind \in {"exec", "compile"}
      <4>1. n \in (size + 2)..(size + 1 + m) /\ n - (size + 1) \in 1..Len(actions)
        BY <1>1, <2>0, <2>5, <3>1
      <4>2. build'[n] = actions[n - (size + 1)] /\ depends'[n] = node
        BY <2>2, <2>3, <4>1
      <4> QED BY <1>1, <1>4, <4>1, <4>2
    <3>2. /\ build'[size + 1].task = xg[node] /\ build'[size + 1].kind = "empty"
          /\ depends'[size + 1] = End
      BY <1>1, <2>2, <2>3 DEF Node
    <3>3. buildEdges' = buildEdges \cup ({size + 1} \X ((size + 2)..(size + 1 + m)))
      BY <2>1, <2>4
    <3> QED BY <1>1, <1>6, <2>2, <2>3, <3>1, <3>2, <3>3 DEF Extended
  <2>7. AddedFor(1, m)
    <3>1. ASSUME NEW j \in 1..m PROVE build'[size + 1 + j] = actions[j]
      <4>1. size + 1 + j \in (size + 2)..(size + 1 + m) /\ (size + 1 + j) - (size + 1) = j
        BY <1>1, <3>1
      <4> QED BY <2>3, <4>1
    <3>2. commands' = Append(commands, command) /\ actions = CreateTasks(xg[node], CreateCompilations(command))
      BY <1>1, <1>2, <1>3
    <3> QED BY <2>0, <3>1, <3>2 DEF AddedFor
  <2> QED BY <2>6, <2>7
<1> QED BY <1>7, <1>8

\* A task that is added disturbs none of the tasks before it.
LEMMA ExtendedOK ==
  ASSUME BuildInv, pc = "prepare", pc' = "prepare", at' = at + 1, xg' = xg, Len(xg) \in Nat,
         at <= Len(xg), NEW g \in {0, 1}, NEW m \in Nat \ {0}, Extended(g, m)
  PROVE  BuildInv'
<1>1. PICK size \in Nat : size = Len(build) /\ DOMAIN build = 1..size
  BY DEF BuildInv, SizesOK, IsSeq
<1>2. PICK old \in Nat : old = Len(remap) /\ DOMAIN remap = 1..old /\ at = old + 1
  BY DEF BuildInv, SizesOK
<1>3. /\ IsSeq(build') /\ depends' \in Seq(Nat) /\ remap' \in Seq(Nat) /\ (g = 0 => m = 1)
      /\ Len(build') = size + g + m /\ Len(depends') = size + g + m /\ Len(remap') = old + 1
  BY <1>1, <1>2 DEF Extended
<1>4. DOMAIN build' = 1..(size + g + m) /\ DOMAIN remap' = 1..(old + 1)
  BY <1>3 DEF IsSeq
<1>5. /\ \A n \in 1..size : build'[n] = build[n] /\ depends'[n] = depends[n]
      /\ \A k \in 1..old : remap'[k] = remap[k]
      /\ remap'[old + 1] = size + 1
      /\ g = 1 => /\ depends'[size + 1] = End
                  /\ build'[size + 1].task = xg[old + 1] /\ build'[size + 1].kind = "empty"
      /\ \A n \in (size + g + 1)..(size + g + m) :
           /\ depends'[n] = old + 1
           /\ build'[n].task = xg[old + 1] /\ build'[n].kind \in {"exec", "compile"}
  BY <1>1, <1>2 DEF Extended
<1>6. buildEdges' = buildEdges \cup
        (IF g = 1 THEN {size + 1} \X ((size + 2)..(size + 1 + m)) ELSE {})
  BY <1>1 DEF Extended
<1>7. \A n \in DOMAIN build' :
        n \in 1..size \/ (g = 1 /\ n = size + 1) \/ n \in (size + g + 1)..(size + g + m)
  BY <1>4
<1>8. \A k \in DOMAIN remap' : k \in 1..old \/ k = old + 1
  BY <1>4
<1>9. /\ \A n \in 1..size : depends[n] \in 0..old
      /\ \A k \in 1..old : remap[k] \in 1..size
  BY <1>1, <1>2 DEF BuildInv, ActionsOK, RemapOK
<1>10. SizesOK'
  BY <1>2, <1>3 DEF SizesOK, Parsing
<1>11. ActionsOK'
  <2> SUFFICES ASSUME NEW n \in DOMAIN build'
               PROVE  /\ depends'[n] \in 0..Len(remap')
                      /\ build'[n].kind \in {"empty", "exec", "compile"}
                      /\ depends'[n] # End =>
                           /\ build'[n].kind # "empty" /\ build'[n].task = xg[depends'[n]]
                           /\ remap'[depends'[n]] = n \/ depends'[remap'[depends'[n]]] = End
                      /\ depends'[n] = End =>
                           build'[n].kind = "empty" /\ \E k \in DOMAIN remap' : remap'[k] = n
    BY DEF ActionsOK, Real
  <2>1. CASE n \in 1..size
    <3>1. /\ depends[n] \in 0..old
          /\ build[n].kind \in {"empty", "exec", "compile"}
          /\ depends[n] # End =>
               /\ build[n].kind # "empty" /\ build[n].task = xg[depends[n]]
               /\ remap[depends[n]] = n \/ depends[remap[depends[n]]] = End
          /\ depends[n] = End => build[n].kind = "empty" /\ \E k \in 1..old : remap[k] = n
      BY <1>1, <1>2, <2>1 DEF BuildInv, ActionsOK, Real
    <3>2. build'[n] = build[n] /\ depends'[n] = depends[n] /\ depends[n] \in 0..Len(remap')
      BY <1>3, <1>5, <2>1, <3>1, SMTT(30)
    <3>3. CASE depends[n] # End
      <4>1. depends[n] \in 1..old
        BY <3>1, <3>3 DEF End
      <4>2. remap'[depends[n]] = remap[depends[n]] /\ remap[depends[n]] \in 1..size
        BY <1>5, <1>9, <4>1
      <4>3. depends'[remap[depends[n]]] = depends[remap[depends[n]]]
        BY <1>5, <4>2
      <4> QED BY <3>1, <3>2, <3>3, <4>2, <4>3
    <3>4. CASE depends[n] = End
      <4>1. PICK k \in 1..old : remap[k] = n
        BY <3>1, <3>4
      <4>2. k \in DOMAIN remap' /\ remap'[k] = n
        BY <1>4, <1>5, <4>1
      <4> QED BY <3>1, <3>2, <3>4, <4>2
    <3> QED BY <3>3, <3>4
  <2>2. CASE g = 1 /\ n = size + 1
    <3>1. old + 1 \in DOMAIN remap' /\ 0 \in 0..Len(remap')
      BY <1>3, <1>4
    <3> QED BY <1>5, <2>2, <3>1 DEF End
  <2>3. CASE n \in (size + g + 1)..(size + g + m)
    <3>1. depends'[n] = old + 1 /\ old + 1 # End /\ old + 1 \in 0..Len(remap') /\ remap'[old + 1] = size + 1
      BY <1>3, <1>5, <2>3 DEF End
    <3>2. n = size + 1 \/ g = 1
      BY <1>3, <2>3
    <3>3. build'[n].task = xg[old + 1] /\ build'[n].kind \in {"exec", "compile"}
      BY <1>5, <2>3
    <3>4. g = 1 => depends'[size + 1] = End
      BY <1>5
    <3> QED BY <3>1, <3>2, <3>3, <3>4
  <2> QED BY <1>7, <2>1, <2>2, <2>3
<1>12. RemapOK'
  <2>1. ASSUME NEW k \in DOMAIN remap'
        PROVE  /\ remap'[k] \in DOMAIN build' /\ depends'[remap'[k]] \in {k, End}
               /\ build'[remap'[k]].task = xg[k]
               /\ \E n \in DOMAIN build' : depends'[n] = k
    <3>1. CASE k \in 1..old
      <4>1. /\ remap[k] \in 1..size /\ depends[remap[k]] \in {k, End} /\ build[remap[k]].task = xg[k]
            /\ \E n \in 1..size : depends[n] = k
        BY <1>1, <1>2, <3>1 DEF BuildInv, RemapOK
      <4>2. 1..size \subseteq DOMAIN build'
        BY <1>4
      <4> QED BY <1>5, <3>1, <4>1, <4>2, SMTT(30)
    <3>2. CASE k = old + 1
      <4>1. /\ remap'[k] = size + 1 /\ size + 1 \in DOMAIN build'
            /\ size + g + 1 \in DOMAIN build' /\ size + g + 1 \in (size + g + 1)..(size + g + m)
        BY <1>4, <1>5, <3>2
      <4>2. depends'[size + g + 1] = k /\ build'[size + g + 1].task = xg[k]
        BY <1>5, <3>2, <4>1
      <4>3. g = 0 => size + g + 1 = size + 1
        OBVIOUS
      <4>4. depends'[size + 1] \in {k, End} /\ build'[size + 1].task = xg[k]
        BY <1>5, <3>2, <4>2, <4>3
      <4> QED BY <4>1, <4>2, <4>4
    <3> QED BY <1>8, <2>1, <3>1, <3>2
  <2>2. ASSUME NEW j \in DOMAIN remap', NEW k \in DOMAIN remap', remap'[j] = remap'[k] PROVE j = k
    <3>1. \A l \in 1..old : remap'[l] = remap[l] /\ remap[l] # size + 1
      BY <1>5, <1>9
    <3>2. \A a, b \in 1..old : remap[a] = remap[b] => a = b
      BY <1>2 DEF BuildInv, RemapOK
    <3> QED BY <1>5, <1>8, <2>2, <3>1, <3>2
  <2> QED BY <2>1, <2>2 DEF RemapOK
<1>13. BuildEdgesOK'
  <2>1. buildEdges' \subseteq (DOMAIN build') \X (DOMAIN build')
    <3>1. /\ 1..size \subseteq DOMAIN build'
          /\ g = 1 => size + 1 \in DOMAIN build' /\ (size + 2)..(size + 1 + m) \subseteq DOMAIN build'
      BY <1>4
    <3>2. buildEdges \subseteq (1..size) \X (1..size)
      BY <1>1 DEF BuildInv, BuildEdgesOK
    <3> QED BY <1>6, <3>1, <3>2
  <2>2. ASSUME NEW x \in DOMAIN build', NEW y \in DOMAIN build'
        PROVE  <<x, y>> \in buildEdges' <=>
                 \E k \in DOMAIN remap' : remap'[k] = x /\ depends'[x] = End /\ depends'[y] = k
    <3>0. /\ x \in Int /\ y \in Int
          /\ <<x, y>> \in buildEdges <=>
               /\ x \in 1..size /\ y \in 1..size
               /\ \E k \in 1..old : remap[k] = x /\ depends[x] = End /\ depends[y] = k
      <4>1. x \in Int /\ y \in Int
        BY <1>4
      <4>2. <<x, y>> \in buildEdges => x \in 1..size /\ y \in 1..size
        BY <1>1 DEF BuildInv, BuildEdgesOK
      <4>3. x \in 1..size /\ y \in 1..size =>
              (<<x, y>> \in buildEdges <=>
                 \E k \in 1..old : remap[k] = x /\ depends[x] = End /\ depends[y] = k)
        BY <1>1, <1>2, SMTT(30) DEF BuildInv, BuildEdgesOK, Groups
      <4> QED BY <4>1, <4>2, <4>3
    <3>1. CASE x \in 1..size /\ y \in 1..size
      <4>1. <<x, y>> \in buildEdges' <=> <<x, y>> \in buildEdges
        BY <1>6, <3>1
      <4>2. ASSUME NEW k \in DOMAIN remap', remap'[k] = x PROVE k \in 1..old
        BY <1>5, <1>8, <3>1, <4>2
      <4>3. 1..old \subseteq DOMAIN remap'
        BY <1>4
      <4> QED BY <1>5, <3>0, <3>1, <4>1, <4>2, <4>3
    <3>2. CASE x \in 1..size /\ ~(y \in 1..size)
      <4>1. <<x, y>> \notin buildEdges'
        BY <1>6, <3>0, <3>2
      <4>2. depends'[y] = old + 1 \/ depends'[y] = End
        BY <1>5, <1>7, <3>2
      <4>3. ASSUME NEW k \in DOMAIN remap', remap'[k] = x, depends'[y] = k PROVE FALSE
        <5>1. k \in 1..old
          BY <1>5, <1>8, <3>2, <4>3
        <5> QED BY <4>2, <4>3, <5>1 DEF End
      <4> QED BY <4>1, <4>3
    <3>3. CASE ~(x \in 1..size)
      <4>1. <<x, y>> \in buildEdges' <=> g = 1 /\ x = size + 1 /\ y \in (size + 2)..(size + 1 + m)
        BY <1>6, <3>0, <3>3
      <4>2. depends'[x] = End <=> g = 1 /\ x = size + 1
        <5>1. x \in (size + g + 1)..(size + g + m) => depends'[x] = old + 1 /\ ~(g = 1 /\ x = size + 1)
          BY <1>5
        <5>2. old + 1 # End
          BY DEF End
        <5> QED BY <1>5, <1>7, <3>3, <5>1, <5>2
      <4>3. g = 1 => (y \in (size + 2)..(size + 1 + m) <=> depends'[y] = old + 1)
        <5>1. y \in 1..size => depends'[y] # old + 1
          BY <1>5, <1>9
        <5>2. g = 1 => (y \in (size + 2)..(size + 1 + m) <=> y \in (size + g + 1)..(size + g + m))
          OBVIOUS
        <5>3. End # old + 1
          BY DEF End
        <5> QED BY <1>5, <1>7, <5>1, <5>2, <5>3
      <4>4. \A k \in DOMAIN remap' : remap'[k] = x => k = old + 1
        BY <1>5, <1>8, <1>9, <3>3
      <4>5. old + 1 \in DOMAIN remap' /\ remap'[old + 1] = size + 1
        BY <1>4, <1>5
      <4> QED BY <4>1, <4>2, <4>3, <4>4, <4>5
    <3> QED BY <3>1, <3>2, <3>3
  <2> QED BY <2>1, <2>2 DEF BuildEdgesOK, Groups
<1> QED BY <1>10, <1>11, <1>12, <1>13 DEF BuildInv

\* A task is added at the end of the new graph.
LEMMA PrepareOK ==
  ASSUME PrepInv, Worded(Len(xg)), Prepare
  PROVE  PrepInv'
<1>1. /\ pc = "prepare" /\ pc' = pc /\ at <= Len(xg) /\ at' = at + 1
      /\ UNCHANGED <<parsed, p, validation>> /\ UNCHANGED xg /\ Len(xg) \in Nat
  BY DEF Prepare, parsed, PrepInv, ParseInv, NodesOK
<1>2. ProjectsOK' /\ NodesOK' /\ RefsOK' /\ EdgesOK'
  BY <1>1, ParseKept DEF PrepInv, ParseInv, ProjectsOK, Parsing
<1>3. CallOK'
  BY <1>1, CallRests DEF PrepInv, ParseInv, CallOK, Parsing, validation, vars, parsed
<1>4. PICK g \in {0, 1}, m \in Nat \ {0} : Extended(g, m)
  BY PrepareExtends
<1>5. BuildInv'
  BY <1>1, <1>4, ExtendedOK DEF PrepInv
<1> QED BY <1>2, <1>3, <1>5 DEF PrepInv, ParseInv

\* The actions of xg's node k are the nodes of the new graph after first.
Placed(k, first) ==
  LET actions == CreateTasks(xg[k], CreateCompilations(commands[k]))
  IN /\ first + Len(actions) <= Len(build)
     /\ \A n \in DOMAIN build : depends[n] = k <=> n \in (first + 1)..(first + Len(actions))
     /\ \A j \in 1..Len(actions) : build[first + j] = actions[j]

\* Each task that has been through the first loop has the actions of its command.
MadeOK ==
  /\ IsSeq(commands) /\ Len(commands) = Len(remap)
  /\ \A k \in DOMAIN remap :
       WordedCommand(commands[k]) /\ \E first \in Nat : Placed(k, first)

\* Nothing is read yet.
LEMMA MadeInit == PrepareInit => MadeOK
<1> SUFFICES ASSUME PrepareInit PROVE MadeOK
  OBVIOUS
<1>1. commands = <<>> /\ remap = <<>>
  BY DEF PrepareInit
<1>2. DOMAIN remap = {} /\ Len(commands) = 0 /\ Len(remap) = 0
  BY <1>1
<1> QED BY <1>1, <1>2, EmptyIsSeq DEF MadeOK

\* An iteration of the first loop adds the actions of a command.
LEMMA MadeNext ==
  ASSUME PrepInv, MadeOK, Worded(Len(xg)), Prepare
  PROVE  MadeOK'
<1>1. PICK g \in {0, 1}, m \in Nat \ {0} : Extended(g, m) /\ AddedFor(g, m)
  BY PrepareExtends
<1>2. PICK size \in Nat : size = Len(build) /\ DOMAIN build = 1..size
  <2>1. IsSeq(build)
    BY Zenon DEF PrepInv, BuildInv, SizesOK
  <2> QED BY <2>1, SeqDomain
<1>3. PICK old \in Nat : /\ old = Len(remap) /\ DOMAIN remap = 1..old
                         /\ \A n \in 1..size : depends[n] \in 0..old
  <2>1. Len(remap) \in Nat /\ DOMAIN remap = 1..Len(remap)
    BY DEF PrepInv, BuildInv, SizesOK
  <2>2. \A n \in 1..size : depends[n] \in 0..Len(remap)
    BY <1>2 DEF PrepInv, BuildInv, ActionsOK
  <2> QED BY <2>1, <2>2, Zenon
<1>4. xg' = xg
  BY DEF Prepare, parsed
<1>5. /\ DOMAIN build' = 1..(size + g + m) /\ DOMAIN remap' = 1..(old + 1) /\ Len(remap') = old + 1
      /\ Len(build') = size + g + m
      /\ \A n \in 1..size : build'[n] = build[n] /\ depends'[n] = depends[n]
      /\ g = 1 => depends'[size + 1] = 0
      /\ \A n \in (size + g + 1)..(size + g + m) : depends'[n] = old + 1
  <2>1. /\ IsSeq(build') /\ remap' \in Seq(Nat) /\ Len(build') = size + g + m /\ Len(remap') = old + 1
        /\ \A n \in 1..size : build'[n] = build[n] /\ depends'[n] = depends[n]
        /\ g = 1 => depends'[size + 1] = 0
        /\ \A n \in (size + g + 1)..(size + g + m) : depends'[n] = old + 1
    BY <1>1, <1>2, <1>3, Zenon DEF Extended, End
  <2>2. DOMAIN build' = 1..Len(build')
    BY <2>1, SeqDomain, Zenon
  <2>3. DOMAIN remap' = 1..Len(remap')
    BY <2>1
  <2> QED BY <2>1, <2>2, <2>3
<1>6. PICK command \in Commands(Len(xg)) :
        LET actions == CreateTasks(xg[old + 1], CreateCompilations(command))
        IN /\ commands' = Append(commands, command) /\ m = Len(actions)
           /\ \A j \in 1..m : build'[size + g + j] = actions[j]
  BY <1>1, <1>2, <1>3 DEF AddedFor
<1>7. /\ IsSeq(commands') /\ Len(commands') = old + 1 /\ commands'[old + 1] = command
      /\ \A k \in 1..old : commands'[k] = commands[k]
  <2>1. IsSeq(commands) /\ Len(commands) = old
    BY <1>3 DEF MadeOK
  <2>2. PICK c : c = commands \o <<command>>
    OBVIOUS
  <2>3. IsSeq(<<command>>) /\ Len(<<command>>) = 1 /\ <<command>>[1] = command
    BY OneSeq
  <2>4. /\ IsSeq(c) /\ Len(c) = Len(commands) + Len(<<command>>)
        /\ \A k \in 1..Len(commands) : c[k] = commands[k]
        /\ \A k \in 1..Len(<<command>>) : c[Len(commands) + k] = <<command>>[k]
    BY <2>1, <2>2, <2>3, CatSeq
  <2>5. commands' = c
    BY <1>6, <2>1, <2>2, AppendIsCat
  <2> QED BY <2>1, <2>3, <2>4, <2>5
<1>8. ASSUME NEW k \in 1..old PROVE WordedCommand(commands'[k]) /\ \E first \in Nat : Placed(k, first)'
  <2>1. PICK first \in Nat : Placed(k, first)
    BY <1>3 DEF MadeOK
  <2>2. WordedCommand(commands'[k])
    BY <1>3, <1>7 DEF MadeOK
  <2>3. PICK actions : actions = CreateTasks(xg[k], CreateCompilations(commands[k]))
    OBVIOUS
  <2>4. PICK l \in Nat : l = Len(actions)
    <3>1. PICK tasks : tasks = CreateCompilations(commands[k]).tasks
      OBVIOUS
    <3>2. IsSeq(actions)
      <4>1. WordedCommand(commands[k])
        BY <1>3 DEF MadeOK
      <4> QED BY <2>3, <4>1, ActionsMade
    <3> QED BY <3>2, SeqDomain
  <2>5. /\ first + l <= size
        /\ \A n \in 1..size : depends[n] = k <=> n \in (first + 1)..(first + l)
        /\ \A j \in 1..l : build[first + j] = actions[j]
    BY <1>2, <2>1, <2>3, <2>4 DEF Placed
  <2>6. ASSUME NEW n \in 1..(size + g + m) PROVE depends'[n] = k <=> n \in (first + 1)..(first + l)
    <3>1. CASE n \in 1..size
      BY <1>5, <2>5, <3>1
    <3>2. CASE n \notin 1..size
      <4>1. n \notin (first + 1)..(first + l)
        BY <2>5, <3>2
      <4>2. depends'[n] # k
        BY <1>5, <3>2
      <4> QED BY <4>1, <4>2
    <3> QED BY <3>1, <3>2
  <2>7. \A j \in 1..l : build'[first + j] = actions[j]
    <3>1. \A j \in 1..l : first + j \in 1..size
      BY <2>5
    <3> QED BY <1>5, <2>5, <3>1
  <2>8. first + l <= size + g + m
    BY <2>5
  <2>9. actions = CreateTasks(xg'[k], CreateCompilations(commands'[k]))
    BY <1>4, <1>7, <2>3
  <2>10. Placed(k, first)'
    BY <1>5, <2>4, <2>6, <2>7, <2>8, <2>9 DEF Placed
  <2> QED BY <2>2, <2>10
<1>9. WordedCommand(commands'[old + 1]) /\ \E first \in Nat : Placed(old + 1, first)'
  <2>1. WordedCommand(command)
    BY DEF Worded, WordedCommand
  <2>2. PICK actions : actions = CreateTasks(xg[old + 1], CreateCompilations(command))
    OBVIOUS
  <2>3. m = Len(actions) /\ \A j \in 1..m : build'[size + g + j] = actions[j]
    BY <1>6, <2>2
  <2>4. PICK first \in Nat : first = size + g
    OBVIOUS
  <2>5. ASSUME NEW n \in 1..(size + g + m) PROVE depends'[n] = old + 1 <=> n \in (first + 1)..(first + m)
    <3>1. CASE n \in 1..size
      <4>1. depends'[n] \in 0..old
        BY <1>3, <1>5, <3>1
      <4> QED BY <2>4, <3>1, <4>1
    <3>2. CASE n \notin 1..size /\ g = 1 /\ n = size + 1
      BY <1>5, <2>4, <3>2
    <3>3. CASE n \in (size + g + 1)..(size + g + m)
      BY <1>5, <2>4, <3>3
    <3> QED BY <3>1, <3>2, <3>3
  <2>6. actions = CreateTasks(xg'[old + 1], CreateCompilations(commands'[old + 1]))
    BY <1>4, <1>7, <2>2
  <2>7. Placed(old + 1, first)'
    BY <1>5, <2>3, <2>4, <2>5, <2>6 DEF Placed
  <2> QED BY <1>7, <2>1, <2>7
<1> QED BY <1>3, <1>5, <1>7, <1>8, <1>9 DEF MadeOK

\* Nothing else changes them.
LEMMA MadeRests ==
  ASSUME MadeOK, UNCHANGED <<commands, remap, depends, build>>, remap = <<>> \/ xg' = xg
  PROVE  MadeOK'
<1>1. CASE remap = <<>>
  <2>1. DOMAIN remap' = {}
    BY <1>1
  <2> QED BY <2>1 DEF MadeOK
<1>2. CASE xg' = xg
  <2>1. \A k, first : Placed(k, first)' <=> Placed(k, first)
    BY <1>2 DEF Placed
  <2> QED BY <2>1 DEF MadeOK
<1> QED BY <1>1, <1>2

\* Every step keeps what has been made.
LEMMA MadeStep ==
  ASSUME PrepInv, MadeOK, [PrepareNext]_preparation, \A n \in Nat : Worded(n)
  PROVE  MadeOK'
<1>1. Len(xg) \in Nat
  BY DEF PrepInv, ParseInv, NodesOK
<1>2. CASE Prepare
  BY <1>1, <1>2, MadeNext
<1>3. ASSUME NEW t \in todo, AddNode(t) PROVE MadeOK'
  <2>1. remap = <<>> /\ UNCHANGED prepared
    BY <1>3 DEF AddNode, PrepInv, BuildInv, SizesOK, Parsing
  <2> QED BY <2>1, MadeRests DEF prepared
<1>4. CASE UNCHANGED preparation
  BY <1>4, MadeRests DEF preparation, parsed, prepared
<1>5. CASE PrepareDone
  BY <1>5, MadeRests DEF PrepareDone, preparation, parsed, prepared
<1>6. CASE NextProject \/ NodesAdded \/ EdgesAdded \/ (\E t \in todo : AddEdges(t))
  BY <1>6, MadeRests DEF NextProject, NodesAdded, EdgesAdded, AddEdges, parsed, prepared
<1>7. CASE StartValidate \/ ValidateStep \/ Validated
  BY <1>7, MadeRests DEF StartValidate, ValidateStep, Validated, parsed, prepared
<1>8. CASE Prepared \/ Link \/ Finish
  BY <1>8, MadeRests DEF Prepared, Link, Finish, parsed, prepared
<1> QED BY <1>2, <1>3, <1>4, <1>5, <1>6, <1>7, <1>8 DEF PrepareNext

\* Every task has its node when the second loop begins.
LEMMA PreparedOK ==
  ASSUME PrepInv, Prepared
  PROVE  PrepInv'
<1>1. /\ pc = "prepare" /\ pc' = "link" /\ at > Len(xg) /\ at' = 1
      /\ UNCHANGED <<parsed, p, validation>> /\ UNCHANGED <<xg, xgEdges, remap, depends, build, buildEdges>>
      /\ Len(xg) \in Nat
  BY DEF Prepared, parsed, prepared, PrepInv, ParseInv, NodesOK
<1>2. ProjectsOK' /\ NodesOK' /\ RefsOK' /\ EdgesOK'
  BY <1>1, ParseKept DEF PrepInv, ParseInv, ProjectsOK, Parsing
<1>3. CallOK'
  BY <1>1, CallRests DEF PrepInv, ParseInv, CallOK, Parsing, validation, vars, parsed
<1>4. SizesOK /\ ActionsOK /\ RemapOK /\ BuildEdgesOK
  BY DEF PrepInv, BuildInv
<1>5. SizesOK'
  <2>1. Len(remap) = Len(xg)
    BY <1>1, <1>4 DEF SizesOK
  <2> QED BY <1>1, <1>4, <2>1 DEF SizesOK, IsSeq, Parsing
<1>6. ActionsOK' /\ RemapOK'
  BY <1>1, <1>4 DEF ActionsOK, RemapOK, Real
<1>7. BuildEdgesOK'
  <2>1. \A x \in DOMAIN build : ~(x < 1)
    BY <1>4 DEF SizesOK, IsSeq
  <2>2. \A x, y : Groups(x, y)' <=> Groups(x, y)
    BY <1>1 DEF Groups
  <2> QED BY <1>1, <1>4, <2>1, <2>2 DEF BuildEdgesOK
<1> QED BY <1>2, <1>3, <1>5, <1>6, <1>7 DEF PrepInv, ParseInv, BuildInv

\* A node gets the dependencies of its task.
LEMMA LinkOK ==
  ASSUME PrepInv, Link
  PROVE  PrepInv'
<1>1. /\ pc = "link" /\ pc' = pc /\ at <= Len(depends) /\ at' = at + 1
      /\ buildEdges' = buildEdges \cup
           {<<at, remap[n]>> : n \in Outgoing(DOMAIN xg, xgEdges, depends[at])}
      /\ UNCHANGED <<parsed, p, validation>> /\ UNCHANGED <<xg, xgEdges, remap, depends, build>>
      /\ Len(xg) \in Nat /\ DOMAIN xg = 1..Len(xg)
  BY DEF Link, parsed, PrepInv, ParseInv, NodesOK
<1>2. ProjectsOK' /\ NodesOK' /\ RefsOK' /\ EdgesOK'
  BY <1>1, ParseKept DEF PrepInv, ParseInv, ProjectsOK, Parsing
<1>3. CallOK'
  BY <1>1, CallRests DEF PrepInv, ParseInv, CallOK, Parsing, validation, vars, parsed
<1>4. SizesOK /\ ActionsOK /\ RemapOK /\ BuildEdgesOK
  BY DEF PrepInv, BuildInv
<1>5. SizesOK'
  BY <1>1, <1>4 DEF SizesOK, IsSeq, Parsing
<1>6. ActionsOK' /\ RemapOK'
  BY <1>1, <1>4 DEF ActionsOK, RemapOK, Real
<1>7. /\ at \in DOMAIN build /\ at \in Nat /\ DOMAIN remap = DOMAIN xg
      /\ \A x \in DOMAIN build : x \in Nat
  BY <1>1, <1>4 DEF SizesOK, IsSeq
<1>8. \A x, y : <<x, y>> \in buildEdges' <=> <<x, y>> \in buildEdges \/ (x = at /\ Links(x, y))
  <2>1. ASSUME NEW x, NEW y
        PROVE  <<x, y>> \in {<<at, remap[n]>> : n \in Outgoing(DOMAIN xg, xgEdges, depends[at])}
                 <=> x = at /\ Links(x, y)
    <3>1. \A n : n \in Outgoing(DOMAIN xg, xgEdges, depends[at])
                   <=> n \in DOMAIN xg /\ <<depends[at], n>> \in xgEdges
      BY DEF Outgoing
    <3>2. ASSUME NEW n PROVE <<x, y>> = <<at, remap[n]>> <=> x = at /\ remap[n] = y
      OBVIOUS
    <3> QED BY <3>1, <3>2 DEF Links
  <2> QED BY <1>1, <2>1
<1>9. BuildEdgesOK'
  <2>1. buildEdges' \subseteq (DOMAIN build) \X (DOMAIN build)
    <3>1. \A n \in DOMAIN xg : remap[n] \in DOMAIN build
      BY <1>4, <1>7 DEF RemapOK
    <3>2. ASSUME NEW n \in Outgoing(DOMAIN xg, xgEdges, depends[at])
          PROVE  <<at, remap[n]>> \in (DOMAIN build) \X (DOMAIN build)
      BY <1>7, <3>1, <3>2 DEF Outgoing
    <3>3. buildEdges \subseteq (DOMAIN build) \X (DOMAIN build)
      BY <1>4 DEF BuildEdgesOK
    <3> QED BY <1>1, <3>2, <3>3
  <2>2. \A x, y : (Groups(x, y)' <=> Groups(x, y)) /\ (Links(x, y)' <=> Links(x, y))
    BY <1>1 DEF Groups, Links
  <2>3. \A x \in DOMAIN build : x < at' <=> x < at \/ x = at
    BY <1>1, <1>7
  <2>4. \A x, y \in DOMAIN build : <<x, y>> \in buildEdges <=> Groups(x, y) \/ (x < at /\ Links(x, y))
    BY <1>1, <1>4 DEF BuildEdgesOK
  <2> QED BY <1>1, <1>8, <2>1, <2>2, <2>3, <2>4 DEF BuildEdgesOK
<1> QED BY <1>2, <1>3, <1>5, <1>6, <1>9 DEF PrepInv, ParseInv, BuildInv

\* The second check ends the preparation.
LEMMA FinishOK ==
  ASSUME PrepInv, Finish
  PROVE  PrepInv'
<1>1. /\ pc = "link" /\ pc' \in {"Ok", "Err"} /\ at > Len(depends) /\ at' = at
      /\ UNCHANGED <<parsed, p, validation>>
      /\ UNCHANGED <<xg, xgEdges, remap, depends, build, buildEdges>>
  BY DEF Finish, parsed, prepared
<1>2. ProjectsOK' /\ NodesOK' /\ RefsOK' /\ EdgesOK'
  BY <1>1, ParseKept DEF PrepInv, ParseInv, ProjectsOK, Parsing
<1>3. CallOK'
  BY <1>1, CallRests DEF PrepInv, ParseInv, CallOK, Parsing, validation, vars, parsed
<1>4. SizesOK /\ ActionsOK /\ RemapOK /\ BuildEdgesOK
  BY DEF PrepInv, BuildInv
<1>5. SizesOK'
  BY <1>1, <1>4 DEF SizesOK, IsSeq, Parsing
<1>6. ActionsOK' /\ RemapOK'
  BY <1>1, <1>4 DEF ActionsOK, RemapOK, Real
<1>7. BuildEdgesOK'
  <2>1. \A x, y : (Groups(x, y)' <=> Groups(x, y)) /\ (Links(x, y)' <=> Links(x, y))
    BY <1>1 DEF Groups, Links
  <2> QED BY <1>1, <1>4, <2>1 DEF BuildEdgesOK
<1> QED BY <1>2, <1>3, <1>5, <1>6, <1>7 DEF PrepInv, ParseInv, BuildInv

\* Nothing happens.
LEMMA PrepareRestOK ==
  ASSUME PrepInv, UNCHANGED preparation
  PROVE  PrepInv'
<1> USE DEF PrepInv, ParseInv
<1>1. UNCHANGED <<projects, xg, xgEdges, refs, pc, p, todo, remap, depends, build, buildEdges, at,
                  validation>>
      /\ Tasks' = Tasks
  BY DEF preparation, parsed, prepared, Tasks
<1>2. ProjectsOK' /\ NodesOK' /\ RefsOK'
  BY <1>1 DEF ProjectsOK, NodesOK, RefsOK
<1>3. EdgesOK'
  BY <1>1 DEF EdgesOK, Linked, Wants
<1>4. CallOK'
  BY <1>1, CallRests DEF CallOK, validation, vars
<1>5. SizesOK' /\ ActionsOK' /\ RemapOK' /\ BuildEdgesOK'
  <2>1. SizesOK' /\ ActionsOK' /\ RemapOK'
    BY <1>1 DEF BuildInv, SizesOK, IsSeq, ActionsOK, RemapOK, Real
  <2>2. \A x, y : (Groups(x, y)' <=> Groups(x, y)) /\ (Links(x, y)' <=> Links(x, y))
    BY <1>1 DEF Groups, Links
  <2>3. BuildEdgesOK'
    BY <1>1, <2>2 DEF BuildInv, BuildEdgesOK
  <2> QED BY <2>1, <2>3
<1> QED BY <1>2, <1>3, <1>4, <1>5 DEF BuildInv

\* Every step of the preparation keeps its invariant.
LEMMA PrepareNextOK ==
  ASSUME PrepInv, [PrepareNext]_preparation, \A n \in Nat : Worded(n)
  PROVE  PrepInv'
<1>1. Len(xg) \in Nat
  BY DEF PrepInv, ParseInv, NodesOK
<1>2. CASE \E t \in todo : AddNode(t) \/ AddEdges(t)
  BY <1>2, AddNodeOK, AddEdgesOK
<1>3. CASE NextProject \/ NodesAdded \/ EdgesAdded
  BY <1>3, NextProjectOK, NodesAddedOK, EdgesAddedOK
<1>4. CASE StartValidate \/ ValidateStep \/ Validated
  BY <1>4, StartValidateOK, ValidateStepOK, ValidatedOK
<1>5. CASE Prepare
  BY <1>1, <1>5, PrepareOK
<1>6. CASE Prepared \/ Link \/ Finish
  BY <1>6, PreparedOK, LinkOK, FinishOK
<1>7. CASE PrepareDone \/ UNCHANGED preparation
  BY <1>7, PrepareRestOK DEF PrepareDone
<1> QED BY <1>2, <1>3, <1>4, <1>5, <1>6, <1>7 DEF PrepareNext

-------------------------------------------------------------------------------
(* What the invariant gives                                                *)

\* An action has an edge to the nodes of its task's dependencies and no other.
LEMMA ActionEdges ==
  ASSUME PrepInv, pc \in {"link", "Ok"}, at > Len(depends),
         NEW x \in DOMAIN build, NEW y \in DOMAIN build, depends[x] # End
  PROVE  /\ depends[x] \in DOMAIN xg /\ DOMAIN remap = DOMAIN xg
         /\ <<x, y>> \in buildEdges <=> Links(x, y)
<1>1. SizesOK /\ ActionsOK /\ BuildEdgesOK /\ NodesOK
  BY DEF PrepInv, ParseInv, BuildInv
<1>2. x < at /\ DOMAIN remap = DOMAIN xg /\ DOMAIN xg = 1..Len(xg) /\ Len(remap) = Len(xg) /\ Len(xg) \in Nat
  BY <1>1 DEF SizesOK, IsSeq, NodesOK
<1>3. depends[x] \in DOMAIN xg
  BY <1>1, <1>2 DEF ActionsOK, End
<1>4. ~Groups(x, y)
  BY DEF Groups
<1> QED BY <1>1, <1>2, <1>3, <1>4 DEF BuildEdgesOK

\* A group has edges to its own actions and no other.
LEMMA GroupOnlyEdges ==
  ASSUME PrepInv, pc \in {"link", "Ok"}, NEW x \in DOMAIN build, NEW y \in DOMAIN build,
         depends[x] = End
  PROVE  <<x, y>> \in buildEdges <=> Groups(x, y)
<1>1. BuildEdgesOK /\ NodesOK /\ EdgesOK
  BY DEF PrepInv, ParseInv, BuildInv
<1>2. End \notin DOMAIN xg
  BY <1>1 DEF NodesOK, End
<1>3. ~Links(x, y)
  BY <1>1, <1>2 DEF Links, EdgesOK
<1> QED BY <1>1, <1>3 DEF BuildEdgesOK

\* The edges of the parsed graph are the dependencies of the task files.
LEMMA EdgesAreDepends ==
  ASSUME PrepInv, pc \in {"link", "Ok"}
  PROVE  /\ \A j, k \in DOMAIN xg : <<j, k>> \in xgEdges <=> <<xg[j], xg[k]>> \in Depends
         /\ \A s \in Tasks : \E k \in DOMAIN xg : xg[k] = s
         /\ \A e \in Depends : e = <<e[1], e[2]>> /\ e[1] \in Tasks /\ e[2] \in Tasks
<1>1. ProjectsOK /\ NodesOK /\ EdgesOK
  BY DEF PrepInv, ParseInv
<1>2. \A s \in Tasks : s[1] < p
  BY <1>1, TaskPairs DEF ProjectsOK, Parsing
<1>3. \A s \in Tasks : \E k \in DOMAIN xg : xg[k] = s
  BY <1>1, <1>2 DEF NodesOK
<1>4. \A s \in Tasks : Linked(s)
  BY <1>2 DEF Linked
<1>5. ASSUME NEW s \in Tasks, NEW t \in Tasks PROVE <<s, t>> \in Depends <=> Wants(s, t)
  <2>1. /\ s = <<s[1], s[2]>> /\ s[1] \in DOMAIN projects /\ s[2] \in DOMAIN projects[s[1]]
        /\ t = <<t[1], t[2]>>
    BY TaskPairs
  <2>2. ASSUME <<s, t>> \in Depends PROVE Wants(s, t)
    <3>1. PICK k \in DOMAIN projects : \E n \in DOMAIN projects[k] : \E d \in projects[k][n] :
                 <<s, t>> = <<<<k, n>>, <<k, d>>>>
      BY <2>2 DEF Depends
    <3>2. PICK n \in DOMAIN projects[k] : \E d \in projects[k][n] : <<s, t>> = <<<<k, n>>, <<k, d>>>>
      BY <3>1
    <3>3. PICK d \in projects[k][n] : s = <<k, n>> /\ t = <<k, d>>
      BY <3>2
    <3> QED BY <3>3 DEF Wants
  <2>3. ASSUME Wants(s, t) PROVE <<s, t>> \in Depends
    <3>1. t[2] \in projects[s[1]][s[2]] /\ t = <<s[1], t[2]>>
      BY <2>1, <2>3 DEF Wants
    <3> QED BY <2>1, <3>1 DEF Depends
  <2> QED BY <2>2, <2>3
<1>6. ASSUME NEW e \in Depends PROVE e = <<e[1], e[2]>> /\ e[1] \in Tasks /\ e[2] \in Tasks
  <2>1. PICK k \in DOMAIN projects : \E n \in DOMAIN projects[k] : \E d \in projects[k][n] :
               e = <<<<k, n>>, <<k, d>>>>
    BY <1>6 DEF Depends
  <2>2. PICK n \in DOMAIN projects[k] : \E d \in projects[k][n] : e = <<<<k, n>>, <<k, d>>>>
    BY <2>1
  <2>3. PICK d \in projects[k][n] : e = <<<<k, n>>, <<k, d>>>>
    BY <2>2
  <2>4. <<k, n>> \in Tasks /\ <<k, n>>[1] = k /\ <<k, n>>[2] = n
    BY TaskPairs
  <2>5. d \in DOMAIN projects[k]
    BY <1>1, <1>4, <2>4 DEF EdgesOK
  <2>6. <<k, d>> \in Tasks
    BY <2>5, TaskPairs
  <2> QED BY <2>3, <2>4, <2>6
<1>7. \A k \in DOMAIN xg : xg[k] \in Tasks
  BY <1>1 DEF NodesOK
<1> QED BY <1>1, <1>3, <1>4, <1>5, <1>6, <1>7 DEF EdgesOK

\* The tasks of the nodes of a cyclic core of the new graph are one of the
\* parsed graph, which has none.
LEMMA SecondCheckHolds == PrepInv => SecondCheckPasses
<1> SUFFICES ASSUME PrepInv, pc = "link", at > Len(depends), NEW T \in SUBSET (DOMAIN build),
                    IsCyclicCore(T, buildEdges)
             PROVE  FALSE
  BY DEF SecondCheckPasses, HasCycle
<1> DEFINE U == {depends[x] : x \in {z \in T : depends[z] # End}}
<1>1. \A x \in T : \E y \in T : <<x, y>> \in buildEdges
  BY DEF IsCyclicCore
<1>2. ASSUME NEW x \in T, depends[x] = End
      PROVE  \E k \in U : remap[k] = x /\ k \in DOMAIN remap
  <2>1. PICK y \in T : <<x, y>> \in buildEdges
    BY <1>1
  <2>2. PICK k \in DOMAIN remap : remap[k] = x /\ depends[y] = k
    BY <1>2, <2>1, GroupOnlyEdges DEF Groups
  <2>3. k # End
    BY DEF PrepInv, BuildInv, SizesOK, End
  <2> QED BY <2>2, <2>3
<1>3. ASSUME NEW u \in U PROVE u \in DOMAIN xg /\ \E n \in U : <<u, n>> \in xgEdges
  <2>1. PICK x \in T : u = depends[x] /\ depends[x] # End
    BY <1>3
  <2>2. PICK y \in T : <<x, y>> \in buildEdges
    BY <1>1
  <2>3. u \in DOMAIN xg /\ DOMAIN remap = DOMAIN xg /\ Links(x, y)
    BY <2>1, <2>2, ActionEdges
  <2>4. PICK n \in DOMAIN xg : <<u, n>> \in xgEdges /\ remap[n] = y
    BY <2>1, <2>3 DEF Links
  <2>5. RemapOK
    BY DEF PrepInv, BuildInv
  <2>6. CASE depends[y] = End
    <3>1. PICK k \in U : remap[k] = y /\ k \in DOMAIN remap
      BY <1>2, <2>6
    <3>2. k = n
      BY <2>3, <2>4, <2>5, <3>1 DEF RemapOK
    <3> QED BY <2>3, <2>4, <3>1, <3>2
  <2>7. CASE depends[y] # End
    <3>1. depends[y] = n
      BY <2>3, <2>4, <2>5, <2>7 DEF RemapOK
    <3> QED BY <2>3, <2>4, <2>7, <3>1
  <2> QED BY <2>6, <2>7
<1>4. U # {}
  <2>1. PICK x : x \in T
    BY DEF IsCyclicCore
  <2>2. CASE depends[x] = End
    BY <1>2, <2>1, <2>2
  <2>3. CASE depends[x] # End
    BY <2>1, <2>3
  <2> QED BY <2>2, <2>3
<1> HIDE DEF U
<1>5. U \in SUBSET (DOMAIN xg) /\ IsCyclicCore(U, xgEdges)
  BY <1>3, <1>4 DEF IsCyclicCore
<1>6. verdict = "Ok" /\ nodes = DOMAIN xg /\ edges = xgEdges /\ IndInv
  BY DEF PrepInv, ParseInv, CallOK, Parsing
<1> QED BY <1>5, <1>6, VerdictRight DEF AcceptsOnlyAcyclic, HasCycle

\* An action of a task has edges to the node of each dependency, which is, or
\* has edges to, the actions of this dependency.
LEMMA ActionsOrdered ==
  ASSUME PrepInv, pc = "Ok", NEW C \in SUBSET (DOMAIN build),
         \A e \in buildEdges : e[1] \in C => e[2] \in C,
         NEW x \in DOMAIN build, Real(x), x \in C \/ Outgoing(DOMAIN build, buildEdges, x) \subseteq C,
         NEW t \in Tasks, <<build[x].task, t>> \in Depends, NEW y \in DOMAIN build, Real(y), build[y].task = t
  PROVE  y \in C
<1>1. SizesOK /\ ActionsOK /\ RemapOK /\ NodesOK
  BY DEF PrepInv, ParseInv, BuildInv
<1>2. /\ depends[x] # End /\ build[x].task = xg[depends[x]]
      /\ depends[y] # End /\ build[y].task = xg[depends[y]]
      /\ remap[depends[y]] = y \/ depends[remap[depends[y]]] = End
  BY <1>1 DEF ActionsOK
<1>3. at > Len(depends)
  BY <1>1 DEF SizesOK
<1>4. /\ depends[x] \in DOMAIN xg /\ depends[y] \in DOMAIN xg /\ DOMAIN remap = DOMAIN xg
      /\ \A z \in DOMAIN build : <<x, z>> \in buildEdges <=> Links(x, z)
  BY <1>2, <1>3, ActionEdges
<1>5. <<depends[x], depends[y]>> \in xgEdges
  BY <1>2, <1>4, EdgesAreDepends
<1>6. PICK z \in DOMAIN build : z = remap[depends[y]]
  BY <1>1, <1>4 DEF RemapOK
<1>7. <<x, z>> \in buildEdges
  BY <1>4, <1>5, <1>6 DEF Links
<1>8. z \in C
  <2>1. <<x, z>>[1] = x /\ <<x, z>>[2] = z
    OBVIOUS
  <2>2. z \in Outgoing(DOMAIN build, buildEdges, x)
    BY <1>7 DEF Outgoing
  <2> QED BY <1>7, <2>1, <2>2
<1>9. CASE depends[z] = End
  <2>1. <<z, y>> \in buildEdges
    BY <1>4, <1>6, <1>9, GroupOnlyEdges DEF Groups
  <2>2. <<z, y>>[1] = z /\ <<z, y>>[2] = y
    OBVIOUS
  <2> QED BY <1>8, <2>1, <2>2
<1> QED BY <1>2, <1>6, <1>8, <1>9

\* Whatever has what x points to and what its own nodes point to has, with a
\* task's actions, those of the tasks it depends on; and the other way round.
LEMMA OrderHolds == PrepInv => OrderKept
<1> SUFFICES ASSUME PrepInv, pc = "Ok", NEW x \in DOMAIN build, Real(x), NEW y \in DOMAIN build, Real(y)
             PROVE  y \in Reached(DOMAIN build, buildEdges, x)
                      <=> build[y].task \in Reached(Tasks, Depends, build[x].task)
  BY DEF OrderKept
<1>1. SizesOK /\ ActionsOK /\ RemapOK /\ NodesOK /\ BuildEdgesOK /\ at > Len(depends)
  BY DEF PrepInv, ParseInv, BuildInv, SizesOK
<1>2. /\ DOMAIN remap = DOMAIN xg
      /\ \A n \in DOMAIN build : Real(n) <=> depends[n] # End
      /\ \A n \in DOMAIN build : Real(n) => depends[n] \in DOMAIN xg /\ build[n].task = xg[depends[n]]
  <2>1. \A n \in DOMAIN build : Real(n) <=> depends[n] # End
    BY <1>1 DEF ActionsOK
  <2>2. \A n \in DOMAIN build : depends[n] # End => depends[n] \in DOMAIN xg
    BY <1>1, ActionEdges
  <2>3. DOMAIN remap = DOMAIN xg
    BY <1>1, <2>1, ActionEdges
  <2> QED BY <1>1, <2>1, <2>2, <2>3 DEF ActionsOK
<1>3. \A k \in DOMAIN xg : xg[k] \in Tasks
  BY <1>1 DEF NodesOK
<1>4. \A n \in DOMAIN build : Real(n) => build[n].task \in Tasks
  BY <1>2, <1>3
<1>5. /\ \A j, k \in DOMAIN xg : <<j, k>> \in xgEdges <=> <<xg[j], xg[k]>> \in Depends
      /\ \A s \in Tasks : \E k \in DOMAIN xg : xg[k] = s
      /\ \A e \in Depends : e = <<e[1], e[2]>> /\ e[1] \in Tasks /\ e[2] \in Tasks
  BY EdgesAreDepends
<1>6. ASSUME y \in Reached(DOMAIN build, buildEdges, x)
      PROVE  build[y].task \in Reached(Tasks, Depends, build[x].task)
  <2> SUFFICES ASSUME NEW C \in SUBSET Tasks, Outgoing(Tasks, Depends, build[x].task) \subseteq C,
                      \A e \in Depends : e[1] \in C => e[2] \in C
               PROVE  build[y].task \in C
    BY <1>4 DEF Reached
  <2> DEFINE D == {z \in DOMAIN build : build[z].task \in C}
  <2>1. ASSUME NEW z \in DOMAIN build, NEW w \in DOMAIN build, Links(z, w), depends[z] # End
        PROVE  <<build[z].task, build[w].task>> \in Depends
    <3>1. PICK n \in DOMAIN xg : <<depends[z], n>> \in xgEdges /\ remap[n] = w
      BY <2>1 DEF Links
    <3>2. build[w].task = xg[n]
      BY <1>1, <1>2, <3>1 DEF RemapOK
    <3>3. depends[z] \in DOMAIN xg /\ build[z].task = xg[depends[z]]
      BY <1>2, <2>1
    <3> QED BY <1>5, <3>1, <3>2, <3>3
  <2>2. ASSUME NEW z \in Outgoing(DOMAIN build, buildEdges, x) PROVE z \in D
    <3>1. z \in DOMAIN build /\ <<x, z>> \in buildEdges
      BY <2>2 DEF Outgoing
    <3>2. <<build[x].task, build[z].task>> \in Depends
      BY <1>1, <1>2, <2>1, <3>1, ActionEdges
    <3>3. <<build[x].task, build[z].task>>[2] = build[z].task
      OBVIOUS
    <3>4. build[z].task \in Tasks
      BY <1>5, <3>2, <3>3
    <3> QED BY <3>1, <3>2, <3>4 DEF Outgoing
  <2>3. ASSUME NEW e \in buildEdges, e[1] \in D PROVE e[2] \in D
    <3>1. PICK z \in DOMAIN build, w \in DOMAIN build : e = <<z, w>>
      BY <1>1 DEF BuildEdgesOK
    <3>2. build[z].task \in C /\ e[1] = z /\ e[2] = w
      BY <2>3, <3>1
    <3>3. CASE depends[z] # End
      <4>1. <<build[z].task, build[w].task>> \in Depends
        BY <1>1, <2>1, <3>1, <3>3, ActionEdges
      <4>2. <<build[z].task, build[w].task>>[1] = build[z].task /\ <<build[z].task, build[w].task>>[2] = build[w].task
        OBVIOUS
      <4> QED BY <3>2, <4>1, <4>2
    <3>4. CASE depends[z] = End
      <4>1. PICK k \in DOMAIN remap : remap[k] = z /\ depends[w] = k
        BY <3>1, <3>4, GroupOnlyEdges DEF Groups
      <4>2. k # End /\ build[z].task = xg[k]
        <5>1. k # End
          BY <1>1, <4>1 DEF SizesOK, End
        <5> QED BY <1>1, <4>1, <5>1 DEF RemapOK
      <4>3. build[w].task = xg[k]
        BY <1>2, <4>1, <4>2
      <4> QED BY <3>2, <4>2, <4>3
    <3> QED BY <3>3, <3>4
  <2>4. y \in D
    BY <1>6, <2>2, <2>3 DEF Reached
  <2> QED BY <2>4
<1>7. ASSUME build[y].task \in Reached(Tasks, Depends, build[x].task)
      PROVE  y \in Reached(DOMAIN build, buildEdges, x)
  <2> SUFFICES ASSUME NEW C \in SUBSET (DOMAIN build), Outgoing(DOMAIN build, buildEdges, x) \subseteq C,
                      \A e \in buildEdges : e[1] \in C => e[2] \in C
               PROVE  y \in C
    BY DEF Reached
  <2> DEFINE D == {t \in Tasks : \A z \in DOMAIN build : Real(z) /\ build[z].task = t => z \in C}
  <2>1. ASSUME NEW t \in Outgoing(Tasks, Depends, build[x].task) PROVE t \in D
    <3>1. t \in Tasks /\ <<build[x].task, t>> \in Depends
      BY <2>1 DEF Outgoing
    <3> QED BY <3>1, ActionsOrdered
  <2>2. ASSUME NEW e \in Depends, e[1] \in D PROVE e[2] \in D
    <3>1. e = <<e[1], e[2]>> /\ e[1] \in Tasks /\ e[2] \in Tasks
      BY <1>5
    <3>2. PICK k \in DOMAIN xg : xg[k] = e[1]
      BY <1>5, <3>1
    <3>3. PICK z \in DOMAIN build : depends[z] = k
      BY <1>1, <1>2, <3>2 DEF RemapOK
    <3>4. k # End
      BY <1>1, <3>2 DEF NodesOK, End
    <3>5. Real(z) /\ build[z].task = e[1]
      BY <1>2, <3>2, <3>3, <3>4
    <3>6. z \in C /\ <<build[z].task, e[2]>> \in Depends
      BY <2>2, <3>1, <3>5
    <3> QED BY <3>1, <3>5, <3>6, ActionsOrdered
  <2>3. build[y].task \in D
    BY <1>7, <2>1, <2>2 DEF Reached
  <2> QED BY <2>3
<1> QED BY <1>6, <1>7

\* What the indexing of prepare_graph relies on.
LEMMA PrepareTypes == PrepInv => PrepareTypeOK
<1> SUFFICES ASSUME PrepInv PROVE PrepareTypeOK
  OBVIOUS
<1>1. ProjectsOK /\ NodesOK /\ EdgesOK /\ SizesOK /\ ActionsOK /\ RemapOK /\ BuildEdgesOK
  BY DEF PrepInv, ParseInv, BuildInv
<1>2. /\ Len(remap) \in Nat /\ Len(xg) \in Nat /\ Len(remap) <= Len(xg)
      /\ DOMAIN remap = 1..Len(remap) /\ DOMAIN xg = 1..Len(xg)
      /\ DOMAIN depends = DOMAIN build /\ DOMAIN depends = 1..Len(depends) /\ Len(depends) \in Nat
      /\ depends \in Seq(Nat)
  BY <1>1 DEF NodesOK, SizesOK, IsSeq
<1>3. ASSUME NEW n \in DOMAIN build PROVE depends[n] \in 0..Len(xg)
  <2>1. depends[n] \in 0..Len(remap)
    BY <1>1, <1>3 DEF ActionsOK
  <2> QED BY <1>2, <2>1
<1>4. depends \in Seq(0..Len(xg))
  <2>1. \A n \in 1..Len(depends) : depends[n] \in 0..Len(xg)
    BY <1>2, <1>3
  <2> QED BY <1>2, <2>1
<1>5. \A k \in DOMAIN remap : xg[k] \in Tasks
  BY <1>1, <1>2 DEF NodesOK
<1>6. ASSUME NEW n \in DOMAIN build PROVE build[n].task \in Tasks
  <2>1. CASE depends[n] = End
    BY <1>1, <1>5, <1>6, <2>1 DEF ActionsOK, RemapOK
  <2>2. CASE depends[n] # End
    <3>1. depends[n] \in DOMAIN remap /\ build[n].task = xg[depends[n]]
      BY <1>1, <1>2, <1>6, <2>2 DEF ActionsOK, End
    <3> QED BY <1>5, <3>1
  <2> QED BY <2>1, <2>2
<1>7. \A n \in DOMAIN build : build[n].kind \in {"empty", "exec", "compile"}
  BY <1>1 DEF ActionsOK
<1>8. xg \in Seq(Tasks) /\ xgEdges \subseteq (DOMAIN xg) \X (DOMAIN xg) /\ remap \in Seq(Nat)
      /\ buildEdges \subseteq (DOMAIN build) \X (DOMAIN build)
  BY <1>1 DEF NodesOK, EdgesOK, SizesOK, BuildEdgesOK
<1>9. pc = "link" => Len(remap) = Len(xg) /\ Len(depends) = Len(build)
  BY <1>1 DEF SizesOK
<1>10. pc \in {"project", "nodes", "edges", "validate", "prepare", "link", "Ok", "Err"}
  BY <1>1 DEF ProjectsOK
<1> QED BY <1>4, <1>6, <1>7, <1>8, <1>9, <1>10 DEF PrepareTypeOK

-------------------------------------------------------------------------------
(* What the preparation makes of a command                                 *)

\* The commands of task k are its actions.
LEMMA CommandsDepend ==
  ASSUME PrepInv, pc = "Ok", NEW k, k \in DOMAIN xg, NEW n, n \in DOMAIN build
  PROVE  n \in CommandsOf(k) <=> depends[n] = k
<1>1. /\ depends[n] \in 0..Len(remap)
      /\ depends[n] # End => Real(n) /\ build[n].task = xg[depends[n]]
      /\ depends[n] = End => ~Real(n)
  BY Zenon DEF PrepInv, BuildInv, ActionsOK
<1>2. /\ xg \in Seq(Tasks) /\ \A l \in DOMAIN xg : xg[l] = xg[k] => l = k
      /\ Len(remap) = Len(xg)
  BY DEF PrepInv, ParseInv, NodesOK, BuildInv, SizesOK
<1>3. DOMAIN xg = 1..Len(xg) /\ Len(xg) \in Nat
  BY <1>2
<1>4. n \in CommandsOf(k) <=> build[n].task = xg[k] /\ Real(n)
  BY DEF CommandsOf
<1>5. CASE depends[n] = End
  <2>1. k # End
    BY <1>3 DEF End
  <2> QED BY <1>1, <1>4, <1>5, <2>1
<1>6. CASE depends[n] # End
  <2>1. depends[n] \in DOMAIN xg
    BY <1>1, <1>2, <1>3, <1>6 DEF End
  <2>2. Real(n) /\ build[n].task = xg[depends[n]]
    BY <1>1, <1>6
  <2>3. CASE depends[n] = k
    BY <1>4, <2>2, <2>3
  <2>4. CASE depends[n] # k
    <3>1. xg[depends[n]] # xg[k]
      BY <1>2, <2>1, <2>4
    <3> QED BY <1>4, <2>2, <2>4, <3>1
  <2> QED BY <2>3, <2>4
<1> QED BY <1>5, <1>6

\* The commands of task k are compilations, the nodes after first, or there is
\* one command that is none.
Done(k, first, tasks) ==
  /\ tasks = <<>> => Cardinality(CommandsOf(k)) = 1 /\ CompilesOf(k) = {}
  /\ tasks # <<>> =>
       /\ CommandsOf(k) = (first + 1)..(first + Len(tasks)) /\ CompilesOf(k) = CommandsOf(k)
       /\ \A j \in 1..Len(tasks) : build[first + j].compile = tasks[j]

\* They are what create_tasks makes of the command.
LEMMA CommandDone ==
  ASSUME PrepInv, MadeOK, pc = "Ok", NEW k, k \in DOMAIN xg
  PROVE  \E first \in Nat : \E tasks :
           Made(commands[k].program.name, WordsOf(commands[k]), tasks) /\ Done(k, first, tasks)
<1>1. k \in DOMAIN remap
  <2>1. xg \in Seq(Tasks) /\ remap \in Seq(Nat) /\ Len(remap) = Len(xg)
    BY DEF PrepInv, ParseInv, NodesOK, BuildInv, SizesOK
  <2> QED BY <2>1
<1>2. WordedCommand(commands[k])
  BY <1>1 DEF MadeOK
<1>3. PICK first \in Nat : Placed(k, first)
  BY <1>1 DEF MadeOK
<1>4. PICK tasks : tasks = CreateCompilations(commands[k]).tasks
  OBVIOUS
<1>5. Made(commands[k].program.name, WordsOf(commands[k]), tasks)
  BY <1>2, <1>4, CommandCompiles
<1>6. PICK actions : actions = CreateTasks(xg[k], CreateCompilations(commands[k]))
  OBVIOUS
<1>7. /\ IsSeq(actions) /\ Len(actions) \in Nat \ {0}
      /\ \A j \in 1..Len(actions) : actions[j].task = xg[k] /\ actions[j].kind \in {"exec", "compile"}
  BY <1>2, <1>6, ActionsMade
<1>8. PICK l \in Nat \ {0} : l = Len(actions)
  BY <1>7
<1>9. /\ first + l <= Len(build)
      /\ \A n \in DOMAIN build : depends[n] = k <=> n \in (first + 1)..(first + l)
      /\ \A j \in 1..l : build[first + j] = actions[j]
  BY <1>3, <1>6, <1>8 DEF Placed
<1>10. DOMAIN build = 1..Len(build) /\ Len(build) \in Nat
  <2>1. IsSeq(build)
    BY Zenon DEF PrepInv, BuildInv, SizesOK
  <2> QED BY <2>1, SeqDomain
<1>11. CommandsOf(k) = (first + 1)..(first + l)
  <2>1. ASSUME NEW n, n \in CommandsOf(k) PROVE n \in (first + 1)..(first + l)
    <3>1. n \in DOMAIN build
      BY <2>1 DEF CommandsOf
    <3> QED BY <1>9, <2>1, <3>1, CommandsDepend
  <2>2. ASSUME NEW n, n \in (first + 1)..(first + l) PROVE n \in CommandsOf(k)
    <3>1. n \in DOMAIN build
      BY <1>9, <1>10, <2>2
    <3> QED BY <1>9, <2>2, <3>1, CommandsDepend
  <2> QED BY <2>1, <2>2
<1>12. CASE tasks = <<>>
  <2>1. actions = <<Node(xg[k], "exec", Nothing)>>
    BY <1>4, <1>6, <1>12 DEF CreateTasks
  <2>2. l = 1 /\ actions[1] = Node(xg[k], "exec", Nothing)
    BY <1>8, <2>1, OneSeq
  <2>3. CommandsOf(k) = {first + 1} /\ build[first + 1].kind = "exec"
    BY <1>9, <1>11, <2>2 DEF Node
  <2>4. CompilesOf(k) = {}
    BY <2>3 DEF CompilesOf
  <2>5. Cardinality(CommandsOf(k)) = 1
    BY <2>3, FS_Singleton
  <2> QED BY <1>5, <1>12, <2>4, <2>5 DEF Done
<1>13. CASE tasks # <<>>
  <2>1. DOMAIN tasks = 1..Len(tasks) /\ Len(tasks) \in Nat
    BY <1>5, SeqDomain DEF Made
  <2>2. actions = [j \in 1..Len(tasks) |-> Node(xg[k], "compile", tasks[j])]
    BY <1>4, <1>6, <1>13, <2>1 DEF CreateTasks, Compiles
  <2>3. l = Len(tasks)
    <3>1. DOMAIN actions = 1..l
      BY <1>7, <1>8, SeqDomain
    <3>2. DOMAIN actions = 1..Len(tasks)
      BY <2>2
    <3>3. 1..l = 1..Len(tasks) /\ l \in Nat
      BY <3>1, <3>2
    <3> QED BY <2>1, <3>3, SameLength
  <2>4. \A j \in 1..Len(tasks) :
          build[first + j].kind = "compile" /\ build[first + j].compile = tasks[j]
    BY <1>9, <2>2, <2>3 DEF Node
  <2>5. CompilesOf(k) = CommandsOf(k)
    <3>1. ASSUME NEW n, n \in CommandsOf(k) PROVE build[n].kind = "compile"
      <4>1. n - first \in 1..Len(tasks) /\ first + (n - first) = n
        BY <1>11, <2>1, <2>3, <3>1
      <4> QED BY <2>4, <4>1
    <3> QED BY <3>1 DEF CompilesOf
  <2>6. CommandsOf(k) = (first + 1)..(first + Len(tasks))
    BY <1>11, <2>3
  <2> QED BY <1>5, <1>13, <2>4, <2>5, <2>6 DEF Done
<1> QED BY <1>12, <1>13

\* Each source has its compilation, or the command is left as it is.
LEMMA NothingIsDropped == PrepInv /\ MadeOK => NothingDropped
<1> SUFFICES ASSUME PrepInv, MadeOK, pc = "Ok", NEW t \in Tasks
             PROVE  \E k \in DOMAIN xg :
                      LET words == WordsOf(commands[k])
                          sources == {j \in NoValues(commands[k].program.name, words) : ~Dashed(words[j])}
                      IN /\ xg[k] = t
                         /\ \/ Cardinality(CommandsOf(k)) = 1 /\ CompilesOf(k) = {}
                            \/ /\ CommandsOf(k) = CompilesOf(k)
                               /\ Cardinality(CommandsOf(k)) = Cardinality(sources)
                               /\ \A j \in sources : \E n \in CommandsOf(k) : build[n].compile.source = words[j].val
  BY DEF NothingDropped
<1>0. PICK k \in DOMAIN xg : xg[k] = t
  BY EdgesAreDepends
<1> SUFFICES LET words == WordsOf(commands[k])
                 sources == {j \in NoValues(commands[k].program.name, words) : ~Dashed(words[j])}
             IN \/ Cardinality(CommandsOf(k)) = 1 /\ CompilesOf(k) = {}
                \/ /\ CommandsOf(k) = CompilesOf(k)
                   /\ Cardinality(CommandsOf(k)) = Cardinality(sources)
                   /\ \A j \in sources : \E n \in CommandsOf(k) : build[n].compile.source = words[j].val
  BY <1>0
<1>1. PICK words : words = WordsOf(commands[k])
  OBVIOUS
<1>2. PICK compiler : compiler = commands[k].program.name
  OBVIOUS
<1>3. PICK first, tasks : first \in Nat /\ Made(compiler, words, tasks) /\ Done(k, first, tasks)
  BY <1>1, <1>2, CommandDone
<1>4. CASE tasks = <<>>
  BY <1>3, <1>4 DEF Done
<1>5. CASE tasks # <<>>
  <2>1. /\ Cardinality(SourcesOf(compiler, words)) = Len(tasks)
        /\ \A j \in SourcesOf(compiler, words) : \E m \in DOMAIN tasks : tasks[m].source = words[j].val
    BY <1>3, <1>5, Zenon DEF Made, Compilations
  <2>2. DOMAIN tasks = 1..Len(tasks) /\ Len(tasks) \in Nat
    BY <1>3, SeqDomain DEF Made
  <2>3. /\ CommandsOf(k) = (first + 1)..(first + Len(tasks)) /\ CompilesOf(k) = CommandsOf(k)
        /\ \A j \in 1..Len(tasks) : build[first + j].compile = tasks[j]
    BY <1>3, <1>5, Zenon DEF Done
  <2>4. Cardinality(CommandsOf(k)) = Len(tasks)
    <3>1. PICK low \in Int : low = first + 1
      BY <1>3
    <3>2. PICK high \in Int : high = first + Len(tasks)
      BY <1>3, <2>2
    <3>3. Cardinality(low..high) = IF low > high THEN 0 ELSE high - low + 1
      BY FS_Interval
    <3>4. CommandsOf(k) = low..high
      BY <2>3, <3>1, <3>2
    <3>5. (IF low > high THEN 0 ELSE high - low + 1) = Len(tasks)
      BY <1>3, <2>2, <3>1, <3>2
    <3> QED BY <3>3, <3>4, <3>5
  <2>5. ASSUME NEW j, j \in SourcesOf(compiler, words)
        PROVE  \E n \in CommandsOf(k) : build[n].compile.source = words[j].val
    <3>1. PICK m \in DOMAIN tasks : tasks[m].source = words[j].val
      BY <2>1, <2>5
    <3>2. first + m \in CommandsOf(k)
      BY <1>3, <2>2, <2>3
    <3>3. build[first + m].compile.source = words[j].val
      BY <2>2, <2>3, <3>1
    <3> QED BY <3>2, <3>3
  <2> QED BY <1>1, <1>2, <2>1, <2>3, <2>4, <2>5 DEF SourcesOf
<1> QED BY <1>4, <1>5

\* Which compilation a command of the build is.
LEMMA CompileIsTask ==
  ASSUME NEW k, NEW first, NEW tasks, NEW n,
         first \in Nat, IsSeq(tasks), Done(k, first, tasks), n \in CompilesOf(k)
  PROVE  tasks # <<>> /\ \E j \in DOMAIN tasks : n = first + j /\ build[n].compile = tasks[j]
<1>1. tasks # <<>>
  BY DEF Done
<1>2. DOMAIN tasks = 1..Len(tasks) /\ Len(tasks) \in Nat
  BY SeqDomain
<1>3. /\ CommandsOf(k) = (first + 1)..(first + Len(tasks)) /\ CompilesOf(k) = CommandsOf(k)
      /\ \A j \in 1..Len(tasks) : build[first + j].compile = tasks[j]
  BY <1>1, Zenon DEF Done
<1>4. PICK j \in 1..Len(tasks) : n = first + j
  <2>1. n \in (first + 1)..(first + Len(tasks))
    BY <1>3
  <2>2. n - first \in 1..Len(tasks) /\ n = first + (n - first)
    BY <1>2, <2>1
  <2> QED BY <2>2
<1> QED BY <1>1, <1>2, <1>3, <1>4

\* The arguments of a compilation say what the words say.
LEMMA WordsAreAccounted == PrepInv /\ MadeOK => WordsAccounted
<1> SUFFICES ASSUME PrepInv, MadeOK, pc = "Ok", NEW k \in DOMAIN xg, NEW n \in CompilesOf(k)
             PROVE  Said(WordsOf(commands[k])) = Said(build[n].compile.args)
  BY DEF WordsAccounted
<1>1. PICK first, tasks :
        /\ first \in Nat
        /\ Made(commands[k].program.name, WordsOf(commands[k]), tasks) /\ Done(k, first, tasks)
  BY CommandDone
<1>2. IsSeq(tasks)
  BY <1>1, Zenon DEF Made
<1>3. PICK m \in DOMAIN tasks : tasks # <<>> /\ build[n].compile = tasks[m]
  BY <1>1, <1>2, CompileIsTask
<1>4. Said(WordsOf(commands[k])) = Said(tasks[m].args)
  BY <1>1, <1>3, Zenon DEF Made, Compilations
<1> QED BY <1>3, <1>4

\* The compilations of a command share an object file when OneObject says so.
LEMMA ObjectsAreForetold == PrepInv /\ MadeOK => ObjectsShared
<1> SUFFICES ASSUME PrepInv, MadeOK, pc = "Ok", NEW k \in DOMAIN xg,
                    NEW m \in CompilesOf(k), NEW n \in CompilesOf(k), m # n
             PROVE  Foretold(commands[k].program.name, build[m].compile, build[n].compile)
  BY DEF ObjectsShared, Foretold
<1>1. PICK first, tasks :
        /\ first \in Nat
        /\ Made(commands[k].program.name, WordsOf(commands[k]), tasks) /\ Done(k, first, tasks)
  BY CommandDone
<1>2. IsSeq(tasks)
  BY <1>1, Zenon DEF Made
<1>3. PICK a \in DOMAIN tasks : tasks # <<>> /\ m = first + a /\ build[m].compile = tasks[a]
  BY <1>1, <1>2, CompileIsTask
<1>4. PICK b \in DOMAIN tasks : n = first + b /\ build[n].compile = tasks[b]
  BY <1>1, <1>2, CompileIsTask
<1>5. a # b
  BY <1>3, <1>4
<1>6. Foretold(commands[k].program.name, tasks[a], tasks[b])
  BY <1>1, <1>3, <1>4, <1>5, Zenon DEF Made, Compilations
<1> QED BY <1>3, <1>4, <1>6

-------------------------------------------------------------------------------
(* The theorems                                                            *)

\* The invariant holds for all task files and all commands.
THEOREM PrepareInvariant ==
  ASSUME \A n \in Nat : Worded(n)
  PROVE  PrepareSpec => []PrepInv
<1>1. PrepInv /\ [PrepareNext]_preparation => PrepInv'
  BY PrepareNextOK
<1> QED BY <1>1, PrepareInitOK, PTL DEF PrepareSpec

\* So does what the first loop has made of the commands.
THEOREM MadeInvariant ==
  ASSUME \A n \in Nat : Worded(n)
  PROVE  PrepareSpec => [](PrepInv /\ MadeOK)
<1>1. PrepareInit => PrepInv /\ MadeOK
  BY PrepareInitOK, MadeInit
<1>2. PrepInv /\ MadeOK /\ [PrepareNext]_preparation => PrepInv' /\ MadeOK'
  BY PrepareNextOK, MadeStep
<1> QED BY <1>1, <1>2, PTL DEF PrepareSpec

\* Whatever is in the commands and in the files they name, no task of any
\* project is lost, and every source has a compilation of its own or the command
\* is run as it is.
THEOREM NothingDroppedAlways ==
  ASSUME \A n \in Nat : Worded(n)
  PROVE  PrepareSpec => []NothingDropped
BY MadeInvariant, NothingIsDropped, PTL

\* No option of a command that octobuild compiles is lost, made up or moved.
THEOREM WordsAccountedAlways ==
  ASSUME \A n \in Nat : Worded(n)
  PROVE  PrepareSpec => []WordsAccounted
BY MadeInvariant, WordsAreAccounted, PTL

\* Two compilations of one command write one object file in the cases OneObject
\* names and in no other: however many sources the command has.
THEOREM ObjectsSharedAlways ==
  ASSUME \A n \in Nat : Worded(n)
  PROVE  PrepareSpec => []ObjectsShared
BY MadeInvariant, ObjectsAreForetold, PTL

\* What prepare_graph asserts and relies on when it indexes its vectors.
THEOREM PrepareTypesAlways ==
  ASSUME \A n \in Nat : Worded(n)
  PROVE  PrepareSpec => []PrepareTypeOK
BY PrepareInvariant, PrepareTypes, PTL

\* Whatever the task files say and however many compilations each command is
\* split into, two commands of the build are ordered exactly if their tasks are.
THEOREM OrderKeptAlways ==
  ASSUME \A n \in Nat : Worded(n)
  PROVE  PrepareSpec => []OrderKept
BY PrepareInvariant, OrderHolds, PTL

\* prepare_graph makes no cycle of what has none: a build is refused only for
\* what is in its task files.
THEOREM SecondCheckPassesAlways ==
  ASSUME \A n \in Nat : Worded(n)
  PROVE  PrepareSpec => []SecondCheckPasses
BY PrepareInvariant, SecondCheckHolds, PTL

\* Every task of every project has a command in the build, and the build has
\* the commands of these tasks only.
TasksBuilt ==
  pc = "Ok" => Tasks = {build[n].task : n \in {x \in DOMAIN build : Real(x)}}

\* No task of the task files is lost between the parser and the executor.
THEOREM TasksBuiltAlways ==
  ASSUME \A n \in Nat : Worded(n)
  PROVE  PrepareSpec => []TasksBuilt
<1>1. ASSUME PrepInv, pc = "Ok" PROVE Tasks = {build[n].task : n \in {x \in DOMAIN build : Real(x)}}
  <2>1. PrepareTypeOK /\ SizesOK /\ ActionsOK /\ RemapOK /\ NodesOK
    BY <1>1, PrepareTypes DEF PrepInv, ParseInv, BuildInv
  <2>2. ASSUME NEW s \in Tasks PROVE \E n \in DOMAIN build : Real(n) /\ build[n].task = s
    <3>1. PICK k \in DOMAIN xg : xg[k] = s
      BY <1>1, EdgesAreDepends
    <3>2. k \in DOMAIN remap /\ k # End
      BY <1>1, <2>1 DEF NodesOK, SizesOK, End
    <3>3. PICK n \in DOMAIN build : depends[n] = k
      BY <2>1, <3>2 DEF RemapOK
    <3> QED BY <2>1, <3>1, <3>2, <3>3 DEF ActionsOK
  <2>3. \A n \in DOMAIN build : build[n].task \in Tasks
    BY <2>1 DEF PrepareTypeOK
  <2> QED BY <2>2, <2>3
<1>2. PrepInv => TasksBuilt
  BY <1>1 DEF TasksBuilt
<1> QED BY <1>2, PrepareInvariant, PTL

\* validate_graph, called on the parsed graph, is right about it.
THEOREM ParsedVerdictRight ==
  ASSUME \A n \in Nat : Worded(n)
  PROVE  PrepareSpec => [](AcceptsOnlyAcyclic /\ RejectsOnlyCyclic)
<1>1. PrepInv => AcceptsOnlyAcyclic /\ RejectsOnlyCyclic
  BY VerdictRight DEF PrepInv, ParseInv, CallOK
<1> QED BY <1>1, PrepareInvariant, PTL

===============================================================================
