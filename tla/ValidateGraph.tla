---------------------------- MODULE ValidateGraph -----------------------------
(***************************************************************************)
(* validate_graph of src/worker.rs, one step per iteration of its loop: the *)
(* check both xgConsole (twice) and execute_graph make before a build.  It  *)
(* walks a growing list of candidates, completing each one whose            *)
(* dependencies are completed and listing its dependents again.             *)
(***************************************************************************)
EXTENDS BuildGraph, Sequences

CONSTANT Universe               \* the nodes a graph may have

ASSUME UniverseFinite == IsFiniteSet(Universe)

VARIABLES
  nodes, edges,                 \* the graph, never changed
  queue, i,                     \* the candidates and the position in them
  completed, count,             \* nodes known to be completable, how many
  verdict                       \* "run" until the function returns

vars == <<nodes, edges, queue, i, completed, count, verdict>>
graph == <<nodes, edges>>

\* Every way to list a finite set: neither the numbering of the nodes nor
\* petgraph's neighbour order is relied on.
Listings(S) ==
  {q \in [1..Cardinality(S) -> S] : \A n \in S : \E j \in 1..Cardinality(S) : q[j] = n}

Init ==
  /\ nodes \in SUBSET Universe
  /\ edges \in SUBSET (nodes \X nodes)
  /\ queue \in Listings(nodes)
  /\ i = 1
  /\ completed = {}
  /\ count = 0
  /\ verdict = "run"

\* The early return for a graph without nodes.
ReturnEmpty ==
  /\ verdict = "run" /\ nodes = {}
  /\ verdict' = "Ok"
  /\ UNCHANGED <<graph, queue, i, completed, count>>

\* The condition of the loop body.
Completable(n) == n \notin completed /\ IsReady(nodes, edges, completed, n)

\* Mutant: the dependents are not listed again.
CompleteUnlisted ==
  /\ verdict = "run" /\ i <= Len(queue)
  /\ Completable(queue[i])
  /\ completed' = completed \cup {queue[i]}
  /\ count' = count + 1
  /\ IF count' = Cardinality(nodes)
       THEN verdict' = "Ok" /\ i' = i
       ELSE verdict' = verdict /\ i' = i + 1
  /\ UNCHANGED <<graph, queue>>

\* An iteration that completes queue[i]; the last node returns at once.
Complete ==
  /\ verdict = "run" /\ i <= Len(queue)
  /\ Completable(queue[i])
  /\ completed' = completed \cup {queue[i]}
  /\ \E s \in Listings(Incoming(nodes, edges, queue[i])) : queue' = queue \o s
  /\ count' = count + 1
  /\ IF count' = Cardinality(nodes)
       THEN verdict' = "Ok" /\ i' = i
       ELSE verdict' = verdict /\ i' = i + 1
  /\ UNCHANGED graph

\* Mutant: a node that is not ready is put off to the end of the list.
SkipPostpones ==
  /\ verdict = "run" /\ i <= Len(queue)
  /\ ~Completable(queue[i])
  /\ queue' = IF queue[i] \in completed THEN Tail(queue) ELSE Append(Tail(queue), queue[i])
  /\ UNCHANGED <<graph, i, completed, count, verdict>>

\* An iteration that passes queue[i] over.
Skip ==
  /\ verdict = "run" /\ i <= Len(queue)
  /\ ~Completable(queue[i])
  /\ i' = i + 1
  /\ UNCHANGED <<graph, queue, completed, count, verdict>>

\* The loop ran out of candidates: "Found cycles in build dependencies".
Exhausted ==
  /\ verdict = "run" /\ nodes # {} /\ i > Len(queue)
  /\ verdict' = "Err"
  /\ UNCHANGED <<graph, queue, i, completed, count>>

Returned == verdict # "run" /\ UNCHANGED vars

Next == ReturnEmpty \/ Complete \/ Skip \/ Exhausted \/ Returned

Spec == Init /\ [][Next]_vars /\ WF_vars(Next)

-------------------------------------------------------------------------------
\* Types: the graph is finite, the candidates are nodes, the counters natural
\* numbers.
TypeOK ==
  /\ IsFiniteSet(nodes)
  /\ edges \subseteq nodes \X nodes
  /\ queue \in Seq(nodes)
  /\ i \in Nat \ {0}
  /\ completed \subseteq nodes
  /\ count \in Nat
  /\ verdict \in {"run", "Ok", "Err"}

\* A graph validate_graph accepts has no dependency cycle: execute_graph may
\* rely on it never to wait for a task that waits for itself.
AcceptsOnlyAcyclic == verdict = "Ok" => ~HasCycle(nodes, edges)

\* A graph validate_graph rejects really has a cycle: no build is refused
\* because a candidate was passed over too early and never listed again.
RejectsOnlyCyclic == verdict = "Err" => HasCycle(nodes, edges)

-------------------------------------------------------------------------------
\* What the two results rest on.
\* No node of a cyclic core is ever completed.
CoresUntouched == \A S \in SUBSET nodes : IsCyclicCore(S, edges) => S \cap completed = {}

\* A node that could be completed is still ahead in the list.
CandidatesAhead ==
  verdict # "Ok" =>
    \A n \in nodes : Completable(n) => \E j \in i..Len(queue) : queue[j] = n

\* count is the number of completed nodes, and falls short of all until Ok.
Counted ==
  /\ count = Cardinality(completed)
  /\ verdict = "Ok" => completed = nodes
  /\ verdict # "Ok" => completed # nodes \/ nodes = {}
  /\ verdict = "Err" => i > Len(queue) /\ nodes # {}

IndInv == TypeOK /\ CoresUntouched /\ CandidatesAhead /\ Counted

===============================================================================
