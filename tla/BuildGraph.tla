------------------------------ MODULE BuildGraph ------------------------------
(***************************************************************************)
(* The petgraph::Graph the executor works on, as it uses it.  A graph is a *)
(* set of nodes and a set of edges <<n, m>>: n depends on m, the direction *)
(* graph_project gives its edges.  The task parser keeps each task's       *)
(* dependencies in a HashSet (xg/parser.rs:268), so there are no parallel  *)
(* edges and a set represents the edge list.                               *)
(***************************************************************************)
EXTENDS Naturals, FiniteSets

\* graph.neighbors_directed(n, Outgoing): what n depends on.
Outgoing(nodes, edges, n) == {m \in nodes : <<n, m>> \in edges}

\* graph.neighbors_directed(n, Incoming): what depends on n.
Incoming(nodes, edges, n) == {m \in nodes : <<m, n>> \in edges}

\* graph.externals(Outgoing): the nodes that depend on nothing.
Externals(nodes, edges) == {n \in nodes : Outgoing(nodes, edges, n) = {}}

\* Mutant: one completed dependency is enough.
SomeReady(nodes, edges, completed, n) ==
  Outgoing(nodes, edges, n) \cap completed # {} \/ Outgoing(nodes, edges, n) = {}

\* is_ready: every dependency of n is completed.
IsReady(nodes, edges, completed, n) == Outgoing(nodes, edges, n) \subseteq completed

\* A set of nodes each of which depends on a node of the same set.
IsCyclicCore(S, edges) == S # {} /\ \A n \in S : \E m \in S : <<n, m>> \in edges

\* What a cycle of a finite graph comes down to.  ValidateGraph checks and
\* PrepareGraphProofs proves that validate_graph returns Err exactly then.
HasCycle(nodes, edges) == \E S \in SUBSET nodes : IsCyclicCore(S, edges)

===============================================================================
