------------------------------ MODULE BuildOrder ------------------------------
(***************************************************************************)
(* What a build promises to the user of xgConsole, without threads or      *)
(* queues: a task starts at most once and only after everything it depends *)
(* on has succeeded; the build ends when nothing runs; and the verdict it  *)
(* ends with has a cause.  Worker implements this specification.           *)
(***************************************************************************)
EXTENDS BuildGraph

CONSTANT Universe               \* the nodes a graph may have

VARIABLES
  nodes, edges,                 \* the graph, never changed
  fate,                         \* what became of each task
  cut,                          \* reporting the progress went wrong
  verdict                       \* "open", then what execute_graph returned

vars == <<nodes, edges, fate, cut, verdict>>

Ends == {"ok", "fail", "killed", "error", "panic"}
Verdicts == {"Ok0", "OkStatus", "OkNone", "Err", "panic"}

\* When a verdict may be given.  Only Ok0 says that the build succeeded.
Justified(v, ns, es, f, c) ==
  CASE v = "Ok0" -> \A n \in ns : f[n] = "ok"
    [] v = "OkStatus" -> \E n \in ns : f[n] = "fail"
    [] v = "OkNone" -> \E n \in ns : f[n] = "killed"
    [] v = "Err" -> HasCycle(ns, es) \/ c \/ \E n \in ns : f[n] = "error"
    [] v = "panic" -> c \/ \E n \in ns : f[n] = "panic"

Init ==
  /\ nodes \in SUBSET Universe
  /\ edges \in SUBSET (nodes \X nodes)
  /\ fate = [n \in nodes |-> "waiting"]
  /\ cut = FALSE
  /\ verdict = "open"

Start(n) ==
  /\ verdict = "open"
  /\ fate[n] = "waiting"
  /\ \A m \in Outgoing(nodes, edges, n) : fate[m] = "ok"
  /\ fate' = [fate EXCEPT ![n] = "running"]
  /\ UNCHANGED <<nodes, edges, cut, verdict>>

Finish(n) ==
  /\ verdict = "open"
  /\ fate[n] = "running"
  /\ \E e \in Ends : fate' = [fate EXCEPT ![n] = e]
  /\ UNCHANGED <<nodes, edges, cut, verdict>>

\* The caller's update_progress failed or panicked.
CutShort ==
  /\ verdict = "open"
  /\ cut' = TRUE
  /\ UNCHANGED <<nodes, edges, fate, verdict>>

Return ==
  /\ verdict = "open"
  /\ \A n \in nodes : fate[n] # "running"
  /\ cut' \in {cut, TRUE}
  /\ verdict' \in Verdicts
  /\ Justified(verdict', nodes, edges, fate, cut')
  /\ UNCHANGED <<nodes, edges, fate>>

Next == (\E n \in nodes : Start(n) \/ Finish(n)) \/ CutShort \/ Return

Spec == Init /\ [][Next]_vars

===============================================================================
