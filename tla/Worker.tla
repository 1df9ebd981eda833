-------------------------------- MODULE Worker --------------------------------
(***************************************************************************)
(* execute_graph and execute_until_failed of src/worker.rs: the thread     *)
(* that called execute_graph hands ready tasks to a pool of worker threads *)
(* over one unbounded channel and receives their results over another.     *)
(* The first bad result stops the dispatch; queued tasks are then thrown   *)
(* away and the running ones waited for.  validate_graph is one step here  *)
(* (HasCycle); ValidateGraph is its loop.                                  *)
(***************************************************************************)
EXTENDS BuildGraph, Sequences

CONSTANTS
  Universe,                     \* the nodes a graph may have
  ProcessLimit,                 \* config.process_limit
  TaskEnds,                     \* how execute_compiler may end
  ProgressEnds,                 \* how update_progress may end
  None                          \* the task of a worker without one

ASSUME UniverseFinite == IsFiniteSet(Universe)
ASSUME LimitNatural == ProcessLimit \in Nat
ASSUME NoneIsNoNode == None \notin Universe
\* Some(0), another Some(_), None (killed by a signal), Err(_), unwinding.
ASSUME TaskEndsKnown == TaskEnds \subseteq {"ok", "fail", "killed", "error", "panic"}
\* print_task_result returns, returns the error of a write, or println! panics.
ASSUME ProgressEndsKnown == ProgressEnds \subseteq {"ok", "err", "panic"}

VARIABLES
  nodes, edges,                 \* the build graph, never changed
  pc,                           \* where the calling thread is
  todo,                         \* what is left of the for loop over neighbours
  completed, count,             \* locals of execute_until_failed, execute_graph
  taskq, resultq,               \* the two channels
  wpc, wtask,                   \* each worker thread and its task
  outcome,                      \* what the call returns, "none" until known
  fate, reported, cut           \* history: what became of each task, which
                                \* ones update_progress saw, whether it failed

graph == <<nodes, edges>>
main == <<pc, todo, completed, count, outcome>>
workers == <<wpc, wtask>>
history == <<fate, reported, cut>>
vars == <<graph, main, taskq, resultq, workers, history>>

\* max(1, min(process_limit, graph.node_count()))
NumCpus ==
  LET least == IF ProcessLimit < Cardinality(nodes) THEN ProcessLimit ELSE Cardinality(nodes)
  IN  IF least < 1 THEN 1 ELSE least
Workers == 0..(NumCpus - 1)

\* result.map(|output| output.status), for a result that is not a panic.
StatusOf(r) ==
  CASE r = "ok" -> "Ok0" [] r = "fail" -> "OkStatus" [] r = "killed" -> "OkNone" [] OTHER -> "Err"

\* OutputInfo::success: a task killed by a signal has no status and failed.
Success(r) == r = "ok"

\* The task channel is open while execute_until_failed, its owner, runs.
Sending == pc \in {"seed", "recv", "dispatch"}
Gone(w) == wpc[w] \in {"exited", "panicked"}

Init ==
  /\ nodes \in SUBSET Universe
  /\ edges \in SUBSET (nodes \X nodes)
  /\ pc = "start" /\ todo = {} /\ completed = {} /\ count = 0
  /\ taskq = <<>> /\ resultq = <<>>
  /\ wpc = [w \in Workers |-> "idle"]
  /\ wtask = [w \in Workers |-> None]
  /\ outcome = "none"
  /\ fate = [n \in nodes |-> "waiting"]
  /\ reported = {} /\ cut = FALSE

-------------------------------------------------------------------------------
(* The calling thread.                                                     *)

Return(v) ==
  /\ pc' = "done" /\ outcome' = v
  /\ UNCHANGED <<graph, todo, completed, count, taskq, resultq, workers, history>>

RejectCycles == pc = "start" /\ HasCycle(nodes, edges) /\ Return("Err")

ReturnEmpty == pc = "start" /\ nodes = {} /\ Return("Ok0")

\* A graph of one task is executed by the calling thread itself.
StartSingle ==
  /\ pc = "start" /\ ~HasCycle(nodes, edges) /\ Cardinality(nodes) = 1
  /\ pc' = "single"
  /\ fate' = [n \in nodes |-> "running"]
  /\ UNCHANGED <<graph, todo, completed, count, taskq, resultq, workers, outcome, reported, cut>>

FinishSingle ==
  /\ pc = "single"
  /\ \E r \in TaskEnds :
       /\ fate' = [n \in nodes |-> r]
       /\ pc' = IF r = "panic" THEN "unwind" ELSE "report"
       /\ outcome' = IF r = "panic" THEN "panic" ELSE StatusOf(r)
  /\ UNCHANGED <<graph, todo, completed, count, taskq, resultq, workers, reported, cut>>

UnwindSingle == pc = "unwind" /\ Return("panic")

\* update_progress for the only task; its error goes before the task's result.
ReportSingle ==
  /\ pc = "report"
  /\ count' = 1 /\ reported' = nodes
  /\ \E p \in ProgressEnds :
       /\ cut' = (p # "ok")
       /\ outcome' = CASE p = "ok" -> outcome [] p = "err" -> "Err" [] p = "panic" -> "panic"
  /\ pc' = "done"
  /\ UNCHANGED <<graph, todo, completed, taskq, resultq, workers, fate>>

\* Spawns the workers and enters execute_until_failed.
Launch ==
  /\ pc = "start" /\ ~HasCycle(nodes, edges) /\ Cardinality(nodes) > 1
  /\ pc' = "seed"
  /\ todo' = Externals(nodes, edges)
  /\ UNCHANGED <<graph, completed, count, taskq, resultq, workers, outcome, history>>

\* One round of the loop over graph.externals; the end of that loop.
Seed ==
  /\ pc = "seed"
  /\ \E n \in todo : taskq' = Append(taskq, n) /\ todo' = todo \ {n}
  /\ UNCHANGED <<graph, pc, completed, count, resultq, workers, outcome, history>>

SeedDone ==
  /\ pc = "seed" /\ todo = {}
  /\ pc' = "recv"
  /\ UNCHANGED <<graph, todo, completed, count, taskq, resultq, workers, outcome, history>>

\* Takes the next result and passes it to update_progress, which ends with p.
Report(p) ==
  /\ resultq # <<>>
  /\ p \in ProgressEnds
  /\ resultq' = Tail(resultq)
  /\ count' = count + 1
  /\ reported' = reported \cup {Head(resultq).index}
  /\ cut' = (cut \/ p # "ok")
  /\ UNCHANGED <<graph, taskq, workers, fate>>

\* Mutant: every task is looked at again, not only the dependents.
ReceiveOkRescan ==
  /\ pc = "recv" /\ Report("ok")
  /\ Success(Head(resultq).result)
  /\ completed' = completed \cup {Head(resultq).index}
  /\ todo' = nodes
  /\ pc' = "dispatch"
  /\ UNCHANGED outcome

\* The success path of the loop body up to its inner loop.
ReceiveOk ==
  /\ pc = "recv" /\ Report("ok")
  /\ Success(Head(resultq).result)
  /\ completed' = completed \cup {Head(resultq).index}
  /\ todo' = Incoming(nodes, edges, Head(resultq).index)
  /\ pc' = "dispatch"
  /\ UNCHANGED outcome

\* A bad result, or a failed update_progress, ends execute_until_failed.
ReceiveBad ==
  /\ pc = "recv"
  /\ \/ Report("ok") /\ ~Success(Head(resultq).result) /\ outcome' = StatusOf(Head(resultq).result)
     \/ Report("err") /\ outcome' = "Err"
  /\ pc' = "drain"
  /\ UNCHANGED <<todo, completed>>

\* A panic of the calling thread skips what follows; the scope still joins.
ReceivePanic ==
  /\ pc = "recv" /\ Report("panic")
  /\ pc' = "join" /\ outcome' = "panic"
  /\ UNCHANGED <<todo, completed>>

\* "Unexpected end of result pipe": no worker is left.
ReceiveClosed ==
  /\ pc = "recv" /\ resultq = <<>> /\ \A w \in Workers : Gone(w)
  /\ pc' = "join" /\ outcome' = "panic"
  /\ UNCHANGED <<graph, todo, completed, count, taskq, resultq, workers, history>>

\* One round of the loop over the tasks that depend on the completed one.
Dispatch ==
  /\ pc = "dispatch"
  /\ \E n \in todo :
       /\ todo' = todo \ {n}
       /\ taskq' = IF IsReady(nodes, edges, completed, n) THEN Append(taskq, n) ELSE taskq
  /\ UNCHANGED <<graph, pc, completed, count, resultq, workers, outcome, history>>

\* The end of that loop: Ok(Some(0)) once every result was counted.
DispatchDone ==
  /\ pc = "dispatch" /\ todo = {}
  /\ IF count = Cardinality(nodes)
       THEN pc' = "drain" /\ outcome' = "Ok0"
       ELSE pc' = "recv" /\ outcome' = outcome
  /\ UNCHANGED <<graph, todo, completed, count, taskq, resultq, workers, history>>

\* for _ in rx_task.try_iter() {}: task by task, while workers receive too.
Drain ==
  /\ pc = "drain" /\ taskq # <<>>
  /\ taskq' = Tail(taskq)
  /\ UNCHANGED <<graph, main, resultq, workers, history>>

\* Mutant: the clean-up loop is missing.
DrainDoneAtOnce ==
  /\ pc = "drain"
  /\ pc' = "collect"
  /\ UNCHANGED <<graph, todo, completed, count, taskq, resultq, workers, outcome, history>>

DrainDone ==
  /\ pc = "drain" /\ taskq = <<>>
  /\ pc' = "collect"
  /\ UNCHANGED <<graph, todo, completed, count, taskq, resultq, workers, outcome, history>>

\* for message in rx_result.iter(): what was running is reported as well.
Collect ==
  /\ pc = "collect"
  /\ \/ Report("ok") /\ UNCHANGED <<pc, outcome>>
     \/ Report("err") /\ pc' = "join" /\ outcome' = "Err"
     \/ Report("panic") /\ pc' = "join" /\ outcome' = "panic"
  /\ UNCHANGED <<todo, completed>>

\* Mutant: try_iter in place of iter, which waits for the workers.
CollectDoneAtOnce ==
  /\ pc = "collect" /\ resultq = <<>>
  /\ pc' = "join"
  /\ UNCHANGED <<graph, todo, completed, count, taskq, resultq, workers, outcome, history>>

CollectDone ==
  /\ pc = "collect" /\ resultq = <<>> /\ \A w \in Workers : Gone(w)
  /\ pc' = "join"
  /\ UNCHANGED <<graph, todo, completed, count, taskq, resultq, workers, outcome, history>>

\* Mutant: detached threads in place of a scope.
JoinNone ==
  /\ pc = "join"
  /\ pc' = "done"
  /\ UNCHANGED <<graph, todo, completed, count, taskq, resultq, workers, outcome, history>>

\* The scope joins every worker and .unwrap() passes a worker's panic on.
Join ==
  /\ pc = "join" /\ \A w \in Workers : Gone(w)
  /\ pc' = "done"
  /\ outcome' = IF \E w \in Workers : wpc[w] = "panicked" THEN "panic" ELSE outcome
  /\ UNCHANGED <<graph, todo, completed, count, taskq, resultq, workers, history>>

Main ==
  \/ RejectCycles \/ ReturnEmpty \/ StartSingle \/ FinishSingle \/ UnwindSingle \/ ReportSingle
  \/ Launch \/ Seed \/ SeedDone
  \/ ReceiveOk \/ ReceiveBad \/ ReceivePanic \/ ReceiveClosed
  \/ Dispatch \/ DispatchDone \/ Drain \/ DrainDone \/ Collect \/ CollectDone \/ Join

-------------------------------------------------------------------------------
(* A worker thread.                                                        *)

WorkerRecv(w) ==
  /\ wpc[w] = "idle" /\ taskq # <<>>
  /\ taskq' = Tail(taskq)
  /\ wpc' = [wpc EXCEPT ![w] = "busy"]
  /\ wtask' = [wtask EXCEPT ![w] = Head(taskq)]
  /\ fate' = [fate EXCEPT ![Head(taskq)] = "running"]
  /\ UNCHANGED <<graph, main, resultq, reported, cut>>

\* Mutant: execute_graph keeps tx_task until it returns.
WorkerExitLate(w) ==
  /\ wpc[w] = "idle" /\ taskq = <<>>
  /\ pc = "join"
  /\ wpc' = [wpc EXCEPT ![w] = "exited"]
  /\ UNCHANGED <<graph, main, taskq, resultq, wtask, history>>

\* recv fails once the queue is empty and its sender dropped.
WorkerExit(w) ==
  /\ wpc[w] = "idle" /\ taskq = <<>>
  /\ pc \in {"drain", "collect", "join"}
  /\ wpc' = [wpc EXCEPT ![w] = "exited"]
  /\ UNCHANGED <<graph, main, taskq, resultq, wtask, history>>

\* execute_compiler returns; the send succeeds, rx_result outlives the scope.
WorkerSend(w) ==
  /\ wpc[w] = "busy"
  /\ \E r \in TaskEnds \ {"panic"} :
       /\ resultq' = Append(resultq, [index |-> wtask[w], result |-> r])
       /\ fate' = [fate EXCEPT ![wtask[w]] = r]
  /\ wpc' = [wpc EXCEPT ![w] = "idle"]
  /\ wtask' = [wtask EXCEPT ![w] = None]
  /\ UNCHANGED <<graph, main, taskq, reported, cut>>

\* execute_compiler panics: the thread is gone and its task has no result.
WorkerPanic(w) ==
  /\ wpc[w] = "busy" /\ "panic" \in TaskEnds
  /\ fate' = [fate EXCEPT ![wtask[w]] = "panic"]
  /\ wpc' = [wpc EXCEPT ![w] = "panicked"]
  /\ wtask' = [wtask EXCEPT ![w] = None]
  /\ UNCHANGED <<graph, main, taskq, resultq, reported, cut>>

WorkerStep(w) == WorkerRecv(w) \/ WorkerExit(w) \/ WorkerSend(w) \/ WorkerPanic(w)

\* The call has returned: the only state in which nothing is left to do.
Terminated == pc = "done" /\ UNCHANGED vars

Next == Main \/ (\E w \in Workers : WorkerStep(w)) \/ Terminated

\* The threads of the process all get to run, and a task that has started
\* ends: nothing in the code bounds the time a compiler takes.
Fairness ==
  /\ WF_vars(Main)
  /\ \A w \in 0..ProcessLimit : WF_vars(w \in Workers /\ WorkerStep(w))

Spec == Init /\ [][Next]_vars /\ Fairness

-------------------------------------------------------------------------------
\* Types: messages name tasks of the graph, and exactly a busy worker has one.
TypeOK ==
  /\ nodes \subseteq Universe /\ edges \subseteq nodes \X nodes
  /\ pc \in {"start", "single", "unwind", "report", "seed", "recv", "dispatch",
             "drain", "collect", "join", "done"}
  /\ todo \subseteq nodes /\ completed \subseteq nodes /\ count \in Nat
  /\ taskq \in Seq(nodes)
  /\ resultq \in Seq([index : nodes, result : TaskEnds \ {"panic"}])
  /\ wpc \in [Workers -> {"idle", "busy", "exited", "panicked"}]
  /\ wtask \in [Workers -> nodes \cup {None}]
  /\ \A w \in Workers : wpc[w] = "busy" <=> wtask[w] # None
  /\ outcome \in {"none", "Ok0", "OkStatus", "OkNone", "Err", "panic"}
  /\ fate \in [nodes -> {"waiting", "running"} \cup TaskEnds]
  /\ reported \subseteq nodes /\ cut \in BOOLEAN

\* A task runs only when all it depends on has run and succeeded, whatever the
\* order in which the workers finished.
DependencyOrder ==
  \A w \in Workers : wpc[w] = "busy" =>
    \A m \in Outgoing(nodes, edges, wtask[w]) : fate[m] = "ok"

\* No task is handed to a worker twice, although it is looked at once for each
\* of its dependencies (worker.rs:164).
StartsOnce ==
  [][\A w \in Workers : wpc[w] = "idle" /\ wpc'[w] = "busy" => fate[wtask'[w]] = "waiting"]_vars

\* The assertion at the head of the receive loop (worker.rs:154) never fails.
AssertionHolds == pc = "recv" /\ resultq # <<>> => Head(resultq).index \notin completed

\* update_progress is told k of n for the k-th task it sees and sees none twice.
ProgressCount == count = Cardinality(reported) /\ count <= Cardinality(nodes)

\* Unless update_progress itself failed, every task that was started has been
\* passed to it when execute_graph returns, also those still running when
\* another one failed.
ReportedAll ==
  pc = "done" /\ ~cut => reported = {n \in nodes : fate[n] \notin {"waiting", "panic"}}

\* Once the queue has been cleaned up after a failure no further task starts.
NoStartAfterDrain ==
  [][pc = "collect" => \A w \in Workers : ~(wpc[w] = "idle" /\ wpc'[w] = "busy")]_vars

\* The call returns (or panics): no thread waits for another one for ever.
Terminates == <>(pc = "done")

\* Only a task that panics can keep it from returning.
TerminatesUnlessPanic == <>(pc = "done" \/ \E n \in nodes : fate[n] = "panic")

Order == INSTANCE BuildOrder WITH verdict <- IF pc = "done" THEN outcome ELSE "open"

\* Some(0) is returned only if every task succeeded, and every other result
\* has its cause: a failed task, a killed one, an error, a cycle, a panic.  The
\* refinement below contains it.
VerdictHonest ==
  pc = "done" => outcome # "none" /\ Order!Justified(outcome, nodes, edges, fate, cut)

\* The pool of threads implements the order-only view of a build.
ImplementsOrder == Order!Spec

===============================================================================
