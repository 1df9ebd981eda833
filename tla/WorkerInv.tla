------------------------------ MODULE WorkerInv -------------------------------
(***************************************************************************)
(* The inductive invariant behind the properties of Worker: where in the   *)
(* pipe main thread -> task queue -> worker -> result queue -> main thread *)
(* each task is, and that it is in one place only.                         *)
(***************************************************************************)
EXTENDS Worker

Queued(n) == \E j \in 1..Len(taskq) : taskq[j] = n
Answered(n) == \E j \in 1..Len(resultq) : resultq[j].index = n
Ended == {"ok", "fail", "killed", "error"}

\* Queued tasks have not started and are queued once.
QueueFresh ==
  /\ \A j \in 1..Len(taskq) : fate[taskq[j]] = "waiting"
  /\ \A j, k \in 1..Len(taskq) : taskq[j] = taskq[k] => j = k

\* The tasks the sending loops still have to look at were not sent before.
TodoFresh ==
  /\ pc \in {"seed", "dispatch"} => \A n \in todo : fate[n] = "waiting" /\ ~Queued(n)
  /\ pc = "seed" => todo \subseteq Externals(nodes, edges)

\* What was sent was ready when it was, and stays so.
SentReady ==
  \A n \in nodes : fate[n] # "waiting" \/ Queued(n) => IsReady(nodes, edges, completed, n)

\* A running task has one worker (or the calling thread), and vice versa.
RunningOnce ==
  /\ \A w \in Workers : wpc[w] = "busy" => fate[wtask[w]] = "running"
  /\ \A v, w \in Workers : wpc[v] = "busy" /\ wpc[w] = "busy" /\ wtask[v] = wtask[w] => v = w
  /\ \A n \in nodes : fate[n] = "running" =>
       pc = "single" \/ \E w \in Workers : wpc[w] = "busy" /\ wtask[w] = n

\* A queued result is the task's own, and there is one per task.
ResultsTrue ==
  /\ \A j \in 1..Len(resultq) :
       resultq[j].result = fate[resultq[j].index] /\ resultq[j].index \notin reported
  /\ \A j, k \in 1..Len(resultq) : resultq[j].index = resultq[k].index => j = k

\* An ended task is reported or its result is on the way.
NoResultLost ==
  /\ \A n \in nodes : fate[n] \in Ended => n \in reported \/ Answered(n) \/ pc = "report"
  /\ \A n \in reported : fate[n] \in Ended
  /\ \A n \in completed : fate[n] = "ok"

Counted == IsFiniteSet(reported) /\ count = Cardinality(reported)

\* A worker's panic left a task behind; workers exit only after the sender did.
PanicsSeen ==
  /\ (\E w \in Workers : wpc[w] = "panicked") => \E n \in nodes : fate[n] = "panic"
  /\ Sending => \A w \in Workers : wpc[w] # "exited"

\* What is known at each place of the calling thread.
Phases ==
  /\ pc \in {"start", "single", "unwind", "report"} =>
       taskq = <<>> /\ resultq = <<>> /\ completed = {} /\ reported = {} /\ ~cut
       /\ \A w \in Workers : wpc[w] = "idle"
  /\ pc = "start" => \A n \in nodes : fate[n] = "waiting"
  /\ pc \in {"single", "unwind", "report"} => Cardinality(nodes) = 1
  /\ pc = "single" => \A n \in nodes : fate[n] = "running"
  /\ pc = "report" => \A n \in nodes : fate[n] \in Ended
  /\ pc = "unwind" => outcome = "panic"
  /\ pc = "seed" => completed = {}
  /\ Sending => completed = reported /\ ~cut
  /\ pc = "collect" => taskq = <<>>
  /\ pc \in {"join", "done"} /\ ~cut =>
       resultq = <<>> /\ \A w \in Workers : wpc[w] # "busy" /\ (taskq = <<>> \/ Gone(w))
  /\ pc = "done" => \A w \in Workers : wpc[w] # "busy" /\ (taskq = <<>> \/ Gone(w))

\* The result to be returned has its cause as soon as it is known.
OutcomeCause ==
  /\ outcome = "none" <=> pc \in {"start", "single", "seed", "recv", "dispatch"}
  /\ outcome # "none" => Order!Justified(outcome, nodes, edges, fate, cut)

IndInv ==
  /\ TypeOK /\ QueueFresh /\ TodoFresh /\ SentReady /\ RunningOnce /\ ResultsTrue
  /\ NoResultLost /\ Counted /\ PanicsSeen /\ Phases /\ OutcomeCause

===============================================================================
