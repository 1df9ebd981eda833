---------------------------- MODULE WorkerProofs -----------------------------
(***************************************************************************)
(* The properties of Worker for every finite universe of tasks, every      *)
(* graph over it and every process limit.  IndInv of WorkerInv follows     *)
(* each task through the two channels; one lemma per action shows that the *)
(* action preserves it.                                                    *)
(***************************************************************************)
EXTENDS WorkerInv, FiniteSetTheorems, TLAPS

\* The pool does not change while the graph does not.
LEMMA PoolFixed == nodes' = nodes => Workers' = Workers
  BY DEF Workers, NumCpus

\* There is always at least one worker.
LEMMA PoolNotEmpty == ASSUME IsFiniteSet(nodes) PROVE 0 \in Workers
<1>1. Cardinality(nodes) \in Nat
  BY FS_CardinalityType
<1> QED
  BY <1>1, LimitNatural DEF Workers, NumCpus

\* The graph is finite, and so are the sets of tasks the model keeps.
LEMMA NodesFinite ==
  ASSUME TypeOK
  PROVE  /\ IsFiniteSet(nodes) /\ Cardinality(nodes) \in Nat
         /\ \A S \in SUBSET nodes :
              /\ IsFiniteSet(S) /\ Cardinality(S) \in Nat
              /\ Cardinality(S) <= Cardinality(nodes)
              /\ Cardinality(S) = Cardinality(nodes) => S = nodes
<1>1. IsFiniteSet(nodes)
  BY UniverseFinite, FS_Subset DEF TypeOK
<1> QED
  BY <1>1, FS_Subset, FS_CardinalityType

\* BuildOrder sees the same cycles.
LEMMA SameCycles ==
  ASSUME NEW ns, NEW es, HasCycle(ns, es)
  PROVE  Order!HasCycle(ns, es)
  BY DEF HasCycle, IsCyclicCore, Order!HasCycle, Order!IsCyclicCore

\* A verdict keeps its cause while no ended task changes.
LEMMA CauseStays ==
  ASSUME NEW v, NEW ns, NEW es, NEW f, NEW g, NEW c \in BOOLEAN, NEW d \in BOOLEAN,
         v \in {"Ok0", "OkStatus", "OkNone", "Err", "panic"},
         Order!Justified(v, ns, es, f, c), c => d,
         \A n \in ns : f[n] \in {"ok", "fail", "killed", "error", "panic"} => g[n] = f[n]
  PROVE  Order!Justified(v, ns, es, g, d)
<1>1. CASE v = "Ok0"
  BY <1>1 DEF Order!Justified
<1>2. CASE v = "OkStatus"
  BY <1>2 DEF Order!Justified
<1>3. CASE v = "OkNone"
  BY <1>3 DEF Order!Justified
<1>4. CASE v = "Err"
  BY <1>4 DEF Order!Justified
<1>5. CASE v = "panic"
  BY <1>5 DEF Order!Justified
<1> QED
  BY <1>1, <1>2, <1>3, <1>4, <1>5

\* The oldest message of a channel and the ones behind it.
LEMMA HeadAndTail ==
  ASSUME NEW S, NEW q \in Seq(S), q # <<>>
  PROVE  /\ Len(q) \in Nat /\ Len(q) >= 1
         /\ Head(q) = q[1] /\ Head(q) \in S
         /\ Tail(q) \in Seq(S) /\ Len(Tail(q)) = Len(q) - 1
         /\ \A j \in 1..Len(Tail(q)) : j + 1 \in 1..Len(q) /\ Tail(q)[j] = q[j + 1]
         /\ \A k \in 1..Len(q) : k = 1 \/ (k - 1 \in 1..Len(Tail(q)) /\ Tail(q)[k - 1] = q[k])
  OBVIOUS

\* Every message of a channel is of the channel's type.
LEMMA Element ==
  ASSUME NEW S, NEW q \in Seq(S), NEW j \in 1..Len(q)
  PROVE  q[j] \in S
  OBVIOUS

\* A queued result names a task of the graph and is no panic.
LEMMA ResultElement ==
  ASSUME TypeOK, NEW j \in 1..Len(resultq)
  PROVE  resultq[j].index \in nodes /\ resultq[j].result \in Ended
<1> DEFINE R == [index : nodes, result : TaskEnds \ {"panic"}]
<1>1. resultq \in Seq(R)
  BY DEF TypeOK
<1>2. resultq[j] \in R
  <2> HIDE DEF R
  <2> QED
    BY <1>1, Element
<1> QED
  BY <1>2, TaskEndsKnown DEF Ended

\* A channel with one more message.
LEMMA Appended ==
  ASSUME NEW S, NEW q \in Seq(S), NEW e \in S
  PROVE  /\ Len(q) \in Nat /\ Append(q, e) \in Seq(S) /\ Len(Append(q, e)) = Len(q) + 1
         /\ \A j \in 1..Len(q) : Append(q, e)[j] = q[j]
         /\ Append(q, e)[Len(q) + 1] = e
  OBVIOUS

\* What the steps that only move the calling thread on leave alone.
LEMMA FrameKeeps ==
  ASSUME IndInv, UNCHANGED <<graph, completed, count, taskq, resultq, workers, history>>
  PROVE  QueueFresh' /\ SentReady' /\ ResultsTrue' /\ Counted'
  BY DEF IndInv, graph, workers, history, QueueFresh, SentReady, Queued, IsReady, Outgoing,
         ResultsTrue, Counted

\* What taking a result and reporting it preserves: each result is reported
\* once and none is lost.
LEMMA ReportKeeps ==
  ASSUME IndInv, NEW p, Report(p), pc \notin {"start", "single", "unwind", "report"}
  PROVE  /\ nodes' = nodes /\ edges' = edges /\ Workers' = Workers
         /\ resultq' \in Seq([index : nodes, result : TaskEnds \ {"panic"}])
         /\ Head(resultq).index \in nodes \ reported
         /\ Head(resultq).result = fate[Head(resultq).index]
         /\ Head(resultq).result \in Ended
         /\ reported' \subseteq nodes /\ count' \in Nat
         /\ QueueFresh' /\ ResultsTrue' /\ Counted'
         /\ \A n \in nodes : fate[n] \in Ended => n \in reported' \/ Answered(n)'
         /\ \A n \in reported' : fate[n] \in Ended
<1> DEFINE R == [index : nodes, result : TaskEnds \ {"panic"}]
<1> DEFINE h == Head(resultq)
<1>0. /\ nodes' = nodes /\ edges' = edges /\ Workers' = Workers
      /\ fate' = fate /\ taskq' = taskq /\ count' = count + 1
      /\ resultq' = Tail(resultq) /\ reported' = reported \cup {h.index}
      /\ resultq \in Seq(R) /\ resultq # <<>>
  BY PoolFixed DEF IndInv, TypeOK, Report, graph, workers
<1>1. /\ Len(resultq) \in Nat /\ Len(resultq) >= 1
      /\ h = resultq[1] /\ h \in R
      /\ resultq' \in Seq(R) /\ Len(resultq') = Len(resultq) - 1
      /\ \A j \in 1..Len(resultq') : j + 1 \in 1..Len(resultq) /\ resultq'[j] = resultq[j + 1]
      /\ \A k \in 1..Len(resultq) :
           k = 1 \/ (k - 1 \in 1..Len(resultq') /\ resultq'[k - 1] = resultq[k])
  BY <1>0, HeadAndTail
<1>2. h.index \in nodes /\ h.index \notin reported /\ h.result = fate[h.index]
  BY <1>1 DEF IndInv, ResultsTrue
<1>3. h.result \in Ended
  <2>1. h.result \in TaskEnds \ {"panic"}
    BY <1>1
  <2> QED
    BY <2>1, TaskEndsKnown DEF Ended
<1>4. reported' \subseteq nodes /\ count' \in Nat
  BY <1>0, <1>2 DEF IndInv, TypeOK
<1>5. QueueFresh'
  BY <1>0 DEF IndInv, QueueFresh
<1>6. ResultsTrue'
  <2>1. ASSUME NEW j \in 1..Len(resultq')
        PROVE  resultq'[j].result = fate[resultq'[j].index] /\ resultq'[j].index \notin reported'
    <3>1. j + 1 \in 1..Len(resultq) /\ resultq'[j] = resultq[j + 1] /\ 1 \in 1..Len(resultq) /\ j + 1 # 1
      BY <1>1
    <3>2. resultq[j + 1].index # h.index
      BY <3>1, <1>1 DEF IndInv, ResultsTrue
    <3> QED
      BY <3>1, <3>2, <1>0 DEF IndInv, ResultsTrue
  <2>2. ASSUME NEW j \in 1..Len(resultq'), NEW k \in 1..Len(resultq'),
               resultq'[j].index = resultq'[k].index
        PROVE  j = k
    <3>1. \A a, b \in 1..Len(resultq) : resultq[a].index = resultq[b].index => a = b
      BY DEF IndInv, ResultsTrue
    <3>2. j + 1 \in 1..Len(resultq) /\ resultq'[j] = resultq[j + 1]
      BY <1>1
    <3>3. k + 1 \in 1..Len(resultq) /\ resultq'[k] = resultq[k + 1]
      BY <1>1
    <3>4. resultq[j + 1].index = resultq[k + 1].index
      BY <2>2, <3>2, <3>3
    <3>5. j + 1 = k + 1
      BY <3>1, <3>2, <3>3, <3>4
    <3> QED
      BY <3>5, <1>1
  <2> QED
    BY <2>1, <2>2, <1>0 DEF ResultsTrue
<1>7. Counted'
  BY <1>0, <1>2, FS_AddElement DEF IndInv, Counted
<1>8. \A n \in nodes : fate[n] \in Ended => n \in reported' \/ Answered(n)'
  <2> SUFFICES ASSUME NEW n \in nodes, fate[n] \in Ended, n \notin reported'
               PROVE  Answered(n)'
    OBVIOUS
  <2>1. PICK k \in 1..Len(resultq) : resultq[k].index = n
    BY <1>0 DEF IndInv, NoResultLost, Answered
  <2>2. k # 1
    BY <2>1, <1>0, <1>1
  <2> QED
    BY <2>1, <2>2, <1>1 DEF Answered
<1>9. \A n \in reported' : fate[n] \in Ended
  BY <1>0, <1>2, <1>3 DEF IndInv, NoResultLost
<1> QED
  BY <1>0, <1>1, <1>2, <1>3, <1>4, <1>5, <1>6, <1>7, <1>8, <1>9

\* A cyclic graph is turned down: the cycle is the cause of Err.
LEMMA RejectCyclesInd ==
  ASSUME IndInv, RejectCycles
  PROVE  IndInv'
<1> USE DEF IndInv, graph, main, workers, history
<1>0. nodes' = nodes /\ edges' = edges /\ Workers' = Workers
  BY PoolFixed DEF RejectCycles, Return
<1>1. QueueFresh' /\ SentReady' /\ ResultsTrue' /\ Counted'
  BY FrameKeeps DEF RejectCycles, Return
<1>2. TypeOK'
  BY <1>0 DEF RejectCycles, Return, TypeOK
<1>3. TodoFresh'
  BY <1>0 DEF RejectCycles, Return, TodoFresh, Queued, TypeOK
<1>4. RunningOnce'
  BY <1>0 DEF RejectCycles, Return, RunningOnce, TypeOK
<1>5. NoResultLost'
  BY <1>0 DEF RejectCycles, Return, NoResultLost, Answered, Ended, TypeOK
<1>6. PanicsSeen'
  BY <1>0 DEF RejectCycles, Return, PanicsSeen, Sending, TypeOK
<1>7. Phases'
  BY <1>0 DEF RejectCycles, Return, Phases, Sending, Gone, TypeOK
<1>8. OutcomeCause'
  BY <1>0, SameCycles DEF RejectCycles, Return, OutcomeCause, Order!Justified
<1> QED
  BY <1>1, <1>2, <1>3, <1>4, <1>5, <1>6, <1>7, <1>8

\* An empty graph succeeds at once.
LEMMA ReturnEmptyInd ==
  ASSUME IndInv, ReturnEmpty
  PROVE  IndInv'
<1> USE DEF IndInv, graph, main, workers, history
<1>0. nodes' = nodes /\ edges' = edges /\ Workers' = Workers
  BY PoolFixed DEF ReturnEmpty, Return
<1>1. QueueFresh' /\ SentReady' /\ ResultsTrue' /\ Counted'
  BY FrameKeeps DEF ReturnEmpty, Return
<1>2. TypeOK'
  BY <1>0 DEF ReturnEmpty, Return, TypeOK
<1>3. TodoFresh'
  BY <1>0 DEF ReturnEmpty, Return, TodoFresh, Queued, TypeOK
<1>4. RunningOnce'
  BY <1>0 DEF ReturnEmpty, Return, RunningOnce, TypeOK
<1>5. NoResultLost'
  BY <1>0 DEF ReturnEmpty, Return, NoResultLost, Answered, Ended, TypeOK
<1>6. PanicsSeen'
  BY <1>0 DEF ReturnEmpty, Return, PanicsSeen, Sending, TypeOK
<1>7. Phases'
  BY <1>0 DEF ReturnEmpty, Return, Phases, Sending, Gone, TypeOK
<1>8. OutcomeCause'
  BY <1>0 DEF ReturnEmpty, Return, OutcomeCause, Order!Justified, TypeOK
<1> QED
  BY <1>1, <1>2, <1>3, <1>4, <1>5, <1>6, <1>7, <1>8

\* The panic of the only task is passed on.
LEMMA UnwindSingleInd ==
  ASSUME IndInv, UnwindSingle
  PROVE  IndInv'
<1> USE DEF IndInv, graph, main, workers, history
<1>0. nodes' = nodes /\ edges' = edges /\ Workers' = Workers
  BY PoolFixed DEF UnwindSingle, Return
<1>1. QueueFresh' /\ SentReady' /\ ResultsTrue' /\ Counted'
  BY FrameKeeps DEF UnwindSingle, Return
<1>2. TypeOK'
  BY <1>0 DEF UnwindSingle, Return, TypeOK
<1>3. TodoFresh'
  BY <1>0 DEF UnwindSingle, Return, TodoFresh, Queued, TypeOK
<1>4. RunningOnce'
  BY <1>0 DEF UnwindSingle, Return, RunningOnce, TypeOK
<1>5. NoResultLost'
  BY <1>0 DEF UnwindSingle, Return, NoResultLost, Answered, Ended, TypeOK
<1>6. PanicsSeen'
  BY <1>0 DEF UnwindSingle, Return, PanicsSeen, Sending, TypeOK
<1>7. Phases'
  BY <1>0 DEF UnwindSingle, Return, Phases, Sending, Gone, TypeOK
<1>8. OutcomeCause'
  BY <1>0 DEF UnwindSingle, Return, OutcomeCause, Phases
<1> QED
  BY <1>1, <1>2, <1>3, <1>4, <1>5, <1>6, <1>7, <1>8

\* The executor begins with the tasks that depend on nothing.
LEMMA LaunchInd ==
  ASSUME IndInv, Launch
  PROVE  IndInv'
<1> USE DEF IndInv, graph, main, workers, history
<1>0. nodes' = nodes /\ edges' = edges /\ Workers' = Workers
  BY PoolFixed DEF Launch
<1>1. QueueFresh' /\ SentReady' /\ ResultsTrue' /\ Counted'
  BY FrameKeeps DEF Launch
<1>2. TypeOK'
  BY <1>0 DEF Launch, TypeOK, Externals
<1>3. TodoFresh'
  BY <1>0 DEF Launch, TodoFresh, Queued, Phases, TypeOK, Externals, Outgoing
<1>4. RunningOnce'
  BY <1>0 DEF Launch, RunningOnce, TypeOK
<1>5. NoResultLost'
  BY <1>0 DEF Launch, NoResultLost, Answered, Ended, TypeOK
<1>6. PanicsSeen'
  BY <1>0 DEF Launch, PanicsSeen, Sending, Phases
<1>7. Phases'
  BY <1>0 DEF Launch, Phases, Sending, Gone, TypeOK
<1>8. OutcomeCause'
  BY <1>0 DEF Launch, OutcomeCause, Order!Justified, TypeOK
<1> QED
  BY <1>1, <1>2, <1>3, <1>4, <1>5, <1>6, <1>7, <1>8

\* The first tasks have been sent.
LEMMA SeedDoneInd ==
  ASSUME IndInv, SeedDone
  PROVE  IndInv'
<1> USE DEF IndInv, graph, main, workers, history
<1>0. nodes' = nodes /\ edges' = edges /\ Workers' = Workers
  BY PoolFixed DEF SeedDone
<1>1. QueueFresh' /\ SentReady' /\ ResultsTrue' /\ Counted'
  BY FrameKeeps DEF SeedDone
<1>2. TypeOK'
  BY <1>0 DEF SeedDone, TypeOK
<1>3. TodoFresh'
  BY <1>0 DEF SeedDone, TodoFresh, Queued, TypeOK
<1>4. RunningOnce'
  BY <1>0 DEF SeedDone, RunningOnce, TypeOK
<1>5. NoResultLost'
  BY <1>0 DEF SeedDone, NoResultLost, Answered, Ended, TypeOK
<1>6. PanicsSeen'
  BY <1>0 DEF SeedDone, PanicsSeen, Sending, TypeOK
<1>7. Phases'
  BY <1>0 DEF SeedDone, Phases, Sending, Gone, TypeOK
<1>8. OutcomeCause'
  BY <1>0 DEF SeedDone, OutcomeCause
<1> QED
  BY <1>1, <1>2, <1>3, <1>4, <1>5, <1>6, <1>7, <1>8

\* The result pipe ends only when every worker has panicked.
LEMMA ReceiveClosedInd ==
  ASSUME IndInv, ReceiveClosed
  PROVE  IndInv'
<1> USE DEF IndInv, graph, main, workers, history
<1>0. nodes' = nodes /\ edges' = edges /\ Workers' = Workers
  BY PoolFixed DEF ReceiveClosed
<1>1. QueueFresh' /\ SentReady' /\ ResultsTrue' /\ Counted'
  BY FrameKeeps DEF ReceiveClosed
<1>2. TypeOK'
  BY <1>0 DEF ReceiveClosed, TypeOK
<1>3. TodoFresh'
  BY <1>0 DEF ReceiveClosed, TodoFresh, Queued, TypeOK
<1>4. RunningOnce'
  BY <1>0 DEF ReceiveClosed, RunningOnce, TypeOK
<1>5. NoResultLost'
  BY <1>0 DEF ReceiveClosed, NoResultLost, Answered, Ended, TypeOK
<1>6. PanicsSeen'
  BY <1>0 DEF ReceiveClosed, PanicsSeen, Sending, TypeOK
<1>7. Phases'
  BY <1>0 DEF ReceiveClosed, Phases, Sending, Gone, TypeOK
<1>8. OutcomeCause'
  <2>1. 0 \in Workers
    BY NodesFinite, PoolNotEmpty
  <2>2. wpc[0] = "panicked"
    BY <2>1 DEF ReceiveClosed, Gone, PanicsSeen, Sending
  <2>3. \E n \in nodes : fate[n] = "panic"
    BY <2>1, <2>2 DEF PanicsSeen
  <2> QED
    BY <1>0, <2>3 DEF ReceiveClosed, OutcomeCause, Order!Justified
<1> QED
  BY <1>1, <1>2, <1>3, <1>4, <1>5, <1>6, <1>7, <1>8

\* count = node_count means that every task was completed.
LEMMA DispatchDoneInd ==
  ASSUME IndInv, DispatchDone
  PROVE  IndInv'
<1> USE DEF IndInv, graph, main, workers, history
<1>0. nodes' = nodes /\ edges' = edges /\ Workers' = Workers
  BY PoolFixed DEF DispatchDone
<1>1. QueueFresh' /\ SentReady' /\ ResultsTrue' /\ Counted'
  BY FrameKeeps DEF DispatchDone
<1>2. TypeOK'
  BY <1>0 DEF DispatchDone, TypeOK
<1>3. TodoFresh'
  BY <1>0 DEF DispatchDone, TodoFresh, Queued, TypeOK
<1>4. RunningOnce'
  BY <1>0 DEF DispatchDone, RunningOnce, TypeOK
<1>5. NoResultLost'
  BY <1>0 DEF DispatchDone, NoResultLost, Answered, Ended, TypeOK
<1>6. PanicsSeen'
  BY <1>0 DEF DispatchDone, PanicsSeen, Sending, TypeOK
<1>7. Phases'
  BY <1>0 DEF DispatchDone, Phases, Sending, Gone, TypeOK
<1>8. OutcomeCause'
  <2>1. CASE count = Cardinality(nodes)
    <3>1. reported = nodes
      BY <2>1, NodesFinite DEF Counted, TypeOK
    <3>2. \A n \in nodes : fate[n] = "ok"
      BY <3>1 DEF DispatchDone, Phases, Sending, NoResultLost
    <3> QED
      BY <2>1, <3>2, <1>0 DEF DispatchDone, OutcomeCause, Order!Justified
  <2>2. CASE count # Cardinality(nodes)
    BY <2>2, <1>0 DEF DispatchDone, OutcomeCause
  <2> QED
    BY <2>1, <2>2
<1> QED
  BY <1>1, <1>2, <1>3, <1>4, <1>5, <1>6, <1>7, <1>8

\* The queue is empty when the clean-up loop ends.
LEMMA DrainDoneInd ==
  ASSUME IndInv, DrainDone
  PROVE  IndInv'
<1> USE DEF IndInv, graph, main, workers, history
<1>0. nodes' = nodes /\ edges' = edges /\ Workers' = Workers
  BY PoolFixed DEF DrainDone
<1>1. QueueFresh' /\ SentReady' /\ ResultsTrue' /\ Counted'
  BY FrameKeeps DEF DrainDone
<1>2. TypeOK'
  BY <1>0 DEF DrainDone, TypeOK
<1>3. TodoFresh'
  BY <1>0 DEF DrainDone, TodoFresh, Queued, TypeOK
<1>4. RunningOnce'
  BY <1>0 DEF DrainDone, RunningOnce, TypeOK
<1>5. NoResultLost'
  BY <1>0 DEF DrainDone, NoResultLost, Answered, Ended, TypeOK
<1>6. PanicsSeen'
  BY <1>0 DEF DrainDone, PanicsSeen, Sending, TypeOK
<1>7. Phases'
  BY <1>0 DEF DrainDone, Phases, Sending, Gone, TypeOK
<1>8. OutcomeCause'
  BY <1>0 DEF DrainDone, OutcomeCause
<1> QED
  BY <1>1, <1>2, <1>3, <1>4, <1>5, <1>6, <1>7, <1>8

\* No result is on the way when the last loop ends.
LEMMA CollectDoneInd ==
  ASSUME IndInv, CollectDone
  PROVE  IndInv'
<1> USE DEF IndInv, graph, main, workers, history
<1>0. nodes' = nodes /\ edges' = edges /\ Workers' = Workers
  BY PoolFixed DEF CollectDone
<1>1. QueueFresh' /\ SentReady' /\ ResultsTrue' /\ Counted'
  BY FrameKeeps DEF CollectDone
<1>2. TypeOK'
  BY <1>0 DEF CollectDone, TypeOK
<1>3. TodoFresh'
  BY <1>0 DEF CollectDone, TodoFresh, Queued, TypeOK
<1>4. RunningOnce'
  BY <1>0 DEF CollectDone, RunningOnce, TypeOK
<1>5. NoResultLost'
  BY <1>0 DEF CollectDone, NoResultLost, Answered, Ended, TypeOK
<1>6. PanicsSeen'
  BY <1>0 DEF CollectDone, PanicsSeen, Sending, TypeOK
<1>7. Phases'
  BY <1>0 DEF CollectDone, Phases, Sending, Gone, TypeOK
<1>8. OutcomeCause'
  BY <1>0 DEF CollectDone, OutcomeCause
<1> QED
  BY <1>1, <1>2, <1>3, <1>4, <1>5, <1>6, <1>7, <1>8

\* The scope passes a worker's panic on.
LEMMA JoinInd ==
  ASSUME IndInv, Join
  PROVE  IndInv'
<1> USE DEF IndInv, graph, main, workers, history
<1>0. nodes' = nodes /\ edges' = edges /\ Workers' = Workers
  BY PoolFixed DEF Join
<1>1. QueueFresh' /\ SentReady' /\ ResultsTrue' /\ Counted'
  BY FrameKeeps DEF Join
<1>2. TypeOK'
  BY <1>0 DEF Join, TypeOK
<1>3. TodoFresh'
  BY <1>0 DEF Join, TodoFresh, Queued, TypeOK
<1>4. RunningOnce'
  BY <1>0 DEF Join, RunningOnce, TypeOK
<1>5. NoResultLost'
  BY <1>0 DEF Join, NoResultLost, Answered, Ended, TypeOK
<1>6. PanicsSeen'
  BY <1>0 DEF Join, PanicsSeen, Sending, TypeOK
<1>7. Phases'
  BY <1>0 DEF Join, Phases, Sending, Gone, TypeOK
<1>8. OutcomeCause'
  <2>1. CASE \E w \in Workers : wpc[w] = "panicked"
    BY <2>1, <1>0 DEF Join, OutcomeCause, PanicsSeen, Order!Justified
  <2>2. CASE ~\E w \in Workers : wpc[w] = "panicked"
    BY <2>2, <1>0 DEF Join, OutcomeCause
  <2> QED
    BY <2>1, <2>2
<1> QED
  BY <1>1, <1>2, <1>3, <1>4, <1>5, <1>6, <1>7, <1>8

\* The only task of an acyclic graph depends on nothing.
LEMMA StartSingleInd ==
  ASSUME IndInv, StartSingle
  PROVE  IndInv'
<1> USE DEF IndInv, graph, main, workers, history
<1>0. nodes' = nodes /\ edges' = edges /\ Workers' = Workers
  BY PoolFixed DEF StartSingle
<1>a. PICK x : nodes = {x}
  BY NodesFinite, FS_Singleton DEF StartSingle
<1>b. Outgoing(nodes, edges, x) = {}
  BY <1>a DEF StartSingle, Outgoing, HasCycle, IsCyclicCore
<1>1. TypeOK'
  BY <1>0 DEF StartSingle, TypeOK
<1>2. QueueFresh'
  BY <1>0 DEF StartSingle, QueueFresh, Phases
<1>3. TodoFresh'
  BY <1>0 DEF StartSingle, TodoFresh, Queued, TypeOK
<1>4. SentReady'
  BY <1>0, <1>a, <1>b DEF StartSingle, SentReady, IsReady
<1>5. RunningOnce'
  BY <1>0 DEF StartSingle, RunningOnce, Phases
<1>6. ResultsTrue'
  BY <1>0 DEF StartSingle, ResultsTrue, Phases
<1>7. NoResultLost'
  BY <1>0 DEF StartSingle, NoResultLost, Ended, Phases
<1>8. Counted'
  BY <1>0 DEF StartSingle, Counted, TypeOK
<1>9. PanicsSeen'
  BY <1>0 DEF StartSingle, PanicsSeen, Sending, Phases
<1>10. Phases'
  BY <1>0 DEF StartSingle, Phases, Sending
<1>11. OutcomeCause'
  BY <1>0 DEF StartSingle, OutcomeCause, Order!Justified, TypeOK
<1> QED
  BY <1>1, <1>2, <1>3, <1>4, <1>5, <1>6, <1>7, <1>8, <1>9, <1>10, <1>11

\* Its end is the cause of the outcome.
LEMMA FinishSingleInd ==
  ASSUME IndInv, FinishSingle
  PROVE  IndInv'
<1> USE DEF IndInv, graph, main, workers, history
<1>0. nodes' = nodes /\ edges' = edges /\ Workers' = Workers
  BY PoolFixed DEF FinishSingle
<1>a. PICK x : nodes = {x}
  BY NodesFinite, FS_Singleton DEF FinishSingle, Phases
<1>b. PICK r \in {"ok", "fail", "killed", "error", "panic"} :
        /\ r \in TaskEnds
        /\ fate' = [n \in nodes |-> r]
        /\ pc' = IF r = "panic" THEN "unwind" ELSE "report"
        /\ outcome' = IF r = "panic" THEN "panic" ELSE StatusOf(r)
  BY TaskEndsKnown DEF FinishSingle
<1>c. /\ fate'[x] = r /\ pc' \in {"unwind", "report"}
      /\ r = "ok" => outcome' = "Ok0"
      /\ r = "fail" => outcome' = "OkStatus"
      /\ r = "killed" => outcome' = "OkNone"
      /\ r = "error" => outcome' = "Err"
      /\ r = "panic" => outcome' = "panic"
  BY <1>a, <1>b DEF StatusOf
<1>d. /\ taskq' = <<>> /\ resultq' = <<>> /\ completed' = {} /\ reported' = {} /\ ~cut'
      /\ \A v \in Workers : wpc'[v] = "idle"
      /\ todo' = todo /\ count' = count /\ wtask' = wtask /\ pc = "single"
  BY DEF FinishSingle, Phases
<1>1. TypeOK'
  <2>1. fate' \in [nodes -> {"waiting", "running"} \cup TaskEnds]
    BY <1>b
  <2>2. outcome' \in {"none", "Ok0", "OkStatus", "OkNone", "Err", "panic"}
    BY <1>c
  <2> QED
    BY <1>0, <1>c, <2>1, <2>2 DEF FinishSingle, TypeOK
<1>2. QueueFresh'
  BY <1>d DEF QueueFresh
<1>3. TodoFresh'
  BY <1>c DEF TodoFresh
<1>4. SentReady'
  <2>1. IsReady(nodes, edges, completed, x)
    BY <1>a, <1>d DEF SentReady, Phases
  <2> QED
    BY <2>1, <1>0, <1>a DEF FinishSingle, SentReady, IsReady, Outgoing
<1>5. RunningOnce'
  BY <1>0, <1>a, <1>c, <1>d DEF RunningOnce
<1>6. ResultsTrue'
  BY <1>d DEF ResultsTrue
<1>7. NoResultLost'
  <2>1. fate'[x] \in Ended => pc' = "report"
    BY <1>b, <1>c DEF Ended
  <2> QED
    BY <1>0, <1>a, <1>d, <2>1 DEF NoResultLost
<1>8. Counted'
  BY DEF FinishSingle, Counted
<1>9. PanicsSeen'
  BY <1>0, <1>c, <1>d DEF PanicsSeen, Sending
<1>10. Phases'
  <2>1. pc' = "report" => fate'[x] \in Ended
    BY <1>b, <1>c DEF Ended
  <2>2. pc' = "unwind" => outcome' = "panic"
    BY <1>b
  <2>3. Cardinality(nodes) = 1
    BY <1>d DEF Phases
  <2> QED
    BY <1>0, <1>a, <1>c, <1>d, <2>1, <2>2, <2>3 DEF Phases, Sending
<1>11. OutcomeCause'
  BY <1>0, <1>a, <1>b, <1>c DEF OutcomeCause, Order!Justified
<1> QED
  BY <1>1, <1>2, <1>3, <1>4, <1>5, <1>6, <1>7, <1>8, <1>9, <1>10, <1>11

\* It is reported once.
LEMMA ReportSingleInd ==
  ASSUME IndInv, ReportSingle
  PROVE  IndInv'
<1> USE DEF IndInv, graph, main, workers, history
<1>0. nodes' = nodes /\ edges' = edges /\ Workers' = Workers
  BY PoolFixed DEF ReportSingle
<1>a. /\ taskq' = <<>> /\ resultq' = <<>> /\ completed' = {} /\ reported' = nodes
      /\ count' = 1 /\ Cardinality(nodes) = 1 /\ fate' = fate
      /\ \A n \in nodes : fate[n] \in Ended
      /\ \A v \in Workers : wpc'[v] = "idle"
      /\ pc = "report" /\ pc' = "done"
      /\ todo' = todo /\ wpc' = wpc /\ wtask' = wtask
  BY DEF ReportSingle, Phases
<1>b. PICK p \in {"ok", "err", "panic"} :
        /\ cut' = (p # "ok")
        /\ outcome' = CASE p = "ok" -> outcome [] p = "err" -> "Err" [] p = "panic" -> "panic"
  BY ProgressEndsKnown DEF ReportSingle
<1>1. TypeOK'
  <2>1. outcome' \in {"none", "Ok0", "OkStatus", "OkNone", "Err", "panic"} /\ cut' \in BOOLEAN
    BY <1>b DEF TypeOK
  <2> QED
    BY <1>0, <1>a, <2>1 DEF TypeOK
<1>2. QueueFresh'
  BY <1>0 DEF ReportSingle, QueueFresh, TypeOK
<1>3. TodoFresh'
  BY <1>0 DEF ReportSingle, TodoFresh, Queued, TypeOK
<1>4. SentReady'
  BY <1>0 DEF ReportSingle, SentReady, Queued, IsReady, TypeOK
<1>5. RunningOnce'
  BY <1>0 DEF ReportSingle, RunningOnce, TypeOK
<1>6. ResultsTrue'
  BY <1>a DEF ResultsTrue
<1>7. NoResultLost'
  BY <1>0, <1>a DEF NoResultLost
<1>8. Counted'
  BY <1>0, <1>a, NodesFinite DEF Counted
<1>9. PanicsSeen'
  BY <1>0 DEF ReportSingle, PanicsSeen, Sending, TypeOK
<1>10. Phases'
  BY <1>0, <1>a DEF Phases, Sending
<1>11. OutcomeCause'
  <2>1. outcome # "none" /\ Order!Justified(outcome, nodes, edges, fate, cut)
    BY <1>a DEF OutcomeCause
  <2>2. CASE p = "ok"
    <3>1. outcome' = outcome /\ outcome \in {"Ok0", "OkStatus", "OkNone", "Err", "panic"}
      BY <2>1, <2>2, <1>b DEF TypeOK
    <3>2. cut => cut'
      BY <1>a DEF Phases
    <3>3. cut \in BOOLEAN /\ cut' \in BOOLEAN
      BY <1>b DEF TypeOK
    <3>4. Order!Justified(outcome, nodes, edges, fate, cut')
      BY <2>1, <3>1, <3>2, <3>3, CauseStays
    <3> QED
      BY <3>1, <3>4, <2>1, <1>0, <1>a DEF OutcomeCause
  <2>3. CASE p # "ok"
    BY <2>3, <1>0, <1>a, <1>b DEF OutcomeCause, Order!Justified
  <2> QED
    BY <2>2, <2>3
<1> QED
  BY <1>1, <1>2, <1>3, <1>4, <1>5, <1>6, <1>7, <1>8, <1>9, <1>10, <1>11

\* A first task is sent once.
LEMMA SeedInd ==
  ASSUME IndInv, Seed
  PROVE  IndInv'
<1> USE DEF IndInv, graph, main, workers, history
<1>0. nodes' = nodes /\ edges' = edges /\ Workers' = Workers
  BY PoolFixed DEF Seed
<1>a. PICK n \in todo : taskq' = Append(taskq, n) /\ todo' = todo \ {n}
  BY DEF Seed
<1>b. /\ n \in nodes /\ fate[n] = "waiting" /\ ~Queued(n) /\ Outgoing(nodes, edges, n) = {}
      /\ fate' = fate /\ completed' = completed
  BY <1>a DEF Seed, TypeOK, TodoFresh, Externals
<1>c. /\ Len(taskq) \in Nat /\ taskq' \in Seq(nodes) /\ Len(taskq') = Len(taskq) + 1
      /\ \A j \in 1..Len(taskq) : taskq'[j] = taskq[j]
      /\ taskq'[Len(taskq) + 1] = n
  BY <1>a, <1>b, Appended DEF TypeOK
<1>1. TypeOK'
  BY <1>0 DEF Seed, TypeOK
<1>2. QueueFresh'
  BY <1>b, <1>c DEF QueueFresh, Queued
<1>3. TodoFresh'
  BY <1>0 DEF Seed, TodoFresh, Queued, TypeOK
<1>4. SentReady'
  BY <1>0, <1>b, <1>c DEF SentReady, Queued, IsReady, Outgoing
<1>5. RunningOnce'
  BY <1>0 DEF Seed, RunningOnce, TypeOK
<1>6. ResultsTrue'
  BY <1>0 DEF Seed, ResultsTrue, TypeOK
<1>7. NoResultLost'
  BY <1>0 DEF Seed, NoResultLost, Answered, Ended, TypeOK
<1>8. Counted'
  BY <1>0 DEF Seed, Counted, TypeOK
<1>9. PanicsSeen'
  BY <1>0 DEF Seed, PanicsSeen, Sending, TypeOK
<1>10. Phases'
  BY <1>0 DEF Seed, Phases, Sending, Gone, TypeOK
<1>11. OutcomeCause'
  BY <1>0 DEF Seed, OutcomeCause
<1> QED
  BY <1>1, <1>2, <1>3, <1>4, <1>5, <1>6, <1>7, <1>8, <1>9, <1>10, <1>11

\* A dependent is sent only if it is ready, and was not sent before.
LEMMA DispatchInd ==
  ASSUME IndInv, Dispatch
  PROVE  IndInv'
<1> USE DEF IndInv, graph, main, workers, history
<1>0. nodes' = nodes /\ edges' = edges /\ Workers' = Workers
  BY PoolFixed DEF Dispatch
<1>a. PICK n \in todo :
        /\ todo' = todo \ {n}
        /\ taskq' = IF IsReady(nodes, edges, completed, n) THEN Append(taskq, n) ELSE taskq
  BY DEF Dispatch
<1>b. n \in nodes /\ fate[n] = "waiting" /\ ~Queued(n) /\ fate' = fate /\ completed' = completed
  BY <1>a DEF Dispatch, TypeOK, TodoFresh
<1>c. ASSUME IsReady(nodes, edges, completed, n)
      PROVE  /\ Len(taskq) \in Nat /\ taskq' \in Seq(nodes) /\ Len(taskq') = Len(taskq) + 1
             /\ \A j \in 1..Len(taskq) : taskq'[j] = taskq[j]
             /\ taskq'[Len(taskq) + 1] = n
  BY <1>a, <1>b, <1>c, Appended DEF TypeOK
<1>1. TypeOK'
  BY <1>0 DEF Dispatch, TypeOK
<1>2. QueueFresh'
  <2>1. CASE IsReady(nodes, edges, completed, n)
    BY <2>1, <1>b, <1>c DEF QueueFresh, Queued
  <2>2. CASE ~IsReady(nodes, edges, completed, n)
    BY <2>2, <1>a, <1>b DEF QueueFresh
  <2> QED
    BY <2>1, <2>2
<1>3. TodoFresh'
  BY <1>0 DEF Dispatch, TodoFresh, Queued, TypeOK
<1>4. SentReady'
  BY <1>0 DEF Dispatch, SentReady, Queued, IsReady, TypeOK
<1>5. RunningOnce'
  BY <1>0 DEF Dispatch, RunningOnce, TypeOK
<1>6. ResultsTrue'
  BY <1>0 DEF Dispatch, ResultsTrue, TypeOK
<1>7. NoResultLost'
  BY <1>0 DEF Dispatch, NoResultLost, Answered, Ended, TypeOK
<1>8. Counted'
  BY <1>0 DEF Dispatch, Counted, TypeOK
<1>9. PanicsSeen'
  BY <1>0 DEF Dispatch, PanicsSeen, Sending, TypeOK
<1>10. Phases'
  BY <1>0 DEF Dispatch, Phases, Sending, Gone, TypeOK
<1>11. OutcomeCause'
  BY <1>0 DEF Dispatch, OutcomeCause
<1> QED
  BY <1>1, <1>2, <1>3, <1>4, <1>5, <1>6, <1>7, <1>8, <1>9, <1>10, <1>11

\* A discarded task never starts.
LEMMA DrainInd ==
  ASSUME IndInv, Drain
  PROVE  IndInv'
<1> USE DEF IndInv, graph, main, workers, history
<1>0. nodes' = nodes /\ edges' = edges /\ Workers' = Workers
  BY PoolFixed DEF Drain
<1>1. TypeOK'
  BY <1>0 DEF Drain, TypeOK
<1>2. QueueFresh'
  BY <1>0 DEF Drain, QueueFresh, TypeOK
<1>3. TodoFresh'
  BY <1>0 DEF Drain, TodoFresh, Queued, TypeOK
<1>4. SentReady'
  BY <1>0 DEF Drain, SentReady, Queued, IsReady, TypeOK
<1>5. RunningOnce'
  BY <1>0 DEF Drain, RunningOnce, TypeOK
<1>6. ResultsTrue'
  BY <1>0 DEF Drain, ResultsTrue, TypeOK
<1>7. NoResultLost'
  BY <1>0 DEF Drain, NoResultLost, Answered, Ended, TypeOK
<1>8. Counted'
  BY <1>0 DEF Drain, Counted, TypeOK
<1>9. PanicsSeen'
  BY <1>0 DEF Drain, PanicsSeen, Sending, TypeOK
<1>10. Phases'
  BY <1>0 DEF Drain, Phases, Sending, Gone, TypeOK
<1>11. OutcomeCause'
  BY <1>0 DEF Drain, OutcomeCause
<1> QED
  BY <1>1, <1>2, <1>3, <1>4, <1>5, <1>6, <1>7, <1>8, <1>9, <1>10, <1>11

\* A dependent of a task completed just now cannot have been sent before.
LEMMA ReceiveOkInd ==
  ASSUME IndInv, ReceiveOk
  PROVE  IndInv'
<1> USE DEF IndInv, graph, main, workers, history
<1>0. nodes' = nodes /\ edges' = edges /\ Workers' = Workers
  BY PoolFixed DEF ReceiveOk, Report, Success
<1>1. PICK p \in {"ok", "err", "panic"} : Report(p)
  BY DEF ReceiveOk
<1>k. /\ resultq' \in Seq([index : nodes, result : TaskEnds \ {"panic"}])
      /\ Head(resultq).index \in nodes \ reported
      /\ Head(resultq).result = fate[Head(resultq).index]
      /\ Head(resultq).result \in Ended
      /\ reported' \subseteq nodes /\ count' \in Nat
      /\ QueueFresh' /\ ResultsTrue' /\ Counted'
      /\ \A n \in nodes : fate[n] \in Ended => n \in reported' \/ Answered(n)'
      /\ \A n \in reported' : fate[n] \in Ended
      /\ fate' = fate /\ resultq' = Tail(resultq) /\ reported' = reported \cup {Head(resultq).index}
  BY <1>1, ReportKeeps DEF ReceiveOk, Report
<1>2. TypeOK'
  BY <1>0, <1>k DEF ReceiveOk, Report, TypeOK, Incoming
<1>3. TodoFresh'
  <2> SUFFICES ASSUME NEW n \in todo' PROVE fate[n] = "waiting" /\ ~Queued(n)
    BY <1>0, <1>k DEF ReceiveOk, Report, TodoFresh, Queued
  <2>1. n \in nodes /\ <<n, Head(resultq).index>> \in edges
    BY DEF ReceiveOk, Incoming
  <2>2. Head(resultq).index \notin completed
    BY <1>k DEF ReceiveOk, Phases, Sending
  <2>3. ~IsReady(nodes, edges, completed, n)
    BY <2>1, <2>2, <1>k DEF IsReady, Outgoing
  <2> QED
    BY <2>1, <2>3 DEF SentReady
<1>4. SentReady'
  BY <1>0 DEF ReceiveOk, Report, Success, SentReady, Queued, IsReady, TypeOK
<1>5. RunningOnce'
  BY <1>0 DEF ReceiveOk, Report, Success, RunningOnce, TypeOK
<1>6. NoResultLost'
  BY <1>0, <1>k DEF ReceiveOk, Report, Success, NoResultLost
<1>7. PanicsSeen'
  BY <1>0 DEF ReceiveOk, Report, Success, PanicsSeen, Sending, TypeOK
<1>8. Phases'
  BY <1>0 DEF ReceiveOk, Report, Success, Phases, Sending, Gone, TypeOK
<1>9. OutcomeCause'
  BY <1>0 DEF ReceiveOk, Report, Success, OutcomeCause, Order!Justified, TypeOK
<1> QED
  BY <1>k, <1>2, <1>3, <1>4, <1>5, <1>6, <1>7, <1>8, <1>9

\* The bad result, or the failed update_progress, is the outcome's cause.
LEMMA ReceiveBadInd ==
  ASSUME IndInv, ReceiveBad
  PROVE  IndInv'
<1> USE DEF IndInv, graph, main, workers, history
<1>0. nodes' = nodes /\ edges' = edges /\ Workers' = Workers
  BY PoolFixed DEF ReceiveBad, Report
<1>1. PICK p \in {"ok", "err", "panic"} : Report(p)
  BY DEF ReceiveBad
<1>k. /\ resultq' \in Seq([index : nodes, result : TaskEnds \ {"panic"}])
      /\ Head(resultq).index \in nodes \ reported
      /\ Head(resultq).result = fate[Head(resultq).index]
      /\ Head(resultq).result \in Ended
      /\ reported' \subseteq nodes /\ count' \in Nat
      /\ QueueFresh' /\ ResultsTrue' /\ Counted'
      /\ \A n \in nodes : fate[n] \in Ended => n \in reported' \/ Answered(n)'
      /\ \A n \in reported' : fate[n] \in Ended
      /\ fate' = fate /\ resultq' = Tail(resultq) /\ reported' = reported \cup {Head(resultq).index}
  BY <1>1, ReportKeeps DEF ReceiveBad, Report
<1>2. TypeOK'
  <2>1. outcome' \in {"none", "Ok0", "OkStatus", "OkNone", "Err", "panic"}
    BY DEF ReceiveBad, StatusOf
  <2> QED
    BY <1>0, <1>k, <2>1 DEF ReceiveBad, Report, TypeOK
<1>3. TodoFresh'
  BY <1>0 DEF ReceiveBad, Report, TodoFresh, Queued, TypeOK
<1>4. SentReady'
  BY <1>0 DEF ReceiveBad, Report, SentReady, Queued, IsReady, TypeOK
<1>5. RunningOnce'
  BY <1>0 DEF ReceiveBad, Report, RunningOnce, TypeOK
<1>6. NoResultLost'
  BY <1>0, <1>k DEF ReceiveBad, Report, NoResultLost
<1>7. PanicsSeen'
  BY <1>0 DEF ReceiveBad, Report, PanicsSeen, Sending, TypeOK
<1>8. Phases'
  BY <1>0 DEF ReceiveBad, Report, Phases, Sending, Gone, TypeOK
<1>9. OutcomeCause'
  <2> DEFINE h == Head(resultq)
  <2>1. CASE Report("ok") /\ ~Success(h.result) /\ outcome' = StatusOf(h.result)
    <3>1. h.result \in {"fail", "killed", "error"} /\ fate'[h.index] = h.result /\ h.index \in nodes
      BY <2>1, <1>k DEF Success, Ended
    <3>2. /\ h.result = "fail" => outcome' = "OkStatus"
          /\ h.result = "killed" => outcome' = "OkNone"
          /\ h.result = "error" => outcome' = "Err"
      BY <2>1 DEF StatusOf
    <3> QED
      BY <3>1, <3>2, <1>0 DEF ReceiveBad, OutcomeCause, Order!Justified
  <2>2. CASE Report("err") /\ outcome' = "Err"
    BY <2>2, <1>0 DEF ReceiveBad, Report, OutcomeCause, Order!Justified
  <2> QED
    BY <2>1, <2>2 DEF ReceiveBad
<1> QED
  BY <1>k, <1>2, <1>3, <1>4, <1>5, <1>6, <1>7, <1>8, <1>9

\* A panicking update_progress is the outcome's cause.
LEMMA ReceivePanicInd ==
  ASSUME IndInv, ReceivePanic
  PROVE  IndInv'
<1> USE DEF IndInv, graph, main, workers, history
<1>0. nodes' = nodes /\ edges' = edges /\ Workers' = Workers
  BY PoolFixed DEF ReceivePanic, Report
<1>1. PICK p \in {"ok", "err", "panic"} : Report(p)
  BY DEF ReceivePanic
<1>k. /\ resultq' \in Seq([index : nodes, result : TaskEnds \ {"panic"}])
      /\ Head(resultq).index \in nodes \ reported
      /\ Head(resultq).result = fate[Head(resultq).index]
      /\ Head(resultq).result \in Ended
      /\ reported' \subseteq nodes /\ count' \in Nat
      /\ QueueFresh' /\ ResultsTrue' /\ Counted'
      /\ \A n \in nodes : fate[n] \in Ended => n \in reported' \/ Answered(n)'
      /\ \A n \in reported' : fate[n] \in Ended
      /\ fate' = fate /\ resultq' = Tail(resultq) /\ reported' = reported \cup {Head(resultq).index}
  BY <1>1, ReportKeeps DEF ReceivePanic, Report
<1>2. TypeOK'
  BY <1>0, <1>k DEF ReceivePanic, Report, TypeOK
<1>3. TodoFresh'
  BY <1>0 DEF ReceivePanic, Report, TodoFresh, Queued, TypeOK
<1>4. SentReady'
  BY <1>0 DEF ReceivePanic, Report, SentReady, Queued, IsReady, TypeOK
<1>5. RunningOnce'
  BY <1>0 DEF ReceivePanic, Report, RunningOnce, TypeOK
<1>6. NoResultLost'
  BY <1>0, <1>k DEF ReceivePanic, Report, NoResultLost
<1>7. PanicsSeen'
  BY <1>0 DEF ReceivePanic, Report, PanicsSeen, Sending, TypeOK
<1>8. Phases'
  BY <1>0 DEF ReceivePanic, Report, Phases, Sending, Gone, TypeOK
<1>9. OutcomeCause'
  BY <1>0 DEF ReceivePanic, Report, OutcomeCause, Order!Justified, TypeOK
<1> QED
  BY <1>k, <1>2, <1>3, <1>4, <1>5, <1>6, <1>7, <1>8, <1>9

\* Late results are reported once too.
LEMMA CollectInd ==
  ASSUME IndInv, Collect
  PROVE  IndInv'
<1> USE DEF IndInv, graph, main, workers, history
<1>0. nodes' = nodes /\ edges' = edges /\ Workers' = Workers
  BY PoolFixed DEF Collect, Report
<1>1. PICK p \in {"ok", "err", "panic"} : Report(p)
  BY DEF Collect
<1>k. /\ resultq' \in Seq([index : nodes, result : TaskEnds \ {"panic"}])
      /\ Head(resultq).index \in nodes \ reported
      /\ Head(resultq).result = fate[Head(resultq).index]
      /\ Head(resultq).result \in Ended
      /\ reported' \subseteq nodes /\ count' \in Nat
      /\ QueueFresh' /\ ResultsTrue' /\ Counted'
      /\ \A n \in nodes : fate[n] \in Ended => n \in reported' \/ Answered(n)'
      /\ \A n \in reported' : fate[n] \in Ended
      /\ fate' = fate /\ resultq' = Tail(resultq) /\ reported' = reported \cup {Head(resultq).index}
  BY <1>1, ReportKeeps DEF Collect, Report
<1>2. TypeOK'
  BY <1>0, <1>k DEF Collect, Report, TypeOK
<1>3. TodoFresh'
  BY <1>0 DEF Collect, Report, TodoFresh, Queued, TypeOK
<1>4. SentReady'
  BY <1>0 DEF Collect, Report, SentReady, Queued, IsReady, TypeOK
<1>5. RunningOnce'
  BY <1>0 DEF Collect, Report, RunningOnce, TypeOK
<1>6. NoResultLost'
  BY <1>0, <1>k DEF Collect, Report, NoResultLost
<1>7. PanicsSeen'
  BY <1>0 DEF Collect, Report, PanicsSeen, Sending, TypeOK
<1>8. Phases'
  BY <1>0 DEF Collect, Report, Phases, Sending, Gone, TypeOK
<1>9. OutcomeCause'
  <2>1. CASE Report("ok") /\ UNCHANGED <<pc, outcome>>
    <3>1. cut' = cut
      BY <2>1 DEF Report, TypeOK
    <3> QED
      BY <3>1, <2>1, <1>0, <1>k DEF Collect, OutcomeCause
  <2>2. CASE Report("err") /\ pc' = "join" /\ outcome' = "Err"
    BY <2>2, <1>0 DEF Report, OutcomeCause, Order!Justified
  <2>3. CASE Report("panic") /\ pc' = "join" /\ outcome' = "panic"
    BY <2>3, <1>0 DEF Report, OutcomeCause, Order!Justified
  <2> QED
    BY <2>1, <2>2, <2>3 DEF Collect
<1> QED
  BY <1>k, <1>2, <1>3, <1>4, <1>5, <1>6, <1>7, <1>8, <1>9

\* A task leaves the queue for one worker.
LEMMA WorkerRecvInd ==
  ASSUME IndInv, NEW w \in Workers, WorkerRecv(w)
  PROVE  IndInv'
<1> USE DEF IndInv, graph, main, workers, history
<1>0. nodes' = nodes /\ edges' = edges /\ Workers' = Workers
  BY PoolFixed DEF WorkerRecv
<1>a. /\ Head(taskq) \in nodes /\ fate[Head(taskq)] = "waiting" /\ wpc[w] = "idle"
      /\ fate' = [fate EXCEPT ![Head(taskq)] = "running"]
      /\ wpc' = [wpc EXCEPT ![w] = "busy"]
      /\ wtask' = [wtask EXCEPT ![w] = Head(taskq)]
      /\ \A n \in nodes : fate[n] \in {"ok", "fail", "killed", "error", "panic"} => fate'[n] = fate[n]
  BY HeadAndTail DEF WorkerRecv, TypeOK, QueueFresh
<1>1. TypeOK'
  BY <1>0, <1>a, NoneIsNoNode DEF WorkerRecv, TypeOK
<1>2. QueueFresh'
  BY <1>0 DEF WorkerRecv, QueueFresh, TypeOK
<1>3. TodoFresh'
  BY <1>0 DEF WorkerRecv, TodoFresh, Queued, TypeOK
<1>4. SentReady'
  BY <1>0 DEF WorkerRecv, SentReady, Queued, IsReady, TypeOK
<1>5. RunningOnce'
  BY <1>0, <1>a DEF WorkerRecv, RunningOnce, TypeOK
<1>6. ResultsTrue'
  <2>1. ASSUME NEW j \in 1..Len(resultq) PROVE fate'[resultq[j].index] = fate[resultq[j].index]
    <3>1. resultq[j].index \in nodes /\ resultq[j].result \in Ended
      BY ResultElement
    <3>2. fate[resultq[j].index] # "waiting"
      BY <3>1 DEF ResultsTrue, Ended
    <3> QED
      BY <3>1, <3>2, <1>a DEF TypeOK
  <2> QED
    BY <2>1 DEF WorkerRecv, ResultsTrue
<1>7. NoResultLost'
  <2>1. \A n \in nodes : fate'[n] = fate[n] \/ (fate[n] = "waiting" /\ fate'[n] = "running")
    BY <1>a DEF TypeOK
  <2> QED
    BY <1>0, <2>1 DEF WorkerRecv, NoResultLost, Answered, Ended, TypeOK
<1>8. Counted'
  BY <1>0 DEF WorkerRecv, Counted, TypeOK
<1>9. PanicsSeen'
  BY <1>0, <1>a DEF WorkerRecv, PanicsSeen, Sending, TypeOK
<1>10. Phases'
  BY <1>0 DEF WorkerRecv, Phases, Sending, Gone, TypeOK
<1>11. OutcomeCause'
  <2>1. outcome' = outcome /\ pc' = pc /\ cut' = cut
    BY DEF WorkerRecv
  <2>2. ASSUME outcome # "none" PROVE Order!Justified(outcome, nodes, edges, fate', cut)
    <3>1. /\ outcome \in {"Ok0", "OkStatus", "OkNone", "Err", "panic"} /\ cut \in BOOLEAN
          /\ Order!Justified(outcome, nodes, edges, fate, cut)
      BY <2>2 DEF OutcomeCause, TypeOK
    <3> QED
      BY <3>1, <1>a, CauseStays
  <2> QED
    BY <2>1, <2>2, <1>0 DEF OutcomeCause
<1> QED
  BY <1>1, <1>2, <1>3, <1>4, <1>5, <1>6, <1>7, <1>8, <1>9, <1>10, <1>11

\* An idle worker goes home.
LEMMA WorkerExitInd ==
  ASSUME IndInv, NEW w \in Workers, WorkerExit(w)
  PROVE  IndInv'
<1> USE DEF IndInv, graph, main, workers, history
<1>0. nodes' = nodes /\ edges' = edges /\ Workers' = Workers
  BY PoolFixed DEF WorkerExit
<1>1. TypeOK'
  BY <1>0 DEF WorkerExit, TypeOK
<1>2. QueueFresh'
  BY <1>0 DEF WorkerExit, QueueFresh, TypeOK
<1>3. TodoFresh'
  BY <1>0 DEF WorkerExit, TodoFresh, Queued, TypeOK
<1>4. SentReady'
  BY <1>0 DEF WorkerExit, SentReady, Queued, IsReady, TypeOK
<1>5. RunningOnce'
  BY <1>0 DEF WorkerExit, RunningOnce, TypeOK
<1>6. ResultsTrue'
  BY <1>0 DEF WorkerExit, ResultsTrue, TypeOK
<1>7. NoResultLost'
  BY <1>0 DEF WorkerExit, NoResultLost, Answered, Ended, TypeOK
<1>8. Counted'
  BY <1>0 DEF WorkerExit, Counted, TypeOK
<1>9. PanicsSeen'
  BY <1>0 DEF WorkerExit, PanicsSeen, Sending, TypeOK
<1>10. Phases'
  BY <1>0 DEF WorkerExit, Phases, Sending, Gone, TypeOK
<1>11. OutcomeCause'
  BY <1>0 DEF WorkerExit, OutcomeCause
<1> QED
  BY <1>1, <1>2, <1>3, <1>4, <1>5, <1>6, <1>7, <1>8, <1>9, <1>10, <1>11

\* A task leaves its worker for the result queue.
LEMMA WorkerSendInd ==
  ASSUME IndInv, NEW w \in Workers, WorkerSend(w)
  PROVE  IndInv'
<1> USE DEF IndInv, graph, main, workers, history
<1>0. nodes' = nodes /\ edges' = edges /\ Workers' = Workers
  BY PoolFixed DEF WorkerSend
<1>a. /\ wtask[w] \in nodes /\ fate[wtask[w]] = "running" /\ wpc[w] = "busy" /\ pc # "single"
      /\ wtask' = [wtask EXCEPT ![w] = None]
      /\ pc' = pc /\ todo' = todo /\ completed' = completed /\ taskq' = taskq /\ reported' = reported
  BY DEF WorkerSend, TypeOK, RunningOnce, Phases
<1>b. PICK r \in Ended :
        /\ r \in TaskEnds \ {"panic"}
        /\ resultq' = Append(resultq, [index |-> wtask[w], result |-> r])
        /\ fate' = [fate EXCEPT ![wtask[w]] = r]
  BY TaskEndsKnown DEF WorkerSend, Ended
<1>c. /\ Len(resultq) \in Nat /\ Len(resultq') = Len(resultq) + 1
      /\ resultq' \in Seq([index : nodes, result : TaskEnds \ {"panic"}])
      /\ \A j \in 1..Len(resultq) : resultq'[j] = resultq[j]
      /\ resultq'[Len(resultq) + 1] = [index |-> wtask[w], result |-> r]
  BY <1>a, <1>b, Appended DEF TypeOK
<1>d. /\ fate'[wtask[w]] = r
      /\ \A n \in nodes : n # wtask[w] => fate'[n] = fate[n]
      /\ \A n \in nodes : fate[n] # "running" => fate'[n] = fate[n]
      /\ wpc'[w] = "idle" /\ \A v \in Workers : v # w => wpc'[v] = wpc[v] /\ wtask'[v] = wtask[v]
  BY <1>a, <1>b DEF WorkerSend, TypeOK
<1>e. ASSUME NEW j \in 1..Len(resultq)
      PROVE  resultq[j].index \in nodes /\ resultq[j].index # wtask[w]
  <2>1. resultq[j].index \in nodes /\ resultq[j].result \in Ended
    BY ResultElement
  <2> QED
    BY <2>1, <1>a DEF ResultsTrue, Ended
<1>1. TypeOK'
  <2>1. fate' \in [nodes -> {"waiting", "running"} \cup TaskEnds]
    BY <1>b DEF TypeOK
  <2> QED
    BY <1>0, <1>c, <2>1, NoneIsNoNode DEF WorkerSend, TypeOK
<1>2. QueueFresh'
  BY <1>a, <1>d DEF QueueFresh, TypeOK
<1>3. TodoFresh'
  BY <1>0, <1>a, <1>d DEF TodoFresh, Queued, TypeOK, Externals, Outgoing
<1>4. SentReady'
  BY <1>0, <1>a, <1>d DEF SentReady, Queued, IsReady, Outgoing
<1>5. RunningOnce'
  <2>1. fate'[wtask[w]] # "running" /\ wpc'[w] # "busy"
    BY <1>b, <1>d DEF Ended
  <2>2. \A v \in Workers : wpc'[v] = "busy" =>
          v # w /\ wpc[v] = "busy" /\ wtask'[v] = wtask[v] /\ wtask[v] \in nodes /\ wtask[v] # wtask[w]
    BY <2>1, <1>a, <1>d DEF RunningOnce, TypeOK
  <2>3. \A v \in Workers : wpc'[v] = "busy" => fate'[wtask'[v]] = "running"
    BY <2>2, <1>d DEF RunningOnce
  <2>4. \A v, u \in Workers : wpc'[v] = "busy" /\ wpc'[u] = "busy" /\ wtask'[v] = wtask'[u] => v = u
    BY <2>2 DEF RunningOnce
  <2>5. \A n \in nodes : fate'[n] = "running" => \E v \in Workers : wpc'[v] = "busy" /\ wtask'[v] = n
    BY <2>1, <1>a, <1>d DEF RunningOnce
  <2> QED
    BY <1>0, <2>3, <2>4, <2>5 DEF RunningOnce
<1>6. ResultsTrue'
  <2>1. wtask[w] \notin reported
    BY <1>a DEF NoResultLost, Ended
  <2>2. ASSUME NEW j \in 1..Len(resultq')
        PROVE  resultq'[j].result = fate'[resultq'[j].index] /\ resultq'[j].index \notin reported
    BY <2>1, <1>c, <1>d, <1>e DEF ResultsTrue
  <2>3. ASSUME NEW j \in 1..Len(resultq'), NEW k \in 1..Len(resultq'),
               resultq'[j].index = resultq'[k].index
        PROVE  j = k
    <3>1. \A a, b \in 1..Len(resultq) : resultq[a].index = resultq[b].index => a = b
      BY DEF ResultsTrue
    <3>2. \A a \in 1..Len(resultq') : a \in 1..Len(resultq) \/ a = Len(resultq) + 1
      BY <1>c
    <3>3. resultq'[Len(resultq) + 1].index = wtask[w]
      BY <1>c
    <3>4. CASE j \in 1..Len(resultq) /\ k \in 1..Len(resultq)
      BY <2>3, <3>1, <3>4, <1>c
    <3>5. CASE j \in 1..Len(resultq) /\ k = Len(resultq) + 1
      BY <2>3, <3>3, <3>5, <1>c, <1>e
    <3>6. CASE j = Len(resultq) + 1 /\ k \in 1..Len(resultq)
      BY <2>3, <3>3, <3>6, <1>c, <1>e
    <3> QED
      BY <3>2, <3>4, <3>5, <3>6
  <2> QED
    BY <2>2, <2>3, <1>a DEF ResultsTrue
<1>7. NoResultLost'
  <2>1. wtask[w] = resultq'[Len(resultq')].index /\ Len(resultq') \in 1..Len(resultq')
    BY <1>c
  <2>2. \A n \in nodes : Answered(n) => Answered(n)'
    BY <1>c DEF Answered
  <2>3. wtask[w] \notin reported /\ wtask[w] \notin completed
    BY <1>a DEF NoResultLost, Ended
  <2>4. \A n \in nodes : n = wtask[w] => Answered(n)'
    BY <2>1 DEF Answered
  <2>5. reported \subseteq nodes /\ completed \subseteq nodes
    BY DEF TypeOK
  <2>6. \A n \in nodes : fate'[n] \in Ended => n \in reported \/ Answered(n)' \/ pc = "report"
    BY <2>2, <2>4, <1>d DEF NoResultLost
  <2>7. \A n \in reported : fate'[n] \in Ended
    BY <2>3, <2>5, <1>d DEF NoResultLost
  <2>8. \A n \in completed : fate'[n] = "ok"
    BY <2>3, <2>5, <1>d DEF NoResultLost
  <2> QED
    BY <2>6, <2>7, <2>8, <1>0, <1>a DEF NoResultLost
<1>8. Counted'
  BY <1>0 DEF WorkerSend, Counted, TypeOK
<1>9. PanicsSeen'
  BY <1>0, <1>a, <1>d DEF PanicsSeen, Sending
<1>10. Phases'
  BY <1>0, <1>a, <1>d DEF WorkerSend, Phases, Sending, Gone
<1>11. OutcomeCause'
  <2>1. outcome' = outcome /\ cut' = cut
    BY DEF WorkerSend
  <2>2. ASSUME outcome # "none" PROVE Order!Justified(outcome, nodes, edges, fate', cut)
    <3>1. /\ outcome \in {"Ok0", "OkStatus", "OkNone", "Err", "panic"} /\ cut \in BOOLEAN
          /\ Order!Justified(outcome, nodes, edges, fate, cut)
      BY <2>2 DEF OutcomeCause, TypeOK
    <3>2. \A n \in nodes : fate[n] \in {"ok", "fail", "killed", "error", "panic"} => fate'[n] = fate[n]
      BY <1>d
    <3> QED
      BY <3>1, <3>2, CauseStays
  <2> QED
    BY <2>1, <2>2, <1>0, <1>a DEF OutcomeCause
<1> QED
  BY <1>1, <1>2, <1>3, <1>4, <1>5, <1>6, <1>7, <1>8, <1>9, <1>10, <1>11

\* A task dies with its worker.
LEMMA WorkerPanicInd ==
  ASSUME IndInv, NEW w \in Workers, WorkerPanic(w)
  PROVE  IndInv'
<1> USE DEF IndInv, graph, main, workers, history
<1>0. nodes' = nodes /\ edges' = edges /\ Workers' = Workers
  BY PoolFixed DEF WorkerPanic
<1>a. /\ wtask[w] \in nodes /\ fate[wtask[w]] = "running" /\ wpc[w] = "busy" /\ pc # "single"
      /\ wtask' = [wtask EXCEPT ![w] = None]
      /\ pc' = pc /\ todo' = todo /\ completed' = completed /\ taskq' = taskq /\ reported' = reported
  BY DEF WorkerPanic, TypeOK, RunningOnce, Phases
<1>b. fate' = [fate EXCEPT ![wtask[w]] = "panic"] /\ resultq' = resultq
  BY DEF WorkerPanic
<1>d. /\ fate'[wtask[w]] = "panic"
      /\ \A n \in nodes : n # wtask[w] => fate'[n] = fate[n]
      /\ \A n \in nodes : fate[n] # "running" => fate'[n] = fate[n]
      /\ wpc'[w] = "panicked" /\ \A v \in Workers : v # w => wpc'[v] = wpc[v] /\ wtask'[v] = wtask[v]
  BY <1>a, <1>b DEF WorkerPanic, TypeOK
<1>e. ASSUME NEW j \in 1..Len(resultq)
      PROVE  resultq[j].index \in nodes /\ resultq[j].index # wtask[w]
  <2>1. resultq[j].index \in nodes /\ resultq[j].result \in Ended
    BY ResultElement
  <2> QED
    BY <2>1, <1>a DEF ResultsTrue, Ended
<1>1. TypeOK'
  BY <1>0 DEF WorkerPanic, TypeOK
<1>2. QueueFresh'
  BY <1>a, <1>d DEF QueueFresh, TypeOK
<1>3. TodoFresh'
  BY <1>0, <1>a, <1>d DEF TodoFresh, Queued, TypeOK, Externals, Outgoing
<1>4. SentReady'
  BY <1>0, <1>a, <1>d DEF SentReady, Queued, IsReady, Outgoing
<1>5. RunningOnce'
  <2>1. \A v \in Workers : wpc[v] = "busy" => wtask[v] \in nodes /\ fate[wtask[v]] = "running"
    BY DEF RunningOnce, TypeOK
  <2>2. \A v \in Workers : wpc'[v] = "busy" =>
          v # w /\ wpc[v] = "busy" /\ wtask'[v] = wtask[v] /\ wtask[v] # wtask[w]
    BY <1>a, <1>d DEF RunningOnce
  <2>3. \A v \in Workers : wpc'[v] = "busy" => fate'[wtask'[v]] = "running"
    BY <2>1, <2>2, <1>d
  <2>4. \A u, v \in Workers : wpc'[u] = "busy" /\ wpc'[v] = "busy" /\ wtask'[u] = wtask'[v] => u = v
    BY <2>2 DEF RunningOnce
  <2>5. ASSUME NEW n \in nodes, fate'[n] = "running"
        PROVE  \E v \in Workers : wpc'[v] = "busy" /\ wtask'[v] = n
    <3>1. n # wtask[w] /\ fate[n] = "running"
      BY <2>5, <1>a, <1>d
    <3>2. PICK v \in Workers : wpc[v] = "busy" /\ wtask[v] = n
      BY <3>1, <1>a DEF RunningOnce
    <3> QED
      BY <3>1, <3>2, <1>d
  <2> QED
    BY <2>3, <2>4, <2>5, <1>0 DEF RunningOnce
<1>6. ResultsTrue'
  BY <1>a, <1>b, <1>d, <1>e DEF ResultsTrue
<1>7. NoResultLost'
  <2>1. wtask[w] \notin reported /\ wtask[w] \notin completed
    BY <1>a DEF NoResultLost, Ended
  <2> QED
    BY <2>1, <1>0, <1>a, <1>b, <1>d DEF NoResultLost, Answered, Ended, TypeOK
<1>8. Counted'
  BY <1>0 DEF WorkerPanic, Counted, TypeOK
<1>9. PanicsSeen'
  BY <1>0, <1>a, <1>d DEF PanicsSeen, Sending
<1>10. Phases'
  BY <1>0, <1>a, <1>d DEF WorkerPanic, Phases, Sending, Gone
<1>11. OutcomeCause'
  <2>1. outcome' = outcome /\ cut' = cut
    BY DEF WorkerPanic
  <2>2. ASSUME outcome # "none" PROVE Order!Justified(outcome, nodes, edges, fate', cut)
    <3>1. /\ outcome \in {"Ok0", "OkStatus", "OkNone", "Err", "panic"} /\ cut \in BOOLEAN
          /\ Order!Justified(outcome, nodes, edges, fate, cut)
      BY <2>2 DEF OutcomeCause, TypeOK
    <3>2. \A n \in nodes : fate[n] \in {"ok", "fail", "killed", "error", "panic"} => fate'[n] = fate[n]
      BY <1>d
    <3> QED
      BY <3>1, <3>2, CauseStays
  <2> QED
    BY <2>1, <2>2, <1>0, <1>a DEF OutcomeCause
<1> QED
  BY <1>1, <1>2, <1>3, <1>4, <1>5, <1>6, <1>7, <1>8, <1>9, <1>10, <1>11

-------------------------------------------------------------------------------
\* Nothing has been sent in the beginning.
LEMMA InitInd == Init => IndInv
<1> SUFFICES ASSUME Init PROVE IndInv
  OBVIOUS
<1>1. TypeOK
  <2>1. taskq \in Seq(nodes) /\ resultq \in Seq([index : nodes, result : TaskEnds \ {"panic"}])
    BY DEF Init
  <2> QED
    BY <2>1 DEF Init, TypeOK
<1>2. QueueFresh /\ TodoFresh /\ SentReady
  BY DEF Init, QueueFresh, TodoFresh, SentReady, Queued
<1>3. RunningOnce /\ ResultsTrue /\ NoResultLost
  BY DEF Init, RunningOnce, ResultsTrue, NoResultLost, Ended
<1>4. Counted
  BY FS_EmptySet DEF Init, Counted
<1>5. PanicsSeen /\ Phases /\ OutcomeCause
  BY DEF Init, PanicsSeen, Sending, Phases, OutcomeCause
<1> QED
  BY <1>1, <1>2, <1>3, <1>4, <1>5 DEF IndInv

\* A step of another part of the process changes nothing here.
LEMMA StutterInd == IndInv /\ UNCHANGED vars => IndInv'
<1> SUFFICES ASSUME IndInv, UNCHANGED vars PROVE IndInv'
  OBVIOUS
<1> USE DEF vars, graph, main, workers, history, IndInv
<1>0. Workers' = Workers
  BY PoolFixed
<1>1. TypeOK' /\ QueueFresh' /\ TodoFresh' /\ SentReady'
  <2>1. TypeOK'
    BY <1>0 DEF TypeOK
  <2>2. QueueFresh' /\ TodoFresh'
    BY DEF QueueFresh, TodoFresh, Queued, Outgoing, Externals
  <2>3. SentReady'
    BY DEF SentReady, Queued, IsReady, Outgoing
  <2> QED
    BY <2>1, <2>2, <2>3
<1>2. RunningOnce' /\ ResultsTrue' /\ NoResultLost' /\ Counted' /\ PanicsSeen'
  BY <1>0 DEF RunningOnce, ResultsTrue, NoResultLost, Answered, Counted, PanicsSeen, Sending
<1>3. Phases'
  BY <1>0 DEF Phases, Sending, Gone
<1>4. OutcomeCause'
  BY DEF OutcomeCause
<1> QED
  BY <1>1, <1>2, <1>3, <1>4

\* Every step of every thread preserves the invariant.
LEMMA NextInd == IndInv /\ [Next]_vars => IndInv'
<1> SUFFICES ASSUME IndInv, [Next]_vars PROVE IndInv'
  OBVIOUS
<1>1. CASE Main
  BY <1>1, RejectCyclesInd, ReturnEmptyInd, StartSingleInd, FinishSingleInd, UnwindSingleInd,
     ReportSingleInd, LaunchInd, SeedInd, SeedDoneInd, ReceiveOkInd, ReceiveBadInd,
     ReceivePanicInd, ReceiveClosedInd, DispatchInd, DispatchDoneInd, DrainInd, DrainDoneInd,
     CollectInd, CollectDoneInd, JoinInd
     DEF Main
<1>2. ASSUME NEW w \in Workers, WorkerStep(w) PROVE IndInv'
  BY <1>2, WorkerRecvInd, WorkerExitInd, WorkerSendInd, WorkerPanicInd DEF WorkerStep
<1>3. CASE UNCHANGED vars
  BY <1>3, StutterInd
<1> QED
  BY <1>1, <1>2, <1>3 DEF Next, Terminated

\* Where each task is in the pipe is known in every reachable state.
THEOREM WorkerInvariant == Spec => []IndInv
  BY InitInd, NextInd, PTL DEF Spec

\* The executor's state keeps its types, for every graph and process limit.
THEOREM TypeCorrect == Spec => []TypeOK
<1>1. IndInv => TypeOK
  BY DEF IndInv
<1> QED
  BY <1>1, WorkerInvariant, PTL

\* No task of any graph runs before all its dependencies have succeeded.
THEOREM DependencyOrderAlways == Spec => []DependencyOrder
<1>1. IndInv => DependencyOrder
  <2> SUFFICES ASSUME IndInv, NEW w \in Workers, wpc[w] = "busy",
                      NEW m \in Outgoing(nodes, edges, wtask[w])
               PROVE  fate[m] = "ok"
    BY DEF DependencyOrder
  <2>1. wtask[w] \in nodes /\ fate[wtask[w]] = "running"
    BY DEF IndInv, TypeOK, RunningOnce
  <2>2. m \in completed
    BY <2>1 DEF IndInv, SentReady, IsReady
  <2> QED
    BY <2>2 DEF IndInv, NoResultLost
<1> QED
  BY <1>1, WorkerInvariant, PTL

\* assert!(!completed[..]) at the head of the receive loop never fails.
THEOREM AssertionHoldsAlways == Spec => []AssertionHolds
<1>1. IndInv => AssertionHolds
  <2> SUFFICES ASSUME IndInv, pc = "recv", resultq # <<>>
               PROVE  Head(resultq).index \notin completed
    BY DEF AssertionHolds
  <2>1. Head(resultq) = resultq[1] /\ 1 \in 1..Len(resultq)
    BY HeadAndTail DEF IndInv, TypeOK
  <2> QED
    BY <2>1 DEF IndInv, ResultsTrue, Phases, Sending
<1> QED
  BY <1>1, WorkerInvariant, PTL

\* The progress counter counts each reported task once and stays within total.
THEOREM ProgressCountAlways == Spec => []ProgressCount
<1>1. IndInv => ProgressCount
  <2> SUFFICES ASSUME IndInv PROVE ProgressCount
    OBVIOUS
  <2>1. TypeOK /\ reported \in SUBSET nodes
    BY DEF IndInv, TypeOK
  <2>2. Cardinality(reported) <= Cardinality(nodes)
    BY <2>1, NodesFinite
  <2> QED
    BY <2>2 DEF IndInv, Counted, ProgressCount
<1> QED
  BY <1>1, WorkerInvariant, PTL

\* When the call returns, update_progress has seen every task that was started.
THEOREM ReportedAllAlways == Spec => []ReportedAll
<1>1. IndInv => ReportedAll
  <2> SUFFICES ASSUME IndInv, pc = "done", ~cut
               PROVE  reported = {n \in nodes : fate[n] \notin {"waiting", "panic"}}
    BY DEF ReportedAll
  <2>1. \A n \in nodes : fate[n] # "running"
    BY DEF IndInv, RunningOnce, Phases
  <2>2. \A n \in nodes : fate[n] \in {"waiting", "panic"} \cup Ended
    BY <2>1, TaskEndsKnown DEF IndInv, TypeOK, Ended
  <2>3. resultq = <<>>
    BY DEF IndInv, Phases
  <2>4. \A n \in nodes : fate[n] \in Ended => n \in reported
    BY <2>3 DEF IndInv, NoResultLost, Answered
  <2>5. \A n \in reported : n \in nodes /\ fate[n] \in Ended
    BY DEF IndInv, NoResultLost, TypeOK
  <2> QED
    BY <2>2, <2>4, <2>5 DEF Ended
<1> QED
  BY <1>1, WorkerInvariant, PTL

\* Whatever execute_graph returns has its cause, and success means success.
THEOREM VerdictHonestAlways == Spec => []VerdictHonest
<1>1. IndInv => VerdictHonest
  BY DEF IndInv, OutcomeCause, VerdictHonest
<1> QED
  BY <1>1, WorkerInvariant, PTL

\* Only WorkerRecv makes a worker busy.
LEMMA OnlyRecvStarts ==
  ASSUME IndInv, [Next]_vars, NEW w \in Workers, wpc[w] = "idle", wpc'[w] = "busy"
  PROVE  WorkerRecv(w)
<1>1. CASE wpc' = wpc
  BY <1>1
<1>2. ASSUME Main PROVE wpc' = wpc
  BY <1>2 DEF Main, RejectCycles, ReturnEmpty, StartSingle, FinishSingle, UnwindSingle, Return,
     ReportSingle, Launch, Seed, SeedDone, ReceiveOk, ReceiveBad, ReceivePanic, ReceiveClosed,
     Report, Dispatch, DispatchDone, Drain, DrainDone, Collect, CollectDone, Join, workers
<1>3. ASSUME NEW v \in Workers, WorkerStep(v) PROVE WorkerRecv(w)
  <2>1. CASE WorkerRecv(v)
    <3>1. wpc' = [wpc EXCEPT ![v] = "busy"]
      BY <2>1 DEF WorkerRecv
    <3>2. v = w
      BY <3>1 DEF IndInv, TypeOK
    <3> QED
      BY <2>1, <3>2
  <2>2. CASE WorkerExit(v)
    BY <2>2 DEF WorkerExit, IndInv, TypeOK
  <2>3. CASE WorkerSend(v)
    BY <2>3 DEF WorkerSend, IndInv, TypeOK
  <2>4. CASE WorkerPanic(v)
    BY <2>4 DEF WorkerPanic, IndInv, TypeOK
  <2> QED
    BY <1>3, <2>1, <2>2, <2>3, <2>4 DEF WorkerStep
<1>4. CASE UNCHANGED vars
  BY <1>4 DEF vars, workers
<1> QED
  BY <1>1, <1>2, <1>3, <1>4 DEF Next, Terminated

\* No task is ever handed out twice.
THEOREM StartsOnceAlways == Spec => StartsOnce
<1>1. IndInv /\ [Next]_vars =>
        [\A w \in Workers : wpc[w] = "idle" /\ wpc'[w] = "busy" => fate[wtask'[w]] = "waiting"]_vars
  <2> SUFFICES ASSUME IndInv, [Next]_vars, NEW w \in Workers, wpc[w] = "idle", wpc'[w] = "busy"
               PROVE  fate[wtask'[w]] = "waiting"
    OBVIOUS
  <2>1. WorkerRecv(w)
    BY OnlyRecvStarts
  <2>2. wtask'[w] = Head(taskq) /\ taskq # <<>>
    BY <2>1 DEF WorkerRecv, IndInv, TypeOK
  <2>3. Head(taskq) = taskq[1] /\ 1 \in 1..Len(taskq)
    BY <2>2, HeadAndTail DEF IndInv, TypeOK
  <2> QED
    BY <2>2, <2>3 DEF IndInv, QueueFresh
<1> QED
  BY <1>1, WorkerInvariant, PTL DEF Spec, StartsOnce

\* Once the queue is cleaned up, nothing starts any more.
THEOREM NoStartAfterDrainAlways == Spec => NoStartAfterDrain
<1>1. IndInv /\ [Next]_vars =>
        [pc = "collect" => \A w \in Workers : ~(wpc[w] = "idle" /\ wpc'[w] = "busy")]_vars
  <2> SUFFICES ASSUME IndInv, [Next]_vars, pc = "collect", NEW w \in Workers,
                      wpc[w] = "idle", wpc'[w] = "busy"
               PROVE  FALSE
    OBVIOUS
  <2>1. WorkerRecv(w)
    BY OnlyRecvStarts
  <2> QED
    BY <2>1 DEF WorkerRecv, IndInv, Phases
<1> QED
  BY <1>1, WorkerInvariant, PTL DEF Spec, NoStartAfterDrain

-------------------------------------------------------------------------------
(* Worker implements BuildOrder.                                           *)

\* The last step of the calling thread is BuildOrder's Return.
LEMMA ReturnRefines ==
  ASSUME IndInv, IndInv', pc # "done", pc' = "done",
         nodes' = nodes, edges' = edges, fate' = fate, cut' \in {cut, TRUE}
  PROVE  Order!Return
<1>1. \A n \in nodes : fate[n] # "running"
  BY PoolFixed DEF IndInv, RunningOnce, Phases
<1>2. outcome' \in {"Ok0", "OkStatus", "OkNone", "Err", "panic"}
  BY DEF IndInv, OutcomeCause, TypeOK
<1>3. Order!Justified(outcome', nodes, edges, fate, cut')
  BY <1>2 DEF IndInv, OutcomeCause
<1> QED
  BY <1>1, <1>2, <1>3 DEF Order!Return, Order!Verdicts

\* The steps that change neither a task nor the verdict.
LEMMA SilentRefines ==
  ASSUME pc # "done", pc' # "done",
         nodes' = nodes, edges' = edges, fate' = fate, cut' \in {cut, TRUE}
  PROVE  [Order!Next]_(Order!vars)
<1>1. CASE cut' = cut
  BY <1>1 DEF Order!vars
<1>2. CASE cut' = TRUE
  BY <1>2 DEF Order!Next, Order!CutShort
<1> QED
  BY <1>1, <1>2

\* Each step of the calling thread is a step of BuildOrder or none.
LEMMA MainRefines ==
  ASSUME IndInv, IndInv', Main
  PROVE  [Order!Next]_(Order!vars)
<1> USE DEF graph, main, workers, history
<1>1. CASE StartSingle
  <2>1. PICK x : nodes = {x}
    BY <1>1, NodesFinite, FS_Singleton DEF StartSingle, IndInv
  <2>2. fate[x] = "waiting" /\ fate' = [fate EXCEPT ![x] = "running"]
    BY <1>1, <2>1 DEF StartSingle, IndInv, TypeOK, Phases
  <2>3. Order!Outgoing(nodes, edges, x) = {}
    BY <1>1, <2>1 DEF StartSingle, Order!Outgoing, HasCycle, IsCyclicCore
  <2> QED
    BY <1>1, <2>1, <2>2, <2>3 DEF StartSingle, Order!Next, Order!Start
<1>2. CASE FinishSingle
  <2>1. PICK x : nodes = {x}
    BY <1>2, NodesFinite, FS_Singleton DEF FinishSingle, IndInv, Phases
  <2>2. PICK r \in TaskEnds : fate' = [n \in nodes |-> r]
    BY <1>2 DEF FinishSingle
  <2>3. fate[x] = "running" /\ fate' = [fate EXCEPT ![x] = r] /\ r \in Order!Ends
    BY <1>2, <2>1, <2>2, TaskEndsKnown DEF FinishSingle, IndInv, TypeOK, Phases, Order!Ends
  <2>4. pc # "done" /\ pc' # "done"
    BY <1>2 DEF FinishSingle
  <2> QED
    BY <1>2, <2>1, <2>3, <2>4 DEF FinishSingle, Order!Next, Order!Finish
<1>3. CASE RejectCycles \/ ReturnEmpty \/ UnwindSingle \/ ReportSingle \/ Join
  <2>1. /\ pc # "done" /\ pc' = "done"
        /\ nodes' = nodes /\ edges' = edges /\ fate' = fate
    BY <1>3 DEF RejectCycles, ReturnEmpty, UnwindSingle, Return, ReportSingle, Join
  <2>2. ASSUME ReportSingle PROVE cut' \in {cut, TRUE}
    BY <2>2 DEF ReportSingle, IndInv, Phases, TypeOK
  <2>3. cut' \in {cut, TRUE}
    BY <1>3, <2>2 DEF RejectCycles, ReturnEmpty, UnwindSingle, Return, Join
  <2> QED
    BY <2>1, <2>3, ReturnRefines DEF Order!Next
<1>4. CASE \/ Launch \/ Seed \/ SeedDone \/ ReceiveClosed \/ Dispatch \/ DispatchDone
           \/ Drain \/ DrainDone \/ CollectDone
  <2>1. /\ pc # "done" /\ pc' # "done"
        /\ nodes' = nodes /\ edges' = edges /\ fate' = fate /\ cut' = cut
    BY <1>4 DEF Launch, Seed, SeedDone, ReceiveClosed, Dispatch, DispatchDone, Drain, DrainDone,
       CollectDone
  <2> QED
    BY <2>1, SilentRefines
<1>5. CASE ReceiveOk \/ ReceiveBad \/ ReceivePanic \/ Collect
  <2>1. pc # "done" /\ pc' # "done" /\ \E p \in {"ok", "err", "panic"} : Report(p)
    BY <1>5 DEF ReceiveOk, ReceiveBad, ReceivePanic, Collect
  <2>2. nodes' = nodes /\ edges' = edges /\ fate' = fate /\ cut' \in {cut, TRUE}
    BY <2>1 DEF Report, IndInv, TypeOK
  <2> QED
    BY <2>1, <2>2, SilentRefines
<1> QED
  BY <1>1, <1>2, <1>3, <1>4, <1>5 DEF Main

\* A worker starts and finishes tasks as BuildOrder allows.
LEMMA WorkerRefines ==
  ASSUME IndInv, NEW w \in Workers, WorkerStep(w)
  PROVE  [Order!Next]_(Order!vars)
<1> USE DEF graph, main, workers, history
<1>1. CASE WorkerRecv(w)
  <2>1. Head(taskq) = taskq[1] /\ 1 \in 1..Len(taskq) /\ Head(taskq) \in nodes
    BY <1>1, HeadAndTail DEF WorkerRecv, IndInv, TypeOK
  <2>2. fate[Head(taskq)] = "waiting" /\ Queued(Head(taskq))
    BY <2>1 DEF IndInv, QueueFresh, Queued
  <2>3. \A m \in Order!Outgoing(nodes, edges, Head(taskq)) : fate[m] = "ok"
    BY <2>1, <2>2 DEF IndInv, SentReady, IsReady, Outgoing, Order!Outgoing, NoResultLost
  <2>4. pc # "done"
    BY <1>1 DEF WorkerRecv, IndInv, Phases, Gone
  <2> QED
    BY <1>1, <2>1, <2>2, <2>3, <2>4 DEF WorkerRecv, Order!Next, Order!Start
<1>2. CASE WorkerExit(w)
  BY <1>2 DEF WorkerExit, Order!vars
<1>3. CASE WorkerSend(w) \/ WorkerPanic(w)
  <2>1. /\ wtask[w] \in nodes /\ fate[wtask[w]] = "running" /\ pc # "done" /\ pc' = pc
        /\ nodes' = nodes /\ edges' = edges /\ cut' = cut
    BY <1>3 DEF WorkerSend, WorkerPanic, IndInv, TypeOK, RunningOnce, Phases
  <2>2. \E e \in Order!Ends : fate' = [fate EXCEPT ![wtask[w]] = e]
    BY <1>3, TaskEndsKnown DEF WorkerSend, WorkerPanic, Order!Ends
  <2> QED
    BY <2>1, <2>2 DEF Order!Next, Order!Finish
<1> QED
  BY <1>1, <1>2, <1>3 DEF WorkerStep

\* The thread pool with its two channels implements the order-only view of a
\* build, on every finite graph and with any number of workers.
THEOREM WorkerImplementsOrder == Spec => ImplementsOrder
<1>1. Init => Order!Init
  BY DEF Init, Order!Init
<1>2. IndInv /\ IndInv' /\ [Next]_vars => [Order!Next]_(Order!vars)
  <2> SUFFICES ASSUME IndInv, IndInv', [Next]_vars PROVE [Order!Next]_(Order!vars)
    OBVIOUS
  <2>1. CASE UNCHANGED vars
    BY <2>1 DEF vars, graph, main, history, Order!vars
  <2> QED
    BY <2>1, MainRefines, WorkerRefines DEF Next, Terminated
<1> QED
  BY <1>1, <1>2, WorkerInvariant, PTL DEF Spec, Order!Spec, ImplementsOrder


===============================================================================
