SPECIFICATION Spec
CONSTANTS
  t1 = t1
  t2 = t2
  t3 = t3
  None = None
  Universe <- ThreeTasks
  ProcessLimit <- Limit
  TaskEnds = {"ok", "fail", "killed", "error", "panic"}
  ProgressEnds = {"ok", "err", "panic"}
\* A panicked worker can leave the others waiting: see MCWorkerHang.cfg.
CHECK_DEADLOCK FALSE
INVARIANTS
  DependencyOrder
  ReportedAll
  IndInv
PROPERTIES
  NoStartAfterDrain
  ImplementsOrder
  TerminatesUnlessPanic
