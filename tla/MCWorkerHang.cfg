SPECIFICATION Spec
CONSTANTS
  t1 = t1
  t2 = t2
  t3 = t3
  None = None
  Universe <- TwoTasks
  ProcessLimit <- Limit
  TaskEnds = {"ok", "panic"}
  ProgressEnds = {"ok"}
CHECK_DEADLOCK FALSE
PROPERTY Terminates
