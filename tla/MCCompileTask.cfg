SPECIFICATION TaskSpec
CONSTANTS
  t1 = t1
  t2 = t2
  p1 = p1
  a = a
  b = b
  None = None
  Mixed = Mixed
  Threads = {t1, t2}
  Paths = {p1}
  Contents = {a, b}
  Size <- Lengths
  MaxClock = 1
  MaxWrites = 1
  Jobs <- MCJobs
  Sources = {"src"}
  ProcessLimit = 1
  MaxCalls = 1
INVARIANTS
  ResultCurrent
  HashedOnce
  ChildrenBounded
  HitGenuine
PROPERTY
  TaskReturns
