SPECIFICATION ListSpec
CONSTANTS
  t1 = t1
  t2 = t2
  t3 = t3
  None = None
  Threads <- ThreeThreads
  CooldownOk = 2
  CooldownErr = 1
  MaxTime = 5
  MaxCalls = 2
SYMMETRY Symmetry
PROPERTIES
  RequestsSpaced
  FreshUnlessFailed
