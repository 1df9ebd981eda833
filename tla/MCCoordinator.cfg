SPECIFICATION Spec
CONSTANTS
  n1 = n1
  n2 = n2
  Nodes <- TwoNodes
  Ttl = 5
  Period = 1
  MaxDelay = 1
  MaxLost = 1
  MaxStarts = 1
  MaxRestarts = 1
  MaxClock = 9
SYMMETRY Symmetry
\* The time is bounded.
CHECK_DEADLOCK FALSE
INVARIANTS
  ListedWhileAnnouncing
  ListedWasUp
  StoppedIsSilent
