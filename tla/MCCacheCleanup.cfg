SPECIFICATION Spec
CONSTANTS
  c1 = c1
  c2 = c2
  Cleaners <- TwoCleaners
  NumFiles = 3
  MaxSize = 2
  CacheLimit = 1
  MaxClock = 2
  MaxUses = 2
SYMMETRY Symmetry
INVARIANTS
  OkWithinLimit
  KeepsNewest
  SomeoneFinishes
