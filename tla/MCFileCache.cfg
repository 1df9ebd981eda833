SPECIFICATION Spec
CONSTANTS
  p1 = p1
  p2 = p2
  p3 = p3
  clang8 = clang8
  clang9 = clang9
  None = None
  Hole = Hole
  Touched = Touched
  Old = Old
  Procs <- ThreeCalls
  Toolchains = {clang8}
  Variants = {1, 2}
  Blocks = 5
  Ends <- TwoOutputs
  MaxCrashes = 1
  MaxStuck = 1
  Faults = TRUE
SYMMETRY Symmetry
INVARIANTS
  SuccessIsWhole
  OutputNeverPartial
PROPERTY SoleWriterHeals
