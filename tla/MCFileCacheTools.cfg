SPECIFICATION Spec
CONSTANTS
  p1 = p1
  p2 = p2
  p3 = p3
  clang8 = clang8
  clang9 = clang9
  None = None
  Hole = Hole
  Touched = Touched
  Old = Old
  Procs <- TwoCalls
  Toolchains = {clang8, clang9}
  Variants = {1}
  Blocks = 3
  Ends <- OneOutput
  MaxCrashes = 0
  MaxStuck = 0
  Faults = FALSE
INVARIANT SameCompilation
