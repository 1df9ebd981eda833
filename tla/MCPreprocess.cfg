SPECIFICATION Spec
CONSTANTS
  Inputs <- MCInputs
  BlockSize = 4
  Junk = "junk"
  TokenSize = 3
  PathSize = 11
  PipeSize = 2
INVARIANTS
  TextWhole
  TextExact
  ReadsWhatWasWritten
PROPERTY
  ChildDrained
