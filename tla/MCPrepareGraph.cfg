SPECIFICATION PrepareSpec
CONSTANTS
  a = a
  b = b
  c = c
  x = x
  Layouts <- MCLayouts
  Missing = x
  Commands <- MCCommands
  Universe <- MCUniverse
INVARIANTS
  AcceptsOnlyAcyclic
  RejectsOnlyCyclic
  OrderKept
  NothingDropped
  WordsAccounted
  ObjectsShared
  SecondCheckPasses
PROPERTY
  PreparationEnds
