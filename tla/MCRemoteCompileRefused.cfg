SPECIFICATION Spec
CONSTANTS
  c1 = c1
  c2 = c2
  v1 = v1
  v2 = v2
  None = None
  Torn = Torn
  Kinds = {"plain", "uses", "makes"}
  Clients = {c1, c2}
  Contents = {v1, v2}
  Originals = {v1}
  HashLen = 32
  ValidLens = {64}
  MaxFaults = 1
INVARIANTS
  ValidHashAccepted
