SPECIFICATION Spec
CONSTANTS
  a = a
  b = b
  Symbols = {a, b}
  Modes = {"live"}
  Required = 2
  MaxEntry = 2
  MaxSoft = 1
  MinConfidence = 2
  MinWatch = 1
  MinEdge = 1
  Shapes <- ShapesDef
INVARIANTS
  PendingEntryReserves
