CONSTANTS
  Threads = {t1, t2, t3}
  Nodes = {n1, n2, n3, n4, n5}
  Values = {v1}
  Null = Null
  NoValue = NoValue
  StampMod = 64
  MaxOps = 3
  Size = 5
  MaxBytes = 11
  MaxChunk = 4
SPECIFICATION MCSpec
SYMMETRY Symmetry
INVARIANTS
  ChainsIntact
  NodeOwnership
  NoABA
  CopiesInside
PROPERTIES
  IsByteQueue
CHECK_DEADLOCK FALSE
