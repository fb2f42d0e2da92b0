CONSTANTS
  Threads = {t1, t2}
  Nodes = {n1, n2, n3, n4, n5, n6}
  Values = {v1, v2}
  Null = Null
  NoValue = NoValue
  StampMod = 4
  MaxOps = 4
SPECIFICATION FairSpec
PROPERTIES
  Linearizable
  CallsReturn
