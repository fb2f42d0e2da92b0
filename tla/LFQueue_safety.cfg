CONSTANTS
  Producers = {t1, t2}
  Consumers = {t1, t2}
  Nodes = {n1, n2, n3, n4, n5}
  Null = Null
  StampMod = 64
  MaxEnqueue = 2
SPECIFICATION FairSpec
INVARIANTS
  TailAhead
  NodesApart
  DequeuedOnce
  FifoOfOne
PROPERTIES
  EmptyIsSpokenFor
  CallsReturn
