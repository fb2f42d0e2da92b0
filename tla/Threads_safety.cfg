CONSTANTS
  Ids = {i1, i2}
  Garbage = garbage
  Nobody = nobody
  MaxPackets = 3
  BufLen = 2
  MaxClients = 2
  MaxSent <- MCMaxSent
  MaxLater = 1
SPECIFICATION MCSpec
INVARIANTS
  OnePlayerEach
  OneTurn
PROPERTIES
  PacketsServed
  QuitEnds
  AllEchoed
CHECK_DEADLOCK FALSE
