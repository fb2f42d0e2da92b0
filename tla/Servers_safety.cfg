CONSTANTS
  Names = {n1}
  RoomNames = {x}
  MaxUser = 1
  MaxRoomNum = 1
  MaxRoomSession = 2
  BufMax = 2
  MaxConnects = 3
  MaxPackets = 4
  MaxHangs = 1
  Workers = {w1, w2}
  Acceptor = acceptor
  Sessions = {p1, p2, p3}
  SessionMax = 2
  UniqueMod = 3
  MaxAccepts = 4
  NULL = NULL
SPECIFICATION MCSpec
INVARIANTS
  QueuedOnce
  RoomsAgree
  ClientsKnow
  OneHolder
  OwnSlot
PROPERTIES
  OldestLeaves
CONSTRAINT BeforeRaces
CHECK_DEADLOCK FALSE
