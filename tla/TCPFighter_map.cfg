CONSTANTS
  Sessions = {s1, s2}
  Nobody = Nobody
  RANGE_MOVE_RIGHT = 6
  RANGE_MOVE_BOTTOM = 2
  SECTOR_SIZE = 2
  SPEED_PLAYER_X = 1
  SPEED_PLAYER_Y = 1
  SYNC_RANGE = 1
  RangeX = 1
  RangeY = 1
  Damage = 1
  Hp = 1
  HpFloor = 0
  Moves = {"RD"}
SPECIFICATION Spec
INVARIANT OnTheMap
