CONSTANTS
  t1 = t1
  t2 = t2
  t3 = t3
  Workers = {t1, t2}
  MaxBytes = 3
  Threads = {t1, t2, t3}
  Buffered = TRUE
  MaxRounds = 3
  Keys = {1, 2, 3, 4, 5, 6, 7}
  IntMax = 100
  GRID_WIDTH = 4
  GRID_HEIGHT = 3
  Starts <- MCStarts
  None = None
SPECIFICATION MCSpec
INVARIANTS
  IoCountExact
  ReleasedUnused
  WireIsQueued
  CountExact
  Verific
  WayFound
  EndsRight
PROPERTIES
  ClosedIsReleased
  LockTerminates
  TreeIsSet
CHECK_DEADLOCK FALSE
