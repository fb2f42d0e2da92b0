CONSTANTS
  Workers = {w1, w2}
  MaxBytes = 3
SPECIFICATION EchoSpec
INVARIANT EchoInOrder
CHECK_DEADLOCK FALSE
