CONSTANTS
  Workers = {w1, w2}
  MaxBytes = 3
SPECIFICATION EchoFairSpec
PROPERTY EverythingEchoed
CHECK_DEADLOCK FALSE
