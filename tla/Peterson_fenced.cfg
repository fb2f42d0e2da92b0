CONSTANTS
  Buffered = TRUE
  Fence = TRUE
  MaxRounds = 2
SPECIFICATION Spec
INVARIANT CountExact
