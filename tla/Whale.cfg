SPECIFICATION Spec
CONSTANTS
  Grain = 2
  MaxLate = 3
  ForkFails = TRUE
INVARIANTS
  CountsDown
  FinalAfterChildren
PROPERTIES
  EveryNumberOnce
CHECK_DEADLOCK FALSE
