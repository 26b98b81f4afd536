SPECIFICATION Spec
CONSTANTS
  Stalling = {}
  Threads = {a, b, c}
  Size = 2
  MaxId = 4
INVARIANT Exclusive
CHECK_DEADLOCK FALSE
