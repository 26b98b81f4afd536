SPECIFICATION Spec
CONSTANTS
  Stalling = {b}
  Threads = {a, b}
  Size = 3
  MaxId = 5
INVARIANT Conserved
PROPERTIES
  ImplementsPool
  CallReturns
CHECK_DEADLOCK FALSE
