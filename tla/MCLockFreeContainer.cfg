SPECIFICATION MCSpec
CONSTANTS
  Threads = {a, b, c}
  MaxSz = 2
  MaxConcurrentRead = 2
  MaxConcurrentWrite = 2
  MaxPush = 3
  MaxPop = 3
  Junk = Junk
  Producers = {p1, p2}
  Consumers = {c1, c2}
  RingSz = 3
  MaxItems = 4
  Unset = Unset
INVARIANTS
  PopReturnsTop
  RingFifo
PROPERTIES
  CallReturns
  RingCallReturns
CHECK_DEADLOCK FALSE
