SPECIFICATION ListQueueSpec
CONSTANTS
  Stalling = {c}
  p = p
  c = c
  d = d
  Threads <- MCThreads
  Quotas <- FewProducers
  Size = 3
INVARIANTS
  Fifo
PROPERTY PushPopReturns
CHECK_DEADLOCK FALSE
