SPECIFICATION ListQueueSpec
CONSTANTS
  Stalling = {}
  p = p
  c = c
  d = d
  Threads <- MCThreads
  Quotas <- TwoProducers
  Size = 4
INVARIANTS
  NodesLinked
CHECK_DEADLOCK FALSE
