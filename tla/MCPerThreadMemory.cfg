SPECIFICATION MemorySpec
CONSTANTS
  Threads = {t1, t2, t3}
  Population = 2
  MaxList = 2
  MaxRelease = 3
INVARIANTS
  CountMatches
  NodeInOnePlace
CHECK_DEADLOCK FALSE
