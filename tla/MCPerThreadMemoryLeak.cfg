SPECIFICATION MemorySpec
CONSTANTS
  Threads = {t1, t2, t3}
  Population = 2
  MaxList = 2
  MaxRelease = 3
INVARIANT MemoryFreed
CHECK_DEADLOCK FALSE
