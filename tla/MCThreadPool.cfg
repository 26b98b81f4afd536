SPECIFICATION Spec
CONSTANTS
  WorkerNum = 2
  Dispatcher = D
  Bodies = {0, 1, D}
  Threads = {0, 1, D}
  Runs <- MCRuns
  Notifying = {0, 1}
  Posters = {owner, D}
  Owner = owner
  t1 = t1
  t2 = t2
  t3 = t3
  Tasks <- MCTasks
  Priority <- MCPriority
  Affinity <- MCAffinity
  IntBits = 32
  LongBits = 64
  MaxTaskSize <- MCMaxTaskSize
  MaxCmdSize = 2
  ReqThreshold = 0
  NULL = NULL
INVARIANTS
  FreeWorkerIdle
  OnePlace
PROPERTIES
  BacklogDrains
CHECK_DEADLOCK FALSE
