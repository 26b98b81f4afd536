SPECIFICATION WorkerSpec
CONSTANTS
  w1 = w1
  Bodies = {w1}
  Threads = {r1, r2}
  Runs <- MCRuns
  Posters = {owner, client}
  Owner = owner
  Tasks = {t1, t2}
  Notifying = {w1}
  MaxTaskSize <- MCMaxTaskSize
  MaxCmdSize = 2
  ReqThreshold = 1
  NULL = NULL
INVARIANTS
  TokenBalance
  NoNullTask
  RunInOrder
PROPERTIES
  WorkerStopReturns
  TaskRuns
  ClearEnds
CHECK_DEADLOCK FALSE
