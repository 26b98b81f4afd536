SPECIFICATION AppenderSpec
CONSTANTS
  Clients = {c1, c2}
  MaxMsg = 4
  BuffCap = 2
  FileCap = 2
  FixSz = 1
  IncGran = 1
  MaxBuff = 2
  MaxUnrecycled = 2
  IdleLimit = 1
INVARIANTS
  InOrder
  BuffersConserved
  DrainedAtStop
  CrashKeepsMessages
PROPERTY MessageWritten
CHECK_DEADLOCK FALSE
