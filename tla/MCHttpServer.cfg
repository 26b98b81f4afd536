SPECIFICATION Spec
CONSTANTS
  a = a
  b = b
  Procs = {p1, p2}
  Peers <- MCPeers
  Stream <- MCStream
  Cuts <- MCCuts
  BodyLen <- MCBodyLen
  MaxBody = 3
  RespLens = {2, 3}
  StatusLen = 1
  Granule = 4
  SndBuf = 1
  ReadCap = 11
  MaxConn = 8
INVARIANTS
  EventsFindClient
  ConnectionsWatched
  RepliesNeedRequests
PROPERTIES
  WholeRequestAnswered
CHECK_DEADLOCK FALSE
