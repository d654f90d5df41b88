SPECIFICATION Spec
CONSTANTS
  NCards = 2
  PingLimit = 2
  RecvLimit = 1
  ImgLen = 1
  SizeT = 64
  SendCap = 3
  MaxStream = 2
  MaxQueries = 2
  QueryTypes = {"edited", "restart"}
INVARIANTS
  ClosedUnused
  SyncFirst
PROPERTIES
  LifeKept
CHECK_DEADLOCK FALSE
