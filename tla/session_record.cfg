SPECIFICATION Spec
CONSTANTS
  NCards = 0
  PingLimit = 1
  RecvLimit = 1
  ImgLen = 1
  SizeT = 64
  SendCap = 2
  MaxStream = 2
  MaxQueries = 0
  QueryTypes = {}
INVARIANTS
  RecordsReceived
CHECK_DEADLOCK FALSE
