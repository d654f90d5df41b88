SPECIFICATION FairSpec
CONSTANTS
  NCards = 0
  PingLimit = 1
  RecvLimit = 1
  ImgLen = 1
  SizeT = 64
  SendCap = 2
  MaxStream = 1
  MaxQueries = 0
  QueryTypes = {}
PROPERTIES
  IdleDisconnect
CHECK_DEADLOCK FALSE
