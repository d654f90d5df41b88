SPECIFICATION FairSpec
CONSTANTS
  NCards = 0
  PingLimit = 1
  RecvLimit = 1
  ImgLen = 1
  SizeT = 64
  SendCap = 1
  MaxStream = 4
  MaxQueries = 1
  QueryTypes = {"edited"}
PROPERTIES
  HangupRetires
  ReceiveEnds
CHECK_DEADLOCK FALSE
