SPECIFICATION Spec
CONSTANTS
  NCards = 0
  PingLimit = 1
  RecvLimit = 1
  ImgLen = 2
  SizeT = 64
  SendCap = 1
  MaxStream = 6
  MaxQueries = 0
  QueryTypes = {}
INVARIANTS
  TypeOK
  FramingKept
  NoStaleHandler
  TornOnlyAfterHangup
  TerminationHasCause
CHECK_DEADLOCK FALSE
