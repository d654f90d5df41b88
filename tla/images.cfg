CONSTANTS
  Uploads <- MCUploads
  Size <- MCSize
  Downloads = {d1, d2}
SPECIFICATION Spec
INVARIANTS TypeOK LatestIsWhole UndisturbedIsWhole
CHECK_DEADLOCK FALSE
