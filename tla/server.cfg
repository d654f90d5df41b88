CONSTANTS
  Terminals = {t1, t2, t3}
  MaxFails = 1
  MaxStarts = 2
SPECIFICATION FairSpec
INVARIANTS TypeOK PortOpenWhenTold
PROPERTIES TerminalsServed
CHECK_DEADLOCK FALSE
