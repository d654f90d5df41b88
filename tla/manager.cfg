SPECIFICATION FairSpec
CONSTANTS
  Ids = {"a", "b", "c"}
  Texts = {"t"}
  CardLists <- MCCardLists
  Brought <- MCBrought
  MaxConns = 3
  MaxChanges = 2
INVARIANTS TypeOK QueuedSince ListIsKnown HeardInOrder SyncInRange AnnouncedIsSent
PROPERTIES SyncEndsEventually ChangeReachesAll
CHECK_DEADLOCK FALSE
