CONSTANTS
  Clients = {c1, c2}
  Deadline = 1
SPECIFICATION FairSpec
INVARIANTS TypeOK LostAnswerHasCause
PROPERTIES ExchangeKept AskedIsReleased DeadlineEnds QueuedIsTaken
CHECK_DEADLOCK FALSE
