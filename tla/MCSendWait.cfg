\* Two actions and a memory read; an answer may come after the timeout.
CONSTANTS
  zone1 = zone1
  zone2 = zone2
  read1 = read1
  NoOne = NoOne
  Calls <- MCCalls
  Accepts <- MCAccepts
  Retries = 2
  MaxDrops = 1
SPECIFICATION FairSpec
INVARIANTS TypeOK SingleWaiter OwnReply NoAnswerLost
PROPERTIES CallTerminates TakesTurns
CHECK_DEADLOCK FALSE
