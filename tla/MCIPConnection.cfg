\* An IP module whose answers may be lost or come after the timeout.
CONSTANTS
  t1 = t1
  t2 = t2
  t3 = t3
  t4 = t4
  t5 = t5
  t6 = t6
  None = None
  Transports = {t1, t2}
  Commands = 4
  MaxTries = 3
  CloseInTime = FALSE
SPECIFICATION FairSpec
INVARIANTS TypeOK KeyOfSession
PROPERTY ConnectEnds
CHECK_DEADLOCK FALSE
