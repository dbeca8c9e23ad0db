\* A session command times out, and connect() tries again.
CONSTANTS
  t1 = t1
  t2 = t2
  t3 = t3
  t4 = t4
  t5 = t5
  t6 = t6
  None = None
  Transports = {t1, t2, t3}
  Commands = 4
  MaxTries = 3
  CloseInTime = TRUE
SPECIFICATION Spec
INVARIANT NoTransportLeft
CHECK_DEADLOCK FALSE
