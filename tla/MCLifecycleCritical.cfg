\* Critical exceptions out of a message handler; run_loop is the only connector.
CONSTANTS
  Main = Main
  client1 = client1
  client2 = client2
  Clients = {}
  CloseInTime = TRUE
  PasswordErrors = TRUE
SPECIFICATION FairSpec
PROPERTY CriticalStops
CHECK_DEADLOCK FALSE
