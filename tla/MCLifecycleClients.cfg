\* Two clients come and go, close() may take too long, passwords may be refused.
CONSTANTS
  Main = Main
  client1 = client1
  client2 = client2
  Clients = {client1, client2}
  CloseInTime = FALSE
  PasswordErrors = TRUE
SPECIFICATION Spec
INVARIANT PausedForClient
PROPERTY HarmTakesTwo
CHECK_DEADLOCK FALSE
