\* A resume task and run_loop connect at the same time.
CONSTANTS
  Main = Main
  client1 = client1
  client2 = client2
  Clients = {client1}
  CloseInTime = TRUE
  PasswordErrors = FALSE
SPECIFICATION Spec
INVARIANT SingleTransport
CHECK_DEADLOCK FALSE
