\* A client that connected before run_state was RUN passes one message through.
CONSTANTS
  Main = Main
  NoOne = NoOne
  command1 = command1
  client1 = client1
  client2 = client2
  Blocks = 1
  Generations = {1, 2, 3}
  Commands = {command1}
  Clients = {client2}
  EarlyClients = {client2}
  Retries = 2
  MaxMissing = 3
  MaxMessages = 1
SPECIFICATION FairSpec
PROPERTY RefreshServed
CHECK_DEADLOCK FALSE
