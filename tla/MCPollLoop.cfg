\* No IP client: polls, a command, a silent panel, a lost connection.
CONSTANTS
  Main = Main
  NoOne = NoOne
  command1 = command1
  client1 = client1
  client2 = client2
  Blocks = 2
  Generations = {1, 2, 3}
  Commands = {command1}
  Clients = {}
  EarlyClients = {}
  Retries = 2
  MaxMissing = 3
  MaxMessages = 0
SPECIFICATION FairSpec
INVARIANT RefreshNotForgotten
PROPERTIES RefreshServed CommandsFinish LossNoticed
CHECK_DEADLOCK FALSE
