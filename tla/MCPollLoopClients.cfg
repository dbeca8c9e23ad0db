\* One client that paused PAI and one that did not, with a command.
CONSTANTS
  Main = Main
  NoOne = NoOne
  command1 = command1
  client1 = client1
  client2 = client2
  Blocks = 2
  Generations = {1, 2, 3}
  Commands = {command1}
  Clients = {client1, client2}
  EarlyClients = {client2}
  Retries = 2
  MaxMissing = 2
  MaxMessages = 1
SPECIFICATION Spec
INVARIANTS TypeOK OrphansBounded
PROPERTY ClientWritesAlone
CHECK_DEADLOCK FALSE
