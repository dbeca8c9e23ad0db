\* Framing, bare connections, sessions, clients and MQTT.
CONSTANTS
  t1 = t1
  t2 = t2
  t3 = t3
  t4 = t4
  t5 = t5
  t6 = t6
  None = None
  Main = Main
  client1 = client1
  client2 = client2
  client3 = client3
  Transports = {t1, t2, t3, t4, t5, t6}
  Commands = 0
  MaxTries = 3
  CloseInTime = TRUE
  Lengths = {7, 37}
  MaxMessages = 2
  Cuts = {0, 5, 16, 31, 32, 63}
  Clients = {client1, client2, client3}
  Messages = {1}
  Numbers = 2
SPECIFICATION SpecOfParts
INVARIANTS OnlyWholeMessages NoTransportLeft RunMeansIdentified MissedOnlyByLeaving
PROPERTIES LossIsOwn CriticalStops SignalStops StatusSettles ValueReachesBroker
CHECK_DEADLOCK FALSE
