\* Slow link, and what Panel.control_zones reports as a success.
CONSTANTS
  zone1 = zone1
  zone2 = zone2
  read1 = read1
  NoOne = NoOne
  Calls <- MCCalls
  Accepts <- MCAccepts
  Retries = 2
  MaxDrops = 0
SPECIFICATION Spec
INVARIANT AcceptedMeansPerformed
CHECK_DEADLOCK FALSE
