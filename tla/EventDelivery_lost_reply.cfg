SPECIFICATION FairSpec
CONSTANTS
  Event = {e1, e2}
  Alerting = {e1}
  Conn = {c1, c2}
  NoConn = NoConn
  NoEvent = NoEvent
  MaxBatch = 3
  Faults = {"timeout"}
  MaxFaults = 1
CHECK_DEADLOCK FALSE
PROPERTIES
  EventuallyStored
