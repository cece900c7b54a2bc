SPECIFICATION FairSpec
CONSTANTS
  Event = {e1, e2, e3}
  Alerting = {e1}
  Conn = {c1, c2}
  NoConn = NoConn
  NoEvent = NoEvent
  MaxBatch = 2
  Faults = {"refuse", "timeout", "crash", "shutdown", "torn", "cc_crash",
            "new_container", "lost_enrollment"}
  MaxFaults = 2
CHECK_DEADLOCK FALSE
INVARIANTS
  DeliveryInv
  NothingLost
  QueueIsTailOfPushed
  NoPhantomAlert
PROPERTIES
  PoisonIsForever
  ForeignIsForever
  ImplementsEventLog
  FlushEnds
  HeldLeaves
