SPECIFICATION FairSpec
CONSTANTS
  Admin = {a1, a2}
  Poller = {p1, p2}
  Nobody = Nobody
  MaxPolls = 2
  Faults = {"lost_create", "poll_timeout", "sidecar_crash", "cc_crash"}
  MaxFaults = 2
CHECK_DEADLOCK FALSE
INVARIANTS
  DecisionAudited
  WorkflowInv
PROPERTIES
  ImplementsGate
  WaitEnds
  PendingEnds
