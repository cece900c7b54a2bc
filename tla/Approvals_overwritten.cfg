SPECIFICATION Spec
CONSTANTS
  Admin = {a1, a2}
  Poller = {p1}
  Nobody = Nobody
  MaxPolls = 1
  Faults = {}
  MaxFaults = 0
CHECK_DEADLOCK FALSE
PROPERTIES
  DecisionIsFinal
