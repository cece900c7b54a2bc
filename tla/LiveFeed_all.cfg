CONSTANTS
  MaxSockets = 3
  MaxAlerts = 2
  MaxFaults = 1
SPECIFICATION FairSpec
INVARIANTS
  Registered
  NobodyForgotten
  InOrder
PROPERTIES
  GhostsGo
  AlertArrives
CHECK_DEADLOCK FALSE
