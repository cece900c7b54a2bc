SPECIFICATION Spec
CONSTANTS
  Session = {s1}
  NoSession = none
  Unknown = unknown
  Call = {c1}
  Message = {m1}
  Faults = {"disk_full", "sidecar_stops", "reload"}
  MaxFaults = 2
INVARIANTS
  QuarantineHolds
  TaintCounts
