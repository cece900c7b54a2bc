SPECIFICATION FairSpec
CONSTANTS
  Admin = {a1}
  Beat = {h1}
  Nobody = Nobody
  MaxVersion = 2
  MaxOrders = 1
  Faults = {"lost_beat", "lost_sync", "restart", "torn_cache", "cc_crash"}
  MaxFaults = 1
INVARIANTS
  RequestsInv
  RowIsConsistent
PROPERTIES
  OnlyOrdersRelease
  PolicyIsFrozen
  QuarantineIsReported
  OfflineHeals
  PolicyIsCached
