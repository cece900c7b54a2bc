SPECIFICATION FairSpec
CONSTANTS
  Admin = {a1}
  Beat = {h1}
  Nobody = Nobody
  MaxVersion = 2
  MaxOrders = 1
  Faults = {}
  MaxFaults = 0
PROPERTIES
  PolicyArrives
