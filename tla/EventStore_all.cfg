CONSTANTS
  Request = {r1, r2}
  Id = {1, 2, 3, 4}
  Sent <- MCSent
  MaxBatch = 2
  Limit = 2
  Day = 1
  MaxTime = 2
SPECIFICATION FairSpec
INVARIANTS
  ListingIsComplete
  RepeatsAreTies
  SeverityFits
  SummaryAgrees
PROPERTIES
  ListingEnds
CHECK_DEADLOCK FALSE
