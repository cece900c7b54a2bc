SPECIFICATION FairSpec
CONSTANTS
  Machine = {m1}
  Named = {m1}
  Id = {i1}
  Token = {t1, t2}
  Seeded = t1
  Attempt = {a1, a2, a3}
  Nobody = Nobody
  Faults = {"lost_reply"}
  MaxFaults = 1
  MaxBoots = 2
PROPERTY ReEnrolls
CHECK_DEADLOCK FALSE
