SPECIFICATION FairSpec
CONSTANTS
  Machine = {m1, m2}
  Named = {m1}
  Id = {i1, i2, i3}
  Token = {t1, t2}
  Seeded = t1
  Attempt = {a1, a2, a3}
  Nobody = Nobody
  Faults = {"lost_reply", "cc_crash"}
  MaxFaults = 1
  MaxBoots = 2
INVARIANT EnrolledIsKnown
PROPERTY EnrollsOrCannot
CHECK_DEADLOCK FALSE
