SPECIFICATION FairSpec
CONSTANTS
  Admin = {a1, a2}
  MaxVersion = 3
  MaxCrashes = 2
INVARIANT UpdatesKept
INVARIANT OnePublished
PROPERTY PublishedForGood
PROPERTY NoRollback
PROPERTY RequestsEnd
CHECK_DEADLOCK FALSE
