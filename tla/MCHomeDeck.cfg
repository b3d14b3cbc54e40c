SPECIFICATION FairSpec
CONSTANTS
  Users = {me, you}
  Me = me
  Ages <- MCAges
  Queries = {q1, q2}
  MaxFetches = 1
  MaxSaves = 1
  Nil = Nil
CONSTRAINT OthersTypeAges
INVARIANTS
  RefreshNeverRepeats
PROPERTIES
  HudsLeave
