SPECIFICATION Spec
CONSTANTS
  Users = {me, you}
  Me = me
  Ages <- MCOneAge
  Queries = {q1, q2}
  MaxFetches = 2
  MaxSaves = 1
  Nil = Nil
INVARIANTS
  NoRepeatedCards
