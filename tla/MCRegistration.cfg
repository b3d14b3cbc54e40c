SPECIFICATION FairSpec
CONSTANTS
  Attempts = {a1, a2}
  Emails = {e1, e2}
  Names = {n1, n2}
  Passwords = {p1}
  NilText = NilText
  EmptyText = EmptyText
  NoUser = NoUser
  NoDoc = NoDoc
CONSTRAINT OwnNames
INVARIANTS
  HudsWillLeave
  ProfilesAreWhole
PROPERTIES
  PressIsAnswered
