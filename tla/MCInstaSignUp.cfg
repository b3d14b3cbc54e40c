SPECIFICATION FairSpec
CONSTANTS
  Attempts = {a1, a2}
  Emails = {e1, e2}
  Names = {n1}
  Passwords = {p}
  Images = {}
  EmptyText = EmptyText
  AddPhoto = AddPhoto
  NoImage = NoImage
  NoUser = NoUser
  NoURL = NoURL
  NoDoc = NoDoc
INVARIANT SessionIsOwn
INVARIANT EmptyFormNeverRegisters
PROPERTY PhotoStaysPut
PROPERTY KeepsContract
PROPERTY HudsLeave
