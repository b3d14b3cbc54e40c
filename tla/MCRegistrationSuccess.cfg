SPECIFICATION Spec
CONSTANTS
  Attempts = {a1, a2}
  Emails = {e1, e2}
  Names = {n1}
  Passwords = {p1}
  NilText = NilText
  EmptyText = EmptyText
  NoUser = NoUser
  NoDoc = NoDoc
SYMMETRY Symmetry
INVARIANTS
  SuccessMeansRegistered
