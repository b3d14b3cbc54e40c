SPECIFICATION FairSpec
CONSTANT MaxTimers = 20
INVARIANTS
  DismissalIsKept
  NoStaleDismissal
PROPERTIES
  AskedHudLeaves
