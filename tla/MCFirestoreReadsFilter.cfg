SPECIFICATION Spec
CONSTANTS
  d1 = d1
  d2 = d2
  Stored <- MCStored
  Changes <- MCChanges
  MaxReads = 2
  Docs = {d1, d2}
  Deck = Deck
  Asked <- MCAskedDeck
  Refused = {}
  MaxLimbo = 1
  MaxEdits = 1
  MaxTrouble = 1
  Nothing = Nothing
CHECK_DEADLOCK FALSE
INVARIANTS
  MismatchIsRepaired
