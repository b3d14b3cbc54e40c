SPECIFICATION FairSpec
CONSTANTS
  d1 = d1
  d2 = d2
  Stored <- MCStored
  Changes <- MCChanges
  MaxReads = 2
  Docs = {d1, d2}
  Deck = Deck
  Asked <- MCAsked
  Refused = {d1}
  MaxLimbo = 1
  MaxEdits = 1
  MaxTrouble = 1
  Nothing = Nothing
CHECK_DEADLOCK FALSE
INVARIANTS
  TypeOK
  NoAssertFails
  AnsweredOnce
  TargetsMatch
  AcksAreCounted
  ViewIsServers
  TokensMatchKeys
  LimboIsLookedUp
PROPERTIES
  EveryReadIsAnswered
