SPECIFICATION FairSpec
CONSTANTS
  Users = {u1, u2}
  Writes = {w1, w2, w3}
  Refused = {w3}
  MaxPendingWrites = 2
  MaxTrouble = 3
  Nothing = Nothing
CHECK_DEADLOCK FALSE
INVARIANTS
  TypeOK
  NoAssertFails
  PipelineIsOldest
  AnswersCorrelate
  CallbacksMatchQueue
  OwnSession
  QueueIsTheRest
  LastWriteWins
PROPERTIES
  KeepsContract
  EveryWriteSettles
