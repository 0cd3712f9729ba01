SPECIFICATION Spec
CONSTANTS
  s1 = s1
  s2 = s2
  Streams <- OneStream
  Actors <- OnlyApi
  Kinds <- AllKinds
  Plans <- AllPlans
  RowLimit = 2
  QueueBytes = 3
  BatchEvents = 2
  BlockRows <- Rows12
  MaxBlocks = 2
  HasCeiling = TRUE
  ThreadMayFail = FALSE
INVARIANTS TypeOK EveryRowAccounted RowsFollowTheirMeta LimitIsHonest ErrorIsTold
PROPERTY KeepsPromise
CHECK_DEADLOCK FALSE
