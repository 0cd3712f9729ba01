SPECIFICATION FairSpec
CONSTANTS
  s1 = s1
  s2 = s2
  Streams <- OneStream
  Actors <- Reaper
  Kinds <- Selects
  Plans <- Direct
  RowLimit = 0
  QueueBytes = 5
  BatchEvents = 2
  BlockRows <- Rows1
  MaxBlocks = 1
  HasCeiling = FALSE
  ThreadMayFail = TRUE
PROPERTY UnreadRunsLeave
CHECK_DEADLOCK FALSE
