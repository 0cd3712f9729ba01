SPECIFICATION FairSpec
CONSTANTS
  s1 = s1
  s2 = s2
  Streams <- OneStream
  Actors <- StopReaper
  Kinds <- Commands
  Plans <- Direct
  RowLimit = 0
  QueueBytes = 1
  BatchEvents = 1
  BlockRows <- Rows1
  MaxBlocks = 1
  HasCeiling = FALSE
  ThreadMayFail = FALSE
PROPERTIES ThreadIsEnded EndIsTold RunsLeave
CHECK_DEADLOCK FALSE
