SPECIFICATION Spec
CONSTANTS
  s1 = s1
  s2 = s2
  Streams <- TwoStreams
  Actors <- StopReaper
  Kinds <- Commands
  Plans <- Direct
  RowLimit = 0
  QueueBytes = 3
  BatchEvents = 2
  BlockRows <- Rows1
  MaxBlocks = 1
  HasCeiling = FALSE
  ThreadMayFail = TRUE
INVARIANTS OneConsumer ReportAgrees
CHECK_DEADLOCK FALSE
SYMMETRY Symmetry
