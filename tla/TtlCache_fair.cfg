SPECIFICATION FairSpec
CONSTANTS
  r1 = r1
  r2 = r2
  r3 = r3
  k1 = k1
  k2 = k2
  w1 = w1
  Readers <- TwoReaders
  Keys <- OneKey
  NSlots = 1
  Workers <- OneWorker
  MaxQueued = 1
  MaxEntries = 1
  MaxBytes = 9
  ValueBytes <- Bytes1
  ServeStale = TRUE
  MaxCalls = 4
INVARIANTS AnswersAreCurrent OneFetchPerEntry
PROPERTIES BackoffHolds LookupsReturn RefreshesRun
CHECK_DEADLOCK FALSE
