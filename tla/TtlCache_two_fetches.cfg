SPECIFICATION Spec
CONSTANTS
  r1 = r1
  r2 = r2
  r3 = r3
  k1 = k1
  k2 = k2
  w1 = w1
  Readers <- ThreeReaders
  Keys <- TwoKeys
  NSlots = 4
  Workers <- NoWorkers
  MaxQueued = 0
  MaxEntries = 1
  MaxBytes = 9
  ValueBytes <- Bytes1
  ServeStale = TRUE
  MaxCalls = 4
VIEW ViewWithoutRefresher
INVARIANTS OneFetchPerKey
CHECK_DEADLOCK FALSE
