SPECIFICATION Spec
CONSTANTS
  r1 = r1
  r2 = r2
  r3 = r3
  k1 = k1
  k2 = k2
  w1 = w1
  Readers <- ThreeReaders
  Keys <- TwoKeys
  NSlots = 3
  Workers <- NoWorkers
  MaxQueued = 0
  MaxEntries = 1
  MaxBytes = 5
  ValueBytes <- Bytes13
  ServeStale = TRUE
  MaxCalls = 4
SYMMETRY SymKeys
VIEW ViewWithoutRefresher
INVARIANTS TypeOK CacheIsBounded
CHECK_DEADLOCK FALSE
