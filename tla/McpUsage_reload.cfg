SPECIFICATION UsageSpec
CONSTANTS
  Processes = {u1}
  UsageKeys = {k1}
  Subjects = {x1, x2}
  Absent = Absent
  NoFile = NoFile
  MaxEntries = 2
  MaxDeleted = 1
  ConflictTime = 2
  MaxNow = 4
  MaxCount = 1
  MaxBoots = 2
INVARIANTS FileCanBeLoaded
CHECK_DEADLOCK FALSE
