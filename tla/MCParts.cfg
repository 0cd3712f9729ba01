SPECIFICATION PartsSpec
CONSTANTS
  t1 = t1
  t2 = t2
  t3 = t3
  u1 = u1
  u2 = u2
  u3 = u3
  \* PolicyAccess
  Asked = {q1, q2}
  UseQuestion = q2
  Requests <- Two
  TTL = 1
  Timeout = 1
  BatchTimeout = 1
  UseTimeout = 2
  MaxItems = 1
  Horizon = 10
  MaxRequests = 2
  MaxChanges = 1
  \* McpKeys
  KeyIds <- Two
  KeyNames <- Triple
  Creators = {nobody, alice}
  Nobody = nobody
  KeySizes = {1, 2}
  NoKey = NoKey
  Torn = Torn
  ConfigNames = {u3}
  KeyCallers = {c1}
  MaxUiKeys = 2
  MaxFileBytes = 3
  MaxSurvivors = 3
  MaxCrashes = 1
  \* ClientPool
  Hosts = {h1}
  PoolThreads <- Three
  Sockets <- Triple
  NoSocket = NoSocket
  MaxLeased = 2
  MaxIdle = 1
  \* McpUsage
  Processes <- Pair
  UsageKeys <- Two
  Subjects = {}
  Absent = Absent
  NoFile = NoFile
  MaxEntries = 2
  MaxDeleted = 1
  ConflictTime = 2
  MaxNow = 3
  MaxCount = 1
  MaxBoots = 3
  \* QueryLibrary
  FolderIds <- Three
  QueryIds = {q0}
  LibraryHosts = {a}
  LibraryNames <- Pair
  Top = Top
  NoItem = NoItem
  Tab = Tab
  Others = Others
  Unreadable = Unreadable
  MaxDepth = 2
  MaxRevision = 2
  MaxEvents = 1
  \* FlushGate
  Flushers <- Three
  Logs <- Pair
  MaxClock = 4
  \* Exports
  Downloads <- Two
  ExportIds <- Pair
  NoExport = NoExport
  NStatements = 2
  MaxPending = 1
  MaxActive = 1
  \* DeepAnalysis
  Posts <- Three
  Replayed <- Pair
  NoRun = NoRun
  MaxKept = 1
  Places = 2
  \* BlockEncoder
  MaxReceived = 4
  QueueDepth = 2
SYMMETRY SymParts
VIEW PartsView
INVARIANTS PartsTypeOK OnlySizeIsRefused LeasesAreCounted SocketsHaveOneOwner NoStrandedWaiter UnsavedIsDirty TreeIsSound FileIsKnown RowsAreWritten OneDownloadPerExport SlotsAreCounted StopMissesNoStatement OneAnalysisPerRun ServerOutlivesItsJobs BlocksAreEncoded
PROPERTIES KeySetIsAtomic GrantsAreRecent OrphansAreGone UsesAreCounted SavesForgetNothing RestartIsNoConflict EditorsKeepUpdates
CHECK_DEADLOCK FALSE
