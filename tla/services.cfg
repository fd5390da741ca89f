SPECIFICATION Spec
CONSTANTS
  Units = {"bus", "limiter", "bucket", "ledger", "store", "recorder", "session"}
  Handlers = {h1, h2}
  Topics <- MCTopics
  Patterns <- MCPatterns
  Maxsize = 2
  CacheLimit = 1
  MaxEvents = 3
  LimCallers = {c1, c2}
  LimWindows <- MCWindows
  LimRequests <- MCRequests
  LimMaxSleep = 2
  LimPenalties = {2}
  LimMaxPenalize = 1
  TbCallers = {c1, c2}
  Unit = 2
  BaseRate = 4
  MinRate = 1
  MaxRate = 8
  RateStep = 2
  TbRequests = {2, 4}
  TbMaxBackoffs = 2
  TbMaxTries = 1
  LedgerAssets = {"U", "B", "E"}
  BaseCurrency = "U"
  CycleSet <- MCCycles
  LedgerVenues = {"v1", "v2"}
  MarkPrices <- MCPrices
  MaxEntries = 4
  MaxCycles = 3
  Models <- MCModels
  Hashes = {"f1", "f2"}
  KeepVersions = 1
  MaxVersion = 2
  MaxLosses = 1
  Streams = {"s1", "s2"}
  BufferSize = 2
  MaxHour = 1
  MaxRecords = 4
  MaxFaults = 1
  Venues <- MCVenues
  Credentials <- MCCredentials
  MaxSessions = 2
INVARIANTS
  NewestSurvive
  WindowsHold
  BurstIsBounded
  CheckpointIsFound
  RecordsReadBack
  RealOrdersNeedTwoLocks
PROPERTIES
  SmallRequestsAreServed
CHECK_DEADLOCK FALSE
