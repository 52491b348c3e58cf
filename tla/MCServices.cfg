SPECIFICATION FairSpec
CONSTANTS
  Parts = {"mcp", "push", "listing", "client", "server", "stores"}
  McpServers <- MCServers
  MaxRetries = 2
  Catalogs = {"t1", "t2"}
  NoCatalog = "t0"
  Rounds = {"r1", "r2"}
  PushConfigId = {"p1", "p2", "p3"}
  PushRetries = 1
  Concurrency = 2
  Updates = 1
  Ids = {1, 2, 3}
  ContextOf <- MCContextOf
  Times = {1, 2}
  Filters <- MCFilters
  PageSizes = {1, 2}
  Caps <- MCCaps
  Unset = Unset
  ClientCall = {"c1"}
  CallRetries = 2
  Exchange = {"x1"}
  Bodies <- MCBodies
  Methods = {"m", "n"}
  AuthEnabled = TRUE
  Providers = {"memory", "filesystem", "s3"}
  StoredFile = {1, 2}
  ArtifactOf <- MCArtifactOf
  UploadTimes = {1, 2}
  ArtifactCaps <- MCArtifactCaps
  Scans <- MCScans
CHECK_DEADLOCK FALSE
INVARIANTS
  ServicesTypeOK
  DialsSound
  DeliveriesSound
  WalkComplete
  RetentionExact
  CallsSound
  AnswersMatch
  DownloadsTrue
PROPERTIES
  NoAttemptAfterAbort
  EverythingEnds
