\* The libraries, the engine's component, the supervisor and the service process, one at a time.
SPECIFICATION MCFairSpec
CONSTANTS
  InitialDelay = 1
  Factor = 2
  MaxDelay = 5
  U64Max = 12
  MaxAttempts = 6
  RateLimitWait = 8
  Clients = {c1, c2}
  MaxOps = 5
  MaxMessages = 3
  MaxClock = 3
  Limit = 2
  MaxTasks = 3
  MaxCalls = 4
  MaxEvents = 2
  MaxInvalid = 2
  MaxChanges = 3
  NumWorkers = 2
  MaxFailed = 2
  MaxErrors = 2
  MaxFaults = 4
CHECK_DEADLOCK FALSE
INVARIANTS
  WaitFits
  EachPathGetsItsTurns
  AbortedIffAllAborted
  NoLostUpdate
  NoUnderflow
  EachMessageInOneRate
  QueueKeepsMessage
  JsonKeepsMessage
  NothingPassesUnknown
  AckedWasServed
  OneLiveThread
  JoinNeverWaits
  NoServiceOnBadConfig
PROPERTIES
  DeadApiEndsUnlessHung
  DroppedClientsEnd
  EveryWorkerStarts
  ShutdownEnds
  OnlyHungProbeDelaysShutdown
  DeadReaderStopsLoop
  BadConfigEnds
