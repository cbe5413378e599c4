\* One worker that crashes.
SPECIFICATION SupervisorFairSpec
CONSTANTS
  NumWorkers = 1
  MaxFailed = 2
CHECK_DEADLOCK FALSE
PROPERTY CrashedWorkerRestarts
