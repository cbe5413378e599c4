\* Pages of two, two overlapping requests, failures and restarts.
SPECIFICATION FairSpec
CONSTANTS
  MaxTasks = 3
  Limit = 2
  MaxRequests = 2
  MaxFaults = 1
  MaxStops = 2
INVARIANTS NoTaskSkipped StallNeedsCause
PROPERTIES NextInLine ImplementsRelaySafe TaskProcessed
