\* One request at a time, no fault, one restart.
SPECIFICATION FairSpec
CONSTANTS
  MaxTasks = 2
  Limit = 2
  MaxRequests = 1
  MaxFaults = 0
  MaxStops = 1
PROPERTY ContinuesAfterRestart
