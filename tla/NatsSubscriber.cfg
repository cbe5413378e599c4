\* Timestamps in the API's order.
SPECIFICATION FairSpec
CONSTANTS
  MaxTasks = 5
  Limit = 3
  Timestamp <- OrderedTimestamps
  MaxFaults = 3
INVARIANT ExactlyOnceInOrder
PROPERTIES ImplementsRelaySafe EveryTaskRelayed
