\* One ingester that is restarted once.
SPECIFICATION FairSpec
CONSTANTS
  Instances = {i1}
  MaxMessages = 2
  Poison = {}
  ConcurrentItems = 1
  MaxAckPending = 2
  MaxDeliver = 2
  MaxFaults = 0
  MaxLosses = 1
CHECK_DEADLOCK FALSE
PROPERTY EveryMessageSettles
