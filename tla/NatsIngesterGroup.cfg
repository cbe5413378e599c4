\* Two ingesters of one delivery group, and nothing fails.
SPECIFICATION FairSpec
CONSTANTS
  Instances = {i1, i2}
  MaxMessages = 1
  Poison = {}
  ConcurrentItems = 1
  MaxAckPending = 1
  MaxDeliver = 1
  MaxFaults = 0
  MaxLosses = 0
CHECK_DEADLOCK FALSE
INVARIANT GroupSharesMessages
