\* Two ingesters, consumers that are lost, and a message that does not decode and fills max_ack_pending.
SPECIFICATION FairSpec
CONSTANTS
  Instances = {i1, i2}
  MaxMessages = 2
  Poison = {1}
  ConcurrentItems = 1
  MaxAckPending = 1
  MaxDeliver = 2
  MaxFaults = 1
  MaxLosses = 2
CHECK_DEADLOCK FALSE
INVARIANT RepostsNeedFaults
PROPERTIES ImplementsRelaySafe ConsumerMessagesSettle
