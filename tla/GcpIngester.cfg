\* An event published twice beside a message that does not decode.
SPECIFICATION FairSpec
CONSTANTS
  m1 = m1
  m2 = m2
  bad = bad
  e1 = e1
  e2 = e2
  Messages = {m1, m2, bad}
  Events = {e1, e2}
  EventOf <- EventsOfMessages
  Poison = {bad}
  ConcurrentItems = 1
  MaxDeliveries = 2
  MaxFaults = 2
CHECK_DEADLOCK FALSE
INVARIANTS RepostsNeedFaults DeadOnlyAfterFaults
PROPERTIES MarkedStaysQuiet ImplementsRelaySafe EveryMessageLeaves
