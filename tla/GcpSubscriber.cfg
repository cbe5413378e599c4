\* Two overlapping instances, as during a rolling restart; equal timestamps.
SPECIFICATION FairSpec
CONSTANTS
  Subscribers = {s1, s2}
  MaxTasks = 3
  Limit = 2
  Timestamp <- EqualTimestamps
  MaxFaults = 2
INVARIANT NoTaskSkipped
PROPERTIES RewindOnlyWhenOvertaken ImplementsRelaySafe EveryTaskRelayed
