\* The second turn of a pair.
SPECIFICATION RetrySpec
CONSTANTS
  InitialDelay = 1
  Factor = 2
  MaxDelay = 5
  U64Max = 12
  MaxAttempts = 6
  RateLimitWait = 8
CHECK_DEADLOCK FALSE
PROPERTY IndependentBackoff
