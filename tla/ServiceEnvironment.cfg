\* A field that is given by the environment.
SPECIFICATION StartFairSpec
CONSTANTS
  MaxErrors = 2
  MaxFaults = 0
CHECK_DEADLOCK FALSE
INVARIANT EnvironmentConfigures
