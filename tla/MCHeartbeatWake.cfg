SPECIFICATION WakeSpec
CONSTANTS
  Targets = {"all", "a"}
  Untargeted = "all"
  CoalesceDelays = {0}
  CoalesceDelay = 1
  RetryDelay = 1
  MaxRunners = 2
  MaxBatches = 2
CHECK_DEADLOCK FALSE
INVARIANTS
  HeartbeatsRecur
