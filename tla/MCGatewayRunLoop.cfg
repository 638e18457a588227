SPECIFICATION LoopFairSpec
CONSTANTS
  main = main
  t1 = t1
  t2 = t2
  Lanes <- MCLanes
  Tasks <- MCTasks
  LaneOf <- MCLaneOf
  Waiters <- MCWaiters
  Limits = {1, 2}
  MaxGeneration = 2
CHECK_DEADLOCK FALSE
INVARIANTS
  LoopTypeOK
  RefusesOnlyInShutdown
  StartsOnFreePort
  RestartWaitsForTasks
PROPERTIES
  IterationStartsClean
  ShutdownEnds
