SPECIFICATION LoopSpec
CONSTANTS
  main = main
  t1 = t1
  t2 = t2
  Lanes <- MCLanes
  Tasks <- MCTasks
  LaneOf <- MCLaneOf
  Waiters <- MCWaiters
  Limits = {}
  MaxGeneration = 2
CHECK_DEADLOCK FALSE
PROPERTIES
  RestartBeginsIteration
