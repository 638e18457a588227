SPECIFICATION Spec
CONSTANTS
  main = main
  cron = cron
  t1 = t1
  t2 = t2
  t3 = t3
  t4 = t4
  Lanes <- MCLanes
  Tasks <- MCTasks
  LaneOf <- MCLaneOf
  Waiters = {w1}
  Limits = {0, 2}
  MaxGeneration = 2
SYMMETRY MCSymmetry
INVARIANTS
  NoStrandedWork
  SlotsMatchRunning
  QueueHoldsPromises
  WaitersNotMissed
  DrainedMeansSettled
PROPERTIES
  StartsInOrder
  AdmissionWithinLimit
  SettlesOnce
