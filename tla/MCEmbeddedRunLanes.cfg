SPECIFICATION LanesFairSpec
CONSTANTS
  s1 = s1
  s2 = s2
  r1 = r1
  r2 = r2
  r3 = r3
  j1 = j1
  Sessions <- MCSessions
  Runs <- MCRuns
  SessionOf <- MCSessionOf
  Jobs <- MCJobs
  RunOf <- MCRunOf
  Lanes <- MCLanes
  Tasks <- MCTasks
  LaneOf <- MCLaneOf
  Waiters = {}
  Limits = {0, 2}
  MaxGeneration = 1
INVARIANTS
  OneRunPerSession
PROPERTIES
  EntriesGetTheirTurn
