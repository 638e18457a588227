SPECIFICATION FollowupSpec
CONSTANTS
  m1 = m1
  m2 = m2
  m3 = m3
  Messages <- MCMessages
  AuthOf <- MCAuthOf
  RouteOf <- MCRouteOf
  QueueSettings <- MCDefaultSettings
  MaxQueues = 1
  MaxTurnFailures = 0
CHECK_DEADLOCK FALSE
INVARIANTS
  NothingQueuedIsLost
