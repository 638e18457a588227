SPECIFICATION CronSpec
CONSTANTS
  CronJobs = {"once", "daily"}
  OneShots = {"once"}
  Concurrency = 1
  MaxCatchup = 1
  MaxChanges = 0
CHECK_DEADLOCK FALSE
INVARIANTS
  InterruptedOneShotsRest
