SPECIFICATION SchedulersSpec
CONSTANTS
  Targets = {"all", "a"}
  Untargeted = "all"
  CoalesceDelays = {0}
  CoalesceDelay = 1
  RetryDelay = 1
  MaxRunners = 2
  MaxBatches = 2
  CronJobs = {"once", "daily"}
  OneShots = {"once"}
  Concurrency = 1
  MaxCatchup = 1
  MaxChanges = 1
CHECK_DEADLOCK FALSE
INVARIANTS
  SchedulersTypeOK
  OneBatchAtATime
  WakesReachARunner
  IntervalIsRearmed
  CronOneRunAtATime
  MarkedMeansRunning
  DueSlotsAreKept
PROPERTIES
  WakesAreWorkedOff
  DueJobsGetTheirRun
