SPECIFICATION PartsSpec
CONSTANTS
  Entries = {e1}
  Passes = {startup, reconnect}
  Startup = startup
  MaxRetries = 2
  Pages = {elder, operator}
  ElderPages = {elder}
  Commands = {c1, c2, c3}
  m1 = m1
  m2 = m2
  m3 = m3
  Messages <- MCMessages
  AuthOf <- MCAuthOf
  RouteOf <- MCRouteOf
  QueueSettings <- MCSettings
  MaxQueues = 2
  MaxTurnFailures = 1
  Cooldown = 3
  Delays = {0, 2}
  MaxWait = 2
  hybrid = hybrid
  hot = hot
  defaults = defaults
  Configs <- MCConfigs
  Defaults = defaults
  ModeOf <- MCModeOf
  RestartPairs <- MCRestartPairs
  NoConfig = NoConfig
  MaxWrites = 2
  MaxFailures = 1
CHECK_DEADLOCK FALSE
INVARIANTS
  PartsTypeOK
  NothingLost
  ClaimsExact
  FailureStaysInCommand
  QuotesOpening
  AnswersLatestQuestion
  LossNeedsCause
  NoSecondTurn
  TimerRespectsCooldown
  AlreadyWaitingIsTrue
  EditsAreSeen
PROPERTIES
  OutboxSpec
  ButtonComesBack
  QueueIsWorkedOff
  EveryRequestRestarts
