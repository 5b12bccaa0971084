SPECIFICATION Spec
CONSTANTS
  Services <- TwoServices
  Configs <- AllConfigs
  DefaultRegion = "west"
  NoRole = NoRole
  Unread = Unread
  Minute = 3
  Rate = 5
  Jitter = 1
  Timeout = 1
  MaxTime = 14
INVARIANTS
  STypeOK
  TasksInTheirBatches
  OwnWindowIsRead
  NoPeriodIsLost
  PeriodsAreReadOnce
