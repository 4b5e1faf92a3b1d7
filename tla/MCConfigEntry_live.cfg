SPECIFICATION FairSpec
CONSTANTS
  t1 = t1
  t2 = t2
  t3 = t3
  Tasks = {t1, t2, t3}
  NoTask = NoTask
  Ops = {"setup", "reload", "disable", "remove", "retry_migration"}
  Interrupts = {"migrating", "setting_up", "cleanup", "removing"}
  SlowCleanup = TRUE
  MaxTries = 1
  MaxOrphans = 1
INVARIANTS
  LockOK
  InProgressOwned
  RetryPending
  Settled
PROPERTIES
  CallsReturn
  RetryHappens
CHECK_DEADLOCK FALSE
