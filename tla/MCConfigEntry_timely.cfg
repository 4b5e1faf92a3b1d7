SPECIFICATION Spec
CONSTANTS
  t1 = t1
  t2 = t2
  t3 = t3
  t4 = t4
  Tasks = {t1, t2, t3, t4}
  NoTask = NoTask
  Ops = {"unload", "reload", "disable", "remove"}
  Interrupts = {"waiting", "migrating", "setting_up", "cleanup", "removing"}
  SlowCleanup = FALSE
  MaxTries = 2
  MaxOrphans = 1
SYMMETRY TaskSymmetry
INVARIANTS
  TypeOK
  RetryOnlyWhileRetrying
PROPERTIES
  Backoff
  PromiseKept
CHECK_DEADLOCK FALSE
