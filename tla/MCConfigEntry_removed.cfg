SPECIFICATION Spec
CONSTANTS
  t1 = t1
  t2 = t2
  t3 = t3
  Tasks = {t1, t2, t3}
  NoTask = NoTask
  Ops = {"remove"}
  Interrupts = {}
  SlowCleanup = TRUE
  MaxTries = 2
  MaxOrphans = 1
INVARIANTS
  RemovedStaysDown
CHECK_DEADLOCK FALSE
