SPECIFICATION Spec
CONSTANTS
  t1 = t1
  t2 = t2
  t3 = t3
  t4 = t4
  Tasks = {t1, t2, t3, t4}
  NoTask = NoTask
  Ops = {"save", "delay_save", "remove", "load", "preload", "fail"}
  Delays = {1}
  MaxDelay = 1
  MaxCalls = 4
SYMMETRY TaskSymmetry
INVARIANTS
  RemovedStaysRemoved
  LoadNotOlder
CHECK_DEADLOCK FALSE
