SPECIFICATION FairSpec
CONSTANTS
  t1 = t1
  t2 = t2
  t3 = t3
  Tasks = {t1, t2, t3}
  NoTask = NoTask
  Ops = {"save", "delay_save", "remove", "cancel"}
  Delays = {1}
  MaxDelay = 1
  MaxCalls = 3
INVARIANTS
  LockOK
PROPERTIES
  CallsReturn
CHECK_DEADLOCK FALSE
