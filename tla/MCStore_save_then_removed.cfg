SPECIFICATION Spec
CONSTANTS
  t1 = t1
  t2 = t2
  t3 = t3
  t4 = t4
  Tasks = {t1, t2, t3, t4}
  NoTask = NoTask
  Ops = {"save", "remove"}
  Delays = {}
  MaxDelay = 0
  MaxCalls = 4
PROPERTIES
  SaveIsDurable
CHECK_DEADLOCK FALSE
