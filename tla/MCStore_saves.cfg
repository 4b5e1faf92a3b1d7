SPECIFICATION FairSpec
CONSTANTS
  t1 = t1
  t2 = t2
  t3 = t3
  Tasks = {t1, t2, t3}
  NoTask = NoTask
  Ops = {"save", "delay_save", "stop", "fail", "read_only"}
  Delays = {0, 1, 3}
  MaxDelay = 3
  MaxCalls = 3
INVARIANTS
  TypeOK
  NothingForgotten
  CleanStop
PROPERTIES
  NoOldWrite
  SaveIsDurable
  NotBeforeDue
  PendingIsWritten
CHECK_DEADLOCK FALSE
