SPECIFICATION Spec
CONSTANTS
  t1 = t1
  t2 = t2
  Tasks = {t1, t2}
  NoTask = NoTask
  Ops = {"delay_save"}
  Delays = {1, 2, 3}
  MaxDelay = 3
  MaxCalls = 3
INVARIANTS
  ShorterDelayWins
CHECK_DEADLOCK FALSE
