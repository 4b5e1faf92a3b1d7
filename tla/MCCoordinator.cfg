SPECIFICATION FairSpec
CONSTANTS
  c1 = c1
  poller = poller
  finisher = finisher
  Callers = {c1}
  Pollers = {poller}
  Finishers = {finisher}
  NoTask = NoTask
  MaxListeners = 2
  MaxVersion = 2
  Options <- MCOptions
INVARIANTS
  TypeOK
  RequestKept
  ListenersInformed
PROPERTIES
  NoOldData
  NoUpdateAfterShutdown
  KeepsPolling
CHECK_DEADLOCK FALSE
