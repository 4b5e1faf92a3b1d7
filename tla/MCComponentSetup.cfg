SPECIFICATION FairSpec
CONSTANTS
  a = a
  b = b
  c = c
  Domains = {a, b, c}
  Manifests <- MCManifests
  Callers = {c1}
  Bootstrap = bootstrap
  Groups <- MCGroups
INVARIANTS
  TypeOK
  DependenciesFirst
  NoCircularWait
  OneAnswer
PROPERTIES
  EverySetupEnds
  WaitComponentReturns
CHECK_DEADLOCK FALSE
