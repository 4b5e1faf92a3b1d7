SPECIFICATION FairSpec
CONSTANTS
  a = a
  b = b
  c = c
  Domains = {a, b, c}
  Manifests <- MCDropped
  Callers = {c1}
  Bootstrap = bootstrap
  Groups <- MCGroupsButC
PROPERTIES
  ToLoadIsSetUp
CHECK_DEADLOCK FALSE
