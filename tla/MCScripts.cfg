SPECIFICATION FairSpec
CONSTANTS
  a = a
  b = b
  Scripts = {a, b}
  ModesOf <- MCModesOf
  MayCall <- MCMayCall
  MayUnload = {a}
  MaxCalls = 3
  MaxRuns = 3
INVARIANTS
  TypeOK
  OneAtATime
  NewestWins
  NoWaitForAncestor
PROPERTIES
  QueueMoves
  StopReturns
  EndsAfterShutdown
CHECK_DEADLOCK FALSE
