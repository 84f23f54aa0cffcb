CONSTANTS
  Tasks = {t1}
  Clients = {c1}
  Initial = 1
  Grow = 0
  Max = 1
  IdleMod = 4
  ThreadBound = 1
  NoTask = NoTask
SPECIFICATION FairSpec
PROPERTIES DestroyReturns
