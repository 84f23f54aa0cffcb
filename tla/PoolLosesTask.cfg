CONSTANTS
  Tasks = {t1, t2}
  Clients = {c1}
  Initial = 1
  Grow = 1
  Max = 2
  IdleMod = 4
  ThreadBound = 3
  NoTask = NoTask
SPECIFICATION FairSpec
PROPERTIES AcceptedTaskStarts
