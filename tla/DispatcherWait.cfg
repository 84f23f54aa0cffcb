CONSTANTS
  Tasks = {k1}
  MaxTasks = 0
  Handlers = {h1}
  Delays = {3}
  UnitsPerMs = 2
  IntMod = 8
  MaxWaits = {1}
  MaxTimers = 1
  MaxTime = 6
SPECIFICATION Spec
INVARIANTS WaitWithinMax
CHECK_DEADLOCK FALSE
