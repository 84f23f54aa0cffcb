CONSTANTS
  Tasks = {k1, k2}
  MaxTasks = 2
  Handlers = {h1}
  Delays = {1}
  UnitsPerMs = 2
  IntMod = 32
  MaxWaits = {1}
  MaxTimers = 2
  MaxTime = 4
SPECIFICATION FairSpec
INVARIANTS TypeOK LiveTimerIsQueued ReleasedOnce NoDueTimerSkipped TasksRunInOrder
PROPERTIES DueTimerFires BreakLeavesLoop
CHECK_DEADLOCK FALSE
