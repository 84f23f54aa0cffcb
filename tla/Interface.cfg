CONSTANTS
  Addrs = {1, 2}
  Fds = {4, 5}
  MaxChannels = 3
  MaxPending = 1
SPECIFICATION FairSpec
CHECK_DEADLOCK FALSE
INVARIANTS TypeOK HandlerOwnsDescriptor ReportedOnce
PROPERTIES PassVisitsAll CondemnedIsReported
CONSTRAINT Running
