CONSTANTS
  Addrs = {1}
  Fds = {4}
  MaxChannels = 1
  MaxPending = 1
SPECIFICATION Spec
CHECK_DEADLOCK FALSE
INVARIANTS DeregisterAssertHolds
