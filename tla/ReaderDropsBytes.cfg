CONSTANTS
  Base = 3
  PacketSize = 3
  Bodies <- WithBody
  MaxMessages = 3
SPECIFICATION Spec
INVARIANTS WholeMessages
CHECK_DEADLOCK FALSE
