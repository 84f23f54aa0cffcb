CONSTANTS
  Base = 3
  PacketSize = 3
  Bodies <- AnyBody
  MaxMessages = 3
SPECIFICATION FairSpec
INVARIANTS TypeOK HandledFromIndex FramingKept
PROPERTIES AllHandled
CHECK_DEADLOCK FALSE
