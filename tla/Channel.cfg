CONSTANTS
  Lengths = {0, 2}
  MaxPackets = 3
  PeerBytes = 4
  RecvMax = 2
  SendFailLimit = 3
  SendMessagesCritical = 1
  SendMessagesOverflow = 2
  SendBytesOverflow = 4
  RecvMessagesCritical = 1
  RecvMessagesOverflow = 2
  RecvBytesOverflow = 3
SPECIFICATION FairSpec
CHECK_DEADLOCK FALSE
INVARIANTS TypeOK AssertsHold PollerAgrees NothingLost QueuedMeansSending
PROPERTIES ImplementsSendPipe ImplementsRecvPipe QueueDrains
