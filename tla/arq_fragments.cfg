CONSTANTS
  A = A
  B = B
  WND_SND = 2
  WND_RCV = 3
  WireWnd = 65536
  SndWnds <- NoResize
  RcvWnds <- NoResize
  Counts = {2, 4}
  Coalesce = FALSE
  MaxMsgs <- Msgs2
  MaxFaults = 1
  MaxNet = 1
SPECIFICATION FairSpec
INVARIANTS TypeOK FullQueueIsReadable MessagesKept
PROPERTIES ImplementsChannel EventuallyDelivered
