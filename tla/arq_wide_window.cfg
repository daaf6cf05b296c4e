CONSTANTS
  A = A
  B = B
  WND_SND = 2
  WND_RCV = 2
  WireWnd = 3
  SndWnds <- Keep
  RcvWnds <- Three
  Counts = {1}
  Coalesce = TRUE
  MaxMsgs <- Msgs3
  MaxFaults = 0
  MaxNet = 1
SPECIFICATION FairSpec
PROPERTIES EventuallyDelivered
