CONSTANTS
  A = A
  B = B
  WND_SND = 1
  WND_RCV = 2
  WireWnd = 65536
  SndWnds <- NoResize
  RcvWnds <- NoResize
  Counts = {1}
  Coalesce = TRUE
  MaxMsgs <- OneMessage
  MaxFaults = 0
  MaxNet = 1
  MaxRestarts = 1
SPECIFICATION RestartSpec
INVARIANT AckedIsTaken
