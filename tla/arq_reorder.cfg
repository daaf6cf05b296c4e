CONSTANTS
  A = A
  B = B
  WND_SND = 2
  WND_RCV = 2
  WireWnd = 65536
  SndWnds <- NoResize
  RcvWnds <- NoResize
  Counts = {1}
  Coalesce = TRUE
  MaxMsgs <- TwoAndOne
  MaxFaults = 1
  MaxNet = 2
  H = 5
  Origin = 9
  W = 2
SPECIFICATION Spec
CONSTRAINT OneEachWay
INVARIANTS NoAckedLoss InOrderOnce WrapSafe
PROPERTIES UnaMonotone
