CONSTANTS
  A = A
  B = B
  WND_SND = 3
  WND_RCV = 2
  WireWnd = 65536
  SndWnds <- Keep
  RcvWnds <- TwoOrThree
  Counts = {1}
  Coalesce = TRUE
  MaxMsgs <- Msgs3
  MaxFaults = 1
  MaxNet = 1
SPECIFICATION Spec
CONSTRAINT OneReadOrFault
INVARIANTS IInv
PROPERTIES ReceiverBounded InputIsTheLoop CallsAreTheLoops
