CONSTANTS
  H = 128
  RTO_NDL = 1
  RTO_MIN = 3
  RTO_DEF = 5
  RTO_MAX = 12
  INTERVAL = 2
  INTERVAL_MIN = 1
  INTERVAL_MAX = 2
  PROBE_INIT = 4
  PROBE_LIMIT = 7
  JUMP = 3
  DEADLINK = 3
  FASTACK_LIMIT = 2
  SndWnd = 2
  WND_RCV = 2
  Start = 250
  Modes <- FastOrSteps
  Wnds = {2}
  Jumps <- BackAndForth
  Delays = {1}
  Late = TRUE
  MaxAppFlushes = 1
  Lateness = 1
  MaxMsgs = 2
  Swing = 20
  MaxJumps = 1
  MaxNow = 8

SPECIFICATION Spec
CONSTRAINT OneThingAtATime
CHECK_DEADLOCK FALSE
INVARIANT TypeOK
INVARIANT FlushedInTime
INVARIANT ResentInTime
INVARIANT TimerInv
PROPERTY ResentForAReason
