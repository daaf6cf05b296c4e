CONSTANTS
  H = 128
  RTO_NDL = 1
  RTO_MIN = 3
  RTO_DEF = 5
  RTO_MAX = 12
  INTERVAL = 2
  INTERVAL_MIN = 1
  INTERVAL_MAX = 3
  PROBE_INIT = 4
  PROBE_LIMIT = 7
  JUMP = 6
  DEADLINK = 3
  FASTACK_LIMIT = 2
  SndWnd = 2
  WND_RCV = 2
  Start = 250
  Modes <- NoModes
  Wnds = {0, 2}
  Jumps <- NoJumps
  Delays = {5}
  Late = FALSE
  MaxAppFlushes = 1
  Lateness = 0
  MaxMsgs = 6
  Swing = 0
  MaxJumps = 0
  MaxNow = 24

SPECIFICATION Spec
CONSTRAINT ClosedEarly
CHECK_DEADLOCK FALSE
INVARIANTS ProbedInTime Punctual
PROPERTY NoSpuriousTimeout
