CONSTANTS
  OVERHEAD = 24
  MTU_DEF = 1400
  THRESH_INIT = 2
  THRESH_MIN = 2
  SndWnd = 6
  Wnds = {5, 8}
  FastResend = 2
  Mtus = {50, 1400}
  MaxLosses = 2
  MaxSetMtu = 2

SPECIFICATION FairSpec
CHECK_DEADLOCK FALSE
INVARIANTS TypeOK CwndAgreesWithIncr
PROPERTIES NeverCloses GrowsToWindow
