CONSTANTS
  FRG_MAX = 7
  WND_RCV = 8
  Mantissa = 8
  MaxMss = 4
  MaxLen = 400
  Byte = 5
  CMD_PUSH = 1
  CMD_ACK = 2
  CMD_WASK = 3
  CMD_WINS = 4
  Convs = {0, 624}
  Frgs = {0, 4}
  Wnds = {0, 7, 25}
  Numbers = {3, 624}
  Lens = {0, 1, 6}
  MaxSegs = 2

SPECIFICATION Spec
CHECK_DEADLOCK FALSE
INVARIANTS ChunksFitSend ChunksCoverFile DatagramReadsBack OthersRefuse
