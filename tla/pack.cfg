CONSTANTS
  OVERHEAD = 1
  MTU_DEF = 10
  MTU_MIN = 2
  WND_RCV = 3
  Streams = {TRUE, FALSE}
  Lens = {0, 1, 4, 9}
  Buffers = {1, 9}
  Mtus = {2, 4}
  MaxBytes = 11
  MaxSends = 3
  MaxAcks = 1
  MaxMtus = 2
  MaxFailures = 1

SPECIFICATION Spec
CHECK_DEADLOCK FALSE
INVARIANTS PackInv TypeOK BytesInOrder ReadsAreSends StreamFillsSegments BufferHolds
PROPERTIES OutputFitsMtu PackedFull
