SPECIFICATION Spec
CONSTANTS
  Threads = {t1, t2}
  Keys <- WideAndLongKey
  U64 = 64
  PAYLOAD_MAX = 49
  PartLen <- MCPartLen
  Lens = {1}
  SegmentMax = 2
  MaxPuts = 4
  MaxCompactions = 1
  MaxProcessCrash = 1
  MaxPowerLoss = 0
CHECK_DEADLOCK FALSE
SYMMETRY Symmetry
INVARIANT AckedReadable IndexReadable
PROPERTY SegmentsAppendOnly
