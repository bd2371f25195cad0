SPECIFICATION Spec
CONSTANTS
  Threads = {t1}
  Keys <- ShallowAndDeepKey
  U64 = 64
  PAYLOAD_MAX = 49
  PartLen <- MCPartLen
  Lens = {1}
  SegmentMax = 2
  MaxPuts = 3
  MaxCompactions = 0
  MaxProcessCrash = 1
  MaxPowerLoss = 0
CHECK_DEADLOCK FALSE
INVARIANT AckedReadable
