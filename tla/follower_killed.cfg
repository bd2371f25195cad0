SPECIFICATION FollowerSpec
CONSTANTS
  Threads = {t1}
  Keys <- NestedKeys
  U64 = 64
  PAYLOAD_MAX = 49
  PartLen <- MCPartLen
  Lens = {1}
  SegmentMax = 2
  MaxPuts = 3
  MaxCompactions = 1
  MaxProcessCrash = 0
  MaxPowerLoss = 0
  MaxRestarts = 1
  Orderly = FALSE
CHECK_DEADLOCK FALSE
INVARIANT FollowerLogMatches
