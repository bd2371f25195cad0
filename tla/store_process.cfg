SPECIFICATION Spec
CONSTANTS
  Threads = {t1}
  Keys <- NestedKeys
  U64 = 64
  PAYLOAD_MAX = 49
  PartLen <- MCPartLen
  Lens = {1}
  SegmentMax = 3
  MaxPuts = 4
  MaxCompactions = 1
  MaxProcessCrash = 1
  MaxPowerLoss = 0
CHECK_DEADLOCK FALSE
INVARIANT IndexReadable BackfillServable SegmentIdsUnique RecordsFit RecoveryReproducesState
PROPERTY ImplementsKVStore
