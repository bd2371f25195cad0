SPECIFICATION Spec
CONSTANTS
  Threads = {t1}
  Keys <- NestedKeys
  U64 = 64
  PAYLOAD_MAX = 49
  PartLen <- MCPartLen
  Lens = {0, 3}
  SegmentMax = 2
  MaxPuts = 3
  MaxCompactions = 1
  MaxProcessCrash = 0
  MaxPowerLoss = 2
CHECK_DEADLOCK FALSE
INVARIANT OpenSucceeds AggregateExact AggDeltasAddUp
PROPERTY ImplementsKVStore
