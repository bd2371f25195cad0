SPECIFICATION MCSpec
CONSTANTS
  PAYLOAD_MAX = 11
  SectorSize = 8
  Contents <- MCContents
  Threads = {t1, t2, t3}
  NoThread = NoThread
INVARIANT RoundTrip DamagedByteDetected TornWriteDetected CrcIsCrc32c TablesCompleteWhenUsed
PROPERTY TablesFrozenWhenReady SpinningEnds
