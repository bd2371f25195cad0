SPECIFICATION Spec
CONSTANTS
  MaxLsn = 3
  MaxProcessCrash = 1
  MaxPowerLoss = 1
  MaxIoErrors = 1
  ExplicitLsns = {1, 2, 3}
CHECK_DEADLOCK FALSE
INVARIANT TypeOK AckedDurable LogOrdered
PROPERTY DurableLogAppendOnly
