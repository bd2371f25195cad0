SPECIFICATION MCSpec
CONSTANTS
  K = 2
  M = 2
  LEN_PREFIX = 1
  PAYLOAD_MAX = 2
  MaxFaults = 3
  Objects <- MCObjects
INVARIANT StripeTransparent NeverWrong GfIsField AnyKShardsSuffice
