SPECIFICATION Spec
CONSTANTS
  Clients = {c1}
  Followers = {f1, f2}
  Keys = {a}
  NoKey = NoKey
  MaxPuts = 1
  MaxCompactions = 0
  Failures = {"link"}
  MaxFailures = 1
INVARIANT CommittedOnMajority
CHECK_DEADLOCK FALSE
