SPECIFICATION Spec
CONSTANTS
  Clients = {c1, c2}
  Followers = {f1, f2}
  Keys = {a}
  NoKey = NoKey
  MaxPuts = 2
  MaxCompactions = 0
  Failures = {}
  MaxFailures = 0
INVARIANT ReadYourWrites
CHECK_DEADLOCK FALSE
