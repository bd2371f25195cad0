SPECIFICATION FairSpec
CONSTANTS
  Clients = {c1}
  Followers = {f1, f2}
  Keys = {a}
  NoKey = NoKey
  MaxPuts = 2
  MaxCompactions = 1
  Failures = {"link", "follower", "leader"}
  MaxFailures = 1
CHECK_DEADLOCK FALSE
INVARIANT AckedOnLeader ReclaimedNotNeeded NoConflictingRecords
PROPERTY RequestsAnswered
