SPECIFICATION Spec
CONSTANTS
  NumShards = 2
  NumItems = 4
  NumEntries = 2
  EntryOf <- ThreeAndOne
  TaskOf <- TwoThenOnes
  Exclusive = TRUE
  UnhealthyAfter = 2
  RequeueUnhealthy = TRUE
  MaxRestarts = 0
  MaxReruns = 1
  Outcomes = {"counted", "error", "unreachable", "unusable"}
  Recorders = {TRUE, FALSE}
  MayDie = {"signal"}
INVARIANTS
  TaskStaysInOneShard
  CompleteShardOwesNothing
CHECK_DEADLOCK FALSE
