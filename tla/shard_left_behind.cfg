SPECIFICATION Spec
CONSTANTS
  NumShards = 2
  NumItems = 3
  NumEntries = 1
  EntryOf <- OneEntry
  TaskOf <- TwoTasks
  Exclusive = TRUE
  UnhealthyAfter = 2
  RequeueUnhealthy = TRUE
  MaxRestarts = 0
  MaxReruns = 0
  Outcomes = {"counted", "unusable"}
  Recorders = {TRUE}
  MayDie = {}
PROPERTIES
  LastShardTakesTheRest
CHECK_DEADLOCK FALSE
