SPECIFICATION Spec
CONSTANTS
  NumShards = 2
  NumItems = 4
  NumEntries = 1
  EntryOf <- OneEntry
  TaskOf <- TwoByTwo
  Exclusive = FALSE
  NumEnvs = 3
  PartialReset = FALSE
  UnhealthyAfter = 3
  RequeueUnhealthy = TRUE
  MaxRestarts = 1
  Outcomes = {"counted", "unusable"}
  Recorders = {TRUE}
  MayDie = {0, 1}
PROPERTIES
  UnusableReturnsAll
CHECK_DEADLOCK FALSE
