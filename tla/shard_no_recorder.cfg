SPECIFICATION Spec
CONSTANTS
  NumShards = 2
  NumItems = 3
  NumEntries = 1
  EntryOf <- OneEntry
  TaskOf <- TwoTasks
  Exclusive = FALSE
  UnhealthyAfter = 3
  RequeueUnhealthy = FALSE
  MaxRestarts = 1
  MaxReruns = 0
  Outcomes = {"counted", "error", "lost", "unreachable", "unusable", "skip", "redo"}
  Recorders = {FALSE}
  MayDie = {"signal", "failed"}
INVARIANTS
  DoneIsRecorded
CHECK_DEADLOCK FALSE
