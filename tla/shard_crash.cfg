SPECIFICATION FairSpec
CONSTANTS
  NumShards = 2
  NumItems = 3
  NumEntries = 1
  EntryOf <- OneEntry
  TaskOf <- TwoTasks
  Exclusive = FALSE
  UnhealthyAfter = 2
  RequeueUnhealthy = TRUE
  MaxRestarts = 1
  MaxReruns = 0
  Outcomes = {"counted", "error", "lost", "unreachable", "unusable", "skip", "redo"}
  Recorders = {TRUE}
  MayDie = {"signal", "failed"}
INVARIANTS
  TypeOK
  OneRunnerPerItem
  OneOpenItemPerShard
  DoneIsRecorded
  FullExportIsComplete
  AllCompleteMeansAllDone
PROPERTIES
  NoCountedRerun
  ImplementsLedger
  DrainsUnlessGivenUp
CHECK_DEADLOCK FALSE
