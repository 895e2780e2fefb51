SPECIFICATION FairSpec
CONSTANTS
  NumShards = 2
  NumItems = 3
  NumEntries = 1
  EntryOf <- OneEntry
  TaskOf <- OneThenRest
  Exclusive = FALSE
  NumEnvs = 2
  PartialReset = TRUE
  UnhealthyAfter = 2
  RequeueUnhealthy = TRUE
  MaxRestarts = 1
  Outcomes = {"counted", "error", "unusable", "redo", "aborted"}
  Recorders = {TRUE}
  MayDie = {0}
INVARIANTS
  TypeOK
  OneRunnerPerItem
  ClaimedIsAccountedFor
  OpenItemsFitTheSlots
  CompleteShardOwesNothing
PROPERTIES
  ImplementsLedger
  DrainsUnlessGivenUp
CHECK_DEADLOCK FALSE
