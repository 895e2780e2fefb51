\* Three launchers share the cache; one of them is killed at any point of its work.
SPECIFICATION Spec
CONSTANTS
  NumShards = 3
  Commands <- TheCommands
  MaxKilled = 1
  Apart = TRUE
  KillsRemovals = FALSE
  UsableRemains = FALSE
INVARIANTS
  TypeOK
  RunsKeepTheirImage
  NoOlderExport
PROPERTY NobodyHangs
\* In the end every launcher is gone.
CHECK_DEADLOCK FALSE
