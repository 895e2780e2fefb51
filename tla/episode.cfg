SPECIFICATION FairSpec
CONSTANTS
  Conns <- TwoConns
  Episodes <- TwoEpisodes
  MaxSettles = 1
  MaxPublish = 1
  Scenarios <- AllScenarios
INVARIANTS
  TypeOK
  FinishedOnceAndLast
  NoWaitOnADeadEpisode
  ClientAndServerAgree
  NothingOfAnotherEpisode
PROPERTIES
  EndsTerminate
CHECK_DEADLOCK FALSE
