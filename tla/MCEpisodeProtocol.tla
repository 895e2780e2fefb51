---------------------------- MODULE MCEpisodeProtocol ----------------------------
\* Up to two episodes on up to two connections, one difficulty or two at a time.
EXTENDS EpisodeProtocol

TwoConns == 1 .. 2
TwoEpisodes == 1 .. 2

Scenario(how, backlog_, may, episodes, steps) ==
  [mode |-> how, backlog |-> backlog_, may |-> may, episodes |-> episodes, steps |-> steps]

AllScenarios ==
  {Scenario("plain", 0, {"cut", "timeout", "refuse"}, 2, 1), Scenario("plain", 1, {"raise", "timeout"}, 2, 2),
   Scenario("plain", 0, {"stop", "call", "guest"}, 2, 1),
   Scenario("clocked", 0, {"timeout"}, 2, 1), Scenario("clocked", 0, {"call", "timeout"}, 1, 2),
   Scenario("clocked", 1, {"call", "child", "stop"}, 1, 2), Scenario("clocked", 0, {"cut", "call", "raise"}, 1, 2),
   Scenario("live", 0, {"raise"}, 2, 2), Scenario("live", 0, {"raise", "publish"}, 2, 1),
   Scenario("live", 1, {"cut"}, 2, 1), Scenario("live", 1, {}, 1, 2),
   Scenario("live", 0, {"call", "guest", "child", "raise", "stop"}, 1, 1)}
=============================================================================
