-------------------------- MODULE MCPredictionEngine --------------------------
(* Instances of PredictionEngine for TLC: a vector client and two clients    *)
(* with an episode of their own.                                             *)
EXTENDS PredictionEngine

CONSTANTS vec, one, two
=============================================================================
