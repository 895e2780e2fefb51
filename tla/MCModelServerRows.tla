-------------------------- MODULE MCModelServerRows --------------------------
(* Instances of ModelServerRows for TLC: a vector client and a client with   *)
(* an episode of its own.                                                    *)
EXTENDS ModelServerRows

CONSTANTS vec, one
=============================================================================
