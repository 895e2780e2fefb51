---------------------------- MODULE EpisodeCallbacks ----------------------------
(***************************************************************************)
(* What the framework promises a model server about its episodes, however  *)
(* connections start, restart, fail and drop them:                         *)
(*   - each episode goes through start, observations and end once;         *)
(*   - a row is given to an episode only when no other episode is on it,   *)
(*     from before on_episode_start to after on_episode_end, so that state *)
(*     kept in arrays indexed by row is one episode's;                     *)
(*   - an observation reaches the server only while its episode runs, is   *)
(*     answered at most once, and never after its episode's end began.     *)
(***************************************************************************)
CONSTANTS Episodes, NoRow

VARIABLES
  phase,    \* of each episode
  rowOf,    \* the row of an episode that is not new or over, else NoRow
  asked,    \* observations taken, as records with a field episode
  replied   \* those answered, with an action or an error

callbackVars == <<phase, rowOf, asked, replied>>

Init ==
  /\ phase = [e \in Episodes |-> "new"]
  /\ rowOf = [e \in Episodes |-> NoRow]
  /\ asked = {}
  /\ replied = {}

\* starting: in on_episode_start; failed: by fail_episode; ending: in
\* on_episode_end. A start that fails is over without an end.
Moves ==
  { <<"new", "starting">>,
    <<"starting", "running">>, <<"starting", "failed">>, <<"starting", "over">>,
    <<"running", "failed">>, <<"running", "ending">>,
    <<"failed", "ending">>, <<"failed", "over">>,
    <<"ending", "over">> }

Idle == {"new", "over"}

\* One step of the event loop moves any number of episodes.
EpisodesMove ==
  \A e \in Episodes : phase'[e] = phase[e] \/ <<phase[e], phase'[e]>> \in Moves

RowsStayApart ==
  /\ \A e \in Episodes :
       /\ phase'[e] \in Idle <=> rowOf'[e] = NoRow
       /\ rowOf[e] # NoRow /\ rowOf'[e] # NoRow => rowOf'[e] = rowOf[e]
  /\ \A e, f \in Episodes : e # f /\ rowOf'[e] = rowOf'[f] => rowOf'[e] = NoRow

\* An observation is taken while its episode runs, or fails with its episode's
\* error at once; it is answered while its episode runs.
ObservationsOnce ==
  /\ asked \subseteq asked' /\ replied \subseteq replied' /\ replied' \subseteq asked'
  /\ \A o \in asked' \ asked :
       phase'[o.episode] = "running" \/ (phase'[o.episode] = "failed" /\ o \in replied')
  /\ \A o \in (replied' \ replied) \cap asked : phase[o.episode] = "running"
  /\ \A o \in replied' \ (replied \cup asked) : phase'[o.episode] = "failed"

Next == EpisodesMove /\ RowsStayApart /\ ObservationsOnce

Spec == Init /\ [][Next]_callbackVars
=============================================================================
