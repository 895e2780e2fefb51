---------------------------- MODULE EpisodeLedger ----------------------------
(***************************************************************************)
(* What the shared work queue promises about an evaluation's work items,   *)
(* whatever the shards, their crashes and their restarts do:               *)
(*   - an item has at most one holder, and changes holder only by going    *)
(*     back to the queue first;                                            *)
(*   - an item whose episode counted keeps that result: it is never run    *)
(*     again, closed as something else, or put back;                       *)
(*   - an item closed without counting (an error, a skip) is only reopened *)
(*     by the shard that holds it.                                         *)
(***************************************************************************)
CONSTANTS Shards, Items, Null

VARIABLES
  state,   \* of each item: waiting, held, counted or closed
  holder   \* the shard that took the item, Null while it waits

ledgerVars == <<state, holder>>

Init ==
  /\ state = [i \in Items |-> "waiting"]
  /\ holder = [i \in Items |-> Null]

\* A shard takes an item that waits.
Take(s, i) ==
  /\ state[i] = "waiting"
  /\ state' = [state EXCEPT ![i] = "held"]
  /\ holder' = [holder EXCEPT ![i] = s]

\* The holder's episode counted.
Count(i) ==
  /\ state[i] = "held"
  /\ state' = [state EXCEPT ![i] = "counted"]
  /\ UNCHANGED holder

\* The holder gives the item up without a counted episode.
Close(i) ==
  /\ state[i] = "held"
  /\ state' = [state EXCEPT ![i] = "closed"]
  /\ UNCHANGED holder

\* A shard puts items of its own back.
Return(s, S) ==
  /\ \A i \in S : state[i] \in {"held", "closed"} /\ holder[i] = s
  /\ state' = [i \in Items |-> IF i \in S THEN "waiting" ELSE state[i]]
  /\ holder' = [i \in Items |-> IF i \in S THEN Null ELSE holder[i]]

Next ==
  \/ \E s \in Shards, i \in Items : Take(s, i)
  \/ \E i \in Items : Count(i) \/ Close(i)
  \/ \E s \in Shards, S \in SUBSET Items : Return(s, S)

Spec == Init /\ [][Next]_ledgerVars
=============================================================================
