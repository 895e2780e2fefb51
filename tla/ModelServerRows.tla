---------------------------- MODULE ModelServerRows ----------------------------
(***************************************************************************)
(* The rows of a model server (src/vla_eval/model_servers/base.py) under   *)
(* its connections' handlers (_handle_connection and _vector_step,         *)
(* model_servers/serve.py), for any ModelServer: its callbacks return when *)
(* they like, and it answers an observation or fails an episode at any     *)
(* time. Handlers and callbacks share one event loop: they interleave only *)
(* where they await, and every action below is the code between two awaits.*)
(*                                                                         *)
(* A connection has slots: a vector client's, or slot 0 for the one        *)
(* episode of an EPISODE_START .. EPISODE_END client, whose messages are   *)
(* the vector step with only ends, only starts or only an observation.     *)
(* at[c] is where connection c's handler stands:                           *)
(*   read      waiting for a message                                       *)
(*   end       in on_episode_end, for the message's ends                   *)
(*   start     in on_episode_start, for the message's starts               *)
(*   observe   in on_observation, for the message's observations           *)
(*   wait      waiting for the replies of a sync or vector observation     *)
(*   closing   in on_episode_end, for what the connection leaves behind    *)
(*   gone      the handler has returned                                    *)
(***************************************************************************)
EXTENDS Integers, FiniteSets, FiniteSetsExt

CONSTANTS
  Conns,        \* connections
  VectorConns,  \* those of vector clients
  NumSlots,     \* slots of a vector client
  MaxRows,      \* ModelServer.max_rows (MaxEpisodes or more: None)
  Failing,      \* bound: rows whose episodes the server may fail
  Cancellable,  \* connections whose handler may be cancelled (shutdown)
  Unfit,        \* connections whose replies may be impossible to send
  MaxEpisodes,  \* bound: episodes started in all
  MaxObs        \* bound: observation calls per connection

ASSUME RowsAssumption ==
  /\ VectorConns \subseteq Conns /\ Cancellable \subseteq Conns /\ Unfit \subseteq Conns
  /\ IsFiniteSet(Conns)
  /\ NumSlots \in Nat \ {0}
  /\ MaxRows \in Nat \ {0}
  /\ MaxEpisodes \in Nat /\ MaxObs \in Nat

VARIABLES
  table,    \* by row: its episode, None when free
  gen,      \* by row: _gen, the incarnation
  ending,   \* by row: _closing
  failed,   \* by row: whether _failed has it
  at,
  closed,   \* the connection is closed (watch)
  live,     \* the handler's live flag
  own,      \* the handler's row, or slots array: a row, None, or Absent past its end
  local,    \* the array _vector_step works on
  batch,    \* by slot: the row in the callback the handler awaits
  todo,     \* the rest of the message: what it starts and observes
  asks,     \* observations given to the server or failed on arrival
  answered, \* those answered, with an action or an error
  acted,    \* those of Unfit connections answered with an action
  obsNo,    \* observation calls of the connection so far
  born      \* episodes started so far

rowVars  == <<table, gen, ending, failed>>
connVars == <<at, closed, live, own, local, batch, todo>>
obsVars  == <<asks, answered, acted, obsNo>>
vars     == <<rowVars, connVars, obsVars, born>>

None   == -1
Absent == -2

\* Row ids are reused smallest first, so MaxEpisodes of them are enough.
Rows     == 0 .. MaxEpisodes - 1
Slots    == 0 .. NumSlots - 1
Episodes == 1 .. MaxEpisodes

SlotsOf(c) == IF c \in VectorConns THEN Slots ELSE {0}
NoRows     == [s \in Slots |-> None]
Nothing    == [starts |-> {}, obs |-> {}]

Init ==
  /\ table = [r \in Rows |-> None]
  /\ gen = [r \in Rows |-> 0]
  /\ ending = [r \in Rows |-> FALSE]
  /\ failed = [r \in Rows |-> FALSE]
  /\ at = [c \in Conns |-> "read"]
  /\ closed = [c \in Conns |-> FALSE]
  /\ live = [c \in Conns |-> FALSE]
  /\ own = [c \in Conns |-> [s \in Slots |-> IF c \in VectorConns THEN Absent ELSE None]]
  /\ local = own
  /\ batch = [c \in Conns |-> NoRows]
  /\ todo = [c \in Conns |-> Nothing]
  /\ asks = {}
  /\ answered = {}
  /\ acted = {}
  /\ obsNo = [c \in Conns |-> 0]
  /\ born = 0

RowsIn(f) == {f[s] : s \in Slots} \cap Rows

-----------------------------------------------------------------------------
(* ModelServer: rows and their episodes.                                   *)

\* _release of a set of rows.
Released(tab, R) == [r \in Rows |-> IF r \in R THEN None ELSE tab[r]]
Cleared(flags, R) == [r \in Rows |-> flags[r] /\ r \notin R]

\* _end_episodes up to on_episode_end, for the rows in f.
BeginEnd(c, f) ==
  LET R == {r \in RowsIn(f) : table[r] # None /\ ~ending[r]} IN
  /\ ending' = [r \in Rows |-> ending[r] \/ r \in R]
  /\ gen' = [r \in Rows |-> IF r \in R THEN gen[r] + 1 ELSE gen[r]]
  /\ batch' = [batch EXCEPT ![c] = [s \in Slots |-> IF f[s] \in R THEN f[s] ELSE None]]

\* _alloc: the k smallest ids no episode is on.
FreeRows(tab, k) ==
  LET free == {r \in Rows : tab[r] = None} IN
  {r \in free : Cardinality({q \in free : q < r}) < k}

\* Mutant: max_rows is looked at once for all starts of a message.
AdmittedTogether(tab, S) ==
  {s \in S : Cardinality({r \in Rows : tab[r] # None}) < MaxRows}

\* _start_episodes admits the first starts that fit in max_rows.
Admitted(tab, S) ==
  LET running == Cardinality({r \in Rows : tab[r] # None}) IN
  {s \in S : running + Cardinality({t \in S : t < s}) < MaxRows}

\* The rows the admitted starts get, in the order of their slots.
NewRows(tab, A) ==
  LET new == FreeRows(tab, Cardinality(A)) IN
  [s \in Slots |-> IF s \notin A THEN None
     ELSE CHOOSE r \in new : Cardinality({q \in new : q < r}) = Cardinality({t \in A : t < s})]

-----------------------------------------------------------------------------
(* The handler: a message's ends, then its starts, then its observations.  *)

\* Mutant: the batch of the last callback stays.
DoneWithBatch(c, slots) ==
  /\ at' = [at EXCEPT ![c] = "read"]
  /\ own' = [own EXCEPT ![c] = slots]
  /\ local' = [local EXCEPT ![c] = slots]
  /\ todo' = [todo EXCEPT ![c] = Nothing]
  /\ UNCHANGED batch

\* The message is done. _vector_step returns its array to the handler.
DoneWith(c, slots) ==
  /\ at' = [at EXCEPT ![c] = "read"]
  /\ own' = [own EXCEPT ![c] = slots]
  /\ local' = [local EXCEPT ![c] = slots]
  /\ todo' = [todo EXCEPT ![c] = Nothing]
  /\ batch' = [batch EXCEPT ![c] = NoRows]

\* The observations of slots S: one pending, of a row and incarnation each.
AsksOf(c, tab, slots, S) ==
  {[conn |-> c, no |-> obsNo[c] + 1, slot |-> s, row |-> slots[s],
    gen |-> gen[slots[s]], episode |-> tab[slots[s]]] : s \in S}

\* Mutant: an observation of a failed episode is given to the server too.
ObserveFailedToo(c, tab, slots, S, kept) ==
  LET running == {s \in S : slots[s] \in Rows}
      new == AsksOf(c, tab, slots, running)
  IN IF running = {}
       THEN DoneWith(c, slots) /\ UNCHANGED obsVars
       ELSE /\ asks' = asks \cup new
            /\ UNCHANGED <<answered, acted>>
            /\ obsNo' = [obsNo EXCEPT ![c] = @ + 1]
            /\ at' = [at EXCEPT ![c] = "observe"]
            /\ own' = [own EXCEPT ![c] = kept]
            /\ local' = [local EXCEPT ![c] = slots]
            /\ todo' = [todo EXCEPT ![c] = Nothing]
            /\ batch' = [batch EXCEPT ![c] = NoRows]

\* _observe up to on_observation: a failed episode's observation fails at once.
\* A slot without a running episode is an error in the reply. kept: the array
\* the handler still has.
Observe(c, tab, slots, S, kept) ==
  LET running == {s \in S : slots[s] \in Rows}
      new == AsksOf(c, tab, slots, running)
      bad == {a \in new : failed[a.row]}
  IN IF running = {}
       THEN DoneWith(c, slots) /\ UNCHANGED obsVars
       ELSE /\ asks' = asks \cup new
            /\ answered' = answered \cup bad
            /\ UNCHANGED acted
            /\ obsNo' = [obsNo EXCEPT ![c] = @ + 1]
            /\ at' = [at EXCEPT ![c] = IF bad # new THEN "observe" ELSE IF live[c] THEN "read" ELSE "wait"]
            /\ own' = [own EXCEPT ![c] = kept]
            /\ local' = [local EXCEPT ![c] = slots]
            /\ todo' = [todo EXCEPT ![c] = Nothing]
            /\ batch' = [batch EXCEPT ![c] = NoRows]

\* The array long enough for the slots that start.
Grown(slots, S) ==
  [s \in Slots |-> IF slots[s] = Absent /\ \E t \in S : s <= t THEN None ELSE slots[s]]

\* The starts of the message up to on_episode_start, or its observations when
\* it has none or none is admitted.
StartThenObserve(c, tab, slots, m) ==
  LET A == Admitted(tab, m.starts)
      new == NewRows(tab, A)
      R == RowsIn(new)
      grown == Grown(slots, m.starts)
  IN IF A = {}
       THEN /\ Observe(c, tab, grown, m.obs, slots)
            /\ table' = tab
            /\ UNCHANGED <<gen, born>>
       ELSE /\ table' = [r \in Rows |-> IF r \in R THEN born + 1 + Cardinality({q \in R : q < r}) ELSE tab[r]]
            /\ gen' = [r \in Rows |-> IF r \in R THEN gen[r] + 1 ELSE gen[r]]
            /\ born' = born + Cardinality(A)
            /\ batch' = [batch EXCEPT ![c] = new]
            /\ at' = [at EXCEPT ![c] = "start"]
            /\ own' = [own EXCEPT ![c] = slots]
            /\ local' = [local EXCEPT ![c] = grown]
            /\ todo' = [todo EXCEPT ![c] = [m EXCEPT !.starts = {}]]
            /\ UNCHANGED obsVars

\* Episodes that the messages being handled have yet to start.
Reserved == Cardinality({p \in Conns \X Slots : p[2] \in todo[p[1]].starts})

\* A message m, of what it ends, starts (ending what runs there) and observes.
Handle(c, m) ==
  LET f == [s \in Slots |-> IF s \in m.ends \cup m.starts THEN own[c][s] ELSE None]
      rest == [starts |-> m.starts, obs |-> m.obs]
  IN
  /\ at[c] = "read"
  /\ m.starts = {} \/ born + Reserved + Cardinality(m.starts) <= MaxEpisodes
  /\ m.obs = {} \/ obsNo[c] < MaxObs
  /\ IF RowsIn(f) # {}
       THEN /\ BeginEnd(c, f)
            /\ at' = [at EXCEPT ![c] = "end"]
            /\ todo' = [todo EXCEPT ![c] = rest]
            /\ UNCHANGED <<table, failed, own, local, obsVars, born>>
       ELSE /\ StartThenObserve(c, table, own[c], rest)
            /\ UNCHANGED <<ending, failed>>
  /\ UNCHANGED closed

\* EPISODE_START, OBSERVATION and EPISODE_END of a connection's own episode.
ReadStart(c) ==
  /\ c \notin VectorConns
  /\ \E l \in BOOLEAN : live' = [live EXCEPT ![c] = l]
  /\ Handle(c, [ends |-> {0}, starts |-> {0}, obs |-> {}])

\* Without a running episode, an observation starts one, of sync mode.
ReadObservation(c) ==
  /\ c \notin VectorConns
  /\ live' = [live EXCEPT ![c] = @ /\ own[c][0] # None]
  /\ Handle(c, [ends |-> {}, starts |-> IF own[c][0] = None THEN {0} ELSE {}, obs |-> {0}])

ReadEnd(c) ==
  /\ c \notin VectorConns
  /\ Handle(c, [ends |-> {0}, starts |-> {}, obs |-> {}])
  /\ UNCHANGED live

\* Ends of other slots change nothing.
ReadVectorStep(c) ==
  /\ c \in VectorConns
  /\ \E S, O \in SUBSET Slots : \E E \in SUBSET {s \in Slots \ S : own[c][s] \in Rows} :
       Handle(c, [ends |-> E, starts |-> S, obs |-> O])
  /\ UNCHANGED live

\* Mutant: the ended rows stay in the handler's array.
EndReturnedKeepingSlots(c) ==
  LET R == RowsIn(batch[c]) IN
  /\ at[c] = "end"
  /\ ending' = Cleared(ending, R)
  /\ failed' = Cleared(failed, R)
  /\ StartThenObserve(c, Released(table, R), own[c], todo[c])
  /\ UNCHANGED <<closed, live>>

\* on_episode_end has returned, or raised: the rows are released.
EndReturned(c) ==
  LET R == RowsIn(batch[c]) IN
  /\ at[c] = "end"
  /\ ending' = Cleared(ending, R)
  /\ failed' = Cleared(failed, R)
  /\ StartThenObserve(c, Released(table, R), [s \in Slots |-> IF own[c][s] \in R THEN None ELSE own[c][s]], todo[c])
  /\ UNCHANGED <<closed, live>>

\* on_episode_start has returned or raised; the starts in bad failed. The
\* others' rows go into the handler's array, or into its grown copy.
StartReturned(c) ==
  /\ at[c] = "start"
  /\ \E bad \in SUBSET {s \in Slots : batch[c][s] \in Rows} :
       LET R == {batch[c][s] : s \in bad}
           good == {s \in Slots \ bad : batch[c][s] \in Rows}
           slots == [s \in Slots |-> IF s \in good THEN batch[c][s] ELSE local[c][s]]
           kept == IF own[c] = local[c] THEN slots ELSE own[c]
       IN /\ table' = Released(table, R)
          /\ failed' = Cleared(failed, R)
          /\ Observe(c, table', slots, todo[c].obs, kept)
  /\ UNCHANGED <<gen, ending, closed, live, born>>

\* Observations of c's current pending that wait for an answer.
Unanswered(c) == {a \in asks \ answered : a.conn = c /\ a.no = obsNo[c]}

\* _claim: an observation takes a reply once, while its row is still in the
\* incarnation it had.
Claimable(a) == a \in asks \ answered /\ gen[a.row] = a.gen

\* on_observation has returned: a live handler goes on, its replies are sent
\* as they come.
ObserveReturned(c) ==
  /\ at[c] = "observe"
  /\ at' = [at EXCEPT ![c] = IF live[c] THEN "read" ELSE "wait"]
  /\ UNCHANGED <<rowVars, closed, live, own, local, batch, todo, obsVars, born>>

\* It raised: the rows not answered yet fail.
ObserveRaised(c) ==
  /\ at[c] = "observe"
  /\ answered' = answered \cup {a \in Unanswered(c) : Claimable(a)}
  /\ at' = [at EXCEPT ![c] = IF live[c] THEN "read" ELSE "wait"]
  /\ UNCHANGED <<rowVars, closed, live, own, local, batch, todo, asks, acted, obsNo, born>>

\* Mutant: a disconnect does not wake the waiting observation.
WaitDoneAnswered(c) ==
  /\ at[c] = "wait"
  /\ Unanswered(c) = {}
  /\ DoneWith(c, local[c])
  /\ UNCHANGED <<rowVars, closed, live, obsVars, born>>

\* wait() is over: every row is answered, or the connection is closed.
WaitDone(c) ==
  /\ at[c] = "wait"
  /\ Unanswered(c) = {} \/ closed[c]
  /\ DoneWith(c, local[c])
  /\ UNCHANGED <<rowVars, closed, live, obsVars, born>>

-----------------------------------------------------------------------------
(* The server's own doings, at any time.                                   *)

\* send_action or send_error for an observation; what cannot be claimed is
\* dropped.
Answer(a) ==
  /\ Claimable(a)
  /\ answered' = answered \cup {a}
  /\ acted' \in (IF a.conn \in Unfit THEN {acted, acted \cup {a}} ELSE {acted})
  /\ UNCHANGED <<rowVars, connVars, asks, obsNo, born>>

\* Mutant: the pending observations are not told.
FailEpisodeQuietly(r) ==
  /\ r \in Failing /\ table[r] # None /\ ~ending[r] /\ ~failed[r]
  /\ failed' = [failed EXCEPT ![r] = TRUE]
  /\ gen' = [gen EXCEPT ![r] = @ + 1]
  /\ UNCHANGED <<table, ending, connVars, obsVars, born>>

\* fail_episode: what the open sync and vector observations still expect of the
\* row fails; a live one's replies are dropped from now on.
FailEpisode(r) ==
  LET open == {c \in Conns : at[c] \in {"observe", "wait"} /\ ~live[c]} IN
  /\ r \in Failing /\ table[r] # None /\ ~ending[r] /\ ~failed[r]
  /\ failed' = [failed EXCEPT ![r] = TRUE]
  /\ gen' = [gen EXCEPT ![r] = @ + 1]
  /\ answered' = answered \cup
       {a \in UNION {Unanswered(c) : c \in open} : a.row = r /\ a.gen = gen[r]}
  /\ UNCHANGED <<table, ending, connVars, asks, acted, obsNo, born>>

-----------------------------------------------------------------------------
(* Disconnects, and the end of a handler.                                  *)

Disconnect(c) ==
  /\ ~closed[c] /\ at[c] # "gone"
  /\ closed' = [closed EXCEPT ![c] = TRUE]
  /\ UNCHANGED <<rowVars, at, live, own, local, batch, todo, obsVars, born>>

\* The handler has returned.
Gone(c) ==
  /\ at' = [at EXCEPT ![c] = "gone"]
  /\ own' = [own EXCEPT ![c] = NoRows]
  /\ local' = [local EXCEPT ![c] = NoRows]
  /\ batch' = [batch EXCEPT ![c] = NoRows]

\* The handler's finally: the rows it has are ended.
Leaving(c) ==
  /\ IF RowsIn(own[c]) = {}
       THEN Gone(c) /\ UNCHANGED <<gen, ending>>
       ELSE /\ BeginEnd(c, own[c])
            /\ at' = [at EXCEPT ![c] = "closing"]
            /\ local' = [local EXCEPT ![c] = own[c]]
            /\ UNCHANGED own
  /\ todo' = [todo EXCEPT ![c] = Nothing]
  /\ UNCHANGED <<closed, live, obsVars, born>>

\* Nothing is left to read.
Leave(c) ==
  /\ at[c] = "read" /\ closed[c]
  /\ Leaving(c)
  /\ UNCHANGED <<table, failed>>

Cancel(c) ==
  /\ c \in Cancellable
  /\ at[c] \in {"read", "observe", "wait"}
  /\ Leaving(c)
  /\ UNCHANGED <<table, failed>>

\* Cancelled in on_episode_start: none of the batch has started.
CancelStart(c) ==
  /\ c \in Cancellable
  /\ at[c] = "start"
  /\ table' = Released(table, RowsIn(batch[c]))
  /\ failed' = Cleared(failed, RowsIn(batch[c]))
  /\ Leaving(c)

\* The replies are in, but the handler raises on the actions: those of a vector
\* step have different keys, that of a connection's own episode does not pack.
ReplyRaises(c) ==
  /\ c \in Unfit
  /\ at[c] = "wait" /\ Unanswered(c) = {}
  /\ Cardinality({a \in acted : a.conn = c /\ a.no = obsNo[c]}) > (IF c \in VectorConns THEN 1 ELSE 0)
  /\ Leaving(c)
  /\ UNCHANGED <<table, failed>>

\* on_episode_end has returned, the handler with it.
ClosingReturned(c) ==
  LET R == RowsIn(batch[c]) IN
  /\ at[c] = "closing"
  /\ table' = Released(table, R)
  /\ ending' = Cleared(ending, R)
  /\ failed' = Cleared(failed, R)
  /\ Gone(c)
  /\ UNCHANGED <<gen, closed, live, todo, obsVars, born>>

Handler(c) ==
  \/ EndReturned(c) \/ StartReturned(c) \/ ObserveReturned(c) \/ ObserveRaised(c)
  \/ WaitDone(c) \/ Leave(c) \/ ClosingReturned(c)

Next ==
  \/ \E c \in Conns :
       \/ ReadStart(c) \/ ReadObservation(c) \/ ReadEnd(c) \/ ReadVectorStep(c)
       \/ Handler(c)
       \/ Disconnect(c) \/ Cancel(c) \/ CancelStart(c) \/ ReplyRaises(c)
  \/ \E a \in asks : Answer(a)
  \/ \E r \in Rows : FailEpisode(r)

Spec == Init /\ [][Next]_vars

\* The callbacks return.
CallbackSpec == Spec /\ \A c \in Conns : WF_vars(Handler(c))

ServerAnswers == \E a \in asks : Answer(a)

-----------------------------------------------------------------------------
(* Properties.                                                             *)

\* The types of the variables; a batch is of a callback being awaited, and a
\* message keeps something to do only while its ends or starts are under way.
TypeOK ==
  /\ table \in [Rows -> Episodes \cup {None}]
  /\ gen \in [Rows -> Nat]
  /\ ending \in [Rows -> BOOLEAN] /\ failed \in [Rows -> BOOLEAN]
  /\ at \in [Conns -> {"read", "end", "start", "observe", "wait", "closing", "gone"}]
  /\ closed \in [Conns -> BOOLEAN] /\ live \in [Conns -> BOOLEAN]
  /\ own \in [Conns -> [Slots -> Rows \cup {None, Absent}]]
  /\ local \in [Conns -> [Slots -> Rows \cup {None, Absent}]]
  /\ batch \in [Conns -> [Slots -> Rows \cup {None}]]
  /\ \A c \in Conns : RowsIn(batch[c]) # {} <=> at[c] \in {"end", "start", "closing"}
  /\ \A c \in Conns : at[c] \notin {"end", "start"} => todo[c] = Nothing
  /\ \A a \in asks : a.conn \in Conns /\ a.row \in Rows /\ a.episode \in Episodes
  /\ answered \subseteq asks /\ acted \subseteq answered
  /\ obsNo \in [Conns -> 0 .. MaxObs] /\ born \in 0 .. MaxEpisodes

\* The rows a handler will end sooner or later.
Held(c) == RowsIn(own[c]) \cup RowsIn(batch[c])
Known(c) == Held(c) \cup RowsIn(local[c])

\* A row with an episode is known to one handler, which knows it once, and a
\* handler knows of no free row: no episode is ended by another connection's
\* messages, and no connection's slot leads to another's episode, even when
\* rows are released and handed out again while callbacks run
\* (_start_episodes, _end_episodes, base.py; _vector_step, serve.py).
RowsHaveOneOwner ==
  /\ \A r \in Rows : Cardinality({c \in Conns : r \in Known(c)}) = (IF table[r] = None THEN 0 ELSE 1)
  /\ \A c \in Conns : \A s, t \in Slots :
       s # t => /\ own[c][s] \in Rows => own[c][s] # own[c][t]
                /\ local[c][s] \in Rows => local[c][s] # local[c][t]

\* No more than max_rows episodes run at once, counting those whose start or
\* end is under way (_start_episodes, base.py).
RowsWithinLimit == Cardinality({r \in Rows : table[r] # None}) <= MaxRows

\* A disconnect ends its episodes: every row with an episode is one a handler
\* that has not returned will end (serve.py:6-7; test_server_callbacks.py,
\* "every row released once").
DisconnectEndsItsEpisodes ==
  \A r \in Rows : table[r] # None => \E c \in Conns : at[c] # "gone" /\ r \in Known(c)

\* A handler gets the replies it waits for, once the server answers what it is
\* given (_handle_connection, wait, serve.py).
RepliesArrive ==
  WF_vars(ServerAnswers) => \A c \in Conns : at[c] \in {"observe", "wait"} ~> at[c] \notin {"observe", "wait"}

\* A connection that closes is let go of, its episodes ended, even when the
\* server never answers (watch, wait and the finally, serve.py).
ClosedConnectionsLetGo == \A c \in Conns : closed[c] ~> at[c] = "gone" /\ Held(c) = {}

-----------------------------------------------------------------------------
(* The inductive invariant behind these properties.                        *)

\* What a message has left to do, and room for what it starts and observes.
MessageInv ==
  /\ todo \in [Conns -> [starts : SUBSET Slots, obs : SUBSET Slots]]
  /\ \A c \in Conns : at[c] # "end" => todo[c].starts = {}
  /\ \A c \in Conns : todo[c].obs # {} => obsNo[c] < MaxObs
  /\ born + Reserved <= MaxEpisodes

\* The episodes on the rows are different ones, started already.
EpisodesInv ==
  /\ \A r \in Rows : table[r] # None => table[r] <= born
  /\ \A q, r \in Rows : q # r /\ table[q] # None => table[q] # table[r]

\* No row is twice in an array, and the handler's array lags behind the one
\* _vector_step works on only while a message of a vector client is handled.
ArraysAgree(c) ==
  /\ \A s, t \in Slots : s # t /\ local[c][s] \in Rows => local[c][s] # local[c][t]
  /\ \A s \in Slots : own[c][s] \in Rows => local[c][s] = own[c][s]
  /\ at[c] \in {"read", "end", "closing", "gone"} => local[c] = own[c]
  /\ at[c] = "start" => \A s \in Slots : local[c][s] \in Rows => own[c][s] = local[c][s]
  /\ c \in VectorConns => ~live[c]
  /\ c \notin VectorConns => local[c] = own[c] /\ \A s \in Slots : own[c][s] # Absent

\* A batch that ends is of the handler's rows, all those the message starts over
\* or the handler leaves behind among them; one that starts is of other rows, for
\* slots without one.
BatchFits(c) ==
  /\ \A s, t \in Slots : s # t /\ batch[c][s] \in Rows => batch[c][s] # batch[c][t]
  /\ at[c] \in {"end", "closing"} =>
       \A s \in Slots : batch[c][s] \in Rows => own[c][s] = batch[c][s]
  /\ at[c] \in {"end", "closing"} =>
       \A s \in Slots : own[c][s] \in Rows /\ (at[c] = "end" => s \in todo[c].starts)
         => batch[c][s] = own[c][s]
  /\ at[c] = "start" =>
       \A s \in Slots : batch[c][s] \in Rows =>
         local[c][s] \notin Rows /\ \A t \in Slots : local[c][t] # batch[c][s]

\* A handler knows only rows with an episode, which no other handler knows, and
\* a row whose end is under way is in the batch of the handler that ends it.
KnownRowsInv ==
  /\ \A c \in Conns : \A r \in Known(c) : table[r] # None
  /\ \A c, d \in Conns : c # d => Known(c) \cap Known(d) = {}
  /\ \A r \in Rows : ending[r] =>
       \E c \in Conns : at[c] \in {"end", "closing"} /\ r \in RowsIn(batch[c])

HandlersInv == (\A c \in Conns : ArraysAgree(c) /\ BatchFits(c)) /\ KnownRowsInv

\* What a handler that has returned knows, and who knows a row.
NoRowLost ==
  /\ \A c \in Conns : at[c] = "gone" => Known(c) = {}
  /\ \A r \in Rows : table[r] # None => \E c \in Conns : r \in Known(c)

\* A free row is not marked, and a batch in on_episode_end is.
FlagsInv ==
  /\ \A r \in Rows : table[r] = None => ~ending[r] /\ ~failed[r]
  /\ \A c \in Conns : at[c] \in {"end", "closing"} => \A r \in RowsIn(batch[c]) : ending[r]

\* An observation that can still be claimed is of the episode on its row, which
\* runs: its start is over, its end has not begun, it has not failed.
AsksInv ==
  /\ \A a \in asks : a.no \in Nat /\ a.no <= obsNo[a.conn]
  /\ \A a \in asks : a.gen \in Nat /\ a.gen <= gen[a.row]
  /\ \A a \in asks \ answered : a.gen = gen[a.row] =>
       /\ table[a.row] = a.episode /\ ~ending[a.row] /\ ~failed[a.row]
       /\ \A c \in Conns : at[c] = "start" => a.row \notin RowsIn(batch[c])

-----------------------------------------------------------------------------
\* What the rows are for: EpisodeCallbacks.
RowOf(e) == IF \E r \in Rows : table[r] = e THEN CHOOSE r \in Rows : table[r] = e ELSE None

Phase(e) ==
  LET r == RowOf(e) IN
  IF r = None THEN (IF e > born THEN "new" ELSE "over")
  ELSE IF ending[r] THEN "ending"
  ELSE IF failed[r] THEN "failed"
  ELSE IF \E c \in Conns : at[c] = "start" /\ \E s \in Slots : batch[c][s] = r THEN "starting"
  ELSE "running"

Callbacks == INSTANCE EpisodeCallbacks WITH
  NoRow <- None,
  phase <- [e \in Episodes |-> Phase(e)],
  rowOf <- [e \in Episodes |-> RowOf(e)],
  asked <- asks,
  replied <- answered

\* The model server's callbacks see the episodes EpisodeCallbacks promises: a
\* row is one episode's from its start to its end, and an observation is
\* answered once, before its episode's end begins or it fails
\* (_start_episodes, _end_episodes, _observe, _claim, fail_episode, base.py).
ImplementsCallbacks == Callbacks!Spec
=============================================================================
