----------------------------- MODULE EpisodeProtocol -----------------------------
(***************************************************************************)
(* The client half of an episode, in front of EpisodeDaemons: the          *)
(* orchestrator's one-at-a-time loop and its reconnects, the sync and live *)
(* runners (src/vla_eval/runners), the Connection with its listener        *)
(* (src/vla_eval/connection.py) and the live runner's ActionBuffer, over a *)
(* socket that keeps order and may be lost at any time.                    *)
(***************************************************************************)
EXTENDS EpisodeDaemons

VARIABLE client

vars == <<daemonVars, client>>

\* _next_seq. A seq is only ever compared, so it numbers the message by its
\* episode and its place there: START 0, observations from 1, END last.
NextSeq(n, k) == n * (scenario.steps + 2) + k

ClientInit ==
  client = [at |-> "idle", n |-> 0, sess |-> 0, epseq |-> 0, active |-> FALSE, actseq |-> 0,
            steps |-> 0, latest |-> NoMsg, fresh |-> FALSE, action |-> NoMsg, blame |-> 0]

Init == DaemonsInit /\ ClientInit

-----------------------------------------------------------------------------
(* The socket, as the client sees it.                                      *)

Connected == client.sess # 0 /\ conn[client.sess].open
Inbox     == IF client.sess = 0 THEN <<>> ELSE conn[client.sess].down
Lost      == ~Connected /\ Inbox = <<>>

Posted(c, type, seq, i) == [c EXCEPT !.up = Append(@, [type |-> type, seq |-> seq, of |-> i])]
TakenFrom(c) == [c EXCEPT !.down = Tail(@)]

\* EPISODE_END, if the socket still takes it, from a connection left as c.
EndPosted(c) == IF c.open THEN Posted(c, "end", NextSeq(client.n, scenario.steps + 1), client.n) ELSE c
EndsWith(c) ==
  /\ conn' = [conn EXCEPT ![client.sess] = EndPosted(c)]
  /\ client' = [client EXCEPT !.at = "idle", !.active = FALSE, !.action = NoMsg]

\* The same before a reconnect: the old socket is closed once it is sent.
EndsAndCloses ==
  /\ conn' = [conn EXCEPT ![client.sess] = [EndPosted(@) EXCEPT !.open = FALSE, !.down = <<>>]]
  /\ client' = [client EXCEPT !.at = "idle", !.active = FALSE, !.action = NoMsg]

ServerRests == UNCHANGED <<scenario, ep, jobs, serve>>

-----------------------------------------------------------------------------
(* Starting an episode.                                                    *)

\* Mutant: EPISODE_READY is not awaited.
StartUnawaited ==
  /\ client.at = "idle" /\ client.n < scenario.episodes
  /\ Connected \/ client.sess = 0
  /\ LET n == client.n + 1 IN
     /\ conn' = [conn EXCEPT ![1] = Posted([@ EXCEPT !.open = TRUE, !.at = IF @ = "over" THEN "idle" ELSE @],
                                           "start", NextSeq(n, 0), n)]
     /\ client' = [client EXCEPT !.at = "sending", !.n = n, !.sess = 1, !.epseq = NextSeq(n, 0), !.active = TRUE,
                                 !.blame = 0, !.steps = 0, !.latest = NoMsg, !.fresh = FALSE]
  /\ ServerRests

\* A lost connection is made anew for EPISODE_START only.
Start ==
  /\ client.at = "idle" /\ client.n < scenario.episodes
  /\ Connected \/ (client.sess < Cardinality(Conns) /\ serve = "up")
  /\ LET s   == IF Connected THEN client.sess ELSE client.sess + 1
         c   == IF Connected THEN conn[s] ELSE [NewConn EXCEPT !.open = TRUE, !.at = "idle"]
         n   == client.n + 1
     IN  /\ conn' = [t \in Conns |-> IF t = s THEN Posted(c, "start", NextSeq(n, 0), n)
                                     ELSE [conn[t] EXCEPT !.down = <<>>]]
         /\ client' = [client EXCEPT !.at = "starting", !.n = n, !.sess = s, !.epseq = NextSeq(n, 0),
                                     !.active = TRUE, !.blame = 0, !.steps = 0]
  /\ ServerRests

Receives(at) == client.at = at /\ Inbox # <<>>
Early(m) == m.seq < client.epseq
Take == conn' = [conn EXCEPT ![client.sess] = TakenFrom(@)]

\* A late reply of an earlier episode, to start_episode and to act.
DropsEarly ==
  /\ \E at \in {"starting", "asking"} : Receives(at)
  /\ Early(Head(Inbox))
  /\ Take /\ UNCHANGED client /\ ServerRests

\* EPISODE_READY: the episode begins with an empty ActionBuffer.
StartReady ==
  /\ Receives("starting")
  /\ Head(Inbox).type = "ready" /\ Head(Inbox).seq = client.epseq
  /\ Take
  /\ client' = [client EXCEPT !.at = "sending", !.latest = NoMsg, !.fresh = FALSE]
  /\ ServerRests

\* ERROR: there is no episode to end. Anything else is no answer to EPISODE_START.
StartRefused ==
  /\ Receives("starting")
  /\ LET m == Head(Inbox) IN
     /\ ~Early(m) /\ ~(m.type = "ready" /\ m.seq = client.epseq)
     /\ client' = [client EXCEPT !.at = "idle", !.active = m.type # "error"]
  /\ Take /\ ServerRests

\* A start that timed out may still begin, so it is ended.
TimesOut ==
  /\ May("timeout") /\ client.at \in {"starting", "asking"} /\ Inbox = <<>> /\ Connected
  /\ EndsAndCloses
  /\ ServerRests

\* ConnectionClosed, in start_episode, act, the listener or a send.
LosesConnection ==
  /\ client.at \in {"starting", "asking", "sending", "acting"} /\ Lost
  /\ client' = [client EXCEPT !.at = "idle", !.active = FALSE, !.action = NoMsg]
  /\ UNCHANGED conn /\ ServerRests

-----------------------------------------------------------------------------
(* The step loops.                                                         *)

\* send_observation, and the send of act.
Sends ==
  /\ client.at = "sending" /\ Connected
  /\ conn' = [conn EXCEPT ![client.sess] = Posted(@, "obs", NextSeq(client.n, client.steps + 1), client.n)]
  /\ client' = [client EXCEPT !.at = IF mode = "live" THEN "acting" ELSE "asking"]
  /\ ServerRests

\* apply_action, is_done and get_observation, after which the episode goes on or ends.
AfterStep(c, new) ==
  \/ /\ client.steps + 1 < scenario.steps
     /\ conn' = [conn EXCEPT ![client.sess] = c]
     /\ client' = [new EXCEPT !.at = "sending", !.steps = @ + 1]
  \/ /\ conn' = [conn EXCEPT ![client.sess] = EndPosted(c)]
     /\ client' = [new EXCEPT !.at = "idle", !.active = FALSE, !.action = NoMsg]

\* act's reply: a seq that does not match is only logged.
Acts ==
  /\ Receives("asking") /\ ~Early(Head(Inbox)) /\ Head(Inbox).type # "error"
  /\ AfterStep(TakenFrom(conn[client.sess]), [client EXCEPT !.action = Head(Inbox)])
  /\ ServerRests

ActFails ==
  /\ Receives("asking") /\ ~Early(Head(Inbox)) /\ Head(Inbox).type = "error"
  /\ EndsWith(TakenFrom(conn[client.sess]))
  /\ ServerRests

\* A live step: the newest action once, then the hold action.
Ticks ==
  /\ client.at = "acting"
  /\ AfterStep(conn[client.sess], [client EXCEPT !.fresh = FALSE])
  /\ ServerRests

\* Mutant: only actions are compared with what came before.
StaleAction(m) == m.type = "action" /\ (Early(m) \/ m.seq <= client.actseq)

\* The listener's dispatch of one message.
Stale(m) ==
  \/ Early(m) \/ (m.type = "action" /\ m.seq <= client.actseq)
  \/ m.type \in {"publish", "episode_error"} /\ ~(client.active /\ m.seq = client.epseq)

Buffers(m) ==
  [client EXCEPT !.latest = m, !.fresh = TRUE, !.actseq = IF m.type = "action" THEN m.seq ELSE @]

Listens ==
  /\ mode = "live" /\ (Receives("sending") \/ Receives("acting"))
  /\ LET m == Head(Inbox) IN
     \/ /\ ~Stale(m) /\ m.type \in {"action", "publish"}
        /\ Take /\ client' = Buffers(m)
     \/ /\ ~Stale(m) /\ m.type = "episode_error"
        /\ conn' = [conn EXCEPT ![client.sess] = EndPosted(TakenFrom(@))]
        /\ client' = [client EXCEPT !.at = "idle", !.active = FALSE, !.action = NoMsg, !.blame = m.of]
     \/ /\ Stale(m) \/ m.type \in {"error", "ready"}
        /\ Take /\ UNCHANGED client
  /\ ServerRests

\* A step of the environment raises.
StepFails ==
  /\ client.at \in {"sending", "acting"} /\ Connected
  /\ EndsWith(conn[client.sess])
  /\ ServerRests

\* After the last episode, or when the server cannot be reached.
Stops ==
  /\ client.at = "idle"
  /\ \/ client.n = scenario.episodes
     \/ ~Connected /\ (client.sess = Cardinality(Conns) \/ serve # "up")
  /\ client' = [client EXCEPT !.at = "done"]
  /\ conn' = IF Connected THEN [conn EXCEPT ![client.sess] = [@ EXCEPT !.open = FALSE, !.down = <<>>]] ELSE conn
  /\ ServerRests

\* The network loses the connection, and the ends of what was under way.
Cut ==
  /\ May("cut") /\ Connected
  /\ \E m \in 0 .. Len(conn[client.sess].up) :
       conn' = [conn EXCEPT ![client.sess].open = FALSE, ![client.sess].up = SubSeq(@, 1, m), ![client.sess].down = <<>>]
  /\ UNCHANGED client /\ ServerRests

Client ==
  \/ Start \/ DropsEarly \/ StartReady \/ StartRefused \/ TimesOut \/ LosesConnection
  \/ Sends \/ Acts \/ ActFails \/ Ticks \/ Listens \/ StepFails \/ Stops

Next == Client \/ Cut \/ (Server /\ UNCHANGED client)

Spec == Init /\ [][Next]_vars

\* The event loop always gets on with some handler, delivery, host or cancelled task
\* that can go on, and the model thread with its calls.
\* Nothing makes the user's code answer, or the client ask.
Fairness ==
  /\ WF_vars(UNCHANGED client /\ (\/ Sweeps
                                 \/ \E s \in Conns : Handler(s)
                                 \/ \E i \in Episodes : Delivers(i) \/ Hosts(i) \/ \E t \in Tasks : Cancelled(i, t)))
  /\ WF_vars(UNCHANGED client /\ \E i \in Episodes, t \in Tasks : CallReturns(i, t))

FairSpec == Spec /\ Fairness

-----------------------------------------------------------------------------
(* Properties.                                                             *)

Messages == [type : {"none", "start", "obs", "end", "ready", "action", "error", "publish", "episode_error"},
             seq : Nat, of : Nat]
Jobs == [fn : {"reset", "call", "finish"}, of : Episodes, task : Tasks \cup {"none"}]

\* Every variable has the values the code gives it.
TypeOK ==
  /\ scenario \in Scenarios /\ serve \in {"up", "cancelled", "stopping"}
  /\ \A s \in Conns :
       LET c == conn[s] IN
       /\ c.open \in BOOLEAN /\ c.row \in {0} \cup Episodes /\ c.answer \in {"none", "action", "error"}
       /\ c.at \in {"idle", "restarting", "starting", "rolling", "waiting", "ending", "leaving", "over"}
       /\ {c.msg} \cup ToSet(c.up) \cup ToSet(c.down) \subseteq Messages
  /\ \A i \in Episodes :
       LET e == ep[i] IN
       /\ e.stage \in {"none", "reset", "run", "end", "closed", "finish", "over"}
       /\ e.host \in {"none", "soon", "up", "drain", "exited"}
       /\ \A t \in Tasks : e.task[t] \in {"off", "ready", "call"}
       /\ Len(e.box) <= IF backlog = 0 THEN 1 ELSE backlog
  /\ ToSet(jobs) \subseteq Jobs
  /\ client.at \in {"idle", "starting", "sending", "asking", "acting", "done"}
  /\ {client.latest, client.action} \subseteq Messages

\* finish_episodes comes once for every reset that succeeded, shutdown and a
\* lost client included, and last: no task of the episode runs, none of its
\* model calls is under way, and a row that was reset is never let go without it
\* (EpisodeDaemons.on_episode_end, on_episode_start, _host; _end_episodes).
FinishedOnceAndLast ==
  /\ \A i \in Episodes :
       /\ ep[i].hook # "wrong"
       /\ ep[i].stage = "over" => ep[i].hook # "reset"
       /\ ep[i].hook = "finished" => \A t \in Tasks \ {"guest"} : ep[i].task[t] = "off"
  /\ \A f \in ToSet(jobs) :
       f.fn = "finish" => \A j \in ToSet(jobs) : j.of = f.of => j = f

\* An observation never waits for an episode that can no longer answer it: it
\* was failed with its episode, unless the server is going down
\* (fail_episode, _observe, EpisodeDaemons.on_observation, _deliver).
NoWaitOnADeadEpisode ==
  \A s \in Conns :
    conn[s].at = "waiting" /\ conn[s].answer = "none" =>
      /\ conn[s].row # 0 /\ ~ep[conn[s].row].failed
      /\ ep[conn[s].row].closing => serve # "up" \/ ep[conn[s].row].control

\* While the client steps an episode on a connection that holds, its handler
\* has that very episode, which the server has not ended
\* (Connection.start_episode, the runners, _handle_connection).
ClientAndServerAgree ==
  client.at \in {"sending", "asking", "acting"} /\ Connected /\ serve = "up" =>
    conn[client.sess].row = client.n /\ ep[client.n].stage = "run"

\* Nothing late reaches the next episode: the action it applies answers its own
\* observation or was published for it, a sync action the observation just
\* sent, and only its own EPISODE_ERROR ends it
\* (Connection.act, _listener_loop, ActionBuffer, the runners).
NothingOfAnotherEpisode ==
  /\ client.blame \in {0, client.n}
  /\ client.at \in {"sending", "asking", "acting"} =>
       /\ \A m \in {client.latest, client.action} : m.type # "none" => m.of = client.n
       /\ client.at = "sending" /\ mode # "live" /\ client.action.type # "none" =>
            client.action.type = "action" /\ client.action.seq = NextSeq(client.n, client.steps)

\* An episode that begins to end is over at last, whatever its tasks do and
\* however its client went (on_episode_end, _host, _close, ep.call).
EndsTerminate == \A i \in Episodes : ep[i].stage = "end" ~> ep[i].stage = "over"
=============================================================================
