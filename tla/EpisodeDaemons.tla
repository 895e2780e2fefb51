------------------------------ MODULE EpisodeDaemons ------------------------------
(***************************************************************************)
(* The server half of an episode: the handler of a connection              *)
(* (src/vla_eval/model_servers/serve.py) in front of EpisodeDaemons        *)
(* (src/vla_eval/model_servers/daemons.py), where each started episode has *)
(* a host, tasks that run user code, a mailbox of observations and calls   *)
(* on the one model thread.                                                *)
(*                                                                         *)
(* Everything but the model thread runs on one event loop: an action is    *)
(* the code between two awaits. An episode is named by the number of its   *)
(* EPISODE_START, a message by its wire seq. The field `of` of a message   *)
(* to the client names the episode whose code sent it; it is not on the    *)
(* wire and no guard reads it.                                             *)
(*                                                                         *)
(* The user's run(ep) is any code: a root task that owns the mailbox, one  *)
(* child, and a guest outside the episode's scope that makes model calls.  *)
(***************************************************************************)
EXTENDS Integers, Sequences, FiniteSets, SequencesExt

CONSTANTS
  Conns,       \* the client's connections, 1 .. n, one after another
  Episodes,    \* its EPISODE_STARTs, 1 .. n
  MaxSettles,  \* chrono's max_settles
  MaxPublish,  \* bound: publishes per episode
  Scenarios    \* bound: how the client runs its episodes, with what else may happen

Modes == {"live", "clocked", "plain"}  \* sync is with a step_dt ("clocked") or without
Faults == {"cut", "timeout", "stop", "refuse", "raise", "call", "child", "guest", "publish"}

ASSUME DaemonsAssumption ==
  /\ IsFiniteSet(Conns) /\ Conns = 1 .. Cardinality(Conns)
  /\ IsFiniteSet(Episodes) /\ Episodes = 1 .. Cardinality(Episodes)
  /\ MaxSettles \in Nat \ {0} /\ MaxPublish \in Nat
  /\ Scenarios \subseteq [mode : Modes, backlog : Nat, may : SUBSET Faults, episodes : Episodes, steps : Nat \ {0}]

VARIABLES
  scenario,  \* one of Scenarios, for good
  conn,  \* by connection: the socket and its handler
  ep,    \* by episode: its row and its EpisodeContext
  jobs,  \* calls on the model thread, oldest first: each returns as its caller resumes
  serve  \* the server's task group: "up", "cancelled", then "stopping" once _watch saw it

daemonVars == <<scenario, conn, ep, jobs, serve>>

mode    == scenario.mode
backlog == scenario.backlog  \* 0: "latest"; else the bound of the FIFO
May(f)  == f \in scenario.may

Tasks == {"root", "child", "guest"}
NoMsg == [type |-> "none", seq |-> 0, of |-> 0]

NewConn == [open |-> FALSE, up |-> <<>>, down |-> <<>>, at |-> "over", row |-> 0,
            msg |-> NoMsg, answer |-> "none"]

NewEpisode ==
  [stage |-> "none", conn |-> 0, seq |-> 0, current |-> FALSE, failed |-> FALSE, sink |-> "none", hook |-> "none",
   closing |-> FALSE, control |-> FALSE, host |-> "none", task |-> [t \in Tasks |-> "off"],
   box |-> <<>>, held |-> {}, moving |-> <<>>, fresh |-> FALSE, published |-> 0]

DaemonsInit ==
  /\ scenario \in Scenarios
  /\ conn = [s \in Conns |-> NewConn]
  /\ ep = [i \in Episodes |-> NewEpisode]
  /\ jobs = <<>>
  /\ serve = "up"

-----------------------------------------------------------------------------
(* What the actions are made of.                                           *)

\* The handler takes its next message.
Idle(c) == [c EXCEPT !.at = "idle", !.msg = NoMsg, !.answer = "none"]

\* _release: of the episode only its EPISODE_ERROR may be left to send.
Released(e) == [NewEpisode EXCEPT !.stage = "over", !.hook = e.hook, !.sink = e.sink, !.conn = e.conn, !.seq = e.seq]

Sent(c, type, seq, i) ==
  IF c.open THEN [c EXCEPT !.down = Append(@, [type |-> type, seq |-> seq, of |-> i])] ELSE c

Job(fn, i, t) == [fn |-> fn, of |-> i, task |-> t]
Returns(fn, i, t) == jobs # <<>> /\ Head(jobs) = Job(fn, i, t) /\ jobs' = Tail(jobs)

Owned(e) == {t \in Tasks : e.task[t] = "call"}

\* _close: no admission, no waiting observation, the scope is cancelled.
Closed(e) == [e EXCEPT !.closing = TRUE, !.box = <<>>]

\* fail and fail_episode, of an episode left as e by the step so far.
Fails(e)  == ~e.closing /\ e.stage = "run"
Failed(e) ==
  IF Fails(e)
  THEN [Closed(e) EXCEPT !.failed = TRUE, !.current = FALSE, !.sink = IF mode = "live" THEN "due" ELSE "none"]
  ELSE Closed(e)

\* Mutant: only replies end a wait.
NotSwept(c) == c

\* fail_episode's sweep: the observation that waits for the episode gets its error.
Swept(c) == IF c.at = "waiting" /\ c.answer = "none" THEN [c EXCEPT !.answer = "error"] ELSE c

Fail(i, e) ==
  /\ ep' = [ep EXCEPT ![i] = Failed(e)]
  /\ conn' = IF Fails(e) THEN [conn EXCEPT ![ep[i].conn] = Swept(@)] ELSE conn

\* send_action and send_error for observation k, claimed once, while the episode runs.
Answered(c, i, k, type) ==
  IF mode = "live" THEN Sent(c, type, k, i)
  ELSE IF c.at = "waiting" /\ c.msg.seq = k /\ c.answer = "none" THEN [c EXCEPT !.answer = type] ELSE c

-----------------------------------------------------------------------------
(* The handler of a connection: start, observe, end, leave.                *)

Reads(s, type) ==
  /\ serve = "up" /\ conn[s].at = "idle" /\ conn[s].up # <<>>
  /\ Head(conn[s].up).type = type

\* _end_episodes up to on_episode_end: replies drop from here on.
Ending(e) == [e EXCEPT !.stage = "end", !.current = FALSE]

ReadStart(s) ==
  /\ Reads(s, "start")
  /\ conn' = [conn EXCEPT ![s].up = Tail(@), ![s].msg = Head(conn[s].up), ![s].at = "restarting"]
  /\ ep' = IF conn[s].row = 0 THEN ep ELSE [ep EXCEPT ![conn[s].row] = Ending(@)]
  /\ UNCHANGED <<scenario, jobs, serve>>

\* _start_episodes: validated, then reset on the model thread; or refused, with
\* the connection closed if capabilities are missing.
StartEpisode(s) ==
  /\ conn[s].at = "restarting" /\ conn[s].row = 0 /\ serve = "up"
  /\ LET i == conn[s].msg.of IN
     \/ /\ ep' = [ep EXCEPT ![i] = [@ EXCEPT !.stage = "reset", !.current = TRUE, !.conn = s, !.seq = conn[s].msg.seq]]
        /\ jobs' = Append(jobs, Job("reset", i, "none"))
        /\ conn' = [conn EXCEPT ![s].at = "starting"]
     \/ /\ May("refuse")
        /\ \E stays \in BOOLEAN :
             conn' = [conn EXCEPT ![s] = [Idle(Sent(@, "error", conn[s].msg.seq, i)) EXCEPT !.open = conn[s].open /\ stays]]
        /\ UNCHANGED <<ep, jobs>>
  /\ UNCHANGED <<scenario, serve>>

\* A reset that failed: the row is released and the client told.
StartFails(s) ==
  /\ conn[s].at = "starting"
  /\ LET i == conn[s].msg.of IN
     /\ Returns("reset", i, "none")
     /\ ep' = [ep EXCEPT ![i] = Released(@)]
     /\ conn' = [conn EXCEPT ![s] = Idle(Sent(@, "error", conn[s].msg.seq, i))]
  /\ UNCHANGED <<scenario, serve>>

\* The context is registered, its host scheduled, the client told it may begin.
Starts(s) ==
  /\ conn[s].at = "starting" /\ serve # "stopping"
  /\ LET i == conn[s].msg.of IN
     /\ Returns("reset", i, "none")
     /\ ep' = [ep EXCEPT ![i] = [@ EXCEPT !.stage = "run", !.host = "soon", !.hook = "reset"]]
     /\ conn' = [conn EXCEPT ![s] = [Idle(Sent(@, "ready", conn[s].msg.seq, i)) EXCEPT !.row = i]]
  /\ UNCHANGED <<scenario, serve>>

\* Shut down during reset: the reset row is finished once, and its start fails.
RollsBack(s) ==
  /\ conn[s].at = "starting" /\ serve = "stopping"
  /\ LET i == conn[s].msg.of IN
     /\ jobs # <<>> /\ Head(jobs) = Job("reset", i, "none")
     /\ jobs' = Append(Tail(jobs), Job("finish", i, "none"))
     /\ ep' = [ep EXCEPT ![i].hook = "reset"]
  /\ conn' = [conn EXCEPT ![s].at = "rolling"]
  /\ UNCHANGED <<scenario, serve>>

\* finish_episodes is called.
Finished(e) == [e EXCEPT !.hook = IF @ = "reset" THEN "finished" ELSE "wrong"]

RolledBack(s) ==
  /\ conn[s].at = "rolling"
  /\ LET i == conn[s].msg.of IN
     /\ Returns("finish", i, "none")
     /\ ep' = [ep EXCEPT ![i] = Released(Finished(@))]
  /\ conn' = [conn EXCEPT ![s] = Idle(@)]
  /\ UNCHANGED <<scenario, serve>>

\* Mutant: "latest" keeps what was waiting.
PutBehind(e, k) == [e EXCEPT !.box = Append(@, k)]

\* put: "latest" keeps the newest; a full FIFO fails the episode.
Overflows(e) == backlog > 0 /\ Len(e.box) >= backlog
Put(e, k) == [e EXCEPT !.box = IF backlog = 0 THEN <<k>> ELSE Append(@, k)]

\* on_observation of a row that runs: at once on a wall clock or none, by a
\* task of its own that moves a sync clock.
Observe(s) ==
  /\ Reads(s, "obs") /\ conn[s].row # 0
  /\ LET i == conn[s].row
         k == Head(conn[s].up).seq
         read == IF mode = "live" THEN [conn[s] EXCEPT !.up = Tail(@)]
                 ELSE [conn[s] EXCEPT !.up = Tail(@), !.msg = Head(conn[s].up), !.at = "waiting"]
     IN  IF ep[i].failed \/ ep[i].closing
         THEN conn' = [conn EXCEPT ![s] = Answered(read, i, k, "error")] /\ UNCHANGED ep
         ELSE IF mode = "clocked"
         THEN /\ conn' = [conn EXCEPT ![s] = read]
              /\ ep' = [ep EXCEPT ![i].moving = Append(@, [seq |-> k, admitted |-> FALSE, settles |-> 0])]
         ELSE IF Overflows(ep[i])
         THEN /\ conn' = [conn EXCEPT ![s] = Swept(read)]
              /\ ep' = [ep EXCEPT ![i] = Failed(@)]
         ELSE conn' = [conn EXCEPT ![s] = read] /\ ep' = [ep EXCEPT ![i] = Put(@, k)]
  /\ UNCHANGED <<scenario, jobs, serve>>

\* The observation is answered, and the client gets the answer.
Replies(s) ==
  /\ conn[s].at = "waiting" /\ conn[s].answer # "none" /\ serve = "up"
  /\ conn' = [conn EXCEPT ![s] = Idle(Sent(@, conn[s].answer, conn[s].msg.seq, conn[s].row))]
  /\ UNCHANGED <<scenario, ep, jobs, serve>>

\* watch: a disconnect wakes the wait; what had arrived is still read.
StopsWaiting(s) ==
  /\ conn[s].at = "waiting" /\ conn[s].answer = "none" /\ ~conn[s].open /\ serve = "up"
  /\ conn' = [conn EXCEPT ![s] = Idle(@)]
  /\ UNCHANGED <<scenario, ep, jobs, serve>>

ReadEnd(s) ==
  /\ Reads(s, "end")
  /\ conn' = [conn EXCEPT ![s].up = Tail(@), ![s].at = IF conn[s].row = 0 THEN "idle" ELSE "ending"]
  /\ ep' = IF conn[s].row = 0 THEN ep ELSE [ep EXCEPT ![conn[s].row] = Ending(@)]
  /\ UNCHANGED <<scenario, jobs, serve>>

\* The handler ends: its client is gone and all it sent was read, or the
\* server is shut down. A start it was about to make is dropped.
Leaves(s) ==
  /\ \/ conn[s].at = "idle" /\ ~conn[s].open /\ conn[s].up = <<>>
     \/ conn[s].at \in {"idle", "waiting"} /\ serve # "up"
     \/ conn[s].at = "restarting" /\ conn[s].row = 0 /\ serve # "up"
  /\ conn' = [conn EXCEPT ![s] = [@ EXCEPT !.at = IF conn[s].row = 0 THEN "over" ELSE "leaving",
                                           !.open = FALSE, !.up = <<>>, !.msg = NoMsg, !.answer = "none"]]
  /\ ep' = IF conn[s].row = 0 THEN ep ELSE [ep EXCEPT ![conn[s].row] = Ending(@)]
  /\ UNCHANGED <<scenario, jobs, serve>>

IsEnding(s) == conn[s].row # 0 /\ conn[s].at \in {"restarting", "ending", "leaving"}

\* on_episode_end takes the lock of deliveries, which is first come, first served: the last
\* instant's deliveries end before the episode closes, and an ending handler begins none,
CloseEnded(s) ==
  /\ IsEnding(s) /\ ep[conn[s].row].stage = "end" /\ ep[conn[s].row].moving = <<>>
  /\ ep' = [ep EXCEPT ![conn[s].row] = [Closed(@) EXCEPT !.stage = "closed"]]
  /\ UNCHANGED <<scenario, conn, jobs, serve>>

\* Mutant: finish does not wait for the host.
FinishAtOnce(s) ==
  /\ IsEnding(s) /\ ep[conn[s].row].stage = "closed"
  /\ ep' = [ep EXCEPT ![conn[s].row].stage = "finish"]
  /\ jobs' = Append(jobs, Job("finish", conn[s].row, "none"))
  /\ UNCHANGED <<scenario, conn, serve>>

\* its host exits before finish is called,
FinishEnded(s) ==
  /\ IsEnding(s) /\ ep[conn[s].row].stage = "closed" /\ ep[conn[s].row].host = "exited"
  /\ ep' = [ep EXCEPT ![conn[s].row].stage = "finish"]
  /\ jobs' = Append(jobs, Job("finish", conn[s].row, "none"))
  /\ UNCHANGED <<scenario, conn, serve>>

\* and the row is released after finish.
Ended(s) ==
  /\ IsEnding(s)
  /\ Returns("finish", conn[s].row, "none")
  /\ ep' = [ep EXCEPT ![conn[s].row] = Released(Finished(@))]
  /\ conn' = [conn EXCEPT ![s] = [@ EXCEPT !.row = 0,
                !.at = CASE conn[s].at = "ending" -> "idle" [] conn[s].at = "leaving" -> "over" [] OTHER -> conn[s].at]]
  /\ UNCHANGED <<scenario, serve>>

Handler(s) ==
  \/ ReadStart(s) \/ StartEpisode(s) \/ StartFails(s) \/ Starts(s) \/ RollsBack(s) \/ RolledBack(s)
  \/ Observe(s) \/ Replies(s) \/ StopsWaiting(s) \/ ReadEnd(s) \/ Leaves(s)
  \/ CloseEnded(s) \/ FinishEnded(s) \/ Ended(s)

-----------------------------------------------------------------------------
(* An episode's host, its deliveries on a sync clock, and its sink.        *)

\* Mutant: a host closed before it ran is forgotten.
HostForgets(i) ==
  /\ ep[i].host = "soon"
  /\ ep' = [ep EXCEPT ![i] = IF @.closing THEN [@ EXCEPT !.host = "none"]
                             ELSE [@ EXCEPT !.host = "up", !.task["root"] = "ready"]]
  /\ UNCHANGED <<scenario, conn, jobs, serve>>

\* Closed before its host ran: no root.
HostRuns(i) ==
  /\ ep[i].host = "soon"
  /\ ep' = [ep EXCEPT ![i] = IF @.closing THEN [@ EXCEPT !.host = "drain"]
                             ELSE [@ EXCEPT !.host = "up", !.task["root"] = "ready"]]
  /\ UNCHANGED <<scenario, conn, jobs, serve>>

HostLeaves(i) ==
  /\ ep[i].host = "up" /\ \A t \in Tasks \ {"guest"} : ep[i].task[t] = "off"
  /\ ep' = [ep EXCEPT ![i] = [Closed(@) EXCEPT !.host = "drain"]]
  /\ UNCHANGED <<scenario, conn, jobs, serve>>

\* The calls the episode owns are drained; process control then leaves the
\* host and takes the server's task group down.
HostExits(i) ==
  /\ ep[i].host = "drain" /\ Owned(ep[i]) = {}
  /\ ep' = [ep EXCEPT ![i].host = "exited"]
  /\ serve' = IF ep[i].control /\ serve = "up" THEN "cancelled" ELSE serve
  /\ UNCHANGED <<scenario, conn, jobs>>

Moving(i) == ep[i].moving # <<>>

\* admit, at the instant of the observation. A sync client waits for its answer,
\* so the mailbox has room.
Admits(i) ==
  /\ Moving(i) /\ ~Head(ep[i].moving).admitted /\ ~ep[i].closing
  /\ ep' = [ep EXCEPT ![i] = [Put(@, Head(@.moving).seq) EXCEPT !.moving[1].admitted = TRUE]]
  /\ UNCHANGED <<scenario, conn, jobs, serve>>

\* _settle: again while calls finish; too many rounds fail the episode.
Settles(i) ==
  /\ Moving(i) /\ ~ep[i].closing /\ ep[i].fresh
  /\ IF Head(ep[i].moving).settles < MaxSettles
     THEN ep' = [ep EXCEPT ![i].fresh = FALSE, ![i].moving[1].settles = @ + 1] /\ UNCHANGED conn
     ELSE Fail(i, [ep[i] EXCEPT !.moving = Tail(@)])
  /\ UNCHANGED <<scenario, jobs, serve>>

Settled(i) ==
  /\ Moving(i) /\ Head(ep[i].moving).admitted /\ ~ep[i].closing
  /\ Owned(ep[i]) = {} /\ ~ep[i].fresh
  /\ ep' = [ep EXCEPT ![i].moving = Tail(@)]
  /\ UNCHANGED <<scenario, conn, jobs, serve>>

\* The episode closed meanwhile: an observation it did not admit is failed.
\* A cancelled delivery answers nothing.
StopsMoving(i) ==
  /\ Moving(i) /\ (ep[i].closing \/ serve # "up")
  /\ ep' = [ep EXCEPT ![i].moving = Tail(@)]
  /\ LET d == Head(ep[i].moving) IN
     conn' = IF d.admitted \/ serve # "up" \/ ~ep[i].current THEN conn
             ELSE [conn EXCEPT ![ep[i].conn] = Answered(@, i, d.seq, "error")]
  /\ UNCHANGED <<scenario, jobs, serve>>

\* EPISODE_ERROR, from a task of its own.
SendsError(i) ==
  /\ ep[i].sink = "due"
  /\ ep' = [ep EXCEPT ![i].sink = "sent"]
  /\ conn' = IF serve = "up" THEN [conn EXCEPT ![ep[i].conn] = Sent(@, "episode_error", ep[i].seq, i)] ELSE conn
  /\ UNCHANGED <<scenario, jobs, serve>>

Hosts(i)    == HostRuns(i) \/ HostLeaves(i) \/ HostExits(i) \/ SendsError(i)
Delivers(i) == Admits(i) \/ Settles(i) \/ Settled(i) \/ StopsMoving(i)

-----------------------------------------------------------------------------
(* The tasks of an episode: what user code may do with its EpisodeContext. *)

Ready(i, t) == ep[i].task[t] = "ready"

Receive(i) ==
  /\ Ready(i, "root") /\ ep[i].box # <<>>
  /\ ep' = [ep EXCEPT ![i].box = Tail(@), ![i].held = @ \cup {Head(ep[i].box)}]
  /\ UNCHANGED <<scenario, conn, jobs, serve>>

\* ObservationRequest.reply and .error: dropped unless the episode runs.
Reply(i, k, type) ==
  /\ \E t \in Tasks \ {"guest"} : Ready(i, t)
  /\ ep' = [ep EXCEPT ![i].held = @ \ {k}]
  /\ conn' = IF ep[i].current THEN [conn EXCEPT ![ep[i].conn] = Answered(@, i, k, type)] ELSE conn
  /\ UNCHANGED <<scenario, jobs, serve>>

\* The last task to go fails an episode that still runs.
Gone(e, t) == LET left == [e EXCEPT !.task[t] = "off"] IN
              IF t # "guest" /\ \A u \in Tasks \ {"guest"} : left.task[u] = "off" THEN Failed(left) ELSE left
LeavesFailed(e, t) == Fails(e) /\ Gone(e, t).failed

TaskGoes(i, t) ==
  /\ ep' = [ep EXCEPT ![i] = Gone(@, t)]
  /\ conn' = IF LeavesFailed(ep[i], t) THEN [conn EXCEPT ![ep[i].conn] = Swept(@)] ELSE conn

Finishes(i, t) ==
  /\ Ready(i, t) /\ TaskGoes(i, t)
  /\ UNCHANGED <<scenario, jobs, serve>>

\* An ordinary error fails the episode.
Raises(i, t) ==
  /\ May("raise") /\ Ready(i, t) /\ t # "guest" /\ ~ep[i].closing
  /\ Fail(i, [ep[i] EXCEPT !.task[t] = "off"])
  /\ UNCHANGED <<scenario, jobs, serve>>

\* Process control closes it, and is raised after the drain.
Interrupts(i, t) ==
  /\ May("stop") /\ Ready(i, t) /\ t # "guest" /\ ~ep[i].closing
  /\ ep' = [ep EXCEPT ![i] = [Closed(@) EXCEPT !.task[t] = "off", !.control = TRUE]]
  /\ UNCHANGED <<scenario, conn, jobs, serve>>

\* Closing cancels the scope: a task goes at its next await.
Cancelled(i, t) ==
  /\ ep[i].closing /\ t # "guest" /\ Ready(i, t)
  /\ ep' = [ep EXCEPT ![i] = Gone(@, t)]
  /\ UNCHANGED <<scenario, conn, jobs, serve>>

\* start_soon
Spawns(i) ==
  /\ May("child") /\ ~ep[i].closing /\ Ready(i, "root") /\ ep[i].task["child"] = "off"
  /\ ep' = [ep EXCEPT ![i].task["child"] = "ready"]
  /\ UNCHANGED <<scenario, conn, jobs, serve>>

\* A task outside the scope takes up the context of a running episode.
Visits(i) ==
  /\ May("guest") /\ ep[i].stage = "run" /\ ep[i].task["guest"] = "off"
  /\ ep' = [ep EXCEPT ![i].task["guest"] = "ready"]
  /\ UNCHANGED <<scenario, conn, jobs, serve>>

\* ep.call, on an observation: refused once closing.
Calls(i, t) ==
  /\ May("call") /\ Ready(i, t) /\ ~ep[i].closing
  /\ t = "guest" \/ ep[i].held # {}
  /\ ep' = [ep EXCEPT ![i].task[t] = "call"]
  /\ jobs' = Append(jobs, Job("call", i, t))
  /\ UNCHANGED <<scenario, conn, serve>>

\* Its result is dropped if the episode closed meanwhile.
CallReturns(i, t) ==
  /\ Returns("call", i, t)
  /\ ep' = [ep EXCEPT ![i] = [(IF @.closing THEN Gone(@, t) ELSE [@ EXCEPT !.task[t] = "ready"]) EXCEPT
                                !.fresh = mode = "clocked"]]
  /\ UNCHANGED <<scenario, conn, serve>>

\* publish, once it has the link to itself: dropped if the episode closes by then.
Publishes(i, t) ==
  /\ May("publish") /\ mode = "live" /\ t # "guest" /\ Ready(i, t) /\ ~ep[i].closing /\ ep[i].published < MaxPublish
  /\ ep' = [ep EXCEPT ![i].published = @ + 1]
  /\ conn' = [conn EXCEPT ![ep[i].conn] = Sent(@, "publish", ep[i].seq, i)]
  /\ UNCHANGED <<scenario, jobs, serve>>

UserCode(i) ==
  \/ Receive(i) \/ Spawns(i) \/ Visits(i)
  \/ \E k \in ep[i].held : Reply(i, k, "action") \/ Reply(i, k, "error")
  \/ \E t \in Tasks : Finishes(i, t) \/ Raises(i, t) \/ Interrupts(i, t) \/ Calls(i, t) \/ Publishes(i, t)


-----------------------------------------------------------------------------
(* The server's task group.                                                *)

Shutdown ==
  /\ May("stop") /\ serve = "up" /\ serve' = "cancelled"
  /\ UNCHANGED <<scenario, conn, ep, jobs>>

\* _watch: admission closes, then every episode.
Sweeps ==
  /\ serve = "cancelled" /\ serve' = "stopping"
  /\ ep' = [i \in Episodes |-> IF ep[i].stage = "run" THEN Closed(ep[i]) ELSE ep[i]]
  /\ UNCHANGED <<scenario, conn, jobs>>

Server ==
  \/ \E s \in Conns : Handler(s)
  \/ \E i \in Episodes : Hosts(i) \/ Delivers(i) \/ UserCode(i) \/ \E t \in Tasks : Cancelled(i, t) \/ CallReturns(i, t)
  \/ Shutdown \/ Sweeps
=============================================================================
