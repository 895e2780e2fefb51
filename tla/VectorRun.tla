------------------------------ MODULE VectorRun ------------------------------
(***************************************************************************)
(* The shards of an evaluation on a VectorStepBenchmark: the orchestrator's *)
(* vector loop (_run_vector) and VectorEpisodeRunner.run, which keep up to *)
(* num_envs episodes of one task going over one connection and take their  *)
(* items from the same work queue as ShardRun.  One benchmark entry.       *)
(*                                                                         *)
(* Episodes are named by their items, slots by the episodes in them.       *)
(* pc[s] is where shard s's process stands:                                *)
(*   off, begin, seed, read, resume   as in ShardRun                       *)
(*   loop       the top of the runner's loop                               *)
(*   fill       taking episodes for the free slots (next_episode)          *)
(*   start      benchmark.reset for the new ones                           *)
(*   exchange   the round trip with the server                             *)
(*   step       benchmark.step with the actions of its reply               *)
(*   end        booking the episodes in ends, one after the other          *)
(*   ended      the row of cur is committed, finish is next                *)
(*   health     _check_health is next                                      *)
(*   stop       runner.run has returned, or raised ConnectionError         *)
(***************************************************************************)
EXTENDS WorkQueue, Functions

CONSTANTS
  NumEnvs,          \* VectorStepBenchmark.num_envs
  PartialReset,     \* VectorStepBenchmark.partial_reset
  UnhealthyAfter,   \* orchestrator.UNHEALTHY_AFTER
  RequeueUnhealthy, \* --requeue-unhealthy
  MaxRestarts,      \* VLA_EVAL_SHARD_RESTARTS
  Outcomes,         \* the ways an episode may end
  Recorders,        \* in a process _build_recorder may work, or raise for all
  MayDie            \* shards whose processes may be killed by a signal

\* How an episode can end: as in ShardRun; "aborted" when the run stops with it.
AllOutcomes == {"counted", "error", "unusable", "skip", "redo", "aborted"}

ASSUME VectorAssumption ==
  /\ NumEntries = 1
  /\ NumEnvs \in Nat \ {0}
  /\ PartialReset \in BOOLEAN
  /\ UnhealthyAfter \in Nat \ {0}
  /\ RequeueUnhealthy \in BOOLEAN
  /\ MaxRestarts \in Nat
  /\ Outcomes \in SUBSET AllOutcomes
  /\ Recorders \in SUBSET BOOLEAN
  /\ MayDie \subseteq Shards

VARIABLES
  pc,
  claimed,    \* the set `claimed`: queue items in flight
  held,       \* the next task's first item, waiting for the group to end
  redo,       \* skipped with retry: first in the next wave
  group,      \* the running episodes' task_idx
  unusable,   \* whether an EnvUnusableError was seen: no new episode starts
  fresh,      \* the episodes taken for free slots, not reset yet
  running,    \* the runner's _running
  exhausted,  \* next_episode returned None since the last episode ended
  ends,       \* outcome of each episode still to be booked
  cur,        \* the episode being booked
  outcome,
  after,      \* where the runner goes on when ends is empty
  recorder, seen, ok, errs, failed, exit, restarts     \* as in ShardRun

loopVars   == <<claimed, held, redo, group, unusable>>
runnerVars == <<fresh, running, exhausted, ends, after>>
bookVars   == <<cur, outcome>>
healthVars == <<ok, errs, failed>>
launchVars == <<recorder, exit, restarts>>
procVars   == <<pc, loopVars, runnerVars, bookVars, seen, healthVars, launchVars>>
vars       == <<storeVars, procVars>>

PCs == {"off", "begin", "seed", "read", "resume", "loop", "fill", "start",
        "exchange", "step", "end", "ended", "health", "stop"}

Exits == {"none", "ended", "unhealthy", "signal"}

Nowhere == [i \in {} |-> "none"]   \* no episode to book

TypeOK ==
  /\ StoreTypeOK
  /\ pc \in [Shards -> PCs]
  /\ claimed \in [Shards -> SUBSET Items]
  /\ held \in [Shards -> Items \cup {Null}]
  /\ redo \in [Shards -> SUBSET Items]
  /\ group \in [Shards -> Nat \cup {Null}]
  /\ unusable \in [Shards -> BOOLEAN]
  /\ fresh \in [Shards -> SUBSET Items]
  /\ running \in [Shards -> SUBSET Items]
  /\ \A s \in Shards : Cardinality(fresh[s] \cup running[s]) <= NumEnvs
  /\ exhausted \in [Shards -> BOOLEAN]
  /\ DOMAIN ends = Shards
  /\ \A s \in Shards : DOMAIN ends[s] \subseteq Items /\ Range(ends[s]) \subseteq AllOutcomes
  /\ cur \in [Shards -> Items \cup {Null}]
  /\ \A s \in Shards : pc[s] \in {"ended", "health"} => cur[s] \in Items
  /\ outcome \in [Shards -> AllOutcomes \cup {"none"}]
  /\ after \in [Shards -> {"loop", "step", "fill", "stop"}]
  /\ recorder \in [Shards -> BOOLEAN]
  /\ seen \in [Shards -> SUBSET Items]
  /\ ok \in [Shards -> BOOLEAN]
  /\ errs \in [Shards -> 0 .. UnhealthyAfter - 1]
  /\ failed \in [Shards -> SUBSET Items]
  /\ exit \in [Shards -> Exits]
  /\ restarts \in [Shards -> 0 .. MaxRestarts]

Init ==
  /\ StoreInit
  /\ pc = [s \in Shards |-> "off"]
  /\ claimed = [s \in Shards |-> {}]
  /\ held = [s \in Shards |-> Null]
  /\ redo = [s \in Shards |-> {}]
  /\ group = [s \in Shards |-> Null]
  /\ unusable = [s \in Shards |-> FALSE]
  /\ fresh = [s \in Shards |-> {}]
  /\ running = [s \in Shards |-> {}]
  /\ exhausted = [s \in Shards |-> FALSE]
  /\ ends = [s \in Shards |-> Nowhere]
  /\ cur = [s \in Shards |-> Null]
  /\ outcome = [s \in Shards |-> "none"]
  /\ after = [s \in Shards |-> "loop"]
  /\ recorder = [s \in Shards |-> TRUE]
  /\ seen = [s \in Shards |-> {}]
  /\ ok = [s \in Shards |-> FALSE]
  /\ errs = [s \in Shards |-> 0]
  /\ failed = [s \in Shards |-> {}]
  /\ exit = [s \in Shards |-> "none"]
  /\ restarts = [s \in Shards |-> 0]

Goto(s, label) == pc' = [pc EXCEPT ![s] = label]

\* The process ends: nothing it held in memory survives.
Exit(s, how) ==
  /\ Goto(s, "off")
  /\ exit' = [exit EXCEPT ![s] = how]
  /\ claimed' = [claimed EXCEPT ![s] = {}]
  /\ held' = [held EXCEPT ![s] = Null]
  /\ redo' = [redo EXCEPT ![s] = {}]
  /\ group' = [group EXCEPT ![s] = Null]
  /\ unusable' = [unusable EXCEPT ![s] = FALSE]
  /\ fresh' = [fresh EXCEPT ![s] = {}]
  /\ running' = [running EXCEPT ![s] = {}]
  /\ exhausted' = [exhausted EXCEPT ![s] = FALSE]
  /\ ends' = [ends EXCEPT ![s] = Nowhere]
  /\ cur' = [cur EXCEPT ![s] = Null]
  /\ outcome' = [outcome EXCEPT ![s] = "none"]
  /\ after' = [after EXCEPT ![s] = "loop"]
  /\ seen' = [seen EXCEPT ![s] = {}]
  /\ ok' = [ok EXCEPT ![s] = FALSE]
  /\ errs' = [errs EXCEPT ![s] = 0]
  /\ failed' = [failed EXCEPT ![s] = {}]
  /\ UNCHANGED <<recorder, restarts>>

WillRestart(s) == exit[s] \in {"unhealthy", "signal"} /\ restarts[s] < MaxRestarts

\* run_shard starts the shard, or restarts it.
Launch(s) ==
  /\ pc[s] = "off"
  /\ exit[s] = "none" \/ WillRestart(s)
  /\ restarts' = [restarts EXCEPT ![s] = IF exit[s] = "none" THEN @ ELSE @ + 1]
  /\ Goto(s, "begin")
  /\ \E b \in Recorders : recorder' = [recorder EXCEPT ![s] = b]
  /\ UNCHANGED <<storeVars, loopVars, runnerVars, bookVars, seen, healthVars, exit>>

Die(s) ==
  /\ s \in MayDie /\ pc[s] # "off"
  /\ Exit(s, "signal")
  /\ UNCHANGED storeVars

-----------------------------------------------------------------------------
(* _run_benchmark and _resume, as in ShardRun.                             *)

BeginEntry(s) ==
  /\ pc[s] = "begin"
  /\ SetShardComplete(s, 1, FALSE)
  /\ Goto(s, "seed")
  /\ UNCHANGED <<queueVars, resultVars, loopVars, runnerVars, bookVars, seen, healthVars, launchVars>>

Seed(s) ==
  /\ pc[s] = "seed"
  /\ SeedQueue(1)
  /\ Goto(s, "read")
  /\ UNCHANGED <<resultVars, complete, loopVars, runnerVars, bookVars, seen, healthVars, launchVars>>

ReadResults(s) ==
  /\ pc[s] = "read"
  /\ seen' = [seen EXCEPT ![s] = CompletedResults(1)]
  /\ Goto(s, "resume")
  /\ UNCHANGED <<storeVars, loopVars, runnerVars, bookVars, healthVars, launchVars>>

Resume(s) ==
  /\ pc[s] = "resume"
  /\ FinishClaimed(seen[s])
  /\ seen' = [seen EXCEPT ![s] = {}]
  /\ Goto(s, "loop")
  /\ UNCHANGED <<resultVars, complete, loopVars, runnerVars, bookVars, healthVars, launchVars>>

-----------------------------------------------------------------------------
(* The runner's loop: fill the free slots, reset, exchange, step.          *)

\* Free slots are filled between waves, or at once with partial_reset.
MayFill(s) == ~exhausted[s] /\ (running[s] = {} \/ PartialReset)

Loop(s) ==
  /\ pc[s] = "loop"
  /\ CASE MayFill(s)                     -> Goto(s, "fill")
       [] ~MayFill(s) /\ running[s] # {} -> Goto(s, "exchange")
       [] OTHER                          -> Goto(s, "stop")
  /\ UNCHANGED <<storeVars, loopVars, runnerVars, bookVars, seen, healthVars, launchVars>>

FreeSlot(s) == Cardinality(fresh[s] \cup running[s]) < NumEnvs

\* next_episode with item i in hand: it starts, unless it belongs to another
\* task than the running episodes; then it is held and the slots stay free.
Mixed(s, i) == fresh[s] \cup running[s] # {} /\ TaskOf[i] # group[s]

UseItem(s, i) ==
  IF Mixed(s, i)
    THEN /\ held' = [held EXCEPT ![s] = i]
         /\ exhausted' = [exhausted EXCEPT ![s] = TRUE]
         /\ Goto(s, "start")
         /\ UNCHANGED <<group, fresh, ends, after>>
    ELSE /\ group' = [group EXCEPT ![s] = TaskOf[i]]
         /\ held' = [held EXCEPT ![s] = IF i = held[s] THEN Null ELSE @]
         /\ UNCHANGED exhausted
         /\ IF recorder[s]
              THEN /\ fresh' = [fresh EXCEPT ![s] = @ \cup {i}]
                   /\ Goto(s, "fill")
                   /\ UNCHANGED <<ends, after>>
              ELSE \* _build_recorder raised: the episode ends at once
                   /\ ends' = [ends EXCEPT ![s] = [j \in {i} |-> "error"]]
                   /\ after' = [after EXCEPT ![s] = "fill"]
                   /\ Goto(s, "end")
                   /\ UNCHANGED fresh

\* take: an episode to be redone, else the held item.
TakeWaiting(s) ==
  /\ pc[s] = "fill" /\ FreeSlot(s) /\ ~unusable[s]
  /\ \/ \E i \in redo[s] :
          /\ redo' = [redo EXCEPT ![s] = @ \ {i}]
          /\ UseItem(s, i)
     \/ /\ redo[s] = {} /\ held[s] # Null
        /\ UseItem(s, held[s])
        /\ UNCHANGED redo
  /\ UNCHANGED <<storeVars, claimed, unusable, running, bookVars, seen, healthVars, launchVars>>

\* take: a claim from the queue, which never hands out an item in flight.
Claim(s) ==
  /\ pc[s] = "fill" /\ FreeSlot(s) /\ ~unusable[s]
  /\ redo[s] = {} /\ held[s] = Null
  /\ \E i \in NextItem(s, 1, group[s], claimed[s]) :
       /\ IF owner[i] = s THEN UNCHANGED queueVars ELSE TakeItem(s, i)
       /\ claimed' = [claimed EXCEPT ![s] = @ \cup {i}]
       /\ UseItem(s, i)
  /\ UNCHANGED <<resultVars, complete, redo, unusable, running, bookVars, seen, healthVars, launchVars>>

\* The slots are full, or next_episode returns None: unusable, or the queue has
\* nothing left for this shard.
FillEnds(s) ==
  /\ pc[s] = "fill"
  /\ \/ ~FreeSlot(s) /\ UNCHANGED exhausted
     \/ /\ FreeSlot(s)
        /\ \/ unusable[s]
           \/ redo[s] = {} /\ held[s] = Null /\ NothingLeft(s, 1, claimed[s])
        /\ exhausted' = [exhausted EXCEPT ![s] = TRUE]
  /\ Goto(s, "start")
  /\ UNCHANGED <<storeVars, loopVars, fresh, running, ends, after, bookVars, seen, healthVars, launchVars>>

\* The episodes in S end: all for the same reason, or each for its own.
EndAll(s, S, o, label) ==
  /\ ends' = [ends EXCEPT ![s] = [i \in S |-> o]]
  /\ after' = [after EXCEPT ![s] = label]
  /\ Goto(s, "end")

\* _start: reset succeeds, or ends the new episodes and all running ones.
Start(s) ==
  /\ pc[s] = "start"
  /\ \/ /\ running' = [running EXCEPT ![s] = @ \cup fresh[s]]
        /\ Goto(s, IF running'[s] = {} THEN "loop" ELSE "exchange")
        /\ UNCHANGED <<ends, after>>
     \/ /\ fresh[s] # {}
        /\ \E o \in Outcomes \ {"counted", "aborted"} :
             EndAll(s, fresh[s] \cup running[s], o, "loop")
        /\ running' = [running EXCEPT ![s] = {}]
  /\ fresh' = [fresh EXCEPT ![s] = {}]
  /\ UNCHANGED <<storeVars, loopVars, exhausted, bookVars, seen, healthVars, launchVars>>

\* _exchange: actions for all slots or all but those the server failed; a
\* malformed reply or a lost connection ends all; if the server is gone, or the
\* reconnect fails, they are aborted and so is the run.
Exchange(s) ==
  /\ pc[s] = "exchange"
  /\ \/ Goto(s, "step") /\ UNCHANGED <<running, ends, after>>
     \/ /\ "error" \in Outcomes
        /\ \E S \in SUBSET running[s] \ {{}} :
             /\ running' = [running EXCEPT ![s] = @ \ S]
             /\ EndAll(s, S, "error", IF S = running[s] THEN "loop" ELSE "step")
     \/ /\ "aborted" \in Outcomes
        /\ running' = [running EXCEPT ![s] = {}]
        /\ EndAll(s, running[s], "aborted", "stop")
  /\ UNCHANGED <<storeVars, loopVars, fresh, exhausted, bookVars, seen, healthVars, launchVars>>

\* _step: some episodes end, each with its result or its error; or step raises
\* and all of them end.
StepEnvs(s) ==
  /\ pc[s] = "step"
  /\ \/ \E S \in SUBSET running[s] :
          /\ running' = [running EXCEPT ![s] = @ \ S]
          /\ \E f \in [S -> Outcomes \ {"aborted"}] : ends' = [ends EXCEPT ![s] = f]
     \/ \E o \in Outcomes \ {"counted", "aborted"} :
          /\ running' = [running EXCEPT ![s] = {}]
          /\ ends' = [ends EXCEPT ![s] = [i \in running[s] |-> o]]
  /\ after' = [after EXCEPT ![s] = "loop"]
  /\ Goto(s, "end")
  /\ UNCHANGED <<storeVars, loopVars, fresh, exhausted, bookVars, seen, healthVars, launchVars>>

-----------------------------------------------------------------------------
(* end(): booking an episode.                                              *)

RowStatus(o) ==
  CASE o = "counted"          -> "counted"
    [] o \in {"skip", "redo"} -> "skipped"
    [] OTHER                  -> "error"

\* Mutant: asking for episodes is not resumed when one ends.
EndEpisodeStillExhausted(s) ==
  /\ pc[s] = "end"
  /\ \E i \in DOMAIN ends[s] :
       LET o == ends[s][i] IN
       /\ IF recorder[s] THEN RecordEpisode(i, RowStatus(o)) ELSE UNCHANGED resultVars
       /\ cur' = [cur EXCEPT ![s] = i]
       /\ outcome' = [outcome EXCEPT ![s] = o]
       /\ ends' = [ends EXCEPT ![s] = Restrict(ends[s], DOMAIN ends[s] \ {i})]
       /\ unusable' = [unusable EXCEPT ![s] = @ \/ o = "unusable"]
       /\ UNCHANGED exhausted
  /\ Goto(s, "ended")
  /\ UNCHANGED <<queueVars, complete, claimed, held, redo, group, fresh, running, after, seen,
                 healthVars, launchVars>>

\* The runner's ended() and the orchestrator's end(), up to the recorder's commit.
EndEpisode(s) ==
  /\ pc[s] = "end"
  /\ \E i \in DOMAIN ends[s] :
       LET o == ends[s][i] IN
       /\ IF recorder[s] THEN RecordEpisode(i, RowStatus(o)) ELSE UNCHANGED resultVars
       /\ cur' = [cur EXCEPT ![s] = i]
       /\ outcome' = [outcome EXCEPT ![s] = o]
       /\ ends' = [ends EXCEPT ![s] = Restrict(ends[s], DOMAIN ends[s] \ {i})]
       /\ unusable' = [unusable EXCEPT ![s] = @ \/ o = "unusable"]
       /\ exhausted' = [exhausted EXCEPT ![s] = FALSE]
  /\ Goto(s, "ended")
  /\ UNCHANGED <<queueVars, complete, claimed, held, redo, group, fresh, running, after, seen,
                 healthVars, launchVars>>

\* Mutant: the item of an episode to be redone stays claimed, but is never redone.
DoneForgettingRedo(s) ==
  /\ pc[s] = "ended"
  /\ IF outcome[s] \in {"redo", "aborted", "unusable"}
       THEN UNCHANGED <<queueVars, claimed, redo>>
       ELSE /\ FinishItem(cur[s])
            /\ claimed' = [claimed EXCEPT ![s] = @ \ {cur[s]}]
            /\ UNCHANGED redo
  /\ ok' = [ok EXCEPT ![s] = @ \/ outcome[s] = "counted"]
  /\ Goto(s, "health")
  /\ UNCHANGED <<resultVars, complete, held, group, unusable, runnerVars, bookVars, seen, errs, failed,
                 launchVars>>

\* Mutant: an episode to be redone is finished in the queue, too.
DoneFinishingRedo(s) ==
  /\ pc[s] = "ended"
  /\ redo' = [redo EXCEPT ![s] = IF outcome[s] = "redo" THEN @ \cup {cur[s]} ELSE @]
  /\ IF outcome[s] \in {"aborted", "unusable"}
       THEN UNCHANGED <<queueVars, claimed>>
       ELSE /\ FinishItem(cur[s])
            /\ claimed' = [claimed EXCEPT ![s] = @ \ {cur[s]}]
  /\ ok' = [ok EXCEPT ![s] = @ \/ outcome[s] = "counted"]
  /\ Goto(s, "health")
  /\ UNCHANGED <<resultVars, complete, held, group, unusable, runnerVars, bookVars, seen, errs, failed,
                 launchVars>>

\* done(), then _episode_ended's count of successes.
Done(s) ==
  /\ pc[s] = "ended"
  /\ CASE outcome[s] = "redo" ->
            /\ redo' = [redo EXCEPT ![s] = @ \cup {cur[s]}]
            /\ UNCHANGED <<queueVars, claimed>>
       [] outcome[s] \in {"aborted", "unusable"} ->
            UNCHANGED <<queueVars, claimed, redo>>
       [] OTHER ->
            /\ FinishItem(cur[s])
            /\ claimed' = [claimed EXCEPT ![s] = @ \ {cur[s]}]
            /\ UNCHANGED redo
  /\ ok' = [ok EXCEPT ![s] = @ \/ outcome[s] = "counted"]
  /\ Goto(s, "health")
  /\ UNCHANGED <<resultVars, complete, held, group, unusable, runnerVars, bookVars, seen, errs, failed,
                 launchVars>>

\* _check_health counts the episode: none of the shard's episodes has counted,
\* this one errored, and the run is not about to stop anyway.
CountsAgainst(s) == ~ok[s] /\ outcome[s] = "error" /\ ~unusable[s]

\* The next episode to book, or back to the runner.
NextEnd(s) == IF DOMAIN ends[s] # {} THEN "end" ELSE after[s]

\* Mutant: one error too many before the shard is unhealthy.
StayHealthyOnceMore(s) ==
  /\ pc[s] = "health"
  /\ IF CountsAgainst(s)
       THEN /\ errs[s] + 1 <= UnhealthyAfter
            /\ errs' = [errs EXCEPT ![s] = @ + 1]
            /\ failed' = [failed EXCEPT ![s] = @ \cup {cur[s]}]
       ELSE UNCHANGED <<errs, failed>>
  /\ cur' = [cur EXCEPT ![s] = Null]
  /\ outcome' = [outcome EXCEPT ![s] = "none"]
  /\ Goto(s, NextEnd(s))
  /\ UNCHANGED <<storeVars, loopVars, runnerVars, seen, ok, launchVars>>

StayHealthy(s) ==
  /\ pc[s] = "health"
  /\ IF CountsAgainst(s)
       THEN /\ errs[s] + 1 < UnhealthyAfter
            /\ errs' = [errs EXCEPT ![s] = @ + 1]
            /\ failed' = [failed EXCEPT ![s] = @ \cup {cur[s]}]
       ELSE UNCHANGED <<errs, failed>>
  /\ cur' = [cur EXCEPT ![s] = Null]
  /\ outcome' = [outcome EXCEPT ![s] = "none"]
  /\ Goto(s, NextEnd(s))
  /\ UNCHANGED <<storeVars, loopVars, runnerVars, seen, ok, launchVars>>

\* A step that ended no episode.
NoneEnded(s) ==
  /\ pc[s] = "end" /\ DOMAIN ends[s] = {}
  /\ Goto(s, after[s])
  /\ UNCHANGED <<storeVars, loopVars, runnerVars, bookVars, seen, healthVars, launchVars>>

\* _check_health raises: the failed items and those in flight go back.
StopUnhealthy(s) ==
  /\ pc[s] = "health" /\ CountsAgainst(s)
  /\ errs[s] + 1 >= UnhealthyAfter
  /\ IF RequeueUnhealthy THEN Release(failed[s] \cup {cur[s]} \cup claimed[s]) ELSE UNCHANGED queueVars
  /\ Exit(s, "unhealthy")
  /\ UNCHANGED <<resultVars, complete>>

-----------------------------------------------------------------------------
(* After runner.run.                                                       *)

\* _stop_if_unusable: every item in flight goes back.
StopUnusable(s) ==
  /\ pc[s] = "stop" /\ unusable[s]
  /\ Release(claimed[s])
  /\ Exit(s, "unhealthy")
  /\ UNCHANGED <<resultVars, complete>>

\* Mutant: the shard is marked complete after a ConnectionError, too.
FinalizeAsComplete(s) ==
  /\ pc[s] = "stop" /\ ~unusable[s]
  /\ SetShardComplete(s, 1, TRUE)
  /\ Exit(s, "ended")
  /\ UNCHANGED <<queueVars, resultVars>>

\* _finalize_benchmark, partial after a ConnectionError.
Finalize(s) ==
  /\ pc[s] = "stop" /\ ~unusable[s]
  /\ SetShardComplete(s, 1, after[s] # "stop")
  /\ Exit(s, "ended")
  /\ UNCHANGED <<queueVars, resultVars>>

Step(s) ==
  \/ BeginEntry(s) \/ Seed(s) \/ ReadResults(s) \/ Resume(s)
  \/ Loop(s) \/ TakeWaiting(s) \/ Claim(s) \/ FillEnds(s)
  \/ Start(s) \/ Exchange(s) \/ StepEnvs(s)
  \/ EndEpisode(s) \/ Done(s) \/ StayHealthy(s) \/ NoneEnded(s) \/ StopUnhealthy(s)
  \/ StopUnusable(s) \/ Finalize(s)

Next == \E s \in Shards : Launch(s) \/ Die(s) \/ Step(s)

Spec == Init /\ [][Next]_vars

\* max_steps is never None in the code, so episodes that keep stepping end; and
\* the operator does not have them redone forever, at a reset or later.
NotRedone(s) == \A i \in DOMAIN ends'[s] : ends'[s][i] # "redo"
ResetsWork   == \E s \in Shards : Start(s) /\ NotRedone(s)
EpisodesEnd  == \E s \in Shards : StepEnvs(s) /\ DOMAIN ends'[s] # {} /\ NotRedone(s)

\* The live processes keep going, and run_shard relaunches those it waits for.
Fairness ==
  /\ WF_vars(\E s \in Shards : Step(s) \/ Launch(s))
  /\ SF_vars(ResetsWork) /\ SF_vars(EpisodesEnd)

FairSpec == Spec /\ Fairness

-----------------------------------------------------------------------------
(* Properties.                                                             *)

Active(s)  == fresh[s] \cup running[s]
Booking(s) == DOMAIN ends[s] \cup (IF pc[s] = "ended" THEN {cur[s]} ELSE {})
Waiting(s) == redo[s] \cup ({held[s]} \ {Null})

\* No item's episode is in slots of two shards at once, or ended in one and
\* still to be booked there while another runs it.
OneRunnerPerItem ==
  \A s, t \in Shards : s # t =>
    (Active(s) \cup Booking(s)) \cap (Active(t) \cup Booking(t)) = {}

\* Until the run is about to stop, every claimed item is in exactly one place:
\* in a slot, with the task all slots run, ended and to be booked, to be redone, or
\* held for the next task;
\* and the queue has each as this shard's, unfinished (a counted one may have been
\* finished by another shard's _resume just before this shard does).
ClaimedIsAccountedFor ==
  \A s \in Shards :
    /\ Active(s) \cap Booking(s) = {}
    /\ (Active(s) \cup Booking(s)) \cap Waiting(s) = {}
    /\ held[s] \notin redo[s] /\ \A i \in Active(s) : TaskOf[i] = group[s]
    /\ IF unusable[s] \/ after[s] = "stop"
         THEN Active(s) \cup Booking(s) \cup Waiting(s) \subseteq claimed[s]
         ELSE Active(s) \cup Booking(s) \cup Waiting(s) = claimed[s]
    /\ \A i \in claimed[s] : owner[i] = s /\ (done[i] => i \in Booking(s) /\ counted[i])

\* A shard leaves at most num_envs items unfinished, however often it dies and
\* restarts: the held item takes the place of a slot, and its own items go first.
OpenItemsFitTheSlots ==
  \A s \in Shards : Cardinality({i \in Items : owner[i] = s /\ ~done[i]}) <= NumEnvs

\* A shard marked complete has no unfinished item, held and retried ones included.
CompleteShardOwesNothing ==
  \A s \in Shards, e \in Entries :
    <<s, e>> \in complete => \A i \in ItemsOf(e) : owner[i] = s => done[i]

\* The evaluation gets through: in the end every item is done, or some shard was
\* given up before it completed.
DrainsUnlessGivenUp ==
  <>[](\/ \A i \in Items : done[i]
       \/ \E s \in Shards :
            pc[s] = "off" /\ exit[s] # "none" /\ ~WillRestart(s) /\ <<s, 1>> \notin complete)

\* After an EnvUnusableError "the orchestrator puts the shard's unfinished queue
\* items back": the queue has no unfinished item of the shard any more.
UnusableReturnsAll ==
  [][\A s \in Shards :
       pc[s] = "stop" /\ unusable[s] /\ pc'[s] = "off" /\ exit'[s] = "unhealthy"
         => ~ \E i \in Items : owner'[i] = s /\ ~done'[i]]_vars

-----------------------------------------------------------------------------
(* The inductive invariant behind these properties.                        *)

\* Ended episodes are booked one by one before the runner goes on, and episodes
\* that were taken for free slots are reset before anything else happens to them.
BookingOrder(s) ==
  /\ pc[s] \notin {"end", "ended", "health"} => DOMAIN ends[s] = {}
  /\ pc[s] = "ended" => cur[s] \notin DOMAIN ends[s]
  /\ fresh[s] # {} => \/ pc[s] \in {"fill", "start"}
                      \/ pc[s] \in {"end", "ended", "health"} /\ after[s] = "fill"

\* Aborted episodes stop the run; an unusable environment is remembered.
StopsAreKnown(s) ==
  /\ after[s] = "stop" => pc[s] \in {"end", "ended", "health", "stop"}
  /\ \A i \in DOMAIN ends[s] : ends[s][i] = "aborted" => after[s] = "stop"
  /\ pc[s] = "ended" /\ outcome[s] = "aborted" => after[s] = "stop"
  /\ pc[s] = "ended" /\ outcome[s] = "unusable" => unusable[s]

\* New episodes are asked for again after each end.
AsksAfterEnds(s) ==
  /\ pc[s] \in {"fill", "ended", "health"} => ~exhausted[s]
  /\ pc[s] = "end" /\ after[s] = "fill" => ~exhausted[s]

ControlInv == \A s \in Shards : BookingOrder(s) /\ StopsAreKnown(s) /\ AsksAfterEnds(s)

\* The shard runs one task at a time: only the held item may be of another.
OneTaskAtATime(s) ==
  \A i \in Active(s) \cup Booking(s) \cup redo[s] : TaskOf[i] = group[s]

\* Each claimed item has its place.
ClaimedHavePlaces(s) ==
  /\ Active(s) \cap Booking(s) = {}
  /\ (Active(s) \cup Booking(s)) \cap Waiting(s) = {}
  /\ held[s] \notin redo[s]
  /\ Active(s) \cup Booking(s) \cup Waiting(s) \subseteq claimed[s]
  /\ unusable[s] \/ after[s] = "stop"
       \/ claimed[s] \subseteq Active(s) \cup Booking(s) \cup Waiting(s)

PlacesInv == \A s \in Shards : OneTaskAtATime(s) /\ ClaimedHavePlaces(s)

\* What a shard claimed is its own, and unfinished but for the episode that counted
\* and is about to be finished.
ClaimedAreOwn ==
  \A s \in Shards : \A i \in claimed[s] :
    /\ owner[i] = s
    /\ done[i] => counted[i]
    /\ counted[i] => pc[s] = "ended" /\ cur[s] = i /\ outcome[s] = "counted"

\* What the outcome of the episode being booked says about its item.
OutcomeFits ==
  \A s \in Shards : pc[s] \in {"ended", "health"} =>
    /\ owner[cur[s]] = s
    /\ outcome[s] # "counted" => ~counted[cur[s]]
    /\ pc[s] = "health" /\ outcome[s] = "error" => done[cur[s]]

\* A counted episode's item stays claimed.
CountedStays == \A i \in Items : counted[i] => owner[i] # Null

\* An item whose episode counted but that is not done yet is finished before its
\* owner claims again: the owner is about to, or has died and will resume first.
FinishPending(i) ==
  LET s == owner[i] IN
    \/ pc[s] \in {"off", "begin", "seed", "read"}
    \/ pc[s] = "resume" /\ i \in seen[s]
    \/ pc[s] = "ended" /\ cur[s] = i /\ outcome[s] = "counted"

CountedIsFinished == \A i \in Items : counted[i] /\ ~done[i] => FinishPending(i)

\* What _resume read stays true: counted results are never taken back.
SeenAreCounted == \A s \in Shards : \A i \in seen[s] : counted[i]

\* The failed items an unhealthy shard would put back are its own.
FailedAreOwn ==
  \A s \in Shards : \A i \in failed[s] : owner[i] = s /\ done[i] /\ ~counted[i]

OwnershipInv ==
  /\ ClaimedAreOwn
  /\ OutcomeFits
  /\ CountedStays
  /\ CountedIsFinished
  /\ SeenAreCounted
  /\ FailedAreOwn

\* When next_episode has nothing more, the running episodes still have to end, or
\* all that the shard left open is among the items it claimed.
ExhaustedHasAll ==
  \A s \in Shards : exhausted[s] /\ ~unusable[s] =>
    \/ Active(s) \cup DOMAIN ends[s] # {}
    \/ redo[s] = {} /\ held[s] = Null /\ Mine(s, 1, claimed[s]) = {}

\* A run that ended by itself owes nothing.
StopOwesNothing ==
  \A s \in Shards : pc[s] = "stop" /\ ~unusable[s] /\ after[s] # "stop" => Mine(s, 1, {}) = {}

\* A shard at work on the entry is not marked complete.
OpenIsIncomplete ==
  \A s \in Shards : pc[s] \notin {"off", "begin"} => <<s, 1>> \notin complete

ProgressInv ==
  /\ ExhaustedHasAll
  /\ StopOwesNothing
  /\ OpenIsIncomplete
  /\ CompleteShardOwesNothing

-----------------------------------------------------------------------------
(* The vector loop implements the same ledger as the one-at-a-time loop.   *)

ItemState ==
  [i \in Items |->
     IF counted[i] THEN "counted"
     ELSE IF done[i] THEN "closed"
     ELSE IF owner[i] = Null THEN "waiting" ELSE "held"]

Ledger == INSTANCE EpisodeLedger WITH state <- ItemState, holder <- owner

\* Every step of the shards is a step of EpisodeLedger or changes none of it.
ImplementsLedger == Ledger!Spec
=============================================================================
