------------------------------- MODULE ShardRun -------------------------------
(***************************************************************************)
(* The shards of an evaluation: NumShards processes of `vla-eval run       *)
(* --shard-id s --num-shards N`, each the orchestrator's one-episode-at-a- *)
(* time loop (src/vla_eval/orchestrator.py) over the shared work queue,    *)
(* started and restarted by scripts/run_sharded.sh.                        *)
(*                                                                         *)
(* pc[s] is where shard s's process stands between two transactions:       *)
(*   off      no process                                                   *)
(*   begin    about to start the entry entry[s] (_run_benchmark)           *)
(*   seed, read, resume   the three steps of _resume                       *)
(*   claim    about to claim the next item                                 *)
(*   run      running an episode of cur[s]                                 *)
(*   ended    the episode's row is committed                               *)
(*   health   the item is finished in the queue; _check_health is next     *)
(*   drained, aborted   about to finalize the entry, complete or partial   *)
(* A process may die at each of them: killed by a signal, or out of an     *)
(* exception (a RecordingError, a locked database, the watchdog).          *)
(***************************************************************************)
EXTENDS WorkQueue

CONSTANTS
  UnhealthyAfter,      \* orchestrator.UNHEALTHY_AFTER
  RequeueUnhealthy,    \* --requeue-unhealthy
  MaxRestarts,         \* VLA_EVAL_SHARD_RESTARTS
  MaxReruns,           \* bound: reruns of a shard by hand, with the same eval id
  Outcomes,            \* the ways an episode may end
  Recorders,           \* in a process _build_recorder may work (TRUE), or
                       \* raise for every episode (FALSE: bad recording: config)
  MayDie               \* the ways a process may die: "signal", "failed"

\* How an episode can end: with a result; with an exception of the benchmark or
\* the model; with a closed connection or a timeout; with the server gone for
\* good; with EnvUnusableError; with EpisodeSkipped, retry false or true.
AllOutcomes == {"counted", "error", "lost", "unreachable", "unusable", "skip", "redo"}

ASSUME RunAssumption ==
  /\ UnhealthyAfter \in Nat \ {0}
  /\ RequeueUnhealthy \in BOOLEAN
  /\ MaxRestarts \in Nat
  /\ MaxReruns \in Nat
  /\ Outcomes \in SUBSET AllOutcomes
  /\ Recorders \in SUBSET BOOLEAN
  /\ MayDie \in SUBSET {"signal", "failed"}

VARIABLES
  pc, entry, cur, outcome,
  recorder,  \* whether this process can build its recorders
  task,      \* task_idx of the last item (None at the start of an entry)
  seen,      \* _resume's counted set, read before finish_claimed
  ok,        \* _episodes_ok > 0
  errs,      \* _errors_from_start
  failed,    \* _failed_items
  exit,      \* how the shard's last process ended, "none" before the first one
  restarts,  \* relaunches by run_shard
  reruns     \* relaunches by hand, all shards together

loopVars   == <<cur, outcome, task, seen>>
healthVars == <<ok, errs, failed>>
launchVars == <<recorder, exit, restarts, reruns>>
procVars   == <<pc, entry, loopVars, healthVars, launchVars>>
vars       == <<storeVars, procVars>>

PCs == {"off", "begin", "seed", "read", "resume", "claim", "run", "ended",
        "health", "drained", "aborted"}

Exits == {"none", "ended", "unhealthy", "signal", "failed"}

TypeOK ==
  /\ StoreTypeOK
  /\ pc \in [Shards -> PCs]
  /\ entry \in [Shards -> Entries]
  /\ cur \in [Shards -> Items \cup {Null}]
  /\ \A s \in Shards : pc[s] \in {"run", "ended", "health"} => cur[s] \in Items
  /\ outcome \in [Shards -> AllOutcomes \cup {"none", "unrecorded"}]
  /\ recorder \in [Shards -> BOOLEAN]
  /\ task \in [Shards -> Nat \cup {Null}]
  /\ seen \in [Shards -> SUBSET Items]
  /\ ok \in [Shards -> BOOLEAN]
  /\ errs \in [Shards -> 0 .. UnhealthyAfter - 1]
  /\ failed \in [Shards -> SUBSET Items]
  /\ exit \in [Shards -> Exits]
  /\ restarts \in [Shards -> 0 .. MaxRestarts]
  /\ reruns \in 0 .. MaxReruns

Init ==
  /\ StoreInit
  /\ pc = [s \in Shards |-> "off"]
  /\ entry = [s \in Shards |-> 1]
  /\ cur = [s \in Shards |-> Null]
  /\ outcome = [s \in Shards |-> "none"]
  /\ recorder = [s \in Shards |-> TRUE]
  /\ task = [s \in Shards |-> Null]
  /\ seen = [s \in Shards |-> {}]
  /\ ok = [s \in Shards |-> FALSE]
  /\ errs = [s \in Shards |-> 0]
  /\ failed = [s \in Shards |-> {}]
  /\ exit = [s \in Shards |-> "none"]
  /\ restarts = [s \in Shards |-> 0]
  /\ reruns = 0

Goto(s, label) == pc' = [pc EXCEPT ![s] = label]

\* The process ends: nothing it held in memory survives.
Exit(s, how) ==
  /\ Goto(s, "off")
  /\ exit' = [exit EXCEPT ![s] = how]
  /\ entry' = [entry EXCEPT ![s] = 1]
  /\ cur' = [cur EXCEPT ![s] = Null]
  /\ outcome' = [outcome EXCEPT ![s] = "none"]
  /\ task' = [task EXCEPT ![s] = Null]
  /\ seen' = [seen EXCEPT ![s] = {}]
  /\ ok' = [ok EXCEPT ![s] = FALSE]
  /\ errs' = [errs EXCEPT ![s] = 0]
  /\ failed' = [failed EXCEPT ![s] = {}]
  /\ UNCHANGED <<recorder, restarts, reruns>>

-----------------------------------------------------------------------------
(* Processes: run_shard's loop, reruns by hand, deaths.                    *)

\* run_shard relaunches after exit code 3 or a signal, not after any other.
WillRestart(s) == exit[s] \in {"unhealthy", "signal"} /\ restarts[s] < MaxRestarts

StartProcess(s) ==
  /\ Goto(s, "begin")
  /\ \E b \in Recorders : recorder' = [recorder EXCEPT ![s] = b]
  /\ UNCHANGED <<storeVars, entry, loopVars, healthVars, exit>>

Launch(s) ==
  /\ pc[s] = "off"
  /\ exit[s] = "none" \/ WillRestart(s)
  /\ restarts' = [restarts EXCEPT ![s] = IF exit[s] = "none" THEN @ ELSE @ + 1]
  /\ StartProcess(s)
  /\ UNCHANGED reruns

\* "Re-run a shard with the same eval ID to resume its unfinished items."
Rerun(s) ==
  /\ pc[s] = "off" /\ exit[s] # "none" /\ ~WillRestart(s)
  /\ reruns < MaxReruns
  /\ reruns' = reruns + 1
  /\ StartProcess(s)
  /\ UNCHANGED restarts

Die(s) ==
  /\ pc[s] # "off"
  /\ \E how \in MayDie : Exit(s, how)
  /\ UNCHANGED storeVars

-----------------------------------------------------------------------------
(* An entry: _run_benchmark up to the first claim.                         *)

\* Mutant: a rerun keeps the complete flag of the run before it.
BeginEntryStillComplete(s) ==
  /\ pc[s] = "begin"
  /\ Goto(s, "seed")
  /\ UNCHANGED <<storeVars, entry, loopVars, healthVars, launchVars>>

BeginEntry(s) ==
  /\ pc[s] = "begin"
  /\ SetShardComplete(s, entry[s], FALSE)
  /\ Goto(s, "seed")
  /\ UNCHANGED <<queueVars, resultVars, entry, loopVars, healthVars, launchVars>>

Seed(s) ==
  /\ pc[s] = "seed"
  /\ SeedQueue(entry[s])
  /\ Goto(s, "read")
  /\ UNCHANGED <<resultVars, complete, entry, loopVars, healthVars, launchVars>>

\* completed_results is a read of its own, outside finish_claimed's transaction.
ReadResults(s) ==
  /\ pc[s] = "read"
  /\ seen' = [seen EXCEPT ![s] = CompletedResults(entry[s])]
  /\ Goto(s, "resume")
  /\ UNCHANGED <<storeVars, entry, cur, outcome, task, healthVars, launchVars>>

\* Mutant: the counted items of the run before are not finished.
ResumeWithoutFinish(s) ==
  /\ pc[s] = "resume"
  /\ seen' = [seen EXCEPT ![s] = {}]
  /\ task' = [task EXCEPT ![s] = Null]
  /\ Goto(s, "claim")
  /\ UNCHANGED <<storeVars, entry, cur, outcome, healthVars, launchVars>>

Resume(s) ==
  /\ pc[s] = "resume"
  /\ FinishClaimed(seen[s])
  /\ seen' = [seen EXCEPT ![s] = {}]
  /\ task' = [task EXCEPT ![s] = Null]
  /\ Goto(s, "claim")
  /\ UNCHANGED <<resultVars, complete, entry, cur, outcome, healthVars, launchVars>>

-----------------------------------------------------------------------------
(* The loop: claim, run and record, finish, check.                         *)

Claim(s) ==
  /\ pc[s] = "claim"
  /\ \E i \in NextItem(s, entry[s], task[s], {}) :
       /\ IF owner[i] = s THEN UNCHANGED queueVars ELSE TakeItem(s, i)
       /\ cur' = [cur EXCEPT ![s] = i]
  /\ outcome' = [outcome EXCEPT ![s] = "none"]
  /\ Goto(s, "run")
  /\ UNCHANGED <<resultVars, complete, entry, task, seen, healthVars, launchVars>>

Drain(s) ==
  /\ pc[s] = "claim"
  /\ NothingLeft(s, entry[s], {})
  /\ cur' = [cur EXCEPT ![s] = Null]
  /\ outcome' = [outcome EXCEPT ![s] = "none"]
  /\ Goto(s, "drained")
  /\ UNCHANGED <<storeVars, entry, task, seen, healthVars, launchVars>>

RowStatus(o) ==
  CASE o = "counted"         -> "counted"
    [] o \in {"skip", "redo"} -> "skipped"
    [] OTHER                 -> "error"

\* The episode runs and its row is committed (_episode_ended, _close_recorder).
RunEpisode(s) ==
  /\ pc[s] = "run" /\ recorder[s]
  /\ \E o \in Outcomes :
       /\ RecordEpisode(cur[s], RowStatus(o))
       /\ outcome' = [outcome EXCEPT ![s] = o]
       /\ ok' = [ok EXCEPT ![s] = @ \/ o = "counted"]
  /\ Goto(s, "ended")
  /\ UNCHANGED <<queueVars, complete, entry, cur, task, seen, errs, failed, launchVars>>

\* _build_recorder raised: the episode is an error, and the NullEpisodeRecorder
\* that stands in for its recorder writes no row.
FailWithoutRecorder(s) ==
  /\ pc[s] = "run" /\ ~recorder[s]
  /\ outcome' = [outcome EXCEPT ![s] = "unrecorded"]
  /\ Goto(s, "ended")
  /\ UNCHANGED <<storeVars, entry, cur, task, seen, healthVars, launchVars>>

\* _stop_if_unusable: the item goes back and the process exits with code 3.
StopUnusable(s) ==
  /\ pc[s] = "ended" /\ outcome[s] = "unusable"
  /\ Release({cur[s]})
  /\ Exit(s, "unhealthy")
  /\ UNCHANGED <<resultVars, complete>>

\* The server is unreachable, or the reconnect failed: a partial result, and
\* the item stays claimed.
AbortEntry(s) ==
  /\ pc[s] = "ended" /\ outcome[s] \in {"unreachable", "lost"}
  /\ Goto(s, "aborted")
  /\ UNCHANGED <<storeVars, entry, loopVars, healthVars, launchVars>>

\* Mutant: an errored item is handed out again instead of being finished.
FinishUnlessErrored(s) ==
  /\ pc[s] = "ended" /\ outcome[s] \notin {"unusable", "unreachable"}
  /\ IF outcome[s] \in {"redo", "error", "lost"} THEN UNCHANGED queueVars ELSE FinishItem(cur[s])
  /\ Goto(s, "health")
  /\ UNCHANGED <<resultVars, complete, entry, loopVars, healthVars, launchVars>>

\* The loop asks for the next item: the last one is finished in the queue,
\* unless its episode is to be redone.
FinishEpisode(s) ==
  /\ pc[s] = "ended" /\ outcome[s] \notin {"unusable", "unreachable"}
  /\ IF outcome[s] = "redo" THEN UNCHANGED queueVars ELSE FinishItem(cur[s])
  /\ Goto(s, "health")
  /\ UNCHANGED <<resultVars, complete, entry, loopVars, healthVars, launchVars>>

\* _check_health returns without raising.
Errored(s) == outcome[s] \notin {"counted", "skip", "redo"}

\* Mutant: one error too many before the shard is unhealthy.
StayHealthyOnceMore(s) ==
  /\ pc[s] = "health"
  /\ task' = [task EXCEPT ![s] = TaskOf[cur[s]]]
  /\ IF ok[s] \/ ~Errored(s)
       THEN UNCHANGED <<errs, failed>>
       ELSE /\ errs[s] + 1 <= UnhealthyAfter
            /\ errs' = [errs EXCEPT ![s] = @ + 1]
            /\ failed' = [failed EXCEPT ![s] = @ \cup {cur[s]}]
  /\ Goto(s, "claim")
  /\ UNCHANGED <<storeVars, entry, cur, outcome, seen, ok, launchVars>>

StayHealthy(s) ==
  /\ pc[s] = "health"
  /\ task' = [task EXCEPT ![s] = TaskOf[cur[s]]]
  /\ IF ok[s] \/ ~Errored(s)
       THEN UNCHANGED <<errs, failed>>
       ELSE /\ errs[s] + 1 < UnhealthyAfter
            /\ errs' = [errs EXCEPT ![s] = @ + 1]
            /\ failed' = [failed EXCEPT ![s] = @ \cup {cur[s]}]
  /\ Goto(s, "claim")
  /\ UNCHANGED <<storeVars, entry, cur, outcome, seen, ok, launchVars>>

\* Mutant: everything the shard ever claimed goes back, not only what failed.
StopUnhealthyReleasingAll(s) ==
  /\ pc[s] = "health" /\ ~ok[s] /\ Errored(s)
  /\ errs[s] + 1 >= UnhealthyAfter
  /\ IF RequeueUnhealthy THEN Release({i \in Items : owner[i] = s}) ELSE UNCHANGED queueVars
  /\ Exit(s, "unhealthy")
  /\ UNCHANGED <<resultVars, complete>>

\* _check_health raises UnhealthyShardError: exit code 3.
StopUnhealthy(s) ==
  /\ pc[s] = "health" /\ ~ok[s] /\ Errored(s)
  /\ errs[s] + 1 >= UnhealthyAfter
  /\ IF RequeueUnhealthy THEN Release(failed[s] \cup {cur[s]}) ELSE UNCHANGED queueVars
  /\ Exit(s, "unhealthy")
  /\ UNCHANGED <<resultVars, complete>>

\* Mutant: a partial entry is marked complete too.
FinalizeAsComplete(s) ==
  /\ pc[s] \in {"drained", "aborted"}
  /\ SetShardComplete(s, entry[s], TRUE)
  /\ entry[s] = NumEntries
  /\ Exit(s, "ended")
  /\ UNCHANGED <<queueVars, resultVars>>

\* _finalize_benchmark, then run()'s loop over the entries.
Finalize(s) ==
  /\ pc[s] \in {"drained", "aborted"}
  /\ SetShardComplete(s, entry[s], pc[s] = "drained")
  /\ IF entry[s] < NumEntries
       THEN /\ entry' = [entry EXCEPT ![s] = @ + 1]
            /\ cur' = [cur EXCEPT ![s] = Null]
            /\ outcome' = [outcome EXCEPT ![s] = "none"]
            /\ Goto(s, "begin")
            /\ UNCHANGED <<task, seen, healthVars, launchVars>>
       ELSE Exit(s, "ended")
  /\ UNCHANGED <<queueVars, resultVars>>

Step(s) ==
  \/ BeginEntry(s) \/ Seed(s) \/ ReadResults(s) \/ Resume(s)
  \/ Claim(s) \/ Drain(s)
  \/ RunEpisode(s) \/ FailWithoutRecorder(s)
  \/ StopUnusable(s) \/ AbortEntry(s) \/ FinishEpisode(s)
  \/ StayHealthy(s) \/ StopUnhealthy(s)
  \/ Finalize(s)

Next == \E s \in Shards : Launch(s) \/ Rerun(s) \/ Die(s) \/ Step(s)

Spec == Init /\ [][Next]_vars

\* The live processes keep going, run_shard relaunches those it waits for, and
\* the operator does not have an item's episode redone forever.
NotRedone == \E s \in Shards : RunEpisode(s) /\ outcome'[s] # "redo"

Fairness ==
  /\ WF_vars(\E s \in Shards : Step(s) \/ Launch(s))
  /\ SF_vars(NotRedone)

FairSpec == Spec /\ Fairness

-----------------------------------------------------------------------------
(* Properties.                                                             *)

Busy(s) == pc[s] \in {"run", "ended"}

\* No work item is ever run by two processes at once, whatever crashes,
\* releases and restarts came before (claim's transaction, release, _resume).
OneRunnerPerItem ==
  \A s, t \in Shards : s # t /\ Busy(s) /\ Busy(t) => cur[s] # cur[t]

\* A shard leaves at most one of an entry's items unfinished, however it dies:
\* claim hands a crashed shard's item out again before anything else.
OneOpenItemPerShard ==
  \A s \in Shards, e \in Entries :
    Cardinality({i \in ItemsOf(e) : owner[i] = s /\ ~done[i]}) <= 1

\* An item whose episode counted is never handed out again, so its result is
\* not replaced: neither by the shard that died between recording the episode
\* and finishing the item, nor after a release of that shard's other items.
NoCountedRerun ==
  [][\A s \in Shards : pc[s] = "claim" /\ pc'[s] = "run" => ~counted[cur'[s]]]_vars

\* done() "runs once the recording is durable": an item that the queue calls
\* finished has an episode row, its own or the one _resume found.
DoneIsRecorded == \A i \in Items : done[i] => last[i] # "none"

\* What export reads: an aggregate that is not marked partial has a row for
\* every work item, and every episode that counted is in the aggregate, not
\* hidden by a later error or skip of the same item.
FullExportIsComplete ==
  \A e \in Entries :
    /\ ~ExportPartial(e) => \A i \in ItemsOf(e) : last[i] # "none"
    /\ \A i \in ItemsOf(e) : counted[i] => i \in ExportedItems(e) /\ last[i] = "counted"

\* eval_shards.complete agrees with the queue: a shard marked complete for an
\* entry holds no unfinished item of it.
CompleteShardOwesNothing ==
  \A s \in Shards, e \in Entries :
    <<s, e>> \in complete => \A i \in ItemsOf(e) : owner[i] = s => done[i]

\* When every shard is marked complete, the queue is empty, whichever shards
\* released items on the way, of the entry they stopped in or of earlier ones.
AllCompleteMeansAllDone ==
  (\A s \in Shards, e \in Entries : <<s, e>> \in complete) => \A i \in Items : done[i]

\* A task_exclusive benchmark's task is never split: the items of a task that
\* are claimed or finished all belong to one shard.
TaskStaysInOneShard ==
  Exclusive => \A i, j \in Items :
    /\ owner[i] # Null /\ owner[j] # Null
    /\ EntryOf[i] = EntryOf[j] /\ TaskOf[i] = TaskOf[j]
    => owner[i] = owner[j]

\* No process of the shard runs or will be started, by run_shard or by hand.
GoneForGood(s) ==
  pc[s] = "off" /\ exit[s] # "none" /\ ~WillRestart(s) /\ reruns = MaxReruns

\* The evaluation gets through: in the end either every item is done, or some
\* shard was given up before it completed its entries.
DrainsUnlessGivenUp ==
  <>[](\/ \A i \in Items : done[i]
       \/ \E s \in Shards, e \in Entries :
            pc[s] = "off" /\ exit[s] # "none" /\ ~WillRestart(s) /\ <<s, e>> \notin complete)

\* release "put[s] pairs back for any shard to claim": the last process of the
\* evaluation does not leave an unclaimed item behind.
LastShardTakesTheRest ==
  [][\A s \in Shards :
       /\ pc[s] = "claim" /\ pc'[s] = "drained"
       /\ \A t \in Shards \ {s} : GoneForGood(t)
       => ~ \E i \in ItemsOf(entry[s]) : owner[i] = Null /\ ~done[i]]_vars

-----------------------------------------------------------------------------
(* The inductive invariant behind these properties.                        *)

\* A shard owns the item it is at until the next claim.
RunnerOwns ==
  \A s \in Shards : pc[s] \in {"run", "ended", "health"} => owner[cur[s]] = s

\* What an episode's outcome says about its item.
OutcomeFits ==
  \A s \in Shards :
    /\ pc[s] = "run" => ~counted[cur[s]] /\ ~done[cur[s]]
    /\ pc[s] \in {"ended", "health"} =>
         /\ outcome[s] # "none"
         /\ outcome[s] # "counted" => ~counted[cur[s]]
    /\ pc[s] = "health" /\ outcome[s] # "redo" => done[cur[s]]

\* A counted episode's item stays claimed, and the row that counts is its last.
CountedStays == \A i \in Items : counted[i] => owner[i] # Null /\ last[i] = "counted"

\* An item whose episode counted but that is not done yet is finished before its
\* owner claims again: the owner is about to, or has died and will resume first.
FinishPending(i) ==
  LET s == owner[i] IN
    \/ pc[s] = "off"
    \/ entry[s] < EntryOf[i]
    \/ entry[s] = EntryOf[i] /\ pc[s] \in {"begin", "seed", "read"}
    \/ entry[s] = EntryOf[i] /\ pc[s] = "resume" /\ i \in seen[s]
    \/ pc[s] = "ended" /\ cur[s] = i /\ outcome[s] = "counted"

CountedIsFinished == \A i \in Items : counted[i] /\ ~done[i] => FinishPending(i)

\* What _resume read stays true: counted results are never taken back.
SeenAreCounted == \A s \in Shards : \A i \in seen[s] : counted[i]

\* The items an unhealthy shard would put back are its own, and ended in errors.
FailedAreOwn ==
  \A s \in Shards : \A i \in failed[s] : owner[i] = s /\ done[i] /\ ~counted[i]

\* A process starts at the first entry.
OffAtFirstEntry == \A s \in Shards : pc[s] = "off" => entry[s] = 1

OwnershipInv ==
  /\ OffAtFirstEntry
  /\ RunnerOwns
  /\ OutcomeFits
  /\ CountedStays
  /\ CountedIsFinished
  /\ SeenAreCounted
  /\ FailedAreOwn

\* An entry a shard has got past seeding is in the queue.
SeededBeforeRead ==
  \A s \in Shards : pc[s] \notin {"off", "begin", "seed"} => entry[s] \in seeded

\* An entry a shard is working on is not marked complete.
OpenIsIncomplete ==
  \A s \in Shards : pc[s] \notin {"off", "begin"} => <<s, entry[s]>> \notin complete

\* An entry that some shard completed was seeded.
CompleteIsSeeded == \A s \in Shards, e \in Entries : <<s, e>> \in complete => e \in seeded

\* A shard that has drained an entry has none of its items open.
DrainedOwesNothing ==
  \A s \in Shards : pc[s] = "drained" =>
    \A i \in ItemsOf(entry[s]) : owner[i] = s => done[i]

ProgressInv ==
  /\ SeededBeforeRead
  /\ OpenIsIncomplete
  /\ CompleteIsSeeded
  /\ DrainedOwesNothing
  /\ CompleteShardOwesNothing

\* A shard is at an item of its entry, and has failed items of the entries up to it.
WorksInOrder ==
  \A s \in Shards :
    /\ pc[s] \in {"run", "ended", "health"} => EntryOf[cur[s]] = entry[s]
    /\ \A i \in failed[s] : EntryOf[i] <= entry[s]

\* Shard s is not past the item i: it has not completed the item's entry, or stopped
\* in a later entry that it did not complete either, so that its rerun comes by again.
StillLooks(s, i) ==
  LET e == EntryOf[i] IN
    \/ <<s, e>> \notin complete /\ ~(pc[s] = "drained" /\ entry[s] = e)
    \/ /\ entry[s] < e \/ (entry[s] = e /\ pc[s] \in {"off", "begin"})
       /\ \E later \in Entries : later > e /\ <<s, later>> \notin complete

\* Shard s may still be handed the item i: it has yet to look for it, and no other
\* shard has an item of its exclusive task.
MayTake(s, i) ==
  /\ StillLooks(s, i)
  /\ Exclusive => TaskOf[i] \notin Taken(s, EntryOf[i])

\* What waits in the queue waits for some shard.
WaitingHasTaker ==
  \A i \in Items : owner[i] = Null /\ ~done[i] => \E s \in Shards : MayTake(s, i)

\* With recorders that can be built, the row comes before the finish.
WithRecorder == \A s \in Shards : pc[s] # "off" => recorder[s]

EndedIsRecorded == \A s \in Shards : pc[s] \in {"ended", "health"} => last[cur[s]] # "none"

RecordedInv == WithRecorder /\ EndedIsRecorded /\ DoneIsRecorded

-----------------------------------------------------------------------------
(* The shards implement the ledger of the evaluation's items.              *)

ItemState ==
  [i \in Items |->
     IF counted[i] THEN "counted"
     ELSE IF done[i] THEN "closed"
     ELSE IF owner[i] = Null THEN "waiting" ELSE "held"]

Ledger == INSTANCE EpisodeLedger WITH state <- ItemState, holder <- owner

\* Every step of the shards is a step of EpisodeLedger or changes none of it.
ImplementsLedger == Ledger!Spec
=============================================================================
