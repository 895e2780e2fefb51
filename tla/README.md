# Formal model of the VLA evaluation harness

TLA+ specifications of `vla-eval`, the harness in `src/` that evaluates
vision-language-action policies: benchmarks (simulators) run episodes against a
model server, many processes ("shards") divide an evaluation between them, and
everything is recorded in one SQLite file per evaluation.  The modules are
checked with TLC on small instances, and the most important results are proved
with TLAPS for every value of the constants.

Paths below are relative to `src/src/vla_eval/` unless they start with `src/`.

## 1. The system

| Component | State it keeps | Operations | Hard behaviour |
|---|---|---|---|
| Recording database, `recording.py` | `work_queue`, `episode_results`, `eval_shards`, step rows | one `BEGIN IMMEDIATE` transaction per method: `seed_queue`, `claim`, `finish`, `finish_claimed`, `release`, `upsert_episode_result`, `set_shard_complete` | several processes interleave between transactions; some of them die |
| Orchestrator, `orchestrator.py` | the item it runs, `_failed_items`, `_errors_from_start`, `_episodes_ok` | `run`, `_run_benchmark`, `_resume`, the one-at-a-time loop, the vector loop, `_check_health`, `_stop_if_unusable`, `_finalize_benchmark` | crash between the record and the finish of an item; reruns; a health limit; items put back |
| Shard launcher, `src/scripts/run_sharded.sh` | attempts per shard | start, wait, restart on exit code 3 or a signal | a bounded number of restarts |
| Export, `results/export.py` | none (a snapshot) | last row of an item wins, `partial` | reads while the evaluation may be incomplete |
| Vector runner, `runners/vector_runner.py` | running slots, sessions to end | waves, per-slot errors, reconnect | held items, retried skips, aborted episodes |
| Model server rows, `model_servers/base.py`, `serve.py` | rows, sessions, pending replies | episode start/end, observations, replies | row reuse, stale replies |
| Prediction engine, `model_servers/engine.py` | a queue, chunk buffers by row | coalesce, dispatch, run one at a time, stop | batches over rows that end meanwhile; cancelled dispatchers |
| Connection, `connection.py` | request sequence, socket | request/reply, timeout, reconnect | late replies |
| Episode daemons, `model_servers/daemons.py` | a context, host, tasks and mailbox per episode | start, observe, call, publish, end, shutdown | model calls and tasks that outlive the close |
| Live runner, `runners/live_runner.py`, `action_buffer.py`, `clock.py` | the last action, its age | tick, hold | stale actions |
| Watchdog, `watchdog.py` | time of the last progress | pet, panic | a pet racing the panic |
| Charliecloud image cache, `cli/_charliecloud.py` | exports per driver and format, ch-image's storage, mount points | find, pull or build, convert, export, mount, reap, fall back | launchers share them, are killed, force rebuilds |
| Adapters, command line, codecs, tracking, configuration | none shared | | sequential, or numerical |

The shards never talk to each other: they share only the database.  The
launcher sees only exit codes.  Export reads a snapshot of the database.  Each
shard talks to a model server over one connection.

What makes the parts correct:

- *Queue and orchestrator*: an item runs in one process at a time; a counted
  result (status `success` or `fail`) is never run again, replaced or hidden;
  nothing is closed without a record; a dead shard's item is picked up; the
  evaluation finishes unless a shard is given up; a `task_exclusive` task stays
  in one shard; export calls an aggregate complete only when it is.
- *Vector loop*: every claimed item is running, held, or waiting to be retried;
  running episodes share one task.
- *Rows, engine*: a row has one owner; an action answers the observation and the
  episode it was computed for, or nobody; every request is completed.
- *Connection, daemons, live runner*: client and server agree on the episode that
  runs; it is finished once and last; nothing waits for a dead episode; no reply,
  action or error of an earlier episode reaches the next.
- *Image cache*: a run's image stays whole under it; after a forced build nobody
  runs an older one; no launcher hangs on a lock.
- *Watchdog*: no panic while there is progress.

## 2. Plan

| Order | Module | Composes | Abstract specification | Status |
|---|---|---|---|---|
| 1 | `WorkQueue`, `ShardRun` | database + orchestrator + launcher + export | `EpisodeLedger` | modelled, checked, proved |
| 2 | `VectorRun` | `WorkQueue` + vector loop and runner | `EpisodeLedger` | modelled, checked, proved |
| 3 | `ModelServerRows` | connections and slots over shared rows | `EpisodeCallbacks` | modelled, checked, proved |
| 4 | `PredictionEngine` | connections + dispatcher + model thread | | modelled, checked, proved |
| 5 | `EpisodeProtocol` over `EpisodeDaemons` | runners and connection + handler and episode daemons | | modelled, checked, proved |
| 6 | `ImageCache` | launchers over exports, storage and mount points | | modelled, checked, proved |

Each module with proofs has them in a module of its own, `X_proofs` for `X`
(section 10); those of `PredictionEngine` go on in `PredictionAnswers_proofs`,
those of `EpisodeProtocol` in `EpisodeClient_proofs`.

## 3. The core: `WorkQueue`, `ShardRun`, `EpisodeLedger`

`WorkQueue` holds the tables and one operator per transaction of
`RecordingStore`.  `owner[i]` and `done[i]` are the columns of the `work_queue`
row; `last[i]` is the status of the item's last `episode_results` row and
`counted[i]` whether any of its rows counted (`success` and `fail` are not told
apart: the queue treats them alike); `complete` is the set of `eval_shards` rows
with `complete = 1`.  `claim` is translated in full: the shard's own open item
first, then the loaded task, its home block, and the block with the most left;
`Preferred` returns a set of one item.

`ShardRun` is the process: `pc[s]` names the point between two transactions, so
that another shard, or death, may come between any two of them.

| Action | Code |
|---|---|
| `Launch`, `Rerun` | `run_shard` in `src/scripts/run_sharded.sh`, or the command by hand with the same `--eval-id` |
| `Die` | a signal, an exception that ends the process, the watchdog's `os._exit` |
| `BeginEntry` | `_run_benchmark`: `set_shard_complete(False)` |
| `Seed`, `ReadResults`, `Resume` | the three statements of `_resume` |
| `Claim`, `Drain` | `claim` returns an item, or `None` |
| `RunEpisode`, `FailWithoutRecorder` | the episode, `_episode_ended`, the recorder's commit; or `_build_recorder` raised |
| `StopUnusable` | `_stop_if_unusable`: release and exit code 3 |
| `AbortEntry` | server unreachable, or reconnect failed: a partial result |
| `FinishEpisode` | `finish`, unless the episode is to be redone |
| `StayHealthy`, `StopUnhealthy` | `_check_health` |
| `Finalize` | `_finalize_benchmark`, then the next entry or the end |

`EpisodeLedger` is what the queue promises: an item waits, is held, has counted
or is closed; it changes holder only through the queue; a counted item never
changes again.  `ShardRun!ImplementsLedger` is the refinement, with an item
`held` when it is claimed and neither done nor counted.

Simplifications, all of them over-approximations of the code unless stated:
the outcome of an episode is chosen freely among `Outcomes`; a reconnect may
fail whenever it is tried; `num_shards` is the same in every run of an
evaluation, two processes never run with the same shard id at once, and the
entries have distinct names (the code assumes all three); a process is in one
entry at a time; `benchmark.resume` and the progress file do not feed back into
the queue.

`BeginEntry` stands for everything `_run_benchmark_inner` does before the loop:
connecting, building the benchmark and the list of work items change nothing
the shards share, and when one of them raises the process ends, which is `Die`.

## 4. The vector loop: `VectorRun`

`VectorRun` is the other loop over the same `WorkQueue`: up to `NumEnvs` episodes
of one task at a time.  An episode is named by its item, and a slot by its
episode, so `fresh` and `running` are sets.  `claimed`, `held`, `redo`, `group`
and `unusable` are the variables of `_run_vector` of the same names; `running`
and `exhausted` those of `VectorEpisodeRunner.run`; `ends` holds the outcomes of
episodes that have ended and wait for `on_end`.

| Action | Code |
|---|---|
| `Loop` | the top of `VectorEpisodeRunner.run`'s loop |
| `TakeWaiting`, `Claim`, `FillEnds` | `next_episode` and `take`: a retried item, the held one, a claim, or none |
| `Start` | `_start`: `reset` works, or ends the new episodes and the running ones |
| `Exchange` | `_exchange`, `_reconnect`: all go on, some fail, all fail, or the run is aborted |
| `StepEnvs` | `_step`: some episodes end, each in its own way, or all of them do |
| `EndEpisode`, `Done`, `StayHealthy`, `StopUnhealthy` | `end`, one transaction after the other, for one episode after the other |
| `StopUnusable`, `Finalize` | what follows `runner.run` |

Several episodes that end in one step are booked in any order (the code goes by
slot).  The observation rows, step counters and `EPISODE_END` payloads are
payload.  One entry; the fixed split of runs without a queue is left out, as it
shares nothing.

## 5. The model server's rows: `ModelServerRows`, `EpisodeCallbacks`

A model server keeps its state per row; `base.py` gives each episode a row and
`serve.py` runs one handler per connection.  All of it shares one event loop, so
each action is the code between two awaits, and `at[c]` names the await a handler
stands at: the next message, one of the three callbacks, the replies, the
callback of its `finally`.  `table`, `gen`, `ending` and `failed` are `_table`,
`_gen`, `_closing` and `_failed`; `asks` are the observations of all pendings, each
with the row and incarnation it was taken with, `answered` those that got a reply.

A vector step and the three messages of an `EPISODE_START` client are one thing: a
message with ends, starts and observations, handled in that order (`Handle`,
`StartThenObserve`, `Observe`).  `own` is what the handler knows (`row`, `slots`),
`local` the array `_vector_step` works on: the same one, or a longer copy.

| Action | Code |
|---|---|
| `ReadStart`, `ReadObservation`, `ReadEnd`, `ReadVectorStep` | the branches of `_handle_connection`, up to the first callback |
| `EndReturned`, `ClosingReturned` | the rest of `_end_episodes`, and what the message does next |
| `StartReturned`, `CancelStart` | the rest of `_start_episodes` |
| `ObserveReturned`, `ObserveRaised`, `WaitDone` | the rest of `_observe`, `wait` |
| `Answer`, `FailEpisode` | `send_action`, `send_error`; `fail_episode`, by the model at any time |
| `Disconnect`, `Leave`, `Cancel`, `ReplyRaises` | `watch`; the ways into the handler's `finally` |

`EpisodeCallbacks` is what a server's author relies on: every episode goes
through start, observations and end once, has its row alone from before the start
to after the end, and its observations come and are answered only while it runs.
The server itself is arbitrary: it answers, fails and returns when it likes.

Simplifications: a connection sends either vector steps or episodes of its own
(the code allows both at once, without sharing anything between them); messages
that were under way when a connection closed may still be read, at any time; a
call of `send_action` for many rows is one `Answer` per row; a message lists a slot
at most once under each heading.  HELLO, `PUBLISH` and `EPISODE_ERROR` are left out.

## 6. The prediction engine: `PredictionEngine`

`engine.py` sits between the handlers of section 5 and the model.  Handlers, the
dispatcher task and the resumptions of finished model calls share the event loop;
the model thread takes its calls in order (`jobs`), and what has returned waits in
`ran` until the loop gets to it.  So a row may end, and its id be given to the next
episode, at any point of an inference.  `queue`, `wake`, `gen`, `steps`, `failed`,
`chunked` and `buffers` are the fields of those names; `dp`, `batch`, `rest` and
`call` the dispatcher's place and locals.

| Action | Code |
|---|---|
| `Start`, `ResetReturned`, `End`, `FinishReturned` | `on_episode_start`, `on_episode_end`, each with its call on the model thread |
| `Observe`, `Reply` | `on_observations`: answers from the buffers, a request for the others, and what the handler does when it is done |
| `FailEpisode` | `fail_episode`, at any time |
| `Woken`, `Deadline` | `_dispatch_loop`: what is taken as a batch, at once or after `max_wait_time` |
| `Infer`, `InferReturned`, `InferRaised` | `_infer` and `_run`: skip the failed rows, call the model, split actions and errors; requests that cannot be merged are run one at a time |
| `RunJob` | the model thread: `run_on_model_thread` |
| `Stop`, `SetLimit` | the cancelled dispatcher; `GET /config` setting `max_batch_size` |

An action is `[row, gen, step]`: what it was computed for.  The properties compare
that with what it is used for.  The rows of a request are a set, since it has a row
once; where the code counts positions (`_merge`, the shares of `_run`, the replies of
`on_observation`), the model counts the rows before a row in the order of their ids.  Left out: the payload of observations and actions
but for the shape by which requests may not be merged, and everything about rows
that section 5 shows (here a connection starts and ends its rows together).

## 7. Episodes end to end: `EpisodeDaemons`, `EpisodeProtocol`

`EpisodeDaemons` is the server's half: the handler of a connection in front of
`daemons.py`, where an episode has a host, tasks that run its code, a mailbox and
calls on the model thread.  `EpisodeProtocol` adds the client: `Connection`, the
sync and the live runner, and a network that may be cut.

| Action | Code |
|---|---|
| `ReadStart`, `StartEpisode`, `Starts`, `StartFails`, `RollsBack`, `RolledBack` | `_handle_connection`, `_start_episodes`, `on_episode_start` with its rollback |
| `Observe`, `Replies`, `StopsWaiting` | `on_observation` and the handler's wait |
| `ReadEnd`, `Leaves`, `CloseEnded`, `FinishAtOnce`, `FinishEnded`, `Ended` | `EPISODE_END`, a lost socket, a start over a running episode; `_end_episodes`, `on_episode_end` |
| `HostRuns`, `HostLeaves`, `HostExits`, `SendsError` | `_host`; the task that sends `EPISODE_ERROR` |
| `Admits`, `Settles`, `Settled`, `StopsMoving` | `_deliver` under the sync clock |
| `Receive`, `Reply`, `Finishes`, `Raises`, `Interrupts`, `Cancelled`, `Spawns`, `Visits`, `Calls`, `CallReturns`, `Publishes` | the user's `run(ep)`: any code, with a root task, one child, and a guest task outside the episode's scope |
| `Shutdown`, `Sweeps` | the server's task group is cancelled; `_watch` sees it |
| `Start`, `StartReady`, `StartRefused`, `TimesOut`, `LosesConnection`, `DropsEarly` | `Connection.start_episode`, `reconnect`, the request loop |
| `Sends`, `Acts`, `ActFails`, `Ticks`, `Listens`, `StepFails`, `Stops` | the runners: `act`, the live loop, `_listener_loop` and `ActionBuffer`, what ends an episode |
| `Cut` | the network: both ends see the socket close, each with what had arrived |

`of`, in a message to the client, is the episode whose code sent it.  It is not on
the wire and no guard reads it: `NothingOfAnotherEpisode` compares it with the
episode that uses the message.

Simplifications: sequence numbers are `NextSeq(episode, place)`, since they are only
compared; sockets are FIFO, so `PUBLISH` needs no index; a call on the model thread
returns in the step that resumes its caller; `Cut` loses everything on its way to the client and any
suffix of what is on its way to the server; a client that waits for its
observation cannot overflow the mailbox, so `Admits` has no branch for it
(`OneObservationAtATime`, section 10); the client starts again on a new connection, as `start_episode` does.  HELLO, the
implicit start by a first OBSERVATION, and vector steps (section 5) are left out.

A `Scenario` fixes how the client runs (live, sync with a clock, sync without), the
bound of the mailbox, which faults may happen, and how many episodes and steps.
Twelve of them, with the faults in twos and threes, take the place of all
combinations, which are too many for one run.

## 8. The image cache: `ImageCache`

`vla-eval run` on a cluster without Docker keeps its image as a Charliecloud
export.  Several launchers of one user, one per shard, share the directory.

| Action | Code |
|---|---|
| `Start`, `LockPath` | the format is chosen; `ensure_image_dir` waits for the lock of the path and looks once, under it |
| `Confirm`, `LockStorage` | the prompt and the checks for tools; then `_open_storage_lock` waits in `flock`, without a timeout, for ch-image's storage |
| `ImageObtained`, `Sweep`, `Swept`, `Converted` | pull or build; a forced build drops the other exports; `ch-convert` |
| `RemoveOld`, `LeaveTree`, `Place` | `rmtree` or `unlink` of the old export, `rmtree` that leaves a tree without an error, `os.rename` of the new one |
| `GiveUp` | a prompt declined, a tool missing or failing, a lock file that cannot be opened, an `unlink` or `os.rename` that raises; never in the wait for a lock |
| `Use`, `ReapLook`, `ReapAct`, `MakeMountPoint`, `Mount`, `MountFails` | `mount_image`, `reap_stale_mounts`, the fall back to a directory |
| `Launch`, `Finish`, `Unmount`, `RemoveMountPoint` | the evaluation and what follows it |
| `Kill`, `Age` | SIGKILL; a mount point gets older than `min_age_s` |

Assumptions: one image; a pull gives the same image every time (a pinned tag);
flocks go with the process, and the tools a killed launcher runs die with it; a
pull or build that is killed leaves the old image or the new one; a launcher that
lives takes less than `min_age_s` from `mkdtemp` to its mount; `rmtree` is two
steps, with `ch/metadata.json` (the test for a usable export) gone after the first or
not.  Temporary trees that a kill leaves behind are never looked at again.

Three constants mark what the code relies on.  `Apart`: `docs/runtimes.md` asks not to
force `--build` while another run of the image is active.  With `FALSE`, TLC finds
`NoOlderExport` violated: a launcher that has converted the older image puts it in
place after the forced build has dropped the exports, whose locks it does not hold.
`KillsRemovals`: with `TRUE`, a launcher killed inside `rmtree` leaves a tree that
passes the test for a whole export, and TLC finds `RunsKeepTheirImage` violated.
`UsableRemains`: `_remove` calls `rmtree` with `ignore_errors=True` and goes on whatever
became of the tree.  Some of it may be left, in a sweep, which goes on, or
in the place of the new export, where the rename then fails (`LeaveTree`).  With `TRUE`
what is left may pass the test, up to the whole tree, and TLC finds
`RunsKeepTheirImage` and `NoOlderExport` violated.  The run excludes all three, and
they are listed as hazards without a property.

## 9. Runs

| Run | Instance | What it shows |
|---|---|---|
| `shard_crash` | 2 shards, 1 entry, 3 items, 1 restart, every outcome, deaths at every step, fair | types and the health counter; no item in two processes; at most one open item per shard; an export not marked partial is complete; all shards complete means all done; no counted episode rerun; refinement of `EpisodeLedger`; every item is done in the end, or a shard was given up |
| `shard_entries` | 2 entries, `task_exclusive`, 4 items, a rerun by hand, recorders that may be missing | a task stays in one shard through releases, crashes and reruns; a complete shard owes nothing |
| `shard_left_behind` | `task_exclusive`, no restart | **violation**: a released item is refused to the last shard |
| `shard_no_recorder` | recorders cannot be built | **violation**: an item is finished without a row |
| `vector_crash` | 2 shards of 2 slots, 3 items of 2 tasks, partial resets, 1 restart, fair | one runner per item; claimed items accounted for, in one task; open items never exceed the slots; a complete shard owes nothing; refinement of `EpisodeLedger`; the loop does not stop with a held item or work in the queue |
| `vector_left_behind` | 3 slots, 2 tasks of 2 episodes | **violation**: an unusable shard keeps an item |
| `rows` | a vector client of 2 slots, a client of 1 episode, 2 rows at once, 3 episodes, 1 observation call each | a row has one episode and one owner, `max_rows` holds, refinement of `EpisodeCallbacks` |
| `rows_live` | the same with one slot, callbacks return | replies arrive if the server answers; closed connections are let go of in any case |
| `rows_lost` | a vector client whose replies may not fit together | **violation**: episodes are left without an owner |
| `engine` | a vector client of 2 slots and a client with chunks, limits 1 and 4, 3 starts, 2 observations, shapes that differ | an action answers its own observation and chunks end with their episode; no inference of a row after its finish; vector steps do not wait; every request is completed, by a cancelled dispatcher too |
| `episode` | 2 episodes on 2 connections in 12 scenarios | finish once and last; no wait for a dead episode; client and server agree on the episode; nothing of another episode; an end comes to an end |
| `images` | 3 launchers, 6 command lines, 1 killed anywhere but in `rmtree` | a run keeps its whole image; no export older than the last forced build; each launcher gets the locks it waits for, and runs or fails |

*Bounds.*  Two shards are enough for every conflict the queue can have: `claim`
tells apart only "mine", "somebody else's" and "nobody's", and a release is seen
by one other shard as by many.  Three or four items give each shard an item of
its own home block, one to steal from the other's, and a task that is entered
after another.  One restart is a crash followed by a resume; the restarted
process can crash again, after which the shard is gone.  `UnhealthyAfter` is 2
(the code says 3) so that one error is tolerated and two are not.  `MaxReruns`
bounds restarts by hand, which are unlimited in reality.  Two slots are enough
for a held item beside a running one; `vector_left_behind` needs a third.
Three episodes let a row be freed and given to the other connection, and one be
refused; a second slot makes the array grow and a batch fail in part.  `Failing`
lets the server fail the episodes of one row only, which is as good as any.  In
`engine`, 3 starts let a row be ended and reused under a model call, the limit of 4
merges all requests and that of 1 none, and 2 observations are one answered by the
model and one by the chunk.  In `episode`, the second episode is what late messages
of the first could reach, and 2 steps are a first observation and one in the middle.
In `images`, 3 launchers are a forced one, one that waits for its lock and one that
comes later, and the 6 command lines have each tool once present and once missing.

*Fairness.*  `ShardRun`, `VectorRun`: some live process steps or `run_shard` launches
one; a simulator that hangs is killed by the watchdog, which is `Die`, and the
restart loop goes on until its budget is used up.  The episodes of the vector loop
that are stepped again and again end, because `max_steps` is never `None`
(`SF(EpisodesEnd)`).  How often a benchmark may raise `EpisodeSkipped` with `retry`
is bounded by the benchmark, not by the harness, and one that never stops does loop
forever: `SF(NotRedone)` and `SF(ResetsWork)` say that an episode tried again and
again is not put off each time.  `ModelServerRows`: `WF(Handler(c))`, callbacks
return and a handler that need not wait goes on; that the server answers is a
premise of `RepliesArrive` only.  `PredictionEngine`: the dispatcher, the model
thread and some handler that can run do.  `EpisodeProtocol`: so do handlers, hosts, deliveries,
cancelled tasks and the calls on the model thread; nothing makes the user's code
answer or return, or the client ask.  `ImageCache`: some launcher that can step does:
the user answers a prompt, and the tools return.  One that waits for a lock can do
nothing but take it when it is free, so a lock that is kept, or two launchers that wait
for each other, would leave it there for ever.  An evaluation need not end.  Nothing is assumed about `Die`, `Disconnect`, `Cut`,
`Kill` or what clients send.  Deadlock is not checked: an evaluation does come to an
end, and so do clients and launchers.

*Mutants.*  Operators marked `Mutant:` are versions of the operator below them
with a plausible bug; each property is violated when one of them takes its place.

## 10. Proofs

A theorem holds for all values of the constants that the module's assumption
allows; a further hypothesis is named with it.  TLC has checked each inductive
invariant on a small instance before it was proved.  It is defined in the module it
is about or, for the episodes, with its proof.

| Module | Theorem | Property | Hypothesis |
|---|---|---|---|
| `ShardRun_proofs` | `TypeCorrect` | `TypeOK` | |
| | `OwnershipInvariant` | the inductive invariant `OwnershipInv` | |
| | `OneRunner` | `OneRunnerPerItem` | |
| | `CountedNeverRerun` | `NoCountedRerun` | |
| | `OneOpenItem` | `OneOpenItemPerShard` | |
| | `TaskStays` | `TaskStaysInOneShard` | |
| | `CompleteOwesNothing` | `CompleteShardOwesNothing` | |
| | `WaitingItemsHaveTakers` | the invariant `WaitingHasTaker` | |
| | `AllCompleteAllDone` | `AllCompleteMeansAllDone` | |
| | `DoneAfterRecord` | `DoneIsRecorded` | `Recorders \subseteq {TRUE}` |
| | `FullExport` | `FullExportIsComplete` | `Recorders \subseteq {TRUE}` |
| | `LedgerImplemented` | `ImplementsLedger` | |
| `VectorRun_proofs` | `TypeCorrect` | `TypeOK` | |
| | `ClaimsInvariant` | the inductive invariants `ControlInv`, `PlacesInv`, `OwnershipInv` | |
| | `OneRunner` | `OneRunnerPerItem` | |
| | `ClaimsAccountedFor` | `ClaimedIsAccountedFor` | |
| | `OpenItemsFit` | `OpenItemsFitTheSlots` | |
| | `CompleteOwesNothing` | `CompleteShardOwesNothing` | |
| | `LedgerImplemented` | `ImplementsLedger` | |
| `ModelServerRows_proofs` | `RowsInvariant` | the inductive invariant | |
| | `TypeCorrect` | `TypeOK` | |
| | `WithinLimit` | `RowsWithinLimit` | |
| | `OneOwner` | `RowsHaveOneOwner` | `VectorConns \cap (Cancellable \cup Unfit) = {}` |
| | `DisconnectEnds` | `DisconnectEndsItsEpisodes` | the same |
| | `CallbacksImplemented` | `ImplementsCallbacks` | |
| `PredictionEngine_proofs` | `EngineInvariant` | the inductive invariant `EngineInv` | |
| | `TypeCorrect` | `TypeOK` | |
| | `VectorStepsNeverHeldBack` | `VectorStepsGo` | |
| | `ChunksNeverOutliveTheirEpisode` | `ChunksEndWithTheirEpisode` | |
| | `FinishIsTheLast` | `NoInferenceAfterFinish` | |
| `PredictionAnswers_proofs` | `AnswersTheirObservation` | `ActionsAnswerTheirObservation` | `Failing = {}` or `Chunking \cap VectorConns = {}` |
| `ImageCache_proofs` | `CacheInvariant` | the inductive invariant `CacheInv` | |
| | `TypeCorrect` | `TypeOK` | |
| | `RunsKeep` | `RunsKeepTheirImage` | `Apart`, `~KillsRemovals`, `~UsableRemains` |
| | `NoOlder` | `NoOlderExport` | `Apart`, `~UsableRemains` |
| `EpisodeProtocol_proofs` | `ServerInvariant` | the inductive invariant `ServerInv` | |
| | `FinishIsOnceAndLast` | `FinishedOnceAndLast` | |
| | `NothingWaitsInVain` | `NoWaitOnADeadEpisode` | |
| `EpisodeClient_proofs` | `ClientInvariant` | the inductive invariants `ServerInv`, `ClientInv` | |
| | `ClientAndServerStepTheSame` | `ClientAndServerAgree` | |
| | `OneAnswerAtATime` | the inductive invariant `SyncInv` | |
| | `NothingLateReachesTheNext` | `NothingOfAnotherEpisode` | |
| | `OneObservationAtATime` | the inductive invariant `BoxInv` | |
| | `TypeCorrect` | `TypeOK` | |

The hypotheses are needed: `shard_no_recorder` violates `DoneIsRecorded` without its
own, `rows_lost` loses rows of a vector client whose replies do not fit together
(and a cancelled handler loses them at the same place), and section 8 says what
happens without `Apart`, or with `KillsRemovals` or `UsableRemains`.  Without that of
`AnswersTheirObservation` TLC finds an action that is late by one observation, on an
engine that is being shut down: a stopped engine fails an observation of a vector
client of which one row has nothing buffered, and leaves the buffers of the other
rows as they are; `fail_episode` then fails that one row, and the next observation is
answered from the buffers of the others.

### The queue: `ShardRun_proofs`

*Ownership.*  `OneRunnerPerItem` is not inductive: nothing in it says why another
shard could not be handed the item.  `OwnershipInv` says that the shard at an
item owns its row (`RunnerOwns`), and everything needed to keep that: what an
outcome says about the item (`OutcomeFits`), that counted items keep their owner
(`CountedStays`) and are finished before their owner claims again
(`CountedIsFinished`, with the window between record and finish, the death in it
and `_resume` spelled out in `FinishPending`), and that what an unhealthy shard
may put back is its own and never counted (`FailedAreOwn`).  Two shards at one
item would both own it; a claim of a counted item contradicts
`CountedIsFinished` and `CountedStays`.

*Queue steps.*  Every step either takes one item by a claim (`Takes`) or keeps
the owners but for released items and finishes nothing twice (`Keeps`).
`OneOpenItemPerShard` and `TaskStaysInOneShard` follow from this alone: a claim
happens only without an open item of one's own, and only outside other shards'
tasks.

*Progress and records.*  `ProgressInv` adds what a shard has seeded, drained and
marked complete; `RecordedInv` that an ended episode has a row.  With them the
properties of `eval_shards` and of export follow.  `WaitingHasTaker` says that an
unclaimed item has a shard that is still to claim and may take it: who drains finds
nothing it may take, and an item put back comes from a shard that starts over.  An
unhealthy shard also puts back failed items of entries it has completed before
(`_failed_items` is kept from entry to entry), so a taker need not have the item's own
entry open: `StillLooks` is content with a later entry that it has not completed, since
its rerun passes the item's entry, and opens it, on the way there.

*Refinement.*  `LedgerImplemented` maps each item to the ledger state `ItemState`.
The invariants give, action by action, the ledger step: a claim is `Take`, a
counted row is `Count`, a finish is `Close` or a stutter, a release is `Return`.

### The vector loop: `VectorRun_proofs`

`ControlInv` says where control stands while episodes end and are booked one by
one, `PlacesInv` that a claimed item is in exactly one of its places: fresh or
running in a slot, ended and to be booked, held, or to be retried.  `OwnershipInv` is
that of the one-at-a-time loop, with the item being booked in the place of the item
being run.  All three are inductive together: `claimed` only grows by a claim of an
item the shard owns, and loses an item only when it is finished or put back.
`OpenItemsFit` counts places, `CompleteOwesNothing` needs that a run that ended by
itself had asked the queue after its last end (`ProgressInv`), and the refinement is
the one of `ShardRun`, several items at a time.

### The rows: `ModelServerRows_proofs`

The invariant is stated handler by handler (`ArraysAgree`, `BatchFits`) and across
them (`KnownRowsInv`: what two handlers know is disjoint).  A step of one handler
takes rows nobody has, or gives up its own, so the others' parts follow from one
lemma about everything a handler leaves alone, and each action shows only its own
part.  `MessageInv` keeps `max_rows` although the slots of a message start together:
starts that are still to come are reserved.  That no row is lost (`NoRowLost`) is
what the hypothesis is for; the rest of the invariant, and the refinement, hold
without it.

`CallbacksImplemented` maps an episode to its row and phase.  Two views of a step
carry the proof: what it does to rows (`RowMoves`: which it releases, books and
begins to end, together with who can know them) and what it does to observations
(`AsksStep`).  Each action is one instance of both, and a lemma turns any such
instance into a step of `EpisodeCallbacks`.

### The image cache: `ImageCache_proofs`

`CacheInv` says who goes by which lock (`LocksInv`), that the storage is never behind
an export (`ImagesInv`, which also counts the launchers that may still make a new
image, so that the numbers suffice), that what is converted is whole and meant for
a path without a usable export (`MakingInv`), and what mounts and runs have
(`MountsInv`).  The rest depends on the three constants.  `Careful` is `Apart` without
`UsableRemains`: a forced launcher is alone until it runs, so that it alone drops or
replaces usable exports, and what it cannot drop is not usable (`AloneInv`).
`Thorough` is `Careful` without `KillsRemovals`: an export that looks usable and is not
whole is one that a forced build is at that moment removing (`RemovalInv`), and what is
mounted or launched is whole (`SeenInv`).  Launchers outside the locks leave the cache
alone, and one lemma covers them all (`OutsideKeeps`); so do those that go on to wait for
the storage or give a tree up (`GoesOn`); each other step under a lock shows what it does
to its own launcher and path.

### The engine: `PredictionEngine_proofs`, `PredictionAnswers_proofs`

`EngineInv` accounts for rows and for calls on the model thread (`RowsApart`,
`JobsOnce`): since no connection holds more rows than it has slots, one that starts
always finds a free row, which is counted (`NewRowsFit`).  Then it says what the
requests are that are not done, in the batch, after it and in the queue
(`RequestsFit`): each has rows, and one of them that still runs makes it the request
its handler waits for, of which there is one.  A handler that was cancelled or whose
episodes have all ended leaves a request without such a row, about which nothing else
is said.  What is kept for later belongs to the episode on the row: buffers
(`ChunksFit`), and what `_infer` has in hand over the model call (`CallFits`).  The
dispatcher's steps only move requests from the queue to the batch or drop the batch
when it is done, so one lemma about the sequence of all of them (`Unfinished`) covers
`Woken`, `Deadline` and both ends of a run.  `NoInferenceAfterFinish` needs nothing
about requests but this: at the checkpoint every position that is inferred still
runs, and finish comes after the end of its episode.

`AnswersInv` adds in which step things are: a row's buffer goes on with the row's
next observation, but for a request that is not yet with the model, whose rows are
all one ahead of their buffers, and which has one row at least without any (`Early`:
otherwise it would not have been made).  So a run that serves a row takes the
observation that was asked for, and what the model returns is kept from the next one
on.  The second half is about positions: the place of a position in the batch is the
number of those in the requests before it plus its place in its own request
(`PlaceInRequest`), so that the shares cut from the stacked actions give each row its
own (`ShareIsOwn`), and so does the handler when it counts again among the rows that
did not fail.

### Episodes: `EpisodeProtocol_proofs`, `EpisodeClient_proofs`

`ServerInv` says where an episode's row, host and tasks stand to each other
(`EpisodeFits`), a handler to its row (`HandlerFits`), and both to each other: a row
belongs to one connection, a reset to the handler that waits for it (`RowsFit`).  A
call is on the model thread exactly while somebody waits for it (`JobsFit`), and an
episode is started once (`StartsFit`): its number waits in one place only, unread or
with the handler that is ending the episode before it.  Most steps are quiet: they
leave rows, their stages and the calls alone, and one lemma covers them all; each of
the others moves one row, of one connection (`Moved`).  `FinishedOnceAndLast` follows
from `JobsFit`.  `NoWaitOnADeadEpisode` is a second induction: every step lets an
observation that waits wait for the same episode (`HoldsOn`), and kills no episode
without failing the observation that waits for it (`LivesOn`).

`ClientInv` is about numbers and about places.  Every message is numbered by the
episode it is of, which the client has started (`Numbered`), so one that is not
early is of the client's own.  While the client waits for EPISODE_READY, its
EPISODE_START is the last message of the socket, or with the handler, whose socket
is then empty, or answered (`StartingFits`); there is no other way to a READY with
this number, so when it is read the handler has this episode's row.  From then on the
socket takes only observations until the client ends the episode (`SteppingFits`),
and the handler cannot let its row go before it reads something else or leaves, and
who leaves closes the connection.

`SyncInv` is about a client that waits for each answer.  Of the episode at hand one
message at most is under way: the START or its answer, then an observation, unread or
with the handler that waits, or its answer (`SyncPhase`).  So what the client reads as
the answer of its observation, being of its own episode, is the answer to the one it
just sent, although `act` only logs a seq that differs.  It is inductive because all
the server does to a connection is one of five moves (`Move`: read, begin, end, answer
what waits, or only decide the answer), each of which leaves at most one such message.
For that nothing may be sent but answers, which is where the client's mode comes in:
`publish` and EPISODE_ERROR are for live clients (`Silent`).

`BoxInv` is why `Admits` needs no branch for a full mailbox on a sync clock, and
with it `TypeOK`, whose bound on the mailbox is its only part that is not plain.  An
episode on a sync clock has one observation at most in its mailbox or on the way into
it (`OneAtMost`), and as long as its root has not received that one, its connection
holds no other and the handler waits for the answer (`PairFits`).  The answer cannot
come from elsewhere, because numbers do not come back: what the client sends next is
above all it has sent, and above all an episode has seen (`Newest`, `SeenTill`,
`SentTill`), so no late reply to an earlier one ends the wait.  Most steps ask
nothing new of any episode (`KeepsAsked`), and one lemma covers them (`QuietBox`);
the others are those that bring an observation nearer to the root or replace it.

### What is only model-checked

Liveness (`DrainsUnlessGivenUp`, `RepliesArrive`, `ClosedConnectionsLetGo`,
`RequestsComplete`, `EndsTerminate`, `NobodyHangs`), which is beyond the prover, as
are ENABLED and recursive operators.  Every invariant, action property
and refinement that a passing run checks has a theorem above, six of them under the hypotheses named there.

## 11. Disagreements found

1. **Exclusive tasks and released items** (`recording.py:256`, run
   `shard_left_behind`).  `release` says it puts items back "for any shard to
   claim", but with `task_exclusive` a shard that has finished another item of the
   task still counts as holding it, so only that shard can take the released item.
   If it is gone, the item stays unclaimed; export does call the result partial.
2. **Finished without a row** (`orchestrator.py:504`, run `shard_no_recorder`).
   When `_build_recorder` raises, the episode is booked with a
   `NullEpisodeRecorder`, no row is written, and the item is finished, although
   `_episode_ended` promises that the recording is durable by then.
3. **Unusable shard keeps an item** (`orchestrator.py:648`, run
   `vector_left_behind`).  `EnvUnusableError` is said to put "the shard's
   unfinished queue items" back; the vector loop puts back those this process has
   in flight.  After a crash with a held item of an earlier task, the restarted
   process has not claimed all of its own items again, and keeps the others.
4. **Lost rows of a vector client** (`model_servers/serve.py:322`, run `rows_lost`).
   When a step starts episodes in slots the handler has not had before,
   `_vector_step` works on a longer copy of `slots`.  If it then raises, as
   `pending.result()` does on replies with different keys, the handler's `finally`
   ends the rows of the old array only: `on_episode_end` never comes for the others
   and their rows are taken for ever, although a disconnect is said to end a
   connection's episodes.

## 12. Not modelled

The parts marked `not_modelled` in `PROJECT.json` keep no state that anybody else
sees, or none whose order matters: the command line and the configuration, the
collector, the Python API and the leaderboard's scripts run once from top to
bottom; the adapters, RTC guidance and rotations are numerical, and the codecs
byte-level.  Two entries of a configuration with one resolved name
(`config.py:262`) share their queue rows and flags, which the code does not prevent;
the model takes names to be distinct.  The watchdog decides on a clock reading
(`watchdog.py:57`); the models have no real time, and its panic is `Die`.

Within the modelled parts: step rows, JSON columns and metadata; logging, trackers
and progress files; SQLite itself, whose `BEGIN IMMEDIATE` transactions are taken to
be atomic and durable; `num_shards` changing between runs of one evaluation, and two
processes with one shard id at once, which the code does not support; the Docker
runtime, which leaves its cache to the Docker daemon.
