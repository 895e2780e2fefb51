---------------------------- MODULE PredictionEngine ----------------------------
(***************************************************************************)
(* PredictionEngine (src/vla_eval/model_servers/engine.py): the            *)
(* observations of all connections, coalesced by one dispatcher task into  *)
(* batches for one model thread, and the chunks whose rest answers later   *)
(* observations of the same episode without the model.                     *)
(*                                                                         *)
(* The dispatcher, the connections' handlers and the resumptions of        *)
(* finished model calls share an event loop; the model thread takes its    *)
(* calls in order. Every action is the code between two awaits. What       *)
(* handlers do to rows is what ModelServerRows shows in detail; here a     *)
(* connection starts and ends its rows together.                           *)
(*                                                                         *)
(* A row of a request is [row, gen, step]: observation number step of that *)
(* incarnation of the row; an action is the one it was predicted for.      *)
(***************************************************************************)
EXTENDS Integers, Sequences, FiniteSets, Functions

CONSTANTS
  Conns,        \* connections
  VectorConns,  \* those of vector clients
  Width,        \* slots of a vector client
  Limits,       \* what GET /config may set max_batch_size to
  Waits,        \* max_wait_time > 0
  Chunking,     \* connections whose episodes have a chunk_size
  ChunkLens,    \* lengths of the chunks the model returns
  Mixed,        \* whether requests may differ in shape
  Failing,      \* rows whose episodes may be failed while they run
  Cancellable,  \* connections whose handler may be cancelled
  MaxStarts,    \* bound: starts, of all connections
  MaxObs        \* bound: observations per episode

Dispatcher == "dispatcher"

ASSUME EngineAssumption ==
  /\ IsFiniteSet(Conns) /\ Dispatcher \notin Conns
  /\ VectorConns \subseteq Conns /\ Chunking \subseteq Conns /\ Cancellable \subseteq Conns
  /\ Width \in Nat \ {0} /\ Limits \subseteq Nat \ {0} /\ Limits # {}
  /\ Waits \in BOOLEAN /\ Mixed \in BOOLEAN
  /\ ChunkLens \subseteq Nat
  /\ MaxStarts \in Nat /\ MaxObs \in Nat

VARIABLES
  limit,    \* max_batch_size
  at,       \* where a connection's handler stands
  rows,     \* the rows of its episodes: slots in the order of their ids
  starts,   \* bound: starts so far
  asked,    \* the rows of the request its handler waits for
  outcome,  \* that request's done, actions and errors
  got,      \* the replies to the connection's last observation
  gen,      \* by row: _gen
  steps,    \* by row: _steps
  failed,   \* by row: whether fail_episode failed it
  chunked,  \* by row: _chunked
  buffers,  \* by row: _buffers
  queue,    \* _queue
  wake,     \* _wake is set
  dp,       \* where the dispatcher stands
  batch,    \* the requests of the inference under way
  rest,     \* those to run one at a time after it
  call,     \* what _infer keeps over the model call
  jobs,     \* calls on the model thread, by who waits for them, oldest first
  ran       \* those waiting for a call that has returned

connVars == <<at, rows, starts, asked, outcome, got>>
rowVars  == <<gen, steps, failed, chunked, buffers>>
dispVars == <<limit, queue, wake, dp, batch, rest, call>>
jobVars  == <<jobs, ran>>
vars     == <<connVars, rowVars, dispVars, jobVars>>

WidthOf(c) == IF c \in VectorConns THEN Width ELSE 1
Rows == 0 .. Cardinality(Conns \ VectorConns) + Width * Cardinality(VectorConns) - 1

NoCall  == [served |-> <<>>, todo |-> {}, chunks |-> {}]
NotDone == [done |-> FALSE, actions |-> <<>>, errors |-> {}]

Init ==
  /\ at = [c \in Conns |-> "idle"]
  /\ rows = [c \in Conns |-> {}]
  /\ starts = 0
  /\ asked = [c \in Conns |-> {}]
  /\ outcome = [c \in Conns |-> NotDone]
  /\ got = [c \in Conns |-> {}]
  /\ gen = [r \in Rows |-> 0]
  /\ steps = [r \in Rows |-> 0]
  /\ failed = [r \in Rows |-> FALSE]
  /\ chunked = [r \in Rows |-> FALSE]
  /\ buffers = [r \in Rows |-> <<>>]
  /\ limit \in Limits
  /\ queue = <<>>
  /\ wake = FALSE
  /\ dp = "sleep"
  /\ batch = <<>>
  /\ rest = <<>>
  /\ call = NoCall
  /\ jobs = <<>>
  /\ ran = {}

TakenRows  == UNION {rows[c] : c \in Conns}
Current(x) == gen[x.row] = x.gen

-----------------------------------------------------------------------------
(* Connections: start, observe, end; the rows' callbacks.                  *)

\* _alloc's rows, smallest ids first.
NewRows(c) ==
  LET free == Rows \ TakenRows IN
  {r \in free : Cardinality({q \in free : q < r}) < WidthOf(c)}

Start(c) ==
  /\ at[c] = "idle" /\ starts < MaxStarts
  /\ starts' = starts + 1
  /\ rows' = [rows EXCEPT ![c] = NewRows(c)]
  /\ gen' = [r \in Rows |-> IF r \in rows'[c] THEN gen[r] + 1 ELSE gen[r]]
  /\ steps' = [r \in Rows |-> IF r \in rows'[c] THEN 0 ELSE steps[r]]
  /\ jobs' = Append(jobs, c)
  /\ at' = [at EXCEPT ![c] = "resetting"]
  /\ UNCHANGED <<asked, outcome, got, failed, chunked, buffers, dispVars, ran>>

Release(c) ==
  /\ rows' = [rows EXCEPT ![c] = {}]
  /\ failed' = [r \in Rows |-> failed[r] /\ r \notin rows[c]]
  /\ at' = [at EXCEPT ![c] = "idle"]

\* on_episode_start after reset: the episodes run, or none of them does.
ResetReturned(c) ==
  /\ at[c] = "resetting" /\ c \in ran
  /\ ran' = ran \ {c}
  /\ chunked' = [r \in Rows |-> IF r \in rows[c] THEN c \in Chunking ELSE chunked[r]]
  /\ \/ at' = [at EXCEPT ![c] = "running"] /\ UNCHANGED <<rows, failed>>
     \/ Release(c)
  /\ UNCHANGED <<starts, asked, outcome, got, gen, steps, buffers, dispVars, jobs>>

\* The rows of an observation that its failed episodes do not fail at once.
Asks(c) == {[row |-> r, gen |-> gen[r], step |-> steps[r]] : r \in {q \in rows[c] : ~failed[q]}}

Buffered(x) == chunked[x.row] /\ buffers[x.row] # <<>>
Popped(S)   == [r \in Rows |-> IF r \in S THEN Tail(buffers[r]) ELSE buffers[r]]

\* on_observation: every row has a buffered action, or the engine is stopped,
\* or a request is queued.
Observe(c) ==
  /\ at[c] = "running" /\ \E r \in rows[c] : ~failed[r] /\ steps[r] < MaxObs
  /\ LET xs == Asks(c) IN
     /\ steps' = [r \in Rows |-> IF r \in rows[c] THEN steps[r] + 1 ELSE steps[r]]
     /\ IF \A x \in xs : Buffered(x)
          THEN /\ got' = [got EXCEPT ![c] = {[for |-> x, action |-> Head(buffers[x.row])] : x \in xs}]
               /\ buffers' = Popped({x.row : x \in xs})
               /\ UNCHANGED <<at, asked, queue, wake>>
        ELSE IF dp = "down"
          THEN /\ got' = [got EXCEPT ![c] = {}]
               /\ UNCHANGED <<at, asked, buffers, queue, wake>>
        ELSE /\ queue' = Append(queue, [conn |-> c, rows |-> xs,
                                        wait |-> Cardinality(xs) = 1 /\ c \notin VectorConns])
             /\ wake' = TRUE
             /\ asked' = [asked EXCEPT ![c] = xs]
             /\ got' = [got EXCEPT ![c] = {}]
             /\ at' = [at EXCEPT ![c] = "asked"]
             /\ UNCHANGED buffers
  /\ UNCHANGED <<rows, starts, outcome, gen, failed, chunked, limit, dp, batch, rest, call, jobVars>>

\* The rest of on_observation: the request is done, and its rows that still run
\* (_claim) get their actions, the next one each that did not fail, and errors.
Reply(c) ==
  /\ at[c] = "asked" /\ outcome[c].done
  /\ LET ok      == asked[c] \ outcome[c].errors
         next(x) == outcome[c].actions[Cardinality({y \in ok : y.row < x.row}) + 1]
     IN got' = [got EXCEPT ![c] = {[for |-> x, action |-> next(x)] : x \in {y \in ok : Current(y)}}]
  /\ asked' = [asked EXCEPT ![c] = {}]
  /\ outcome' = [outcome EXCEPT ![c] = NotDone]
  /\ at' = [at EXCEPT ![c] = "running"]
  /\ UNCHANGED <<rows, starts, rowVars, dispVars, jobVars>>

\* fail_episode, called by whatever shares the server with the engine.
FailEpisode(r) ==
  /\ r \in Failing /\ ~failed[r]
  /\ \E c \in Conns : r \in rows[c] /\ at[c] \in {"running", "asked"}
  /\ failed' = [failed EXCEPT ![r] = TRUE]
  /\ gen' = [gen EXCEPT ![r] = @ + 1]
  /\ UNCHANGED <<connVars, steps, chunked, buffers, dispVars, jobVars>>

\* _end_episodes, after an EPISODE_END or with the handler cancelled in
\* on_observation: replies drop from now on, and finish goes to the model
\* thread (a checkpoint later, which changes nothing the rows' calls see).
End(c) ==
  /\ at[c] = "running" \/ (at[c] = "asked" /\ c \in Cancellable)
  /\ gen' = [r \in Rows |-> IF r \in rows[c] THEN gen[r] + 1 ELSE gen[r]]
  /\ asked' = [asked EXCEPT ![c] = {}]
  /\ outcome' = [outcome EXCEPT ![c] = NotDone]
  /\ got' = [got EXCEPT ![c] = {}]
  /\ jobs' = Append(jobs, c)
  /\ at' = [at EXCEPT ![c] = "finishing"]
  /\ UNCHANGED <<rows, starts, steps, failed, chunked, buffers, dispVars, ran>>

\* on_episode_end drops the rows' buffers, and the rows are released.
FinishReturned(c) ==
  /\ at[c] = "finishing" /\ c \in ran
  /\ ran' = ran \ {c}
  /\ buffers' = [r \in Rows |-> IF r \in rows[c] THEN <<>> ELSE buffers[r]]
  /\ Release(c)
  /\ UNCHANGED <<starts, asked, outcome, got, gen, steps, chunked, dispVars, jobs>>

-----------------------------------------------------------------------------
(* The dispatcher.                                                         *)

\* The positions of the merged requests (_merge): each is named by its request and
\* its row, and they are in the order of the requests, then of the rows.
Positions(q) == UNION {{<<k, x>> : x \in q[k].rows} : k \in DOMAIN q}
NumRows(q)   == Cardinality(Positions(q))

Full(q)    == NumRows(q) >= limit
AllWait(q) == \A i \in DOMAIN q : q[i].wait

\* Mutant: once it waits for a batch, the dispatcher looks only at its size.
WouldWaitForSize(q) == Waits /\ q # <<>> /\ ~Full(q) /\ (dp = "gather" \/ AllWait(q))

\* Only requests that may wait, and not a batch of them yet.
WouldWait(q) == Waits /\ q # <<>> /\ ~Full(q) /\ AllWait(q)

\* The first n are the oldest request and those after it that fit with it.
Fitting(q, n) ==
  /\ n > 1 => NumRows(SubSeq(q, 1, n)) <= limit
  /\ n < Len(q) => NumRows(SubSeq(q, 1, n + 1)) > limit

\* The first requests are taken; those of different shapes run one at a time.
Take(q) ==
  \E n \in 1 .. Len(q) :
    /\ Fitting(q, n)
    /\ queue' = SubSeq(q, n + 1, Len(q))
    /\ \/ batch' = SubSeq(q, 1, n) /\ rest' = <<>>
       \/ Mixed /\ n > 1 /\ batch' = SubSeq(q, 1, 1) /\ rest' = SubSeq(q, 2, n)
    /\ dp' = "checkpoint"

\* The loop, from its test of the queue to its next await.
Dispatch(q) ==
  \/ /\ q = <<>> /\ dp' = "sleep"
     /\ UNCHANGED queue /\ batch' = <<>> /\ rest' = <<>>
  \/ /\ WouldWait(q) /\ dp' = "gather"
     /\ UNCHANGED queue /\ batch' = <<>> /\ rest' = <<>>
  \/ q # <<>> /\ ~WouldWait(q) /\ Take(q)

\* _wake.wait() returns, and the event is replaced by a new one.
Woken ==
  /\ dp \in {"sleep", "gather"} /\ wake
  /\ wake' = FALSE
  /\ Dispatch(queue)
  /\ UNCHANGED <<connVars, rowVars, limit, call, jobVars>>

\* max_wait_time has passed since the oldest request arrived.
Deadline ==
  /\ dp = "gather"
  /\ Take(queue)
  /\ UNCHANGED <<connVars, rowVars, limit, wake, call, jobVars>>

Precedes(p, q) == p[1] < q[1] \/ (p[1] = q[1] /\ p[2].row < q[2].row)
Place(p, P)    == Cardinality({q \in P : Precedes(q, p)}) + 1

\* The values at the positions P, in order.
Stacked(value, P) == [j \in 1 .. Cardinality(P) |-> value[CHOOSE p \in P : Place(p, P) = j]]

\* Mutant: every request takes its actions from the first one on.
ShareFromFirst(k, actions, ok) ==
  LET mine == {x \in batch[k].rows : <<k, x>> \in ok}
  IN  [done |-> TRUE, actions |-> SubSeq(actions, 1, Cardinality(mine)), errors |-> batch[k].rows \ mine]

\* Request k's share of the actions of the positions that did not fail (ok), and
\* its errors: ok_seen actions went to the requests before it.
Share(k, actions, ok) ==
  LET mine == {x \in batch[k].rows : <<k, x>> \in ok}
      seen == Cardinality({p \in ok : p[1] < k})
  IN  [done |-> TRUE, actions |-> SubSeq(actions, seen + 1, seen + Cardinality(mine)),
       errors |-> batch[k].rows \ mine]

Stopped(r) == [done |-> TRUE, actions |-> <<>>, errors |-> r.rows]

\* done is set for the requests of q: a handler cancelled meanwhile is not there.
Complete(q, results) ==
  outcome' = [c \in Conns |->
    IF \E k \in DOMAIN q : q[k].conn = c /\ q[k].rows = asked[c]
      THEN results[CHOOSE k \in DOMAIN q : q[k].conn = c /\ q[k].rows = asked[c]]
      ELSE outcome[c]]

\* After _run: the next of the requests to run alone, or the loop.
AfterRun ==
  /\ call' = NoCall
  /\ IF rest # <<>>
       THEN batch' = SubSeq(rest, 1, 1) /\ rest' = Tail(rest) /\ dp' = "checkpoint" /\ UNCHANGED queue
       ELSE Dispatch(queue)

\* Mutant: what ended while queued is inferred all the same.
AllOf(P) == P

\* The positions whose episode still runs.
StillRunning(P) == {p \in P : Current(p[2])}

\* _infer after its checkpoint: ended rows fail, buffered rows are served, and
\* the others go to the model thread, if there are any.
Infer ==
  /\ dp = "checkpoint"
  /\ LET live   == StillRunning(Positions(batch))
         chunks == {p \in live : chunked[p[2].row]}
         served == {p \in chunks : buffers[p[2].row] # <<>>}
         given  == [p \in served |-> Head(buffers[p[2].row])]
         todo   == live \ served
     IN /\ buffers' = Popped({p[2].row : p \in served})
        /\ IF todo # {}
             THEN /\ jobs' = Append(jobs, Dispatcher)
                  /\ call' = [served |-> given, todo |-> todo, chunks |-> chunks]
                  /\ dp' = "model"
                  /\ UNCHANGED <<outcome, queue, batch, rest>>
             ELSE /\ Complete(batch, [k \in DOMAIN batch |-> Share(k, Stacked(given, served), served)])
                  /\ AfterRun
                  /\ UNCHANGED jobs
  /\ UNCHANGED <<at, rows, starts, asked, got, gen, steps, failed, chunked, limit, wake, ran>>

\* The chunk of n actions predicted for x.
ChunkOf(x, n) == [k \in 1 .. n |-> [x EXCEPT !.step = @ + k - 1]]

\* Mutant: the rest of a chunk is kept whatever became of its row.
KeptRegardless(lens) ==
  [r \in Rows |->
    IF \E p \in DOMAIN lens : p[2].row = r /\ lens[p] > 0
      THEN LET p == CHOOSE p \in DOMAIN lens : p[2].row = r /\ lens[p] > 0
           IN Tail(ChunkOf(p[2], lens[p]))
      ELSE buffers[r]]

\* The rest of each chunk of a row whose episode still runs.
Kept(lens) ==
  [r \in Rows |->
    IF \E p \in DOMAIN lens : p[2].row = r /\ Current(p[2]) /\ lens[p] > 0
      THEN LET p == CHOOSE p \in DOMAIN lens : p[2].row = r /\ Current(p[2]) /\ lens[p] > 0
           IN Tail(ChunkOf(p[2], lens[p]))
      ELSE buffers[r]]

\* The model call has returned: positions in bad failed, and the others have an
\* action or, with a chunk size, a chunk; an empty chunk fails its row alone.
InferReturned ==
  /\ dp = "model" /\ Dispatcher \in ran
  /\ ran' = ran \ {Dispatcher}
  /\ \E bad \in SUBSET call.todo : \E lens \in [(call.todo \cap call.chunks) \ bad -> ChunkLens] :
       LET served == DOMAIN call.served
           ok     == served \cup {p \in call.todo \ bad : p \in DOMAIN lens => lens[p] > 0}
           action == [p \in ok |-> IF p \in served THEN call.served[p] ELSE p[2]]
       IN /\ buffers' = Kept(lens)
          /\ Complete(batch, [k \in DOMAIN batch |-> Share(k, Stacked(action, ok), ok)])
  /\ AfterRun
  /\ UNCHANGED <<at, rows, starts, asked, got, gen, steps, failed, chunked, limit, wake, jobs>>

\* Slices of a step that return different keys: the step fails as a whole. How many there
\* are is up to the limit when the model thread reads it, which may be another by now.
InferRaised ==
  /\ dp = "model" /\ Dispatcher \in ran
  /\ call.chunks = {} /\ \E l \in Limits : Cardinality(call.todo) > l
  /\ ran' = ran \ {Dispatcher}
  /\ Complete(batch, [k \in DOMAIN batch |-> Stopped(batch[k])])
  /\ AfterRun
  /\ UNCHANGED <<at, rows, starts, asked, got, rowVars, limit, wake, jobs>>

\* Mutant: only the queue is failed.
StopFailingQueue ==
  /\ dp \in {"sleep", "gather", "checkpoint"}
  /\ Complete(queue, [k \in DOMAIN queue |-> Stopped(queue[k])])
  /\ dp' = "down" /\ queue' = <<>> /\ batch' = <<>> /\ rest' = <<>>
  /\ UNCHANGED <<at, rows, starts, asked, got, rowVars, limit, wake, call, jobVars>>

\* Mutant: the call in flight is abandoned.
StopUnshielded ==
  /\ dp # "down"
  /\ LET all == batch \o rest \o queue IN Complete(all, [k \in DOMAIN all |-> Stopped(all[k])])
  /\ dp' = "down" /\ queue' = <<>> /\ batch' = <<>> /\ rest' = <<>>
  /\ UNCHANGED <<at, rows, starts, asked, got, rowVars, limit, wake, call, jobVars>>

\* serve_async is cancelled: so is the dispatcher, at an await that is not
\* shielded, and no request waits forever.
Stop ==
  /\ dp \in {"sleep", "gather", "checkpoint"}
  /\ LET all == batch \o rest \o queue IN Complete(all, [k \in DOMAIN all |-> Stopped(all[k])])
  /\ dp' = "down" /\ queue' = <<>> /\ batch' = <<>> /\ rest' = <<>>
  /\ UNCHANGED <<at, rows, starts, asked, got, rowVars, limit, wake, call, jobVars>>

\* GET /config?max_batch_size=n.
SetLimit ==
  /\ limit' \in Limits
  /\ UNCHANGED <<connVars, rowVars, queue, wake, dp, batch, rest, call, jobVars>>

\* The model thread takes its calls in order.
RunJob ==
  /\ jobs # <<>>
  /\ jobs' = Tail(jobs)
  /\ ran' = ran \cup {Head(jobs)}
  /\ UNCHANGED <<connVars, rowVars, dispVars>>

-----------------------------------------------------------------------------

Handler(c) == ResetReturned(c) \/ Reply(c) \/ FinishReturned(c)
Engine     == Woken \/ Infer \/ InferReturned \/ InferRaised

Next ==
  \/ \E c \in Conns : Start(c) \/ Observe(c) \/ End(c) \/ Handler(c)
  \/ \E r \in Rows : FailEpisode(r)
  \/ Engine \/ Deadline \/ Stop \/ SetLimit
  \/ RunJob

\* While some task can run, model calls return, or max_wait_time passes, one of them does.
Spec ==
  /\ Init /\ [][Next]_vars
  /\ WF_vars(Engine \/ Deadline \/ RunJob \/ \E c \in Conns : Handler(c))

-----------------------------------------------------------------------------
(* Properties.                                                             *)

\* The types of the variables.
TypeOK ==
  /\ at \in [Conns -> {"idle", "resetting", "running", "asked", "finishing"}]
  /\ \A c \in Conns :
       /\ rows[c] \subseteq Rows /\ (rows[c] = {} <=> at[c] = "idle")
       /\ asked[c] # {} <=> at[c] = "asked"
       /\ outcome[c].done => at[c] = "asked"
       /\ \A d \in Conns \ {c} : rows[c] \cap rows[d] = {}
  /\ limit \in Limits
  /\ dp \in {"sleep", "gather", "checkpoint", "model", "down"}
  /\ dp \in {"checkpoint", "model"} <=> batch # <<>>
  /\ dp = "model" <=> Dispatcher \in Range(jobs) \cup ran

\* Every action sent answers the observation it was predicted for: of its own
\* episode, not of the one the row ran before or of a neighbour in the batch,
\* and at its step, as the first of its chunk or later in it, through merged
\* batches, failed rows and served buffers (_run, _infer, on_observation).
ActionsAnswerTheirObservation ==
  \A c \in Conns : \A reply \in got[c] : reply.action = reply.for

\* A chunk ends with its episode: what a row has buffered was predicted for the
\* episode on it, and a row without one has nothing (_infer, on_episode_end).
ChunksEndWithTheirEpisode ==
  \A r \in Rows :
    LET on == {c \in Conns : r \in rows[c]} IN
    /\ on = {} => buffers[r] = <<>>
    /\ \A c \in on : at[c] \in {"resetting", "running", "asked"} /\ ~failed[r] =>
         \A i \in DOMAIN buffers[r] : buffers[r][i].gen = gen[r]

\* The model never sees an episode after its finish: no inference of its rows
\* is behind finish on the model thread, so finish_episodes may drop the
\* episode's state (_infer's checkpoint; test_a_row_ending_before_the_model_
\* call_is_not_inferred).
NoInferenceAfterFinish ==
  dp = "model" /\ Dispatcher \in Range(jobs) =>
    \A c \in Conns :
      /\ at[c] = "finishing"
      /\ c \in ran \/ \E i, j \in DOMAIN jobs : i < j /\ jobs[i] = c /\ jobs[j] = Dispatcher
      => \A p \in call.todo : p[2].row \notin rows[c]

\* A vector step is not held back for max_wait_time, also when it arrives during
\* another request's wait: the dispatcher is woken (_dispatch_loop; test_a_vector_
\* step_arriving_during_a_batching_wait_does_not_inherit_it).
VectorStepsGo == dp = "gather" /\ ~AllWait(queue) => wake

\* Every request is completed, by an engine that stops as well: on_observation
\* returns (_dispatch, _run's finally).
RequestsComplete == \A c \in Conns : at[c] = "asked" ~> at[c] # "asked"

=============================================================================
