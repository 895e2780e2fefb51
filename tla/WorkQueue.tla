------------------------------ MODULE WorkQueue ------------------------------
(***************************************************************************)
(* The recording database of an evaluation, as far as its shards           *)
(* coordinate through it (src/vla_eval/recording.py): the work_queue,      *)
(* episode_results and eval_shards tables, and one operator per            *)
(* RecordingStore method.  Every method runs in one BEGIN IMMEDIATE        *)
(* transaction, so each operator is one atomic step of the shard that      *)
(* takes it.                                                               *)
(*                                                                         *)
(* A benchmark entry of the configuration has its own eval_id; here its    *)
(* rows are the items i with EntryOf[i] = e.  An item number is the row's  *)
(* position in the concatenation of the entries' work items, so items of   *)
(* an entry are consecutive and sorted by task, as the orchestrator builds *)
(* them.                                                                   *)
(***************************************************************************)
EXTENDS Integers, FiniteSets

CONSTANTS
  NumShards,   \* --num-shards
  NumItems,    \* work items over all the benchmark entries
  NumEntries,  \* entries of the configuration's "benchmarks" list
  EntryOf,     \* the entry of each item
  TaskOf,      \* the task_idx of each item, distinct between entries
  Exclusive    \* Benchmark.task_exclusive

Shards  == 0 .. NumShards - 1
Items   == 0 .. NumItems - 1
Entries == 1 .. NumEntries
Null    == -1                       \* SQL NULL, Python None

ItemsOf(e) == {i \in Items : EntryOf[i] = e}

ASSUME QueueAssumption ==
  /\ NumShards \in Nat \ {0}
  /\ NumItems \in Nat
  /\ NumEntries \in Nat \ {0}
  /\ EntryOf \in [Items -> Entries]
  /\ TaskOf \in [Items -> Nat]
  /\ Exclusive \in BOOLEAN

\* What an episode_results row says: the episode counted (status success or
\* fail), ended in an error, or was skipped.
Status == {"counted", "error", "skipped"}

VARIABLES
  seeded,    \* entries whose rows are in work_queue
  owner,     \* work_queue.shard_id of each item, Null while unclaimed
  done,      \* work_queue.done of each item
  last,      \* status of the item's last episode_results row, "none" without
  counted,   \* whether the item has a row with status success or fail
  complete   \* the eval_shards rows <<shard, entry>> with complete = 1

queueVars  == <<seeded, owner, done>>
resultVars == <<last, counted>>
storeVars  == <<seeded, owner, done, last, counted, complete>>

StoreTypeOK ==
  /\ seeded \in SUBSET Entries
  /\ owner \in [Items -> Shards \cup {Null}]
  /\ done \in [Items -> BOOLEAN]
  /\ last \in [Items -> Status \cup {"none"}]
  /\ counted \in [Items -> BOOLEAN]
  /\ complete \in SUBSET (Shards \X Entries)

StoreInit ==
  /\ seeded = {}
  /\ owner = [i \in Items |-> Null]
  /\ done = [i \in Items |-> FALSE]
  /\ last = [i \in Items |-> "none"]
  /\ counted = [i \in Items |-> FALSE]
  /\ complete = {}

-----------------------------------------------------------------------------
(* RecordingStore.claim: which item a shard is handed next.                *)

\* Mutant: any shard's unfinished rows.
MineOfAnyShard(s, e, exclude) ==
  {i \in ItemsOf(e) : ~done[i] /\ owner[i] # Null /\ i \notin exclude}

\* The shard's own unfinished rows: a rerun after a crash, or a retried skip.
\* exclude names the items that are still running in the process.
Mine(s, e, exclude) ==
  {i \in ItemsOf(e) : ~done[i] /\ owner[i] = s /\ i \notin exclude}

\* Mutant: an exclusive task counts as taken only while an item of it runs.
TakenUnfinished(s, e) ==
  {TaskOf[i] : i \in {j \in ItemsOf(e) : owner[j] # Null /\ owner[j] # s /\ ~done[j]}}

\* Tasks another shard holds an item of, done or not.
Taken(s, e) ==
  {TaskOf[i] : i \in {j \in ItemsOf(e) : owner[j] # Null /\ owner[j] # s}}

\* Mutant: without the "shard_id IS NULL" condition.
FreeIgnoringClaims(s, e) ==
  {i \in ItemsOf(e) : ~done[i] /\ (Exclusive => TaskOf[i] \notin Taken(s, e))}

\* The unclaimed rows the shard may take.
Free(s, e) ==
  {i \in ItemsOf(e) : /\ ~done[i] /\ owner[i] = Null
                      /\ Exclusive => TaskOf[i] \notin Taken(s, e)}

\* home(i): the shard whose block of the entry's items holds i.
Home(i) ==
  LET siblings == ItemsOf(EntryOf[i])
  IN  (Cardinality({j \in siblings : j < i}) * NumShards)
        \div Cardinality(siblings)

\* min and max of a set of items, as a set with that element alone.
Lowest(S)  == {i \in S : \A j \in S : i <= j}
Highest(S) == {i \in S : \A j \in S : j <= i}

\* The free items of the block with the most of them, ties to the later block.
FurthestBehind(F) ==
  LET left(h) == Cardinality({i \in F : Home(i) = h})
  IN  {i \in F : \A h \in Shards :
         \/ left(h) < left(Home(i))
         \/ left(h) = left(Home(i)) /\ h <= Home(i)}

\* The order of preference among free items for shard s with task t loaded.
Preferred(s, t, F) ==
  LET same == {i \in F : TaskOf[i] = t}
      own  == {i \in F : Home(i) = s}
  IN  CASE same \cap own # {}          -> Lowest(same \cap own)
        [] same # {} /\ same \cap own = {} -> Highest(same)
        [] same = {} /\ own # {}       -> Lowest(own)
        [] OTHER                       -> Highest(FurthestBehind(F))

\* Mutant: a shard does not look for its own unfinished item first.
NextItemForgettingMine(s, e, t, exclude) == Preferred(s, t, Free(s, e))

\* What claim() returns when it returns an item, as a set of one.
NextItem(s, e, t, exclude) ==
  IF Mine(s, e, exclude) # {} THEN Lowest(Mine(s, e, exclude))
                              ELSE Preferred(s, t, Free(s, e))

\* claim() returns None.
NothingLeft(s, e, exclude) == Mine(s, e, exclude) = {} /\ Free(s, e) = {}

-----------------------------------------------------------------------------
(* The transactions.  Each names the tables it writes; its caller leaves   *)
(* the others unchanged.                                                   *)

\* set_shard_complete
SetShardComplete(s, e, b) ==
  complete' = IF b THEN complete \cup {<<s, e>>} ELSE complete \ {<<s, e>>}

\* seed_queue: INSERT OR IGNORE, so a later shard's seed changes nothing.
SeedQueue(e) ==
  seeded' = seeded \cup {e} /\ UNCHANGED <<owner, done>>

\* The UPDATE at the end of claim().
TakeItem(s, i) ==
  owner' = [owner EXCEPT ![i] = s] /\ UNCHANGED <<seeded, done>>

\* finish
FinishItem(i) ==
  done' = [done EXCEPT ![i] = TRUE] /\ UNCHANGED <<seeded, owner>>

\* finish_claimed: those of S that some shard claimed.
FinishClaimed(S) ==
  /\ done' = [i \in Items |-> done[i] \/ (i \in S /\ owner[i] # Null)]
  /\ UNCHANGED <<seeded, owner>>

\* release: back to the queue, done or not.
Release(S) ==
  /\ owner' = [i \in Items |-> IF i \in S THEN Null ELSE owner[i]]
  /\ done' = [i \in Items |-> done[i] /\ i \notin S]
  /\ UNCHANGED seeded

\* Mutant: the item's first row is kept (INSERT OR IGNORE by work item).
RecordFirstEpisode(i, status) ==
  /\ last' = [last EXCEPT ![i] = IF @ = "none" THEN status ELSE @]
  /\ counted' = [counted EXCEPT ![i] = @ \/ status = "counted"]

\* EpisodeRecorder.close -> upsert_episode_result: one more row of the item.
RecordEpisode(i, status) ==
  /\ last' = [last EXCEPT ![i] = status]
  /\ counted' = [counted EXCEPT ![i] = @ \/ status = "counted"]

\* Mutant: a claimed item is taken for a counted one.
ClaimedResults(e) == {i \in ItemsOf(e) : owner[i] # Null}

\* completed_results, as _resume reads it: the entry's items with a counted row.
CompletedResults(e) == {i \in ItemsOf(e) : counted[i]}

-----------------------------------------------------------------------------
(* vla-eval export (src/vla_eval/results/export.py).                       *)

\* _build_aggregate's "partial": some row of the queue is not done; without
\* queue rows, some of the shards has no complete eval_shards row.
ExportPartial(e) ==
  IF e \in seeded /\ ItemsOf(e) # {}
    THEN \E i \in ItemsOf(e) : ~done[i]
    ELSE \E s \in Shards : <<s, e>> \notin complete

\* The items with an episode in the aggregate: the last committed row wins and
\* is dropped when it is a skip.
ExportedItems(e) == {i \in ItemsOf(e) : last[i] \in {"counted", "error"}}
=============================================================================
