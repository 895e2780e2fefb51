---------------------------- MODULE ShardRun_proofs ----------------------------
(***************************************************************************)
(* Proofs about ShardRun, for any number of shards, items and entries, any *)
(* assignment of items to tasks and any bound on restarts and reruns.      *)
(***************************************************************************)
EXTENDS ShardRun, FiniteSetTheorems, TLAPS

-----------------------------------------------------------------------------
(* The claim.                                                              *)

\* claim() hands out an unfinished item of the entry: the shard's own, or an
\* unclaimed one and then only when the shard has none of its own.
LEMMA NextItemFacts ==
  ASSUME NEW s \in Shards, NEW e \in Entries, NEW t,
         NEW i \in NextItem(s, e, t, {})
  PROVE  /\ i \in ItemsOf(e) /\ ~done[i]
         /\ \/ owner[i] = s
            \/ i \in Free(s, e) /\ Mine(s, e, {}) = {}
<1>1. CASE Mine(s, e, {}) # {}
  BY <1>1 DEF NextItem, Lowest, Mine
<1>2. CASE Mine(s, e, {}) = {}
  <2>1. i \in Preferred(s, t, Free(s, e))
    BY <1>2 DEF NextItem
  <2>2. Preferred(s, t, Free(s, e)) \subseteq Free(s, e)
    BY DEF Preferred, Lowest, Highest, FurthestBehind
  <2>3. QED
    BY <1>2, <2>1, <2>2 DEF Free
<1>3. QED
  BY <1>1, <1>2

-----------------------------------------------------------------------------
(* Types.                                                                  *)

\* The initial state is typed.
LEMMA TypeInit == Init => TypeOK
BY QueueAssumption, RunAssumption
DEF Init, StoreInit, TypeOK, StoreTypeOK, Shards, Items, Entries, Null, Status,
    PCs, Exits, AllOutcomes

\* A process that ends leaves its shard's variables typed.
LEMMA ExitTypes ==
  ASSUME TypeOK, NEW s \in Shards, NEW how \in Exits, Exit(s, how)
  PROVE  /\ pc' \in [Shards -> PCs]
         /\ entry' \in [Shards -> Entries]
         /\ cur' \in [Shards -> Items \cup {Null}]
         /\ \A r \in Shards : pc'[r] \in {"run", "ended", "health"} => cur'[r] \in Items
         /\ outcome' \in [Shards -> AllOutcomes \cup {"none", "unrecorded"}]
         /\ recorder' \in [Shards -> BOOLEAN]
         /\ task' \in [Shards -> Nat \cup {Null}]
         /\ seen' \in [Shards -> SUBSET Items]
         /\ ok' \in [Shards -> BOOLEAN]
         /\ errs' \in [Shards -> 0 .. UnhealthyAfter - 1]
         /\ failed' \in [Shards -> SUBSET Items]
         /\ exit' \in [Shards -> Exits]
         /\ restarts' \in [Shards -> 0 .. MaxRestarts]
         /\ reruns' \in 0 .. MaxReruns
BY QueueAssumption, RunAssumption DEF TypeOK, Exit, Goto, PCs, Entries

\* Putting a set of items back leaves the queue typed.
LEMMA ReleaseTypes ==
  ASSUME StoreTypeOK, NEW S, Release(S)
  PROVE  /\ seeded' \in SUBSET Entries
         /\ owner' \in [Items -> Shards \cup {Null}]
         /\ done' \in [Items -> BOOLEAN]
BY DEF StoreTypeOK, Release

\* Every step of a shard keeps the types; the end of a process and a release go
\* through their own lemmas.
LEMMA TypeNext == TypeOK /\ [Next]_vars => TypeOK'
<1> SUFFICES ASSUME TypeOK, [Next]_vars
             PROVE  TypeOK'
  OBVIOUS
<1> USE QueueAssumption, RunAssumption
<1>1. CASE UNCHANGED vars
  BY <1>1 DEF TypeOK, StoreTypeOK, vars, storeVars, procVars, loopVars, healthVars, launchVars
<1>2. ASSUME NEW s \in Shards, Launch(s)
      PROVE  TypeOK'
  BY <1>2 DEF Launch, StartProcess, WillRestart, Goto, TypeOK, StoreTypeOK, PCs,
     storeVars, loopVars, healthVars
<1>3. ASSUME NEW s \in Shards, Rerun(s)
      PROVE  TypeOK'
  BY <1>3 DEF Rerun, StartProcess, Goto, TypeOK, StoreTypeOK, PCs,
     storeVars, loopVars, healthVars
<1>4. ASSUME NEW s \in Shards, Die(s)
      PROVE  TypeOK'
  <2>1. PICK how \in Exits : Exit(s, how)
    BY <1>4 DEF Die, Exits
  <2>2. StoreTypeOK'
    BY <1>4 DEF Die, TypeOK, StoreTypeOK, storeVars
  <2>3. QED
    BY <2>1, <2>2, ExitTypes DEF TypeOK
<1>5. ASSUME NEW s \in Shards, BeginEntry(s)
      PROVE  TypeOK'
  BY <1>5 DEF BeginEntry, SetShardComplete, Goto, TypeOK, StoreTypeOK, PCs,
     queueVars, resultVars, loopVars, healthVars, launchVars
<1>6. ASSUME NEW s \in Shards, Seed(s)
      PROVE  TypeOK'
  BY <1>6 DEF Seed, SeedQueue, Goto, TypeOK, StoreTypeOK, PCs,
     resultVars, loopVars, healthVars, launchVars
<1>7. ASSUME NEW s \in Shards, ReadResults(s)
      PROVE  TypeOK'
  BY <1>7 DEF ReadResults, CompletedResults, ItemsOf, Goto, TypeOK, StoreTypeOK, PCs,
     storeVars, healthVars, launchVars
<1>8. ASSUME NEW s \in Shards, Resume(s)
      PROVE  TypeOK'
  BY <1>8 DEF Resume, FinishClaimed, Goto, TypeOK, StoreTypeOK, PCs,
     resultVars, healthVars, launchVars
<1>9. ASSUME NEW s \in Shards, Claim(s)
      PROVE  TypeOK'
  <2>1. PICK i \in NextItem(s, entry[s], task[s], {}) :
          /\ IF owner[i] = s THEN UNCHANGED queueVars ELSE TakeItem(s, i)
          /\ cur' = [cur EXCEPT ![s] = i]
    BY <1>9 DEF Claim
  <2>2. i \in Items
    BY NextItemFacts DEF TypeOK, ItemsOf
  <2>3. QED
    BY <1>9, <2>1, <2>2 DEF Claim, TakeItem, Goto, TypeOK, StoreTypeOK, PCs,
       queueVars, resultVars, healthVars, launchVars
<1>10. ASSUME NEW s \in Shards, Drain(s)
       PROVE  TypeOK'
  BY <1>10 DEF Drain, Goto, TypeOK, StoreTypeOK, PCs, storeVars, healthVars, launchVars
<1>11. ASSUME NEW s \in Shards, RunEpisode(s)
       PROVE  TypeOK'
  BY <1>11 DEF RunEpisode, RecordEpisode, RowStatus, Goto, TypeOK, StoreTypeOK, PCs, Status,
     AllOutcomes, queueVars, launchVars
<1>12. ASSUME NEW s \in Shards, FailWithoutRecorder(s)
       PROVE  TypeOK'
  BY <1>12 DEF FailWithoutRecorder, Goto, TypeOK, StoreTypeOK, PCs, storeVars, healthVars, launchVars
<1>13. ASSUME NEW s \in Shards, StopUnusable(s)
       PROVE  TypeOK'
  <2>1. Exit(s, "unhealthy") /\ Release({cur[s]}) /\ UNCHANGED <<resultVars, complete>>
    BY <1>13 DEF StopUnusable
  <2>2. "unhealthy" \in Exits
    BY DEF Exits
  <2>3. QED
    BY <2>1, <2>2, ExitTypes, ReleaseTypes DEF TypeOK, StoreTypeOK, resultVars
<1>14. ASSUME NEW s \in Shards, AbortEntry(s)
       PROVE  TypeOK'
  BY <1>14 DEF AbortEntry, Goto, TypeOK, StoreTypeOK, PCs, storeVars, loopVars, healthVars, launchVars
<1>15. ASSUME NEW s \in Shards, FinishEpisode(s)
       PROVE  TypeOK'
  BY <1>15 DEF FinishEpisode, FinishItem, Goto, TypeOK, StoreTypeOK, PCs,
     queueVars, resultVars, loopVars, healthVars, launchVars
<1>16. ASSUME NEW s \in Shards, StayHealthy(s)
       PROVE  TypeOK'
  BY <1>16 DEF StayHealthy, Errored, Goto, TypeOK, StoreTypeOK, PCs, storeVars, launchVars
<1>17. ASSUME NEW s \in Shards, StopUnhealthy(s)
       PROVE  TypeOK'
  <2>1. Exit(s, "unhealthy") /\ UNCHANGED <<resultVars, complete>>
    BY <1>17 DEF StopUnhealthy
  <2>2. "unhealthy" \in Exits
    BY DEF Exits
  <2>3. /\ seeded' \in SUBSET Entries
        /\ owner' \in [Items -> Shards \cup {Null}]
        /\ done' \in [Items -> BOOLEAN]
    BY <1>17, ReleaseTypes DEF StopUnhealthy, TypeOK, StoreTypeOK, queueVars
  <2>4. QED
    BY <2>1, <2>2, <2>3, ExitTypes DEF TypeOK, StoreTypeOK, resultVars
<1>18. ASSUME NEW s \in Shards, Finalize(s)
       PROVE  TypeOK'
  <2>1. StoreTypeOK'
    BY <1>18 DEF Finalize, SetShardComplete, TypeOK, StoreTypeOK, queueVars, resultVars
  <2>2. CASE entry[s] < NumEntries
    BY <1>18, <2>1, <2>2 DEF Finalize, Goto, TypeOK, PCs, Entries, healthVars, launchVars
  <2>3. CASE ~(entry[s] < NumEntries)
    <3>1. Exit(s, "ended")
      BY <1>18, <2>3 DEF Finalize
    <3>2. "ended" \in Exits
      BY DEF Exits
    <3>3. QED
      BY <2>1, <3>1, <3>2, ExitTypes DEF TypeOK
  <2>4. QED
    BY <2>2, <2>3
<1>19. QED
  BY <1>1, <1>2, <1>3, <1>4, <1>5, <1>6, <1>7, <1>8, <1>9, <1>10, <1>11, <1>12, <1>13, <1>14,
     <1>15, <1>16, <1>17, <1>18 DEF Next, Step

-----------------------------------------------------------------------------
(* Ownership: nobody else runs an item, and counted results stay.          *)

\* Nothing is owned, run or counted at the start.
LEMMA OwnershipInit == Init => OwnershipInv
BY QueueAssumption DEF Init, StoreInit, OwnershipInv, OffAtFirstEntry, RunnerOwns, OutcomeFits,
   CountedStays, CountedIsFinished, SeenAreCounted, FailedAreOwn, Null

\* A process that ends, putting back items of its own that did not count, keeps
\* the invariant: what it leaves claimed waits for its shard's next process.
LEMMA ExitKeepsOwnership ==
  ASSUME TypeOK, TypeOK', OwnershipInv,
         NEW s \in Shards, NEW how, Exit(s, how),
         NEW S \in SUBSET Items, \A i \in S : owner[i] = s /\ ~counted[i],
         owner' = [i \in Items |-> IF i \in S THEN Null ELSE owner[i]],
         done' = [i \in Items |-> done[i] /\ i \notin S],
         UNCHANGED resultVars
  PROVE  OwnershipInv'
<1>1. /\ pc' = [pc EXCEPT ![s] = "off"] /\ entry' = [entry EXCEPT ![s] = 1]
      /\ cur' = [cur EXCEPT ![s] = Null] /\ outcome' = [outcome EXCEPT ![s] = "none"]
      /\ seen' = [seen EXCEPT ![s] = {}] /\ failed' = [failed EXCEPT ![s] = {}]
      /\ last' = last /\ counted' = counted
  BY DEF Exit, Goto, resultVars
<1> USE QueueAssumption DEF TypeOK, StoreTypeOK, Null, Shards
<1>2. OffAtFirstEntry' /\ SeenAreCounted'
  BY <1>1 DEF OwnershipInv, OffAtFirstEntry, SeenAreCounted
<1>3. RunnerOwns'
  <2> SUFFICES ASSUME NEW r \in Shards, pc'[r] \in {"run", "ended", "health"}
               PROVE  owner'[cur'[r]] = r
    BY DEF RunnerOwns
  <2>1. r # s /\ pc[r] \in {"run", "ended", "health"} /\ cur'[r] = cur[r] /\ cur[r] \in Items
    BY <1>1
  <2>2. owner[cur[r]] = r
    BY <2>1 DEF OwnershipInv, RunnerOwns
  <2>3. QED
    BY <2>1, <2>2
<1>4. OutcomeFits'
  <2> SUFFICES ASSUME NEW r \in Shards, pc'[r] \in {"run", "ended", "health"}
               PROVE  /\ pc'[r] = "run" => ~counted'[cur'[r]] /\ ~done'[cur'[r]]
                      /\ pc'[r] \in {"ended", "health"} =>
                           /\ outcome'[r] # "none"
                           /\ outcome'[r] # "counted" => ~counted'[cur'[r]]
                      /\ pc'[r] = "health" /\ outcome'[r] # "redo" => done'[cur'[r]]
    BY DEF OutcomeFits
  <2>1. /\ r # s /\ pc'[r] = pc[r] /\ cur'[r] = cur[r] /\ cur[r] \in Items
        /\ outcome'[r] = outcome[r]
    BY <1>1
  <2>2. owner[cur[r]] = r
    BY <2>1 DEF OwnershipInv, RunnerOwns
  <2>3. done'[cur[r]] = done[cur[r]]
    BY <2>1, <2>2
  <2>4. QED
    BY <1>1, <2>1, <2>3 DEF OwnershipInv, OutcomeFits
<1>5. CountedStays'
  BY <1>1 DEF OwnershipInv, CountedStays
<1>6. CountedIsFinished'
  <2> SUFFICES ASSUME NEW i \in Items, counted'[i], ~done'[i]
               PROVE  FinishPending(i)'
    BY DEF CountedIsFinished
  <2>1. i \notin S /\ counted[i] /\ ~done[i] /\ owner'[i] = owner[i] /\ owner[i] \in Shards
    BY <1>1 DEF OwnershipInv, CountedStays
  <2>2. FinishPending(i)
    BY <2>1 DEF OwnershipInv, CountedIsFinished
  <2>3. QED
    BY <1>1, <2>1, <2>2 DEF FinishPending
<1>7. FailedAreOwn'
  <2> SUFFICES ASSUME NEW r \in Shards, NEW i \in failed'[r]
               PROVE  owner'[i] = r /\ done'[i] /\ ~counted'[i]
    BY DEF FailedAreOwn
  <2>1. r # s /\ i \in failed[r] /\ i \in Items
    BY <1>1
  <2>2. owner[i] = r /\ done[i] /\ ~counted[i]
    BY <2>1 DEF OwnershipInv, FailedAreOwn
  <2>3. QED
    BY <1>1, <2>1, <2>2
<1>8. QED
  BY <1>2, <1>3, <1>4, <1>5, <1>6, <1>7 DEF OwnershipInv

\* The same, when nothing is put back.
LEMMA DyingKeepsOwnership ==
  ASSUME TypeOK, TypeOK', OwnershipInv,
         NEW s \in Shards, NEW how, Exit(s, how),
         owner' = owner, done' = done, UNCHANGED resultVars
  PROVE  OwnershipInv'
<1> DEFINE S == {}
<1>1. S \in SUBSET Items /\ \A i \in S : owner[i] = s /\ ~counted[i]
  OBVIOUS
<1>2. /\ owner' = [i \in Items |-> IF i \in S THEN Null ELSE owner[i]]
      /\ done' = [i \in Items |-> done[i] /\ i \notin S]
  BY DEF TypeOK, StoreTypeOK
<1> HIDE DEF S
<1>3. QED
  BY <1>1, <1>2, ExitKeepsOwnership

\* A process that starts finds its shard's items as the one before left them,
\* and will resume them before it claims.
LEMMA StartKeepsOwnership ==
  ASSUME TypeOK, OwnershipInv, NEW s \in Shards, pc[s] = "off", StartProcess(s)
  PROVE  OwnershipInv'
<1>1. /\ pc' = [pc EXCEPT ![s] = "begin"]
      /\ owner' = owner /\ done' = done /\ last' = last /\ counted' = counted
      /\ entry' = entry /\ cur' = cur /\ outcome' = outcome /\ seen' = seen /\ failed' = failed
  BY DEF StartProcess, Goto, storeVars, queueVars, resultVars, loopVars, healthVars
<1>2. OffAtFirstEntry' /\ RunnerOwns' /\ OutcomeFits'
  BY <1>1 DEF OwnershipInv, OffAtFirstEntry, RunnerOwns, OutcomeFits, TypeOK
<1>3. CountedStays' /\ SeenAreCounted' /\ FailedAreOwn'
  BY <1>1 DEF OwnershipInv, CountedStays, SeenAreCounted, FailedAreOwn
<1>4. CountedIsFinished'
  <2> SUFFICES ASSUME NEW i \in Items, counted[i], ~done[i]
               PROVE  FinishPending(i)'
    BY <1>1 DEF CountedIsFinished
  <2>1. FinishPending(i) /\ owner[i] \in Shards /\ EntryOf[i] \in Entries
    BY QueueAssumption DEF OwnershipInv, CountedIsFinished, CountedStays, TypeOK, StoreTypeOK
  <2>2. CASE owner[i] = s
    <3>1. entry[s] = 1 /\ pc'[s] = "begin"
      BY <1>1 DEF OwnershipInv, OffAtFirstEntry, TypeOK
    <3>2. 1 < EntryOf[i] \/ EntryOf[i] = 1
      BY <2>1, QueueAssumption DEF Entries
    <3>3. QED
      BY <1>1, <2>2, <3>1, <3>2 DEF FinishPending
  <2>3. CASE owner[i] # s
    <3>1. pc'[owner[i]] = pc[owner[i]]
      BY <1>1, <2>1, <2>3 DEF TypeOK
    <3>2. QED
      BY <1>1, <2>1, <3>1 DEF FinishPending
  <2>4. QED
    BY <2>2, <2>3
<1>5. QED
  BY <1>2, <1>3, <1>4 DEF OwnershipInv

\* Every step keeps the ownership invariant.
LEMMA OwnershipNext == TypeOK /\ TypeOK' /\ OwnershipInv /\ [Next]_vars => OwnershipInv'
<1> SUFFICES ASSUME TypeOK, TypeOK', OwnershipInv, [Next]_vars
             PROVE  OwnershipInv'
  OBVIOUS
<1> USE QueueAssumption, RunAssumption
<1>1. CASE UNCHANGED vars
  BY <1>1 DEF OwnershipInv, OffAtFirstEntry, RunnerOwns, OutcomeFits, CountedStays, CountedIsFinished,
     FinishPending, SeenAreCounted, FailedAreOwn, vars, procVars,
     storeVars, queueVars, resultVars, loopVars, healthVars, launchVars
<1>2. ASSUME NEW s \in Shards, Launch(s)
      PROVE  OwnershipInv'
  BY <1>2, StartKeepsOwnership DEF Launch
<1>3. ASSUME NEW s \in Shards, Rerun(s)
      PROVE  OwnershipInv'
  BY <1>3, StartKeepsOwnership DEF Rerun
<1>4. ASSUME NEW s \in Shards, Die(s)
      PROVE  OwnershipInv'
  <2>1. PICK how \in MayDie : Exit(s, how)
    BY <1>4 DEF Die
  <2>2. owner' = owner /\ done' = done /\ UNCHANGED resultVars
    BY <1>4 DEF Die, storeVars, resultVars
  <2>3. QED
    BY <2>1, <2>2, DyingKeepsOwnership
<1>5. ASSUME NEW s \in Shards, BeginEntry(s)
      PROVE  OwnershipInv'
  BY <1>5 DEF OwnershipInv, OffAtFirstEntry, RunnerOwns, OutcomeFits, CountedStays,
     CountedIsFinished, FinishPending, SeenAreCounted, FailedAreOwn, TypeOK, StoreTypeOK,
     Shards, Null, storeVars, queueVars, resultVars, loopVars, healthVars, launchVars,
     BeginEntry, SetShardComplete, Goto
<1>6. ASSUME NEW s \in Shards, Seed(s)
      PROVE  OwnershipInv'
  BY <1>6 DEF OwnershipInv, OffAtFirstEntry, RunnerOwns, OutcomeFits, CountedStays,
     CountedIsFinished, FinishPending, SeenAreCounted, FailedAreOwn, TypeOK, StoreTypeOK,
     Shards, Null, storeVars, queueVars, resultVars, loopVars, healthVars, launchVars,
     Seed, SeedQueue, Goto
<1>7. ASSUME NEW s \in Shards, ReadResults(s)
      PROVE  OwnershipInv'
  BY <1>7 DEF OwnershipInv, OffAtFirstEntry, RunnerOwns, OutcomeFits, CountedStays,
     CountedIsFinished, FinishPending, SeenAreCounted, FailedAreOwn, TypeOK, StoreTypeOK,
     Shards, Null, storeVars, queueVars, resultVars, loopVars, healthVars, launchVars,
     ReadResults, CompletedResults, ItemsOf, Goto
<1>8. ASSUME NEW s \in Shards, Resume(s)
      PROVE  OwnershipInv'
  <2>1. /\ pc[s] = "resume" /\ pc' = [pc EXCEPT ![s] = "claim"]
        /\ done' = [i \in Items |-> done[i] \/ (i \in seen[s] /\ owner[i] # Null)]
        /\ owner' = owner /\ last' = last /\ counted' = counted
        /\ seen' = [seen EXCEPT ![s] = {}]
        /\ entry' = entry /\ cur' = cur /\ outcome' = outcome /\ failed' = failed
    BY <1>8 DEF Resume, FinishClaimed, Goto, resultVars, healthVars
  <2>2. OffAtFirstEntry' /\ RunnerOwns' /\ SeenAreCounted' /\ CountedStays'
    BY <2>1 DEF OwnershipInv, OffAtFirstEntry, RunnerOwns, SeenAreCounted, CountedStays, TypeOK
  <2>3. OutcomeFits'
    BY <2>1 DEF OwnershipInv, OutcomeFits, SeenAreCounted, TypeOK, StoreTypeOK
  <2>4. FailedAreOwn'
    BY <2>1 DEF OwnershipInv, FailedAreOwn, TypeOK, StoreTypeOK
  <2>5. CountedIsFinished'
    <3> SUFFICES ASSUME NEW i \in Items, counted[i], ~done'[i]
                 PROVE  FinishPending(i)'
      BY <2>1 DEF CountedIsFinished
    <3>1. ~done[i] /\ i \notin seen[s] /\ owner[i] \in Shards
      BY <2>1 DEF OwnershipInv, CountedStays, TypeOK, StoreTypeOK
    <3>2. FinishPending(i)
      BY <3>1 DEF OwnershipInv, CountedIsFinished
    <3>3. CASE owner[i] = s
      BY <2>1, <3>1, <3>2, <3>3 DEF FinishPending
    <3>4. CASE owner[i] # s
      <4>1. pc'[owner[i]] = pc[owner[i]] /\ seen'[owner[i]] = seen[owner[i]]
        BY <2>1, <3>1, <3>4 DEF TypeOK
      <4>2. QED
        BY <2>1, <3>2, <4>1 DEF FinishPending
    <3>5. QED
      BY <3>3, <3>4
  <2>6. QED
    BY <2>2, <2>3, <2>4, <2>5 DEF OwnershipInv
<1>9. ASSUME NEW s \in Shards, Claim(s)
      PROVE  OwnershipInv'
  <2>1. PICK i \in NextItem(s, entry[s], task[s], {}) :
          /\ IF owner[i] = s THEN UNCHANGED queueVars ELSE TakeItem(s, i)
          /\ cur' = [cur EXCEPT ![s] = i]
    BY <1>9 DEF Claim
  <2>2. i \in Items /\ EntryOf[i] = entry[s] /\ ~done[i] /\ owner[i] \in {s, Null}
    BY NextItemFacts DEF TypeOK, ItemsOf, Free
  <2>3. /\ owner' = [owner EXCEPT ![i] = s] /\ done' = done
        /\ last' = last /\ counted' = counted
        /\ pc[s] = "claim" /\ pc' = [pc EXCEPT ![s] = "run"]
        /\ outcome' = [outcome EXCEPT ![s] = "none"]
        /\ entry' = entry /\ seen' = seen /\ failed' = failed
    BY <1>9, <2>1, <2>2 DEF Claim, TakeItem, Goto, TypeOK, StoreTypeOK, queueVars, resultVars, healthVars
  <2>4. ~counted[i]
    <3>1. CASE owner[i] = Null
      BY <2>2, <3>1 DEF OwnershipInv, CountedStays
    <3>2. CASE owner[i] = s
      BY <2>2, <2>3, <3>2 DEF OwnershipInv, CountedIsFinished, FinishPending, TypeOK, Entries
    <3>3. QED
      BY <2>2, <3>1, <3>2
  <2>5. \A r \in Shards : r # s => pc'[r] = pc[r] /\ cur'[r] = cur[r] /\ outcome'[r] = outcome[r]
    BY <2>1, <2>3 DEF TypeOK
  <2>6. /\ pc'[s] = "run" /\ cur'[s] = i /\ outcome'[s] = "none" /\ owner'[i] = s
        /\ \A j \in Items : j # i => owner'[j] = owner[j]
    BY <2>1, <2>2, <2>3 DEF TypeOK, StoreTypeOK
  <2>7. \A r \in Shards : r # s /\ pc[r] \in {"run", "ended", "health"} => cur[r] # i /\ cur[r] \in Items
    <3> SUFFICES ASSUME NEW r \in Shards, r # s, pc[r] \in {"run", "ended", "health"}
                 PROVE  cur[r] # i /\ cur[r] \in Items
      OBVIOUS
    <3>1. cur[r] \in Items
      BY DEF TypeOK
    <3>2. owner[cur[r]] = r
      BY DEF OwnershipInv, RunnerOwns
    <3>3. r # Null
      BY DEF Null, Shards
    <3>4. QED
      BY <2>2, <3>1, <3>2, <3>3
  <2>8. OffAtFirstEntry' /\ SeenAreCounted'
    BY <2>3 DEF OwnershipInv, OffAtFirstEntry, SeenAreCounted, TypeOK
  <2>9. RunnerOwns'
    BY <2>5, <2>6, <2>7 DEF OwnershipInv, RunnerOwns
  <2>10. OutcomeFits'
    BY <2>2, <2>3, <2>4, <2>5, <2>6, <2>7 DEF OwnershipInv, OutcomeFits
  <2>11. CountedStays'
    BY <2>3, <2>4, <2>6 DEF OwnershipInv, CountedStays
  <2>12. CountedIsFinished'
    BY <2>2, <2>3, <2>4, <2>5, <2>6 DEF OwnershipInv, CountedIsFinished, FinishPending, CountedStays, TypeOK,
       StoreTypeOK
  <2>13. FailedAreOwn'
    BY <2>2, <2>3, <2>6 DEF OwnershipInv, FailedAreOwn, TypeOK
  <2>14. QED
    BY <2>8, <2>9, <2>10, <2>11, <2>12, <2>13 DEF OwnershipInv
<1>10. ASSUME NEW s \in Shards, Drain(s)
      PROVE  OwnershipInv'
  BY SMTT(20), <1>10 DEF OwnershipInv, OffAtFirstEntry, RunnerOwns, OutcomeFits, CountedStays,
     CountedIsFinished, FinishPending, SeenAreCounted, FailedAreOwn, TypeOK, StoreTypeOK,
     Shards, Null, storeVars, queueVars, resultVars, loopVars, healthVars, launchVars,
     Drain, Goto
<1>11. ASSUME NEW s \in Shards, RunEpisode(s)
      PROVE  OwnershipInv'
  <2> DEFINE i == cur[s]
  <2>1. PICK o \in AllOutcomes :
          /\ RecordEpisode(i, RowStatus(o))
          /\ outcome' = [outcome EXCEPT ![s] = o]
    BY <1>11 DEF RunEpisode
  <2>2. /\ pc[s] = "run" /\ pc' = [pc EXCEPT ![s] = "ended"]
        /\ owner' = owner /\ done' = done
        /\ entry' = entry /\ cur' = cur /\ seen' = seen /\ failed' = failed
    BY <1>11 DEF RunEpisode, Goto, queueVars
  <2>3. i \in Items /\ owner[i] = s /\ ~counted[i] /\ ~done[i] /\ s # Null
    BY <2>2 DEF OwnershipInv, RunnerOwns, OutcomeFits, TypeOK, Shards, Null
  <2> HIDE DEF i
  <2>4. /\ RowStatus(o) = "counted" <=> o = "counted"
        /\ last' = [last EXCEPT ![i] = RowStatus(o)]
        /\ counted' = [counted EXCEPT ![i] = @ \/ RowStatus(o) = "counted"]
    BY <2>1 DEF RecordEpisode, RowStatus, AllOutcomes
  <2>5. /\ \A j \in Items : j # i => counted'[j] = counted[j] /\ last'[j] = last[j]
        /\ counted'[i] = (o = "counted")
        /\ o = "counted" => last'[i] = "counted"
    <3>1. counted \in [Items -> BOOLEAN] /\ DOMAIN last = Items /\ counted[i] = FALSE
      BY <2>3 DEF TypeOK, StoreTypeOK
    <3>2. counted'[i] = (counted[i] \/ RowStatus(o) = "counted") /\ last'[i] = RowStatus(o)
      BY <2>3, <2>4, <3>1
    <3>3. \A j \in Items : j # i => counted'[j] = counted[j] /\ last'[j] = last[j]
      BY <2>4, <3>1
    <3>4. QED
      BY <2>4, <3>1, <3>2, <3>3
  <2>6. \A r \in Shards : r # s => pc'[r] = pc[r] /\ outcome'[r] = outcome[r]
    BY <2>1, <2>2 DEF TypeOK
  <2>7. pc'[s] = "ended" /\ outcome'[s] = o
    BY <2>1, <2>2 DEF TypeOK
  <2>8. OffAtFirstEntry' /\ RunnerOwns'
    BY <2>2 DEF OwnershipInv, OffAtFirstEntry, RunnerOwns, TypeOK
  <2>9. OutcomeFits'
    <3> SUFFICES ASSUME NEW r \in Shards, pc'[r] \in {"run", "ended", "health"}
                 PROVE  /\ pc'[r] = "run" => ~counted'[cur[r]] /\ ~done[cur[r]]
                        /\ pc'[r] \in {"ended", "health"} =>
                             /\ outcome'[r] # "none"
                             /\ outcome'[r] # "counted" => ~counted'[cur[r]]
                        /\ pc'[r] = "health" /\ outcome'[r] # "redo" => done[cur[r]]
      BY <2>2 DEF OutcomeFits
    <3>1. CASE r = s
      BY <2>5, <2>7, <3>1 DEF AllOutcomes, i
    <3>2. CASE r # s
      <4>1. cur[r] \in Items /\ cur[r] # i
        BY <2>3, <2>6, <3>2 DEF OwnershipInv, RunnerOwns, TypeOK
      <4>2. counted'[cur[r]] = counted[cur[r]]
        BY <2>5, <4>1
      <4>3. QED
        BY <2>6, <3>2, <4>2 DEF OwnershipInv, OutcomeFits
    <3>3. QED
      BY <3>1, <3>2
  <2>10. CountedStays'
    BY <2>2, <2>3, <2>5 DEF OwnershipInv, CountedStays
  <2>11. CountedIsFinished'
    <3> SUFFICES ASSUME NEW j \in Items, counted'[j], ~done[j]
                 PROVE  FinishPending(j)'
      BY <2>2 DEF CountedIsFinished
    <3>1. CASE j = i
      BY <2>2, <2>3, <2>5, <2>7, <3>1 DEF FinishPending, i
    <3>2. CASE j # i
      <4>1. FinishPending(j) /\ owner[j] \in Shards
        BY <2>5, <3>2 DEF OwnershipInv, CountedIsFinished, CountedStays, TypeOK, StoreTypeOK
      <4>2. CASE owner[j] = s
        BY <2>2, <3>2, <4>1, <4>2 DEF FinishPending, i
      <4>3. CASE owner[j] # s
        BY <2>2, <2>6, <4>1, <4>3 DEF FinishPending
      <4>4. QED
        BY <4>2, <4>3
    <3>3. QED
      BY <3>1, <3>2
  <2>12. SeenAreCounted'
    BY <2>2, <2>3, <2>5 DEF OwnershipInv, SeenAreCounted, TypeOK
  <2>13. FailedAreOwn'
    BY <2>2, <2>3, <2>5 DEF OwnershipInv, FailedAreOwn, TypeOK
  <2>14. QED
    BY <2>8, <2>9, <2>10, <2>11, <2>12, <2>13 DEF OwnershipInv
<1>12. ASSUME NEW s \in Shards, FailWithoutRecorder(s)
      PROVE  OwnershipInv'
  BY <1>12 DEF OwnershipInv, OffAtFirstEntry, RunnerOwns, OutcomeFits, CountedStays,
     CountedIsFinished, FinishPending, SeenAreCounted, FailedAreOwn, TypeOK, StoreTypeOK,
     Shards, Null, storeVars, queueVars, resultVars, loopVars, healthVars, launchVars,
     FailWithoutRecorder, Goto
<1>13. ASSUME NEW s \in Shards, StopUnusable(s)
       PROVE  OwnershipInv'
  <2>1. pc[s] = "ended" /\ outcome[s] = "unusable" /\ cur[s] \in Items
    BY <1>13 DEF StopUnusable, TypeOK
  <2>2. owner[cur[s]] = s /\ ~counted[cur[s]]
    BY <2>1 DEF OwnershipInv, RunnerOwns, OutcomeFits
  <2> DEFINE S == {cur[s]}
  <2>3. /\ S \in SUBSET Items /\ \A i \in S : owner[i] = s /\ ~counted[i]
        /\ Release(S) /\ Exit(s, "unhealthy") /\ UNCHANGED resultVars
    BY <1>13, <2>1, <2>2 DEF StopUnusable
  <2> HIDE DEF S
  <2>4. QED
    BY <2>3, ExitKeepsOwnership DEF Release
<1>14. ASSUME NEW s \in Shards, AbortEntry(s)
      PROVE  OwnershipInv'
  <2>1. /\ pc[s] = "ended" /\ outcome[s] # "counted" /\ pc' = [pc EXCEPT ![s] = "aborted"]
        /\ owner' = owner /\ done' = done /\ last' = last /\ counted' = counted
        /\ entry' = entry /\ cur' = cur /\ outcome' = outcome /\ seen' = seen /\ failed' = failed
    BY <1>14 DEF AbortEntry, Goto, storeVars, queueVars, resultVars, loopVars, healthVars
  <2>2. OffAtFirstEntry' /\ RunnerOwns' /\ OutcomeFits'
    BY <2>1 DEF OwnershipInv, OffAtFirstEntry, RunnerOwns, OutcomeFits, TypeOK
  <2>3. CountedStays' /\ SeenAreCounted' /\ FailedAreOwn'
    BY <2>1 DEF OwnershipInv, CountedStays, SeenAreCounted, FailedAreOwn
  <2>4. CountedIsFinished'
    BY <2>1 DEF OwnershipInv, CountedIsFinished, FinishPending, CountedStays, TypeOK, StoreTypeOK
  <2>5. QED
    BY <2>2, <2>3, <2>4 DEF OwnershipInv
<1>15. ASSUME NEW s \in Shards, FinishEpisode(s)
      PROVE  OwnershipInv'
  <2> DEFINE i == cur[s]
  <2>1. /\ pc[s] = "ended" /\ pc' = [pc EXCEPT ![s] = "health"]
        /\ done' = IF outcome[s] = "redo" THEN done ELSE [done EXCEPT ![i] = TRUE]
        /\ owner' = owner /\ last' = last /\ counted' = counted
        /\ entry' = entry /\ cur' = cur /\ outcome' = outcome /\ seen' = seen /\ failed' = failed
    BY <1>15 DEF FinishEpisode, FinishItem, Goto, queueVars, resultVars, loopVars, healthVars
  <2>2. i \in Items /\ owner[i] = s
    BY <2>1 DEF OwnershipInv, RunnerOwns, TypeOK
  <2>3. /\ \A j \in Items : j # i => done'[j] = done[j]
        /\ \A j \in Items : done[j] => done'[j]
        /\ outcome[s] # "redo" => done'[i]
    BY <2>1, <2>2 DEF TypeOK, StoreTypeOK
  <2>4. /\ pc'[s] = "health"
        /\ \A r \in Shards : r # s => pc'[r] = pc[r]
    BY <2>1 DEF TypeOK
  <2>5. OffAtFirstEntry' /\ RunnerOwns'
    BY <2>1, <2>4 DEF OwnershipInv, OffAtFirstEntry, RunnerOwns
  <2>6. OutcomeFits'
    <3>1. \A r \in Shards : r # s /\ pc[r] \in {"run", "ended", "health"} => cur[r] # i /\ cur[r] \in Items
      BY <2>2 DEF OwnershipInv, RunnerOwns, TypeOK
    <3>2. QED
      BY <2>1, <2>3, <2>4, <3>1 DEF OwnershipInv, OutcomeFits, i
  <2>7. CountedStays' /\ SeenAreCounted'
    BY <2>1 DEF OwnershipInv, CountedStays, SeenAreCounted
  <2>8. FailedAreOwn'
    BY <2>1, <2>3 DEF OwnershipInv, FailedAreOwn, TypeOK
  <2>9. CountedIsFinished'
    <3> SUFFICES ASSUME NEW j \in Items, counted[j], ~done'[j]
                 PROVE  FinishPending(j)'
      BY <2>1 DEF CountedIsFinished
    <3>1. FinishPending(j) /\ owner[j] \in Shards
      BY <2>3 DEF OwnershipInv, CountedIsFinished, CountedStays, TypeOK, StoreTypeOK
    <3>2. CASE owner[j] = s
      BY <2>1, <2>3, <3>1, <3>2 DEF FinishPending, i
    <3>3. CASE owner[j] # s
      BY <2>1, <2>4, <3>1, <3>3 DEF FinishPending
    <3>4. QED
      BY <3>2, <3>3
  <2>10. QED
    BY <2>5, <2>6, <2>7, <2>8, <2>9 DEF OwnershipInv
<1>16. ASSUME NEW s \in Shards, StayHealthy(s)
       PROVE  OwnershipInv'
  <2>1. /\ pc[s] = "health" /\ pc' = [pc EXCEPT ![s] = "claim"]
        /\ owner' = owner /\ done' = done /\ last' = last /\ counted' = counted
        /\ cur' = cur /\ entry' = entry /\ outcome' = outcome /\ seen' = seen
    BY <1>16 DEF StayHealthy, Goto, storeVars
  <2>2. OffAtFirstEntry' /\ RunnerOwns' /\ OutcomeFits' /\ CountedStays' /\ SeenAreCounted'
    BY <2>1 DEF OwnershipInv, OffAtFirstEntry, RunnerOwns, OutcomeFits, CountedStays, SeenAreCounted, TypeOK
  <2>3. CountedIsFinished'
    BY <2>1 DEF OwnershipInv, CountedIsFinished, FinishPending, CountedStays, TypeOK, StoreTypeOK
  <2>4. CASE ok[s] \/ ~Errored(s)
    BY <1>16, <2>1, <2>2, <2>3, <2>4 DEF StayHealthy, OwnershipInv, FailedAreOwn
  <2>5. CASE ~(ok[s] \/ ~Errored(s))
    <3>1. failed' = [failed EXCEPT ![s] = @ \cup {cur[s]}]
      BY <1>16, <2>5 DEF StayHealthy
    <3>2. owner[cur[s]] = s /\ done[cur[s]] /\ ~counted[cur[s]]
      BY <2>1, <2>5 DEF Errored, OwnershipInv, RunnerOwns, OutcomeFits
    <3>3. FailedAreOwn'
      BY <2>1, <3>1, <3>2 DEF OwnershipInv, FailedAreOwn, TypeOK
    <3>4. QED
      BY <2>2, <2>3, <3>3 DEF OwnershipInv
  <2>6. QED
    BY <2>4, <2>5
<1>17. ASSUME NEW s \in Shards, StopUnhealthy(s)
       PROVE  OwnershipInv'
  <2>1. Exit(s, "unhealthy") /\ UNCHANGED resultVars
    BY <1>17 DEF StopUnhealthy
  <2>2. CASE RequeueUnhealthy
    <3> DEFINE S == failed[s] \cup {cur[s]}
    <3>1. S \in SUBSET Items
      BY <1>17 DEF StopUnhealthy, TypeOK
    <3>2. \A i \in S : owner[i] = s /\ ~counted[i]
      BY <1>17 DEF StopUnhealthy, Errored, OwnershipInv, FailedAreOwn, RunnerOwns, OutcomeFits
    <3>3. Release(S)
      BY <1>17, <2>2 DEF StopUnhealthy
    <3> HIDE DEF S
    <3>4. QED
      BY <2>1, <3>1, <3>2, <3>3, ExitKeepsOwnership DEF Release
  <2>3. CASE ~RequeueUnhealthy
    <3>1. owner' = owner /\ done' = done
      BY <1>17, <2>3 DEF StopUnhealthy, queueVars
    <3>2. QED
      BY <2>1, <3>1, DyingKeepsOwnership
  <2>4. QED
    BY <2>2, <2>3
<1>18. ASSUME NEW s \in Shards, Finalize(s)
       PROVE  OwnershipInv'
  <2>1. CASE entry[s] < NumEntries
    <3>1. /\ pc[s] \in {"drained", "aborted"} /\ pc' = [pc EXCEPT ![s] = "begin"]
          /\ entry' = [entry EXCEPT ![s] = @ + 1]
          /\ cur' = [cur EXCEPT ![s] = Null] /\ outcome' = [outcome EXCEPT ![s] = "none"]
          /\ owner' = owner /\ done' = done /\ last' = last /\ counted' = counted
          /\ seen' = seen /\ failed' = failed
      BY <1>18, <2>1 DEF Finalize, Goto, queueVars, resultVars, healthVars
    <3>2. OffAtFirstEntry' /\ RunnerOwns' /\ CountedStays' /\ SeenAreCounted' /\ FailedAreOwn'
      BY <3>1 DEF OwnershipInv, OffAtFirstEntry, RunnerOwns, CountedStays, SeenAreCounted, FailedAreOwn, TypeOK
    <3>3. OutcomeFits'
      BY <3>1 DEF OwnershipInv, OutcomeFits, TypeOK
    <3>4. CountedIsFinished'
      <4> SUFFICES ASSUME NEW i \in Items, counted[i], ~done[i]
                   PROVE  FinishPending(i)'
        BY <3>1 DEF CountedIsFinished
      <4>1. FinishPending(i) /\ owner[i] \in Shards
        BY DEF OwnershipInv, CountedIsFinished, CountedStays, TypeOK, StoreTypeOK
      <4>2. CASE owner[i] = s
        BY <3>1, <4>1, <4>2 DEF FinishPending, TypeOK, Entries
      <4>3. CASE owner[i] # s
        BY <3>1, <4>1, <4>3 DEF FinishPending, TypeOK
      <4>4. QED
        BY <4>2, <4>3
    <3>5. QED
      BY <3>2, <3>3, <3>4 DEF OwnershipInv
  <2>2. CASE ~(entry[s] < NumEntries)
    <3>1. Exit(s, "ended") /\ UNCHANGED resultVars
      BY <1>18, <2>2 DEF Finalize
    <3>2. owner' = owner /\ done' = done
      BY <1>18 DEF Finalize, queueVars
    <3>3. QED
      BY <3>1, <3>2, DyingKeepsOwnership
  <2>3. QED
    BY <2>1, <2>2
<1>19. QED
  BY <1>1, <1>2, <1>3, <1>4, <1>5, <1>6, <1>7, <1>8, <1>9, <1>10, <1>11, <1>12, <1>13, <1>14, <1>15, <1>16, <1>17, <1>18 DEF Next, Step

-----------------------------------------------------------------------------
(* Theorems on ownership.                                                  *)

\* Every variable stays in its type: the health counter below UNHEALTHY_AFTER,
\* and a running shard always at an item of the queue.
THEOREM TypeCorrect == Spec => []TypeOK
<1>1. Init => TypeOK
  BY TypeInit
<1>2. TypeOK /\ [Next]_vars => TypeOK'
  BY TypeNext
<1>3. QED
  BY <1>1, <1>2, PTL DEF Spec

\* The ownership invariant holds whatever dies, restarts or is released.
THEOREM OwnershipInvariant == Spec => []OwnershipInv
<1>1. Init => OwnershipInv
  BY OwnershipInit
<1>2. TypeOK /\ TypeOK' /\ OwnershipInv /\ [Next]_vars => OwnershipInv'
  BY OwnershipNext
<1>3. QED
  BY <1>1, <1>2, TypeCorrect, PTL DEF Spec

\* No two processes ever run the same work item (claim and release): an item
\* has one owner, and a shard stays the owner of what it runs.
THEOREM OneRunner == Spec => []OneRunnerPerItem
<1>1. OwnershipInv => OneRunnerPerItem
  BY DEF OwnershipInv, RunnerOwns, OneRunnerPerItem, Busy
<1>2. QED
  BY <1>1, OwnershipInvariant, PTL

\* No shard is handed an item whose episode already counted, even when the
\* process that recorded it died before finishing the item (_resume).
THEOREM CountedNeverRerun == Spec => NoCountedRerun
<1>1. TypeOK /\ TypeOK' /\ OwnershipInv' /\ [Next]_vars
        => [\A s \in Shards : pc[s] = "claim" /\ pc'[s] = "run" => ~counted[cur'[s]]]_vars
  <2> SUFFICES ASSUME TypeOK, TypeOK', OwnershipInv', [Next]_vars, ~ UNCHANGED vars,
                      NEW s \in Shards, pc[s] = "claim", pc'[s] = "run"
               PROVE  ~counted[cur'[s]]
    OBVIOUS
  <2>1. ~counted'[cur'[s]] /\ cur'[s] \in Items
    BY DEF OwnershipInv, OutcomeFits, TypeOK
  <2>2. PICK r \in Shards : Launch(r) \/ Rerun(r) \/ Die(r) \/ Step(r)
    BY DEF Next
  <2>3. CASE RunEpisode(r)
    <3>1. pc'[r] = "ended" /\ (r # s => pc'[s] = pc[s])
      BY <2>3 DEF RunEpisode, Goto, TypeOK
    <3>2. QED
      BY <3>1
  <2>4. CASE ~RunEpisode(r)
    <3>1. counted' = counted
      BY <2>2, <2>4 DEF Launch, Rerun, StartProcess, Die, Step, BeginEntry, Seed, ReadResults, Resume,
         Claim, Drain, FailWithoutRecorder, StopUnusable, AbortEntry, FinishEpisode, StayHealthy,
         StopUnhealthy, Finalize, storeVars, resultVars
    <3>2. QED
      BY <2>1, <3>1
  <2>5. QED
    BY <2>3, <2>4
<1>2. QED
  BY <1>1, TypeCorrect, OwnershipInvariant, PTL DEF Spec, NoCountedRerun

-----------------------------------------------------------------------------
(* How the queue changes: one open item per shard, and whole tasks.        *)

\* Shard s takes the unclaimed item i.
Takes(s, i) ==
  /\ pc[s] = "claim" /\ entry[s] = EntryOf[i]
  /\ i \in Free(s, entry[s]) /\ Mine(s, entry[s], {}) = {}
  /\ owner' = [owner EXCEPT ![i] = s] /\ done' = done

\* No item changes hands, and what stays claimed stays finished.
Keeps ==
  /\ \A i \in Items : owner'[i] \in {owner[i], Null}
  /\ \A i \in Items : done[i] /\ owner'[i] # Null => done'[i]

\* A step that leaves the queue alone keeps the owners.
LEMMA SameQueueKeeps ==
  ASSUME owner' = owner, done' = done
  PROVE  Keeps
BY DEF Keeps

\* So does putting items back.
LEMMA ReleaseKeeps ==
  ASSUME StoreTypeOK, NEW S, Release(S)
  PROVE  Keeps
<1>1. ASSUME NEW i \in Items
      PROVE  owner'[i] \in {owner[i], Null} /\ (done[i] /\ owner'[i] # Null => done'[i])
  <2>1. /\ owner'[i] = IF i \in S THEN Null ELSE owner[i]
        /\ done'[i] = (done[i] /\ i \notin S)
    BY DEF Release
  <2>2. CASE i \in S
    BY <2>1, <2>2
  <2>3. CASE i \notin S
    BY <2>1, <2>3
  <2>4. QED
    BY <2>2, <2>3
<1>2. QED
  BY <1>1 DEF Keeps

\* So does finishing items.
LEMMA FinishKeeps ==
  ASSUME StoreTypeOK, owner' = owner,
         NEW S, done' = [i \in Items |-> done[i] \/ i \in S]
  PROVE  Keeps
BY DEF Keeps

\* A step takes one item, and then is a claim, or it keeps the owners.
LEMMA QueueStep ==
  ASSUME TypeOK, [Next]_vars
  PROVE  Keeps \/ \E s \in Shards, i \in Items : Takes(s, i) /\ Claim(s)
<1>0. StoreTypeOK
  BY DEF TypeOK
<1>1. CASE UNCHANGED vars
  BY <1>1, SameQueueKeeps DEF vars, storeVars
<1>2. ASSUME NEW s \in Shards, Claim(s)
      PROVE  Keeps \/ \E i \in Items : Takes(s, i)
  <2>1. PICK i \in NextItem(s, entry[s], task[s], {}) :
          IF owner[i] = s THEN UNCHANGED queueVars ELSE TakeItem(s, i)
    BY <1>2 DEF Claim
  <2>2. i \in Items /\ EntryOf[i] = entry[s] /\ entry[s] \in Entries
    BY NextItemFacts DEF ItemsOf, TypeOK
  <2>3. CASE owner[i] = s
    BY <2>1, <2>3, SameQueueKeeps DEF queueVars
  <2>4. CASE owner[i] # s
    <3>1. i \in Free(s, entry[s]) /\ Mine(s, entry[s], {}) = {}
      BY <2>2, <2>4, NextItemFacts
    <3>2. Takes(s, i)
      BY <1>2, <2>1, <2>2, <2>4, <3>1 DEF Claim, TakeItem, Takes
    <3>3. QED
      BY <2>2, <3>2
  <2>5. QED
    BY <2>3, <2>4
<1>3. ASSUME NEW s \in Shards, StopUnusable(s)
      PROVE  Keeps
  BY <1>0, <1>3, ReleaseKeeps DEF StopUnusable
<1>4. ASSUME NEW s \in Shards, StopUnhealthy(s)
      PROVE  Keeps
  <2>1. CASE RequeueUnhealthy
    BY <1>0, <1>4, <2>1, ReleaseKeeps DEF StopUnhealthy
  <2>2. CASE ~RequeueUnhealthy
    BY <1>4, <2>2, SameQueueKeeps DEF StopUnhealthy, queueVars
  <2>3. QED
    BY <2>1, <2>2
<1>5. ASSUME NEW s \in Shards,
             Launch(s) \/ Rerun(s) \/ Die(s) \/ BeginEntry(s) \/ Seed(s) \/ ReadResults(s)
               \/ Drain(s) \/ RunEpisode(s) \/ FailWithoutRecorder(s) \/ AbortEntry(s)
               \/ StayHealthy(s) \/ Finalize(s)
      PROVE  Keeps
  <2>1. owner' = owner /\ done' = done
    BY <1>5 DEF Launch, Rerun, StartProcess, Die, BeginEntry, Seed, SeedQueue, ReadResults, Drain,
       RunEpisode, FailWithoutRecorder, AbortEntry, StayHealthy, Finalize, storeVars, queueVars
  <2>2. QED
    BY <2>1, SameQueueKeeps
<1>6. ASSUME NEW s \in Shards, Resume(s)
      PROVE  Keeps
  <2> DEFINE S == {i \in seen[s] : owner[i] # Null}
  <2>1. owner' = owner /\ done' = [i \in Items |-> done[i] \/ i \in S]
    BY <1>6 DEF Resume, FinishClaimed
  <2> HIDE DEF S
  <2>2. QED
    BY <1>0, <2>1, FinishKeeps
<1>7. ASSUME NEW s \in Shards, FinishEpisode(s)
      PROVE  Keeps
  <2>1. CASE UNCHANGED queueVars
    BY <2>1, SameQueueKeeps DEF queueVars
  <2>2. CASE FinishItem(cur[s])
    <3> DEFINE S == {cur[s]}
    <3>1. owner' = owner /\ done' = [done EXCEPT ![cur[s]] = TRUE]
      BY <2>2 DEF FinishItem
    <3>2. done' = [i \in Items |-> done[i] \/ i \in S]
      BY <1>0, <3>1 DEF StoreTypeOK
    <3> HIDE DEF S
    <3>3. QED
      BY <1>0, <3>1, <3>2, FinishKeeps
  <2>3. QED
    BY <1>7, <2>1, <2>2 DEF FinishEpisode
<1>8. QED
  BY <1>1, <1>2, <1>3, <1>4, <1>5, <1>6, <1>7 DEF Next, Step

\* OneOpenItemPerShard without counting.
OpenItemUnique ==
  \A i, j \in Items :
    /\ EntryOf[i] = EntryOf[j] /\ owner[i] = owner[j] /\ owner[i] # Null
    /\ ~done[i] /\ ~done[j]
    => i = j

\* A shard takes an item only when it has none open in the entry.
LEMMA OpenItemUniqueNext == TypeOK /\ OpenItemUnique /\ [Next]_vars => OpenItemUnique'
<1> SUFFICES ASSUME TypeOK, OpenItemUnique, [Next]_vars
             PROVE  OpenItemUnique'
  OBVIOUS
<1>1. CASE Keeps
  BY <1>1 DEF Keeps, OpenItemUnique
<1>2. ASSUME NEW s \in Shards, NEW k \in Items, Takes(s, k)
      PROVE  OpenItemUnique'
  <2>1. \A i \in Items : EntryOf[i] = EntryOf[k] /\ owner[i] = s => done[i]
    BY <1>2 DEF Takes, Mine, ItemsOf
  <2>2. /\ \A i \in Items : i # k => owner'[i] = owner[i]
        /\ owner'[k] = s /\ done' = done
    BY <1>2 DEF Takes, TypeOK, StoreTypeOK
  <2>3. QED
    BY <2>1, <2>2 DEF OpenItemUnique
<1>3. QED
  BY <1>1, <1>2, QueueStep

\* A shard leaves at most one of an entry's items unfinished: its own open item
\* is handed out again before any other (claim's "mine").
THEOREM OneOpenItem == Spec => []OneOpenItemPerShard
<1>1. Init => OpenItemUnique
  BY DEF Init, StoreInit, OpenItemUnique
<1>2. OpenItemUnique => OneOpenItemPerShard
  <2> SUFFICES ASSUME OpenItemUnique, NEW s \in Shards, NEW e \in Entries
               PROVE  Cardinality({i \in ItemsOf(e) : owner[i] = s /\ ~done[i]}) <= 1
    BY DEF OneOpenItemPerShard
  <2> DEFINE Open == {i \in ItemsOf(e) : owner[i] = s /\ ~done[i]}
  <2>1. \A i, j \in Open : i = j
    BY DEF OpenItemUnique, ItemsOf, Shards, Null
  <2>2. CASE Open = {}
    BY <2>2, FS_EmptySet
  <2>3. CASE Open # {}
    <3>1. PICK k \in Open : Open = {k}
      BY <2>1, <2>3
    <3>2. QED
      BY <3>1, FS_Singleton
  <2>4. QED
    BY <2>2, <2>3
<1>3. QED
  BY <1>1, <1>2, OpenItemUniqueNext, TypeCorrect, PTL DEF Spec

\* A shard takes an item of an exclusive task only when no other shard has one.
LEMMA TaskStaysNext == TypeOK /\ TaskStaysInOneShard /\ [Next]_vars => TaskStaysInOneShard'
<1> SUFFICES ASSUME TypeOK, TaskStaysInOneShard, [Next]_vars, Exclusive
             PROVE  TaskStaysInOneShard'
  BY DEF TaskStaysInOneShard
<1>1. CASE Keeps
  BY <1>1 DEF Keeps, TaskStaysInOneShard
<1>2. ASSUME NEW s \in Shards, NEW k \in Items, Takes(s, k)
      PROVE  TaskStaysInOneShard'
  <2>1. \A i \in Items : EntryOf[i] = EntryOf[k] /\ TaskOf[i] = TaskOf[k] /\ owner[i] # Null
                          => owner[i] = s
    BY <1>2 DEF Takes, Free, Taken, ItemsOf
  <2>2. /\ \A i \in Items : i # k => owner'[i] = owner[i]
        /\ owner'[k] = s
    BY <1>2 DEF Takes, TypeOK, StoreTypeOK
  <2>3. QED
    BY <2>1, <2>2 DEF TaskStaysInOneShard
<1>3. QED
  BY <1>1, <1>2, QueueStep

\* A task_exclusive benchmark's task is never split between shards, whatever is
\* released or resumed (claim's "taken").
THEOREM TaskStays == Spec => []TaskStaysInOneShard
<1>1. Init => TaskStaysInOneShard
  BY DEF Init, StoreInit, TaskStaysInOneShard
<1>2. QED
  BY <1>1, TaskStaysNext, TypeCorrect, PTL DEF Spec

-----------------------------------------------------------------------------
(* eval_shards.complete: what a shard marked complete has left behind.     *)

\* The parts of ProgressInv about seeding and the complete flags.
FlagsInv == SeededBeforeRead /\ OpenIsIncomplete /\ CompleteIsSeeded

\* A step of a process within its entry: it has seeded the entry, or is only
\* about to begin it.
Inside(s, l) ==
  /\ pc[s] \notin {"off", "begin", "seed"} \/ l = "begin"
  /\ pc' = [pc EXCEPT ![s] = l]
  /\ UNCHANGED <<entry, seeded, complete>>

\* A step within an entry keeps the flags.
LEMMA InsideKeepsFlags ==
  ASSUME TypeOK, FlagsInv, NEW s \in Shards, NEW l, Inside(s, l)
  PROVE  FlagsInv'
BY DEF TypeOK, StoreTypeOK, FlagsInv, SeededBeforeRead, OpenIsIncomplete, CompleteIsSeeded, Inside

\* The end of a process keeps the flags.
LEMMA ExitKeepsFlags ==
  ASSUME TypeOK, FlagsInv, NEW s \in Shards, NEW how, Exit(s, how), UNCHANGED <<seeded, complete>>
  PROVE  FlagsInv'
BY DEF TypeOK, StoreTypeOK, FlagsInv, SeededBeforeRead, OpenIsIncomplete, CompleteIsSeeded, Exit, Goto

\* Every step keeps the flags.
LEMMA FlagsNext == TypeOK /\ FlagsInv /\ [Next]_vars => FlagsInv'
<1> SUFFICES ASSUME TypeOK, FlagsInv, [Next]_vars
             PROVE  FlagsInv'
  OBVIOUS
<1>1. CASE UNCHANGED vars
  BY <1>1 DEF FlagsInv, SeededBeforeRead, OpenIsIncomplete, CompleteIsSeeded, vars, procVars, storeVars
<1>2. ASSUME NEW s \in Shards, Launch(s) \/ Rerun(s)
      PROVE  FlagsInv'
  <2>1. Inside(s, "begin")
    BY <1>2 DEF Launch, Rerun, StartProcess, Goto, Inside, storeVars
  <2>2. QED
    BY <2>1, InsideKeepsFlags
<1>3. ASSUME NEW s \in Shards, Die(s)
      PROVE  FlagsInv'
  BY <1>3, ExitKeepsFlags DEF Die, storeVars
<1>4. ASSUME NEW s \in Shards, BeginEntry(s)
      PROVE  FlagsInv'
  BY <1>4 DEF BeginEntry, SetShardComplete, Goto, queueVars, TypeOK, StoreTypeOK,
     FlagsInv, SeededBeforeRead, OpenIsIncomplete, CompleteIsSeeded
<1>5. ASSUME NEW s \in Shards, Seed(s)
      PROVE  FlagsInv'
  BY <1>5 DEF Seed, SeedQueue, Goto, TypeOK, StoreTypeOK,
     FlagsInv, SeededBeforeRead, OpenIsIncomplete, CompleteIsSeeded
<1>6. ASSUME NEW s \in Shards,
             ReadResults(s) \/ Resume(s) \/ Claim(s) \/ Drain(s) \/ RunEpisode(s)
               \/ FailWithoutRecorder(s) \/ AbortEntry(s) \/ FinishEpisode(s) \/ StayHealthy(s)
      PROVE  FlagsInv'
  <2>1. pc[s] \in {"read", "resume", "claim", "run", "ended", "health"}
    BY <1>6 DEF ReadResults, Resume, Claim, Drain, RunEpisode, FailWithoutRecorder, AbortEntry,
       FinishEpisode, StayHealthy
  <2>2. UNCHANGED <<entry, seeded, complete>>
    BY <1>6 DEF ReadResults, Resume, FinishClaimed, Claim, TakeItem, Drain, RunEpisode,
       FailWithoutRecorder, AbortEntry, FinishEpisode, FinishItem, StayHealthy, storeVars, queueVars
  <2>3. \E l \in PCs : pc' = [pc EXCEPT ![s] = l]
    BY <1>6 DEF ReadResults, Resume, Claim, Drain, RunEpisode, FailWithoutRecorder, AbortEntry,
       FinishEpisode, StayHealthy, Goto, PCs
  <2>4. PICK l \in PCs : Inside(s, l)
    BY <2>1, <2>2, <2>3 DEF Inside
  <2>5. QED
    BY <2>4, InsideKeepsFlags
<1>7. ASSUME NEW s \in Shards, StopUnusable(s) \/ StopUnhealthy(s)
      PROVE  FlagsInv'
  <2>1. Exit(s, "unhealthy") /\ UNCHANGED <<seeded, complete>>
    BY <1>7 DEF StopUnusable, StopUnhealthy, Release, queueVars
  <2>2. QED
    BY <2>1, ExitKeepsFlags
<1>8. ASSUME NEW s \in Shards, Finalize(s)
      PROVE  FlagsInv'
  <2>1. /\ pc[s] \in {"drained", "aborted"} /\ entry[s] \in seeded
        /\ seeded' = seeded
        /\ \A r \in Shards, e \in Entries :
             <<r, e>> \in complete' => <<r, e>> \in complete \/ <<r, e>> = <<s, entry[s]>>
    BY <1>8 DEF Finalize, SetShardComplete, FlagsInv, SeededBeforeRead, queueVars
  <2>2. pc' = [pc EXCEPT ![s] = "begin"] \/ pc' = [pc EXCEPT ![s] = "off"]
    BY <1>8 DEF Finalize, Exit, Goto
  <2>3. \A r \in Shards : r # s => pc'[r] = pc[r] /\ entry'[r] = entry[r]
    BY <1>8 DEF Finalize, Exit, Goto, TypeOK
  <2>4. pc'[s] \in {"off", "begin"}
    BY <2>2 DEF TypeOK
  <2>5. SeededBeforeRead'
    BY <2>1, <2>3, <2>4 DEF FlagsInv, SeededBeforeRead
  <2>6. OpenIsIncomplete'
    BY <2>1, <2>3, <2>4 DEF FlagsInv, OpenIsIncomplete, TypeOK
  <2>7. CompleteIsSeeded'
    BY <2>1 DEF FlagsInv, CompleteIsSeeded
  <2>8. QED
    BY <2>5, <2>6, <2>7 DEF FlagsInv
<1>9. QED
  BY <1>1, <1>2, <1>3, <1>4, <1>5, <1>6, <1>7, <1>8 DEF Next, Step

\* What a shard has drained stays drained until it begins an entry.
LEMMA DrainedNext ==
  TypeOK /\ TypeOK' /\ DrainedOwesNothing /\ [Next]_vars => DrainedOwesNothing'
<1> SUFFICES ASSUME TypeOK, TypeOK', DrainedOwesNothing, [Next]_vars,
                    NEW s \in Shards, pc'[s] = "drained",
                    NEW i \in ItemsOf(entry'[s]), owner'[i] = s
             PROVE  done'[i]
  BY DEF DrainedOwesNothing
<1>1. i \in Items
  BY DEF ItemsOf
<1>2. \/ pc[s] = "drained" /\ entry'[s] = entry[s]
      \/ Drain(s)
      \/ UNCHANGED vars
  <2>1. CASE UNCHANGED vars
    BY <2>1
  <2>2. ASSUME NEW r \in Shards, Launch(r) \/ Rerun(r) \/ Die(r) \/ Step(r), ~Drain(r)
        PROVE  pc[s] = "drained" /\ entry'[s] = entry[s]
    <3>1. /\ \E l : l # "drained" /\ pc' = [pc EXCEPT ![r] = l]
          /\ \/ entry' = entry
             \/ \E e : entry' = [entry EXCEPT ![r] = e]
      BY <2>2 DEF Launch, Rerun, StartProcess, Die, Exit, Step, BeginEntry, Seed, ReadResults, Resume,
         Claim, RunEpisode, FailWithoutRecorder, StopUnusable, AbortEntry, FinishEpisode,
         StayHealthy, StopUnhealthy, Finalize, Goto
    <3>2. r # s
      BY <3>1 DEF TypeOK
    <3>3. QED
      BY <3>1, <3>2 DEF TypeOK
  <2>3. ASSUME NEW r \in Shards, Drain(r), r # s
        PROVE  pc[s] = "drained" /\ entry'[s] = entry[s]
    BY <2>3 DEF Drain, Goto, TypeOK
  <2>4. QED
    BY <2>1, <2>2, <2>3 DEF Next
<1>3. CASE Drain(s)
  BY <1>3 DEF Drain, NothingLeft, Mine, ItemsOf, storeVars
<1>4. CASE UNCHANGED vars
  BY <1>4 DEF DrainedOwesNothing, vars, procVars, storeVars
<1>5. CASE pc[s] = "drained" /\ entry'[s] = entry[s]
  <2>1. CASE Keeps
    BY <1>1, <1>5, <2>1 DEF Keeps, DrainedOwesNothing, Shards, Null
  <2>2. ASSUME NEW r \in Shards, NEW k \in Items, Takes(r, k), Claim(r)
        PROVE  done'[i]
    <3>1. r # s
      BY <1>5, <2>2 DEF Takes
    <3>2. owner[i] = s /\ done' = done
      BY <1>1, <2>2, <3>1 DEF Takes, TypeOK, StoreTypeOK
    <3>3. QED
      BY <1>5, <3>2 DEF DrainedOwesNothing
  <2>3. QED
    BY <2>1, <2>2, QueueStep
<1>6. QED
  BY <1>2, <1>3, <1>4, <1>5

\* A shard is only marked complete for an entry it has drained, and takes no item
\* of that entry before it takes the mark away.
LEMMA CompleteNext ==
  TypeOK /\ FlagsInv /\ DrainedOwesNothing /\ CompleteShardOwesNothing /\ [Next]_vars
    => CompleteShardOwesNothing'
<1> SUFFICES ASSUME TypeOK, FlagsInv, DrainedOwesNothing, CompleteShardOwesNothing, [Next]_vars,
                    NEW s \in Shards, NEW e \in Entries, <<s, e>> \in complete',
                    NEW i \in ItemsOf(e), owner'[i] = s
             PROVE  done'[i]
  BY DEF CompleteShardOwesNothing
<1>1. i \in Items /\ EntryOf[i] = e
  BY DEF ItemsOf
<1>2. <<s, e>> \in complete \/ (Finalize(s) /\ pc[s] = "drained" /\ e = entry[s])
  <2>1. CASE complete' = complete
    BY <2>1
  <2>2. ASSUME NEW r \in Shards, BeginEntry(r)
        PROVE  <<s, e>> \in complete
    BY <2>2 DEF BeginEntry, SetShardComplete
  <2>3. ASSUME NEW r \in Shards, Finalize(r)
        PROVE  <<s, e>> \in complete \/ (Finalize(s) /\ pc[s] = "drained" /\ e = entry[s])
    <3>1. complete' = IF pc[r] = "drained" THEN complete \cup {<<r, entry[r]>>}
                                           ELSE complete \ {<<r, entry[r]>>}
      BY <2>3 DEF Finalize, SetShardComplete
    <3>2. QED
      BY <2>3, <3>1
  <2>4. ASSUME NEW r \in Shards, Launch(r) \/ Rerun(r) \/ Die(r) \/ Step(r),
               ~BeginEntry(r), ~Finalize(r)
        PROVE  complete' = complete
    BY <2>4 DEF Launch, Rerun, StartProcess, Die, Step, Seed, ReadResults, Resume,
       Claim, Drain, RunEpisode, FailWithoutRecorder, StopUnusable, AbortEntry, FinishEpisode,
       StayHealthy, StopUnhealthy, storeVars
  <2>5. CASE UNCHANGED vars
    BY <2>5 DEF vars, storeVars
  <2>6. QED
    BY <2>1, <2>2, <2>3, <2>4, <2>5 DEF Next
<1>3. CASE Finalize(s) /\ pc[s] = "drained" /\ e = entry[s]
  BY <1>3 DEF Finalize, queueVars, DrainedOwesNothing
<1>4. CASE <<s, e>> \in complete
  <2>1. CASE Keeps
    BY <1>1, <1>4, <2>1 DEF Keeps, CompleteShardOwesNothing, Shards, Null
  <2>2. ASSUME NEW r \in Shards, NEW k \in Items, Takes(r, k)
        PROVE  done'[i]
    <3>1. k # i
      BY <1>1, <1>4, <2>2 DEF Takes, FlagsInv, OpenIsIncomplete, TypeOK, StoreTypeOK
    <3>2. owner[i] = s /\ done' = done
      BY <1>1, <2>2, <3>1 DEF Takes, TypeOK, StoreTypeOK
    <3>3. QED
      BY <1>4, <3>2 DEF CompleteShardOwesNothing
  <2>3. QED
    BY <2>1, <2>2, QueueStep
<1>5. QED
  BY <1>2, <1>3, <1>4

\* The progress invariant holds, over several entries and reruns by hand.
THEOREM ProgressInvariant == Spec => []ProgressInv
<1>1. Init => ProgressInv
  BY DEF Init, StoreInit, ProgressInv, SeededBeforeRead, OpenIsIncomplete, CompleteIsSeeded,
     DrainedOwesNothing, CompleteShardOwesNothing
<1>2. TypeOK /\ TypeOK' /\ ProgressInv /\ [Next]_vars => ProgressInv'
  BY FlagsNext, DrainedNext, CompleteNext DEF ProgressInv, FlagsInv
<1>3. QED
  BY <1>1, <1>2, TypeCorrect, PTL DEF Spec

\* A shard marked complete for an entry (eval_shards.complete) holds no
\* unfinished item of it, also after a rerun of the entry.
THEOREM CompleteOwesNothing == Spec => []CompleteShardOwesNothing
<1>1. ProgressInv => CompleteShardOwesNothing
  BY DEF ProgressInv
<1>2. QED
  BY <1>1, ProgressInvariant, PTL

-----------------------------------------------------------------------------
(* All shards complete: nothing waits in the queue.                        *)

\* A step of a shard leaves the place of every other where it is.
LEMMA OthersKeepTheirPlace ==
  ASSUME TypeOK, NEW r \in Shards, Launch(r) \/ Rerun(r) \/ Die(r) \/ Step(r),
         NEW s \in Shards, s # r
  PROVE  /\ pc'[s] = pc[s] /\ entry'[s] = entry[s]
         /\ cur'[s] = cur[s] /\ failed'[s] = failed[s]
         /\ \A e \in Entries : <<s, e>> \in complete' <=> <<s, e>> \in complete
<1>1. CASE Launch(r) \/ Rerun(r) \/ Die(r)
  BY <1>1 DEF Launch, Rerun, StartProcess, Die, Exit, Goto, TypeOK, storeVars, loopVars, healthVars
<1>2. CASE StopUnusable(r) \/ StopUnhealthy(r)
  BY <1>2 DEF StopUnusable, StopUnhealthy, Exit, Goto, TypeOK
<1>3. CASE Finalize(r)
  <2>1. /\ pc' = [pc EXCEPT ![r] = pc'[r]] /\ entry' = [entry EXCEPT ![r] = entry'[r]]
        /\ cur' = [cur EXCEPT ![r] = Null]
        /\ failed' = failed \/ failed' = [failed EXCEPT ![r] = {}]
    <3>1. CASE entry[r] < NumEntries
      BY <1>3, <3>1 DEF Finalize, Goto, healthVars, TypeOK
    <3>2. CASE ~(entry[r] < NumEntries)
      BY <1>3, <3>2 DEF Finalize, Exit, Goto, TypeOK
    <3>3. QED
      BY <3>1, <3>2
  <2>2. complete' = complete \cup {<<r, entry[r]>>} \/ complete' = complete \ {<<r, entry[r]>>}
    BY <1>3 DEF Finalize, SetShardComplete
  <2>3. QED
    BY <2>1, <2>2 DEF TypeOK
<1>4. CASE BeginEntry(r) \/ Seed(r) \/ ReadResults(r) \/ Resume(r) \/ Claim(r) \/ Drain(r)
  BY <1>4 DEF BeginEntry, SetShardComplete, Seed, ReadResults, Resume, Claim, Drain, Goto,
     TypeOK, storeVars, loopVars, healthVars
<1>5. CASE RunEpisode(r) \/ FailWithoutRecorder(r) \/ AbortEntry(r) \/ FinishEpisode(r) \/ StayHealthy(r)
  BY <1>5 DEF RunEpisode, FailWithoutRecorder, AbortEntry, FinishEpisode, StayHealthy, Goto,
     TypeOK, storeVars, loopVars, healthVars
<1>6. QED
  BY <1>1, <1>2, <1>3, <1>4, <1>5 DEF Step

\* A shard stays at items of its entry, and fails none of a later one.
LEMMA WorksInOrderNext == TypeOK /\ TypeOK' /\ WorksInOrder /\ [Next]_vars => WorksInOrder'
<1> SUFFICES ASSUME TypeOK, TypeOK', WorksInOrder, [Next]_vars, NEW s \in Shards
             PROVE  /\ pc'[s] \in {"run", "ended", "health"} => EntryOf[cur'[s]] = entry'[s]
                    /\ \A i \in failed'[s] : EntryOf[i] <= entry'[s]
  BY DEF WorksInOrder
<1> USE QueueAssumption
<1>0. /\ pc[s] \in {"run", "ended", "health"} => EntryOf[cur[s]] = entry[s] /\ cur[s] \in Items
      /\ \A i \in failed[s] : EntryOf[i] <= entry[s] /\ i \in Items
      /\ \A i \in Items : EntryOf[i] \in 1 .. NumEntries
      /\ entry[s] \in 1 .. NumEntries
  BY DEF WorksInOrder, TypeOK, Entries
<1>1. CASE UNCHANGED vars
  BY <1>0, <1>1 DEF vars, procVars, loopVars, healthVars
<1>2. ASSUME NEW r \in Shards, Launch(r) \/ Rerun(r) \/ Die(r) \/ Step(r), r # s
      PROVE  /\ pc'[s] \in {"run", "ended", "health"} => EntryOf[cur'[s]] = entry'[s]
             /\ \A i \in failed'[s] : EntryOf[i] <= entry'[s]
  BY <1>0, <1>2, OthersKeepTheirPlace
<1>3. CASE Launch(s) \/ Rerun(s) \/ BeginEntry(s) \/ Seed(s) \/ ReadResults(s) \/ Resume(s) \/ Drain(s)
             \/ AbortEntry(s)
  <2>1. /\ pc'[s] \notin {"run", "ended", "health"}
        /\ failed'[s] = failed[s] /\ entry'[s] = entry[s]
    BY <1>3 DEF Launch, Rerun, StartProcess, BeginEntry, Seed, ReadResults, Resume, Drain, AbortEntry,
       Goto, TypeOK, healthVars
  <2>2. QED
    BY <1>0, <2>1
<1>4. CASE Die(s) \/ StopUnusable(s) \/ StopUnhealthy(s)
  <2>1. PICK how : Exit(s, how)
    BY <1>4 DEF Die, StopUnusable, StopUnhealthy
  <2>2. pc'[s] = "off" /\ failed'[s] = {}
    BY <2>1 DEF Exit, Goto, TypeOK
  <2>3. QED
    BY <2>2
<1>5. CASE Finalize(s)
  <2>1. CASE entry[s] < NumEntries
    <3>1. pc'[s] = "begin" /\ failed'[s] = failed[s] /\ entry'[s] = entry[s] + 1
      BY <1>5, <2>1 DEF Finalize, Goto, TypeOK, healthVars
    <3>2. QED
      BY <1>0, <3>1
  <2>2. CASE ~(entry[s] < NumEntries)
    BY <1>5, <2>2 DEF Finalize, Exit, Goto, TypeOK
  <2>3. QED
    BY <2>1, <2>2
<1>6. CASE Claim(s)
  <2>1. PICK i \in NextItem(s, entry[s], task[s], {}) : cur' = [cur EXCEPT ![s] = i]
    BY <1>6 DEF Claim
  <2>2. EntryOf[i] = entry[s]
    BY NextItemFacts DEF ItemsOf, TypeOK
  <2>3. failed'[s] = failed[s] /\ entry'[s] = entry[s]
    BY <1>6 DEF Claim, healthVars
  <2>4. QED
    BY <1>0, <2>1, <2>2, <2>3 DEF TypeOK
<1>7. CASE RunEpisode(s) \/ FailWithoutRecorder(s) \/ FinishEpisode(s)
  <2>1. /\ pc[s] \in {"run", "ended"}
        /\ failed'[s] = failed[s] /\ entry'[s] = entry[s] /\ cur'[s] = cur[s]
    BY <1>7 DEF RunEpisode, FailWithoutRecorder, FinishEpisode, healthVars, loopVars
  <2>2. QED
    BY <1>0, <2>1
<1>8. CASE StayHealthy(s)
  <2>1. /\ pc[s] = "health" /\ pc'[s] = "claim"
        /\ failed'[s] \subseteq failed[s] \cup {cur[s]} /\ entry'[s] = entry[s]
    BY <1>8 DEF StayHealthy, Goto, TypeOK
  <2>2. QED
    BY <1>0, <2>1
<1>9. QED
  BY <1>1, <1>2, <1>3, <1>4, <1>5, <1>6, <1>7, <1>8 DEF Next, Step

\* The shards work in order, in every reachable state.
LEMMA WorkInOrder == Spec => []WorksInOrder
<1>1. Init => WorksInOrder
  BY DEF Init, WorksInOrder
<1>2. QED
  BY <1>1, WorksInOrderNext, TypeCorrect, PTL DEF Spec

\* A process that ends looks again at what its shard had not got past.
LEMMA ExitStillLooks ==
  ASSUME TypeOK, NEW s \in Shards, NEW how, Exit(s, how), complete' = complete,
         NEW i \in Items, StillLooks(s, i)
  PROVE  StillLooks(s, i)'
<1>1. pc'[s] = "off" /\ entry'[s] = 1
  BY DEF Exit, Goto, TypeOK
<1>2. EntryOf[i] \in Nat /\ 1 <= EntryOf[i]
  BY QueueAssumption DEF Entries
<1>3. QED
  BY <1>1, <1>2 DEF StillLooks

\* Only draining the item's entry takes a shard past an item.
LEMMA LooksStays ==
  ASSUME TypeOK, OpenIsIncomplete, [Next]_vars,
         NEW s \in Shards, NEW i \in Items, StillLooks(s, i),
         ~(Drain(s) /\ entry[s] = EntryOf[i])
  PROVE  StillLooks(s, i)'
<1>0. /\ EntryOf[i] \in Entries /\ entry[s] \in Entries
      /\ \A e \in Entries : e \in Nat
  BY QueueAssumption DEF TypeOK, Entries
<1>1. CASE UNCHANGED vars
  BY <1>1 DEF vars, storeVars, procVars, StillLooks
<1>2. ASSUME NEW r \in Shards, Launch(r) \/ Rerun(r) \/ Die(r) \/ Step(r), r # s
      PROVE  StillLooks(s, i)'
  BY <1>0, <1>2, OthersKeepTheirPlace DEF StillLooks
<1>3. CASE Launch(s) \/ Rerun(s)
  <2>1. pc[s] = "off" /\ pc'[s] = "begin" /\ entry' = entry /\ complete' = complete
    BY <1>3 DEF Launch, Rerun, StartProcess, Goto, TypeOK, storeVars
  <2>2. QED
    BY <2>1 DEF StillLooks
<1>4. CASE Die(s) \/ StopUnusable(s) \/ StopUnhealthy(s)
  <2>1. PICK how : Exit(s, how)
    BY <1>4 DEF Die, StopUnusable, StopUnhealthy
  <2>2. complete' = complete
    BY <1>4 DEF Die, StopUnusable, StopUnhealthy, storeVars
  <2>3. QED
    BY <2>1, <2>2, ExitStillLooks
<1>5. CASE BeginEntry(s)
  <2>1. /\ pc[s] = "begin" /\ pc'[s] = "seed" /\ entry' = entry
        /\ complete' = complete \ {<<s, entry[s]>>}
    BY <1>5 DEF BeginEntry, SetShardComplete, Goto, TypeOK
  <2>2. QED
    BY <1>0, <2>1 DEF StillLooks
<1>6. CASE Finalize(s)
  <2>1. /\ pc[s] \in {"drained", "aborted"}
        /\ complete' = IF pc[s] = "drained" THEN complete \cup {<<s, entry[s]>>}
                                            ELSE complete \ {<<s, entry[s]>>}
    BY <1>6 DEF Finalize, SetShardComplete
  <2>2. CASE entry[s] < NumEntries
    <3>1. pc'[s] = "begin" /\ entry'[s] = entry[s] + 1
      BY <1>6, <2>2 DEF Finalize, Goto, TypeOK
    <3>2. CASE entry[s] < EntryOf[i]
      <4>1. entry'[s] < EntryOf[i] \/ (entry'[s] = EntryOf[i] /\ pc'[s] = "begin")
        BY <1>0, <3>1, <3>2
      <4>2. \A later \in Entries : later > EntryOf[i] /\ <<s, later>> \notin complete
                                     => <<s, later>> \notin complete'
        BY <1>0, <2>1, <3>2
      <4>3. <<s, EntryOf[i]>> \notin complete => <<s, EntryOf[i]>> \notin complete'
        BY <1>0, <2>1, <3>2
      <4>4. QED
        BY <3>1, <4>1, <4>2, <4>3 DEF StillLooks
    <3>3. CASE ~(entry[s] < EntryOf[i])
      BY <1>0, <2>1, <3>1, <3>3 DEF StillLooks
    <3>4. QED
      BY <3>2, <3>3
  <2>3. CASE ~(entry[s] < NumEntries)
    <3>1. pc'[s] = "off" /\ entry[s] = NumEntries
      BY <1>0, <1>6, <2>3, QueueAssumption DEF Finalize, Exit, Goto, TypeOK, Entries
    <3>2. ~(entry[s] < EntryOf[i])
      BY <1>0, <3>1 DEF Entries
    <3>3. QED
      BY <1>0, <2>1, <3>1, <3>2 DEF StillLooks
  <2>4. QED
    BY <2>2, <2>3
<1>7. CASE Drain(s) /\ entry[s] # EntryOf[i]
  <2>1. /\ pc[s] = "claim" /\ entry' = entry /\ complete' = complete
    BY <1>7 DEF Drain, storeVars
  <2>2. QED
    BY <1>7, <2>1 DEF StillLooks
<1>8. CASE \/ Seed(s) \/ ReadResults(s) \/ Resume(s) \/ Claim(s)
           \/ RunEpisode(s) \/ FailWithoutRecorder(s) \/ AbortEntry(s) \/ FinishEpisode(s) \/ StayHealthy(s)
  <2>1. /\ pc[s] \notin {"off", "begin"} /\ pc'[s] # "drained"
        /\ entry' = entry /\ complete' = complete
    BY <1>8 DEF Seed, ReadResults, Resume, Claim, RunEpisode, FailWithoutRecorder, AbortEntry,
       FinishEpisode, StayHealthy, Goto, TypeOK, storeVars
  <2>2. QED
    BY <2>1 DEF StillLooks
<1>9. QED
  BY <1>1, <1>2, <1>3, <1>4, <1>5, <1>6, <1>7, <1>8 DEF Next, Step

\* A shard that may take a waiting item still may after a step that gives no item
\* away: it has not drained the entry, or it would have taken the item.
LEMMA MayTakeStays ==
  ASSUME TypeOK, OpenIsIncomplete, [Next]_vars, NEW s \in Shards, NEW i \in Items, MayTake(s, i),
         owner[i] = Null, ~done[i],
         \A j \in Items : owner'[j] \in {owner[j], Null}
  PROVE  MayTake(s, i)'
<1>1. Taken(s, EntryOf[i])' \subseteq Taken(s, EntryOf[i])
  BY DEF Taken, ItemsOf
<1>2. ~(Drain(s) /\ entry[s] = EntryOf[i])
  BY DEF Drain, NothingLeft, Free, ItemsOf, MayTake
<1>3. StillLooks(s, i)'
  BY <1>2, LooksStays DEF MayTake
<1>4. QED
  BY <1>1, <1>3 DEF MayTake

\* A claim of another item of i's exclusive task leaves i to the shard that claims.
LEMMA ClaimLeavesTaker ==
  ASSUME TypeOK, TypeOK', FlagsInv, WaitingHasTaker, [Next]_vars,
         NEW s \in Shards, NEW k \in Items, Takes(s, k), Claim(s)
  PROVE  WaitingHasTaker'
<1>1. /\ pc[s] = "claim" /\ pc' = [pc EXCEPT ![s] = "run"] /\ complete' = complete
      /\ owner' = [owner EXCEPT ![k] = s] /\ done' = done /\ entry' = entry
  BY DEF Claim, Takes, Goto
<1>2. /\ \A j \in Items : j # k => owner'[j] = owner[j]
      /\ owner'[k] = s /\ s # Null
  BY <1>1 DEF Shards, Null, TypeOK, StoreTypeOK
<1> SUFFICES ASSUME NEW i \in Items, owner'[i] = Null, ~done'[i]
             PROVE  \E r \in Shards : MayTake(r, i)'
  BY DEF WaitingHasTaker
<1> DEFINE e == EntryOf[i]
<1>3. owner[i] = Null /\ ~done[i]
  BY <1>1, <1>2
<1>4. PICK r \in Shards : MayTake(r, i)
  BY <1>3 DEF WaitingHasTaker
<1>5. CASE Exclusive /\ EntryOf[k] = e /\ TaskOf[k] = TaskOf[i]
  <2>1. TaskOf[i] \notin Taken(s, e) /\ entry[s] = e
    BY <1>5 DEF Takes, Free, ItemsOf
  <2>2. \A j \in Items : owner'[j] # Null /\ owner'[j] # s => owner[j] # Null /\ owner[j] # s
    BY <1>2
  <2>3. TaskOf[i] \notin Taken(s, e)'
    BY <2>1, <2>2 DEF Taken, ItemsOf
  <2>4. <<s, e>> \notin complete' /\ pc'[s] = "run"
    BY <1>1, <2>1 DEF FlagsInv, OpenIsIncomplete, TypeOK
  <2>5. QED
    BY <2>3, <2>4 DEF MayTake, StillLooks
<1>6. CASE ~(Exclusive /\ EntryOf[k] = e /\ TaskOf[k] = TaskOf[i])
  <2>1. Exclusive => TaskOf[i] \notin Taken(r, e)
    BY <1>4 DEF MayTake
  <2>2. Exclusive => TaskOf[i] \notin Taken(r, e)'
    BY <1>2, <1>6, <2>1 DEF Taken, ItemsOf
  <2>3. ~Drain(r)
    BY <1>1 DEF Drain, Goto, TypeOK
  <2>4. StillLooks(r, i)'
    BY <1>4, <2>3, LooksStays DEF MayTake, FlagsInv
  <2>5. QED
    BY <2>2, <2>4 DEF MayTake
<1>7. QED
  BY <1>5, <1>6

\* A shard that stops puts back only items it may take again itself: it comes by
\* their entries again before it is complete, and no other shard has an item of
\* their exclusive tasks.
LEMMA StopLeavesTaker ==
  ASSUME TypeOK, FlagsInv, TaskStaysInOneShard, WaitingHasTaker, [Next]_vars,
         NEW s \in Shards, pc[s] \in {"ended", "health"}, Exit(s, "unhealthy"),
         complete' = complete,
         NEW S \in SUBSET Items, \A i \in S : owner[i] = s /\ EntryOf[i] <= entry[s], Release(S)
  PROVE  WaitingHasTaker'
<1>1. /\ \A j \in Items : owner'[j] = IF j \in S THEN Null ELSE owner[j]
      /\ \A j \in Items : j \notin S => done'[j] = done[j]
  BY DEF Release, TypeOK, StoreTypeOK
<1>2. pc'[s] = "off" /\ entry'[s] = 1
  BY DEF Exit, Goto, TypeOK
<1> SUFFICES ASSUME NEW i \in Items, owner'[i] = Null, ~done'[i]
             PROVE  \E r \in Shards : MayTake(r, i)'
  BY DEF WaitingHasTaker
<1>3. CASE i \in S
  <2>1. <<s, entry[s]>> \notin complete'
    BY DEF FlagsInv, OpenIsIncomplete
  <2>2. StillLooks(s, i)'
    <3>1. /\ EntryOf[i] \in Nat /\ 1 <= EntryOf[i] /\ EntryOf[i] <= entry[s]
          /\ entry[s] \in Entries /\ entry[s] \in Nat
      BY <1>3, QueueAssumption DEF Entries, TypeOK
    <3>2. CASE EntryOf[i] = entry[s]
      BY <1>2, <2>1, <3>2 DEF StillLooks
    <3>3. CASE entry[s] > EntryOf[i]
      BY <1>2, <2>1, <3>1, <3>3 DEF StillLooks
    <3>4. QED
      BY <3>1, <3>2, <3>3
  <2>3. ASSUME Exclusive
        PROVE  TaskOf[i] \notin Taken(s, EntryOf[i])
    <3>1. owner[i] = s /\ s # Null
      BY <1>3 DEF Shards, Null
    <3>2. \A j \in Items : owner[j] # Null /\ EntryOf[j] = EntryOf[i] /\ TaskOf[j] = TaskOf[i] => owner[j] = s
      BY <2>3, <3>1 DEF TaskStaysInOneShard
    <3>3. QED
      BY <3>2 DEF Taken, ItemsOf
  <2>4. Taken(s, EntryOf[i])' \subseteq Taken(s, EntryOf[i])
    BY <1>1 DEF Taken, ItemsOf
  <2>5. QED
    BY <2>2, <2>3, <2>4 DEF MayTake
<1>4. CASE i \notin S
  <2>1. owner[i] = Null /\ ~done[i]
    BY <1>1, <1>4
  <2>2. PICK r \in Shards : MayTake(r, i)
    BY <2>1 DEF WaitingHasTaker
  <2>3. MayTake(r, i)'
    BY <1>1, <2>1, <2>2, MayTakeStays DEF FlagsInv
  <2>4. QED
    BY <2>3
<1>5. QED
  BY <1>3, <1>4

\* Every step leaves a taker for what waits.
LEMMA WaitingHasTakerNext ==
  ASSUME TypeOK, TypeOK', OwnershipInv, FlagsInv, WorksInOrder, TaskStaysInOneShard,
         WaitingHasTaker, [Next]_vars
  PROVE  WaitingHasTaker'
<1> USE QueueAssumption
<1>1. ASSUME owner' = owner, \A i \in Items : done[i] => done'[i]
      PROVE  WaitingHasTaker'
  BY <1>1, MayTakeStays DEF WaitingHasTaker, FlagsInv
<1>2. CASE UNCHANGED vars
  BY <1>1, <1>2 DEF vars, storeVars
<1>3. ASSUME NEW s \in Shards, Claim(s)
      PROVE  WaitingHasTaker'
  <2>1. PICK i \in NextItem(s, entry[s], task[s], {}) :
          IF owner[i] = s THEN UNCHANGED queueVars ELSE TakeItem(s, i)
    BY <1>3 DEF Claim
  <2>2. i \in ItemsOf(entry[s]) /\ (owner[i] = s \/ (i \in Free(s, entry[s]) /\ Mine(s, entry[s], {}) = {}))
    BY NextItemFacts DEF TypeOK
  <2>3. CASE owner[i] = s
    BY <1>1, <2>1, <2>3 DEF queueVars
  <2>4. CASE owner[i] # s
    <3>1. Takes(s, i) /\ i \in Items
      BY <1>3, <2>1, <2>2, <2>4 DEF Claim, Takes, TakeItem, ItemsOf
    <3>2. QED
      BY <1>3, <3>1, ClaimLeavesTaker
  <2>5. QED
    BY <2>3, <2>4
<1>4. ASSUME NEW s \in Shards, StopUnusable(s)
      PROVE  WaitingHasTaker'
  <2> DEFINE S == {cur[s]}
  <2>1. S \in SUBSET Items /\ \A i \in S : owner[i] = s /\ EntryOf[i] <= entry[s]
    BY <1>4 DEF StopUnusable, TypeOK, OwnershipInv, RunnerOwns, WorksInOrder, Entries
  <2>2. /\ Release(S) /\ Exit(s, "unhealthy") /\ complete' = complete
        /\ pc[s] \in {"ended", "health"}
    BY <1>4 DEF StopUnusable
  <2> HIDE DEF S
  <2>3. QED
    BY <2>1, <2>2, StopLeavesTaker
<1>5. ASSUME NEW s \in Shards, StopUnhealthy(s)
      PROVE  WaitingHasTaker'
  <2>1. Exit(s, "unhealthy") /\ complete' = complete /\ pc[s] \in {"ended", "health"}
    BY <1>5 DEF StopUnhealthy
  <2>2. CASE RequeueUnhealthy
    <3> DEFINE S == failed[s] \cup {cur[s]}
    <3>1. S \in SUBSET Items
      BY <1>5 DEF StopUnhealthy, TypeOK
    <3>2. \A i \in S : owner[i] = s /\ EntryOf[i] <= entry[s]
      BY <1>5 DEF StopUnhealthy, OwnershipInv, FailedAreOwn, RunnerOwns, WorksInOrder, TypeOK, Entries
    <3>3. Release(S)
      BY <1>5, <2>2 DEF StopUnhealthy
    <3> HIDE DEF S
    <3>4. QED
      BY <2>1, <3>1, <3>2, <3>3, StopLeavesTaker
  <2>3. CASE ~RequeueUnhealthy
    BY <1>1, <1>5, <2>3 DEF StopUnhealthy, queueVars
  <2>4. QED
    BY <2>2, <2>3
<1>6. ASSUME NEW s \in Shards,
             Launch(s) \/ Rerun(s) \/ Die(s) \/ BeginEntry(s) \/ Seed(s) \/ ReadResults(s)
               \/ Resume(s) \/ Drain(s) \/ RunEpisode(s) \/ FailWithoutRecorder(s) \/ AbortEntry(s)
               \/ FinishEpisode(s) \/ StayHealthy(s) \/ Finalize(s)
      PROVE  WaitingHasTaker'
  <2>1. owner' = owner
    BY <1>6 DEF Launch, Rerun, StartProcess, Die, BeginEntry, Seed, SeedQueue,
       ReadResults, Resume, FinishClaimed, Drain, RunEpisode, FailWithoutRecorder, AbortEntry, FinishEpisode,
       FinishItem, StayHealthy, Finalize, storeVars, queueVars
  <2>2. \A i \in Items : done[i] => done'[i]
    BY <1>6 DEF Launch, Rerun, StartProcess, Die, BeginEntry, Seed, SeedQueue,
       ReadResults, Resume, FinishClaimed, Drain, RunEpisode, FailWithoutRecorder, AbortEntry, FinishEpisode,
       FinishItem, StayHealthy, Finalize, storeVars, queueVars, TypeOK, StoreTypeOK
  <2>3. QED
    BY <1>1, <2>1, <2>2
<1>7. QED
  BY <1>2, <1>3, <1>4, <1>5, <1>6 DEF Next, Step

\* An item that no shard has and nobody finished always has a shard that may take
\* it, however many shards stop and put items back, of the entry they are in or of
\* earlier ones: one that comes by its entry before it is complete, and for an
\* exclusive task the right one.
THEOREM WaitingItemsHaveTakers == Spec => []WaitingHasTaker
<1>1. Init => WaitingHasTaker
  <2>1. 0 \in Shards
    BY QueueAssumption DEF Shards
  <2>2. Init => \A i \in Items : MayTake(0, i)
    BY <2>1 DEF Init, StoreInit, MayTake, StillLooks, Taken, ItemsOf
  <2>3. QED
    BY <2>1, <2>2 DEF WaitingHasTaker
<1>2. TypeOK /\ TypeOK' /\ OwnershipInv /\ ProgressInv /\ WorksInOrder /\ TaskStaysInOneShard
        /\ WaitingHasTaker /\ [Next]_vars => WaitingHasTaker'
  BY WaitingHasTakerNext DEF ProgressInv, FlagsInv
<1>3. QED
  BY <1>1, <1>2, TypeCorrect, OwnershipInvariant, ProgressInvariant, WorkInOrder, TaskStays, PTL DEF Spec

\* Once every shard is marked complete for every entry the queue is empty,
\* whichever shards released items on the way (eval_shards.complete).
THEOREM AllCompleteAllDone == Spec => []AllCompleteMeansAllDone
<1>1. TypeOK /\ ProgressInv /\ WaitingHasTaker => AllCompleteMeansAllDone
  <2> SUFFICES ASSUME TypeOK, ProgressInv, WaitingHasTaker,
                      \A s \in Shards, e \in Entries : <<s, e>> \in complete,
                      NEW i \in Items, ~done[i]
               PROVE  FALSE
    BY DEF AllCompleteMeansAllDone
  <2>1. EntryOf[i] \in Entries /\ i \in ItemsOf(EntryOf[i])
    BY QueueAssumption DEF ItemsOf
  <2>2. CASE owner[i] = Null
    BY <2>1, <2>2 DEF WaitingHasTaker, MayTake, StillLooks
  <2>3. CASE owner[i] # Null
    BY <2>1, <2>3 DEF ProgressInv, CompleteShardOwesNothing, TypeOK, StoreTypeOK
  <2>4. QED
    BY <2>2, <2>3
<1>2. QED
  BY <1>1, WaitingItemsHaveTakers, TypeCorrect, ProgressInvariant, PTL

-----------------------------------------------------------------------------
(* The record comes before the finish, when recorders can be built.        *)

\* Nothing erases an item's rows: only an episode's end writes one.
LEMMA RowsStay ==
  ASSUME TypeOK, [Next]_vars
  PROVE  \A i \in Items : last'[i] = last[i] \/ last'[i] # "none"
<1>1. ASSUME NEW s \in Shards, RunEpisode(s)
      PROVE  \A i \in Items : last'[i] = last[i] \/ last'[i] # "none"
  <2>1. PICK o \in Outcomes : last' = [last EXCEPT ![cur[s]] = RowStatus(o)]
    BY <1>1 DEF RunEpisode, RecordEpisode
  <2>2. RowStatus(o) # "none"
    BY DEF RowStatus
  <2>3. QED
    BY <2>1, <2>2 DEF TypeOK, StoreTypeOK
<1>2. ASSUME NEW s \in Shards, Launch(s) \/ Rerun(s) \/ Die(s) \/ Step(s), ~RunEpisode(s)
      PROVE  last' = last
  BY <1>2 DEF Launch, Rerun, StartProcess, Die, Step, BeginEntry, Seed, ReadResults, Resume,
     Claim, Drain, FailWithoutRecorder, StopUnusable, AbortEntry, FinishEpisode,
     StayHealthy, StopUnhealthy, Finalize, storeVars, resultVars
<1>3. CASE UNCHANGED vars
  BY <1>3 DEF vars, storeVars
<1>4. QED
  BY <1>1, <1>2, <1>3 DEF Next

\* A process keeps the recorder it was started with, and starts with a good one.
LEMMA WithRecorderNext ==
  ASSUME Recorders \subseteq {TRUE}, TypeOK, WithRecorder, [Next]_vars
  PROVE  WithRecorder'
<1>1. CASE UNCHANGED vars
  BY <1>1 DEF WithRecorder, vars, procVars, launchVars
<1>2. ASSUME NEW s \in Shards, Launch(s) \/ Rerun(s)
      PROVE  WithRecorder'
  <2>1. pc' = [pc EXCEPT ![s] = "begin"] /\ recorder' = [recorder EXCEPT ![s] = TRUE]
    BY <1>2 DEF Launch, Rerun, StartProcess, Goto
  <2>2. QED
    BY <2>1 DEF WithRecorder, TypeOK
<1>3. ASSUME NEW s \in Shards, Die(s) \/ StopUnusable(s) \/ StopUnhealthy(s) \/ Finalize(s)
      PROVE  WithRecorder'
  <2>1. pc[s] # "off" /\ recorder' = recorder
    BY <1>3 DEF Die, StopUnusable, StopUnhealthy, Finalize, Exit, launchVars
  <2>2. \E l : pc' = [pc EXCEPT ![s] = l]
    BY <1>3 DEF Die, StopUnusable, StopUnhealthy, Finalize, Exit, Goto
  <2>3. QED
    BY <2>1, <2>2 DEF WithRecorder, TypeOK
<1>4. ASSUME NEW s \in Shards, Step(s), ~StopUnusable(s), ~StopUnhealthy(s), ~Finalize(s)
      PROVE  WithRecorder'
  <2>1. pc[s] # "off" /\ recorder' = recorder
    BY <1>4 DEF Step, BeginEntry, Seed, ReadResults, Resume, Claim, Drain, RunEpisode,
       FailWithoutRecorder, AbortEntry, FinishEpisode, StayHealthy, launchVars
  <2>2. \E l : pc' = [pc EXCEPT ![s] = l]
    BY <1>4 DEF Step, BeginEntry, Seed, ReadResults, Resume, Claim, Drain, RunEpisode,
       FailWithoutRecorder, AbortEntry, FinishEpisode, StayHealthy, Goto
  <2>3. QED
    BY <2>1, <2>2 DEF WithRecorder, TypeOK
<1>5. QED
  BY <1>1, <1>2, <1>3, <1>4 DEF Next

\* An episode that has ended has its row: with a recorder, no episode ends
\* without writing one.
LEMMA EndedIsRecordedNext ==
  ASSUME TypeOK, TypeOK', WithRecorder, EndedIsRecorded, [Next]_vars
  PROVE  EndedIsRecorded'
<1> SUFFICES ASSUME NEW s \in Shards, pc'[s] \in {"ended", "health"}
             PROVE  last'[cur'[s]] # "none"
  BY DEF EndedIsRecorded
<1>1. CASE pc[s] \in {"ended", "health"} /\ cur'[s] = cur[s]
  <2>1. last[cur[s]] # "none" /\ cur[s] \in Items
    BY <1>1 DEF EndedIsRecorded, TypeOK
  <2>2. QED
    BY <1>1, <2>1, RowsStay
<1>2. CASE RunEpisode(s)
  <2>1. cur' = cur /\ cur[s] \in Items
    BY <1>2 DEF RunEpisode, TypeOK
  <2>2. PICK o \in Outcomes : last' = [last EXCEPT ![cur[s]] = RowStatus(o)]
    BY <1>2 DEF RunEpisode, RecordEpisode
  <2>3. RowStatus(o) # "none"
    BY DEF RowStatus
  <2>4. QED
    BY <2>1, <2>2, <2>3 DEF TypeOK, StoreTypeOK
<1>3. \/ pc[s] \in {"ended", "health"} /\ cur'[s] = cur[s]
      \/ RunEpisode(s)
  <2>1. CASE UNCHANGED vars
    BY <2>1 DEF vars, procVars, loopVars
  <2>2. ASSUME NEW r \in Shards, RunEpisode(r), r # s
        PROVE  pc'[s] = pc[s] /\ cur'[s] = cur[s]
    BY <2>2 DEF RunEpisode, Goto, TypeOK
  <2>3. ~FailWithoutRecorder(s)
    BY DEF FailWithoutRecorder, WithRecorder
  <2>4. ASSUME NEW r \in Shards, FinishEpisode(r) \/ FailWithoutRecorder(r)
        PROVE  pc[s] \in {"ended", "health"} /\ cur'[s] = cur[s]
    <3>1. cur' = cur
      BY <2>4 DEF FinishEpisode, FailWithoutRecorder, loopVars
    <3>2. CASE r = s
      BY <2>3, <2>4, <3>1, <3>2 DEF FinishEpisode
    <3>3. CASE r # s
      BY <2>4, <3>1, <3>3 DEF FinishEpisode, FailWithoutRecorder, Goto, TypeOK
    <3>4. QED
      BY <3>2, <3>3
  <2>5. ASSUME NEW r \in Shards, Launch(r) \/ Rerun(r) \/ Die(r) \/ Step(r),
               ~RunEpisode(r), ~FinishEpisode(r), ~FailWithoutRecorder(r)
        PROVE  pc[s] \in {"ended", "health"} /\ cur'[s] = cur[s]
    <3>1. /\ \E l : l \notin {"ended", "health"} /\ pc' = [pc EXCEPT ![r] = l]
          /\ cur' = cur \/ \E i : cur' = [cur EXCEPT ![r] = i]
      BY <2>5 DEF Launch, Rerun, StartProcess, Die, Exit, Step, BeginEntry, Seed, ReadResults, Resume,
         Claim, Drain, StopUnusable, AbortEntry, StayHealthy, StopUnhealthy, Finalize, Goto, loopVars
    <3>2. r # s
      BY <3>1 DEF TypeOK
    <3>3. QED
      BY <3>1, <3>2 DEF TypeOK
  <2>6. QED
    BY <2>1, <2>2, <2>4, <2>5 DEF Next
<1>4. QED
  BY <1>1, <1>2, <1>3

\* An item is finished after its episode's row, or because _resume found it
\* among the counted results.
LEMMA DoneIsRecordedNext ==
  ASSUME TypeOK, TypeOK', OwnershipInv, EndedIsRecorded, DoneIsRecorded, [Next]_vars
  PROVE  DoneIsRecorded'
<1> SUFFICES ASSUME NEW i \in Items, done'[i]
             PROVE  last'[i] # "none"
  BY DEF DoneIsRecorded
<1>1. CASE done[i]
  BY <1>1, RowsStay DEF DoneIsRecorded
<1>2. ASSUME NEW s \in Shards, FinishEpisode(s), i = cur[s]
      PROVE  last'[i] # "none"
  BY <1>2, RowsStay DEF FinishEpisode, EndedIsRecorded
<1>3. ASSUME NEW s \in Shards, Resume(s), i \in seen[s]
      PROVE  last'[i] # "none"
  <2>1. last[i] = "counted"
    BY <1>3 DEF OwnershipInv, SeenAreCounted, CountedStays
  <2>2. QED
    BY <2>1, RowsStay
<1>4. \/ done[i]
      \/ \E s \in Shards : FinishEpisode(s) /\ i = cur[s]
      \/ \E s \in Shards : Resume(s) /\ i \in seen[s]
  <2>1. CASE UNCHANGED vars
    BY <2>1 DEF vars, storeVars
  <2>2. ASSUME NEW s \in Shards, FinishEpisode(s), i # cur[s]
        PROVE  done[i]
    BY <2>2 DEF FinishEpisode, FinishItem, queueVars, TypeOK, StoreTypeOK
  <2>3. ASSUME NEW s \in Shards, Resume(s), i \notin seen[s]
        PROVE  done[i]
    BY <2>3 DEF Resume, FinishClaimed
  <2>4. ASSUME NEW s \in Shards, StopUnusable(s) \/ StopUnhealthy(s)
        PROVE  done[i]
    <3>1. done' = done \/ \E S : done' = [j \in Items |-> done[j] /\ j \notin S]
      BY <2>4 DEF StopUnusable, StopUnhealthy, Release, queueVars
    <3>2. QED
      BY <3>1
  <2>5. ASSUME NEW s \in Shards, Launch(s) \/ Rerun(s) \/ Die(s) \/ Step(s), ~FinishEpisode(s),
               ~Resume(s), ~StopUnusable(s), ~StopUnhealthy(s)
        PROVE  done' = done
    BY <2>5 DEF Launch, Rerun, StartProcess, Die, Step, BeginEntry, Seed, SeedQueue, ReadResults,
       Claim, TakeItem, Drain, RunEpisode, FailWithoutRecorder, AbortEntry, StayHealthy, Finalize,
       storeVars, queueVars
  <2>6. QED
    BY <2>1, <2>2, <2>3, <2>4, <2>5 DEF Next
<1>5. QED
  BY <1>1, <1>2, <1>3, <1>4

\* Where recorders can be built, the recording invariant holds: every process has
\* one, and every episode that ended has its row.
THEOREM RecordedInvariant == Recorders \subseteq {TRUE} /\ Spec => []RecordedInv
<1> SUFFICES ASSUME Recorders \subseteq {TRUE}
             PROVE  Spec => []RecordedInv
  OBVIOUS
<1>1. Init => RecordedInv
  BY DEF Init, StoreInit, RecordedInv, WithRecorder, EndedIsRecorded, DoneIsRecorded
<1>2. TypeOK /\ TypeOK' /\ OwnershipInv /\ RecordedInv /\ [Next]_vars => RecordedInv'
  BY WithRecorderNext, EndedIsRecordedNext, DoneIsRecordedNext DEF RecordedInv
<1>3. QED
  BY <1>1, <1>2, TypeCorrect, OwnershipInvariant, PTL DEF Spec

\* Where recorders can be built, an item the queue calls finished has its
\* episode's row: finish() runs once the recording is durable.
THEOREM DoneAfterRecord == Recorders \subseteq {TRUE} /\ Spec => []DoneIsRecorded
<1>1. RecordedInv => DoneIsRecorded
  BY DEF RecordedInv
<1>2. QED
  BY <1>1, RecordedInvariant, PTL

\* What export reads at any moment: an aggregate not marked partial has a row for
\* every item, and no counted episode is hidden by a later row.
THEOREM FullExport == Recorders \subseteq {TRUE} /\ Spec => []FullExportIsComplete
<1> SUFFICES ASSUME Recorders \subseteq {TRUE}
             PROVE  Spec => []FullExportIsComplete
  OBVIOUS
<1>1. OwnershipInv /\ ProgressInv /\ RecordedInv => FullExportIsComplete
  <2> SUFFICES ASSUME OwnershipInv, ProgressInv, RecordedInv, NEW e \in Entries,
                      NEW i \in ItemsOf(e)
               PROVE  /\ ~ExportPartial(e) => last[i] # "none"
                      /\ counted[i] => i \in ExportedItems(e) /\ last[i] = "counted"
    BY DEF FullExportIsComplete
  <2>1. counted[i] => i \in ExportedItems(e) /\ last[i] = "counted"
    BY DEF OwnershipInv, CountedStays, ExportedItems, ItemsOf
  <2>2. ASSUME ~ExportPartial(e)
        PROVE  last[i] # "none"
    <3>1. CASE e \in seeded
      BY <2>2, <3>1 DEF ExportPartial, RecordedInv, DoneIsRecorded, ItemsOf
    <3>2. CASE e \notin seeded
      <4>1. \A s \in Shards : <<s, e>> \in complete
        BY <2>2, <3>2 DEF ExportPartial
      <4>2. 0 \in Shards
        BY QueueAssumption DEF Shards
      <4>3. QED
        BY <3>2, <4>1, <4>2 DEF ProgressInv, CompleteIsSeeded
    <3>3. QED
      BY <3>1, <3>2
  <2>3. QED
    BY <2>1, <2>2
<1>2. Spec => []RecordedInv
  BY RecordedInvariant
<1>3. QED
  BY <1>1, <1>2, OwnershipInvariant, ProgressInvariant, PTL

-----------------------------------------------------------------------------
(* The shards implement EpisodeLedger.                                     *)

\* A step that changes neither owners, nor done flags, nor counted results, is a
\* stutter of the ledger.
LEMMA LedgerStutter ==
  ASSUME owner' = owner, done' = done, counted' = counted
  PROVE  [Ledger!Next]_<<ItemState, owner>>
BY DEF ItemState

\* Shard s puts back items of its own that did not count: Return.
LEMMA LedgerReturn ==
  ASSUME TypeOK, NEW s \in Shards, NEW S \in SUBSET Items,
         \A i \in S : owner[i] = s /\ ~counted[i],
         Release(S), counted' = counted
  PROVE  Ledger!Next
<1>1. \A i \in S : ItemState[i] \in {"held", "closed"} /\ owner[i] = s
  BY DEF ItemState, Shards, Null
<1>2. owner' = [i \in Items |-> IF i \in S THEN Null ELSE owner[i]]
  BY DEF Release
<1>3. ItemState' = [i \in Items |-> IF i \in S THEN "waiting" ELSE ItemState[i]]
  BY DEF Release, ItemState, TypeOK, StoreTypeOK
<1>4. Ledger!Return(s, S)
  BY <1>1, <1>2, <1>3 DEF Ledger!Return
<1>5. QED
  BY <1>4 DEF Ledger!Next

\* A claim takes an item that waits, or hands the shard its own item again.
LEMMA LedgerClaim ==
  ASSUME TypeOK, OwnershipInv, NEW s \in Shards, Claim(s)
  PROVE  [Ledger!Next]_<<ItemState, owner>>
<1>1. counted' = counted
  BY DEF Claim, resultVars
<1>2. PICK i \in NextItem(s, entry[s], task[s], {}) :
        IF owner[i] = s THEN UNCHANGED queueVars ELSE TakeItem(s, i)
  BY DEF Claim
<1>3. i \in ItemsOf(entry[s]) /\ ~done[i] /\ (owner[i] = s \/ i \in Free(s, entry[s]))
  BY NextItemFacts DEF TypeOK
<1>4. CASE owner[i] = s
  BY <1>1, <1>2, <1>4, LedgerStutter DEF queueVars
<1>5. CASE owner[i] # s
  <2>1. i \in Items /\ owner[i] = Null /\ ~done[i]
    BY <1>3, <1>5 DEF Free, ItemsOf
  <2>2. ~counted[i]
    BY <2>1 DEF OwnershipInv, CountedStays
  <2>3. owner' = [owner EXCEPT ![i] = s] /\ done' = done
    BY <1>2, <1>5 DEF TakeItem
  <2>4. ItemState[i] = "waiting"
    BY <2>1, <2>2 DEF ItemState
  <2>5. ItemState' = [ItemState EXCEPT ![i] = "held"]
    <3>1. owner'[i] = s /\ s # Null
      BY <2>1, <2>3 DEF TypeOK, StoreTypeOK, Shards, Null
    <3>2. \A j \in Items : j # i => owner'[j] = owner[j]
      BY <2>1, <2>3 DEF TypeOK, StoreTypeOK
    <3>3. ItemState'[i] = "held"
      BY <1>1, <2>1, <2>2, <2>3, <3>1 DEF ItemState
    <3>4. \A j \in Items : j # i => ItemState'[j] = ItemState[j]
      BY <1>1, <2>3, <3>2 DEF ItemState
    <3>5. QED
      BY <2>1, <3>3, <3>4 DEF ItemState
  <2>6. Ledger!Take(s, i)
    BY <2>3, <2>4, <2>5 DEF Ledger!Take
  <2>7. QED
    BY <2>1, <2>6 DEF Ledger!Next
<1>6. QED
  BY <1>4, <1>5

\* An episode that counts counts for the item its shard holds.
LEMMA LedgerRun ==
  ASSUME TypeOK, OwnershipInv, NEW s \in Shards, RunEpisode(s)
  PROVE  [Ledger!Next]_<<ItemState, owner>>
<1> DEFINE i == cur[s]
<1>1. i \in Items /\ owner' = owner /\ done' = done
  BY DEF RunEpisode, queueVars, TypeOK
<1>2. owner[i] = s /\ ~counted[i] /\ ~done[i]
  BY DEF RunEpisode, OwnershipInv, RunnerOwns, OutcomeFits
<1>3. PICK o \in Outcomes : counted' = [counted EXCEPT ![i] = @ \/ RowStatus(o) = "counted"]
  BY DEF RunEpisode, RecordEpisode
<1> HIDE DEF i
<1>4. CASE RowStatus(o) # "counted"
  <2>1. counted' = counted
    BY <1>1, <1>2, <1>3, <1>4 DEF TypeOK, StoreTypeOK
  <2>2. QED
    BY <1>1, <2>1, LedgerStutter
<1>5. CASE RowStatus(o) = "counted"
  <2>1. ItemState[i] = "held"
    BY <1>1, <1>2 DEF ItemState, Shards, Null
  <2>2. counted' = [counted EXCEPT ![i] = TRUE]
    BY <1>3, <1>5
  <2>3. ItemState' = [ItemState EXCEPT ![i] = "counted"]
    BY <1>1, <2>2 DEF ItemState, TypeOK, StoreTypeOK
  <2>4. Ledger!Count(i)
    BY <1>1, <2>1, <2>3 DEF Ledger!Count
  <2>5. QED
    BY <1>1, <2>4 DEF Ledger!Next
<1>6. QED
  BY <1>4, <1>5

\* Finishing an item closes it, unless its episode counted.
LEMMA LedgerFinish ==
  ASSUME TypeOK, OwnershipInv, NEW s \in Shards, FinishEpisode(s)
  PROVE  [Ledger!Next]_<<ItemState, owner>>
<1> DEFINE i == cur[s]
<1>1. i \in Items /\ counted' = counted /\ owner[i] = s
  BY DEF FinishEpisode, resultVars, TypeOK, OwnershipInv, RunnerOwns
<1>2. UNCHANGED queueVars \/ (owner' = owner /\ done' = [done EXCEPT ![i] = TRUE])
  BY DEF FinishEpisode, FinishItem
<1> HIDE DEF i
<1>3. CASE UNCHANGED queueVars
  BY <1>1, <1>3, LedgerStutter DEF queueVars
<1>4. CASE owner' = owner /\ done' = [done EXCEPT ![i] = TRUE]
  <2>1. CASE counted[i] \/ done[i]
    <3>1. ItemState' = ItemState
      BY <1>1, <1>4, <2>1 DEF ItemState, TypeOK, StoreTypeOK
    <3>2. QED
      BY <1>4, <3>1
  <2>2. CASE ~counted[i] /\ ~done[i]
    <3>1. ItemState[i] = "held"
      BY <1>1, <2>2 DEF ItemState, Shards, Null
    <3>2. ItemState' = [ItemState EXCEPT ![i] = "closed"]
      BY <1>1, <1>4, <2>2 DEF ItemState, TypeOK, StoreTypeOK
    <3>3. Ledger!Close(i)
      BY <1>4, <3>1, <3>2 DEF Ledger!Close
    <3>4. QED
      BY <1>1, <3>3 DEF Ledger!Next
  <2>3. QED
    BY <2>1, <2>2
<1>5. QED
  BY <1>2, <1>3, <1>4

\* Resuming finishes only items that counted, which the ledger knows already.
LEMMA LedgerResume ==
  ASSUME TypeOK, OwnershipInv, NEW s \in Shards, Resume(s)
  PROVE  [Ledger!Next]_<<ItemState, owner>>
<1>1. counted' = counted /\ owner' = owner
  BY DEF Resume, resultVars, FinishClaimed
<1>2. \A i \in Items : ~counted[i] => done'[i] = done[i]
  BY DEF Resume, FinishClaimed, OwnershipInv, SeenAreCounted, TypeOK, StoreTypeOK
<1>3. ItemState' = ItemState
  BY <1>1, <1>2 DEF ItemState
<1>4. QED
  BY <1>1, <1>3

\* Every step of the shards is a step or a stutter of the ledger.
LEMMA LedgerNext ==
  TypeOK /\ OwnershipInv /\ [Next]_vars => [Ledger!Next]_<<ItemState, owner>>
<1> SUFFICES ASSUME TypeOK, OwnershipInv, [Next]_vars
             PROVE  [Ledger!Next]_<<ItemState, owner>>
  OBVIOUS
<1>1. CASE UNCHANGED vars
  BY <1>1, LedgerStutter DEF vars, storeVars
<1>2. ASSUME NEW s \in Shards,
             Launch(s) \/ Rerun(s) \/ Die(s) \/ BeginEntry(s) \/ Seed(s) \/ ReadResults(s)
               \/ Drain(s) \/ FailWithoutRecorder(s) \/ AbortEntry(s) \/ StayHealthy(s)
               \/ Finalize(s)
      PROVE  [Ledger!Next]_<<ItemState, owner>>
  <2>1. owner' = owner /\ done' = done /\ counted' = counted
    BY <1>2 DEF Launch, Rerun, StartProcess, Die, BeginEntry, Seed, SeedQueue, ReadResults, Drain,
       FailWithoutRecorder, AbortEntry, StayHealthy, Finalize, storeVars, queueVars, resultVars
  <2>2. QED
    BY <2>1, LedgerStutter
<1>3. ASSUME NEW s \in Shards, StopUnusable(s)
      PROVE  [Ledger!Next]_<<ItemState, owner>>
  <2> DEFINE S == {cur[s]}
  <2>1. /\ S \in SUBSET Items /\ \A i \in S : owner[i] = s /\ ~counted[i]
        /\ Release(S) /\ counted' = counted
    BY <1>3 DEF StopUnusable, resultVars, TypeOK, OwnershipInv, RunnerOwns, OutcomeFits
  <2> HIDE DEF S
  <2>2. QED
    BY <2>1, LedgerReturn
<1>4. ASSUME NEW s \in Shards, StopUnhealthy(s)
      PROVE  [Ledger!Next]_<<ItemState, owner>>
  <2>1. CASE RequeueUnhealthy
    <3> DEFINE S == failed[s] \cup {cur[s]}
    <3>1. S \in SUBSET Items
      BY <1>4 DEF StopUnhealthy, TypeOK
    <3>2. \A i \in S : owner[i] = s /\ ~counted[i]
      BY <1>4 DEF StopUnhealthy, Errored, OwnershipInv, FailedAreOwn, RunnerOwns, OutcomeFits
    <3>3. Release(S) /\ counted' = counted
      BY <1>4, <2>1 DEF StopUnhealthy, resultVars
    <3> HIDE DEF S
    <3>4. QED
      BY <3>1, <3>2, <3>3, LedgerReturn
  <2>2. CASE ~RequeueUnhealthy
    BY <1>4, <2>2, LedgerStutter DEF StopUnhealthy, queueVars, resultVars
  <2>3. QED
    BY <2>1, <2>2
<1>5. QED
  BY <1>1, <1>2, <1>3, <1>4, LedgerClaim, LedgerRun, LedgerFinish, LedgerResume DEF Next, Step

\* The shards implement the ledger: whatever dies, restarts or is released, an
\* item has one holder, and a counted result is final.
THEOREM LedgerImplemented == Spec => ImplementsLedger
<1>1. Init => Ledger!Init
  BY DEF Init, StoreInit, Ledger!Init, ItemState
<1>2. TypeOK /\ OwnershipInv /\ [Next]_vars => [Ledger!Next]_<<ItemState, owner>>
  BY LedgerNext
<1>3. QED
  BY <1>1, <1>2, TypeCorrect, OwnershipInvariant, PTL
     DEF Spec, ImplementsLedger, Ledger!Spec, Ledger!ledgerVars
=============================================================================
