--------------------------- MODULE VectorRun_proofs ---------------------------
(***************************************************************************)
(* Proofs about VectorRun, for any number of shards, slots and items, any  *)
(* assignment of items to tasks and any bound on restarts.                 *)
(***************************************************************************)
EXTENDS VectorRun, FiniteSetTheorems, TLAPS

-----------------------------------------------------------------------------
(* The claim.                                                              *)

\* claim() hands out an unfinished item that is not in flight: one of the shard's
\* own, or an unclaimed one and then only when every item the shard has open is
\* already in flight.
LEMMA NextItemFacts ==
  ASSUME NEW s \in Shards, NEW t, NEW C, NEW i \in NextItem(s, 1, t, C)
  PROVE  /\ i \in Items /\ ~done[i]
         /\ \/ owner[i] = s /\ i \notin C
            \/ owner[i] = Null /\ Mine(s, 1, C) = {}
<1>1. CASE Mine(s, 1, C) # {}
  BY <1>1 DEF NextItem, Lowest, Mine, ItemsOf
<1>2. CASE Mine(s, 1, C) = {}
  <2>1. i \in Preferred(s, t, Free(s, 1))
    BY <1>2 DEF NextItem
  <2>2. Preferred(s, t, Free(s, 1)) \subseteq Free(s, 1)
    BY DEF Preferred, Lowest, Highest, FurthestBehind
  <2>3. QED
    BY <1>2, <2>1, <2>2 DEF Free, ItemsOf
<1>3. QED
  BY <1>1, <1>2

\* The items of the one entry are all items.
LEMMA OneEntry == ItemsOf(1) = Items
BY QueueAssumption, VectorAssumption DEF ItemsOf, Entries

-----------------------------------------------------------------------------
(* Types.                                                                  *)

\* Any set of items is finite.
LEMMA ItemsFinite == \A S \in SUBSET Items : IsFiniteSet(S)
<1>1. IsFiniteSet(Items)
  BY QueueAssumption, FS_Interval DEF Items
<1>2. QED
  BY <1>1, FS_Subset

\* A slot that is free can be taken.
LEMMA SlotTaken ==
  ASSUME NEW S \in SUBSET Items, NEW i \in Items, Cardinality(S) < NumEnvs
  PROVE  Cardinality(S \cup {i}) <= NumEnvs
<1>1. IsFiniteSet(S) /\ Cardinality(S) \in Nat
  BY ItemsFinite, FS_CardinalityType
<1>2. Cardinality(S \cup {i}) = IF i \in S THEN Cardinality(S) ELSE Cardinality(S) + 1
  BY <1>1, FS_AddElement
<1>3. QED
  BY <1>1, <1>2, VectorAssumption

\* Fewer episodes fit, too.
LEMMA SlotsLeft ==
  ASSUME NEW S \in SUBSET Items, NEW T \in SUBSET S, Cardinality(S) <= NumEnvs
  PROVE  Cardinality(T) <= NumEnvs
<1>1. IsFiniteSet(S) /\ Cardinality(S) \in Nat /\ Cardinality(T) \in Nat
  BY ItemsFinite, FS_CardinalityType
<1>2. Cardinality(T) <= Cardinality(S)
  BY <1>1, FS_Subset
<1>3. QED
  BY <1>1, <1>2, VectorAssumption

\* The initial state is typed.
LEMMA TypeInit == Init => TypeOK
<1> SUFFICES ASSUME Init
             PROVE  TypeOK
  OBVIOUS
<1> USE QueueAssumption, VectorAssumption
<1>1. Cardinality({} \cup {}) <= NumEnvs
  BY FS_EmptySet
<1>2. StoreTypeOK
  BY DEF Init, StoreInit, StoreTypeOK, Null
<1>3. \A s \in Shards : Cardinality(fresh[s] \cup running[s]) <= NumEnvs
  BY <1>1 DEF Init
<1>4. /\ DOMAIN ends = Shards
      /\ \A s \in Shards : DOMAIN ends[s] \subseteq Items /\ Range(ends[s]) \subseteq AllOutcomes
  BY DEF Init, Nowhere, Range
<1>5. QED
  BY <1>2, <1>3, <1>4 DEF Init, TypeOK, PCs, Exits, AllOutcomes

\* A process that ends leaves its shard's variables typed.
LEMMA ExitTypes ==
  ASSUME TypeOK, StoreTypeOK', NEW s \in Shards, NEW how \in Exits, Exit(s, how)
  PROVE  TypeOK'
<1> USE QueueAssumption, VectorAssumption
<1>1. Cardinality({}) <= NumEnvs
  BY FS_EmptySet
<1>2. \A r \in Shards : Cardinality(fresh'[r] \cup running'[r]) <= NumEnvs
  <2> SUFFICES ASSUME NEW r \in Shards
               PROVE  Cardinality(fresh'[r] \cup running'[r]) <= NumEnvs
    OBVIOUS
  <2>1. CASE r = s
    <3>1. fresh'[r] = {} /\ running'[r] = {}
      BY <2>1 DEF Exit, TypeOK
    <3>2. QED
      BY <1>1, <3>1
  <2>2. CASE r # s
    BY <2>2 DEF Exit, TypeOK
  <2>3. QED
    BY <2>1, <2>2
<1>3. /\ DOMAIN ends' = Shards
      /\ \A r \in Shards : DOMAIN ends'[r] \subseteq Items /\ Range(ends'[r]) \subseteq AllOutcomes
  BY DEF Exit, TypeOK, Nowhere, Range
<1>4. \A r \in Shards : pc'[r] \in {"ended", "health"} => cur'[r] \in Items
  BY DEF Exit, Goto, TypeOK
<1>5. /\ pc' \in [Shards -> PCs] /\ claimed' \in [Shards -> SUBSET Items]
      /\ held' \in [Shards -> Items \cup {Null}] /\ redo' \in [Shards -> SUBSET Items]
      /\ group' \in [Shards -> Nat \cup {Null}] /\ unusable' \in [Shards -> BOOLEAN]
      /\ fresh' \in [Shards -> SUBSET Items] /\ running' \in [Shards -> SUBSET Items]
      /\ exhausted' \in [Shards -> BOOLEAN] /\ cur' \in [Shards -> Items \cup {Null}]
  BY DEF Exit, Goto, TypeOK, PCs
<1>6. /\ outcome' \in [Shards -> AllOutcomes \cup {"none"}]
      /\ after' \in [Shards -> {"loop", "step", "fill", "stop"}]
      /\ recorder' \in [Shards -> BOOLEAN] /\ seen' \in [Shards -> SUBSET Items]
      /\ ok' \in [Shards -> BOOLEAN] /\ errs' \in [Shards -> 0 .. UnhealthyAfter - 1]
      /\ failed' \in [Shards -> SUBSET Items] /\ exit' \in [Shards -> Exits]
      /\ restarts' \in [Shards -> 0 .. MaxRestarts]
  BY DEF Exit, TypeOK
<1>7. QED
  BY <1>2, <1>3, <1>4, <1>5, <1>6 DEF TypeOK

\* Putting a set of items back leaves the queue typed.
LEMMA ReleaseTypes ==
  ASSUME StoreTypeOK, NEW S, Release(S), UNCHANGED <<resultVars, complete>>
  PROVE  StoreTypeOK'
BY DEF StoreTypeOK, Release, resultVars

\* The episodes that end are items with outcomes.
LEMMA EndsTypes ==
  ASSUME TypeOK, NEW s \in Shards, NEW f, DOMAIN f \subseteq Items,
         \A i \in DOMAIN f : f[i] \in AllOutcomes,
         ends' = [ends EXCEPT ![s] = f]
  PROVE  /\ DOMAIN ends' = Shards
         /\ \A r \in Shards : DOMAIN ends'[r] \subseteq Items /\ Range(ends'[r]) \subseteq AllOutcomes
BY DEF TypeOK, Range

\* An item that next_episode has in hand leaves the slots within num_envs.
LEMMA UseItemTypes ==
  ASSUME TypeOK, NEW s \in Shards, NEW i \in Items, UseItem(s, i), FreeSlot(s),
         pc[s] = "fill", UNCHANGED <<running, cur>>
  PROVE  /\ pc' \in [Shards -> PCs]
         /\ held' \in [Shards -> Items \cup {Null}]
         /\ group' \in [Shards -> Nat \cup {Null}]
         /\ fresh' \in [Shards -> SUBSET Items]
         /\ \A r \in Shards : Cardinality(fresh'[r] \cup running'[r]) <= NumEnvs
         /\ exhausted' \in [Shards -> BOOLEAN]
         /\ DOMAIN ends' = Shards
         /\ \A r \in Shards : DOMAIN ends'[r] \subseteq Items /\ Range(ends'[r]) \subseteq AllOutcomes
         /\ \A r \in Shards : pc'[r] \in {"ended", "health"} => cur'[r] \in Items
         /\ after' \in [Shards -> {"loop", "step", "fill", "stop"}]
<1> USE QueueAssumption, VectorAssumption
<1>1. CASE Mixed(s, i)
  <2>1. /\ pc' = [pc EXCEPT ![s] = "start"] /\ held' = [held EXCEPT ![s] = i]
        /\ exhausted' = [exhausted EXCEPT ![s] = TRUE]
        /\ group' = group /\ fresh' = fresh /\ ends' = ends /\ after' = after
    BY <1>1 DEF UseItem, Goto
  <2>2. QED
    BY <2>1 DEF TypeOK, PCs
<1>2. CASE ~Mixed(s, i) /\ recorder[s]
  <2>1. /\ pc' = [pc EXCEPT ![s] = "fill"] /\ fresh' = [fresh EXCEPT ![s] = @ \cup {i}]
        /\ group' = [group EXCEPT ![s] = TaskOf[i]]
        /\ held' = [held EXCEPT ![s] = IF i = held[s] THEN Null ELSE @]
        /\ UNCHANGED <<exhausted, ends, after>>
    BY <1>2 DEF UseItem, Goto
  <2>2. fresh'[s] \cup running'[s] = (fresh[s] \cup running[s]) \cup {i}
    BY <2>1 DEF TypeOK
  <2>3. Cardinality(fresh'[s] \cup running'[s]) <= NumEnvs
    <3>1. fresh[s] \cup running[s] \in SUBSET Items
      BY DEF TypeOK
    <3>2. QED
      BY <2>2, <3>1, SlotTaken DEF FreeSlot
  <2>4. \A r \in Shards : Cardinality(fresh'[r] \cup running'[r]) <= NumEnvs
    BY <2>1, <2>3 DEF TypeOK
  <2>5. QED
    BY <2>1, <2>4 DEF TypeOK, PCs
<1>3. CASE ~Mixed(s, i) /\ ~recorder[s]
  <2>1. /\ pc' = [pc EXCEPT ![s] = "end"] /\ after' = [after EXCEPT ![s] = "fill"]
        /\ ends' = [ends EXCEPT ![s] = [j \in {i} |-> "error"]]
        /\ group' = [group EXCEPT ![s] = TaskOf[i]]
        /\ held' = [held EXCEPT ![s] = IF i = held[s] THEN Null ELSE @]
        /\ UNCHANGED <<exhausted, fresh>>
    BY <1>3 DEF UseItem, Goto
  <2>2. /\ DOMAIN ends' = Shards
        /\ \A r \in Shards : DOMAIN ends'[r] \subseteq Items /\ Range(ends'[r]) \subseteq AllOutcomes
    <3> DEFINE f == [j \in {i} |-> "error"]
    <3>1. DOMAIN f \subseteq Items /\ \A j \in DOMAIN f : f[j] \in AllOutcomes
      BY DEF AllOutcomes
    <3>2. ends' = [ends EXCEPT ![s] = f]
      BY <2>1
    <3> HIDE DEF f
    <3>3. QED
      BY <3>1, <3>2, EndsTypes
  <2>3. QED
    BY <2>1, <2>2 DEF TypeOK, PCs
<1>4. QED
  BY <1>1, <1>2, <1>3

\* What the steps below leave alone stays typed.
LEMMA SameBooking ==
  ASSUME TypeOK, UNCHANGED <<fresh, running, ends>>
  PROVE  /\ fresh' \in [Shards -> SUBSET Items] /\ running' \in [Shards -> SUBSET Items]
         /\ \A r \in Shards : Cardinality(fresh'[r] \cup running'[r]) <= NumEnvs
         /\ DOMAIN ends' = Shards
         /\ \A r \in Shards : DOMAIN ends'[r] \subseteq Items /\ Range(ends'[r]) \subseteq AllOutcomes
BY DEF TypeOK

\* Episodes that end leave their slots and wait to be booked.
LEMMA EndTypes ==
  ASSUME TypeOK, NEW s \in Shards, NEW f, DOMAIN f \subseteq Items,
         \A i \in DOMAIN f : f[i] \in AllOutcomes,
         NEW label \in {"loop", "step", "fill", "stop"},
         ends' = [ends EXCEPT ![s] = f], after' = [after EXCEPT ![s] = label], Goto(s, "end"),
         fresh' \in [Shards -> SUBSET Items], running' \in [Shards -> SUBSET Items],
         \A r \in Shards : fresh'[r] \cup running'[r] \in SUBSET (fresh[r] \cup running[r]),
         StoreTypeOK',
         UNCHANGED <<loopVars, exhausted, bookVars, seen, healthVars, launchVars>>
  PROVE  TypeOK'
<1>1. /\ DOMAIN ends' = Shards
      /\ \A r \in Shards : DOMAIN ends'[r] \subseteq Items /\ Range(ends'[r]) \subseteq AllOutcomes
  BY EndsTypes
<1>2. \A r \in Shards : Cardinality(fresh'[r] \cup running'[r]) <= NumEnvs
  <2> SUFFICES ASSUME NEW r \in Shards
               PROVE  Cardinality(fresh'[r] \cup running'[r]) <= NumEnvs
    OBVIOUS
  <2>1. fresh[r] \cup running[r] \in SUBSET Items /\ Cardinality(fresh[r] \cup running[r]) <= NumEnvs
    BY DEF TypeOK
  <2>2. QED
    BY <2>1, SlotsLeft
<1>3. /\ pc' \in [Shards -> PCs] /\ after' \in [Shards -> {"loop", "step", "fill", "stop"}]
      /\ \A r \in Shards : pc'[r] \in {"ended", "health"} => cur'[r] \in Items
  BY DEF Goto, TypeOK, PCs, bookVars
<1>4. QED
  BY <1>1, <1>2, <1>3 DEF TypeOK, loopVars, bookVars, healthVars, launchVars

\* Every step of a shard keeps the types.
LEMMA TypeNext == TypeOK /\ [Next]_vars => TypeOK'
<1> SUFFICES ASSUME TypeOK, [Next]_vars
             PROVE  TypeOK'
  OBVIOUS
<1> USE QueueAssumption, VectorAssumption
<1>1. CASE UNCHANGED vars
  <2>1. /\ UNCHANGED storeVars
        /\ UNCHANGED <<pc, claimed, held, redo, group, unusable, fresh, running, exhausted>>
        /\ UNCHANGED <<ends, after, cur, outcome, seen, ok, errs, failed, recorder, exit, restarts>>
    BY <1>1 DEF vars, procVars, loopVars, runnerVars, bookVars, healthVars, launchVars
  <2>2. StoreTypeOK'
    BY <2>1 DEF TypeOK, StoreTypeOK, storeVars
  <2>3. QED
    BY <2>1, <2>2, SameBooking DEF TypeOK
<1>2. ASSUME NEW s \in Shards, Launch(s)
      PROVE  TypeOK'
  <2>1. StoreTypeOK' /\ UNCHANGED <<fresh, running, ends>>
    BY <1>2 DEF Launch, TypeOK, StoreTypeOK, storeVars, runnerVars
  <2>2. PICK b \in Recorders : recorder' = [recorder EXCEPT ![s] = b]
    BY <1>2 DEF Launch
  <2>3. /\ recorder' \in [Shards -> BOOLEAN] /\ pc' \in [Shards -> PCs]
        /\ restarts' \in [Shards -> 0 .. MaxRestarts]
        /\ \A r \in Shards : pc'[r] \in {"ended", "health"} => cur'[r] \in Items
    BY <1>2, <2>2 DEF Launch, WillRestart, Goto, TypeOK, PCs, bookVars
  <2>4. QED
    BY <1>2, <2>1, <2>3, SameBooking DEF Launch, TypeOK, loopVars, runnerVars, bookVars, healthVars
<1>3. ASSUME NEW s \in Shards, Die(s)
      PROVE  TypeOK'
  <2>1. StoreTypeOK' /\ Exit(s, "signal") /\ "signal" \in Exits
    BY <1>3 DEF Die, TypeOK, StoreTypeOK, storeVars, Exits
  <2>2. QED
    BY <2>1, ExitTypes
<1>4. ASSUME NEW s \in Shards, BeginEntry(s)
      PROVE  TypeOK'
  <2>1. StoreTypeOK' /\ UNCHANGED <<fresh, running, ends>>
    BY <1>4 DEF BeginEntry, SetShardComplete, TypeOK, StoreTypeOK, queueVars, resultVars, runnerVars, Entries
  <2>2. QED
    BY <1>4, <2>1, SameBooking
    DEF BeginEntry, Goto, TypeOK, PCs, loopVars, runnerVars, bookVars, healthVars, launchVars
<1>5. ASSUME NEW s \in Shards, Seed(s)
      PROVE  TypeOK'
  <2>1. StoreTypeOK' /\ UNCHANGED <<fresh, running, ends>>
    BY <1>5 DEF Seed, SeedQueue, TypeOK, StoreTypeOK, resultVars, runnerVars, Entries
  <2>2. QED
    BY <1>5, <2>1, SameBooking
    DEF Seed, Goto, TypeOK, PCs, loopVars, runnerVars, bookVars, healthVars, launchVars
<1>6. ASSUME NEW s \in Shards, ReadResults(s)
      PROVE  TypeOK'
  <2>1. StoreTypeOK' /\ UNCHANGED <<fresh, running, ends>>
    BY <1>6 DEF ReadResults, TypeOK, StoreTypeOK, storeVars, runnerVars
  <2>2. QED
    BY <1>6, <2>1, SameBooking
    DEF ReadResults, CompletedResults, ItemsOf, Goto, TypeOK, PCs, loopVars, runnerVars, bookVars,
        healthVars, launchVars
<1>7. ASSUME NEW s \in Shards, Resume(s)
      PROVE  TypeOK'
  <2>1. StoreTypeOK' /\ UNCHANGED <<fresh, running, ends>>
    BY <1>7 DEF Resume, FinishClaimed, TypeOK, StoreTypeOK, resultVars, runnerVars
  <2>2. QED
    BY <1>7, <2>1, SameBooking
    DEF Resume, Goto, TypeOK, PCs, loopVars, runnerVars, bookVars, healthVars, launchVars
<1>8. ASSUME NEW s \in Shards, Loop(s)
      PROVE  TypeOK'
  <2>1. StoreTypeOK' /\ UNCHANGED <<fresh, running, ends>>
    BY <1>8 DEF Loop, TypeOK, StoreTypeOK, storeVars, runnerVars
  <2>2. PICK label \in {"fill", "exchange", "stop"} : Goto(s, label)
    BY <1>8 DEF Loop
  <2>3. QED
    BY <1>8, <2>1, <2>2, SameBooking
    DEF Loop, Goto, TypeOK, PCs, loopVars, runnerVars, bookVars, healthVars, launchVars
<1>9. ASSUME NEW s \in Shards, TakeWaiting(s)
      PROVE  TypeOK'
  <2>1. /\ pc[s] = "fill" /\ FreeSlot(s)
        /\ UNCHANGED <<storeVars, claimed, unusable, running, bookVars, seen, healthVars, launchVars>>
    BY <1>9 DEF TakeWaiting
  <2>2. StoreTypeOK'
    BY <2>1 DEF TypeOK, StoreTypeOK, storeVars
  <2>3. PICK i \in Items : UseItem(s, i) /\ redo' \in [Shards -> SUBSET Items]
    BY <1>9 DEF TakeWaiting, TypeOK
  <2>4. UNCHANGED <<running, cur>>
    BY <2>1 DEF bookVars
  <2>5. QED
    BY <2>1, <2>2, <2>3, <2>4, UseItemTypes DEF TypeOK, bookVars, healthVars, launchVars
<1>10. ASSUME NEW s \in Shards, Claim(s)
       PROVE  TypeOK'
  <2>1. /\ pc[s] = "fill" /\ FreeSlot(s)
        /\ UNCHANGED <<resultVars, complete, redo, unusable, running, bookVars, seen, healthVars, launchVars>>
    BY <1>10 DEF Claim
  <2>2. PICK i \in NextItem(s, 1, group[s], claimed[s]) :
          /\ IF owner[i] = s THEN UNCHANGED queueVars ELSE TakeItem(s, i)
          /\ claimed' = [claimed EXCEPT ![s] = @ \cup {i}]
          /\ UseItem(s, i)
    BY <1>10 DEF Claim
  <2>3. i \in Items
    BY NextItemFacts
  <2>4. StoreTypeOK' /\ claimed' \in [Shards -> SUBSET Items]
    BY ZenonT(20), <2>1, <2>2, <2>3 DEF TypeOK, StoreTypeOK, TakeItem, queueVars, resultVars
  <2>5. UNCHANGED <<running, cur>>
    BY <2>1 DEF bookVars
  <2>6. QED
    BY <2>1, <2>2, <2>3, <2>4, <2>5, UseItemTypes DEF TypeOK, bookVars, healthVars, launchVars
<1>11. ASSUME NEW s \in Shards, FillEnds(s)
       PROVE  TypeOK'
  <2>1. StoreTypeOK' /\ UNCHANGED <<fresh, running, ends>>
    BY <1>11 DEF FillEnds, TypeOK, StoreTypeOK, storeVars
  <2>2. exhausted' \in [Shards -> BOOLEAN]
    BY <1>11 DEF FillEnds, TypeOK
  <2>3. QED
    BY <1>11, <2>1, <2>2, SameBooking
    DEF FillEnds, Goto, TypeOK, PCs, loopVars, bookVars, healthVars, launchVars

<1>12. ASSUME NEW s \in Shards, Start(s)
       PROVE  TypeOK'
  <2>1. StoreTypeOK' /\ fresh' = [fresh EXCEPT ![s] = {}]
        /\ UNCHANGED <<loopVars, exhausted, bookVars, seen, healthVars, launchVars>>
    BY <1>12 DEF Start, TypeOK, StoreTypeOK, storeVars
  <2>2. fresh' \in [Shards -> SUBSET Items] /\ running' \in [Shards -> SUBSET Items]
    BY <1>12, <2>1 DEF Start, TypeOK
  <2>3. CASE /\ running' = [running EXCEPT ![s] = @ \cup fresh[s]]
             /\ Goto(s, IF running'[s] = {} THEN "loop" ELSE "exchange")
             /\ UNCHANGED <<ends, after>>
    <3>1. \A r \in Shards : fresh'[r] \cup running'[r] = fresh[r] \cup running[r]
      BY <2>1, <2>3 DEF TypeOK
    <3>2. \A r \in Shards : Cardinality(fresh'[r] \cup running'[r]) <= NumEnvs
      BY <3>1 DEF TypeOK
    <3>3. /\ DOMAIN ends' = Shards
          /\ \A r \in Shards : DOMAIN ends'[r] \subseteq Items /\ Range(ends'[r]) \subseteq AllOutcomes
      BY <2>3 DEF TypeOK
    <3>4. QED
      BY <2>1, <2>2, <2>3, <3>2, <3>3 DEF Goto, TypeOK, PCs, loopVars, bookVars, healthVars, launchVars
  <2>4. CASE /\ \E o \in Outcomes \ {"counted", "aborted"} :
                  EndAll(s, fresh[s] \cup running[s], o, "loop")
             /\ running' = [running EXCEPT ![s] = {}]
    <3>1. PICK o \in AllOutcomes : EndAll(s, fresh[s] \cup running[s], o, "loop")
      BY <2>4
    <3> DEFINE f == [i \in fresh[s] \cup running[s] |-> o]
    <3>2. ends' = [ends EXCEPT ![s] = f] /\ after' = [after EXCEPT ![s] = "loop"] /\ Goto(s, "end")
      BY <3>1 DEF EndAll
    <3>3. DOMAIN f \subseteq Items /\ \A i \in DOMAIN f : f[i] \in AllOutcomes
      BY DEF TypeOK
    <3> HIDE DEF f
    <3>4. \A r \in Shards : fresh'[r] \cup running'[r] \in SUBSET (fresh[r] \cup running[r])
      BY <2>1, <2>4 DEF TypeOK
    <3>5. QED
      BY <2>1, <2>2, <3>2, <3>3, <3>4, EndTypes
  <2>5. QED
    BY <1>12, <2>3, <2>4 DEF Start
<1>13. ASSUME NEW s \in Shards, Exchange(s)
       PROVE  TypeOK'
  <2>1. StoreTypeOK' /\ UNCHANGED <<loopVars, fresh, exhausted, bookVars, seen, healthVars, launchVars>>
    BY <1>13 DEF Exchange, TypeOK, StoreTypeOK, storeVars
  <2>2. CASE Goto(s, "step") /\ UNCHANGED <<running, ends, after>>
    BY <2>1, <2>2, SameBooking DEF Goto, TypeOK, PCs, loopVars, bookVars, healthVars, launchVars
  <2>3. ASSUME NEW S \in SUBSET running[s], NEW o \in AllOutcomes, NEW label \in {"loop", "step", "stop"},
               running' = [running EXCEPT ![s] = @ \ S], EndAll(s, S, o, label)
        PROVE  TypeOK'
    <3> DEFINE f == [i \in S |-> o]
    <3>1. ends' = [ends EXCEPT ![s] = f] /\ after' = [after EXCEPT ![s] = label] /\ Goto(s, "end")
      BY <2>3 DEF EndAll
    <3>2. DOMAIN f \subseteq Items /\ \A i \in DOMAIN f : f[i] \in AllOutcomes
      BY DEF TypeOK
    <3> HIDE DEF f
    <3>3. /\ fresh' \in [Shards -> SUBSET Items] /\ running' \in [Shards -> SUBSET Items]
          /\ \A r \in Shards : fresh'[r] \cup running'[r] \in SUBSET (fresh[r] \cup running[r])
      BY <2>1, <2>3 DEF TypeOK
    <3>4. QED
      BY <2>1, <3>1, <3>2, <3>3, EndTypes
  <2>4. CASE /\ running' = [running EXCEPT ![s] = {}]
             /\ EndAll(s, running[s], "aborted", "stop")
    <3>1. running' = [running EXCEPT ![s] = @ \ running[s]]
      BY <2>4 DEF TypeOK
    <3>2. QED
      BY <2>3, <2>4, <3>1 DEF AllOutcomes
  <2>5. CASE \E S \in SUBSET running[s] \ {{}} :
               /\ running' = [running EXCEPT ![s] = @ \ S]
               /\ EndAll(s, S, "error", IF S = running[s] THEN "loop" ELSE "step")
    BY <2>3, <2>5 DEF AllOutcomes
  <2>6. QED
    BY <1>13, <2>2, <2>4, <2>5 DEF Exchange
<1>14. ASSUME NEW s \in Shards, StepEnvs(s)
       PROVE  TypeOK'
  <2>1. /\ StoreTypeOK' /\ UNCHANGED <<loopVars, fresh, exhausted, bookVars, seen, healthVars, launchVars>>
        /\ after' = [after EXCEPT ![s] = "loop"] /\ Goto(s, "end")
    BY <1>14 DEF StepEnvs, TypeOK, StoreTypeOK, storeVars
  <2>2. PICK S \in SUBSET running[s] :
          /\ running' = [running EXCEPT ![s] = @ \ S]
          /\ \E f \in [S -> AllOutcomes] : ends' = [ends EXCEPT ![s] = f]
    <3>1. CASE \E S \in SUBSET running[s] :
                 /\ running' = [running EXCEPT ![s] = @ \ S]
                 /\ \E f \in [S -> Outcomes \ {"aborted"}] : ends' = [ends EXCEPT ![s] = f]
      BY <3>1
    <3>2. CASE \E o \in Outcomes \ {"counted", "aborted"} :
                 /\ running' = [running EXCEPT ![s] = {}]
                 /\ ends' = [ends EXCEPT ![s] = [i \in running[s] |-> o]]
      <4>1. PICK o \in AllOutcomes :
              /\ running' = [running EXCEPT ![s] = {}]
              /\ ends' = [ends EXCEPT ![s] = [i \in running[s] |-> o]]
        BY <3>2
      <4>2. running' = [running EXCEPT ![s] = @ \ running[s]]
        BY <4>1 DEF TypeOK
      <4>3. [i \in running[s] |-> o] \in [running[s] -> AllOutcomes]
        OBVIOUS
      <4>4. QED
        BY <4>1, <4>2, <4>3
    <3>3. QED
      BY <1>14, <3>1, <3>2 DEF StepEnvs
  <2>3. PICK f \in [S -> AllOutcomes] : ends' = [ends EXCEPT ![s] = f]
    BY <2>2
  <2>4. DOMAIN f \subseteq Items /\ \A i \in DOMAIN f : f[i] \in AllOutcomes
    BY DEF TypeOK
  <2>5. /\ fresh' \in [Shards -> SUBSET Items] /\ running' \in [Shards -> SUBSET Items]
        /\ \A r \in Shards : fresh'[r] \cup running'[r] \in SUBSET (fresh[r] \cup running[r])
    BY <2>1, <2>2 DEF TypeOK
  <2>6. QED
    BY <2>1, <2>3, <2>4, <2>5, EndTypes
<1>15. ASSUME NEW s \in Shards, EndEpisode(s)
       PROVE  TypeOK'
  <2>1. PICK i \in DOMAIN ends[s] :
          /\ IF recorder[s] THEN RecordEpisode(i, RowStatus(ends[s][i])) ELSE UNCHANGED resultVars
          /\ cur' = [cur EXCEPT ![s] = i]
          /\ outcome' = [outcome EXCEPT ![s] = ends[s][i]]
          /\ ends' = [ends EXCEPT ![s] = Restrict(ends[s], DOMAIN ends[s] \ {i})]
          /\ unusable' = [unusable EXCEPT ![s] = @ \/ ends[s][i] = "unusable"]
          /\ exhausted' = [exhausted EXCEPT ![s] = FALSE]
    BY <1>15 DEF EndEpisode
  <2>2. i \in Items /\ ends[s][i] \in AllOutcomes
    BY DEF TypeOK, Range
  <2>3. StoreTypeOK'
    <3>1. RowStatus(ends[s][i]) \in Status
      BY DEF RowStatus, Status
    <3>2. UNCHANGED <<seeded, owner, done, complete>>
      BY <1>15 DEF EndEpisode, queueVars
    <3>3. /\ last' \in [Items -> Status \cup {"none"}]
          /\ counted' \in [Items -> BOOLEAN]
      <4>1. CASE recorder[s]
        <5>1. /\ last' = [last EXCEPT ![i] = RowStatus(ends[s][i])]
              /\ counted' = [counted EXCEPT ![i] = @ \/ RowStatus(ends[s][i]) = "counted"]
          BY <2>1, <4>1 DEF RecordEpisode
        <5>2. QED
          BY <2>2, <3>1, <5>1 DEF TypeOK, StoreTypeOK
      <4>2. CASE ~recorder[s]
        BY <2>1, <4>2 DEF TypeOK, StoreTypeOK, resultVars
      <4>3. QED
        BY <4>1, <4>2
    <3>4. QED
      BY <3>2, <3>3 DEF TypeOK, StoreTypeOK
  <2> DEFINE f == Restrict(ends[s], DOMAIN ends[s] \ {i})
  <2>4. DOMAIN f \subseteq Items /\ \A j \in DOMAIN f : f[j] \in AllOutcomes
    BY DEF TypeOK, Range, Restrict
  <2>5. ends' = [ends EXCEPT ![s] = f]
    BY <2>1
  <2> HIDE DEF f
  <2>6. /\ DOMAIN ends' = Shards
        /\ \A r \in Shards : DOMAIN ends'[r] \subseteq Items /\ Range(ends'[r]) \subseteq AllOutcomes
    BY <2>4, <2>5, EndsTypes
  <2>7. UNCHANGED <<claimed, held, redo, group, fresh, running, after, seen, healthVars, launchVars>>
        /\ pc' = [pc EXCEPT ![s] = "ended"]
    BY <1>15 DEF EndEpisode, Goto
  <2>8. /\ cur' \in [Shards -> Items \cup {Null}]
        /\ outcome' \in [Shards -> AllOutcomes \cup {"none"}]
        /\ unusable' \in [Shards -> BOOLEAN] /\ exhausted' \in [Shards -> BOOLEAN]
        /\ pc' \in [Shards -> PCs]
        /\ \A r \in Shards : pc'[r] \in {"ended", "health"} => cur'[r] \in Items
    BY <2>1, <2>2, <2>7 DEF TypeOK, PCs
  <2>9. QED
    BY <2>3, <2>6, <2>7, <2>8 DEF TypeOK, healthVars, launchVars
<1>16. ASSUME NEW s \in Shards, Done(s)
       PROVE  TypeOK'
  <2>1. /\ pc[s] = "ended" /\ pc' = [pc EXCEPT ![s] = "health"]
        /\ ok' = [ok EXCEPT ![s] = @ \/ outcome[s] = "counted"]
        /\ UNCHANGED <<resultVars, complete, held, group, unusable, runnerVars, bookVars, seen, errs,
                       failed, launchVars>>
    BY <1>16 DEF Done, Goto
  <2>2. StoreTypeOK' /\ redo' \in [Shards -> SUBSET Items] /\ claimed' \in [Shards -> SUBSET Items]
    <3>1. CASE outcome[s] = "redo"
      BY <1>16, <2>1, <3>1 DEF Done, TypeOK, StoreTypeOK, queueVars, resultVars
    <3>2. CASE outcome[s] \in {"aborted", "unusable"}
      BY <1>16, <2>1, <3>2 DEF Done, TypeOK, StoreTypeOK, queueVars, resultVars
    <3>3. CASE outcome[s] \notin {"redo", "aborted", "unusable"}
      <4>1. /\ done' = [done EXCEPT ![cur[s]] = TRUE] /\ seeded' = seeded /\ owner' = owner
            /\ claimed' = [claimed EXCEPT ![s] = @ \ {cur[s]}] /\ redo' = redo
        BY <1>16, <3>3 DEF Done, FinishItem
      <4>2. QED
        BY <2>1, <4>1 DEF TypeOK, StoreTypeOK, resultVars
    <3>4. QED
      BY <3>1, <3>2, <3>3
  <2>3. /\ pc' \in [Shards -> PCs] /\ ok' \in [Shards -> BOOLEAN]
        /\ \A r \in Shards : pc'[r] \in {"ended", "health"} => cur'[r] \in Items
    BY <2>1 DEF TypeOK, PCs, bookVars
  <2>4. UNCHANGED <<fresh, running, ends>>
    BY <2>1 DEF runnerVars
  <2>5. QED
    BY <2>1, <2>2, <2>3, <2>4, SameBooking DEF TypeOK, runnerVars, bookVars, launchVars
<1>17. ASSUME NEW s \in Shards, StayHealthy(s)
       PROVE  TypeOK'
  <2>1. StoreTypeOK' /\ UNCHANGED <<fresh, running, ends>>
    BY <1>17 DEF StayHealthy, TypeOK, StoreTypeOK, storeVars, runnerVars
  <2>2. /\ pc[s] = "health" /\ pc' = [pc EXCEPT ![s] = NextEnd(s)]
        /\ cur' = [cur EXCEPT ![s] = Null] /\ outcome' = [outcome EXCEPT ![s] = "none"]
        /\ UNCHANGED <<loopVars, runnerVars, seen, ok, launchVars>>
    BY <1>17 DEF StayHealthy, Goto
  <2>3. NextEnd(s) \in PCs \ {"ended", "health"}
    BY DEF NextEnd, TypeOK, PCs
  <2>4. /\ pc' \in [Shards -> PCs] /\ cur' \in [Shards -> Items \cup {Null}]
        /\ outcome' \in [Shards -> AllOutcomes \cup {"none"}]
        /\ \A r \in Shards : pc'[r] \in {"ended", "health"} => cur'[r] \in Items
    BY <2>2, <2>3 DEF TypeOK
  <2>5. errs' \in [Shards -> 0 .. UnhealthyAfter - 1] /\ failed' \in [Shards -> SUBSET Items]
    <3>1. CASE CountsAgainst(s)
      <4>1. errs[s] + 1 \in 0 .. UnhealthyAfter - 1
        BY <1>17, <3>1 DEF StayHealthy, TypeOK
      <4>2. cur[s] \in Items
        BY <2>2 DEF TypeOK
      <4>3. errs' = [errs EXCEPT ![s] = @ + 1] /\ failed' = [failed EXCEPT ![s] = @ \cup {cur[s]}]
        BY <1>17, <3>1 DEF StayHealthy
      <4>4. errs' \in [Shards -> 0 .. UnhealthyAfter - 1]
        BY <4>1, <4>3 DEF TypeOK
      <4>5. failed' \in [Shards -> SUBSET Items]
        BY <4>2, <4>3 DEF TypeOK
      <4>6. QED
        BY <4>4, <4>5
    <3>2. CASE ~CountsAgainst(s)
      BY <1>17, <3>2 DEF StayHealthy, TypeOK
    <3>3. QED
      BY <3>1, <3>2
  <2>6. QED
    BY <2>1, <2>2, <2>4, <2>5, SameBooking DEF TypeOK, loopVars, runnerVars, launchVars
<1>18. ASSUME NEW s \in Shards, NoneEnded(s)
       PROVE  TypeOK'
  <2>1. StoreTypeOK' /\ UNCHANGED <<fresh, running, ends>>
    BY <1>18 DEF NoneEnded, TypeOK, StoreTypeOK, storeVars, runnerVars
  <2>2. /\ pc' \in [Shards -> PCs]
        /\ \A r \in Shards : pc'[r] \in {"ended", "health"} => cur'[r] \in Items
    BY <1>18 DEF NoneEnded, Goto, TypeOK, PCs, bookVars
  <2>3. QED
    BY <1>18, <2>1, <2>2, SameBooking
    DEF NoneEnded, TypeOK, loopVars, runnerVars, bookVars, healthVars, launchVars
<1>19. ASSUME NEW s \in Shards, StopUnhealthy(s)
       PROVE  TypeOK'
  <2>1. Exit(s, "unhealthy") /\ UNCHANGED <<resultVars, complete>> /\ "unhealthy" \in Exits
    BY <1>19 DEF StopUnhealthy, Exits
  <2>2. StoreTypeOK'
    <3>1. CASE Release(failed[s] \cup {cur[s]} \cup claimed[s])
      BY <2>1, <3>1, ReleaseTypes DEF TypeOK
    <3>2. CASE UNCHANGED queueVars
      BY <2>1, <3>2 DEF TypeOK, StoreTypeOK, queueVars, resultVars
    <3>3. QED
      BY <1>19, <3>1, <3>2 DEF StopUnhealthy
  <2>3. QED
    BY <2>1, <2>2, ExitTypes
<1>20. ASSUME NEW s \in Shards, StopUnusable(s)
       PROVE  TypeOK'
  <2>1. /\ Release(claimed[s]) /\ Exit(s, "unhealthy") /\ UNCHANGED <<resultVars, complete>>
        /\ "unhealthy" \in Exits
    BY <1>20 DEF StopUnusable, Exits
  <2>2. QED
    BY <2>1, ReleaseTypes, ExitTypes DEF TypeOK
<1>21. ASSUME NEW s \in Shards, Finalize(s)
       PROVE  TypeOK'
  <2>1. StoreTypeOK' /\ Exit(s, "ended") /\ "ended" \in Exits
    BY <1>21 DEF Finalize, SetShardComplete, TypeOK, StoreTypeOK, queueVars, resultVars, Exits, Entries
  <2>2. QED
    BY <2>1, ExitTypes
<1>22. QED
  BY <1>1, <1>2, <1>3, <1>4, <1>5, <1>6, <1>7, <1>8, <1>9, <1>10, <1>11, <1>12, <1>13, <1>14,
     <1>15, <1>16, <1>17, <1>18, <1>19, <1>20, <1>21 DEF Next, Step

-----------------------------------------------------------------------------
(* One shard at a time.                                                    *)

\* What a shard's process holds in memory is changed by that shard's steps only.
LEMMA OthersUnchanged ==
  ASSUME TypeOK, NEW s \in Shards, Launch(s) \/ Die(s) \/ Step(s),
         NEW t \in Shards, t # s
  PROVE  /\ pc'[t] = pc[t] /\ claimed'[t] = claimed[t] /\ held'[t] = held[t] /\ redo'[t] = redo[t]
         /\ group'[t] = group[t] /\ unusable'[t] = unusable[t] /\ fresh'[t] = fresh[t]
         /\ running'[t] = running[t] /\ exhausted'[t] = exhausted[t] /\ ends'[t] = ends[t]
         /\ cur'[t] = cur[t] /\ outcome'[t] = outcome[t] /\ after'[t] = after[t]
         /\ seen'[t] = seen[t] /\ failed'[t] = failed[t]
<1> USE DEF loopVars, runnerVars, bookVars, healthVars, launchVars, Goto
<1>1. CASE Launch(s)
  BY <1>1 DEF Launch, TypeOK
<1>2. ASSUME NEW how, Exit(s, how)
      PROVE  /\ pc'[t] = pc[t] /\ claimed'[t] = claimed[t] /\ held'[t] = held[t] /\ redo'[t] = redo[t]
             /\ group'[t] = group[t] /\ unusable'[t] = unusable[t] /\ fresh'[t] = fresh[t]
             /\ running'[t] = running[t] /\ exhausted'[t] = exhausted[t] /\ ends'[t] = ends[t]
             /\ cur'[t] = cur[t] /\ outcome'[t] = outcome[t] /\ after'[t] = after[t]
             /\ seen'[t] = seen[t] /\ failed'[t] = failed[t]
  BY <1>2 DEF Exit, TypeOK
<1>3. CASE Die(s) \/ StopUnhealthy(s) \/ StopUnusable(s) \/ Finalize(s)
  BY <1>2, <1>3 DEF Die, StopUnhealthy, StopUnusable, Finalize
<1>4. CASE BeginEntry(s) \/ Seed(s) \/ ReadResults(s) \/ Resume(s)
  BY <1>4 DEF BeginEntry, Seed, ReadResults, Resume, TypeOK
<1>5. CASE Loop(s)
  BY <1>5 DEF Loop, TypeOK
<1>6. ASSUME NEW i, UseItem(s, i)
      PROVE  /\ pc'[t] = pc[t] /\ held'[t] = held[t] /\ group'[t] = group[t] /\ fresh'[t] = fresh[t]
             /\ exhausted'[t] = exhausted[t] /\ ends'[t] = ends[t] /\ after'[t] = after[t]
  BY <1>6 DEF UseItem, TypeOK
<1>7. CASE TakeWaiting(s)
  BY <1>6, <1>7 DEF TakeWaiting, TypeOK
<1>8. CASE Claim(s)
  BY <1>6, <1>8 DEF Claim, TypeOK
<1>9. CASE FillEnds(s)
  BY <1>9 DEF FillEnds, TypeOK
<1>10. CASE Start(s)
  BY <1>10 DEF Start, EndAll, TypeOK
<1>11. CASE Exchange(s)
  BY <1>11 DEF Exchange, EndAll, TypeOK
<1>12. CASE StepEnvs(s)
  BY <1>12 DEF StepEnvs, TypeOK
<1>13. CASE EndEpisode(s)
  BY <1>13 DEF EndEpisode, TypeOK
<1>14. CASE Done(s)
  BY <1>14 DEF Done, TypeOK
<1>15. CASE StayHealthy(s)
  BY <1>15 DEF StayHealthy, TypeOK
<1>16. CASE NoneEnded(s)
  BY <1>16 DEF NoneEnded, TypeOK
<1>17. QED
  BY <1>1, <1>3, <1>4, <1>5, <1>7, <1>8, <1>9, <1>10, <1>11, <1>12, <1>13, <1>14, <1>15, <1>16 DEF Step

\* What booking the episode of item i does.
BooksEpisode(s, i) ==
  /\ IF recorder[s] THEN RecordEpisode(i, RowStatus(ends[s][i])) ELSE UNCHANGED resultVars
  /\ pc'[s] = "ended" /\ cur'[s] = i /\ outcome'[s] = ends[s][i]
  /\ DOMAIN ends'[s] = DOMAIN ends[s] \ {i}
  /\ \A j \in DOMAIN ends'[s] : ends'[s][j] = ends[s][j]
  /\ unusable'[s] = (unusable[s] \/ ends[s][i] = "unusable")
  /\ exhausted'[s] = FALSE
  /\ after'[s] = after[s] /\ fresh'[s] = fresh[s] /\ running'[s] = running[s]
  /\ claimed'[s] = claimed[s] /\ held'[s] = held[s] /\ redo'[s] = redo[s] /\ group'[s] = group[s]
  /\ seen'[s] = seen[s] /\ failed'[s] = failed[s]
  /\ UNCHANGED <<queueVars, complete>>

\* An episode that ended is booked under its item's outcome.
LEMMA EpisodeBooked ==
  ASSUME TypeOK, NEW s \in Shards, EndEpisode(s)
  PROVE  \E i \in DOMAIN ends[s] : BooksEpisode(s, i)
<1>1. PICK i \in DOMAIN ends[s] :
        /\ IF recorder[s] THEN RecordEpisode(i, RowStatus(ends[s][i])) ELSE UNCHANGED resultVars
        /\ cur' = [cur EXCEPT ![s] = i]
        /\ outcome' = [outcome EXCEPT ![s] = ends[s][i]]
        /\ ends' = [ends EXCEPT ![s] = Restrict(ends[s], DOMAIN ends[s] \ {i})]
        /\ unusable' = [unusable EXCEPT ![s] = @ \/ ends[s][i] = "unusable"]
        /\ exhausted' = [exhausted EXCEPT ![s] = FALSE]
  BY DEF EndEpisode
<1>2. ends'[s] = [j \in DOMAIN ends[s] \ {i} |-> ends[s][j]]
  BY <1>1 DEF TypeOK, Restrict
<1>3. /\ cur'[s] = i /\ outcome'[s] = ends[s][i] /\ exhausted'[s] = FALSE
      /\ unusable'[s] = (unusable[s] \/ ends[s][i] = "unusable")
  BY <1>1 DEF TypeOK
<1>4. pc'[s] = "ended"
  BY DEF EndEpisode, Goto, TypeOK
<1>5. BooksEpisode(s, i)
  BY ZenonT(60), <1>1, <1>2, <1>3, <1>4 DEF EndEpisode, BooksEpisode, healthVars
<1>6. QED
  BY <1>5

-----------------------------------------------------------------------------
(* Control: which fields are in use at which point of the runner.          *)

\* No shard has started.
LEMMA ControlInit == Init => ControlInv
BY DEF Init, ControlInv, BookingOrder, StopsAreKnown, AsksAfterEnds, Nowhere

\* An item that next_episode has in hand keeps the order.
LEMMA UseItemControl ==
  ASSUME TypeOK, ControlInv, NEW s \in Shards, NEW i, UseItem(s, i), pc[s] = "fill",
         UNCHANGED <<unusable, bookVars>>
  PROVE  BookingOrder(s)' /\ StopsAreKnown(s)' /\ AsksAfterEnds(s)'
<1> USE DEF BookingOrder, StopsAreKnown, AsksAfterEnds, bookVars
<1>1. /\ DOMAIN ends[s] = {} /\ after[s] # "stop" /\ ~exhausted[s]
  BY DEF ControlInv
<1>2. CASE Mixed(s, i)
  <2>1. pc'[s] = "start" /\ fresh'[s] = fresh[s] /\ ends'[s] = ends[s] /\ after'[s] = after[s]
    BY <1>2 DEF UseItem, Goto, TypeOK
  <2>2. QED
    BY <1>1, <2>1
<1>3. CASE ~Mixed(s, i) /\ recorder[s]
  <2>1. pc'[s] = "fill" /\ exhausted'[s] = exhausted[s] /\ ends'[s] = ends[s] /\ after'[s] = after[s]
    BY <1>3 DEF UseItem, Goto, TypeOK
  <2>2. QED
    BY <1>1, <2>1
<1>4. CASE ~Mixed(s, i) /\ ~recorder[s]
  <2>1. /\ pc'[s] = "end" /\ exhausted'[s] = exhausted[s] /\ fresh'[s] = fresh[s]
        /\ ends'[s] = [j \in {i} |-> "error"] /\ after'[s] = "fill"
    BY <1>4 DEF UseItem, Goto, TypeOK
  <2>2. QED
    BY <1>1, <2>1
<1>5. QED
  BY <1>2, <1>3, <1>4

\* Each step of a shard keeps its own order; the others' are not concerned.
LEMMA ControlNext == TypeOK /\ ControlInv /\ [Next]_vars => ControlInv'
<1> SUFFICES ASSUME TypeOK, ControlInv, [Next]_vars
             PROVE  ControlInv'
  OBVIOUS
<1> DEFINE Control(r) == BookingOrder(r) /\ StopsAreKnown(r) /\ AsksAfterEnds(r)
<1>1. CASE UNCHANGED vars
  BY <1>1 DEF vars, procVars, loopVars, runnerVars, bookVars, ControlInv, BookingOrder, StopsAreKnown,
     AsksAfterEnds
<1>2. ASSUME NEW s \in Shards, Launch(s) \/ Die(s) \/ Step(s), Control(s)'
      PROVE  ControlInv'
  <2>1. \A t \in Shards : t # s => Control(t)'
    BY <1>2, OthersUnchanged DEF ControlInv, BookingOrder, StopsAreKnown, AsksAfterEnds
  <2>2. QED
    BY <1>2, <2>1 DEF ControlInv
<1>3. ASSUME NEW s \in Shards, Launch(s) \/ Die(s) \/ Step(s)
      PROVE  Control(s)'
  <2>0. Control(s)
    BY DEF ControlInv
  <2> USE <2>0 DEF BookingOrder, StopsAreKnown, AsksAfterEnds, loopVars, runnerVars, bookVars, Goto
  <2>1. CASE Launch(s)
    BY <2>1 DEF Launch, TypeOK
  <2>2. ASSUME NEW how, Exit(s, how)
        PROVE  Control(s)'
    <3>1. /\ pc'[s] = "off" /\ ends'[s] = Nowhere /\ fresh'[s] = {} /\ after'[s] = "loop"
          /\ exhausted'[s] = FALSE
      BY <2>2 DEF Exit, TypeOK
    <3>2. DOMAIN Nowhere = {}
      BY DEF Nowhere
    <3>3. QED
      BY <3>1, <3>2
  <2>3. CASE Die(s) \/ StopUnhealthy(s) \/ StopUnusable(s) \/ Finalize(s)
    BY <2>2, <2>3 DEF Die, StopUnhealthy, StopUnusable, Finalize
  <2>4. CASE BeginEntry(s) \/ Seed(s) \/ ReadResults(s) \/ Resume(s)
    BY <2>4 DEF BeginEntry, Seed, ReadResults, Resume, TypeOK
  <2>5. CASE Loop(s)
    BY <2>5 DEF Loop, MayFill, TypeOK
  <2>6. CASE TakeWaiting(s)
    <3>1. pc[s] = "fill" /\ UNCHANGED <<unusable, bookVars>> /\ \E i : UseItem(s, i)
      BY <2>6 DEF TakeWaiting
    <3>2. QED
      BY <3>1, UseItemControl
  <2>7. CASE Claim(s)
    <3>1. pc[s] = "fill" /\ UNCHANGED <<unusable, bookVars>> /\ \E i : UseItem(s, i)
      BY <2>7 DEF Claim
    <3>2. QED
      BY <3>1, UseItemControl
  <2>8. CASE FillEnds(s)
    BY <2>8 DEF FillEnds, TypeOK
  <2>9. CASE Start(s)
    BY <2>9 DEF Start, EndAll, TypeOK
  <2>10. CASE Exchange(s)
    BY <2>10 DEF Exchange, EndAll, TypeOK
  <2>11. CASE StepEnvs(s)
    BY <2>11 DEF StepEnvs, TypeOK
  <2>12. CASE EndEpisode(s)
    <3>1. PICK i \in DOMAIN ends[s] : BooksEpisode(s, i)
      BY <2>12, EpisodeBooked
    <3>2. QED
      BY <2>12, <3>1 DEF EndEpisode, BooksEpisode
  <2>13. CASE Done(s)
    BY <2>13 DEF Done, TypeOK
  <2>14. CASE StayHealthy(s)
    BY <2>14 DEF StayHealthy, NextEnd, TypeOK
  <2>15. CASE NoneEnded(s)
    BY <2>15 DEF NoneEnded, TypeOK
  <2>16. QED
    BY <1>3, <2>1, <2>3, <2>4, <2>5, <2>6, <2>7, <2>8, <2>9, <2>10, <2>11, <2>12, <2>13, <2>14,
       <2>15 DEF Step
<1>4. QED
  BY <1>1, <1>2, <1>3 DEF Next

-----------------------------------------------------------------------------
(* Places: where each claimed item is.                                     *)

\* Nothing is claimed.
LEMMA PlacesInit == Init => PlacesInv
BY DEF Init, PlacesInv, OneTaskAtATime, ClaimedHavePlaces, Active, Booking, Waiting, Nowhere, Null

\* While slots are filled no ended episode waits to be booked.
LEMMA FillingBooksNone ==
  ASSUME ControlInv, NEW s \in Shards, pc[s] \notin {"end", "ended", "health"}
  PROVE  Booking(s) = {} /\ DOMAIN ends[s] = {}
BY DEF ControlInv, BookingOrder, Booking

\* The item in hand, whether redone, held or just claimed, gets a slot, or is held
\* when it belongs to another task than the running episodes; and then it is not one
\* to be redone, so it takes no held item's place.
LEMMA UseItemPlaces ==
  ASSUME TypeOK, ControlInv, PlacesInv, NEW s \in Shards, NEW i \in Items, UseItem(s, i),
         pc[s] = "fill", UNCHANGED <<unusable, running, bookVars>>,
         redo'[s] = redo[s] \ {i}, claimed'[s] = claimed[s] \cup {i},
         \/ i \in redo[s]
         \/ redo[s] = {} /\ held[s] = i
         \/ redo[s] = {} /\ held[s] = Null /\ i \notin claimed[s]
  PROVE  OneTaskAtATime(s)' /\ ClaimedHavePlaces(s)'
<1>1. /\ Booking(s) = {} /\ DOMAIN ends[s] = {} /\ after[s] # "stop"
      /\ OneTaskAtATime(s) /\ ClaimedHavePlaces(s)
  BY FillingBooksNone DEF ControlInv, StopsAreKnown, PlacesInv
<1>2. i # Null
  BY DEF Items, Null
<1>3. unusable'[s] = unusable[s] /\ running'[s] = running[s] /\ cur'[s] = cur[s] /\ i \in claimed'[s]
  BY DEF bookVars
<1>4. CASE Mixed(s, i)
  <2>1. i \notin redo[s]
    BY <1>1, <1>4 DEF Mixed, Active, OneTaskAtATime
  <2>2. /\ pc'[s] = "start" /\ held'[s] = i /\ group'[s] = group[s] /\ fresh'[s] = fresh[s]
        /\ ends'[s] = ends[s] /\ after'[s] = after[s]
    BY <1>4 DEF UseItem, Goto, TypeOK
  <2>3. Booking(s)' = {} /\ Active(s)' = Active(s) /\ Waiting(s)' = {i} /\ redo'[s] = {}
    BY <1>1, <1>2, <1>3, <2>1, <2>2 DEF Booking, Active, Waiting
  <2>4. OneTaskAtATime(s)'
    BY <1>1, <2>2, <2>3 DEF OneTaskAtATime
  <2>5. i \notin Active(s)
    BY <1>1, <1>4 DEF Mixed, Active, OneTaskAtATime
  <2>6. ClaimedHavePlaces(s)'
    BY <1>1, <1>2, <1>3, <2>1, <2>2, <2>3, <2>5 DEF ClaimedHavePlaces, Waiting
  <2>7. QED
    BY <2>4, <2>6
<1>5. ~Mixed(s, i) => \A j \in Active(s) \cup redo'[s] : TaskOf[j] = TaskOf[i]
  BY <1>1 DEF Mixed, Active, OneTaskAtATime
<1>6. \/ held[s] = i /\ redo[s] = {}
      \/ held[s] # i /\ (i \in redo[s] \/ held[s] = Null)
  BY <1>1, <1>2 DEF ClaimedHavePlaces
<1>7. ~Mixed(s, i) => /\ held'[s] = IF i = held[s] THEN Null ELSE held[s]
                      /\ group'[s] = TaskOf[i]
  BY DEF UseItem, TypeOK
<1>8. ~Mixed(s, i) => /\ Waiting(s)' = Waiting(s) \ {i} /\ held'[s] \notin redo'[s]
                      /\ i \notin Waiting(s)'
  BY <1>1, <1>2, <1>6, <1>7 DEF Waiting, ClaimedHavePlaces
<1>9. CASE ~Mixed(s, i) /\ recorder[s]
  <2>1. /\ pc'[s] = "fill" /\ fresh'[s] = fresh[s] \cup {i} /\ ends'[s] = ends[s] /\ after'[s] = after[s]
    BY <1>9 DEF UseItem, Goto, TypeOK
  <2>2. Booking(s)' = {} /\ Active(s)' = Active(s) \cup {i}
    BY <1>1, <1>3, <2>1 DEF Booking, Active
  <2>3. OneTaskAtATime(s)'
    BY <1>5, <1>7, <1>9, <2>2 DEF OneTaskAtATime
  <2>4. ClaimedHavePlaces(s)'
    BY <1>1, <1>3, <1>8, <1>9, <2>1, <2>2 DEF ClaimedHavePlaces
  <2>5. QED
    BY <2>3, <2>4
<1>10. CASE ~Mixed(s, i) /\ ~recorder[s]
  <2>1. /\ pc'[s] = "end" /\ fresh'[s] = fresh[s] /\ ends'[s] = [j \in {i} |-> "error"]
        /\ after'[s] = "fill"
    BY <1>10 DEF UseItem, Goto, TypeOK
  <2>2. Booking(s)' = {i} /\ Active(s)' = Active(s)
    BY <1>3, <2>1 DEF Booking, Active
  <2>3. OneTaskAtATime(s)'
    BY <1>5, <1>7, <1>10, <2>2 DEF OneTaskAtATime
  <2>4. i \notin Active(s)
    BY <1>1, <1>2 DEF ClaimedHavePlaces, Waiting
  <2>5. ClaimedHavePlaces(s)'
    BY <1>1, <1>3, <1>8, <1>10, <2>1, <2>2, <2>4 DEF ClaimedHavePlaces
  <2>6. QED
    BY <2>3, <2>5
<1>11. QED
  BY <1>4, <1>9, <1>10

\* Episodes that end leave their slots and are booked.
LEMMA EndPlaces ==
  ASSUME TypeOK, ControlInv, PlacesInv, NEW s \in Shards,
         pc[s] \notin {"end", "ended", "health"}, pc'[s] = "end",
         DOMAIN ends'[s] \cap Active(s)' = {}, DOMAIN ends'[s] \cup Active(s)' = Active(s),
         UNCHANGED loopVars, after[s] = "stop" => after'[s] = "stop"
  PROVE  OneTaskAtATime(s)' /\ ClaimedHavePlaces(s)'
<1>1. Booking(s) = {} /\ OneTaskAtATime(s) /\ ClaimedHavePlaces(s)
  BY FillingBooksNone DEF PlacesInv
<1>2. Booking(s)' = DOMAIN ends'[s]
  BY DEF Booking
<1>3. Waiting(s)' = Waiting(s) /\ redo' = redo /\ group' = group /\ claimed' = claimed /\ held' = held
      /\ unusable' = unusable
  BY DEF loopVars, Waiting
<1>4. OneTaskAtATime(s)'
  BY <1>1, <1>2, <1>3 DEF OneTaskAtATime
<1>5. ClaimedHavePlaces(s)'
  BY <1>1, <1>2, <1>3 DEF ClaimedHavePlaces
<1>6. QED
  BY <1>4, <1>5

\* What moves no item and keeps the run's stops keeps the places.
LEMMA SamePlaces ==
  ASSUME NEW s \in Shards, OneTaskAtATime(s), ClaimedHavePlaces(s),
         Active(s)' = Active(s), Booking(s)' = Booking(s),
         redo'[s] = redo[s], held'[s] = held[s], group'[s] = group[s], claimed'[s] = claimed[s],
         unusable'[s] = unusable[s], after'[s] = after[s]
  PROVE  OneTaskAtATime(s)' /\ ClaimedHavePlaces(s)'
<1>1. Waiting(s)' = Waiting(s)
  BY DEF Waiting
<1>2. QED
  BY <1>1 DEF OneTaskAtATime, ClaimedHavePlaces

\* Each step of a shard keeps its own places.
LEMMA PlacesNext ==
  TypeOK /\ ControlInv /\ ClaimedAreOwn /\ PlacesInv /\ [Next]_vars => PlacesInv'
<1> SUFFICES ASSUME TypeOK, ControlInv, ClaimedAreOwn, PlacesInv, [Next]_vars
             PROVE  PlacesInv'
  OBVIOUS
<1> DEFINE Places(r) == OneTaskAtATime(r) /\ ClaimedHavePlaces(r)
<1>1. CASE UNCHANGED vars
  BY <1>1 DEF vars, procVars, loopVars, runnerVars, bookVars, PlacesInv, OneTaskAtATime,
     ClaimedHavePlaces, Active, Booking, Waiting
<1>2. ASSUME NEW s \in Shards, Launch(s) \/ Die(s) \/ Step(s), Places(s)'
      PROVE  PlacesInv'
  <2>1. ASSUME NEW t \in Shards, t # s
        PROVE  Places(t)'
    <3>1. Active(t)' = Active(t) /\ Booking(t)' = Booking(t) /\ Waiting(t)' = Waiting(t)
      BY <1>2, <2>1, OthersUnchanged DEF Active, Booking, Waiting
    <3>2. Places(t)
      BY DEF PlacesInv
    <3>3. QED
      BY <1>2, <2>1, <3>1, <3>2, OthersUnchanged DEF OneTaskAtATime, ClaimedHavePlaces
  <2>2. QED
    BY <1>2, <2>1 DEF PlacesInv
<1>3. ASSUME NEW s \in Shards, Launch(s) \/ Die(s) \/ Step(s)
      PROVE  Places(s)'
  <2>0. OneTaskAtATime(s) /\ ClaimedHavePlaces(s)
    BY DEF PlacesInv
  <2>1. CASE \/ Launch(s) \/ BeginEntry(s) \/ Seed(s) \/ ReadResults(s) \/ Resume(s) \/ Loop(s)
    <3>1. /\ UNCHANGED <<loopVars, runnerVars, bookVars>>
          /\ pc[s] # "ended" /\ pc'[s] # "ended"
      BY <2>1 DEF Launch, BeginEntry, Seed, ReadResults, Resume, Loop, Goto, TypeOK
    <3>2. Active(s)' = Active(s) /\ Booking(s)' = Booking(s)
      BY <3>1 DEF Active, Booking, runnerVars
    <3>3. QED
      BY <2>0, <3>1, <3>2, SamePlaces DEF loopVars, runnerVars
  <2>2. ASSUME NEW how, Exit(s, how)
        PROVE  Places(s)'
    <3>1. /\ pc'[s] = "off" /\ ends'[s] = Nowhere /\ fresh'[s] = {} /\ running'[s] = {}
          /\ claimed'[s] = {} /\ held'[s] = Null /\ redo'[s] = {}
      BY <2>2 DEF Exit, Goto, TypeOK
    <3>2. Active(s)' = {} /\ Booking(s)' = {} /\ Waiting(s)' = {}
      BY <3>1 DEF Active, Booking, Waiting, Nowhere
    <3>3. QED
      BY <3>1, <3>2 DEF OneTaskAtATime, ClaimedHavePlaces
  <2>3. CASE Die(s) \/ StopUnhealthy(s) \/ StopUnusable(s) \/ Finalize(s)
    BY <2>2, <2>3 DEF Die, StopUnhealthy, StopUnusable, Finalize
  <2>4. CASE TakeWaiting(s)
    <3>1. /\ pc[s] = "fill" /\ UNCHANGED <<unusable, running, bookVars>>
          /\ claimed' = claimed
      BY <2>4 DEF TakeWaiting
    <3>2. PICK i \in Items :
            /\ UseItem(s, i) /\ redo'[s] = redo[s] \ {i}
            /\ i \in redo[s] \/ (redo[s] = {} /\ held[s] = i)
      BY <2>4 DEF TakeWaiting, TypeOK
    <3>3. i \in claimed[s]
      BY <2>0, <3>2 DEF ClaimedHavePlaces, Waiting, Null, Items
    <3>4. QED
      BY <3>1, <3>2, <3>3, UseItemPlaces
  <2>5. CASE Claim(s)
    <3>1. /\ pc[s] = "fill" /\ UNCHANGED <<unusable, running, bookVars>>
          /\ redo[s] = {} /\ held[s] = Null /\ redo' = redo
      BY <2>5 DEF Claim
    <3>2. PICK i \in NextItem(s, 1, group[s], claimed[s]) :
            claimed' = [claimed EXCEPT ![s] = @ \cup {i}] /\ UseItem(s, i)
      BY <2>5 DEF Claim
    <3>3. i \in Items /\ i \notin claimed[s]
      BY NextItemFacts DEF ClaimedAreOwn, Null, Shards
    <3>4. claimed'[s] = claimed[s] \cup {i} /\ redo'[s] = redo[s] \ {i}
      BY <3>1, <3>2 DEF TypeOK
    <3>5. QED
      BY <3>1, <3>2, <3>3, <3>4, UseItemPlaces
  <2>6. CASE FillEnds(s)
    <3>1. /\ UNCHANGED <<loopVars, fresh, running, ends, after, bookVars>>
          /\ pc[s] # "ended" /\ pc'[s] # "ended"
      BY <2>6 DEF FillEnds, Goto, TypeOK
    <3>2. Active(s)' = Active(s) /\ Booking(s)' = Booking(s)
      BY <3>1 DEF Active, Booking
    <3>3. QED
      BY <2>0, <3>1, <3>2, SamePlaces DEF loopVars
  <2>7. CASE Start(s)
    <3>1. pc[s] = "start" /\ fresh'[s] = {} /\ UNCHANGED loopVars /\ after[s] # "stop"
      BY <2>7 DEF Start, TypeOK, ControlInv, StopsAreKnown
    <3>2. CASE /\ running' = [running EXCEPT ![s] = @ \cup fresh[s]]
               /\ Goto(s, IF running'[s] = {} THEN "loop" ELSE "exchange")
               /\ UNCHANGED <<ends, after>>
      <4>1. Active(s)' = Active(s) /\ Booking(s)' = Booking(s)
        BY <3>1, <3>2 DEF Active, Booking, Goto, TypeOK
      <4>2. QED
        BY <2>0, <3>1, <3>2, <4>1, SamePlaces DEF loopVars
    <3>3. CASE /\ \E o : EndAll(s, fresh[s] \cup running[s], o, "loop")
               /\ running' = [running EXCEPT ![s] = {}]
      <4>1. Active(s)' = {} /\ DOMAIN ends'[s] = Active(s) /\ pc'[s] = "end"
        BY <3>1, <3>3 DEF EndAll, Goto, Active, TypeOK
      <4>2. QED
        BY <3>1, <4>1, EndPlaces
    <3>4. QED
      BY <2>7, <3>2, <3>3 DEF Start
  <2>8. CASE Exchange(s)
    <3>1. pc[s] = "exchange" /\ fresh' = fresh /\ UNCHANGED <<loopVars, bookVars>> /\ after[s] # "stop"
      BY <2>8 DEF Exchange, ControlInv, StopsAreKnown
    <3>2. fresh[s] = {}
      BY <3>1 DEF ControlInv, BookingOrder
    <3>3. CASE Goto(s, "step") /\ UNCHANGED <<running, ends, after>>
      <4>1. Active(s)' = Active(s) /\ Booking(s)' = Booking(s)
        BY <3>1, <3>3 DEF Active, Booking, Goto, TypeOK
      <4>2. QED
        BY <2>0, <3>1, <3>3, <4>1, SamePlaces DEF loopVars
    <3>4. CASE \E S \in SUBSET running[s] :
                 /\ running' = [running EXCEPT ![s] = @ \ S]
                 /\ \E o, label : EndAll(s, S, o, label)
      <4>1. PICK S \in SUBSET running[s] :
               /\ running'[s] = running[s] \ S
               /\ \E o, label : EndAll(s, S, o, label)
        BY <3>4 DEF TypeOK
      <4>2. DOMAIN ends'[s] = S /\ pc'[s] = "end"
        BY <4>1 DEF EndAll, Goto, TypeOK
      <4>3. DOMAIN ends'[s] \cap Active(s)' = {} /\ DOMAIN ends'[s] \cup Active(s)' = Active(s)
        BY <3>1, <3>2, <4>1, <4>2 DEF Active
      <4>4. QED
        BY <3>1, <4>2, <4>3, EndPlaces
    <3>5. CASE /\ running' = [running EXCEPT ![s] = {}]
               /\ EndAll(s, running[s], "aborted", "stop")
      <4>1. running' = [running EXCEPT ![s] = @ \ running[s]]
        BY <3>5 DEF TypeOK
      <4>2. QED
        BY <3>4, <3>5, <4>1
    <3>6. QED
      BY <2>8, <3>3, <3>4, <3>5 DEF Exchange
  <2>9. CASE StepEnvs(s)
    <3>1. /\ pc[s] = "step" /\ fresh' = fresh /\ UNCHANGED <<loopVars, bookVars>> /\ after[s] # "stop"
          /\ pc'[s] = "end"
      BY <2>9 DEF StepEnvs, Goto, TypeOK, ControlInv, StopsAreKnown
    <3>2. fresh[s] = {}
      BY <3>1 DEF ControlInv, BookingOrder
    <3>3. \E S \in SUBSET running[s] : running'[s] = running[s] \ S /\ DOMAIN ends'[s] = S
      BY <2>9 DEF StepEnvs, TypeOK
    <3>4. DOMAIN ends'[s] \cap Active(s)' = {} /\ DOMAIN ends'[s] \cup Active(s)' = Active(s)
      BY <3>1, <3>2, <3>3 DEF Active
    <3>5. QED
      BY <3>1, <3>4, EndPlaces
  <2>10. CASE EndEpisode(s)
    <3>1. PICK i \in DOMAIN ends[s] : BooksEpisode(s, i)
      BY <2>10, EpisodeBooked
    <3>2. pc[s] = "end"
      BY <2>10 DEF EndEpisode
    <3>3. Active(s)' = Active(s) /\ Booking(s)' = Booking(s) /\ Waiting(s)' = Waiting(s)
      BY <3>1, <3>2 DEF BooksEpisode, Active, Booking, Waiting
    <3>4. QED
      BY <2>0, <3>1, <3>3 DEF BooksEpisode, OneTaskAtATime, ClaimedHavePlaces
  <2>11. CASE Done(s)
    <3>1. /\ pc[s] = "ended" /\ pc'[s] = "health"
          /\ UNCHANGED <<held, group, unusable, runnerVars, bookVars>>
          /\ cur[s] \notin DOMAIN ends[s]
      BY <2>11 DEF Done, Goto, TypeOK, ControlInv, BookingOrder
    <3>2. /\ Active(s)' = Active(s) /\ Booking(s)' = Booking(s) \ {cur[s]} /\ cur[s] \in Booking(s)
      BY <3>1 DEF Active, Booking, runnerVars
    <3>3. CASE outcome[s] = "redo"
      <4>1. redo'[s] = redo[s] \cup {cur[s]} /\ claimed'[s] = claimed[s]
        BY <2>11, <3>3 DEF Done, TypeOK
      <4>2. Waiting(s)' = Waiting(s) \cup {cur[s]} /\ cur[s] # held[s]
        <5>1. cur[s] \in Items
          BY <3>1 DEF TypeOK
        <5>2. QED
          BY <2>0, <3>1, <3>2, <4>1, <5>1 DEF Waiting, ClaimedHavePlaces, Items, Null
      <4>3. QED
        BY <2>0, <3>1, <3>2, <4>1, <4>2 DEF OneTaskAtATime, ClaimedHavePlaces, runnerVars
    <3>4. CASE outcome[s] \in {"aborted", "unusable"}
      <4>1. redo'[s] = redo[s] /\ claimed'[s] = claimed[s] /\ Waiting(s)' = Waiting(s)
        BY <2>11, <3>1, <3>4 DEF Done, Waiting
      <4>2. unusable[s] \/ after[s] = "stop"
        BY <3>1, <3>4 DEF ControlInv, StopsAreKnown
      <4>3. QED
        BY <2>0, <3>1, <3>2, <4>1, <4>2 DEF OneTaskAtATime, ClaimedHavePlaces, runnerVars
    <3>5. CASE outcome[s] \notin {"redo", "aborted", "unusable"}
      <4>1. redo'[s] = redo[s] /\ claimed'[s] = claimed[s] \ {cur[s]} /\ Waiting(s)' = Waiting(s)
        BY <2>11, <3>1, <3>5 DEF Done, Waiting, TypeOK
      <4>2. QED
        BY <2>0, <3>1, <3>2, <4>1 DEF OneTaskAtATime, ClaimedHavePlaces, runnerVars
    <3>6. QED
      BY <3>3, <3>4, <3>5
  <2>12. CASE StayHealthy(s)
    <3>1. /\ UNCHANGED <<loopVars, runnerVars>> /\ pc[s] # "ended" /\ pc'[s] # "ended"
      BY <2>12 DEF StayHealthy, NextEnd, Goto, TypeOK
    <3>2. Active(s)' = Active(s) /\ Booking(s)' = Booking(s)
      BY <3>1 DEF Active, Booking, runnerVars
    <3>3. QED
      BY <2>0, <3>1, <3>2, SamePlaces DEF loopVars, runnerVars
  <2>13. CASE NoneEnded(s)
    <3>1. /\ UNCHANGED <<loopVars, runnerVars>> /\ pc[s] # "ended" /\ pc'[s] # "ended"
      BY <2>13 DEF NoneEnded, Goto, TypeOK
    <3>2. Active(s)' = Active(s) /\ Booking(s)' = Booking(s)
      BY <3>1 DEF Active, Booking, runnerVars
    <3>3. QED
      BY <2>0, <3>1, <3>2, SamePlaces DEF loopVars, runnerVars
  <2>14. QED
    BY <1>3, <2>1, <2>3, <2>4, <2>5, <2>6, <2>7, <2>8, <2>9, <2>10, <2>11, <2>12, <2>13 DEF Step
<1>4. QED
  BY <1>1, <1>2, <1>3 DEF Next

-----------------------------------------------------------------------------
(* Ownership: a claimed item is its shard's, and counted results stay.     *)

\* Nothing is claimed or counted at the start.
LEMMA OwnershipInit == Init => OwnershipInv
BY DEF Init, StoreInit, OwnershipInv, ClaimedAreOwn, OutcomeFits, CountedStays, CountedIsFinished,
   SeenAreCounted, FailedAreOwn

\* A step of a shard that changes no row of the queue and no result, and at most gives
\* up claims, keeps the invariant as long as what it has counted is still pending.
LEMMA QuietKeepsOwnership ==
  ASSUME TypeOK, OwnershipInv, NEW s \in Shards, Launch(s) \/ Die(s) \/ Step(s),
         owner' = owner, done' = done, counted' = counted,
         claimed'[s] \in SUBSET claimed[s], claimed'[s] # {} => pc[s] # "ended",
         pc'[s] \notin {"ended", "health"},
         \A i \in seen'[s] : counted[i],
         \A i \in failed'[s] : owner[i] = s /\ done[i] /\ ~counted[i],
         \A i \in Items : counted[i] /\ ~done[i] /\ owner[i] = s => FinishPending(i)'
  PROVE  OwnershipInv'
<1> USE DEF OwnershipInv
<1>1. ClaimedAreOwn'
  <2> SUFFICES ASSUME NEW r \in Shards, NEW i \in claimed'[r]
               PROVE  /\ owner[i] = r /\ (done[i] => counted[i])
                      /\ counted[i] => pc'[r] = "ended" /\ cur'[r] = i /\ outcome'[r] = "counted"
    BY DEF ClaimedAreOwn
  <2>1. CASE r = s
    BY <2>1 DEF ClaimedAreOwn
  <2>2. CASE r # s
    BY <2>2, OthersUnchanged DEF ClaimedAreOwn
  <2>3. QED
    BY <2>1, <2>2
<1>2. OutcomeFits'
  <2> SUFFICES ASSUME NEW r \in Shards, pc'[r] \in {"ended", "health"}
               PROVE  /\ owner[cur'[r]] = r /\ (outcome'[r] # "counted" => ~counted[cur'[r]])
                      /\ pc'[r] = "health" /\ outcome'[r] = "error" => done[cur'[r]]
    BY DEF OutcomeFits
  <2>1. r # s
    OBVIOUS
  <2>2. QED
    BY <2>1, OthersUnchanged DEF OutcomeFits
<1>3. CountedStays'
  BY DEF CountedStays
<1>4. CountedIsFinished'
  <2> SUFFICES ASSUME NEW i \in Items, counted[i], ~done[i]
               PROVE  FinishPending(i)'
    BY DEF CountedIsFinished
  <2>1. owner[i] \in Shards
    BY DEF CountedStays, TypeOK, StoreTypeOK
  <2>2. CASE owner[i] # s
    BY <2>1, <2>2, OthersUnchanged DEF CountedIsFinished, FinishPending
  <2>3. QED
    BY <2>2
<1>5. SeenAreCounted'
  BY OthersUnchanged DEF SeenAreCounted
<1>6. FailedAreOwn'
  BY OthersUnchanged DEF FailedAreOwn
<1>7. QED
  BY <1>1, <1>2, <1>3, <1>4, <1>5, <1>6

\* The runner's steps that leave the store alone, before and after an episode ends.
LEMMA RunnerKeepsOwnership ==
  ASSUME TypeOK, OwnershipInv, NEW s \in Shards, Step(s),
         owner' = owner, done' = done, counted' = counted, claimed' = claimed, seen' = seen,
         pc[s] \in {"loop", "fill", "start", "exchange", "step", "end", "health"},
         pc'[s] \notin {"ended", "health"},
         \A i \in failed'[s] : owner[i] = s /\ done[i] /\ ~counted[i]
  PROVE  OwnershipInv'
<1>1. \A i \in Items : counted[i] /\ ~done[i] => owner[i] # s
  BY DEF OwnershipInv, CountedIsFinished, FinishPending
<1>2. \A i \in seen'[s] : counted[i]
  BY DEF OwnershipInv, SeenAreCounted
<1>3. claimed'[s] \in SUBSET claimed[s] /\ (claimed'[s] # {} => pc[s] # "ended")
  OBVIOUS
<1>4. \A i \in Items : counted[i] /\ ~done[i] /\ owner[i] = s => FinishPending(i)'
  BY <1>1
<1>5. Launch(s) \/ Die(s) \/ Step(s)
  OBVIOUS
<1>6. QED
  BY <1>2, <1>3, <1>4, <1>5, QuietKeepsOwnership

\* A process that ends without touching the queue leaves what it counted to its
\* shard's next process.
LEMMA DyingKeepsOwnership ==
  ASSUME TypeOK, OwnershipInv, NEW s \in Shards, Launch(s) \/ Die(s) \/ Step(s),
         NEW how, Exit(s, how), owner' = owner, done' = done, counted' = counted
  PROVE  OwnershipInv'
<1>1. /\ pc'[s] = "off" /\ claimed'[s] = {} /\ seen'[s] = {} /\ failed'[s] = {}
  BY DEF Exit, Goto, TypeOK
<1>2. \A i \in Items : owner[i] = s => FinishPending(i)'
  BY <1>1 DEF FinishPending
<1>3. QED
  BY <1>1, <1>2, QuietKeepsOwnership

\* A shard that puts items of its own back that did not count, and ends.
LEMMA ReleasingKeepsOwnership ==
  ASSUME TypeOK, OwnershipInv, NEW s \in Shards, Launch(s) \/ Die(s) \/ Step(s),
         NEW how, Exit(s, how), NEW S, Release(S), counted' = counted,
         \A i \in S : owner[i] = s /\ ~counted[i]
  PROVE  OwnershipInv'
<1> USE DEF OwnershipInv
<1>1. /\ pc'[s] = "off" /\ claimed'[s] = {} /\ seen'[s] = {} /\ failed'[s] = {}
  BY DEF Exit, Goto, TypeOK
<1>2. \A i \in Items : /\ i \in S => owner'[i] = Null /\ done'[i] = FALSE
                       /\ i \notin S => owner'[i] = owner[i] /\ done'[i] = done[i]
  BY DEF Release, TypeOK, StoreTypeOK
<1>3. \A i \in Items : owner[i] # s => owner'[i] = owner[i] /\ done'[i] = done[i]
  BY <1>2
<1>4. ClaimedAreOwn'
  <2> SUFFICES ASSUME NEW r \in Shards, NEW i \in claimed'[r]
               PROVE  /\ owner'[i] = r /\ (done'[i] => counted[i])
                      /\ counted[i] => pc'[r] = "ended" /\ cur'[r] = i /\ outcome'[r] = "counted"
    BY DEF ClaimedAreOwn
  <2>1. r # s
    BY <1>1
  <2>2. i \in claimed[r] /\ i \in Items
    BY <2>1, OthersUnchanged DEF TypeOK
  <2>3. QED
    BY <1>3, <2>1, <2>2, OthersUnchanged DEF ClaimedAreOwn
<1>5. OutcomeFits'
  <2> SUFFICES ASSUME NEW r \in Shards, pc'[r] \in {"ended", "health"}
               PROVE  /\ owner'[cur'[r]] = r /\ (outcome'[r] # "counted" => ~counted[cur'[r]])
                      /\ pc'[r] = "health" /\ outcome'[r] = "error" => done'[cur'[r]]
    BY DEF OutcomeFits
  <2>1. r # s
    BY <1>1
  <2>2. cur'[r] = cur[r] /\ pc'[r] = pc[r] /\ outcome'[r] = outcome[r] /\ cur[r] \in Items
    BY <2>1, OthersUnchanged DEF TypeOK
  <2>3. QED
    BY <1>3, <2>1, <2>2 DEF OutcomeFits
<1>6. CountedStays'
  BY <1>2 DEF CountedStays
<1>7. CountedIsFinished'
  <2> SUFFICES ASSUME NEW i \in Items, counted[i], ~done'[i]
               PROVE  FinishPending(i)'
    BY DEF CountedIsFinished
  <2>1. owner'[i] = owner[i] /\ ~done[i] /\ owner[i] \in Shards
    BY <1>2 DEF CountedStays, TypeOK, StoreTypeOK
  <2>2. CASE owner[i] # s
    BY <2>1, <2>2, OthersUnchanged DEF CountedIsFinished, FinishPending
  <2>3. CASE owner[i] = s
    BY <1>1, <2>1, <2>3 DEF FinishPending
  <2>4. QED
    BY <2>2, <2>3
<1>8. SeenAreCounted'
  BY <1>1, OthersUnchanged DEF SeenAreCounted
<1>9. FailedAreOwn'
  <2> SUFFICES ASSUME NEW r \in Shards, NEW i \in failed'[r]
               PROVE  owner'[i] = r /\ done'[i] /\ ~counted[i]
    BY DEF FailedAreOwn
  <2>1. r # s
    BY <1>1
  <2>2. i \in failed[r] /\ i \in Items
    BY <2>1, OthersUnchanged DEF TypeOK
  <2>3. QED
    BY <1>3, <2>1, <2>2 DEF FailedAreOwn
<1>10. QED
  BY <1>4, <1>5, <1>6, <1>7, <1>8, <1>9

\* _resume finishes counted items only, and every counted one of its shard.
LEMMA ResumeKeepsOwnership ==
  ASSUME TypeOK, OwnershipInv, NEW s \in Shards, Resume(s)
  PROVE  OwnershipInv'
<1> USE DEF OwnershipInv
<1>1. /\ pc[s] = "resume" /\ pc'[s] = "loop" /\ seen'[s] = {} /\ claimed' = claimed
      /\ failed' = failed /\ owner' = owner /\ counted' = counted /\ cur' = cur /\ outcome' = outcome
  BY DEF Resume, FinishClaimed, Goto, TypeOK, loopVars, healthVars, resultVars, bookVars
<1>2. \A i \in Items : done'[i] <=> done[i] \/ (i \in seen[s] /\ owner[i] # Null)
  BY DEF Resume, FinishClaimed
<1>3. Step(s)
  BY DEF Step
<1>4. ClaimedAreOwn'
  <2> SUFFICES ASSUME NEW r \in Shards, NEW i \in claimed[r]
               PROVE  /\ owner[i] = r /\ (done'[i] => counted[i])
                      /\ counted[i] => pc'[r] = "ended" /\ cur[r] = i /\ outcome[r] = "counted"
    BY <1>1 DEF ClaimedAreOwn
  <2>1. i \in Items
    BY DEF TypeOK
  <2>2. done'[i] => counted[i]
    BY <1>2, <2>1 DEF ClaimedAreOwn, SeenAreCounted
  <2>3. r # s => pc'[r] = pc[r]
    BY <1>3, OthersUnchanged
  <2>4. QED
    BY <1>1, <2>2, <2>3 DEF ClaimedAreOwn
<1>5. OutcomeFits'
  <2> SUFFICES ASSUME NEW r \in Shards, pc'[r] \in {"ended", "health"}
               PROVE  /\ owner[cur[r]] = r /\ (outcome[r] # "counted" => ~counted[cur[r]])
                      /\ pc'[r] = "health" /\ outcome[r] = "error" => done'[cur[r]]
    BY <1>1 DEF OutcomeFits
  <2>1. pc'[r] = pc[r] /\ cur[r] \in Items
    BY <1>1, <1>3, OthersUnchanged DEF TypeOK
  <2>2. QED
    BY <1>2, <2>1 DEF OutcomeFits
<1>6. CountedStays' /\ SeenAreCounted'
  BY <1>1, <1>3, OthersUnchanged DEF CountedStays, SeenAreCounted
<1>7. CountedIsFinished'
  <2> SUFFICES ASSUME NEW i \in Items, counted[i], ~done'[i]
               PROVE  FinishPending(i)'
    BY <1>1 DEF CountedIsFinished
  <2>1. owner[i] \in Shards /\ ~done[i] /\ i \notin seen[s]
    BY <1>2 DEF CountedStays, TypeOK, StoreTypeOK
  <2>2. FinishPending(i)
    BY <2>1 DEF CountedIsFinished
  <2>3. owner[i] # s
    BY <1>1, <2>1, <2>2 DEF FinishPending
  <2>4. QED
    BY <1>1, <1>3, <2>1, <2>2, <2>3, OthersUnchanged DEF FinishPending
<1>8. FailedAreOwn'
  <2> SUFFICES ASSUME NEW r \in Shards, NEW i \in failed[r]
               PROVE  owner[i] = r /\ done'[i] /\ ~counted[i]
    BY <1>1 DEF FailedAreOwn
  <2>1. i \in Items
    BY DEF TypeOK
  <2>2. QED
    BY <1>2, <2>1 DEF FailedAreOwn
<1>9. QED
  BY <1>4, <1>5, <1>6, <1>7, <1>8

\* A claimed item is unfinished, has not counted, and is nobody else's.
LEMMA ClaimKeepsOwnership ==
  ASSUME TypeOK, OwnershipInv, NEW s \in Shards, Claim(s)
  PROVE  OwnershipInv'
<1> USE DEF OwnershipInv
<1>1. PICK i \in NextItem(s, 1, group[s], claimed[s]) :
        /\ IF owner[i] = s THEN UNCHANGED queueVars ELSE TakeItem(s, i)
        /\ claimed' = [claimed EXCEPT ![s] = @ \cup {i}]
        /\ UseItem(s, i)
  BY DEF Claim
<1>2. i \in Items /\ ~done[i] /\ (owner[i] = s \/ owner[i] = Null)
  BY NextItemFacts
<1>3. /\ pc[s] = "fill" /\ seen' = seen /\ failed' = failed /\ counted' = counted
      /\ cur' = cur /\ outcome' = outcome
  BY DEF Claim, healthVars, resultVars, bookVars
<1>4. pc'[s] \in {"start", "fill", "end"}
  BY <1>1 DEF UseItem, Goto, TypeOK
<1>5. done' = done /\ owner' = [owner EXCEPT ![i] = s]
  BY <1>1, <1>2 DEF TakeItem, queueVars, TypeOK, StoreTypeOK
<1>6. owner'[i] = s /\ \A j \in Items : j # i => owner'[j] = owner[j]
  BY <1>2, <1>5 DEF TypeOK, StoreTypeOK
<1>7. Step(s)
  BY DEF Step
<1>8. ~counted[i]
  BY <1>2, <1>3 DEF CountedStays, CountedIsFinished, FinishPending
<1>9. claimed'[s] = claimed[s] \cup {i}
  BY <1>1 DEF TypeOK
<1>10. ClaimedAreOwn'
  <2> SUFFICES ASSUME NEW r \in Shards, NEW j \in claimed'[r]
               PROVE  /\ owner'[j] = r /\ (done[j] => counted[j])
                      /\ counted[j] => pc'[r] = "ended" /\ cur[r] = j /\ outcome[r] = "counted"
    BY <1>3, <1>5 DEF ClaimedAreOwn
  <2>1. CASE r = s
    <3>1. CASE j = i
      BY <1>2, <1>6, <1>8, <2>1, <3>1
    <3>2. CASE j # i
      <4>1. j \in claimed[s] /\ j \in Items
        BY <1>9, <2>1, <3>2 DEF TypeOK
      <4>2. QED
        BY <1>3, <1>6, <2>1, <3>2, <4>1 DEF ClaimedAreOwn
    <3>3. QED
      BY <3>1, <3>2
  <2>2. CASE r # s
    <3>1. j \in claimed[r] /\ j \in Items /\ pc'[r] = pc[r]
      BY <1>7, <2>2, OthersUnchanged DEF TypeOK
    <3>2. owner[j] = r /\ j # i
      BY <1>2, <2>2, <3>1 DEF ClaimedAreOwn, Null, Shards
    <3>3. QED
      BY <1>6, <3>1, <3>2 DEF ClaimedAreOwn
  <2>3. QED
    BY <2>1, <2>2
<1>11. OutcomeFits'
  <2> SUFFICES ASSUME NEW r \in Shards, pc'[r] \in {"ended", "health"}
               PROVE  /\ owner'[cur[r]] = r /\ (outcome[r] # "counted" => ~counted[cur[r]])
                      /\ pc'[r] = "health" /\ outcome[r] = "error" => done[cur[r]]
    BY <1>3, <1>5 DEF OutcomeFits
  <2>1. r # s /\ pc'[r] = pc[r]
    BY <1>4, <1>7, OthersUnchanged
  <2>2. owner[cur[r]] = r /\ cur[r] \in Items
    BY <2>1 DEF OutcomeFits, TypeOK
  <2>3. cur[r] # i
    BY <1>2, <2>1, <2>2 DEF Null, Shards
  <2>4. QED
    BY <1>6, <2>1, <2>2, <2>3 DEF OutcomeFits
<1>12. CountedStays'
  BY <1>3, <1>6, <1>8 DEF CountedStays
<1>13. CountedIsFinished'
  <2> SUFFICES ASSUME NEW j \in Items, counted[j], ~done[j]
               PROVE  FinishPending(j)'
    BY <1>3, <1>5 DEF CountedIsFinished
  <2>1. owner[j] \in Shards /\ owner'[j] = owner[j]
    BY <1>6, <1>8 DEF CountedStays, TypeOK, StoreTypeOK
  <2>2. FinishPending(j) /\ owner[j] # s
    BY <1>3 DEF CountedIsFinished, FinishPending
  <2>3. QED
    BY <1>3, <1>7, <2>1, <2>2, OthersUnchanged DEF FinishPending
<1>14. SeenAreCounted'
  BY <1>3 DEF SeenAreCounted
<1>15. FailedAreOwn'
  <2> SUFFICES ASSUME NEW r \in Shards, NEW j \in failed[r]
               PROVE  owner'[j] = r /\ done[j] /\ ~counted[j]
    BY <1>3, <1>5 DEF FailedAreOwn
  <2>1. j \in Items /\ done[j]
    BY DEF TypeOK, FailedAreOwn
  <2>2. QED
    BY <1>2, <1>6, <2>1 DEF FailedAreOwn
<1>16. QED
  BY <1>10, <1>11, <1>12, <1>13, <1>14, <1>15

\* An episode that ended is one of the shard's claimed items, which has not counted
\* and is not done.
LEMMA EndedIsOpen ==
  ASSUME OwnershipInv, PlacesInv, NEW s \in Shards, pc[s] = "end", NEW i \in DOMAIN ends[s]
  PROVE  i \in claimed[s] /\ owner[i] = s /\ ~counted[i] /\ ~done[i]
<1>1. i \in claimed[s]
  BY DEF PlacesInv, ClaimedHavePlaces, Booking
<1>2. QED
  BY <1>1 DEF OwnershipInv, ClaimedAreOwn

\* The results that booking an episode leaves: the item may have counted now.
LEMMA BookedResults ==
  ASSUME TypeOK, NEW s \in Shards, NEW i \in DOMAIN ends[s], BooksEpisode(s, i)
  PROVE  /\ counted'[i] <=> counted[i] \/ (recorder[s] /\ outcome'[s] = "counted")
         /\ \A j \in Items : j # i => counted'[j] = counted[j]
<1>1. i \in Items /\ outcome'[s] = ends[s][i]
  BY DEF TypeOK, BooksEpisode
<1>2. RowStatus(ends[s][i]) = "counted" <=> outcome'[s] = "counted"
  BY <1>1 DEF RowStatus
<1>3. CASE recorder[s]
  <2>1. counted' = [counted EXCEPT ![i] = @ \/ RowStatus(ends[s][i]) = "counted"]
    BY <1>3 DEF BooksEpisode, RecordEpisode
  <2>2. QED
    BY <1>1, <1>2, <1>3, <2>1 DEF TypeOK, StoreTypeOK
<1>4. CASE ~recorder[s]
  BY <1>4 DEF BooksEpisode, resultVars
<1>5. QED
  BY <1>3, <1>4

\* Recording an episode concerns its own item alone, which is then about to be
\* finished if it counted.
LEMMA EndEpisodeKeepsOwnership ==
  ASSUME TypeOK, OwnershipInv, PlacesInv, NEW s \in Shards, EndEpisode(s)
  PROVE  OwnershipInv'
<1> USE DEF OwnershipInv
<1>1. PICK i \in DOMAIN ends[s] : BooksEpisode(s, i)
  BY EpisodeBooked
<1>2. /\ pc[s] = "end" /\ pc'[s] = "ended" /\ cur'[s] = i
      /\ claimed' = claimed /\ seen' = seen /\ failed' = failed /\ owner' = owner /\ done' = done
  BY <1>1 DEF EndEpisode, BooksEpisode, healthVars, queueVars
<1>3. i \in Items /\ i \in claimed[s] /\ owner[i] = s /\ ~counted[i] /\ ~done[i]
  BY <1>2, EndedIsOpen DEF TypeOK
<1>4. /\ counted'[i] <=> recorder[s] /\ outcome'[s] = "counted"
      /\ \A j \in Items : j # i => counted'[j] = counted[j]
  BY <1>1, <1>3, BookedResults
<1>5. Step(s)
  BY DEF Step
<1>6. ClaimedAreOwn'
  <2> SUFFICES ASSUME NEW r \in Shards, NEW j \in claimed[r]
               PROVE  /\ owner[j] = r /\ (done[j] => counted'[j])
                      /\ counted'[j] => pc'[r] = "ended" /\ cur'[r] = j /\ outcome'[r] = "counted"
    BY <1>2 DEF ClaimedAreOwn
  <2>1. j \in Items /\ owner[j] = r
    BY DEF TypeOK, ClaimedAreOwn
  <2>2. CASE j = i
    BY <1>2, <1>3, <1>4, <2>1, <2>2
  <2>3. CASE j # i /\ r = s
    BY <1>2, <1>4, <2>1, <2>3 DEF ClaimedAreOwn
  <2>4. CASE j # i /\ r # s
    BY <1>4, <1>5, <2>1, <2>4, OthersUnchanged DEF ClaimedAreOwn
  <2>5. QED
    BY <2>2, <2>3, <2>4
<1>7. OutcomeFits'
  <2> SUFFICES ASSUME NEW r \in Shards, pc'[r] \in {"ended", "health"}
               PROVE  /\ owner[cur'[r]] = r /\ (outcome'[r] # "counted" => ~counted'[cur'[r]])
                      /\ pc'[r] = "health" /\ outcome'[r] = "error" => done[cur'[r]]
    BY <1>2 DEF OutcomeFits
  <2>1. CASE r = s
    BY <1>2, <1>3, <1>4, <2>1
  <2>2. CASE r # s
    <3>1. cur'[r] = cur[r] /\ pc'[r] = pc[r] /\ outcome'[r] = outcome[r] /\ cur[r] \in Items
      BY <1>5, <2>2, OthersUnchanged DEF TypeOK
    <3>2. owner[cur[r]] = r /\ cur[r] # i
      BY <1>3, <2>2, <3>1 DEF OutcomeFits
    <3>3. QED
      BY <1>4, <3>1, <3>2 DEF OutcomeFits
  <2>3. QED
    BY <2>1, <2>2
<1>8. CountedStays'
  BY <1>2, <1>3, <1>4 DEF CountedStays, Null, Shards
<1>9. CountedIsFinished'
  <2> SUFFICES ASSUME NEW j \in Items, counted'[j], ~done[j]
               PROVE  FinishPending(j)'
    BY <1>2 DEF CountedIsFinished
  <2>1. CASE j = i
    BY <1>2, <1>3, <1>4, <2>1 DEF FinishPending
  <2>2. CASE j # i
    <3>1. counted[j] /\ owner[j] \in Shards
      BY <1>4, <2>2 DEF CountedStays, TypeOK, StoreTypeOK
    <3>2. FinishPending(j) /\ owner[j] # s
      BY <1>2, <3>1 DEF CountedIsFinished, FinishPending
    <3>3. QED
      BY <1>2, <1>5, <3>1, <3>2, OthersUnchanged DEF FinishPending
  <2>3. QED
    BY <2>1, <2>2
<1>10. SeenAreCounted'
  BY <1>2, <1>3, <1>4 DEF SeenAreCounted, TypeOK
<1>11. FailedAreOwn'
  <2> SUFFICES ASSUME NEW r \in Shards, NEW j \in failed[r]
               PROVE  owner[j] = r /\ done[j] /\ ~counted'[j]
    BY <1>2 DEF FailedAreOwn
  <2>1. j \in Items /\ j # i
    BY <1>3 DEF TypeOK, FailedAreOwn
  <2>2. QED
    BY <1>4, <2>1 DEF FailedAreOwn
<1>12. QED
  BY <1>6, <1>7, <1>8, <1>9, <1>10, <1>11

\* Finishing the item of the booked episode, or keeping it for another run.
LEMMA DoneKeepsOwnership ==
  ASSUME TypeOK, OwnershipInv, PlacesInv, NEW s \in Shards, Done(s)
  PROVE  OwnershipInv'
<1> USE DEF OwnershipInv
<1>1. /\ pc[s] = "ended" /\ pc'[s] = "health" /\ seen' = seen /\ failed' = failed
      /\ counted' = counted /\ cur' = cur /\ outcome' = outcome
  BY DEF Done, Goto, TypeOK, resultVars, bookVars
<1>2. cur[s] \in Items /\ owner[cur[s]] = s /\ cur[s] \in claimed[s]
  BY <1>1 DEF TypeOK, OutcomeFits, PlacesInv, ClaimedHavePlaces, Booking
<1>3. /\ owner' = owner
      /\ \/ /\ outcome[s] \in {"redo", "aborted", "unusable"}
            /\ done' = done /\ claimed' = claimed
         \/ /\ done' = [done EXCEPT ![cur[s]] = TRUE]
            /\ claimed' = [claimed EXCEPT ![s] = @ \ {cur[s]}]
  BY DEF Done, FinishItem, queueVars
<1>4. /\ claimed'[s] \in SUBSET claimed[s]
      /\ outcome[s] = "counted" => cur[s] \notin claimed'[s] /\ done'[cur[s]]
      /\ outcome[s] = "error" => done'[cur[s]]
  BY <1>2, <1>3 DEF TypeOK, StoreTypeOK
<1>5. \A j \in Items : /\ done[j] => done'[j]
                       /\ done'[j] => done[j] \/ (j = cur[s] /\ cur[s] \notin claimed'[s])
  BY <1>2, <1>3 DEF TypeOK, StoreTypeOK
<1>6. Step(s)
  BY DEF Step
<1>7. ClaimedAreOwn'
  <2> SUFFICES ASSUME NEW r \in Shards, NEW j \in claimed'[r]
               PROVE  /\ owner[j] = r /\ (done'[j] => counted[j])
                      /\ counted[j] => pc'[r] = "ended" /\ cur[r] = j /\ outcome[r] = "counted"
    BY <1>1, <1>3 DEF ClaimedAreOwn
  <2>1. CASE r = s
    <3>1. j \in claimed[s] /\ j \in Items
      BY <1>4, <2>1 DEF TypeOK
    <3>2. ~counted[j]
      BY <1>4, <2>1, <3>1 DEF ClaimedAreOwn
    <3>3. ~done'[j]
      BY <1>5, <2>1, <3>1, <3>2 DEF ClaimedAreOwn
    <3>4. QED
      BY <2>1, <3>1, <3>2, <3>3 DEF ClaimedAreOwn
  <2>2. CASE r # s
    <3>1. j \in claimed[r] /\ j \in Items /\ pc'[r] = pc[r]
      BY <1>6, <2>2, OthersUnchanged DEF TypeOK
    <3>2. owner[j] = r /\ j # cur[s]
      BY <1>2, <2>2, <3>1 DEF ClaimedAreOwn
    <3>3. QED
      BY <1>5, <3>1, <3>2 DEF ClaimedAreOwn
  <2>3. QED
    BY <2>1, <2>2
<1>8. OutcomeFits'
  <2> SUFFICES ASSUME NEW r \in Shards, pc'[r] \in {"ended", "health"}
               PROVE  /\ owner[cur[r]] = r /\ (outcome[r] # "counted" => ~counted[cur[r]])
                      /\ pc'[r] = "health" /\ outcome[r] = "error" => done'[cur[r]]
    BY <1>1, <1>3 DEF OutcomeFits
  <2>1. CASE r = s
    BY <1>1, <1>2, <1>4, <2>1 DEF OutcomeFits
  <2>2. CASE r # s
    <3>1. pc'[r] = pc[r] /\ cur[r] \in Items
      BY <1>6, <2>2, OthersUnchanged DEF TypeOK
    <3>2. QED
      BY <1>5, <3>1 DEF OutcomeFits
  <2>3. QED
    BY <2>1, <2>2
<1>9. CountedStays' /\ SeenAreCounted'
  BY <1>1, <1>3 DEF CountedStays, SeenAreCounted
<1>10. CountedIsFinished'
  <2> SUFFICES ASSUME NEW j \in Items, counted[j], ~done'[j]
               PROVE  FinishPending(j)'
    BY <1>1 DEF CountedIsFinished
  <2>1. owner[j] \in Shards /\ ~done[j]
    BY <1>5 DEF CountedStays, TypeOK, StoreTypeOK
  <2>2. FinishPending(j)
    BY <2>1 DEF CountedIsFinished
  <2>3. owner[j] # s
    BY <1>1, <1>4, <2>2 DEF FinishPending
  <2>4. QED
    BY <1>1, <1>3, <1>6, <2>1, <2>2, <2>3, OthersUnchanged DEF FinishPending
<1>11. FailedAreOwn'
  <2> SUFFICES ASSUME NEW r \in Shards, NEW j \in failed[r]
               PROVE  owner[j] = r /\ done'[j] /\ ~counted[j]
    BY <1>1, <1>3 DEF FailedAreOwn
  <2>1. j \in Items
    BY DEF TypeOK
  <2>2. QED
    BY <1>5, <2>1 DEF FailedAreOwn
<1>12. QED
  BY <1>7, <1>8, <1>9, <1>10, <1>11

\* What an unhealthy or unusable shard puts back is its own and did not count.
LEMMA PutBackIsOwn ==
  ASSUME TypeOK, OwnershipInv, NEW s \in Shards
  PROVE  /\ StopUnhealthy(s) => \A i \in failed[s] \cup {cur[s]} \cup claimed[s] :
                                  i \in Items /\ owner[i] = s /\ ~counted[i]
         /\ StopUnusable(s) => \A i \in claimed[s] : i \in Items /\ owner[i] = s /\ ~counted[i]
<1>1. StopUnhealthy(s) => pc[s] = "health" /\ outcome[s] = "error" /\ cur[s] \in Items
  BY DEF StopUnhealthy, CountsAgainst, TypeOK
<1>2. StopUnusable(s) => pc[s] = "stop"
  BY DEF StopUnusable
<1>3. QED
  BY <1>1, <1>2 DEF OwnershipInv, ClaimedAreOwn, OutcomeFits, FailedAreOwn, TypeOK

\* Every step keeps the invariant.
LEMMA OwnershipNext ==
  TypeOK /\ ControlInv /\ PlacesInv /\ OwnershipInv /\ [Next]_vars => OwnershipInv'
<1> SUFFICES ASSUME TypeOK, ControlInv, PlacesInv, OwnershipInv, [Next]_vars
             PROVE  OwnershipInv'
  OBVIOUS
<1>1. CASE UNCHANGED vars
  BY <1>1 DEF vars, storeVars, procVars, loopVars, bookVars, healthVars, OwnershipInv, ClaimedAreOwn,
     OutcomeFits, CountedStays, CountedIsFinished, FinishPending, SeenAreCounted, FailedAreOwn
<1>2. ASSUME NEW s \in Shards, Launch(s) \/ Die(s) \/ Step(s)
      PROVE  OwnershipInv'
  <2>0. /\ \A i \in seen[s] : counted[i]
        /\ \A i \in failed[s] : owner[i] = s /\ done[i] /\ ~counted[i]
    BY DEF OwnershipInv, SeenAreCounted, FailedAreOwn
  <2>1. CASE Launch(s) \/ BeginEntry(s) \/ Seed(s)
    <3>1. /\ owner' = owner /\ done' = done /\ counted' = counted /\ claimed' = claimed
          /\ seen' = seen /\ failed' = failed
          /\ pc[s] # "ended" /\ pc'[s] \in {"begin", "seed", "read"}
      BY <2>1 DEF Launch, BeginEntry, Seed, SetShardComplete, SeedQueue, Goto, TypeOK,
         storeVars, queueVars, resultVars, loopVars, healthVars
    <3>2. \A i \in Items : owner[i] = s => FinishPending(i)'
      BY <3>1 DEF FinishPending
    <3>3. QED
      BY <1>2, <2>0, <3>1, <3>2, QuietKeepsOwnership
  <2>2. CASE ReadResults(s)
    <3>1. /\ owner' = owner /\ done' = done /\ counted' = counted /\ claimed' = claimed
          /\ failed' = failed /\ seen'[s] = CompletedResults(1)
          /\ pc[s] = "read" /\ pc'[s] = "resume"
      BY <2>2 DEF ReadResults, Goto, TypeOK, storeVars, loopVars, healthVars
    <3>2. \A i \in Items : counted[i] /\ owner[i] = s => FinishPending(i)'
      BY <3>1, OneEntry DEF FinishPending, CompletedResults
    <3>3. \A i \in seen'[s] : counted[i]
      BY <3>1 DEF CompletedResults
    <3>4. QED
      BY <1>2, <2>0, <3>1, <3>2, <3>3, QuietKeepsOwnership
  <2>3. CASE Loop(s) \/ FillEnds(s) \/ TakeWaiting(s) \/ Start(s) \/ Exchange(s) \/ StepEnvs(s)
             \/ NoneEnded(s)
    <3>1. /\ owner' = owner /\ done' = done /\ counted' = counted /\ claimed' = claimed
          /\ seen' = seen /\ failed' = failed
          /\ pc[s] \in {"loop", "fill", "start", "exchange", "step", "end", "health"}
      BY <2>3 DEF Loop, FillEnds, TakeWaiting, Start, Exchange, StepEnvs, NoneEnded,
         storeVars, loopVars, healthVars
    <3>2. CASE Loop(s) \/ FillEnds(s) \/ Start(s) \/ Exchange(s) \/ StepEnvs(s) \/ NoneEnded(s)
      <4>1. pc'[s] \notin {"ended", "health"}
        BY <3>2 DEF Loop, FillEnds, Start, Exchange, StepEnvs, NoneEnded, EndAll, Goto, TypeOK
      <4>2. QED
        BY <2>0, <3>1, <3>2, <4>1, RunnerKeepsOwnership DEF Step
    <3>3. CASE TakeWaiting(s)
      <4>1. \E i : UseItem(s, i)
        BY <3>3 DEF TakeWaiting
      <4>2. pc'[s] \notin {"ended", "health"}
        BY <4>1 DEF UseItem, Goto, TypeOK
      <4>3. QED
        BY <2>0, <3>1, <3>3, <4>2, RunnerKeepsOwnership DEF Step
    <3>4. QED
      BY <2>3, <3>2, <3>3
  <2>4. CASE StayHealthy(s)
    <3>1. /\ owner' = owner /\ done' = done /\ counted' = counted /\ claimed' = claimed
          /\ seen' = seen /\ pc[s] = "health" /\ pc'[s] \notin {"ended", "health"}
      BY <2>4 DEF StayHealthy, NextEnd, Goto, TypeOK, storeVars, loopVars
    <3>2. failed'[s] = failed[s] \/ (failed'[s] = failed[s] \cup {cur[s]} /\ outcome[s] = "error")
      BY <2>4 DEF StayHealthy, CountsAgainst, TypeOK
    <3>3. \A i \in failed'[s] : owner[i] = s /\ done[i] /\ ~counted[i]
      BY <2>0, <3>1, <3>2 DEF OwnershipInv, OutcomeFits
    <3>4. QED
      BY <2>4, <3>1, <3>3, RunnerKeepsOwnership DEF Step
  <2>5. CASE Die(s) \/ Finalize(s)
    <3>1. /\ \E how : Exit(s, how)
          /\ owner' = owner /\ done' = done /\ counted' = counted
      BY <2>5 DEF Die, Finalize, storeVars, queueVars, resultVars
    <3>2. QED
      BY <1>2, <3>1, DyingKeepsOwnership
  <2>6. CASE StopUnhealthy(s)
    <3>1. /\ Exit(s, "unhealthy") /\ counted' = counted
      BY <2>6 DEF StopUnhealthy, resultVars
    <3>2. CASE Release(failed[s] \cup {cur[s]} \cup claimed[s])
      BY <1>2, <2>6, <3>1, <3>2, PutBackIsOwn, ReleasingKeepsOwnership
    <3>3. CASE UNCHANGED queueVars
      BY <1>2, <3>1, <3>3, DyingKeepsOwnership DEF queueVars
    <3>4. QED
      BY <2>6, <3>2, <3>3 DEF StopUnhealthy
  <2>7. CASE StopUnusable(s)
    <3>1. /\ Exit(s, "unhealthy") /\ counted' = counted /\ Release(claimed[s])
      BY <2>7 DEF StopUnusable, resultVars
    <3>2. QED
      BY <1>2, <2>7, <3>1, PutBackIsOwn, ReleasingKeepsOwnership
  <2>8. QED
    BY <1>2, <2>1, <2>2, <2>3, <2>4, <2>5, <2>6, <2>7, ResumeKeepsOwnership, ClaimKeepsOwnership,
       EndEpisodeKeepsOwnership, DoneKeepsOwnership DEF Step
<1>3. QED
  BY <1>1, <1>2 DEF Next

\* Type correctness: every reachable state is typed, and no shard has more episodes
\* than slots (next_episode is asked only for free ones).
THEOREM TypeCorrect == Spec => []TypeOK
<1>1. Init => TypeOK
  BY TypeInit
<1>2. TypeOK /\ [Next]_vars => TypeOK'
  BY TypeNext
<1>3. QED
  BY <1>1, <1>2, PTL DEF Spec

\* The inductive invariant: the runner's control, the place of each claimed item, and
\* what the queue and the results say of it.
THEOREM ClaimsInvariant == Spec => [](ControlInv /\ PlacesInv /\ OwnershipInv)
<1>1. Init => ControlInv /\ PlacesInv /\ OwnershipInv
  BY ControlInit, PlacesInit, OwnershipInit
<1>2. TypeOK /\ ControlInv /\ PlacesInv /\ OwnershipInv /\ [Next]_vars
        => (ControlInv /\ PlacesInv /\ OwnershipInv)'
  BY ControlNext, PlacesNext, OwnershipNext DEF OwnershipInv
<1>3. QED
  BY <1>1, <1>2, TypeCorrect, PTL DEF Spec

\* An item in a slot, or ended there and not booked yet, is in no other shard's slots
\* and booked by no other, whatever processes die and come back: claim() hands each
\* out once.
THEOREM OneRunner == Spec => []OneRunnerPerItem
<1>1. TypeOK /\ PlacesInv /\ OwnershipInv => OneRunnerPerItem
  <2> SUFFICES ASSUME TypeOK, PlacesInv, OwnershipInv,
                      NEW s \in Shards, NEW t \in Shards, s # t,
                      NEW i, i \in Active(s) \cup Booking(s), i \in Active(t) \cup Booking(t)
               PROVE  FALSE
    BY DEF OneRunnerPerItem
  <2>1. i \in claimed[s] /\ i \in claimed[t]
    BY DEF PlacesInv, ClaimedHavePlaces
  <2>2. owner[i] = s /\ owner[i] = t
    BY <2>1 DEF OwnershipInv, ClaimedAreOwn
  <2>3. QED
    BY <2>2
<1>2. QED
  BY <1>1, TypeCorrect, ClaimsInvariant, PTL

\* No claim is lost or used twice: each claimed item is in a slot, ended, to be redone
\* or held, and the queue has it as the shard's and unfinished.
THEOREM ClaimsAccountedFor == Spec => []ClaimedIsAccountedFor
<1>1. PlacesInv /\ OwnershipInv => ClaimedIsAccountedFor
  <2> SUFFICES ASSUME PlacesInv, OwnershipInv, NEW s \in Shards
               PROVE  /\ Active(s) \cap Booking(s) = {}
                      /\ (Active(s) \cup Booking(s)) \cap Waiting(s) = {}
                      /\ held[s] \notin redo[s] /\ \A i \in Active(s) : TaskOf[i] = group[s]
                      /\ IF unusable[s] \/ after[s] = "stop"
                           THEN Active(s) \cup Booking(s) \cup Waiting(s) \subseteq claimed[s]
                           ELSE Active(s) \cup Booking(s) \cup Waiting(s) = claimed[s]
                      /\ \A i \in claimed[s] :
                           owner[i] = s /\ (done[i] => i \in Booking(s) /\ counted[i])
    BY DEF ClaimedIsAccountedFor
  <2>1. OneTaskAtATime(s) /\ ClaimedHavePlaces(s)
    BY DEF PlacesInv
  <2>2. \A i \in claimed[s] : owner[i] = s /\ (done[i] => i \in Booking(s) /\ counted[i])
    BY DEF OwnershipInv, ClaimedAreOwn, Booking
  <2>3. QED
    BY <2>1, <2>2 DEF OneTaskAtATime, ClaimedHavePlaces
<1>2. QED
  BY <1>1, ClaimsInvariant, PTL

-----------------------------------------------------------------------------
(* Open items: how many a shard may leave behind, and when it owes none.   *)

\* Only a claim opens an item for a shard: no other step gives it one or reopens one.
LEMMA OpenShrinks ==
  ASSUME TypeOK, NEW s \in Shards, Launch(s) \/ Die(s) \/ Step(s),
         NEW t \in Shards, t # s \/ ~Claim(s),
         NEW i \in Items, owner'[i] = t, ~done'[i]
  PROVE  owner[i] = t /\ ~done[i]
<1>1. CASE Launch(s) \/ Die(s) \/ BeginEntry(s) \/ Seed(s) \/ ReadResults(s) \/ Loop(s)
           \/ TakeWaiting(s) \/ FillEnds(s)
  BY <1>1 DEF Launch, Die, BeginEntry, Seed, SeedQueue, ReadResults, Loop, TakeWaiting, FillEnds,
     storeVars, queueVars
<1>2. CASE Start(s) \/ Exchange(s) \/ StepEnvs(s) \/ EndEpisode(s) \/ StayHealthy(s)
           \/ NoneEnded(s) \/ Finalize(s)
  BY <1>2 DEF Start, Exchange, StepEnvs, EndEpisode, StayHealthy, NoneEnded, Finalize,
     storeVars, queueVars
<1>3. CASE Resume(s)
  BY <1>3 DEF Resume, FinishClaimed
<1>4. CASE Claim(s)
  <2>1. PICK j \in NextItem(s, 1, group[s], claimed[s]) :
          IF owner[j] = s THEN UNCHANGED queueVars ELSE TakeItem(s, j)
    BY <1>4 DEF Claim
  <2>2. QED
    BY <1>4, <2>1 DEF TakeItem, queueVars, TypeOK, StoreTypeOK
<1>5. CASE Done(s)
  BY ZenonT(20), <1>5 DEF Done, FinishItem, queueVars, TypeOK, StoreTypeOK
<1>6. ASSUME NEW S, Release(S)
      PROVE  owner[i] = t /\ ~done[i]
  <2>1. t # Null
    BY DEF Null, Shards
  <2>2. /\ i \in S => owner'[i] = Null
        /\ i \notin S => owner'[i] = owner[i] /\ done'[i] = done[i]
    BY <1>6 DEF Release, TypeOK, StoreTypeOK
  <2>3. QED
    BY <2>1, <2>2
<1>7. CASE StopUnhealthy(s) \/ StopUnusable(s)
  BY <1>6, <1>7 DEF StopUnhealthy, StopUnusable, queueVars
<1>8. QED
  BY <1>1, <1>2, <1>3, <1>4, <1>5, <1>7 DEF Step

\* The items that a shard has open.
Open(s) == {i \in Items : owner[i] = s /\ ~done[i]}

\* A claim opens at most an item, and then only when all open ones are in the slots.
LEMMA ClaimFits ==
  ASSUME TypeOK, TypeOK', ControlInv, PlacesInv, NEW s \in Shards, Claim(s),
         Cardinality(Open(s)) <= NumEnvs
  PROVE  Cardinality(Open(s)') <= NumEnvs
<1>1. PICK i \in NextItem(s, 1, group[s], claimed[s]) :
        IF owner[i] = s THEN UNCHANGED queueVars ELSE TakeItem(s, i)
  BY DEF Claim
<1>2. i \in Items /\ (owner[i] = s \/ Mine(s, 1, claimed[s]) = {})
  BY NextItemFacts
<1>3. /\ pc[s] = "fill" /\ ~unusable[s] /\ redo[s] = {} /\ held[s] = Null
      /\ Cardinality(fresh[s] \cup running[s]) < NumEnvs
  BY DEF Claim, FreeSlot
<1>4. CASE owner[i] = s
  BY <1>1, <1>4 DEF queueVars, Open
<1>5. CASE owner[i] # s
  <2>1. Open(s)' \in SUBSET (Open(s) \cup {i})
    BY <1>1, <1>2, <1>5 DEF TakeItem, Open, TypeOK, StoreTypeOK
  <2>2. Open(s) \subseteq claimed[s]
    BY <1>2, <1>5, OneEntry DEF Mine, Open
  <2>3. claimed[s] \subseteq fresh[s] \cup running[s]
    BY <1>3, FillingBooksNone DEF PlacesInv, ClaimedHavePlaces, ControlInv, StopsAreKnown, Active, Waiting
  <2>4. fresh[s] \cup running[s] \in SUBSET Items
    BY DEF TypeOK
  <2>5. Cardinality((fresh[s] \cup running[s]) \cup {i}) <= NumEnvs
    BY <1>2, <1>3, <2>4, SlotTaken
  <2>6. Open(s)' \in SUBSET ((fresh[s] \cup running[s]) \cup {i})
    BY <2>1, <2>2, <2>3
  <2>7. (fresh[s] \cup running[s]) \cup {i} \in SUBSET Items
    BY <1>2, <2>4
  <2>8. QED
    BY <2>5, <2>6, <2>7, SlotsLeft
<1>6. QED
  BY <1>4, <1>5

\* A shard leaves at most num_envs items unfinished, however often its process dies:
\* claim() hands a restarted shard its own items first.
THEOREM OpenItemsFit == Spec => []OpenItemsFitTheSlots
<1>1. Init => OpenItemsFitTheSlots
  <2> SUFFICES ASSUME Init, NEW s \in Shards
               PROVE  Cardinality({i \in Items : owner[i] = s /\ ~done[i]}) <= NumEnvs
    BY DEF OpenItemsFitTheSlots
  <2>1. {i \in Items : owner[i] = s /\ ~done[i]} = {}
    BY DEF Init, StoreInit, Null, Shards
  <2>2. QED
    BY <2>1, FS_EmptySet, VectorAssumption
<1>2. TypeOK /\ TypeOK' /\ ControlInv /\ PlacesInv /\ OpenItemsFitTheSlots /\ [Next]_vars
        => OpenItemsFitTheSlots'
  <2> SUFFICES ASSUME TypeOK, TypeOK', ControlInv, PlacesInv, OpenItemsFitTheSlots, [Next]_vars,
                      NEW t \in Shards
               PROVE  Cardinality(Open(t)') <= NumEnvs
    BY DEF OpenItemsFitTheSlots, Open
  <2>1. Cardinality(Open(t)) <= NumEnvs /\ Open(t) \in SUBSET Items
    BY DEF OpenItemsFitTheSlots, Open
  <2>2. CASE UNCHANGED vars
    <3>1. Open(t)' = Open(t)
      BY <2>2 DEF vars, storeVars, Open
    <3>2. QED
      BY <2>1, <3>1
  <2>3. ASSUME NEW s \in Shards, Launch(s) \/ Die(s) \/ Step(s)
        PROVE  Cardinality(Open(t)') <= NumEnvs
    <3>1. CASE t = s /\ Claim(s)
      BY <2>1, <3>1, ClaimFits
    <3>2. CASE t # s \/ ~Claim(s)
      <4>1. Open(t)' \in SUBSET Open(t)
        BY <2>3, <3>2, OpenShrinks DEF Open
      <4>2. QED
        BY <2>1, <4>1, SlotsLeft
    <3>3. QED
      BY <3>1, <3>2
  <2>4. QED
    BY <2>2, <2>3 DEF Next
<1>3. QED
  BY <1>1, <1>2, TypeCorrect, ClaimsInvariant, PTL DEF Spec

\* The exhausted shard: next_episode had nothing more to give.
LEMMA ExhaustedNext ==
  ASSUME TypeOK, ControlInv, ExhaustedHasAll, NEW s \in Shards, Launch(s) \/ Die(s) \/ Step(s)
  PROVE  ExhaustedHasAll'
<1> DEFINE HasAll(r) == exhausted[r] /\ ~unusable[r] =>
                          \/ Active(r) \cup DOMAIN ends[r] # {}
                          \/ redo[r] = {} /\ held[r] = Null /\ Mine(r, 1, claimed[r]) = {}
<1>0. \A r \in Shards : HasAll(r)
  BY DEF ExhaustedHasAll
<1>1. ASSUME NEW r \in Shards, r # s \/ ~Claim(s),
             exhausted'[r] = exhausted[r], unusable'[r] = unusable[r],
             Active(r)' \cup DOMAIN ends'[r] = Active(r) \cup DOMAIN ends[r],
             redo'[r] = redo[r], held'[r] = held[r], claimed'[r] = claimed[r]
      PROVE  HasAll(r)'
  <2>1. Mine(r, 1, claimed[r])' \subseteq Mine(r, 1, claimed[r])
    BY <1>1, OpenShrinks, OneEntry DEF Mine
  <2>2. QED
    BY <1>0, <1>1, <2>1
<1>2. ASSUME NEW r \in Shards, r # s
      PROVE  HasAll(r)'
  <2>1. Active(r)' = Active(r)
    BY <1>2, OthersUnchanged DEF Active
  <2>2. QED
    BY <1>1, <1>2, <2>1, OthersUnchanged
<1>3. CASE Launch(s) \/ BeginEntry(s) \/ Seed(s) \/ ReadResults(s) \/ Resume(s) \/ Loop(s) \/ NoneEnded(s)
           \/ StayHealthy(s)
  <2>1. UNCHANGED <<loopVars, runnerVars>> /\ ~Claim(s)
    BY <1>3 DEF Launch, BeginEntry, Seed, ReadResults, Resume, Loop, NoneEnded, StayHealthy, Claim
  <2>2. HasAll(s)'
    BY <1>1, <2>1 DEF loopVars, runnerVars, Active
  <2>3. QED
    BY <1>2, <2>2 DEF ExhaustedHasAll
<1>4. CASE Die(s) \/ StopUnhealthy(s) \/ StopUnusable(s) \/ Finalize(s)
  <2>1. exhausted'[s] = FALSE
    BY <1>4 DEF Die, StopUnhealthy, StopUnusable, Finalize, Exit, TypeOK
  <2>2. QED
    BY <1>2, <2>1 DEF ExhaustedHasAll
<1>5. CASE TakeWaiting(s) \/ Claim(s)
  <2>1. /\ pc[s] = "fill" /\ running' = running /\ \E i : UseItem(s, i)
    BY <1>5 DEF TakeWaiting, Claim
  <2>2. ~exhausted[s]
    BY <2>1 DEF ControlInv, AsksAfterEnds
  <2>3. PICK i : UseItem(s, i)
    BY <2>1
  <2>4. CASE Mixed(s, i)
    <3>1. Active(s)' # {}
      BY <2>1, <2>3, <2>4 DEF UseItem, Mixed, Active
    <3>2. QED
      BY <1>2, <3>1 DEF ExhaustedHasAll
  <2>5. CASE ~Mixed(s, i)
    <3>1. ~exhausted'[s]
      BY <2>2, <2>3, <2>5 DEF UseItem
    <3>2. QED
      BY <1>2, <3>1 DEF ExhaustedHasAll
  <2>6. QED
    BY <2>4, <2>5
<1>6. CASE FillEnds(s)
  <2>1. ~exhausted[s] /\ UNCHANGED <<queueVars, loopVars>>
    BY <1>6 DEF FillEnds, ControlInv, AsksAfterEnds, storeVars, queueVars
  <2>2. \/ ~exhausted'[s]
        \/ unusable[s]
        \/ redo[s] = {} /\ held[s] = Null /\ Mine(s, 1, claimed[s]) = {}
    BY <1>6, <2>1 DEF FillEnds, NothingLeft
  <2>3. HasAll(s)'
    BY <2>1, <2>2 DEF loopVars, queueVars, Mine
  <2>4. QED
    BY <1>2, <2>3 DEF ExhaustedHasAll
<1>7. CASE Start(s) \/ Exchange(s) \/ StepEnvs(s)
  <2>1. /\ UNCHANGED <<loopVars, exhausted>> /\ ~Claim(s) /\ DOMAIN ends[s] = {}
        /\ pc[s] \in {"start", "exchange", "step"}
    BY <1>7 DEF Start, Exchange, StepEnvs, Claim, ControlInv, BookingOrder
  <2>2. Active(s)' \cup DOMAIN ends'[s] = Active(s) \cup DOMAIN ends[s]
    <3>1. CASE Start(s)
      BY <2>1, <3>1 DEF Start, EndAll, Active, TypeOK
    <3>2. CASE Exchange(s)
      BY <2>1, <3>2 DEF Exchange, EndAll, Active, TypeOK
    <3>3. CASE StepEnvs(s)
      <4>1. \E S \in SUBSET running[s] : running'[s] = running[s] \ S /\ DOMAIN ends'[s] = S
        BY <3>3 DEF StepEnvs, TypeOK
      <4>2. QED
        BY <2>1, <3>3, <4>1 DEF StepEnvs, Active
    <3>4. QED
      BY <1>7, <3>1, <3>2, <3>3
  <2>3. HasAll(s)'
    BY <1>1, <2>1, <2>2 DEF loopVars
  <2>4. QED
    BY <1>2, <2>3 DEF ExhaustedHasAll
<1>8. CASE EndEpisode(s)
  <2>1. ~exhausted'[s]
    BY <1>8, EpisodeBooked DEF BooksEpisode
  <2>2. QED
    BY <1>2, <2>1 DEF ExhaustedHasAll
<1>9. CASE Done(s)
  <2>1. ~exhausted'[s]
    BY <1>9 DEF Done, ControlInv, AsksAfterEnds, runnerVars
  <2>2. QED
    BY <1>2, <2>1 DEF ExhaustedHasAll
<1>10. QED
  BY <1>3, <1>4, <1>5, <1>6, <1>7, <1>8, <1>9 DEF Step

\* The runner leaves its loop by itself only when nothing of the shard is open.
LEMMA LoopEndsOwingNothing ==
  ASSUME TypeOK, ControlInv, PlacesInv, ExhaustedHasAll, NEW s \in Shards, Loop(s), pc'[s] = "stop",
         ~unusable[s]
  PROVE  Mine(s, 1, {})' = {}
<1>1. pc[s] = "loop" /\ ~MayFill(s) /\ running[s] = {} /\ UNCHANGED <<queueVars, loopVars, runnerVars>>
  BY DEF Loop, Goto, TypeOK, storeVars, queueVars
<1>2. exhausted[s]
  BY <1>1 DEF MayFill
<1>3. fresh[s] = {} /\ Booking(s) = {} /\ DOMAIN ends[s] = {} /\ after[s] # "stop"
  BY <1>1, FillingBooksNone DEF ControlInv, BookingOrder, StopsAreKnown
<1>4. redo[s] = {} /\ held[s] = Null /\ Mine(s, 1, claimed[s]) = {}
  BY <1>1, <1>2, <1>3 DEF ExhaustedHasAll, Active
<1>5. claimed[s] = {}
  BY <1>1, <1>3, <1>4 DEF PlacesInv, ClaimedHavePlaces, Active, Waiting
<1>6. QED
  BY <1>1, <1>4, <1>5 DEF Mine, queueVars

\* Marking a shard complete, and what may happen afterwards.
LEMMA ProgressNext ==
  TypeOK /\ ControlInv /\ PlacesInv /\ ProgressInv /\ [Next]_vars => ProgressInv'
<1> SUFFICES ASSUME TypeOK, ControlInv, PlacesInv, ProgressInv, [Next]_vars
             PROVE  ProgressInv'
  OBVIOUS
<1>1. CASE UNCHANGED vars
  BY <1>1 DEF vars, storeVars, procVars, loopVars, runnerVars, ProgressInv, ExhaustedHasAll,
     StopOwesNothing, OpenIsIncomplete, CompleteShardOwesNothing, Active, Mine
<1>2. ASSUME NEW s \in Shards, Launch(s) \/ Die(s) \/ Step(s)
      PROVE  ProgressInv'
  <2>1. ExhaustedHasAll'
    BY <1>2, ExhaustedNext DEF ProgressInv
  <2>2. StopOwesNothing'
    <3> SUFFICES ASSUME NEW t \in Shards, pc'[t] = "stop", ~unusable'[t], after'[t] # "stop"
                 PROVE  Mine(t, 1, {})' = {}
      BY DEF StopOwesNothing
    <3>1. CASE t # s
      <4>1. Mine(t, 1, {}) = {}
        BY <1>2, <3>1, OthersUnchanged DEF ProgressInv, StopOwesNothing
      <4>2. QED
        BY <1>2, <3>1, <4>1, OpenShrinks, OneEntry DEF Mine
    <3>2. CASE t = s
      <4>1. Loop(s)
        <5>1. ~Launch(s) /\ ~BeginEntry(s) /\ ~Seed(s) /\ ~ReadResults(s) /\ ~Resume(s)
          BY <3>2 DEF Launch, BeginEntry, Seed, ReadResults, Resume, Goto, TypeOK
        <5>2. ~Die(s) /\ ~StopUnhealthy(s) /\ ~StopUnusable(s) /\ ~Finalize(s)
          BY <3>2 DEF Die, StopUnhealthy, StopUnusable, Finalize, Exit, Goto, TypeOK
        <5>3. ~TakeWaiting(s) /\ ~Claim(s)
          <6>1. \A i : UseItem(s, i) => pc'[s] # "stop"
            BY DEF UseItem, Goto, TypeOK
          <6>2. QED
            BY <3>2, <6>1 DEF TakeWaiting, Claim
        <5>4. ~FillEnds(s) /\ ~Start(s) /\ ~Exchange(s) /\ ~StepEnvs(s) /\ ~EndEpisode(s) /\ ~Done(s)
          BY <3>2 DEF FillEnds, Start, Exchange, StepEnvs, EndEpisode, Done, EndAll, Goto, TypeOK
        <5>5. ~StayHealthy(s) /\ ~NoneEnded(s)
          BY <3>2 DEF StayHealthy, NoneEnded, NextEnd, Goto, TypeOK, runnerVars
        <5>6. QED
          BY <1>2, <5>1, <5>2, <5>3, <5>4, <5>5 DEF Step
      <4>2. ~unusable[s]
        BY <3>2, <4>1 DEF Loop, loopVars
      <4>3. QED
        BY <3>2, <4>1, <4>2, LoopEndsOwingNothing DEF ProgressInv
    <3>3. QED
      BY <3>1, <3>2
  <2>3. \A t \in Shards : t # s => (<<t, 1>> \in complete' <=> <<t, 1>> \in complete)
    BY <1>2 DEF Launch, Die, Step, BeginEntry, Seed, ReadResults, Resume, Loop, TakeWaiting, Claim,
       FillEnds, Start, Exchange, StepEnvs, EndEpisode, Done, StayHealthy, NoneEnded, StopUnhealthy,
       StopUnusable, Finalize, SetShardComplete, storeVars
  <2>4. OpenIsIncomplete'
    <3> SUFFICES ASSUME NEW t \in Shards, pc'[t] \notin {"off", "begin"}
                 PROVE  <<t, 1>> \notin complete'
      BY DEF OpenIsIncomplete
    <3>1. CASE t # s
      BY <1>2, <2>3, <3>1, OthersUnchanged DEF ProgressInv, OpenIsIncomplete
    <3>2. CASE t = s /\ BeginEntry(s)
      BY <3>2 DEF BeginEntry, SetShardComplete
    <3>3. CASE t = s /\ ~BeginEntry(s)
      <4>1. ~Launch(s) /\ ~Die(s) /\ ~StopUnhealthy(s) /\ ~StopUnusable(s) /\ ~Finalize(s)
        BY <3>3 DEF Launch, Die, StopUnhealthy, StopUnusable, Finalize, Exit, Goto, TypeOK
      <4>2. complete' = complete /\ pc[s] \notin {"off", "begin"}
        BY <1>2, <3>3, <4>1 DEF Step, Seed, ReadResults, Resume, Loop, TakeWaiting, Claim,
           FillEnds, Start, Exchange, StepEnvs, EndEpisode, Done, StayHealthy, NoneEnded, storeVars
      <4>3. QED
        BY <3>3, <4>2 DEF ProgressInv, OpenIsIncomplete
    <3>4. QED
      BY <3>1, <3>2, <3>3
  <2>5. CompleteShardOwesNothing'
    <3> SUFFICES ASSUME NEW t \in Shards, <<t, 1>> \in complete', NEW i \in Items, owner'[i] = t, ~done'[i]
                 PROVE  FALSE
      BY OneEntry, VectorAssumption DEF CompleteShardOwesNothing, Entries
    <3>1. CASE <<t, 1>> \in complete /\ (t # s \/ ~Claim(s))
      <4>1. owner[i] = t /\ ~done[i]
        BY <1>2, <3>1, OpenShrinks
      <4>2. QED
        BY <3>1, <4>1, OneEntry, VectorAssumption DEF ProgressInv, CompleteShardOwesNothing, Entries
    <3>2. CASE t = s /\ Claim(s)
      <4>1. pc[s] = "fill" /\ complete' = complete
        BY <3>2 DEF Claim
      <4>2. QED
        BY <3>2, <4>1 DEF ProgressInv, OpenIsIncomplete
    <3>3. CASE <<t, 1>> \notin complete
      <4>1. t = s
        BY <2>3, <3>3
      <4>2. Finalize(s)
        BY <1>2, <3>3, <4>1 DEF Launch, Die, Step, BeginEntry, Seed, ReadResults, Resume, Loop,
           TakeWaiting, Claim, FillEnds, Start, Exchange, StepEnvs, EndEpisode, Done, StayHealthy,
           NoneEnded, StopUnhealthy, StopUnusable, SetShardComplete, storeVars
      <4>3. after[s] # "stop" /\ pc[s] = "stop" /\ ~unusable[s] /\ owner' = owner /\ done' = done
        BY <3>3, <4>1, <4>2 DEF Finalize, SetShardComplete, queueVars
      <4>4. Mine(s, 1, {}) = {}
        BY <4>3 DEF ProgressInv, StopOwesNothing
      <4>5. QED
        BY <4>1, <4>3, <4>4, OneEntry DEF Mine
    <3>4. QED
      BY <3>1, <3>2, <3>3
  <2>6. QED
    BY <2>1, <2>2, <2>4, <2>5 DEF ProgressInv
<1>3. QED
  BY <1>1, <1>2 DEF Next

\* A shard is marked complete only when none of its items, held and retried ones
\* included, is unfinished, and it never owes one again.
THEOREM CompleteOwesNothing == Spec => []CompleteShardOwesNothing
<1>1. Init => ProgressInv
  BY DEF Init, StoreInit, ProgressInv, ExhaustedHasAll, StopOwesNothing, OpenIsIncomplete,
     CompleteShardOwesNothing
<1>2. TypeOK /\ ControlInv /\ PlacesInv /\ ProgressInv /\ [Next]_vars => ProgressInv'
  BY ProgressNext
<1>3. ProgressInv => CompleteShardOwesNothing
  BY DEF ProgressInv
<1>4. QED
  BY <1>1, <1>2, <1>3, TypeCorrect, ClaimsInvariant, PTL DEF Spec

-----------------------------------------------------------------------------
(* The vector loop implements EpisodeLedger.                               *)

\* A step that changes neither owners, nor done flags, nor counted results, is a
\* stutter of the ledger.
LEMMA LedgerStutter ==
  ASSUME owner' = owner, done' = done, counted' = counted
  PROVE  [Ledger!Next]_<<ItemState, owner>>
BY DEF ItemState

\* Putting back items of its own that did not count: Return.
LEMMA LedgerReturn ==
  ASSUME TypeOK, NEW s \in Shards, NEW S \in SUBSET Items,
         \A i \in S : owner[i] = s /\ ~counted[i],
         Release(S), counted' = counted
  PROVE  [Ledger!Next]_<<ItemState, owner>>
<1>1. \A i \in S : ItemState[i] \in {"held", "closed"} /\ owner[i] = s
  BY DEF ItemState, Shards, Null
<1>2. owner' = [i \in Items |-> IF i \in S THEN Null ELSE owner[i]]
  BY DEF Release
<1>3. ItemState' = [i \in Items |-> IF i \in S THEN "waiting" ELSE ItemState[i]]
  BY DEF Release, ItemState, TypeOK, StoreTypeOK
<1>4. Ledger!Return(s, S)
  BY <1>1, <1>2, <1>3 DEF Ledger!Return
<1>5. QED
  BY <1>4 DEF Ledger!Next

\* A claim takes an item that waits, or hands the shard its own item again.
LEMMA LedgerClaim ==
  ASSUME TypeOK, OwnershipInv, NEW s \in Shards, Claim(s)
  PROVE  [Ledger!Next]_<<ItemState, owner>>
<1>1. counted' = counted
  BY DEF Claim, resultVars
<1>2. PICK i \in NextItem(s, 1, group[s], claimed[s]) :
        IF owner[i] = s THEN UNCHANGED queueVars ELSE TakeItem(s, i)
  BY DEF Claim
<1>3. i \in Items /\ ~done[i] /\ (owner[i] = s \/ owner[i] = Null)
  BY NextItemFacts
<1>4. CASE owner[i] = s
  BY <1>1, <1>2, <1>4, LedgerStutter DEF queueVars
<1>5. CASE owner[i] # s
  <2>1. owner[i] = Null /\ ~counted[i]
    BY <1>3, <1>5 DEF OwnershipInv, CountedStays
  <2>2. owner' = [owner EXCEPT ![i] = s] /\ done' = done
    BY <1>2, <1>5 DEF TakeItem
  <2>3. ItemState[i] = "waiting"
    BY <1>3, <2>1 DEF ItemState
  <2>4. ItemState' = [ItemState EXCEPT ![i] = "held"]
    <3>1. owner'[i] = s /\ s # Null
      BY <1>3, <2>2 DEF TypeOK, StoreTypeOK, Shards, Null
    <3>2. \A j \in Items : j # i => owner'[j] = owner[j]
      BY <1>3, <2>2 DEF TypeOK, StoreTypeOK
    <3>3. ItemState'[i] = "held"
      BY <1>1, <1>3, <2>1, <2>2, <3>1 DEF ItemState
    <3>4. \A j \in Items : j # i => ItemState'[j] = ItemState[j]
      BY <1>1, <2>2, <3>2 DEF ItemState
    <3>5. QED
      BY <1>3, <3>3, <3>4 DEF ItemState
  <2>5. Ledger!Take(s, i)
    BY <2>2, <2>3, <2>4 DEF Ledger!Take
  <2>6. QED
    BY <1>3, <2>5 DEF Ledger!Next
<1>6. QED
  BY <1>4, <1>5

\* An episode that counts counts for an item its shard holds.
LEMMA LedgerEnd ==
  ASSUME TypeOK, OwnershipInv, PlacesInv, NEW s \in Shards, EndEpisode(s)
  PROVE  [Ledger!Next]_<<ItemState, owner>>
<1>1. PICK i \in DOMAIN ends[s] : BooksEpisode(s, i)
  BY EpisodeBooked
<1>2. /\ i \in Items /\ owner[i] = s /\ ~counted[i] /\ ~done[i]
      /\ owner' = owner /\ done' = done
  BY <1>1, EndedIsOpen DEF EndEpisode, queueVars, TypeOK
<1>3. \A j \in Items : j # i => counted'[j] = counted[j]
  BY <1>1, BookedResults
<1>4. CASE ~counted'[i]
  <2>1. ItemState' = ItemState
    BY <1>2, <1>3, <1>4 DEF ItemState
  <2>2. QED
    BY <1>2, <2>1
<1>5. CASE counted'[i]
  <2>1. ItemState[i] = "held"
    BY <1>2 DEF ItemState, Shards, Null
  <2>2. ItemState' = [ItemState EXCEPT ![i] = "counted"]
    BY <1>2, <1>3, <1>5 DEF ItemState
  <2>3. Ledger!Count(i)
    BY <1>2, <2>1, <2>2 DEF Ledger!Count
  <2>4. QED
    BY <1>2, <2>3 DEF Ledger!Next
<1>6. QED
  BY <1>4, <1>5

\* Finishing an item closes it, unless its episode counted.
LEMMA LedgerDone ==
  ASSUME TypeOK, OwnershipInv, NEW s \in Shards, Done(s)
  PROVE  [Ledger!Next]_<<ItemState, owner>>
<1> DEFINE i == cur[s]
<1>1. i \in Items /\ counted' = counted /\ owner[i] = s
  BY DEF Done, resultVars, TypeOK, OwnershipInv, OutcomeFits
<1>2. UNCHANGED queueVars \/ (owner' = owner /\ done' = [done EXCEPT ![i] = TRUE])
  BY DEF Done, FinishItem
<1> HIDE DEF i
<1>3. CASE UNCHANGED queueVars
  BY <1>1, <1>3, LedgerStutter DEF queueVars
<1>4. CASE owner' = owner /\ done' = [done EXCEPT ![i] = TRUE]
  <2>1. CASE counted[i] \/ done[i]
    <3>1. ItemState' = ItemState
      BY <1>1, <1>4, <2>1 DEF ItemState, TypeOK, StoreTypeOK
    <3>2. QED
      BY <1>4, <3>1
  <2>2. CASE ~counted[i] /\ ~done[i]
    <3>1. ItemState[i] = "held"
      BY <1>1, <2>2 DEF ItemState, Shards, Null
    <3>2. ItemState' = [ItemState EXCEPT ![i] = "closed"]
      BY <1>1, <1>4, <2>2 DEF ItemState, TypeOK, StoreTypeOK
    <3>3. Ledger!Close(i)
      BY <1>4, <3>1, <3>2 DEF Ledger!Close
    <3>4. QED
      BY <1>1, <3>3 DEF Ledger!Next
  <2>3. QED
    BY <2>1, <2>2
<1>5. QED
  BY <1>2, <1>3, <1>4

\* Resuming finishes only items that counted, which the ledger knows already.
LEMMA LedgerResume ==
  ASSUME TypeOK, OwnershipInv, NEW s \in Shards, Resume(s)
  PROVE  [Ledger!Next]_<<ItemState, owner>>
<1>1. counted' = counted /\ owner' = owner
  BY DEF Resume, resultVars, FinishClaimed
<1>2. \A i \in Items : ~counted[i] => done'[i] = done[i]
  BY DEF Resume, FinishClaimed, OwnershipInv, SeenAreCounted, TypeOK, StoreTypeOK
<1>3. ItemState' = ItemState
  BY <1>1, <1>2 DEF ItemState
<1>4. QED
  BY <1>1, <1>3

\* Every step of the shards is a step or a stutter of the ledger.
LEMMA LedgerNext ==
  TypeOK /\ PlacesInv /\ OwnershipInv /\ [Next]_vars => [Ledger!Next]_<<ItemState, owner>>
<1> SUFFICES ASSUME TypeOK, PlacesInv, OwnershipInv, [Next]_vars
             PROVE  [Ledger!Next]_<<ItemState, owner>>
  OBVIOUS
<1>1. CASE UNCHANGED vars
  BY <1>1, LedgerStutter DEF vars, storeVars
<1>2. ASSUME NEW s \in Shards,
             Launch(s) \/ Die(s) \/ BeginEntry(s) \/ Seed(s) \/ ReadResults(s) \/ Loop(s)
               \/ TakeWaiting(s) \/ FillEnds(s) \/ Start(s) \/ Exchange(s) \/ StepEnvs(s)
               \/ StayHealthy(s) \/ NoneEnded(s) \/ Finalize(s)
      PROVE  [Ledger!Next]_<<ItemState, owner>>
  <2>1. owner' = owner /\ done' = done /\ counted' = counted
    BY <1>2 DEF Launch, Die, BeginEntry, Seed, SeedQueue, ReadResults, Loop, TakeWaiting, FillEnds,
       Start, Exchange, StepEnvs, StayHealthy, NoneEnded, Finalize, storeVars, queueVars, resultVars
  <2>2. QED
    BY <2>1, LedgerStutter
<1>3. ASSUME NEW s \in Shards, StopUnusable(s)
      PROVE  [Ledger!Next]_<<ItemState, owner>>
  <2>1. /\ claimed[s] \in SUBSET Items /\ \A i \in claimed[s] : owner[i] = s /\ ~counted[i]
        /\ Release(claimed[s]) /\ counted' = counted
    BY <1>3, PutBackIsOwn DEF StopUnusable, resultVars
  <2>2. QED
    BY <2>1, LedgerReturn
<1>4. ASSUME NEW s \in Shards, StopUnhealthy(s)
      PROVE  [Ledger!Next]_<<ItemState, owner>>
  <2>1. counted' = counted
    BY <1>4 DEF StopUnhealthy, resultVars
  <2>2. CASE RequeueUnhealthy
    <3> DEFINE S == failed[s] \cup {cur[s]} \cup claimed[s]
    <3>1. S \in SUBSET Items /\ \A i \in S : owner[i] = s /\ ~counted[i]
      BY <1>4, PutBackIsOwn
    <3>2. Release(S)
      BY <1>4, <2>2 DEF StopUnhealthy
    <3> HIDE DEF S
    <3>3. QED
      BY <2>1, <3>1, <3>2, LedgerReturn
  <2>3. CASE ~RequeueUnhealthy
    BY <1>4, <2>1, <2>3, LedgerStutter DEF StopUnhealthy, queueVars
  <2>4. QED
    BY <2>2, <2>3
<1>5. QED
  BY <1>1, <1>2, <1>3, <1>4, LedgerClaim, LedgerEnd, LedgerDone, LedgerResume DEF Next, Step

\* The vector loop implements the ledger: with several episodes in flight, too, an
\* item has one holder, and a counted result is final.
THEOREM LedgerImplemented == Spec => ImplementsLedger
<1>1. Init => Ledger!Init
  BY DEF Init, StoreInit, Ledger!Init, ItemState
<1>2. TypeOK /\ PlacesInv /\ OwnershipInv /\ [Next]_vars => [Ledger!Next]_<<ItemState, owner>>
  BY LedgerNext
<1>3. QED
  BY <1>1, <1>2, TypeCorrect, ClaimsInvariant, PTL
     DEF Spec, ImplementsLedger, Ledger!Spec, Ledger!ledgerVars

=============================================================================
