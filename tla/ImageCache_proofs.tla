--------------------------- MODULE ImageCache_proofs ---------------------------
(* Proofs about ImageCache, for any number of launchers, any command lines and *)
(* any number of kills: what a run keeps, and what a forced build leaves.      *)
EXTENDS ImageCache, FiniteSetTheorems, TLAPS

-------------------------------------------------------------------------------
(* A launcher's entry, and how it changes.                                     *)

MountPoints == {"absent", "young", "old", "live", "dead"}

Entries == [at : Places, cmd : CommandLines, format : {"dir", "squashfs"},
            fell : BOOLEAN, left : SUBSET Paths, todo : SUBSET Shards, look : Shards \cup {0},
            saw : MountPoints, seen : Export]

\* Only launcher p moves.
Only(p) ==
  /\ run' \in [Shards -> Entries]
  /\ \A q \in Shards \ {p} : run'[q] = run[q]

\* Its decisions stand.
Stands(p) ==
  /\ run'[p].cmd = run[p].cmd /\ run'[p].format = run[p].format
  /\ run'[p].fell = run[p].fell /\ run'[p].seen = run[p].seen

LEMMA NothingTyped ==
  /\ Nothing \in Entries /\ ~Nothing.fell
  /\ Absent \in Export /\ ~Absent.ready /\ ~Absent.whole
<1>1. (CHOOSE c \in Commands : TRUE) \in CommandLines
  BY CacheAssumption
<1>2. Absent \in Export
  BY CacheAssumption DEF Absent, Export, Images
<1>3. QED
  BY <1>1, <1>2 DEF Nothing, Absent, Entries, Places, MountPoints

\* What Go does.
LEMMA GoFacts ==
  ASSUME run \in [Shards -> Entries], NEW p \in Shards, NEW place \in Places, Go(p, place)
  PROVE  /\ Only(p) /\ run'[p].at = place
         /\ place \notin Over => Stands(p) /\ run'[p].left = {}
         /\ place \in Over => ~run'[p].fell
<1>1. CASE place \in Over
  <2>1. run' = [run EXCEPT ![p] = [Nothing EXCEPT !.at = place]]
    BY <1>1 DEF Go
  <2> DEFINE e == [Nothing EXCEPT !.at = place]
  <2>2. e \in Entries /\ e.at = place /\ ~e.fell
    BY NothingTyped DEF Entries
  <2> HIDE DEF e
  <2>3. run' \in [Shards -> Entries] /\ run'[p] = e /\ \A q \in Shards \ {p} : run'[q] = run[q]
    BY <2>1, <2>2 DEF e
  <2>4. QED
    BY <1>1, <2>2, <2>3 DEF Only
<1>2. CASE place \notin Over
  <2>1. run' = [run EXCEPT ![p] = [run[p] EXCEPT !.at = place, !.left = {}]]
    BY <1>2 DEF Go
  <2>2. run[p] \in Entries
    OBVIOUS
  <2>3. QED
    BY <1>2, <2>1, <2>2 DEF Only, Stands, Entries
<1>3. QED
  BY <1>1, <1>2


\* Several fields of the entry change.
LEMMA EntryChanges ==
  ASSUME run \in [Shards -> Entries], NEW p \in Shards, NEW e \in Entries,
         run' = [run EXCEPT ![p] = e]
  PROVE  Only(p) /\ run'[p] = e
BY DEF Only

-------------------------------------------------------------------------------
(* The invariant, a launcher at a time.                                        *)

Typed ==
  /\ built \in BOOLEAN /\ storage \in Images /\ finished \in Images
  /\ exports \in [Paths -> Export] /\ tmp \in [Shards -> Export]
  /\ mounts \in [Shards -> MountPoints] /\ run \in [Shards -> Entries]

\* Launcher q holds the locks that go with its place, and no other.
LocksOf(q) ==
  /\ \A x \in Paths : dirLock[x] = q <=> At(q, Holding) /\ Path(q) = x
  /\ storageLock = q <=> At(q, InStorage)

Locks ==
  /\ dirLock \in [Paths -> {0} \cup Shards] /\ storageLock \in {0} \cup Shards
  /\ \A q \in Shards : LocksOf(q)

LEMMA PathTyped ==
  ASSUME Typed, NEW p \in Shards
  PROVE  Path(p) \in Paths /\ run[p] \in Entries
BY DEF Typed, Entries, Path, Paths, CommandLines

LEMMA TypedAndLocks == TypeOK /\ LocksInv <=> Typed /\ Locks
<1>1. TypeOK <=> /\ Typed
                 /\ \A x \in Paths : dirLock[x] \in {0} \cup {p \in Shards : At(p, Holding) /\ Path(p) = x}
                 /\ storageLock \in {0} \cup {p \in Shards : At(p, InStorage)}
  BY DEF TypeOK, Typed, Entries, MountPoints
<1>2. 0 \notin Shards
  BY CacheAssumption DEF Shards
<1>3. Typed => \A p \in Shards : Path(p) \in Paths
  BY PathTyped
<1>4. ASSUME Typed, Locks
      PROVE  TypeOK /\ LocksInv
  BY <1>1, <1>2, <1>3, <1>4 DEF Locks, LocksOf, LocksInv
<1>5. ASSUME TypeOK, LocksInv
      PROVE  Typed /\ Locks
  <2>1. \A q \in Shards, x \in Paths : dirLock[x] = q => At(q, Holding) /\ Path(q) = x
    BY <1>1, <1>2, <1>5
  <2>2. \A q \in Shards : storageLock = q => At(q, InStorage)
    BY <1>1, <1>2, <1>5
  <2>3. \A q \in Shards : LocksOf(q)
    BY <1>5, <2>1, <2>2 DEF LocksInv, LocksOf
  <2>4. QED
    BY <1>1, <1>5, <2>3 DEF LocksInv, Locks
<1>6. QED
  BY <1>4, <1>5

MountsOf(p) ==
  /\ At(p, {"made"}) => mounts[p] = "young"
  /\ At(p, {"ready", "running"}) /\ Squash(p) => mounts[p] = "live" /\ run[p].seen.image # 0

\* A forced run that needs to be alone, and is.
Claiming(p) == run[p].cmd.force /\ Active(p) /\ ~At(p, {"running", "unmount", "rmdir"})
AloneOf(p) == Claiming(p) => \A q \in Shards \ {p} : ~Active(q)

\* A run in a directory has it as it saw it.
RunsOf(p) ==
  At(p, {"running"}) /\ ~Squash(p) => exports[Path(p)] = run[p].seen /\ run[p].seen.ready

SeenOf(p) == (At(p, {"ready"}) /\ Squash(p)) \/ At(p, {"running"}) => run[p].seen.whole

\* The rest of what is said of forced builds.
ForcedInv ==
  /\ \A p \in Shards : Rebuild(p) /\ At(p, {"converting", "place"})
       => \A x \in Paths \ {Path(p)} : ~exports[x].ready
  /\ \A p \in Shards : Rebuild(p) /\ At(p, {"sweep", "place"})
       => \A x \in run[p].left : ~exports[x].ready
  /\ \A p \in Shards : At(p, {"converting", "place"}) => tmp[p].image >= finished
  /\ NoOlderExport

InParts ==
  /\ Typed /\ Locks /\ ImagesInv /\ MakingInv
  /\ \A p \in Shards : MountsOf(p)
  /\ Careful => ForcedInv /\ \A p \in Shards : AloneOf(p) /\ RunsOf(p)
  /\ Thorough => RemovalInv /\ \A p \in Shards : SeenOf(p)

LEMMA Parts == CacheInv <=> InParts
<1>1. MountsInv <=> \A p \in Shards : MountsOf(p)
  BY DEF MountsInv, MountsOf
<1>2. SeenInv <=> \A p \in Shards : SeenOf(p)
  BY DEF SeenInv, SeenOf
<1>3. AloneInv <=> ForcedInv /\ \A p \in Shards : AloneOf(p) /\ RunsOf(p)
  <2>1. (\A p \in Shards : AloneOf(p)) <=>
          \A p \in Shards : run[p].cmd.force /\ Active(p) /\ ~At(p, {"running", "unmount", "rmdir"})
            => \A q \in Shards \ {p} : ~Active(q)
    BY DEF AloneOf, Claiming
  <2>2. (\A p \in Shards : RunsOf(p)) <=>
          \A p \in Shards : At(p, {"running"}) /\ ~Squash(p) =>
            exports[Path(p)] = run[p].seen /\ run[p].seen.ready
    BY DEF RunsOf
  <2>3. QED
    BY <2>1, <2>2 DEF AloneInv, ForcedInv
<1>4. QED
  BY <1>1, <1>2, <1>3, TypedAndLocks DEF CacheInv, InParts

-------------------------------------------------------------------------------
(* Steps that leave the cache alone.                                           *)

LEMMA BuildersCount ==
  /\ IsFiniteSet(Builders) /\ Cardinality(Builders) \in Nat
  /\ \A B : B \subseteq Builders => IsFiniteSet(B) /\ Cardinality(B) \in Nat /\ Cardinality(B) <= Cardinality(Builders)
<1>1. IsFiniteSet(Shards)
  BY CacheAssumption, FS_Interval DEF Shards
<1>2. Builders \subseteq Shards
  BY DEF Builders
<1>3. IsFiniteSet(Builders)
  BY <1>1, <1>2, FS_Subset
<1>4. QED
  BY <1>3, FS_Subset, FS_CardinalityType

\* Fewer builders leave as many images to number.
LEMMA BuildersBound ==
  ASSUME ImagesInv, storage \in Nat, storage' = storage, Builders' \subseteq Builders
  PROVE  (storage + Cardinality(Builders) <= NumShards)'
<1>1. Cardinality(Builders') \in Nat /\ Cardinality(Builders') <= Cardinality(Builders)
  BY BuildersCount
<1>2. Cardinality(Builders) \in Nat /\ storage + Cardinality(Builders) <= NumShards
  BY BuildersCount DEF ImagesInv
<1>3. QED
  BY <1>1, <1>2, CacheAssumption

\* Launcher p leaves the cache alone: it holds no lock, comes to none, and is no new
\* builder.
Outside(p) ==
  /\ UNCHANGED <<built, cache>> /\ Only(p)
  /\ ~At(p, Holding) /\ ~At(p, Holding)'
  /\ At(p, {"new", "lock"})' /\ ~run'[p].fell => At(p, {"new", "lock"}) /\ ~run[p].fell
  /\ run'[p].fell \/ At(p, {"mount", "reap", "made"})' =>
       run[p].fell \/ At(p, {"mount", "reap", "made"})

\* A mount point another launcher needs stays what it is.
MountsKept(p) ==
  /\ mounts' \in [Shards -> MountPoints]
  /\ \A q \in Shards \ {p} : mounts[q] \in {"young", "live"} => mounts'[q] = mounts[q]

OutsideStep(p) ==
  /\ Outside(p) /\ MountsKept(p) /\ MountsOf(p)'
  /\ Careful => /\ AloneOf(p)' /\ RunsOf(p)'
                /\ Active(p)' => Active(p) \/ \A q \in Shards \ {p} : ~Claiming(q)
  /\ Thorough => SeenOf(p)'

\* The others' mounts and what they have seen.
LEMMA OthersKeep ==
  ASSUME NEW p \in Shards, Only(p), NEW q \in Shards \ {p}
  PROVE  /\ MountsOf(q) /\ MountsKept(p) => MountsOf(q)'
         /\ SeenOf(q) => SeenOf(q)'
         /\ RunsOf(q) /\ UNCHANGED exports => RunsOf(q)'
         /\ Claiming(q)' <=> Claiming(q)
         /\ Active(q)' <=> Active(q)
BY DEF Only, MountsOf, MountsKept, SeenOf, RunsOf, Claiming, Active, At, Squash, Path

LEMMA OutsideKeeps ==
  ASSUME InParts, NEW p \in Shards, OutsideStep(p)
  PROVE  InParts'
<1>1. Outside(p) /\ Only(p) /\ MountsKept(p)
  BY DEF OutsideStep, Outside
<1>2. /\ UNCHANGED <<built, storage, exports, tmp, dirLock, storageLock, finished>>
      /\ \A q \in Shards \ {p} : run'[q] = run[q]
      /\ p \in Shards /\ 0 \notin Shards
  BY <1>1, CacheAssumption DEF Outside, cache, Only, Shards
<1>3. Typed'
  BY <1>1, <1>2 DEF InParts, Typed, Only, MountsKept
<1>4. \A q \in Shards : At(q, Holding)' <=> At(q, Holding)
  BY <1>1, <1>2 DEF Outside, At
<1>5. \A q \in Shards : At(q, Holding) => run'[q] = run[q]
  BY <1>1, <1>2 DEF Outside
<1>6. {"converting", "place", "sweep", "building"} \subseteq Holding /\ InStorage \subseteq Holding
  BY DEF Holding, InStorage
<1>7. \A q \in Shards : /\ At(q, InStorage)' <=> At(q, InStorage)
                        /\ At(q, {"converting", "place"})' <=> At(q, {"converting", "place"})
                        /\ At(q, {"place"})' <=> At(q, {"place"})
                        /\ At(q, {"sweep"})' <=> At(q, {"sweep"})
                        /\ At(q, {"building"})' <=> At(q, {"building"})
  BY <1>4, <1>5, <1>6 DEF At
<1>8. \A q \in Shards : At(q, Holding) => Path(q)' = Path(q) /\ (Rebuild(q)' <=> Rebuild(q))
  BY <1>5 DEF Path, Rebuild
<1>9. \A q \in Shards : At(q, {"converting", "place", "sweep", "building"}) => At(q, Holding)
  BY <1>6 DEF At
<1>10. Locks'
  <2>1. \A q \in Shards : LocksOf(q)'
    BY <1>2, <1>4, <1>7, <1>8 DEF InParts, Locks, LocksOf
  <2>2. QED
    BY <1>2, <2>1 DEF InParts, Locks
<1>11. ImagesInv'
  <2>1. Builders' \subseteq Builders
    BY <1>1, <1>2 DEF Builders, Outside, At, Holding, InStorage
  <2>2. (storage + Cardinality(Builders) <= NumShards)'
    BY <1>2, <2>1, BuildersBound DEF InParts, Typed, Images
  <2>3. \A q \in Shards : run'[q].fell \/ At(q, {"sweep", "mount", "reap", "made"})' => storage # 0
    BY <1>1, <1>2, <1>7 DEF InParts, ImagesInv, Outside, At
  <2>4. \A q \in Shards : run'[q].fell /\ At(q, {"building"})' => ~built
    BY <1>5, <1>7, <1>9 DEF InParts, ImagesInv, At
  <2>5. \A q \in Shards : At(q, {"sweep"})' => Rebuild(q)'
    BY <1>7, <1>8, <1>9 DEF InParts, ImagesInv, At
  <2>6. QED
    BY <1>2, <2>2, <2>3, <2>4, <2>5 DEF InParts, ImagesInv
<1>12. MakingInv'
  BY <1>2, <1>4, <1>7, <1>8 DEF InParts, MakingInv
<1>13. \A q \in Shards : MountsOf(q)'
  BY <1>1, OthersKeep DEF InParts, OutsideStep
<1>14. ASSUME Careful
       PROVE  ForcedInv' /\ \A q \in Shards : AloneOf(q)' /\ RunsOf(q)'
  <2>1. ForcedInv'
    BY <1>2, <1>5, <1>7, <1>8, <1>9, <1>14 DEF InParts, ForcedInv, NoOlderExport, At
  <2>2. \A q \in Shards : RunsOf(q)'
    BY <1>1, <1>2, <1>14, OthersKeep DEF InParts, OutsideStep
  <2>3. ASSUME NEW q \in Shards
        PROVE  AloneOf(q)'
    <3>1. CASE q = p
      BY <1>14, <3>1 DEF OutsideStep
    <3>2. CASE q # p
      <4>1. Claiming(q) => \A s \in Shards \ {q} : ~Active(s)
        BY <1>14 DEF InParts, AloneOf
      <4>2. \A s \in Shards \ {p} : Active(s)' <=> Active(s)
        BY <1>1, OthersKeep
      <4>3. Claiming(q) => ~Active(p)'
        BY <1>14, <3>2, <4>1 DEF OutsideStep
      <4>4. Claiming(q)' <=> Claiming(q)
        BY <1>1, <3>2, OthersKeep
      <4>5. QED
        BY <4>1, <4>2, <4>3, <4>4 DEF AloneOf
    <3>3. QED
      BY <3>1, <3>2
  <2>4. QED
    BY <2>1, <2>2, <2>3
<1>15. Thorough => RemovalInv'
  BY <1>2, <1>7, <1>8, <1>9 DEF InParts, RemovalInv, At
<1>16. Thorough => \A q \in Shards : SeenOf(q)'
  BY <1>1, OthersKeep DEF InParts, OutsideStep
<1>17. QED
  BY <1>3, <1>10, <1>11, <1>12, <1>13, <1>14, <1>15, <1>16 DEF InParts


\* A launcher starts: a forced one only when it is alone, and any only when no forced
\* one needs to be.
LEMMA Starts ==
  ASSUME InParts, NEW p \in Shards, Start(p)
  PROVE  OutsideStep(p)
<1> USE DEF Places, Holding, InStorage, Over
<1>1. /\ At(p, {"new"}) /\ UNCHANGED <<built, cache, mounts>>
      /\ Careful => \A q \in Shards : Active(q) /\ run[q].cmd.force => At(q, {"running", "unmount", "rmdir"})
  BY DEF Start, Careful
<1>2. run \in [Shards -> Entries] /\ mounts \in [Shards -> MountPoints] /\ built \in BOOLEAN
  BY DEF InParts, Typed
<1>3. MountsKept(p)
  BY <1>1, <1>2 DEF MountsKept
<1>4. Careful => \A q \in Shards \ {p} : ~Claiming(q)
  BY <1>1 DEF Claiming
<1>5. PICK asked \in Commands :
        LET c == [asked EXCEPT !.force = @ /\ built] IN
        /\ Apart /\ c.force => \A q \in Shards : ~Active(q)
        /\ IF c.format = "squashfs" /\ ~c.fuse THEN Go(p, "gone")
           ELSE run' = [run EXCEPT ![p].cmd = c, ![p].format = FormatOf(c), ![p].at = "lock"]
  BY DEF Start
<1> DEFINE c == [asked EXCEPT !.force = @ /\ built]
<1>6. c \in CommandLines
  BY <1>2, CacheAssumption DEF CommandLines
<1>7. FormatOf(c) \in {"dir", "squashfs"}
  BY <1>6 DEF FormatOf, CommandLines
<1> HIDE DEF c
<1>8. CASE Go(p, "gone")
  <2>1. Only(p) /\ run'[p].at = "gone" /\ ~run'[p].fell
    BY <1>2, <1>8, GoFacts
  <2>2. Outside(p)
    BY <1>1, <2>1 DEF Outside, At
  <2>3. MountsOf(p)' /\ SeenOf(p)' /\ RunsOf(p)' /\ ~Active(p)'
    BY <2>1 DEF MountsOf, SeenOf, RunsOf, Active, At
  <2>4. AloneOf(p)'
    BY <2>3 DEF AloneOf, Claiming
  <2>5. QED
    BY <1>3, <2>2, <2>3, <2>4 DEF OutsideStep
<1>9. CASE run' = [run EXCEPT ![p].cmd = c, ![p].format = FormatOf(c), ![p].at = "lock"]
  <2>1. /\ run'[p].cmd = c /\ run'[p].at = "lock" /\ run'[p].fell = run[p].fell /\ Only(p)
    <3> DEFINE e == [run[p] EXCEPT !.cmd = c, !.format = FormatOf(c), !.at = "lock"]
    <3>1. run[p] \in Entries
      BY <1>2
    <3>2. e \in Entries /\ e.cmd = c /\ e.at = "lock" /\ e.fell = run[p].fell
      BY <1>6, <1>7, <3>1 DEF Entries
    <3>3. run' = [run EXCEPT ![p] = e]
      BY <1>2, <1>9, <3>1 DEF Entries
    <3> HIDE DEF e
    <3>4. QED
      BY <1>2, <3>2, <3>3, EntryChanges
  <2>2. Outside(p)
    BY <1>1, <2>1 DEF Outside, At
  <2>3. MountsOf(p)' /\ SeenOf(p)' /\ RunsOf(p)'
    BY <2>1 DEF MountsOf, SeenOf, RunsOf, At
  <2>4. Careful => AloneOf(p)'
    <3>1. Careful /\ c.force => \A q \in Shards : ~Active(q)
      BY <1>5 DEF c, Careful
    <3>2. \A q \in Shards \ {p} : Active(q)' <=> Active(q)
      BY <2>1, OthersKeep
    <3>3. QED
      BY <2>1, <3>1, <3>2 DEF AloneOf, Claiming
  <2>5. QED
    BY <1>3, <1>4, <2>2, <2>3, <2>4 DEF OutsideStep
<1>10. QED
  BY <1>5, <1>8, <1>9 DEF c

\* A launcher that is over or goes on under the command it has, and needs to be
\* alone only if it did.
Going(p) ==
  /\ UNCHANGED <<built, cache>> /\ Only(p) /\ MountsKept(p)
  /\ ~At(p, Holding) /\ ~At(p, Holding)'
  /\ \/ At(p, Over)' /\ ~run'[p].fell
     \/ /\ ~At(p, Over) /\ run'[p].cmd = run[p].cmd
        /\ run[p].at # "new" /\ run'[p].at # "new"
        /\ At(p, {"running", "unmount", "rmdir"}) => At(p, {"running", "unmount", "rmdir"})'
        /\ run'[p].at = "lock" => run'[p].fell
        /\ run'[p].fell => run[p].fell \/ At(p, {"mount", "reap", "made"})
        /\ At(p, {"mount", "reap", "made"})' => At(p, {"mount", "reap", "made"})

LEMMA GoingIsOutside ==
  ASSUME NEW p \in Shards, Going(p), InParts
  PROVE  /\ Outside(p) /\ MountsKept(p)
         /\ Careful => /\ AloneOf(p)'
                       /\ Active(p)' => Active(p) \/ \A q \in Shards \ {p} : ~Claiming(q)
<1>1. Outside(p)
  BY DEF Going, Outside, At, Over, Holding, InStorage
<1>2. Active(p)' => /\ Active(p) /\ run'[p].cmd = run[p].cmd
                    /\ At(p, {"running", "unmount", "rmdir"}) => At(p, {"running", "unmount", "rmdir"})'
  BY DEF Going, Active, At, Over
<1>3. Claiming(p)' => Claiming(p)
  BY <1>2 DEF Claiming
<1>4. \A q \in Shards \ {p} : Active(q)' <=> Active(q)
  BY OthersKeep DEF Going
<1>5. Careful => AloneOf(p)'
  BY <1>3, <1>4 DEF AloneOf, InParts
<1>6. QED
  BY <1>1, <1>2, <1>5 DEF Going

\* A launcher that is neither mounting nor running afterwards.
LEMMA GoingQuietly ==
  ASSUME InParts, NEW p \in Shards, Going(p), ~At(p, {"made", "running"})',
         At(p, {"ready"})' => run'[p].format = "dir"
  PROVE  OutsideStep(p)
<1>1. MountsOf(p)' /\ RunsOf(p)' /\ SeenOf(p)'
  BY DEF MountsOf, RunsOf, SeenOf, At, Squash
<1>2. QED
  BY <1>1, GoingIsOutside DEF OutsideStep

\* Finding, reaping and making a mount point.
LEMMA Prepares ==
  ASSUME InParts, NEW p \in Shards,
         Use(p) \/ ReapLook(p) \/ ReapAct(p) \/ MakeMountPoint(p)
  PROVE  OutsideStep(p)
<1> USE DEF Places, Holding, InStorage, Over
<1>1. run \in [Shards -> Entries] /\ mounts \in [Shards -> MountPoints]
  BY DEF InParts, Typed
<1>2. UNCHANGED mounts => MountsKept(p)
  BY <1>1 DEF MountsKept
<1>3. CASE Use(p)
  <2>1. At(p, {"mount"}) /\ UNCHANGED <<built, cache, mounts>>
    BY <1>3 DEF Use
  <2>2. CASE Squash(p)
    <3>1. run' = [run EXCEPT ![p].at = "reap", ![p].todo = {q \in Shards : mounts[q] # "absent"}]
      BY <1>3, <2>2 DEF Use
    <3>2. Only(p) /\ run'[p].at = "reap" /\ run'[p].cmd = run[p].cmd /\ run'[p].fell = run[p].fell
      <4> DEFINE e == [run[p] EXCEPT !.at = "reap", !.todo = {q \in Shards : mounts[q] # "absent"}]
      <4>1. run[p] \in Entries
        BY <1>1
      <4>2. e \in Entries /\ e.at = "reap" /\ e.cmd = run[p].cmd /\ e.fell = run[p].fell
        BY <4>1 DEF Entries
      <4>3. run' = [run EXCEPT ![p] = e]
        BY <1>1, <3>1, <4>1 DEF Entries
      <4> HIDE DEF e
      <4>4. QED
        BY <1>1, <4>2, <4>3, EntryChanges
    <3>3. Going(p)
      BY <1>2, <2>1, <3>2 DEF Going, At
    <3>4. QED
      BY <3>2, <3>3, GoingQuietly DEF At
  <2>3. CASE ~Squash(p)
    <3>1. PICK place \in {"ready", "gone"} : Go(p, place)
      BY <1>3, <2>3 DEF Use
    <3>2. Only(p) /\ run'[p].at = place /\ (place = "ready" => Stands(p)) /\ (place = "gone" => ~run'[p].fell)
      BY <1>1, <3>1, GoFacts
    <3>3. Going(p)
      BY <1>2, <2>1, <3>2 DEF Going, At, Stands
    <3>4. place = "ready" => run'[p].format = "dir"
      BY <1>1, <2>3, <3>2 DEF Stands, Squash, Entries
    <3>5. QED
      BY <3>2, <3>3, <3>4, GoingQuietly DEF At
  <2>4. QED
    BY <2>2, <2>3
<1>4. CASE ReapLook(p)
  <2>1. At(p, {"reap"}) /\ UNCHANGED <<built, cache, mounts>>
    BY <1>4 DEF ReapLook
  <2>2. PICK q \in run[p].todo :
          run' = [run EXCEPT ![p].todo = @ \ {q}, ![p].look = q, ![p].saw = mounts[q]]
    BY <1>4 DEF ReapLook
  <2>3. q \in Shards /\ mounts[q] \in MountPoints
    BY <1>1, <2>2 DEF Entries
  <2>4. /\ Only(p) /\ run'[p].at = run[p].at /\ run'[p].cmd = run[p].cmd /\ run'[p].fell = run[p].fell
    <3> DEFINE e == [run[p] EXCEPT !.todo = run[p].todo \ {q}, !.look = q, !.saw = mounts[q]]
    <3>1. run[p] \in Entries
      BY <1>1
    <3>2. e \in Entries /\ e.at = run[p].at /\ e.cmd = run[p].cmd /\ e.fell = run[p].fell
      BY <2>3, <3>1 DEF Entries
    <3>3. run' = [run EXCEPT ![p] = e]
      BY <1>1, <2>2, <3>1 DEF Entries
    <3> HIDE DEF e
    <3>4. QED
      BY <1>1, <3>2, <3>3, EntryChanges
  <2>5. Going(p)
    BY <1>2, <2>1, <2>4 DEF Going, At
  <2>6. QED
    BY <2>1, <2>4, <2>5, GoingQuietly DEF At
<1>5. CASE ReapAct(p)
  <2>1. /\ At(p, {"reap"}) /\ run[p].look # 0 /\ UNCHANGED <<built, cache>>
        /\ mounts' = [mounts EXCEPT ![run[p].look] = Reaped(run[p].saw, mounts[run[p].look])]
        /\ run' = [run EXCEPT ![p].look = 0, ![p].saw = "absent"]
    BY <1>5 DEF ReapAct
  <2>2. run[p].look \in Shards
    BY <1>1, <2>1 DEF Entries
  <2>3. MountsKept(p)
    <3>1. Reaped(run[p].saw, mounts[run[p].look]) \in MountPoints
      BY <1>1, <2>2 DEF Reaped, MountPoints
    <3>2. mounts[run[p].look] \in {"young", "live"}
            => Reaped(run[p].saw, mounts[run[p].look]) = mounts[run[p].look]
      BY DEF Reaped
    <3>3. QED
      BY <1>1, <2>1, <2>2, <3>1, <3>2 DEF MountsKept
  <2>4. Only(p) /\ run'[p].at = run[p].at /\ run'[p].cmd = run[p].cmd /\ run'[p].fell = run[p].fell
    <3> DEFINE e == [run[p] EXCEPT !.look = 0, !.saw = "absent"]
    <3>1. run[p] \in Entries
      BY <1>1
    <3>2. e \in Entries /\ e.at = run[p].at /\ e.cmd = run[p].cmd /\ e.fell = run[p].fell
      BY <3>1 DEF Entries, MountPoints
    <3>3. run' = [run EXCEPT ![p] = e]
      BY <1>1, <2>1, <3>1 DEF Entries
    <3> HIDE DEF e
    <3>4. QED
      BY <1>1, <3>2, <3>3, EntryChanges
  <2>5. Going(p)
    BY <2>1, <2>3, <2>4 DEF Going, At
  <2>6. QED
    BY <2>1, <2>4, <2>5, GoingQuietly DEF At
<1>6. CASE MakeMountPoint(p)
  <2>1. /\ At(p, {"reap"}) /\ UNCHANGED <<built, cache>>
        /\ mounts' = [mounts EXCEPT ![p] = "young"] /\ Go(p, "made")
    BY <1>6 DEF MakeMountPoint
  <2>2. Only(p) /\ run'[p].at = "made" /\ Stands(p)
    BY <1>1, <2>1, GoFacts
  <2>3. MountsKept(p) /\ mounts'[p] = "young"
    BY <1>1, <2>1 DEF MountsKept, MountPoints
  <2>4. Going(p)
    BY <2>1, <2>2, <2>3 DEF Going, At, Stands
  <2>5. MountsOf(p)' /\ RunsOf(p)' /\ SeenOf(p)'
    BY <2>2, <2>3 DEF MountsOf, RunsOf, SeenOf, At
  <2>6. QED
    BY <2>4, <2>5, GoingIsOutside DEF OutsideStep
<1>7. QED
  BY <1>3, <1>4, <1>5, <1>6


\* Every export that is usable is whole, to a launcher that mounts or launches it: the
\* forced run that would be removing it would be alone.
LEMMA UsableIsWhole ==
  ASSUME InParts, Thorough, NEW p \in Shards, At(p, {"made", "ready"}),
         NEW x \in Paths, exports[x].ready
  PROVE  exports[x].whole
<1> SUFFICES ASSUME ~exports[x].whole
             PROVE  FALSE
  OBVIOUS
<1>1. PICK q \in Shards : Rebuild(q) /\ At(q, {"place", "sweep"})
  BY DEF InParts, RemovalInv, At
<1>2. Claiming(q) /\ q # p /\ Active(p)
  BY <1>1 DEF Claiming, Rebuild, Active, At, Over
<1>3. QED
  BY <1>2 DEF InParts, AloneOf, Thorough

\* Mounting and launching.
LEMMA Launches ==
  ASSUME InParts, NEW p \in Shards, Mount(p) \/ MountFails(p) \/ Launch(p)
  PROVE  OutsideStep(p)
<1> USE DEF Places, Holding, InStorage, Over
<1>1. /\ run \in [Shards -> Entries] /\ mounts \in [Shards -> MountPoints]
      /\ exports \in [Paths -> Export]
  BY DEF InParts, Typed
<1>2. UNCHANGED mounts => MountsKept(p)
  BY <1>1 DEF MountsKept
<1>3. run[p] \in Entries /\ Path(p) \in Paths
  BY <1>1 DEF Entries, Path, Paths, CommandLines
<1>4. exports[Path(p)] \in Export
  BY <1>1, <1>3
<1>5. exports[Path(p)].ready => exports[Path(p)].image # 0
  BY <1>1, <1>3 DEF InParts, Typed, ImagesInv
<1>6. CASE Mount(p)
  <2>1. /\ At(p, {"made"}) /\ exports[Path(p)].ready
        /\ mounts' = [mounts EXCEPT ![p] = "live"]
        /\ run' = [run EXCEPT ![p].at = "ready", ![p].seen = exports[Path(p)]]
        /\ UNCHANGED <<built, cache>>
    BY <1>6 DEF Mount
  <2> DEFINE e == [run[p] EXCEPT !.at = "ready", !.seen = exports[Path(p)]]
  <2>2. /\ e \in Entries /\ e.at = "ready" /\ e.cmd = run[p].cmd /\ e.fell = run[p].fell
        /\ e.seen = exports[Path(p)]
    BY <1>3, <1>4 DEF Entries
  <2>3. run' = [run EXCEPT ![p] = e]
    BY <1>1, <1>3, <2>1 DEF Entries
  <2> HIDE DEF e
  <2>4. Only(p) /\ run'[p] = e
    BY <1>1, <2>2, <2>3, EntryChanges
  <2>5. MountsKept(p) /\ mounts'[p] = "live"
    BY <1>1, <2>1 DEF MountsKept, MountPoints
  <2>6. Going(p)
    BY <2>1, <2>2, <2>4, <2>5 DEF Going, At
  <2>7. MountsOf(p)' /\ RunsOf(p)'
    BY <1>5, <2>1, <2>2, <2>4, <2>5 DEF MountsOf, RunsOf, At
  <2>8. Thorough => SeenOf(p)'
    BY <1>3, <2>1, <2>2, <2>4, UsableIsWhole DEF SeenOf, At
  <2>9. QED
    BY <2>6, <2>7, <2>8, GoingIsOutside DEF OutsideStep
<1>7. CASE MountFails(p)
  <2>1. /\ At(p, {"made"}) /\ UNCHANGED <<built, cache>>
        /\ mounts' = [mounts EXCEPT ![p] = "absent"]
        /\ IF run[p].cmd.format = "auto" THEN FallBack(p) ELSE Go(p, "gone")
    BY <1>7 DEF MountFails
  <2>2. MountsKept(p)
    BY <1>1, <2>1 DEF MountsKept, MountPoints
  <2>3. CASE FallBack(p)
    <3> DEFINE e == [run[p] EXCEPT !.at = "lock", !.format = "dir", !.fell = TRUE]
    <3>1. e \in Entries /\ e.at = "lock" /\ e.cmd = run[p].cmd /\ e.fell
      BY <1>3 DEF Entries
    <3>2. run' = [run EXCEPT ![p] = e]
      BY <1>1, <1>3, <2>3 DEF Entries, FallBack
    <3> HIDE DEF e
    <3>3. Only(p) /\ run'[p] = e
      BY <1>1, <3>1, <3>2, EntryChanges
    <3>4. Going(p)
      BY <2>1, <2>2, <3>1, <3>3 DEF Going, At
    <3>5. QED
      BY <3>1, <3>3, <3>4, GoingQuietly DEF At
  <2>4. CASE Go(p, "gone")
    <3>1. Only(p) /\ run'[p].at = "gone" /\ ~run'[p].fell
      BY <1>1, <2>4, GoFacts
    <3>2. Going(p)
      BY <2>1, <2>2, <3>1 DEF Going, At
    <3>3. QED
      BY <3>1, <3>2, GoingQuietly DEF At
  <2>5. QED
    BY <2>1, <2>3, <2>4
<1>8. CASE Launch(p)
  <2>1. At(p, {"ready"}) /\ UNCHANGED <<built, cache, mounts>>
    BY <1>8 DEF Launch
  <2>2. CASE Squash(p)
    <3>1. Go(p, "running")
      BY <1>8, <2>2 DEF Launch
    <3>2. Only(p) /\ run'[p].at = "running" /\ Stands(p)
      BY <1>1, <3>1, GoFacts
    <3>3. Going(p)
      BY <1>2, <2>1, <3>2 DEF Going, At, Stands
    <3>4. MountsOf(p) /\ (Thorough => SeenOf(p))
      BY DEF InParts
    <3>5. MountsOf(p)' /\ RunsOf(p)' /\ (Thorough => SeenOf(p)')
      BY <2>1, <2>2, <3>2, <3>4 DEF MountsOf, RunsOf, SeenOf, At, Stands, Squash
    <3>6. QED
      BY <3>3, <3>5, GoingIsOutside DEF OutsideStep
  <2>3. CASE ~Squash(p) /\ exports[Path(p)].ready
    <3>1. run' = [run EXCEPT ![p].at = "running", ![p].seen = exports[Path(p)]]
      BY <1>8, <2>3 DEF Launch
    <3> DEFINE e == [run[p] EXCEPT !.at = "running", !.seen = exports[Path(p)]]
    <3>2. /\ e \in Entries /\ e.at = "running" /\ e.cmd = run[p].cmd /\ e.fell = run[p].fell
          /\ e.format = run[p].format /\ e.seen = exports[Path(p)]
      BY <1>3, <1>4 DEF Entries
    <3>3. run' = [run EXCEPT ![p] = e]
      BY <1>1, <1>3, <3>1 DEF Entries
    <3> HIDE DEF e
    <3>4. Only(p) /\ run'[p] = e
      BY <1>1, <3>2, <3>3, EntryChanges
    <3>5. Going(p)
      BY <1>2, <2>1, <3>2, <3>4 DEF Going, At
    <3>6. MountsOf(p)' /\ RunsOf(p)'
      BY <2>1, <2>3, <3>2, <3>4 DEF MountsOf, RunsOf, At, Squash, Path, cache
    <3>7. Thorough => SeenOf(p)'
      BY <1>3, <2>1, <2>3, <3>2, <3>4, UsableIsWhole DEF SeenOf, At
    <3>8. QED
      BY <3>5, <3>6, <3>7, GoingIsOutside DEF OutsideStep
  <2>4. CASE ~Squash(p) /\ ~exports[Path(p)].ready
    <3>1. Go(p, "gone")
      BY <1>8, <2>4 DEF Launch
    <3>2. Only(p) /\ run'[p].at = "gone" /\ ~run'[p].fell
      BY <1>1, <3>1, GoFacts
    <3>3. Going(p)
      BY <1>2, <2>1, <3>2 DEF Going, At
    <3>4. QED
      BY <3>2, <3>3, GoingQuietly DEF At
  <2>5. QED
    BY <2>2, <2>3, <2>4
<1>9. QED
  BY <1>6, <1>7, <1>8

\* Finishing, releasing the mount, and getting older.
LEMMA Finishes ==
  ASSUME InParts, NEW p \in Shards,
         Finish(p) \/ Unmount(p) \/ RemoveMountPoint(p) \/ Age(p)
  PROVE  OutsideStep(p)
<1> USE DEF Places, Holding, InStorage, Over
<1>1. /\ run \in [Shards -> Entries] /\ mounts \in [Shards -> MountPoints]
  BY DEF InParts, Typed
<1>2. UNCHANGED <<built, cache>>
  BY DEF Finish, Unmount, RemoveMountPoint, Age
<1>3. MountsKept(p)
  BY <1>1 DEF MountsKept, MountPoints, Finish, Unmount, RemoveMountPoint, Age
<1>4. CASE Finish(p) \/ Unmount(p) \/ RemoveMountPoint(p)
  <2>1. PICK place \in {"unmount", "rmdir", "gone"} : Go(p, place)
    BY <1>4 DEF Finish, Unmount, RemoveMountPoint
  <2>2. At(p, {"running", "unmount", "rmdir"})
    BY <1>4 DEF Finish, Unmount, RemoveMountPoint, At
  <2>3. Only(p) /\ run'[p].at = place /\ (place \in Over => ~run'[p].fell) /\ (place \notin Over => Stands(p))
    BY <1>1, <2>1, GoFacts
  <2>4. Going(p)
    BY <1>2, <1>3, <2>2, <2>3 DEF Going, At, Stands
  <2>5. QED
    BY <2>3, <2>4, GoingQuietly DEF At
<1>5. CASE Age(p)
  <2>1. At(p, Over \cup {"rmdir"}) /\ run' = run
    BY <1>5 DEF Age
  <2>2. Outside(p)
    BY <1>1, <1>2, <2>1 DEF Outside, Only, At
  <2>3. MountsOf(p)' /\ RunsOf(p)' /\ SeenOf(p)'
    BY <2>1 DEF MountsOf, RunsOf, SeenOf, At
  <2>4. AloneOf(p) => AloneOf(p)'
    BY <2>1 DEF AloneOf, Claiming, Active, At
  <2>5. Active(p)' <=> Active(p)
    BY <2>1 DEF Active, At
  <2>6. QED
    BY <1>3, <2>2, <2>3, <2>4, <2>5 DEF OutsideStep, InParts
<1>6. QED
  BY <1>4, <1>5


-------------------------------------------------------------------------------
(* Steps on the cache.                                                         *)

\* What launcher p does to the exports, other launchers do not notice: it replaces or
\* removes a usable one only when it is alone.
LEMMA ActingKeeps ==
  ASSUME InParts, NEW p \in Shards, Only(p), MountsKept(p), Active(p),
         ~At(p, {"made", "ready", "running"})',
         \/ At(p, Over)'
         \/ run'[p].cmd = run[p].cmd /\ ~At(p, {"running", "unmount", "rmdir"}),
         \A x \in Paths : exports'[x] = exports[x] \/ Claiming(p) \/ ~exports[x].ready
  PROVE  /\ \A q \in Shards : MountsOf(q)'
         /\ Careful => \A q \in Shards : AloneOf(q)' /\ RunsOf(q)'
         /\ Thorough => \A q \in Shards : SeenOf(q)'
<1>1. MountsOf(p)' /\ SeenOf(p)' /\ RunsOf(p)'
  BY DEF MountsOf, SeenOf, RunsOf, At
<1>2. Claiming(p)' => Claiming(p)
  BY DEF Claiming, Active, At, Over
<1>3. \A q \in Shards \ {p} : MountsOf(q)' /\ (Thorough => SeenOf(q)')
  BY OthersKeep DEF InParts
<1>4. ASSUME Careful, NEW q \in Shards
      PROVE  AloneOf(q)'
  <2>1. Claiming(q)' => Claiming(q)
    BY <1>2, OthersKeep
  <2>2. Claiming(q) => \A s \in Shards \ {q} : ~Active(s)
    BY <1>4 DEF InParts, AloneOf
  <2>3. \A s \in Shards : Active(s)' => Active(s)
    BY OthersKeep
  <2>4. QED
    BY <2>1, <2>2, <2>3 DEF AloneOf
<1>5. ASSUME Careful, NEW q \in Shards \ {p}
      PROVE  RunsOf(q)'
  <2> SUFFICES ASSUME At(q, {"running"}), ~Squash(q)
               PROVE  exports'[Path(q)] = run[q].seen /\ run[q].seen.ready
    BY DEF RunsOf, Only, At, Squash, Path
  <2>1. exports[Path(q)] = run[q].seen /\ run[q].seen.ready
    BY <1>5 DEF InParts, RunsOf
  <2>2. ~Claiming(p)
    BY <1>5 DEF InParts, AloneOf, Active, At, Over
  <2>3. Path(q) \in Paths
    BY DEF InParts, Typed, Entries, Path, Paths, CommandLines
  <2>4. QED
    BY <2>1, <2>2, <2>3
<1>6. QED
  BY <1>1, <1>3, <1>4, <1>5

\* Launcher p is the one that may be removing what is at x.
Removes(p, x) ==
  /\ Rebuild(p)
  /\ \/ At(p, {"place"}) /\ x = Path(p)
     \/ At(p, {"sweep"}) /\ x # Path(p)

LEMMA RemovalBySome ==
  RemovalInv <=> \A x \in Paths : exports[x].ready /\ ~exports[x].whole => \E p \in Shards : Removes(p, x)
BY DEF RemovalInv, Removes

\* A step of removing what is at x.
LEMMA RemoveFacts ==
  ASSUME exports \in [Paths -> Export], NEW x \in Paths, Remove(x)
  PROVE  /\ exports' \in [Paths -> Export]
         /\ \A y \in Paths \ {x} : exports'[y] = exports[y]
         /\ ~exports'[x].whole
         /\ exports'[x].ready => exports[x].whole /\ exports'[x].image = exports[x].image
<1>1. CASE x[2] = "dir" /\ exports[x].whole
  <2>1. PICK r \in BOOLEAN : exports' = [exports EXCEPT ![x].whole = FALSE, ![x].ready = r]
    BY <1>1 DEF Remove
  <2> DEFINE e == [exports[x] EXCEPT !.whole = FALSE, !.ready = r]
  <2>2. exports[x] \in Export
    OBVIOUS
  <2>3. e \in Export /\ ~e.whole /\ e.image = exports[x].image
    BY <2>2 DEF Export
  <2>4. exports' = [exports EXCEPT ![x] = e]
    BY <2>1, <2>2 DEF Export
  <2> HIDE DEF e
  <2>5. QED
    BY <1>1, <2>3, <2>4
<1>2. CASE ~(x[2] = "dir" /\ exports[x].whole)
  <2>1. exports' = [exports EXCEPT ![x] = Absent]
    BY <1>2 DEF Remove
  <2>2. QED
    BY <2>1, NothingTyped
<1>3. QED
  BY <1>1, <1>2

\* Launcher p removes what is at x: an export that a forced build drops or replaces,
\* or one that is not usable.
LEMMA RemovalKeeps ==
  ASSUME InParts, NEW p \in Shards, NEW x \in Paths, Remove(x), exports[x] # Absent,
         \/ At(p, {"sweep"}) /\ x # Path(p)
         \/ At(p, {"place"}) /\ x = Path(p),
         UNCHANGED <<built, storage, tmp, dirLock, storageLock, mounts, run, finished>>
  PROVE  InParts'
<1>1. exports \in [Paths -> Export] /\ run \in [Shards -> Entries] /\ mounts \in [Shards -> MountPoints]
  BY DEF InParts, Typed
<1>2. /\ exports' \in [Paths -> Export]
      /\ \A y \in Paths \ {x} : exports'[y] = exports[y]
      /\ ~exports'[x].whole
      /\ exports'[x].ready => exports[x].whole /\ exports'[x].image = exports[x].image
  BY <1>1, RemoveFacts
<1>3. exports[x].whole => exports[x].ready
  BY DEF InParts, ImagesInv
<1>4. Rebuild(p) \/ ~exports[x].ready
  <2>1. At(p, {"sweep"}) => Rebuild(p)
    BY DEF InParts, ImagesInv
  <2>2. At(p, {"place"}) => At(p, Holding)
    BY DEF At, Holding
  <2>3. QED
    BY <2>1, <2>2 DEF InParts, MakingInv
<1>5. Rebuild(p) => Claiming(p)
  BY DEF Rebuild, Claiming, Active, At, Over
<1>6. Typed'
  BY <1>2 DEF InParts, Typed
<1>7. Locks'
  BY DEF InParts, Locks, LocksOf, At, Path
<1>8. ImagesInv'
  <2>1. Builders' = Builders
    BY DEF Builders, At
  <2>2. \A y \in Paths : /\ exports'[y].ready => exports'[y].image \in 1 .. storage
                         /\ exports'[y].whole => exports'[y].ready
    BY <1>2, <1>3 DEF InParts, ImagesInv
  <2>3. QED
    BY <2>1, <2>2 DEF InParts, ImagesInv, At, Rebuild
<1>9. MakingInv'
  <2>1. \A y \in Paths : exports'[y].ready => exports[y].ready
    BY <1>2, <1>3
  <2>2. QED
    BY <2>1, PathTyped DEF InParts, MakingInv, At, Path, Rebuild
<1>10. /\ \A q \in Shards : MountsOf(q)'
       /\ Careful => \A q \in Shards : AloneOf(q)' /\ RunsOf(q)'
       /\ Thorough => \A q \in Shards : SeenOf(q)'
  <2>1. Only(p) /\ MountsKept(p)
    BY <1>1 DEF Only, MountsKept
  <2>2. /\ Active(p) /\ ~At(p, {"made", "ready", "running"})'
        /\ run'[p].cmd = run[p].cmd /\ ~At(p, {"running", "unmount", "rmdir"})
    BY DEF Active, At, Over
  <2>3. \A y \in Paths : exports'[y] = exports[y] \/ Claiming(p) \/ ~exports[y].ready
    BY <1>2, <1>4, <1>5
  <2>4. QED
    BY <2>1, <2>2, <2>3, ActingKeeps
<1>11. ASSUME Careful
       PROVE  ForcedInv'
  <2>1. ForcedInv
    BY <1>11 DEF InParts
  <2>2. \A q \in Shards : Rebuild(q) /\ At(q, {"converting", "place"})
          => \A y \in Paths \ {Path(q)} : ~exports'[y].ready
    BY <1>2, <1>3, <2>1 DEF ForcedInv
  <2>3. \A y \in Paths : exports'[y].ready => exports'[y].image >= finished
    BY <1>2, <1>3, <2>1 DEF ForcedInv, NoOlderExport
  <2>4. \A q \in Shards : Rebuild(q) /\ At(q, {"sweep", "place"})
          => \A y \in run[q].left : ~exports'[y].ready
    <3>1. \A q \in Shards : run[q].left \subseteq Paths
      BY <1>1 DEF Entries
    <3>2. QED
      BY <1>2, <1>3, <2>1, <3>1 DEF ForcedInv
  <2>5. QED
    BY <2>1, <2>2, <2>3, <2>4 DEF ForcedInv, NoOlderExport, At, Rebuild, Path
<1>12. ASSUME Thorough
       PROVE  RemovalInv'
  <2>1. \A y \in Paths : exports[y].ready /\ ~exports[y].whole => \E q \in Shards : Removes(q, y)
    BY <1>12, RemovalBySome DEF InParts
  <2>2. exports'[x].ready => Removes(p, x)
    BY <1>2, <1>3, <1>4 DEF Removes
  <2>3. \A y \in Paths : exports'[y].ready /\ ~exports'[y].whole => \E q \in Shards : Removes(q, y)
    BY <1>2, <2>1, <2>2
  <2>4. \A q \in Shards, y \in Paths : Removes(q, y)' <=> Removes(q, y)
    BY DEF Removes, Rebuild, At, Path
  <2>5. \A y \in Paths : exports'[y].ready /\ ~exports'[y].whole => \E q \in Shards : Removes(q, y)'
    BY <2>3, <2>4
  <2>6. QED
    BY <2>5 DEF RemovalInv, Removes
<1>13. QED
  BY <1>6, <1>7, <1>8, <1>9, <1>10, <1>11, <1>12 DEF InParts

LEMMA Removals ==
  ASSUME InParts, NEW p \in Shards, Sweep(p) \/ RemoveOld(p)
  PROVE  InParts'
<1>1. CASE Sweep(p)
  <2>1. At(p, {"sweep"}) /\ UNCHANGED <<built, storage, tmp, dirLock, storageLock, mounts, run, finished>>
    BY <1>1 DEF Sweep
  <2>2. PICK x \in ToRemove(p) : Remove(x)
    BY <1>1 DEF Sweep
  <2>3. x \in Paths /\ x # Path(p) /\ exports[x] # Absent
    BY <2>1 DEF ToRemove, Stale, At
  <2>4. QED
    BY <2>1, <2>2, <2>3, RemovalKeeps
<1>2. CASE RemoveOld(p)
  <2>1. /\ At(p, {"place"}) /\ exports[Path(p)] # Absent /\ Remove(Path(p))
        /\ UNCHANGED <<built, storage, tmp, dirLock, storageLock, mounts, run, finished>>
    BY <1>2 DEF RemoveOld, ToRemove, At
  <2>2. QED
    BY <2>1, PathTyped, RemovalKeeps DEF InParts
<1>3. QED
  BY <1>1, <1>2


\* The locks after a step of launcher p: the others have theirs.
LEMMA LocksMove ==
  ASSUME InParts, NEW p \in Shards, Only(p),
         dirLock' \in [Paths -> {0} \cup Shards], storageLock' \in {0} \cup Shards,
         \A x \in Paths : dirLock'[x] = dirLock[x] \/ {dirLock[x], dirLock'[x]} \subseteq {0, p},
         storageLock' = storageLock \/ {storageLock, storageLock'} \subseteq {0, p},
         LocksOf(p)'
  PROVE  Locks'
<1>1. 0 \notin Shards
  BY CacheAssumption DEF Shards
<1>2. ASSUME NEW q \in Shards \ {p}
      PROVE  LocksOf(q)'
  <2>1. LocksOf(q)
    BY DEF InParts, Locks
  <2>2. \A x \in Paths : dirLock'[x] = q <=> dirLock[x] = q
    BY <1>1
  <2>3. storageLock' = q <=> storageLock = q
    BY <1>1
  <2>4. run'[q] = run[q]
    BY DEF Only
  <2>5. QED
    BY <2>1, <2>2, <2>3, <2>4 DEF LocksOf, At, Path
<1>3. QED
  BY <1>2 DEF Locks

\* The lock of the path is taken, or a cached export with it.
LEMMA LocksPath ==
  ASSUME InParts, NEW p \in Shards, LockPath(p)
  PROVE  InParts'
<1> USE DEF Places, Holding, InStorage, Over
<1>1. /\ At(p, {"lock"}) /\ dirLock[Path(p)] = 0
      /\ UNCHANGED <<built, storage, exports, tmp, storageLock, mounts, finished>>
  BY DEF LockPath
<1>2. PICK place \in {"mount", "want"} :
        /\ Go(p, place)
        /\ place = "mount" => exports[Path(p)].ready /\ UNCHANGED dirLock
        /\ place = "want" => /\ ~exports[Path(p)].ready \/ Rebuild(p)
                             /\ dirLock' = [dirLock EXCEPT ![Path(p)] = p]
  BY DEF LockPath
<1>3. run \in [Shards -> Entries] /\ mounts \in [Shards -> MountPoints] /\ Path(p) \in Paths
  BY PathTyped DEF InParts, Typed
<1>4. Only(p) /\ run'[p].at = place /\ Stands(p)
  BY <1>2, <1>3, GoFacts
<1>5. 0 \notin Shards
  BY CacheAssumption DEF Shards
<1>6. \A q \in Shards : /\ Path(q)' = Path(q) /\ (Rebuild(q)' <=> Rebuild(q))
                        /\ q # p => run'[q] = run[q]
  BY <1>4 DEF Path, Rebuild, Stands, Only
<1>7. Typed'
  BY <1>1, <1>4 DEF InParts, Typed, Only
<1>8. Locks'
  <2>1. dirLock \in [Paths -> {0} \cup Shards] /\ storageLock \in {0} \cup Shards /\ LocksOf(p)
    BY DEF InParts, Locks
  <2>2. dirLock' \in [Paths -> {0} \cup Shards]
    BY <1>2, <1>3, <2>1
  <2>3. \A x \in Paths : dirLock'[x] = dirLock[x] \/ {dirLock[x], dirLock'[x]} \subseteq {0, p}
    BY <1>1, <1>2, <1>3, <2>1
  <2>4. LocksOf(p)'
    <3>1. storageLock' # p /\ ~At(p, InStorage)'
      BY <1>1, <1>4, <2>1 DEF At, LocksOf
    <3>2. \A x \in Paths : dirLock[x] # p
      BY <1>1, <2>1 DEF At, LocksOf
    <3>3. CASE place = "mount"
      BY <1>2, <1>4, <3>1, <3>2, <3>3 DEF At, LocksOf
    <3>4. CASE place = "want"
      <4>1. At(p, Holding)' /\ Path(p)' = Path(p)
        BY <1>4, <1>6, <3>4 DEF At
      <4>2. \A x \in Paths : dirLock'[x] = p <=> Path(p) = x
        BY <1>2, <1>3, <2>1, <3>2, <3>4
      <4>3. QED
        BY <3>1, <4>1, <4>2 DEF LocksOf
    <3>5. QED
      BY <3>3, <3>4
  <2>5. QED
    BY <1>1, <1>4, <2>1, <2>2, <2>3, <2>4, LocksMove
<1>9. ImagesInv'
  <2>1. ImagesInv
    BY DEF InParts
  <2>2. place = "mount" => storage # 0
    BY <1>2, <1>3, <2>1 DEF InParts, Typed, Images, ImagesInv
  <2>3. Builders' \subseteq Builders
    BY <1>1, <1>4, <1>6 DEF Builders, At, Stands
  <2>4. (storage + Cardinality(Builders) <= NumShards)'
    BY <1>1, <2>1, <2>3, BuildersBound DEF InParts, Typed, Images
  <2>5. \A q \in Shards : run'[q].fell \/ At(q, {"sweep", "mount", "reap", "made"})' => storage # 0
    BY <1>2, <1>4, <1>6, <2>1, <2>2 DEF ImagesInv, At, Stands
  <2>6. \A q \in Shards : /\ run'[q].fell /\ At(q, {"building"})' => ~built
                          /\ At(q, {"sweep"})' => Rebuild(q)'
    BY <1>2, <1>4, <1>6, <2>1 DEF ImagesInv, At
  <2>7. QED
    BY <1>1, <2>1, <2>4, <2>5, <2>6 DEF ImagesInv
<1>10. MakingInv'
  <2>1. \A q \in Shards : At(q, {"converting", "place"})' => At(q, {"converting", "place"}) /\ q # p
    BY <1>2, <1>4, <1>6 DEF At
  <2>2. \A q \in Shards : At(q, Holding)' /\ ~Rebuild(q)' => ~exports[Path(q)].ready
    <3>1. \A q \in Shards \ {p} : At(q, Holding)' => At(q, Holding)
      BY <1>6 DEF At
    <3>2. At(p, Holding)' => ~exports[Path(p)].ready \/ Rebuild(p)
      BY <1>2, <1>4 DEF At
    <3>3. QED
      BY <1>6, <3>1, <3>2 DEF InParts, MakingInv
  <2>3. QED
    BY <1>1, <1>6, <2>1, <2>2 DEF InParts, MakingInv
<1>11. /\ \A q \in Shards : MountsOf(q)'
       /\ Careful => \A q \in Shards : AloneOf(q)' /\ RunsOf(q)'
       /\ Thorough => \A q \in Shards : SeenOf(q)'
  <2>1. MountsKept(p)
    BY <1>1, <1>3 DEF MountsKept
  <2>2. /\ Active(p) /\ ~At(p, {"made", "ready", "running"})'
        /\ run'[p].cmd = run[p].cmd /\ ~At(p, {"running", "unmount", "rmdir"})
    BY <1>1, <1>2, <1>4 DEF Active, At, Stands
  <2>3. QED
    BY <1>1, <1>4, <2>1, <2>2, ActingKeeps
<1>12. \A q \in Shards : /\ At(q, {"converting", "place"})' <=> At(q, {"converting", "place"})
                         /\ At(q, {"place"})' <=> At(q, {"place"})
                         /\ At(q, {"sweep"})' <=> At(q, {"sweep"})
                         /\ At(q, {"sweep", "place"})' => At(q, {"sweep", "place"}) /\ run'[q] = run[q]
  BY <1>1, <1>2, <1>4, <1>6 DEF At
<1>13. Careful => ForcedInv'
  BY <1>1, <1>6, <1>12 DEF InParts, ForcedInv, NoOlderExport
<1>14. Thorough => RemovalInv'
  BY <1>1, <1>6, <1>12 DEF InParts, RemovalInv
<1>15. QED
  BY <1>7, <1>8, <1>9, <1>10, <1>11, <1>13, <1>14 DEF InParts


(* What a step of launcher p has to show of itself; the others follow.         *)

ImagesOf(q) ==
  /\ run[q].fell \/ At(q, {"sweep", "mount", "reap", "made"}) => storage # 0
  /\ run[q].fell /\ At(q, {"building"}) => ~built
  /\ At(q, {"sweep"}) => Rebuild(q)

ExportOf(x) ==
  /\ exports[x].ready => exports[x].image \in 1 .. storage
  /\ exports[x].whole => exports[x].ready

MakingOf(q) ==
  /\ At(q, {"converting", "place"}) => tmp[q].ready /\ tmp[q].whole /\ tmp[q].image \in 1 .. storage
  /\ At(q, Holding) /\ ~Rebuild(q) => ~exports[Path(q)].ready

ForcedOf(q) ==
  /\ Rebuild(q) /\ At(q, {"converting", "place"}) => \A x \in Paths \ {Path(q)} : ~exports[x].ready
  /\ Rebuild(q) /\ At(q, {"sweep", "place"}) => \A x \in run[q].left : ~exports[x].ready
  /\ At(q, {"converting", "place"}) => tmp[q].image >= finished

\* The invariant gives each launcher, and each export, its part.
LEMMA HasParts ==
  ASSUME InParts, NEW p \in Shards
  PROVE  /\ LocksOf(p) /\ ImagesOf(p) /\ MakingOf(p) /\ run[p] \in Entries /\ Path(p) \in Paths
         /\ Careful => ForcedOf(p)
         /\ \A x \in Paths : ExportOf(x) /\ exports[x] \in Export
         /\ storage \in Nat /\ finished \in Nat /\ storage <= NumShards + 1 /\ finished <= storage
BY PathTyped, CacheAssumption DEF InParts, Locks, ImagesInv, ImagesOf, ExportOf, MakingInv,
   MakingOf, ForcedInv, ForcedOf, Typed, Images

\* The storage and the exports, when the storage does not go back.
LEMMA ImagesMove ==
  ASSUME InParts, NEW p \in Shards, Only(p), UNCHANGED built,
         storage' \in Nat, storage' >= storage, finished' <= storage',
         (storage + Cardinality(Builders) <= NumShards)', ImagesOf(p)',
         \A x \in Paths : exports'[x] = exports[x] \/ ExportOf(x)'
  PROVE  ImagesInv'
<1>1. ASSUME NEW q \in Shards \ {p}
      PROVE  ImagesOf(q)'
  <2>1. ImagesOf(q) /\ storage \in Nat
    BY HasParts
  <2>2. run'[q] = run[q]
    BY DEF Only
  <2>3. QED
    BY <2>1, <2>2 DEF ImagesOf, At, Rebuild
<1>2. \A q \in Shards : ImagesOf(q)'
  BY <1>1
<1>3. ASSUME NEW x \in Paths
      PROVE  ExportOf(x)'
  <2>1. ExportOf(x) /\ exports[x] \in Export /\ storage \in Nat
    BY HasParts
  <2>2. CASE exports'[x] = exports[x]
    BY <2>1, <2>2 DEF ExportOf
  <2>3. QED
    BY <2>2
<1>4. QED
  BY <1>2, <1>3 DEF ImagesInv, ImagesOf, ExportOf

\* What the others make; a path becomes usable by the launcher that has its lock.
LEMMA MakingMove ==
  ASSUME InParts, NEW p \in Shards, Only(p), storage' \in Nat, storage' >= storage,
         \A q \in Shards \ {p} : tmp'[q] = tmp[q],
         \A x \in Paths : exports'[x].ready => exports[x].ready \/ dirLock[x] = p,
         MakingOf(p)'
  PROVE  MakingInv'
<1>1. ASSUME NEW q \in Shards \ {p}
      PROVE  MakingOf(q)'
  <2>1. MakingOf(q) /\ LocksOf(q) /\ storage \in Nat /\ Path(q) \in Paths
    BY HasParts
  <2>2. run'[q] = run[q] /\ tmp'[q] = tmp[q]
    BY DEF Only
  <2>3. At(q, Holding) => dirLock[Path(q)] # p
    BY <2>1 DEF LocksOf
  <2>4. At(q, Holding) /\ ~Rebuild(q) => ~exports'[Path(q)].ready
    BY <2>1, <2>3 DEF MakingOf
  <2>5. QED
    BY <2>1, <2>2, <2>4 DEF MakingOf, At, Rebuild, Path
<1>2. QED
  BY <1>1 DEF MakingInv, MakingOf

\* Forced builds, when none but p's can be one.
LEMMA ForcedMove ==
  ASSUME InParts, Careful, NEW p \in Shards, Only(p), Active(p),
         \A q \in Shards \ {p} : tmp'[q] = tmp[q],
         finished' = finished \/ Claiming(p),
         ForcedOf(p)', NoOlderExport'
  PROVE  ForcedInv'
<1>1. ASSUME NEW q \in Shards \ {p}
      PROVE  ForcedOf(q)'
  <2>1. ForcedOf(q) /\ run'[q] = run[q] /\ tmp'[q] = tmp[q]
    BY HasParts DEF Only
  <2>2. ~Claiming(q)
    BY DEF InParts, AloneOf
  <2>3. ~(Rebuild(q) /\ At(q, {"sweep", "converting", "place"}))
    BY <2>2 DEF Claiming, Rebuild, Active, At, Over
  <2>4. Claiming(p) => ~Active(q)
    BY DEF InParts, AloneOf
  <2>5. At(q, {"converting", "place"}) => finished' = finished
    BY <2>4 DEF Active, At, Over
  <2>6. QED
    BY <2>1, <2>3, <2>5 DEF ForcedOf, At, Rebuild
<1>2. QED
  BY <1>1 DEF ForcedInv, ForcedOf

\* Removals, when p leaves none half done.
LEMMA RemovalMove ==
  ASSUME InParts, Thorough, NEW p \in Shards, Only(p),
         \A x \in Paths : exports'[x] = exports[x] \/ (exports'[x].ready => exports'[x].whole),
         \A x \in Paths : Removes(p, x) => exports[x].whole \/ ~exports[x].ready
  PROVE  RemovalInv'
<1>1. \A x \in Paths : exports[x].ready /\ ~exports[x].whole => \E q \in Shards : Removes(q, x)
  BY RemovalBySome DEF InParts
<1>2. ASSUME NEW x \in Paths, exports'[x].ready, ~exports'[x].whole
      PROVE  \E q \in Shards : Removes(q, x)'
  <2>1. exports'[x] = exports[x]
    BY <1>2
  <2>2. PICK q \in Shards : Removes(q, x)
    BY <1>1, <1>2, <2>1
  <2>3. q # p
    BY <1>2, <2>1, <2>2
  <2>4. run'[q] = run[q]
    BY <2>3 DEF Only
  <2>5. Removes(q, x)'
    BY <2>2, <2>4 DEF Removes, Rebuild, At, Path
  <2>6. QED
    BY <2>5
<1>3. QED
  BY <1>2 DEF RemovalInv, Removes


\* One builder less leaves a number for the image it made.
LEMMA BuiltBound ==
  ASSUME ImagesInv, NEW p \in Builders, storage \in Nat, storage' = storage + 1,
         Builders' \subseteq Builders \ {p}
  PROVE  (storage + Cardinality(Builders) <= NumShards)'
<1>1. IsFiniteSet(Builders) /\ Cardinality(Builders) \in Nat
  BY BuildersCount
<1>2. Cardinality(Builders \ {p}) = Cardinality(Builders) - 1 /\ IsFiniteSet(Builders \ {p})
  BY <1>1, FS_RemoveElement
<1>3. Cardinality(Builders') \in Nat /\ Cardinality(Builders') <= Cardinality(Builders) - 1
  BY <1>2, FS_Subset, FS_CardinalityType
<1>4. storage + Cardinality(Builders) <= NumShards
  BY DEF ImagesInv
<1>5. QED
  BY <1>1, <1>3, <1>4, CacheAssumption

\* The builders after a step of p that makes it no new one.
LEMMA BuildersMove ==
  ASSUME InParts, NEW p \in Shards, Only(p),
         At(p, {"new", "lock", "want", "waiting", "building"})' /\ ~run'[p].fell =>
           At(p, {"new", "lock", "want", "waiting", "building"}) /\ ~run[p].fell
  PROVE  Builders' \subseteq Builders
BY DEF Builders, Only, At

\* What p obtains: the storage is not empty then, and no image has its number.
LEMMA Obtains ==
  ASSUME InParts, NEW p \in Shards, Only(p), At(p, {"building"}), storage' = Obtained,
         ~At(p, {"new", "lock", "want", "waiting", "building"})' \/ run'[p].fell
  PROVE  /\ storage' \in Nat /\ storage' >= storage /\ storage' >= 1
         /\ (storage + Cardinality(Builders) <= NumShards)'
<1>1. storage \in Nat /\ ImagesOf(p) /\ ImagesInv
  BY HasParts DEF InParts
<1>2. Builders' \subseteq Builders \ {p}
  BY DEF Builders, Only, At
<1>3. CASE storage' = storage
  <2>1. storage # 0
    BY <1>1, <1>3 DEF Obtained
  <2>2. QED
    BY <1>1, <1>2, <1>3, <2>1, BuildersBound
<1>4. CASE storage' # storage
  <2>1. storage' = storage + 1 /\ (built \/ storage = 0)
    BY <1>4 DEF Obtained
  <2>2. p \in Builders
    BY <1>1, <2>1 DEF Builders, ImagesOf, At
  <2>3. QED
    BY <1>1, <1>2, <2>1, <2>2, BuiltBound
<1>5. QED
  BY <1>3, <1>4

\* ch-convert copies a whole image under the lock of the storage.
LEMMA Converts ==
  ASSUME InParts, NEW p \in Shards, storageLock \in {0, p}, NEW image \in Images,
         Convert(p, image)
  PROVE  /\ tmp' \in [Shards -> Export] /\ \A q \in Shards \ {p} : tmp'[q] = tmp[q]
         /\ tmp'[p].ready /\ tmp'[p].whole /\ tmp'[p].image = image
<1>1. \A q \in Shards \ {p} : ~At(q, {"building"})
  <2> SUFFICES ASSUME NEW q \in Shards \ {p}, At(q, {"building"})
               PROVE  FALSE
    OBVIOUS
  <2>1. storageLock = q
    BY HasParts DEF LocksOf, At, InStorage
  <2>2. 0 \notin Shards
    BY CacheAssumption DEF Shards
  <2>3. QED
    BY <2>1, <2>2
<1> DEFINE e == [image |-> image, ready |-> TRUE, whole |-> \A q \in Shards \ {p} : ~At(q, {"building"})]
<1>2. e \in Export /\ e.ready /\ e.whole /\ e.image = image
  BY <1>1 DEF Export
<1>3. tmp' = [tmp EXCEPT ![p] = e]
  BY DEF Convert
<1>4. tmp \in [Shards -> Export]
  BY DEF InParts, Typed
<1> HIDE DEF e
<1>5. QED
  BY <1>2, <1>3, <1>4

\* Launcher p, which holds a lock, goes on in the cache.
Acting(p) ==
  /\ UNCHANGED <<built, mounts>> /\ Only(p) /\ Stands(p)
  /\ At(p, Holding) /\ ~At(p, {"made", "ready", "running"})' /\ run'[p].at # "new"

LEMMA ActingStep ==
  ASSUME InParts, NEW p \in Shards, Acting(p), Typed', Locks', ImagesInv', MakingInv',
         Careful => ForcedInv', Thorough => RemovalInv',
         \A x \in Paths : exports'[x] = exports[x] \/ ~exports[x].ready
  PROVE  InParts'
<1>1. Only(p) /\ MountsKept(p)
  BY DEF Acting, MountsKept, InParts, Typed
<1>2. Active(p) /\ run'[p].cmd = run[p].cmd /\ ~At(p, {"running", "unmount", "rmdir"})
  BY DEF Acting, Stands, Active, At, Holding, InStorage, Over
<1>3. ~At(p, {"made", "ready", "running"})'
  BY DEF Acting
<1>4. /\ \A q \in Shards : MountsOf(q)'
      /\ Careful => \A q \in Shards : AloneOf(q)' /\ RunsOf(q)'
      /\ Thorough => \A q \in Shards : SeenOf(q)'
  BY <1>1, <1>2, <1>3, ActingKeeps
<1>5. QED
  BY <1>4 DEF InParts

\* A launcher goes on to wait for the lock of ch-image's storage, or leaves a tree where it
\* is: it has the locks it had, and the cache stays as it is.
LEMMA GoesOn ==
  ASSUME InParts, NEW p \in Shards, Confirm(p) \/ LeaveTree(p)
  PROVE  InParts'
<1>1. /\ At(p, Holding) /\ run \in [Shards -> Entries]
      /\ UNCHANGED <<built, storage, exports, tmp, dirLock, storageLock, mounts, finished>>
  BY DEF Confirm, LeaveTree, ToRemove, cache, At, Holding, InStorage, InParts, Typed
<1>2. /\ Only(p) /\ Stands(p)
      /\ run'[p].at = run[p].at \/ (run[p].at = "want" /\ run'[p].at = "waiting")
      /\ \A x \in run'[p].left : x \in run[p].left \/ UsableRemains \/ ~exports[x].ready
  <2>1. CASE Confirm(p)
    BY <1>1, <2>1, GoFacts DEF Confirm, At, Places, Holding, Over
  <2>2. CASE LeaveTree(p)
    <3>1. PICK x \in ToRemove(p) : /\ UsableRemains \/ ~exports[x].ready
                                   /\ run' = [run EXCEPT ![p].left = @ \cup {x}]
      BY <2>2 DEF LeaveTree
    <3> DEFINE e == [run[p] EXCEPT !.left = run[p].left \cup {x}]
    <3>2. run[p] \in Entries
      BY <1>1
    <3>3. /\ e \in Entries /\ e.at = run[p].at /\ e.cmd = run[p].cmd /\ e.format = run[p].format
          /\ e.fell = run[p].fell /\ e.seen = run[p].seen /\ e.left = run[p].left \cup {x}
      BY <3>1, <3>2 DEF Entries, ToRemove
    <3>4. run' = [run EXCEPT ![p] = e]
      BY <1>1, <3>1, <3>2 DEF Entries
    <3> HIDE DEF e
    <3>5. QED
      BY <1>1, <3>1, <3>3, <3>4, EntryChanges DEF Stands
  <2>3. QED
    BY <2>1, <2>2
<1>3. /\ At(p, Holding)' /\ (At(p, InStorage)' <=> At(p, InStorage))
      /\ At(p, {"converting", "place"})' <=> At(p, {"converting", "place"})
      /\ At(p, {"sweep", "place"})' <=> At(p, {"sweep", "place"})
      /\ At(p, {"place"})' <=> At(p, {"place"})
      /\ At(p, {"sweep"})' <=> At(p, {"sweep"})
      /\ At(p, {"building"})' <=> At(p, {"building"})
      /\ At(p, {"sweep", "mount", "reap", "made"})' <=> At(p, {"sweep", "mount", "reap", "made"})
      /\ At(p, {"new", "lock", "want", "waiting", "building"})'
           <=> At(p, {"new", "lock", "want", "waiting", "building"})
      /\ ~At(p, {"made", "ready", "running"})' /\ run'[p].at # "new"
  BY <1>1, <1>2 DEF At, Holding, InStorage
<1>4. /\ LocksOf(p) /\ ImagesOf(p) /\ MakingOf(p) /\ (Careful => ForcedOf(p))
      /\ storage \in Nat /\ finished \in Nat /\ finished <= storage
  BY HasParts
<1>5. Path(p)' = Path(p) /\ (Rebuild(p)' <=> Rebuild(p)) /\ run'[p].fell = run[p].fell
  BY <1>2 DEF Path, Rebuild, Stands
<1>6. Acting(p)
  BY <1>1, <1>2, <1>3 DEF Acting
<1>7. Typed'
  BY <1>1, <1>2 DEF InParts, Typed, Only
<1>8. Locks'
  <2>1. LocksOf(p)'
    BY <1>1, <1>3, <1>4, <1>5 DEF LocksOf
  <2>2. dirLock \in [Paths -> {0} \cup Shards] /\ storageLock \in {0} \cup Shards
    BY DEF InParts, Locks
  <2>3. QED
    BY <1>1, <1>2, <2>1, <2>2, LocksMove
<1>9. ImagesInv'
  <2>1. Builders' \subseteq Builders
    BY <1>2, <1>3, <1>5, BuildersMove
  <2>2. (storage + Cardinality(Builders) <= NumShards)'
    BY <1>1, <1>4, <2>1, BuildersBound DEF InParts
  <2>3. ImagesOf(p)'
    BY <1>1, <1>3, <1>4, <1>5 DEF ImagesOf
  <2>4. QED
    BY <1>1, <1>2, <1>4, <2>2, <2>3, ImagesMove
<1>10. MakingInv'
  <2>1. MakingOf(p)'
    BY <1>1, <1>3, <1>4, <1>5 DEF MakingOf
  <2>2. QED
    BY <1>1, <1>2, <1>4, <2>1, MakingMove
<1>11. ASSUME Careful
       PROVE  ForcedInv'
  <2>1. ForcedOf(p)'
    BY <1>1, <1>2, <1>3, <1>4, <1>5, <1>11 DEF ForcedOf, Careful
  <2>2. NoOlderExport'
    BY <1>1, <1>11 DEF InParts, ForcedInv, NoOlderExport
  <2>3. Active(p)
    BY <1>1 DEF Active, At, Over, Holding, InStorage
  <2>4. QED
    BY <1>1, <1>2, <1>11, <2>1, <2>2, <2>3, ForcedMove
<1>12. ASSUME Thorough
       PROVE  RemovalInv'
  <2>1. \A x \in Paths : exports[x].ready /\ ~exports[x].whole => \E q \in Shards : Removes(q, x)
    BY <1>12, RemovalBySome DEF InParts
  <2>2. \A q \in Shards, x \in Paths : Removes(q, x)' <=> Removes(q, x)
    <3>1. \A x \in Paths : Removes(p, x)' <=> Removes(p, x)
      BY <1>3, <1>5 DEF Removes
    <3>2. \A q \in Shards \ {p}, x \in Paths : Removes(q, x)' <=> Removes(q, x)
      BY <1>2 DEF Only, Removes, Rebuild, At, Path
    <3>3. QED
      BY <3>1, <3>2
  <2>3. QED
    BY <1>1, <2>1, <2>2 DEF RemovalInv, Removes
<1>13. QED
  BY <1>1, <1>6, <1>7, <1>8, <1>9, <1>10, <1>11, <1>12, ActingStep

\* The lock of ch-image's storage is taken, and the image is there or not.
LEMMA LocksStorage ==
  ASSUME InParts, NEW p \in Shards, LockStorage(p)
  PROVE  InParts'
<1>1. /\ At(p, {"waiting"}) /\ storageLock = 0 /\ storageLock' = p
      /\ UNCHANGED <<built, storage, exports, dirLock, mounts, finished>>
  BY DEF LockStorage
<1>2. PICK place \in {"converting", "building"} :
        /\ Go(p, place)
        /\ place = "converting" => built /\ ~Rebuild(p) /\ storage # 0 /\ Convert(p, storage)
        /\ place = "building" =>
             /\ ~(built /\ ~Rebuild(p) /\ storage # 0)
             /\ tmp' = [q \in Shards |-> IF At(q, {"converting"})
                                           THEN [tmp[q] EXCEPT !.whole = FALSE] ELSE tmp[q]]
  BY DEF LockStorage
<1>3. /\ run \in [Shards -> Entries] /\ tmp \in [Shards -> Export] /\ storage \in Images
      /\ 0 \notin Shards
  BY CacheAssumption DEF InParts, Typed, Shards
<1>4. Only(p) /\ run'[p].at = place /\ Stands(p)
  BY <1>2, <1>3, GoFacts DEF Places, Holding, InStorage, Over
<1>5. /\ LocksOf(p) /\ ImagesOf(p) /\ MakingOf(p) /\ Path(p) \in Paths /\ (Careful => ForcedOf(p))
      /\ storage \in Nat /\ finished \in Nat /\ finished <= storage
  BY HasParts
<1>6. /\ Path(p)' = Path(p) /\ (Rebuild(p)' <=> Rebuild(p)) /\ run'[p].fell = run[p].fell
  BY <1>4 DEF Path, Rebuild, Stands
<1>7. Acting(p)
  BY <1>1, <1>4 DEF Acting, At, Holding, InStorage
<1>8. /\ tmp' \in [Shards -> Export] /\ \A q \in Shards \ {p} : tmp'[q] = tmp[q]
      /\ place = "converting" => tmp'[p].ready /\ tmp'[p].whole /\ tmp'[p].image = storage
  <2>1. CASE place = "converting"
    BY <1>1, <1>2, <1>3, <2>1, Converts
  <2>2. CASE place = "building"
    <3>1. \A q \in Shards : ~At(q, {"converting"})
      <4> SUFFICES ASSUME NEW q \in Shards, At(q, {"converting"})
                   PROVE  FALSE
        OBVIOUS
      <4>1. storageLock = q
        BY HasParts DEF LocksOf, At, InStorage
      <4>2. QED
        BY <1>1, <1>3, <4>1
    <3>2. tmp' = [q \in Shards |-> tmp[q]]
      BY <1>2, <2>2, <3>1
    <3>3. QED
      BY <1>3, <2>2, <3>2
  <2>3. QED
    BY <2>1, <2>2
<1>9. Typed'
  BY <1>1, <1>4, <1>8 DEF InParts, Typed, Only
<1>10. Locks'
  <2>1. LocksOf(p)'
    BY <1>1, <1>2, <1>4, <1>5, <1>6 DEF LocksOf, At, Holding, InStorage
  <2>2. dirLock \in [Paths -> {0} \cup Shards]
    BY DEF InParts, Locks
  <2>3. QED
    BY <1>1, <1>4, <2>1, <2>2, LocksMove
<1>11. ImagesInv'
  <2>1. Builders' \subseteq Builders
    BY <1>1, <1>4, <1>6, BuildersMove DEF At
  <2>2. (storage + Cardinality(Builders) <= NumShards)'
    BY <1>1, <1>5, <2>1, BuildersBound DEF InParts
  <2>3. ImagesOf(p)'
    BY <1>1, <1>2, <1>4, <1>5, <1>6 DEF ImagesOf, At, Rebuild
  <2>4. QED
    BY <1>1, <1>4, <1>5, <2>2, <2>3, ImagesMove
<1>12. MakingInv'
  <2>1. MakingOf(p)'
    BY <1>1, <1>2, <1>4, <1>5, <1>6, <1>8 DEF MakingOf, At, Holding, InStorage
  <2>2. QED
    BY <1>1, <1>4, <1>5, <1>8, <2>1, MakingMove
<1>13. ASSUME Careful
       PROVE  ForcedInv'
  <2>1. ForcedOf(p)'
    BY <1>1, <1>2, <1>4, <1>5, <1>6, <1>8 DEF ForcedOf, At
  <2>2. NoOlderExport'
    BY <1>1, <1>13 DEF InParts, ForcedInv, NoOlderExport
  <2>3. Active(p)
    BY <1>1 DEF Active, At, Over
  <2>4. QED
    BY <1>1, <1>4, <1>8, <1>13, <2>1, <2>2, <2>3, ForcedMove
<1>14. ASSUME Thorough
       PROVE  RemovalInv'
  <2>1. \A x \in Paths : ~Removes(p, x)
    BY <1>1 DEF Removes, At
  <2>2. QED
    BY <1>1, <1>4, <1>14, <2>1, RemovalMove
<1>15. QED
  BY <1>1, <1>7, <1>9, <1>10, <1>11, <1>12, <1>13, <1>14, ActingStep


\* The image is there: a forced build goes on to drop the other exports.
LEMMA ImageObtains ==
  ASSUME InParts, NEW p \in Shards, ImageObtained(p)
  PROVE  InParts'
<1>1. /\ At(p, {"building"}) /\ storage' = Obtained
      /\ UNCHANGED <<built, exports, dirLock, storageLock, mounts, finished>>
  BY DEF ImageObtained
<1>2. PICK place \in {"sweep", "converting"} :
        /\ Go(p, place)
        /\ place = "sweep" => Rebuild(p) /\ UNCHANGED tmp
        /\ place = "converting" => ~Rebuild(p) /\ Convert(p, Obtained)
  BY DEF ImageObtained
<1>3. /\ run \in [Shards -> Entries] /\ tmp \in [Shards -> Export]
  BY DEF InParts, Typed
<1>4. Only(p) /\ run'[p].at = place /\ Stands(p) /\ run'[p].left = {}
  BY <1>2, <1>3, GoFacts DEF Places, Holding, InStorage, Over
<1>5. /\ LocksOf(p) /\ MakingOf(p) /\ (Careful => ForcedOf(p))
      /\ storage \in Nat /\ finished \in Nat /\ finished <= storage
  BY HasParts
<1>6. /\ Path(p)' = Path(p) /\ (Rebuild(p)' <=> Rebuild(p)) /\ run'[p].fell = run[p].fell
  BY <1>4 DEF Path, Rebuild, Stands
<1>7. Acting(p)
  BY <1>1, <1>4 DEF Acting, At, Holding, InStorage
<1>8. /\ storage' \in Nat /\ storage' >= storage /\ storage' >= 1
      /\ (storage + Cardinality(Builders) <= NumShards)'
  BY <1>1, <1>4, Obtains DEF At
<1>9. storage' \in Images
  <2>1. Cardinality(Builders') \in Nat
    BY BuildersCount, FS_Subset, FS_CardinalityType, <1>1, <1>4, BuildersMove DEF At
  <2>2. QED
    BY <1>8, <2>1, CacheAssumption DEF Images
<1>10. /\ tmp' \in [Shards -> Export] /\ \A q \in Shards \ {p} : tmp'[q] = tmp[q]
       /\ place = "converting" => tmp'[p].ready /\ tmp'[p].whole /\ tmp'[p].image = storage'
  <2>1. CASE place = "sweep"
    BY <1>2, <1>3, <2>1
  <2>2. CASE place = "converting"
    <3>1. storageLock = p
      BY <1>1, <1>5 DEF LocksOf, At, InStorage
    <3>2. Obtained \in Images
      BY <1>1, <1>9
    <3>3. QED
      BY <1>1, <1>2, <2>2, <3>1, <3>2, Converts
  <2>3. QED
    BY <2>1, <2>2
<1>11. Typed'
  BY <1>1, <1>4, <1>9, <1>10 DEF InParts, Typed, Only
<1>12. Locks'
  <2>1. LocksOf(p)'
    BY <1>1, <1>4, <1>5, <1>6 DEF LocksOf, At, Holding, InStorage
  <2>2. dirLock \in [Paths -> {0} \cup Shards] /\ storageLock \in {0} \cup Shards
    BY DEF InParts, Locks
  <2>3. QED
    BY <1>1, <1>4, <2>1, <2>2, LocksMove
<1>13. ImagesInv'
  <2>1. ImagesOf(p)'
    BY <1>1, <1>2, <1>4, <1>6, <1>8 DEF ImagesOf, At, Rebuild
  <2>2. finished' <= storage'
    BY <1>1, <1>5, <1>8
  <2>3. QED
    BY <1>1, <1>4, <1>8, <2>1, <2>2, ImagesMove
<1>14. MakingInv'
  <2>1. MakingOf(p)'
    BY <1>1, <1>2, <1>4, <1>5, <1>6, <1>8, <1>10 DEF MakingOf, At, Holding, InStorage
  <2>2. QED
    BY <1>1, <1>4, <1>8, <1>10, <2>1, MakingMove
<1>15. ASSUME Careful
       PROVE  ForcedInv'
  <2>1. ForcedOf(p)'
    BY <1>1, <1>2, <1>4, <1>5, <1>6, <1>8, <1>10 DEF ForcedOf, At
  <2>2. NoOlderExport'
    BY <1>1, <1>15 DEF InParts, ForcedInv, NoOlderExport
  <2>3. Active(p)
    BY <1>1 DEF Active, At, Over
  <2>4. QED
    BY <1>1, <1>4, <1>10, <1>15, <2>1, <2>2, <2>3, ForcedMove
<1>16. ASSUME Thorough
       PROVE  RemovalInv'
  <2>1. \A x \in Paths : ~Removes(p, x)
    BY <1>1 DEF Removes, At
  <2>2. QED
    BY <1>1, <1>4, <1>16, <2>1, RemovalMove
<1>17. QED
  BY <1>1, <1>7, <1>11, <1>12, <1>13, <1>14, <1>15, <1>16, ActingStep

\* All other exports are gone when a forced build converts its image.
LEMMA Sweeps ==
  ASSUME InParts, NEW p \in Shards, Swept(p)
  PROVE  InParts'
<1>1. /\ At(p, {"sweep"}) /\ ToRemove(p) = {} /\ Go(p, "converting") /\ Convert(p, storage)
      /\ UNCHANGED <<built, storage, exports, dirLock, storageLock, mounts, finished>>
  BY DEF Swept
<1>2. /\ run \in [Shards -> Entries] /\ tmp \in [Shards -> Export] /\ storage \in Images
  BY DEF InParts, Typed
<1>3. Only(p) /\ run'[p].at = "converting" /\ Stands(p)
  BY <1>1, <1>2, GoFacts DEF Places, Holding, InStorage, Over
<1>4. /\ LocksOf(p) /\ ImagesOf(p) /\ MakingOf(p) /\ (Careful => ForcedOf(p))
      /\ storage \in Nat /\ finished \in Nat /\ finished <= storage
  BY HasParts
<1>5. /\ Path(p)' = Path(p) /\ (Rebuild(p)' <=> Rebuild(p)) /\ run'[p].fell = run[p].fell
  BY <1>3 DEF Path, Rebuild, Stands
<1>6. Acting(p)
  BY <1>1, <1>3 DEF Acting, At, Holding, InStorage
<1>7. /\ Rebuild(p) /\ storage # 0
      /\ Careful => \A x \in Paths \ {Path(p)} : ~exports[x].ready
  <2>1. Rebuild(p) /\ storage # 0
    BY <1>1, <1>4 DEF ImagesOf, At
  <2>2. Careful => \A x \in run[p].left : ~exports[x].ready
    BY <1>1, <1>4, <2>1 DEF ForcedOf, At
  <2>3. \A x \in Paths \ {Path(p)} : exports[x] = Absent \/ x \in run[p].left
    BY <1>1 DEF ToRemove, Stale, At
  <2>4. QED
    BY <2>1, <2>2, <2>3, NothingTyped
<1>8. /\ tmp' \in [Shards -> Export] /\ \A q \in Shards \ {p} : tmp'[q] = tmp[q]
      /\ tmp'[p].ready /\ tmp'[p].whole /\ tmp'[p].image = storage
  <2>1. storageLock = p
    BY <1>1, <1>4 DEF LocksOf, At, InStorage
  <2>2. QED
    BY <1>1, <1>2, <2>1, Converts
<1>9. Typed'
  BY <1>1, <1>3, <1>8 DEF InParts, Typed, Only
<1>10. Locks'
  <2>1. LocksOf(p)'
    BY <1>1, <1>3, <1>4, <1>5 DEF LocksOf, At, Holding, InStorage
  <2>2. dirLock \in [Paths -> {0} \cup Shards] /\ storageLock \in {0} \cup Shards
    BY DEF InParts, Locks
  <2>3. QED
    BY <1>1, <1>3, <2>1, <2>2, LocksMove
<1>11. ImagesInv'
  <2>1. Builders' \subseteq Builders
    BY <1>1, <1>3, BuildersMove DEF At
  <2>2. (storage + Cardinality(Builders) <= NumShards)'
    BY <1>1, <1>4, <2>1, BuildersBound DEF InParts
  <2>3. ImagesOf(p)'
    BY <1>1, <1>3, <1>7 DEF ImagesOf, At
  <2>4. QED
    BY <1>1, <1>3, <1>4, <2>2, <2>3, ImagesMove
<1>12. MakingInv'
  <2>1. MakingOf(p)'
    BY <1>1, <1>3, <1>4, <1>5, <1>7, <1>8 DEF MakingOf, At
  <2>2. QED
    BY <1>1, <1>3, <1>4, <1>8, <2>1, MakingMove
<1>13. ASSUME Careful
       PROVE  ForcedInv'
  <2>1. ForcedOf(p)'
    BY <1>1, <1>4, <1>5, <1>3, <1>7, <1>8, <1>13 DEF ForcedOf, At
  <2>2. NoOlderExport'
    BY <1>1, <1>13 DEF InParts, ForcedInv, NoOlderExport
  <2>3. Active(p)
    BY <1>1 DEF Active, At, Over
  <2>4. QED
    BY <1>1, <1>3, <1>8, <1>13, <2>1, <2>2, <2>3, ForcedMove
<1>14. ASSUME Thorough
       PROVE  RemovalInv'
  <2>1. \A x \in Paths : Removes(p, x) => ~exports[x].ready
    BY <1>1, <1>7, <1>14, NothingTyped DEF Removes, At, Thorough
  <2>2. QED
    BY <1>1, <1>3, <1>14, <2>1, RemovalMove
<1>15. QED
  BY <1>1, <1>6, <1>9, <1>10, <1>11, <1>12, <1>13, <1>14, ActingStep

\* The storage is left to the next launcher.
LEMMA Releases ==
  ASSUME InParts, NEW p \in Shards, Converted(p)
  PROVE  InParts'
<1>1. /\ At(p, {"converting"}) /\ storageLock' = 0 /\ Go(p, "place")
      /\ UNCHANGED <<built, storage, exports, tmp, dirLock, mounts, finished>>
  BY DEF Converted
<1>2. /\ run \in [Shards -> Entries] /\ 0 \notin Shards
  BY CacheAssumption DEF InParts, Typed, Shards
<1>3. Only(p) /\ run'[p].at = "place" /\ Stands(p) /\ run'[p].left = {}
  BY <1>1, <1>2, GoFacts DEF Places, Holding, InStorage, Over
<1>4. /\ LocksOf(p) /\ ImagesOf(p) /\ MakingOf(p) /\ (Careful => ForcedOf(p))
      /\ storage \in Nat /\ finished \in Nat /\ finished <= storage
  BY HasParts
<1>5. /\ Path(p)' = Path(p) /\ (Rebuild(p)' <=> Rebuild(p)) /\ run'[p].fell = run[p].fell
  BY <1>3 DEF Path, Rebuild, Stands
<1>6. Acting(p)
  BY <1>1, <1>3 DEF Acting, At, Holding, InStorage
<1>7. Typed'
  BY <1>1, <1>3 DEF InParts, Typed, Only
<1>8. Locks'
  <2>1. LocksOf(p)' /\ storageLock = p
    BY <1>1, <1>2, <1>3, <1>4, <1>5 DEF LocksOf, At, Holding, InStorage
  <2>2. dirLock \in [Paths -> {0} \cup Shards]
    BY DEF InParts, Locks
  <2>3. QED
    BY <1>1, <1>3, <2>1, <2>2, LocksMove
<1>9. ImagesInv'
  <2>1. Builders' \subseteq Builders
    BY <1>1, <1>3, BuildersMove DEF At
  <2>2. (storage + Cardinality(Builders) <= NumShards)'
    BY <1>1, <1>4, <2>1, BuildersBound DEF InParts
  <2>3. ImagesOf(p)'
    BY <1>1, <1>3, <1>4, <1>5 DEF ImagesOf, At
  <2>4. QED
    BY <1>1, <1>3, <1>4, <2>2, <2>3, ImagesMove
<1>10. MakingInv'
  <2>1. MakingOf(p)'
    BY <1>1, <1>3, <1>4, <1>5 DEF MakingOf, At, Holding, InStorage
  <2>2. QED
    BY <1>1, <1>3, <1>4, <2>1, MakingMove
<1>11. ASSUME Careful
       PROVE  ForcedInv'
  <2>1. ForcedOf(p)'
    BY <1>1, <1>3, <1>4, <1>5, <1>11 DEF ForcedOf, At
  <2>2. NoOlderExport'
    BY <1>1, <1>11 DEF InParts, ForcedInv, NoOlderExport
  <2>3. Active(p)
    BY <1>1 DEF Active, At, Over
  <2>4. QED
    BY <1>1, <1>3, <1>11, <2>1, <2>2, <2>3, ForcedMove
<1>12. ASSUME Thorough
       PROVE  RemovalInv'
  <2>1. \A x \in Paths : ~Removes(p, x)
    BY <1>1 DEF Removes, At
  <2>2. QED
    BY <1>1, <1>3, <1>12, <2>1, RemovalMove
<1>13. QED
  BY <1>1, <1>6, <1>7, <1>8, <1>9, <1>10, <1>11, <1>12, ActingStep


\* The new export is in its place, and its path is unlocked.
LEMMA PutsInPlace ==
  ASSUME InParts, NEW p \in Shards, Place(p)
  PROVE  InParts'
<1>1. /\ At(p, {"place"}) /\ exports[Path(p)] = Absent /\ Go(p, "mount")
      /\ exports' = [exports EXCEPT ![Path(p)] = tmp[p]]
      /\ tmp' = [tmp EXCEPT ![p] = Absent]
      /\ dirLock' = [dirLock EXCEPT ![Path(p)] = 0]
      /\ finished' = IF Rebuild(p) THEN tmp[p].image ELSE finished
      /\ UNCHANGED <<built, storage, storageLock, mounts>>
  BY DEF Place
<1>2. /\ run \in [Shards -> Entries] /\ tmp \in [Shards -> Export] /\ exports \in [Paths -> Export]
      /\ 0 \notin Shards /\ Absent \in Export /\ ~Absent.ready
  BY CacheAssumption, NothingTyped DEF InParts, Typed, Shards
<1>3. Only(p) /\ run'[p].at = "mount" /\ Stands(p)
  BY <1>1, <1>2, GoFacts DEF Places, Holding, InStorage, Over
<1>4. /\ LocksOf(p) /\ ImagesOf(p) /\ MakingOf(p) /\ (Careful => ForcedOf(p)) /\ Path(p) \in Paths
      /\ storage \in Nat /\ finished \in Nat /\ finished <= storage /\ storage <= NumShards + 1
  BY HasParts
<1>5. /\ Path(p)' = Path(p) /\ (Rebuild(p)' <=> Rebuild(p)) /\ run'[p].fell = run[p].fell
  BY <1>3 DEF Path, Rebuild, Stands
<1>6. Acting(p)
  BY <1>1, <1>3 DEF Acting, At, Holding, InStorage
<1>7. /\ tmp' \in [Shards -> Export] /\ \A q \in Shards \ {p} : tmp'[q] = tmp[q]
      /\ exports' \in [Paths -> Export] /\ \A x \in Paths \ {Path(p)} : exports'[x] = exports[x]
      /\ exports'[Path(p)] = tmp[p]
  BY <1>1, <1>2, <1>4
<1>8. tmp[p].ready /\ tmp[p].whole /\ tmp[p].image \in 1 .. storage /\ dirLock[Path(p)] = p
  BY <1>1, <1>4 DEF MakingOf, LocksOf, At, Holding
<1>9. finished' \in Nat /\ finished' <= storage
  BY <1>1, <1>4, <1>8
<1>10. Typed'
  BY <1>1, <1>3, <1>4, <1>7, <1>9, CacheAssumption DEF InParts, Typed, Only, Images
<1>11. Locks'
  <2>1. dirLock \in [Paths -> {0} \cup Shards] /\ storageLock \in {0} \cup Shards
    BY DEF InParts, Locks
  <2>2. dirLock' \in [Paths -> {0} \cup Shards] /\ dirLock'[Path(p)] = 0
        /\ \A x \in Paths \ {Path(p)} : dirLock'[x] = dirLock[x]
    BY <1>1, <1>4, <2>1
  <2>3. LocksOf(p)'
    <3>1. \A x \in Paths : dirLock'[x] # p
      BY <1>2, <1>4, <2>2 DEF LocksOf
    <3>2. ~At(p, Holding)' /\ ~At(p, InStorage)' /\ storageLock # p
      BY <1>1, <1>3, <1>4 DEF LocksOf, At, Holding, InStorage
    <3>3. QED
      BY <1>1, <3>1, <3>2 DEF LocksOf
  <2>4. \A x \in Paths : dirLock'[x] = dirLock[x] \/ {dirLock[x], dirLock'[x]} \subseteq {0, p}
    BY <1>8, <2>2
  <2>5. QED
    BY <1>1, <1>3, <2>1, <2>2, <2>3, <2>4, LocksMove
<1>12. ImagesInv'
  <2>1. Builders' \subseteq Builders
    BY <1>1, <1>3, BuildersMove DEF At
  <2>2. (storage + Cardinality(Builders) <= NumShards)'
    BY <1>1, <1>4, <2>1, BuildersBound DEF InParts
  <2>3. ImagesOf(p)'
    BY <1>1, <1>3, <1>4, <1>8 DEF ImagesOf, At
  <2>4. \A x \in Paths : exports'[x] = exports[x] \/ ExportOf(x)'
    BY <1>1, <1>7, <1>8 DEF ExportOf
  <2>5. QED
    BY <1>1, <1>3, <1>4, <1>9, <2>2, <2>3, <2>4, ImagesMove
<1>13. MakingInv'
  <2>1. MakingOf(p)'
    BY <1>3 DEF MakingOf, At, Holding, InStorage
  <2>2. \A x \in Paths : exports'[x].ready => exports[x].ready \/ dirLock[x] = p
    BY <1>7, <1>8
  <2>3. QED
    BY <1>1, <1>3, <1>4, <1>7, <2>1, <2>2, MakingMove
<1>14. ASSUME Careful
       PROVE  ForcedInv'
  <2>1. ForcedOf(p)'
    BY <1>3 DEF ForcedOf, At
  <2>2. NoOlderExport'
    <3>1. \A x \in Paths : exports[x].ready => exports[x].image >= finished
      BY <1>14 DEF InParts, ForcedInv, NoOlderExport
    <3>2. Rebuild(p) => \A x \in Paths \ {Path(p)} : ~exports[x].ready
      BY <1>1, <1>2, <1>4, <1>14 DEF ForcedOf, At
    <3>3. tmp[p].image >= finished'
      BY <1>1, <1>2, <1>4, <1>8, <1>14 DEF ForcedOf, At
    <3>4. QED
      BY <1>1, <1>7, <3>1, <3>2, <3>3 DEF NoOlderExport
  <2>3. Active(p) /\ (finished' = finished \/ Claiming(p))
    BY <1>1 DEF Active, Claiming, Rebuild, At, Over
  <2>4. QED
    BY <1>1, <1>3, <1>7, <1>14, <2>1, <2>2, <2>3, ForcedMove
<1>15. ASSUME Thorough
       PROVE  RemovalInv'
  <2>1. \A x \in Paths : Removes(p, x) => ~exports[x].ready
    BY <1>1, <1>2 DEF Removes, At
  <2>2. \A x \in Paths : exports'[x] = exports[x] \/ (exports'[x].ready => exports'[x].whole)
    BY <1>7, <1>8
  <2>3. QED
    BY <1>1, <1>3, <1>15, <2>1, <2>2, RemovalMove
<1>16. \A x \in Paths : exports'[x] = exports[x] \/ ~exports[x].ready
  BY <1>1, <1>2, <1>7
<1>17. QED
  BY <1>6, <1>10, <1>11, <1>12, <1>13, <1>14, <1>15, <1>16, ActingStep

\* A launcher that gives up or is killed leaves no lock, and nothing half removed
\* unless it may be killed there.
LEMMA Leaves ==
  ASSUME InParts, NEW p \in Shards, NEW place \in Over, Leave(p, place), Active(p),
         KillsRemovals \/ ~Removing(p), MountsKept(p),
         UNCHANGED <<built, exports, finished>>,
         storage' = storage \/ (At(p, {"building"}) /\ storage' = Obtained)
  PROVE  InParts'
<1>1. /\ dirLock' = [x \in Paths |-> IF dirLock[x] = p THEN 0 ELSE dirLock[x]]
      /\ storageLock' = IF storageLock = p THEN 0 ELSE storageLock
      /\ tmp' = [tmp EXCEPT ![p] = Absent]
      /\ Go(p, place)
  BY DEF Leave
<1>2. /\ run \in [Shards -> Entries] /\ tmp \in [Shards -> Export]
      /\ 0 \notin Shards /\ Absent \in Export
  BY CacheAssumption, NothingTyped DEF InParts, Typed, Shards
<1>3. Only(p) /\ run'[p].at = place /\ ~run'[p].fell
  BY <1>1, <1>2, GoFacts DEF Places
<1>4. /\ storage \in Nat /\ finished \in Nat /\ finished <= storage /\ storage <= NumShards + 1
  BY HasParts
<1>5. At(p, Over)' /\ ~At(p, {"new", "lock", "want", "waiting", "building"})' /\ ~At(p, Holding)' /\ ~At(p, InStorage)'
  BY <1>3 DEF At, Over, Holding, InStorage
<1>6. tmp' \in [Shards -> Export] /\ \A q \in Shards \ {p} : tmp'[q] = tmp[q]
  BY <1>1, <1>2
<1>7. /\ storage' \in Nat /\ storage' >= storage
      /\ (storage + Cardinality(Builders) <= NumShards)'
  <2>1. CASE storage' = storage
    <3>1. Builders' \subseteq Builders
      BY <1>3, <1>5, BuildersMove
    <3>2. QED
      BY <1>4, <2>1, <3>1, BuildersBound DEF InParts
  <2>2. CASE At(p, {"building"}) /\ storage' = Obtained
    BY <1>3, <1>5, <2>2, Obtains
  <2>3. QED
    BY <2>1, <2>2
<1>8. storage' \in Images
  <2>1. Cardinality(Builders') \in Nat
    BY <1>3, <1>5, BuildersMove, BuildersCount
  <2>2. QED
    BY <1>7, <2>1, CacheAssumption DEF Images
<1>9. Typed'
  BY <1>3, <1>6, <1>8 DEF InParts, Typed, Only, MountsKept
<1>10. Locks'
  <2>1. dirLock \in [Paths -> {0} \cup Shards] /\ storageLock \in {0} \cup Shards
    BY DEF InParts, Locks
  <2>2. /\ dirLock' \in [Paths -> {0} \cup Shards] /\ storageLock' \in {0} \cup Shards
        /\ \A x \in Paths : dirLock'[x] = dirLock[x] \/ {dirLock[x], dirLock'[x]} \subseteq {0, p}
        /\ storageLock' = storageLock \/ {storageLock, storageLock'} \subseteq {0, p}
        /\ storageLock' # p /\ \A x \in Paths : dirLock'[x] # p
    BY <1>1, <1>2, <2>1
  <2>3. LocksOf(p)'
    BY <1>5, <2>2 DEF LocksOf
  <2>4. QED
    BY <1>3, <2>2, <2>3, LocksMove
<1>11. ImagesInv'
  <2>1. ImagesOf(p)'
    BY <1>3 DEF ImagesOf, At, Over
  <2>2. finished' <= storage'
    BY <1>4, <1>7
  <2>3. QED
    BY <1>3, <1>7, <2>1, <2>2, ImagesMove
<1>12. MakingInv'
  <2>1. MakingOf(p)'
    BY <1>3 DEF MakingOf, At, Over, Holding, InStorage
  <2>2. QED
    BY <1>3, <1>6, <1>7, <2>1, MakingMove
<1>13. ASSUME Careful
       PROVE  ForcedInv'
  <2>1. ForcedOf(p)'
    BY <1>3 DEF ForcedOf, At, Over
  <2>2. NoOlderExport'
    BY <1>13 DEF InParts, ForcedInv, NoOlderExport
  <2>3. QED
    BY <1>3, <1>6, <1>13, <2>1, <2>2, ForcedMove
<1>14. ASSUME Thorough
       PROVE  RemovalInv'
  <2>1. /\ Rebuild(p) /\ At(p, {"sweep", "place"}) => \A x \in run[p].left : ~exports[x].ready
        /\ ~Removing(p)
    BY <1>14, HasParts DEF ForcedOf, Thorough
  <2>2. \A x \in Paths : Removes(p, x) => exports[x].whole \/ ~exports[x].ready
    BY <2>1, NothingTyped DEF Removes, Removing, ToRemove, Stale, At
  <2>3. QED
    BY <1>3, <1>14, <2>2, RemovalMove
<1>15. /\ \A q \in Shards : MountsOf(q)'
       /\ Careful => \A q \in Shards : AloneOf(q)' /\ RunsOf(q)'
       /\ Thorough => \A q \in Shards : SeenOf(q)'
  <2>1. ~At(p, {"made", "ready", "running"})'
    BY <1>3 DEF At, Over
  <2>2. QED
    BY <1>3, <1>5, <2>1, ActingKeeps
<1>16. QED
  BY <1>9, <1>10, <1>11, <1>12, <1>13, <1>14, <1>15 DEF InParts

LEMMA GivesUp ==
  ASSUME InParts, NEW p \in Shards, GiveUp(p) \/ Kill(p)
  PROVE  InParts'
<1>1. mounts \in [Shards -> MountPoints]
  BY DEF InParts, Typed
<1>2. CASE GiveUp(p)
  <2>1. /\ Leave(p, "gone") /\ ~Removing(p) /\ Active(p)
        /\ UNCHANGED <<built, storage, exports, mounts, finished>>
    BY <1>2 DEF GiveUp, Active, At, Over
  <2>2. MountsKept(p)
    BY <1>1, <2>1 DEF MountsKept
  <2>3. "gone" \in Over
    BY DEF Over
  <2>4. QED
    BY <2>1, <2>2, <2>3, Leaves
<1>3. CASE Kill(p)
  <2>1. /\ Leave(p, "killed") /\ Active(p) /\ (KillsRemovals \/ ~Removing(p))
        /\ UNCHANGED <<built, exports, finished>>
        /\ storage' = storage \/ (At(p, {"building"}) /\ storage' = Obtained)
    BY <1>3 DEF Kill
  <2>2. MountsKept(p)
    BY <1>1, <1>3 DEF MountsKept, MountPoints, Kill
  <2>3. "killed" \in Over
    BY DEF Over
  <2>4. QED
    BY <2>1, <2>2, <2>3, Leaves
<1>4. QED
  BY <1>2, <1>3


-------------------------------------------------------------------------------
(* The theorems.                                                               *)

LEMMA Initially == Init => InParts
<1> SUFFICES ASSUME Init
             PROVE  InParts
  OBVIOUS
<1>1. /\ built \in BOOLEAN /\ storage = 0 /\ finished = 0 /\ storageLock = 0
      /\ exports = [x \in Paths |-> Absent] /\ tmp = [p \in Shards |-> Absent]
      /\ dirLock = [x \in Paths |-> 0]
      /\ mounts = [p \in Shards |-> "absent"] /\ run = [p \in Shards |-> Nothing]
  BY DEF Init
<1>2. 0 \notin Shards /\ NumShards \in Nat /\ Cardinality(Shards) = NumShards
  BY CacheAssumption, FS_Interval DEF Shards
<1>3. Nothing \in Entries /\ Nothing.at = "new" /\ ~Nothing.fell
  BY NothingTyped DEF Nothing
<1>4. \A p \in Shards : run[p].at = "new" /\ ~run[p].fell
  BY <1>1, <1>3
<1>5. Typed
  BY <1>1, <1>2, <1>3, NothingTyped DEF Typed, Images, MountPoints
<1>6. Locks
  BY <1>1, <1>2, <1>4 DEF Locks, LocksOf, At, Holding, InStorage
<1>7. ImagesInv
  <2>1. Builders = Shards
    BY <1>4 DEF Builders, At
  <2>2. \A x \in Paths : ~exports[x].ready /\ ~exports[x].whole
    BY <1>1, NothingTyped
  <2>3. QED
    BY <1>1, <1>2, <1>4, <2>1, <2>2 DEF ImagesInv, At
<1>8. MakingInv
  BY <1>4 DEF MakingInv, At, Holding, InStorage
<1>9. \A p \in Shards : MountsOf(p) /\ AloneOf(p) /\ RunsOf(p) /\ SeenOf(p)
  BY <1>4 DEF MountsOf, AloneOf, RunsOf, SeenOf, Claiming, Active, At
<1>10. ForcedInv /\ RemovalInv
  <2>1. \A x \in Paths : ~exports[x].ready
    BY <1>1, NothingTyped
  <2>2. QED
    BY <1>4, <2>1 DEF ForcedInv, RemovalInv, NoOlderExport, At
<1>11. QED
  BY <1>5, <1>6, <1>7, <1>8, <1>9, <1>10 DEF InParts

LEMMA StepKeeps ==
  ASSUME InParts, [Next]_vars
  PROVE  InParts'
<1>1. CASE UNCHANGED vars
  BY <1>1 DEF vars, InParts, Typed, Locks, LocksOf, ImagesInv, Builders, MakingInv, MountsOf,
     AloneOf, Claiming, Active, RunsOf, SeenOf, ForcedInv, NoOlderExport, RemovalInv, Rebuild,
     At, Path, Squash
<1>2. ASSUME NEW p \in Shards, Start(p) \/ Step(p) \/ Finish(p) \/ Kill(p) \/ Age(p)
      PROVE  InParts'
  <2>1. CASE Start(p)
    BY <2>1, Starts, OutsideKeeps
  <2>2. CASE Use(p) \/ ReapLook(p) \/ ReapAct(p) \/ MakeMountPoint(p)
    BY <2>2, Prepares, OutsideKeeps
  <2>3. CASE Mount(p) \/ MountFails(p) \/ Launch(p)
    BY <2>3, Launches, OutsideKeeps
  <2>4. CASE Finish(p) \/ Unmount(p) \/ RemoveMountPoint(p) \/ Age(p)
    BY <2>4, Finishes, OutsideKeeps
  <2>5. CASE Sweep(p) \/ RemoveOld(p)
    BY <2>5, Removals
  <2>6. CASE LockPath(p) \/ Confirm(p) \/ LockStorage(p) \/ ImageObtained(p)
    BY <2>6, LocksPath, GoesOn, LocksStorage, ImageObtains
  <2>7. CASE LeaveTree(p) \/ Swept(p) \/ Converted(p) \/ Place(p)
    BY <2>7, GoesOn, Sweeps, Releases, PutsInPlace
  <2>8. CASE GiveUp(p) \/ Kill(p)
    BY <2>8, GivesUp
  <2>9. QED
    BY <1>2, <2>1, <2>2, <2>3, <2>4, <2>5, <2>6, <2>7, <2>8 DEF Step
<1>3. QED
  BY <1>1, <1>2 DEF Next

\* The inductive invariant holds, for every number of launchers, every set of command
\* lines and whatever is killed (ensure_image_dir, mount_image, reap_stale_mounts).
THEOREM CacheInvariant == Spec => []CacheInv
<1>1. Init => CacheInv
  BY Initially, Parts
<1>2. CacheInv /\ [Next]_vars => CacheInv'
  <2>1. CacheInv' <=> InParts'
    BY Parts, PTL
  <2>2. QED
    BY <2>1, Parts, StepKeeps
<1>3. QED
  BY <1>1, <1>2, PTL DEF Spec

\* Values keep their types, a path's lock is held by a launcher that makes the export
\* of that path, and the storage's by one at work in it (ensure_image_dir).
THEOREM TypeCorrect == Spec => []TypeOK
<1>1. CacheInv => TypeOK
  BY DEF CacheInv
<1>2. QED
  BY <1>1, CacheInvariant, PTL

\* When --build is used as documented, nobody is killed while it removes a tree, and a
\* tree that cannot be removed is at least no longer usable, an evaluation has a whole image under it, and keeps that one while it runs (ensure_image_dir,
\* mount_image).
THEOREM RunsKeep ==
  ASSUME Apart, ~KillsRemovals, ~UsableRemains
  PROVE  Spec => []RunsKeepTheirImage
<1>1. CacheInv => RunsKeepTheirImage
  <2> SUFFICES ASSUME CacheInv, NEW p \in Shards
               PROVE  /\ At(p, {"running"}) =>
                           /\ run[p].seen.image # 0 /\ run[p].seen.whole
                           /\ IF Squash(p) THEN mounts[p] = "live" ELSE exports[Path(p)] = run[p].seen
                      /\ At(p, {"made"}) => mounts[p] = "young"
    BY DEF RunsKeepTheirImage
  <2>1. InParts
    BY Parts
  <2>2. MountsOf(p) /\ RunsOf(p) /\ SeenOf(p) /\ Path(p) \in Paths
    BY <2>1, HasParts DEF InParts, Careful, Thorough
  <2>3. At(p, {"running"}) /\ ~Squash(p) => run[p].seen.image # 0
    <3>1. \A x \in Paths : ExportOf(x) /\ storage \in Nat
      BY <2>1, HasParts
    <3>2. QED
      BY <2>2, <3>1 DEF RunsOf, ExportOf
  <2>4. At(p, {"running"}) => At(p, {"ready", "running"})
    BY DEF At
  <2>5. QED
    BY <2>2, <2>3, <2>4 DEF MountsOf, RunsOf, SeenOf
<1>2. QED
  BY <1>1, CacheInvariant, PTL

\* When --build is used as documented, and a tree that cannot be removed is at least no
\* longer usable, no export older than the last forced build that
\* came to its end is ever taken from the cache, and here no kill matters.
THEOREM NoOlder ==
  ASSUME Apart, ~UsableRemains
  PROVE  Spec => []NoOlderExport
<1>1. CacheInv => NoOlderExport
  BY DEF CacheInv, AloneInv, Careful
<1>2. QED
  BY <1>1, CacheInvariant, PTL

=============================================================================
