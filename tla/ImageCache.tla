------------------------------ MODULE ImageCache ------------------------------
(* The cache of Charliecloud exports of one image, and the launchers that    *)
(* share it (cli/_charliecloud.py): several `vla-eval run` processes of one   *)
(* user each find or make the export they need, mount it when it is a         *)
(* SquashFS file, run the evaluation in it and release the mount.             *)
(*                                                                           *)
(* An export is kept per path: the host driver injected or not (gpu), and the *)
(* format. A path is prepared under its own lock, ch-image's storage is used  *)
(* under a second one, and both are flocks, which go with the process.        *)
(* Images are numbered in the order they are built; 0 is no image.            *)
EXTENDS Naturals, FiniteSets

CONSTANTS
  NumShards,     \* launchers, which start in the order of their numbers
  Commands,      \* the command lines and hosts they may have
  MaxKilled,     \* bound: launchers that are killed
  Apart,         \* --build is not forced while another run of the image is active
  KillsRemovals, \* a launcher may be killed while it removes a directory tree
  UsableRemains  \* what rmtree, which ignores its errors, leaves may look usable

\* gpu: with the driver; force: --build; packer, fuse: the tools to pack and to mount.
CommandLines == [gpu : BOOLEAN, format : {"auto", "dir", "squashfs"},
                 force : BOOLEAN, packer : BOOLEAN, fuse : BOOLEAN]

ASSUME CacheAssumption ==
  /\ NumShards \in Nat \ {0} /\ MaxKilled \in Nat
  /\ Apart \in BOOLEAN /\ KillsRemovals \in BOOLEAN /\ UsableRemains \in BOOLEAN
  /\ Commands \subseteq CommandLines /\ Commands # {}

Shards == 1 .. NumShards
Images == 0 .. NumShards + 1
Paths  == BOOLEAN \X {"dir", "squashfs"}

\* What a path holds: `ready` is the test for a usable export, `whole` is not tested.
Export == [image : Images, ready : BOOLEAN, whole : BOOLEAN]
Absent == [image |-> 0, ready |-> FALSE, whole |-> FALSE]

VARIABLES
  built,        \* the configuration has docker.build: images are built, not pulled
  storage,      \* the image ch-image's storage holds
  exports,      \* path -> what is there
  tmp,          \* launcher -> the export it is making
  dirLock,      \* path -> who holds its lock, 0 for nobody
  storageLock,  \* who holds the lock of ch-image's storage
  mounts,       \* launcher -> its mount point: absent, young or old (empty), live, dead
  run,          \* launcher -> where it is, and what it has decided
  finished      \* the image of the last forced build that came to its end

vars == <<built, storage, exports, tmp, dirLock, storageLock, mounts, run, finished>>
cache == <<storage, exports, tmp, dirLock, storageLock, finished>>

Over    == {"gone", "killed"}
InStorage == {"building", "sweep", "converting"}
Holding   == {"want", "waiting", "place"} \cup InStorage
Places  == {"new", "lock", "mount", "reap", "made", "ready", "running", "unmount", "rmdir"}
             \cup Holding \cup Over

At(p, places) == run[p].at \in places
Path(p)   == <<run[p].cmd.gpu, run[p].format>>
Squash(p) == run[p].format = "squashfs"
\* The directory fallback of a forced run does not build again.
Rebuild(p) == run[p].cmd.force /\ ~run[p].fell
Active(p) == ~At(p, Over \cup {"new"})

\* A launcher that has not started; one that is over has nothing left to remember.
Nothing == [at |-> "new", cmd |-> CHOOSE c \in Commands : TRUE, format |-> "dir",
            fell |-> FALSE, left |-> {}, todo |-> {}, look |-> 0, saw |-> "absent", seen |-> Absent]

Go(p, place) ==
  run' = [run EXCEPT ![p] = IF place \in Over THEN [Nothing EXCEPT !.at = place]
                            ELSE [@ EXCEPT !.at = place, !.left = {}]]

Init ==
  /\ built \in BOOLEAN
  /\ storage = 0 /\ finished = 0 /\ storageLock = 0
  /\ exports = [x \in Paths |-> Absent]
  /\ tmp = [p \in Shards |-> Absent]
  /\ dirLock = [x \in Paths |-> 0]
  /\ mounts = [p \in Shards |-> "absent"]
  /\ run = [p \in Shards |-> Nothing]

\* The format is chosen before anything is prepared; `auto` takes a cached SquashFS
\* file without the packer.
FormatOf(c) ==
  IF c.format # "auto" THEN c.format
  ELSE IF c.fuse /\ (c.packer \/ (~c.force /\ exports[<<c.gpu, "squashfs">>].ready))
    THEN "squashfs" ELSE "dir"

\* --build asks for nothing where there is no docker.build.
Start(p) ==
  /\ At(p, {"new"}) /\ \A q \in 1 .. p - 1 : ~At(q, {"new"})
  /\ Apart => \A q \in Shards : Active(q) /\ run[q].cmd.force
                                  => At(q, {"running", "unmount", "rmdir"})
  /\ \E asked \in Commands :
       LET c == [asked EXCEPT !.force = @ /\ built] IN
       /\ Apart /\ c.force => \A q \in Shards : ~Active(q)
       /\ IF c.format = "squashfs" /\ ~c.fuse THEN Go(p, "gone")
          ELSE run' = [run EXCEPT ![p].cmd = c, ![p].format = FormatOf(c), ![p].at = "lock"]
  /\ UNCHANGED <<built, cache, mounts>>

(* Finding or making the export. *)

\* Mutant: the lock of the path is a shared one.
LockPathShared(p) ==
  /\ At(p, {"lock"})
  /\ IF exports[Path(p)].ready /\ ~Rebuild(p)
       THEN Go(p, "mount") /\ UNCHANGED dirLock
       ELSE Go(p, "want") /\ dirLock' = [dirLock EXCEPT ![Path(p)] = p]
  /\ UNCHANGED <<built, storage, exports, tmp, storageLock, mounts, finished>>

\* Under the lock of the path, a cached export is taken as it is.
LockPath(p) ==
  /\ At(p, {"lock"}) /\ dirLock[Path(p)] = 0
  /\ IF exports[Path(p)].ready /\ ~Rebuild(p)
       THEN Go(p, "mount") /\ UNCHANGED dirLock
       ELSE Go(p, "want") /\ dirLock' = [dirLock EXCEPT ![Path(p)] = p]
  /\ UNCHANGED <<built, storage, exports, tmp, storageLock, mounts, finished>>

\* ch-convert copies the image out of the storage into the temporary path; with a
\* pull or build under way there it copies a mixture.
Convert(p, image) ==
  tmp' = [tmp EXCEPT ![p] = [image |-> image, ready |-> TRUE,
                             whole |-> \A q \in Shards \ {p} : ~At(q, {"building"})]]

\* The user has confirmed and the tools are there.
Confirm(p) ==
  /\ At(p, {"want"}) /\ (Squash(p) => run[p].cmd.packer)
  /\ Go(p, "waiting")
  /\ UNCHANGED <<built, cache, mounts>>

\* The lock of the storage is waited for as long as it takes; then the image is in the
\* storage already, or it is pulled or built.
LockStorage(p) ==
  /\ At(p, {"waiting"}) /\ storageLock = 0
  /\ storageLock' = p
  /\ IF built /\ ~Rebuild(p) /\ storage # 0
       THEN Go(p, "converting") /\ Convert(p, storage)
       ELSE /\ Go(p, "building")
            /\ tmp' = [q \in Shards |-> IF At(q, {"converting"})
                                          THEN [tmp[q] EXCEPT !.whole = FALSE] ELSE tmp[q]]
  /\ UNCHANGED <<built, storage, exports, dirLock, mounts, finished>>

\* A build makes a new image; the image to pull is pinned.
Obtained == IF built \/ storage = 0 THEN storage + 1 ELSE storage

ImageObtained(p) ==
  /\ At(p, {"building"})
  /\ storage' = Obtained
  /\ IF Rebuild(p) THEN Go(p, "sweep") /\ UNCHANGED tmp
     ELSE Go(p, "converting") /\ Convert(p, Obtained)
  /\ UNCHANGED <<built, exports, dirLock, storageLock, mounts, finished>>

\* A step of removing what is at x: a file goes at once, of a tree first some files,
\* the one that marks it ready among them or not, and then the rest.
Remove(x) ==
  IF x[2] = "dir" /\ exports[x].whole
    THEN \E r \in BOOLEAN :
           exports' = [exports EXCEPT ![x].whole = FALSE, ![x].ready = r]
    ELSE exports' = [exports EXCEPT ![x] = Absent]

\* Mutant: only the exports of the same format are dropped.
StaleOfFormat(p) == {x \in Paths \ {Path(p)} : x[2] = run[p].format /\ exports[x] # Absent}

\* A forced build drops the other exports of the image, directories first.
Stale(p) == {x \in Paths \ {Path(p)} : exports[x] # Absent}

\* What p is to remove, less the trees it could not remove.
ToRemove(p) ==
  {x \in Paths \ run[p].left :
     \/ At(p, {"sweep"}) /\ x \in Stale(p)
     \/ At(p, {"place"}) /\ x = Path(p) /\ exports[x] # Absent}

Sweep(p) ==
  /\ At(p, {"sweep"})
  /\ \E x \in ToRemove(p) :
       /\ x[2] = "squashfs" => \A y \in ToRemove(p) : y[2] = "squashfs"
       /\ Remove(x)
  /\ UNCHANGED <<built, storage, tmp, dirLock, storageLock, mounts, run, finished>>

\* rmtree returns with a tree, or some of it, still there.
LeaveTree(p) ==
  /\ \E x \in ToRemove(p) :
       /\ x[2] = "dir" /\ (UsableRemains \/ ~exports[x].ready)
       /\ run' = [run EXCEPT ![p].left = @ \cup {x}]
  /\ UNCHANGED <<built, cache, mounts>>

Swept(p) ==
  /\ At(p, {"sweep"}) /\ ToRemove(p) = {}
  /\ Go(p, "converting") /\ Convert(p, storage)
  /\ UNCHANGED <<built, storage, exports, dirLock, storageLock, mounts, finished>>

\* Mutant: the lock of the storage goes with the process only.
ConvertedInStorage(p) ==
  /\ At(p, {"converting"})
  /\ Go(p, "place")
  /\ UNCHANGED <<built, cache, mounts>>

Converted(p) ==
  /\ At(p, {"converting"})
  /\ storageLock' = 0 /\ Go(p, "place")
  /\ UNCHANGED <<built, storage, exports, tmp, dirLock, mounts, finished>>

\* The driver is injected and the tree packed in the temporary path; then what is in
\* the place of the export is removed and the new one renamed.
RemoveOld(p) ==
  /\ At(p, {"place"})
  /\ \E x \in ToRemove(p) : Remove(x)
  /\ UNCHANGED <<built, storage, tmp, dirLock, storageLock, mounts, run, finished>>

Place(p) ==
  /\ At(p, {"place"}) /\ exports[Path(p)] = Absent
  /\ exports' = [exports EXCEPT ![Path(p)] = tmp[p]]
  /\ tmp' = [tmp EXCEPT ![p] = Absent]
  /\ dirLock' = [dirLock EXCEPT ![Path(p)] = 0]
  /\ finished' = IF Rebuild(p) THEN tmp[p].image ELSE finished
  /\ Go(p, "mount")
  /\ UNCHANGED <<built, storage, storageLock, mounts>>

\* Mutant: the lock of the path is a file that the process would have to remove.
LeaveLocked(p, place) ==
  /\ storageLock' = IF storageLock = p THEN 0 ELSE storageLock
  /\ tmp' = [tmp EXCEPT ![p] = Absent]
  /\ Go(p, place)
  /\ UNCHANGED dirLock

\* The process is over: its locks go, and with a failure its temporary tree.
Leave(p, place) ==
  /\ dirLock' = [x \in Paths |-> IF dirLock[x] = p THEN 0 ELSE dirLock[x]]
  /\ storageLock' = IF storageLock = p THEN 0 ELSE storageLock
  /\ tmp' = [tmp EXCEPT ![p] = Absent]
  /\ Go(p, place)

Removing(p) == \E x \in ToRemove(p) : ~exports[x].whole

\* The user declines the pull, a tool is not there or fails, the lock file of the storage
\* cannot be opened, a file cannot be removed, or the rename fails, as it does on a tree
\* that remains. A launcher that waits for a lock does not give up.
GiveUp(p) ==
  /\ At(p, {"want", "building", "sweep", "converting", "place"}) /\ ~Removing(p)
  /\ Leave(p, "gone")
  /\ UNCHANGED <<built, storage, exports, mounts, finished>>

(* Mounting, running, releasing. *)

\* The export found is used where it is when it is a directory; it must still be
\* there. Otherwise the mount points in the temporary directory are listed.
Use(p) ==
  /\ At(p, {"mount"})
  /\ IF Squash(p)
       THEN run' = [run EXCEPT ![p].at = "reap", ![p].todo = {q \in Shards : mounts[q] # "absent"}]
       ELSE Go(p, IF exports[Path(p)] # Absent THEN "ready" ELSE "gone")
  /\ UNCHANGED <<built, cache, mounts>>

\* reap_stale_mounts reads one mount point, and then acts on what it read: a live one
\* is left, a dead one unmounted, an empty one removed if it is old. rmdir refuses a
\* directory that is mounted by then.
ReapLook(p) ==
  /\ At(p, {"reap"}) /\ run[p].look = 0
  /\ \E q \in run[p].todo :
       run' = [run EXCEPT ![p].todo = @ \ {q}, ![p].look = q, ![p].saw = mounts[q]]
  /\ UNCHANGED <<built, cache, mounts>>

Reaped(saw, now) ==
  IF (saw = "dead" /\ now = "dead") \/ (saw \in {"young", "old"} /\ now = "old")
    THEN "absent" ELSE now

ReapAct(p) ==
  /\ At(p, {"reap"}) /\ run[p].look # 0
  /\ mounts' = [mounts EXCEPT ![run[p].look] = Reaped(run[p].saw, @)]
  /\ run' = [run EXCEPT ![p].look = 0, ![p].saw = "absent"]
  /\ UNCHANGED <<built, cache>>

MakeMountPoint(p) ==
  /\ At(p, {"reap"}) /\ run[p].look = 0 /\ run[p].todo = {}
  /\ mounts' = [mounts EXCEPT ![p] = "young"]
  /\ Go(p, "made")
  /\ UNCHANGED <<built, cache>>

\* The mounted file stays what it is when its path is removed.
Mount(p) ==
  /\ At(p, {"made"}) /\ mounts[p] = "young" /\ exports[Path(p)].ready
  /\ mounts' = [mounts EXCEPT ![p] = "live"]
  /\ run' = [run EXCEPT ![p].at = "ready", ![p].seen = exports[Path(p)]]
  /\ UNCHANGED <<built, cache>>

\* A mount that fails makes `auto` fall back on a directory export.
FallBack(p) ==
  run' = [run EXCEPT ![p].at = "lock", ![p].format = "dir", ![p].fell = TRUE]

MountFails(p) ==
  /\ At(p, {"made"})
  /\ mounts' = [mounts EXCEPT ![p] = "absent"]
  /\ IF run[p].cmd.format = "auto" THEN FallBack(p) ELSE Go(p, "gone")
  /\ UNCHANGED <<built, cache>>

\* ch-run is given the metadata of the export; without it the launcher fails.
Launch(p) ==
  /\ At(p, {"ready"})
  /\ IF Squash(p) THEN Go(p, "running")
     ELSE IF exports[Path(p)].ready
       THEN run' = [run EXCEPT ![p].at = "running", ![p].seen = exports[Path(p)]]
       ELSE Go(p, "gone")
  /\ UNCHANGED <<built, cache, mounts>>

\* The evaluation ends, or the launcher stops it on SIGTERM, SIGHUP or an interrupt.
Finish(p) ==
  /\ At(p, {"running"})
  /\ Go(p, IF Squash(p) THEN "unmount" ELSE "gone")
  /\ UNCHANGED <<built, cache, mounts>>

\* The mount point is left as old as it was made. One that cannot be unmounted stays.
Unmount(p) ==
  /\ At(p, {"unmount"})
  /\ \E left \in {"young", "old", "live"} : mounts' = [mounts EXCEPT ![p] = left]
  /\ Go(p, "rmdir")
  /\ UNCHANGED <<built, cache>>

RemoveMountPoint(p) ==
  /\ At(p, {"rmdir"})
  /\ mounts' = [mounts EXCEPT ![p] = IF @ = "live" THEN @ ELSE "absent"]
  /\ Go(p, "gone")
  /\ UNCHANGED <<built, cache>>

(* What the launchers do not choose. *)

\* SIGKILL, with the tools it runs: its locks go and what it mounted stays, dead or
\* not. Killed in a pull or build it leaves the image before or after.
Kill(p) ==
  /\ Active(p) /\ Cardinality({q \in Shards : At(q, {"killed"})}) < MaxKilled
  /\ KillsRemovals \/ ~Removing(p)
  /\ Leave(p, "killed")
  /\ storage' \in (IF At(p, {"building"}) THEN {storage, Obtained} ELSE {storage})
  /\ \E left \in {"live", "dead"} :
       mounts' = [mounts EXCEPT ![p] = IF @ = "live" THEN left ELSE @]
  /\ UNCHANGED <<built, exports, finished>>

\* A mount point nobody is about to mount gets older than min_age_s.
Age(p) ==
  /\ mounts[p] = "young" /\ At(p, Over \cup {"rmdir"})
  /\ mounts' = [mounts EXCEPT ![p] = "old"]
  /\ UNCHANGED <<built, cache, run>>

\* What a launcher does by itself; an evaluation ends when it likes.
Step(p) ==
  \/ LockPath(p) \/ Confirm(p) \/ LockStorage(p) \/ ImageObtained(p)
  \/ Sweep(p) \/ LeaveTree(p) \/ Swept(p) \/ Converted(p) \/ RemoveOld(p) \/ Place(p) \/ GiveUp(p)
  \/ Use(p) \/ ReapLook(p) \/ ReapAct(p) \/ MakeMountPoint(p) \/ Mount(p) \/ MountFails(p)
  \/ Launch(p) \/ Unmount(p) \/ RemoveMountPoint(p)

Next == \E p \in Shards : Start(p) \/ Step(p) \/ Finish(p) \/ Kill(p) \/ Age(p)

\* Launchers run: one that can take a step is not stopped for ever.
Spec == Init /\ [][Next]_vars /\ WF_vars(\E p \in Shards : Step(p))
-------------------------------------------------------------------------------

\* The values, and who holds which lock where (ensure_image_dir's two with blocks).
TypeOK ==
  /\ built \in BOOLEAN /\ storage \in Images /\ finished \in Images
  /\ exports \in [Paths -> Export] /\ tmp \in [Shards -> Export]
  /\ mounts \in [Shards -> {"absent", "young", "old", "live", "dead"}]
  /\ run \in [Shards -> [at : Places, cmd : CommandLines, format : {"dir", "squashfs"},
                         fell : BOOLEAN, left : SUBSET Paths, todo : SUBSET Shards,
                         look : Shards \cup {0},
                         saw : {"absent", "young", "old", "live", "dead"}, seen : Export]]
  /\ \A x \in Paths : dirLock[x] \in {0} \cup {p \in Shards : At(p, Holding) /\ Path(p) = x}
  /\ storageLock \in {0} \cup {p \in Shards : At(p, InStorage)}

\* A run has a whole image under it and keeps that image for as long as it runs:
\* nobody replaces or removes the directory (ensure_image_dir), nor takes the mount
\* or the mount point away (reap_stale_mounts), if --build is used as documented and what
\* a removal leaves does not look usable.
RunsKeepTheirImage ==
  \A p \in Shards :
    /\ At(p, {"running"}) =>
         /\ run[p].seen.image # 0 /\ run[p].seen.whole
         /\ IF Squash(p) THEN mounts[p] = "live" ELSE exports[Path(p)] = run[p].seen
    /\ At(p, {"made"}) => mounts[p] = "young"

\* "--build invalidates the image's other cached exports" (docs/runtimes.md): once a
\* forced build is through, no export of an older image is ever taken from the cache,
\* in no format, for no driver, and after no kill, failure or fallback.
NoOlderExport ==
  \A x \in Paths : exports[x].ready => exports[x].image >= finished

\* No launcher stays for ever between its start and its evaluation: each gets the two
\* locks it waits for (flock in ensure_image_dir and _open_storage_lock, neither with a
\* timeout), and then it runs or fails, whoever is killed, falls back, forces a build or
\* cannot remove a tree, and however long an evaluation takes.
NobodyHangs ==
  <>[](\A p \in Shards : At(p, {"new", "running", "unmount", "rmdir"} \cup Over))

-------------------------------------------------------------------------------
(* The inductive invariant behind RunsKeepTheirImage and NoOlderExport.        *)

\* --build is used as documented, and no removal that fails leaves a usable export,
Careful == Apart /\ ~UsableRemains
\* nor does one whose launcher is killed.
Thorough == Careful /\ ~KillsRemovals

\* Launchers that may still make the image in the storage a newer one.
Builders == {p \in Shards : At(p, {"new", "lock", "want", "waiting", "building"}) /\ ~run[p].fell}

\* A launcher has the locks it went by.
LocksInv ==
  /\ dirLock \in [Paths -> {0} \cup Shards]
  /\ \A p \in Shards : At(p, Holding) => dirLock[Path(p)] = p
  /\ \A p \in Shards : At(p, InStorage) => storageLock = p

\* The storage is never behind an export, and there are images enough to number.
ImagesInv ==
  /\ storage + Cardinality(Builders) <= NumShards
  /\ finished <= storage
  /\ \A p \in Shards : run[p].fell \/ At(p, {"sweep", "mount", "reap", "made"}) => storage # 0
  /\ \A p \in Shards : run[p].fell /\ At(p, {"building"}) => ~built
  /\ \A p \in Shards : At(p, {"sweep"}) => Rebuild(p)
  /\ \A x \in Paths : exports[x].ready => exports[x].image \in 1 .. storage
  /\ \A x \in Paths : exports[x].whole => exports[x].ready

\* A launcher converts and places a whole image; but for a forced build it places
\* it where no usable export is.
MakingInv ==
  /\ \A p \in Shards : At(p, {"converting", "place"}) =>
       tmp[p].ready /\ tmp[p].whole /\ tmp[p].image \in 1 .. storage
  /\ \A p \in Shards : At(p, Holding) /\ ~Rebuild(p) => ~exports[Path(p)].ready

\* What no other launcher takes from one that mounts or runs.
MountsInv ==
  \A p \in Shards :
    /\ At(p, {"made"}) => mounts[p] = "young"
    /\ At(p, {"ready", "running"}) /\ Squash(p) => mounts[p] = "live" /\ run[p].seen.image # 0

\* A forced run is alone until its evaluation runs, so that it alone replaces or
\* drops usable exports, all others of them before it places its own; what it could not
\* remove is not usable.
AloneInv ==
  /\ \A p \in Shards : run[p].cmd.force /\ Active(p) /\ ~At(p, {"running", "unmount", "rmdir"})
       => \A q \in Shards \ {p} : ~Active(q)
  /\ \A p \in Shards : Rebuild(p) /\ At(p, {"converting", "place"})
       => \A x \in Paths \ {Path(p)} : ~exports[x].ready
  /\ \A p \in Shards : Rebuild(p) /\ At(p, {"sweep", "place"})
       => \A x \in run[p].left : ~exports[x].ready
  /\ \A p \in Shards : At(p, {"converting", "place"}) => tmp[p].image >= finished
  /\ NoOlderExport
  /\ \A p \in Shards : At(p, {"running"}) /\ ~Squash(p) =>
       exports[Path(p)] = run[p].seen /\ run[p].seen.ready

\* An export that only looks usable is one that a forced build is removing.
RemovalInv ==
  \A x \in Paths : exports[x].ready /\ ~exports[x].whole =>
    \E p \in Shards : Rebuild(p) /\ ( \/ At(p, {"place"}) /\ x = Path(p)
                                      \/ At(p, {"sweep"}) /\ x # Path(p) )

\* What was whole when it was mounted or launched.
SeenInv ==
  \A p \in Shards :
    (At(p, {"ready"}) /\ Squash(p)) \/ At(p, {"running"}) => run[p].seen.whole

CacheInv ==
  /\ TypeOK /\ LocksInv /\ ImagesInv /\ MakingInv /\ MountsInv
  /\ Careful => AloneInv
  /\ Thorough => RemovalInv /\ SeenInv
===============================================================================
