--------------------------- MODULE RamCheckpoint ----------------------------
(***************************************************************************)
(* utils/ram_checkpoint.py: incremental snapshots of a task directory in   *)
(* RAM to a store that outlives the node.  A commit archives the files that*)
(* changed since the last commit of this directory, publishes the archive  *)
(* as a bundle, and only then moves latest.json to a chain of bundles that *)
(* ends with it.  A new owner replays the chain.                           *)
(*                                                                         *)
(* A version of a file stands for its content and for the size and mtime   *)
(* files() compares: a write is taken to change them.                      *)
(***************************************************************************)
EXTENDS Naturals, Sequences

CONSTANTS
    Path,
    MaxWrites,   \* bound on the versions the task writes
    MaxCommits,  \* bound on the generations begun
    MaxLosses,   \* bound on lost nodes, owners and restores
    Absent       \* no file, no value

ASSUME BoundsAssumption ==
    MaxWrites \in Nat /\ MaxCommits \in Nat /\ MaxLosses \in Nat

VARIABLES
    ram,      \* the task directory, without .ram-* files
    stamp,    \* .ram-snapshot.json
    latest,   \* latest.json in the store
    bundles,  \* the bundles in the store, by generation
    step,     \* where commit, or restore, is
    old,      \* commit: the files of the last commit, None without a prior
    current,  \* commit: the directory as files() found it
    todo,     \* commit: changed files not yet in the archive
    tarball,  \* commit: what the archive holds
    replayed, \* restore: bundles extracted so far
    clock,    \* versions written so far
    gens,     \* generations begun so far
    losses

locals == <<old, current, todo, tarball>>
bounds == <<clock, gens, losses>>
snapshotVars == <<ram, stamp, latest, bundles, step, locals, replayed, bounds>>

Generation == 1..MaxCommits
Directory == [Path -> 1..MaxWrites \cup {Absent}]
NoFiles == [f \in Path |-> Absent]
Present(dir) == {f \in Path : dir[f] # Absent}

Item == [bundle: Generation, removed: SUBSET Path]

ASSUME NoneAssumption ==
    Absent \notin 1..MaxWrites \cup Directory
                \cup [generation: Generation, files: Directory]
                \cup [generation: Generation, chain: Seq(Item), files: SUBSET Path]

SnapshotTypeOK ==
    /\ ram \in Directory
    /\ stamp \in [generation: Generation, files: Directory] \cup {Absent}
    /\ \/ latest = Absent
       \/ /\ DOMAIN latest = {"generation", "chain", "files"}
          /\ latest.generation \in Generation
          /\ latest.chain \in Seq(Item)
          /\ latest.files \in SUBSET Path
    /\ bundles \in [Generation -> Directory \cup {Absent}]
    /\ step \in {"idle", "tar", "copy", "publish", "stamp", "lost", "restore"}
    /\ old \in Directory \cup {Absent}
    /\ current \in Directory \cup {Absent}
    /\ todo \in SUBSET Path /\ tarball \in Directory
    /\ replayed \in Nat
    /\ clock \in 0..MaxWrites /\ gens \in 0..MaxCommits /\ losses \in 0..MaxLosses

SnapshotInit ==
    /\ ram = NoFiles /\ stamp = Absent
    /\ latest = Absent /\ bundles = [g \in Generation |-> Absent]
    /\ step = "idle" /\ old = Absent /\ current = Absent
    /\ todo = {} /\ tarball = NoFiles /\ replayed = 0
    /\ clock = 0 /\ gens = 0 /\ losses = 0

-----------------------------------------------------------------------------
(* The task.  It has stopped at a request boundary while commit runs; that a*)
(* thread of its own still writes is covered too.                           *)

Owned == step \notin {"lost", "restore"}

Write(f) ==
    /\ Owned /\ clock < MaxWrites
    /\ clock' = clock + 1
    /\ ram' = [ram EXCEPT ![f] = clock + 1]
    /\ UNCHANGED <<stamp, latest, bundles, step, locals, replayed, gens, losses>>

Unlink(f) ==
    /\ Owned /\ ram[f] # Absent
    /\ ram' = [ram EXCEPT ![f] = Absent]
    /\ UNCHANGED <<stamp, latest, bundles, step, locals, replayed, bounds>>

-----------------------------------------------------------------------------
(* commit                                                                   *)

Forget ==
    /\ old' = Absent /\ current' = Absent /\ todo' = {} /\ tarball' = NoFiles

PriorFilesOfAny ==  \* mutant: the generations are not compared
    IF stamp # Absent /\ latest # Absent THEN stamp.files ELSE Absent

PriorFiles ==
    IF stamp # Absent /\ latest # Absent /\ stamp.generation = latest.generation
    THEN stamp.files ELSE Absent

Changed(dir, prior) ==
    {f \in Present(dir) : prior = Absent \/ dir[f] # prior[f]}

RemovedNever(dir, prior) == {}  \* mutant: removals are not recorded

Removed(dir, prior) ==
    IF prior = Absent THEN {} ELSE Present(prior) \ Present(dir)

\* checkpoint_boundary decides by count and time; nothing changed, no commit.
BeginCommit ==
    /\ step = "idle" /\ gens < MaxCommits
    /\ \/ PriorFiles = Absent
       \/ Changed(ram, PriorFiles) # {}
       \/ Removed(ram, PriorFiles) # {}
    /\ old' = PriorFiles /\ current' = ram
    /\ todo' = Changed(ram, PriorFiles) /\ tarball' = NoFiles
    /\ gens' = gens + 1
    /\ step' = "tar"
    /\ UNCHANGED <<ram, stamp, latest, bundles, replayed, clock, losses>>

\* tar.add reads the file as it is now and fails if it is gone.
AddToArchive(f) ==
    /\ step = "tar" /\ f \in todo /\ ram[f] # Absent
    /\ tarball' = [tarball EXCEPT ![f] = ram[f]]
    /\ todo' = todo \ {f}
    /\ UNCHANGED <<ram, stamp, latest, bundles, step, old, current, replayed, bounds>>

UnchangedAssumed == TRUE  \* mutant: the second scan is missing

Unchanged == ram = current

\* No checkpoint can claim a concurrently modified file.
CheckUnchanged ==
    /\ step = "tar" /\ todo = {} /\ Unchanged
    /\ step' = "copy"
    /\ UNCHANGED <<ram, stamp, latest, bundles, locals, replayed, bounds>>

\* The copy is verified, then renamed to its final name.
CopyBundle ==
    /\ step = "copy"
    /\ bundles' = [bundles EXCEPT ![gens] = tarball]
    /\ step' = "publish"
    /\ UNCHANGED <<ram, stamp, latest, locals, replayed, bounds>>

Chain(prior) == IF prior = Absent THEN <<>> ELSE latest.chain

\* atomic(latest.json), the sole durable commit point.
Publish ==
    /\ step = "publish"
    /\ latest' = [generation |-> gens,
                  chain |-> Append(Chain(old), [bundle |-> gens,
                                                removed |-> Removed(current, old)]),
                  files |-> Present(current)]
    /\ step' = "stamp"
    /\ UNCHANGED <<ram, stamp, bundles, locals, replayed, bounds>>

StampedFiles == current

WriteStamp ==
    /\ step = "stamp"
    /\ stamp' = [generation |-> gens, files |-> StampedFiles]
    /\ step' = "idle" /\ Forget
    /\ UNCHANGED <<ram, latest, bundles, replayed, bounds>>

\* An exception (a changed or missing file, the byte budget, a failing store)
\* or the death of the process; the directory stays, commit's variables do not.
EndCommit ==
    /\ step \in {"tar", "copy", "publish", "stamp"}
    /\ step' = "idle" /\ Forget
    /\ UNCHANGED <<ram, stamp, latest, bundles, replayed, bounds>>

-----------------------------------------------------------------------------
(* A new owner                                                              *)

LoseNode ==
    /\ losses < MaxLosses /\ losses' = losses + 1
    /\ step' = "lost" /\ Forget
    /\ ram' = NoFiles /\ stamp' = Absent /\ replayed' = 0
    /\ UNCHANGED <<latest, bundles, clock, gens>>

\* The process of the owner ends and leaves its directory behind.
OwnerDies ==
    /\ Owned /\ losses < MaxLosses /\ losses' = losses + 1
    /\ step' = "lost" /\ Forget
    /\ UNCHANGED <<ram, stamp, latest, bundles, replayed, clock, gens>>

EmptyAssumed == TRUE  \* mutant: restore takes any directory

EmptyDirectory == ram = NoFiles /\ stamp = Absent

\* restore refuses a directory with anything in it; another one has to be found.
FreshDirectory ==
    /\ step = "lost" /\ (ram # NoFiles \/ stamp # Absent)
    /\ ram' = NoFiles /\ stamp' = Absent
    /\ UNCHANGED <<latest, bundles, step, locals, replayed, bounds>>

\* Without a published generation the task starts over.
StartOver ==
    /\ step = "lost" /\ latest = Absent /\ ram = NoFiles /\ stamp = Absent
    /\ step' = "idle"
    /\ UNCHANGED <<ram, stamp, latest, bundles, locals, replayed, bounds>>

BeginRestore ==
    /\ step = "lost" /\ latest # Absent /\ EmptyDirectory
    /\ step' = "restore"
    /\ UNCHANGED <<ram, stamp, latest, bundles, locals, replayed, bounds>>

Apply(dir, item) ==
    [f \in Path |->
        IF f \in item.removed THEN Absent
        ELSE IF bundles[item.bundle][f] # Absent THEN bundles[item.bundle][f]
        ELSE dir[f]]

RestoreItem ==
    /\ step = "restore" /\ replayed < Len(latest.chain)
    /\ bundles[latest.chain[replayed + 1].bundle] # Absent
    /\ ram' = Apply(ram, latest.chain[replayed + 1])
    /\ replayed' = replayed + 1
    /\ UNCHANGED <<stamp, latest, bundles, step, locals, bounds>>

EndRestore ==
    /\ step = "restore" /\ replayed = Len(latest.chain)
    /\ Present(ram) = latest.files
    /\ stamp' = [generation |-> latest.generation, files |-> ram]
    /\ replayed' = 0
    /\ step' = "idle"
    /\ UNCHANGED <<ram, latest, bundles, locals, bounds>>

\* The restore dies between two bundles or within one; what it has extracted
\* stays in the directory.
RestoreDies ==
    /\ step = "restore" /\ losses < MaxLosses /\ losses' = losses + 1
    /\ step' = "lost" /\ replayed' = 0
    /\ \/ ram' = ram
       \/ /\ replayed < Len(latest.chain)
          /\ LET item == latest.chain[replayed + 1]
             IN  /\ bundles[item.bundle] # Absent
                 /\ \E done \in SUBSET Path :
                      ram' = [f \in Path |-> IF f \in done THEN Apply(ram, item)[f] ELSE ram[f]]
    /\ UNCHANGED <<stamp, latest, bundles, locals, clock, gens>>

Commit ==
    \/ BeginCommit
    \/ \E f \in Path : AddToArchive(f)
    \/ CheckUnchanged \/ CopyBundle \/ Publish \/ WriteStamp
    \/ EndCommit

Restore == BeginRestore \/ RestoreItem \/ EndRestore

SnapshotNext ==
    \/ \E f \in Path : Write(f) \/ Unlink(f)
    \/ Commit
    \/ LoseNode \/ OwnerDies \/ FreshDirectory \/ StartOver \/ Restore \/ RestoreDies

SnapshotSpec == SnapshotInit /\ [][SnapshotNext]_snapshotVars

FairSnapshots == SnapshotSpec /\ WF_snapshotVars(FreshDirectory \/ StartOver \/ Restore)

-----------------------------------------------------------------------------
(* Properties.                                                              *)

\* Item i of a chain is the last one that says anything about file f.
Touches(item, f) == f \in item.removed \/ bundles[item.bundle][f] # Absent

Decides(chain, i, f) ==
    /\ i \in DOMAIN chain /\ Touches(chain[i], f)
    /\ \A j \in DOMAIN chain : j > i => ~Touches(chain[j], f)

\* What the replay of a chain gives back, file by file.
Replay(chain) ==
    [f \in Path |->
        IF \E i \in DOMAIN chain : Decides(chain, i, f)
        THEN LET i == CHOOSE i \in DOMAIN chain : Decides(chain, i, f)
             IN  IF f \in chain[i].removed THEN Absent ELSE bundles[chain[i].bundle][f]
        ELSE Absent]

\* latest.json names bundles that are in the store, and their replay has the
\* files it lists: restore's own checks (lines 122 and 134) never fail,
\* wherever a commit was cut off.
RestoreVerifies ==
    latest # Absent =>
        /\ \A i \in DOMAIN latest.chain : bundles[latest.chain[i].bundle] # Absent
        /\ Present(Replay(latest.chain)) = latest.files

\* And a stamp whose generation is the published one lists the published files: an
\* incremental commit extends the right chain (lines 76-84).
StampAgrees ==
    stamp # Absent /\ latest # Absent /\ stamp.generation = latest.generation
        => stamp.files = Replay(latest.chain)

\* What holds between any two steps of a commit, a restore and a write: what is
\* published can be restored and extended.
SnapshotInv == SnapshotTypeOK /\ RestoreVerifies /\ StampAgrees

\* The content the owner works on, and what a new owner would get.
Live == IF Owned THEN ram ELSE Absent
Saved == IF latest = Absent THEN Absent ELSE Replay(latest.chain)

\* Snapshots are whole: the chain always replays to the directory as some
\* completed commit found it, and that is what a new owner gets.
Store == INSTANCE SnapshotStore WITH
    Contents <- Directory,
    Empty <- NoFiles,
    None <- Absent,
    live <- Live,
    seen <- current,
    saved <- Saved

StoreSpec == Store!Spec

\* A new owner gets to run: no sequence of abandoned commits leaves a chain
\* that restore refuses, and no owner or restore that died a directory that its
\* successor mixes with what is published.
Recovers == step \in {"lost", "restore"} ~> Owned
=============================================================================
