-------------------------- MODULE CheckpointProofs --------------------------
(***************************************************************************)
(* Proofs about the two checkpoints: of a task directory in RAM            *)
(* (RamCheckpoint), where what is published can be restored and extended   *)
(* for a chain of any length, and the store implements SnapshotStore; and  *)
(* of a stage of the legacy Route B (StageCheckpoint), for any records,    *)
(* contents, workers, limit of the history, edits and faults.  The two     *)
(* share no state.                                                         *)
(***************************************************************************)
EXTENDS RamCheckpoint, StageCheckpoint, FiniteSetTheorems, SequenceTheorems, TLAPS

-----------------------------------------------------------------------------
(* RamCheckpoint                                                            *)

(* Replay and Apply as functions of the bundles, so that they can be used   *)
(* before and after a bundle is added.                                      *)
TouchesIn(bs, item, f) == f \in item.removed \/ bs[item.bundle][f] # Absent

DecidesIn(bs, chain, i, f) ==
    /\ i \in DOMAIN chain /\ TouchesIn(bs, chain[i], f)
    /\ \A j \in DOMAIN chain : j > i => ~TouchesIn(bs, chain[j], f)

ValueIn(bs, item, f) == IF f \in item.removed THEN Absent ELSE bs[item.bundle][f]

ReplayIn(bs, chain) ==
    [f \in Path |->
        IF \E i \in DOMAIN chain : DecidesIn(bs, chain, i, f)
        THEN ValueIn(bs, chain[CHOOSE i \in DOMAIN chain : DecidesIn(bs, chain, i, f)], f)
        ELSE Absent]

-----------------------------------------------------------------------------
(* The inductive invariant                                                  *)

Versions == [Path -> 1..clock \cup {Absent}]

Typed ==
    /\ ram \in Versions
    /\ stamp \in [generation: 1..gens, files: Directory] \cup {Absent}
    /\ \/ latest = Absent
       \/ /\ DOMAIN latest = {"generation", "chain", "files"}
          /\ latest.generation \in 1..gens
          /\ latest.chain \in Seq(Item)
          /\ latest.files \in SUBSET Path
    /\ bundles \in [Generation -> Versions \cup {Absent}]
    /\ step \in {"idle", "tar", "copy", "publish", "stamp", "lost", "restore"}
    /\ old \in Directory \cup {Absent}
    /\ current \in Versions \cup {Absent}
    /\ todo \in SUBSET Path /\ tarball \in Versions
    /\ replayed \in Nat
    /\ clock \in 0..MaxWrites /\ gens \in 0..MaxCommits /\ losses \in 0..MaxLosses

Committing == step \in {"tar", "copy", "publish", "stamp"}

\* The bundles of the published chain are in the store, and a commit in progress
\* writes none of them.
ChainOK ==
    latest # Absent =>
        /\ \A i \in DOMAIN latest.chain :
            /\ latest.chain[i].bundle <= latest.generation
            /\ bundles[latest.chain[i].bundle] # Absent
        /\ step \in {"tar", "copy", "publish"} => latest.generation < gens
        /\ Present(ReplayIn(bundles, latest.chain)) = latest.files

\* A stamp never runs ahead of what is published.
StampOK ==
    /\ stamp # Absent => latest # Absent /\ stamp.generation <= latest.generation
    /\ stamp # Absent /\ stamp.generation = latest.generation
        => stamp.files = ReplayIn(bundles, latest.chain)

\* A commit knows what it extends.
PriorOK ==
    /\ Committing => current # Absent /\ gens >= 1
    /\ step \in {"tar", "copy", "publish"} /\ old # Absent
        => latest # Absent /\ old = ReplayIn(bundles, latest.chain)

\* A file that looks as it did when the commit began was not another one in between.
TarballOK ==
    /\ step = "tar" =>
        \A f \in Path :
            /\ f \in todo => f \in Changed(current, old)
            /\ f \notin Changed(current, old) => tarball[f] = Absent
            /\ f \in Changed(current, old) /\ f \notin todo => tarball[f] # Absent
            /\ ram[f] = current[f] => tarball[f] \in {Absent, current[f]}
    /\ step \in {"copy", "publish"} =>
        tarball = [f \in Path |-> IF f \in Changed(current, old) THEN current[f] ELSE Absent]
    /\ step = "publish" => bundles[gens] = tarball

PublishedOK ==
    step = "stamp" =>
        /\ latest # Absent /\ latest.generation = gens
        /\ ReplayIn(bundles, latest.chain) = current

\* A restore has the content of the part of the chain it has replayed.
RestoreOK ==
    /\ step \in {"lost", "restore"} => current = Absent
    /\ step = "restore" => stamp = Absent
    /\ step # "restore" => replayed = 0
    /\ step = "restore" =>
        /\ latest # Absent /\ replayed <= Len(latest.chain)
        /\ ram = ReplayIn(bundles, SubSeq(latest.chain, 1, replayed))

SnapshotIInv == Typed /\ ChainOK /\ StampOK /\ PriorOK /\ TarballOK /\ PublishedOK /\ RestoreOK

-----------------------------------------------------------------------------
(* Replay                                                                   *)

LEMMA ReplayHasIn ==
    ASSUME NEW chain
    PROVE  Replay(chain) = ReplayIn(bundles, chain)
BY DEF Replay, ReplayIn, Decides, DecidesIn, Touches, TouchesIn, ValueIn

LEMMA ReplayDecided ==
    ASSUME NEW bs, NEW chain \in Seq(Item), NEW f \in Path,
           NEW i \in DOMAIN chain, DecidesIn(bs, chain, i, f)
    PROVE  ReplayIn(bs, chain)[f] = ValueIn(bs, chain[i], f)
<1>1. ASSUME NEW j \in DOMAIN chain, DecidesIn(bs, chain, j, f)
      PROVE  j = i
  <2>1. i \in Nat /\ j \in Nat
    BY LenProperties
  <2> QED BY <1>1, <2>1 DEF DecidesIn
<1>2. (CHOOSE j \in DOMAIN chain : DecidesIn(bs, chain, j, f)) = i
  BY <1>1
<1> QED BY <1>2 DEF ReplayIn

LEMMA ReplayUndecided ==
    ASSUME NEW bs, NEW chain, NEW f \in Path,
           \A i \in DOMAIN chain : ~DecidesIn(bs, chain, i, f)
    PROVE  ReplayIn(bs, chain)[f] = Absent
BY DEF ReplayIn

LEMMA ReplayEmpty == ASSUME NEW bs PROVE ReplayIn(bs, <<>>) = NoFiles
<1>1. DOMAIN <<>> = {}
  BY EmptySeq
<1> QED BY <1>1 DEF ReplayIn, NoFiles

\* The last item of a chain has the last word.
LEMMA ReplayAppend ==
    ASSUME NEW bs, NEW chain \in Seq(Item), NEW item \in Item, NEW f \in Path
    PROVE  /\ TouchesIn(bs, item, f) =>
                ReplayIn(bs, Append(chain, item))[f] = ValueIn(bs, item, f)
           /\ ~TouchesIn(bs, item, f) =>
                ReplayIn(bs, Append(chain, item))[f] = ReplayIn(bs, chain)[f]
<1> DEFINE long == Append(chain, item)
           n == Len(chain) + 1
<1>1. /\ long \in Seq(Item) /\ Len(long) = n /\ long[n] = item /\ n \in Nat \ {0}
      /\ DOMAIN long = 1..n /\ DOMAIN chain = 1..(n - 1)
      /\ \A i \in 1..(n - 1) : long[i] = chain[i]
  BY AppendProperties, LenProperties
<1> HIDE DEF long, n
<1>2. CASE TouchesIn(bs, item, f)
  <2>1. n \in DOMAIN long /\ TouchesIn(bs, long[n], f)
    BY <1>1, <1>2
  <2>2. \A j \in DOMAIN long : ~(j > n)
    BY <1>1
  <2>3. DecidesIn(bs, long, n, f)
    BY <2>1, <2>2 DEF DecidesIn
  <2>4. ReplayIn(bs, long)[f] = ValueIn(bs, long[n], f)
    BY <1>1, <2>1, <2>3, ReplayDecided
  <2> QED BY <1>1, <1>2, <2>4 DEF long
<1>3. CASE ~TouchesIn(bs, item, f)
  <2>1. ASSUME NEW i \in DOMAIN chain
        PROVE  DecidesIn(bs, chain, i, f) <=> DecidesIn(bs, long, i, f)
    <3>1. i \in DOMAIN long /\ long[i] = chain[i]
      BY <1>1
    <3>2. \A j \in DOMAIN long : j \in DOMAIN chain \/ j = n
      BY <1>1
    <3>3. \A j \in DOMAIN chain : j \in DOMAIN long /\ long[j] = chain[j]
      BY <1>1
    <3>4. ~TouchesIn(bs, long[n], f)
      BY <1>1, <1>3
    <3> QED BY <3>1, <3>2, <3>3, <3>4 DEF DecidesIn
  <2>2. ~DecidesIn(bs, long, n, f)
    BY <1>1, <1>3 DEF DecidesIn
  <2>3. CASE \E i \in DOMAIN chain : DecidesIn(bs, chain, i, f)
    <3>1. PICK i \in DOMAIN chain : DecidesIn(bs, chain, i, f)
      BY <2>3
    <3>2. i \in DOMAIN long /\ long[i] = chain[i] /\ DecidesIn(bs, long, i, f)
      BY <1>1, <2>1, <3>1
    <3>3. ReplayIn(bs, chain)[f] = ValueIn(bs, chain[i], f)
      BY <3>1, ReplayDecided
    <3>4. ReplayIn(bs, long)[f] = ValueIn(bs, long[i], f)
      BY <1>1, <3>2, ReplayDecided
    <3> QED BY <1>3, <3>2, <3>3, <3>4 DEF long
  <2>4. CASE \A i \in DOMAIN chain : ~DecidesIn(bs, chain, i, f)
    <3>1. \A i \in DOMAIN long : ~DecidesIn(bs, long, i, f)
      BY <1>1, <2>1, <2>2, <2>4
    <3> QED BY <1>3, <2>4, <3>1, ReplayUndecided DEF long
  <2> QED BY <2>3, <2>4
<1> QED BY <1>2, <1>3

\* Bundles that are not in the chain do not matter.
LEMMA ReplayLocal ==
    ASSUME NEW bs, NEW cs, NEW chain \in Seq(Item),
           \A i \in DOMAIN chain : bs[chain[i].bundle] = cs[chain[i].bundle]
    PROVE  ReplayIn(bs, chain) = ReplayIn(cs, chain)
<1>1. \A i \in DOMAIN chain, f \in Path :
        /\ TouchesIn(bs, chain[i], f) <=> TouchesIn(cs, chain[i], f)
        /\ ValueIn(bs, chain[i], f) = ValueIn(cs, chain[i], f)
  BY DEF TouchesIn, ValueIn
<1>2. \A i \in DOMAIN chain, f \in Path :
        DecidesIn(bs, chain, i, f) <=> DecidesIn(cs, chain, i, f)
  BY <1>1 DEF DecidesIn
<1>3. ASSUME NEW f \in Path
      PROVE  ReplayIn(bs, chain)[f] = ReplayIn(cs, chain)[f]
  <2>1. CASE \E i \in DOMAIN chain : DecidesIn(bs, chain, i, f)
    <3>1. PICK i \in DOMAIN chain : DecidesIn(bs, chain, i, f)
      BY <2>1
    <3> QED BY <1>1, <1>2, <3>1, ReplayDecided
  <2>2. CASE \A i \in DOMAIN chain : ~DecidesIn(bs, chain, i, f)
    BY <1>2, <2>2, ReplayUndecided
  <2> QED BY <2>1, <2>2
<1> QED BY <1>3 DEF ReplayIn

\* A bundle that holds what changed since the content the chain replays to, and an
\* item that names what was removed, extend the chain to the new content.
Extends(bs, chain, prior, dir, g) ==
    /\ prior # Absent => prior = ReplayIn(bs, chain)
    /\ prior = Absent => chain = <<>>
    /\ \A f \in Path : bs[g][f] = IF f \in Changed(dir, prior) THEN dir[f] ELSE Absent

LEMMA ReplayExtended ==
    ASSUME NEW bs, NEW chain \in Seq(Item), NEW prior, NEW dir \in Directory,
           NEW g \in Generation, Extends(bs, chain, prior, dir, g)
    PROVE  ReplayIn(bs, Append(chain, [bundle |-> g, removed |-> Removed(dir, prior)])) = dir
<1> DEFINE item == [bundle |-> g, removed |-> Removed(dir, prior)]
<1>1. item \in Item
  BY DEF Item, Removed, Present
<1>2. item.removed = Removed(dir, prior) /\ item.bundle = g
  OBVIOUS
<1> HIDE DEF item
<1>3. ASSUME NEW f \in Path
      PROVE  ReplayIn(bs, Append(chain, item))[f] = dir[f]
  <2> DEFINE before == ReplayIn(bs, chain)[f]
  <2>1. /\ TouchesIn(bs, item, f) =>
                ReplayIn(bs, Append(chain, item))[f] = ValueIn(bs, item, f)
        /\ ~TouchesIn(bs, item, f) =>
                ReplayIn(bs, Append(chain, item))[f] = before
    BY <1>1, ReplayAppend
  <2>2. before = IF prior = Absent THEN Absent ELSE prior[f]
    <3>1. CASE prior = Absent
      BY <3>1, ReplayEmpty DEF NoFiles, Extends
    <3>2. CASE prior # Absent
      BY <3>2 DEF Extends
    <3> QED BY <3>1, <3>2
  <2> HIDE DEF before
  <2>3. bs[item.bundle][f] = IF f \in Changed(dir, prior) THEN dir[f] ELSE Absent
    BY <1>2 DEF Extends
  <2>4. f \in Changed(dir, prior) <=> dir[f] # Absent /\ (prior = Absent \/ dir[f] # prior[f])
    BY DEF Changed, Present
  <2>5. f \in item.removed <=> prior # Absent /\ prior[f] # Absent /\ dir[f] = Absent
    BY <1>2 DEF Removed, Present
  <2> QED BY <2>1, <2>2, <2>3, <2>4, <2>5 DEF TouchesIn, ValueIn
<1>4. DOMAIN ReplayIn(bs, Append(chain, item)) = Path /\ DOMAIN dir = Path
  BY DEF ReplayIn, Directory
<1>5. ReplayIn(bs, Append(chain, item)) = [f \in Path |-> ReplayIn(bs, Append(chain, item))[f]]
      /\ dir = [f \in Path |-> dir[f]]
  BY DEF ReplayIn, Directory
<1>6. ReplayIn(bs, Append(chain, item)) = dir
  BY <1>3, <1>5
<1> QED BY <1>6 DEF item

\* One more item of a replay, as RestoreItem applies it.
LEMMA ReplayStep ==
    ASSUME NEW chain \in Seq(Item), NEW n \in Nat, n < Len(chain)
    PROVE  ReplayIn(bundles, SubSeq(chain, 1, n + 1)) =
                Apply(ReplayIn(bundles, SubSeq(chain, 1, n)), chain[n + 1])
<1> DEFINE first == SubSeq(chain, 1, n)
           item == chain[n + 1]
<1>1. first \in Seq(Item) /\ item \in Item /\ SubSeq(chain, 1, n + 1) = Append(first, item)
  <2>1. n + 1 \in 1..Len(chain) /\ Len(chain) \in Nat
    BY LenProperties
  <2>2. /\ first \in Seq(Item) /\ Len(first) = n /\ \A i \in 1..n : first[i] = chain[i]
        /\ SubSeq(chain, 1, n + 1) \in Seq(Item) /\ Len(SubSeq(chain, 1, n + 1)) = n + 1
        /\ \A i \in 1..(n + 1) : SubSeq(chain, 1, n + 1)[i] = chain[i]
    BY <2>1, SubSeqProperties
  <2>3. item \in Item
    BY <2>1, ElementOfSeq
  <2>4. /\ Append(first, item) \in Seq(Item) /\ Len(Append(first, item)) = n + 1
        /\ \A i \in 1..n : Append(first, item)[i] = first[i]
        /\ Append(first, item)[n + 1] = item
    BY <2>2, <2>3, AppendProperties
  <2>5. \A i \in 1..(n + 1) : SubSeq(chain, 1, n + 1)[i] = Append(first, item)[i]
    BY <2>2, <2>4
  <2> QED BY <2>2, <2>3, <2>4, <2>5, SeqEqual
<1> HIDE DEF first, item
<1>2. ASSUME NEW f \in Path
      PROVE  ReplayIn(bundles, Append(first, item))[f] = Apply(ReplayIn(bundles, first), item)[f]
  <2>1. /\ TouchesIn(bundles, item, f) =>
                ReplayIn(bundles, Append(first, item))[f] = ValueIn(bundles, item, f)
        /\ ~TouchesIn(bundles, item, f) =>
                ReplayIn(bundles, Append(first, item))[f] = ReplayIn(bundles, first)[f]
    BY <1>1, ReplayAppend
  <2>2. Apply(ReplayIn(bundles, first), item)[f] =
            IF TouchesIn(bundles, item, f) THEN ValueIn(bundles, item, f)
            ELSE ReplayIn(bundles, first)[f]
    BY DEF Apply, TouchesIn, ValueIn
  <2> QED BY <2>1, <2>2
<1>3. /\ ReplayIn(bundles, Append(first, item)) = [f \in Path |-> ReplayIn(bundles, Append(first, item))[f]]
      /\ Apply(ReplayIn(bundles, first), item) = [f \in Path |-> Apply(ReplayIn(bundles, first), item)[f]]
  BY DEF ReplayIn, Apply
<1> QED BY <1>1, <1>2, <1>3 DEF first, item

-----------------------------------------------------------------------------
(* Every step keeps the invariant                                           *)

LEMMA VersionsAreContents ==
    ASSUME clock \in 0..MaxWrites
    PROVE  Versions \subseteq Directory
BY BoundsAssumption DEF Versions, Directory

LEMMA NoneIsNoContent == Absent \notin Directory /\ \A n \in 1..MaxWrites : n # Absent
BY NoneAssumption

LEMMA SnapshotInitHolds == SnapshotInit => SnapshotIInv
<1> SUFFICES ASSUME SnapshotInit PROVE SnapshotIInv
  OBVIOUS
<1>1. Typed
  BY BoundsAssumption DEF SnapshotInit, Typed, Versions, NoFiles
<1>2. ChainOK /\ StampOK /\ PriorOK /\ TarballOK /\ PublishedOK /\ RestoreOK
  BY DEF SnapshotInit, ChainOK, StampOK, PriorOK, Committing, TarballOK, PublishedOK, RestoreOK
<1> QED BY <1>1, <1>2 DEF SnapshotIInv

LEMMA TaskKeeps ==
    ASSUME SnapshotIInv, NEW f \in Path, Write(f) \/ Unlink(f)
    PROVE  SnapshotIInv'
<1>1. /\ clock' \in 0..MaxWrites /\ clock <= clock' /\ Owned
      /\ \/ clock' = clock + 1 /\ ram' = [ram EXCEPT ![f] = clock + 1]
         \/ clock' = clock /\ ram' = [ram EXCEPT ![f] = Absent]
      /\ UNCHANGED <<stamp, latest, bundles, step, locals, replayed, gens, losses>>
  BY BoundsAssumption DEF SnapshotIInv, Typed, Write, Unlink, bounds
<1>2. clock \in Nat /\ clock' \in Nat /\ clock' <= MaxWrites
  BY <1>1, BoundsAssumption DEF SnapshotIInv, Typed
<1>3. Versions \subseteq Versions'
  BY <1>1, <1>2 DEF Versions
<1>4. Typed'
  <2>1. ram' \in Versions'
    BY <1>1, <1>2 DEF SnapshotIInv, Typed, Versions
  <2> QED BY <1>1, <1>3, <2>1 DEF SnapshotIInv, Typed, locals
<1>5. TarballOK'
  <2>1. \A h \in Path : ram'[h] = ram[h] \/ h = f
    BY <1>1 DEF SnapshotIInv, Typed, Versions
  <2>2. step = "tar" /\ ram'[f] = current[f] => tarball[f] = Absent
    <3>1. CASE clock' = clock + 1 /\ ram' = [ram EXCEPT ![f] = clock + 1]
      <4>1. ram'[f] = clock + 1 /\ clock + 1 \in 1..MaxWrites
        BY <1>1, <1>2, <3>1 DEF SnapshotIInv, Typed, Versions
      <4>2. step = "tar" => current[f] \in 1..clock \cup {Absent}
        BY DEF SnapshotIInv, PriorOK, Committing, Typed, Versions
      <4> QED BY <1>2, <4>1, <4>2, NoneIsNoContent
    <3>2. CASE ram' = [ram EXCEPT ![f] = Absent]
      <4>1. ram'[f] = Absent
        BY <3>2 DEF SnapshotIInv, Typed, Versions
      <4> QED BY <4>1 DEF SnapshotIInv, TarballOK, Changed, Present
    <3> QED BY <1>1, <3>1, <3>2
  <2> QED BY <1>1, <2>1, <2>2 DEF SnapshotIInv, TarballOK, Changed, Present, locals
<1>6. (ChainOK /\ StampOK /\ PriorOK /\ PublishedOK)'
  BY <1>1 DEF SnapshotIInv, ChainOK, StampOK, PriorOK, Committing, PublishedOK, locals
<1>7. RestoreOK'
  BY <1>1 DEF SnapshotIInv, RestoreOK, Owned, locals
<1> QED BY <1>4, <1>5, <1>6, <1>7 DEF SnapshotIInv

LEMMA BeginCommitKeeps == SnapshotIInv /\ BeginCommit => SnapshotIInv'
<1> SUFFICES ASSUME SnapshotIInv, BeginCommit PROVE SnapshotIInv'
  OBVIOUS
<1>1. /\ step = "idle" /\ step' = "tar" /\ gens' = gens + 1 /\ gens < MaxCommits
      /\ old' = PriorFiles /\ current' = ram /\ todo' = Changed(ram, PriorFiles)
      /\ tarball' = NoFiles
      /\ UNCHANGED <<ram, stamp, latest, bundles, replayed, clock, losses>>
  BY DEF BeginCommit
<1>2. gens \in Nat /\ gens' \in 1..MaxCommits /\ gens < gens'
  BY <1>1, BoundsAssumption DEF SnapshotIInv, Typed
<1>3. 1..gens \subseteq 1..gens'
  BY <1>1, <1>2
<1>4. /\ PriorFiles \in Directory \cup {Absent}
      /\ PriorFiles # Absent => latest # Absent /\ PriorFiles = ReplayIn(bundles, latest.chain)
  BY DEF SnapshotIInv, Typed, StampOK, PriorFiles
<1>5. ram \in Directory /\ ram # Absent
  BY VersionsAreContents, NoneIsNoContent DEF SnapshotIInv, Typed
<1>6. Typed'
  <2>1. NoFiles \in Versions /\ Changed(ram, PriorFiles) \subseteq Path
    BY DEF NoFiles, Versions, Changed, Present
  <2>2. stamp' \in [generation: 1..gens', files: Directory] \cup {Absent}
    BY <1>1, <1>3 DEF SnapshotIInv, Typed
  <2>3. latest # Absent => latest.generation \in 1..gens'
    BY <1>3 DEF SnapshotIInv, Typed
  <2>4. gens' \in 0..MaxCommits
    BY <1>2
  <2> QED BY <1>1, <1>4, <2>1, <2>2, <2>3, <2>4 DEF SnapshotIInv, Typed, Versions
<1>7. ChainOK' /\ StampOK' /\ PublishedOK' /\ RestoreOK'
  <2>1. latest # Absent => latest.generation < gens'
    BY <1>1, <1>2 DEF SnapshotIInv, Typed
  <2> QED BY <1>1, <2>1 DEF SnapshotIInv, ChainOK, StampOK, PublishedOK, RestoreOK
<1>8. PriorOK'
  BY <1>1, <1>2, <1>4, <1>5 DEF PriorOK, Committing
<1>9. TarballOK'
  <2>1. \A h \in Path : tarball'[h] = Absent
    BY <1>1 DEF NoFiles
  <2> QED BY <1>1, <2>1 DEF TarballOK
<1> QED BY <1>6, <1>7, <1>8, <1>9 DEF SnapshotIInv

LEMMA AddToArchiveKeeps ==
    ASSUME SnapshotIInv, NEW f \in Path, AddToArchive(f)
    PROVE  SnapshotIInv'
<1>1. /\ step = "tar" /\ f \in todo /\ ram[f] # Absent
      /\ tarball' = [tarball EXCEPT ![f] = ram[f]] /\ todo' = todo \ {f}
      /\ UNCHANGED <<ram, stamp, latest, bundles, step, old, current, replayed, bounds>>
  BY DEF AddToArchive
<1>2. Typed'
  <2>1. tarball' \in Versions /\ todo' \subseteq Path
    BY <1>1 DEF SnapshotIInv, Typed, Versions
  <2> QED BY <1>1, <2>1 DEF SnapshotIInv, Typed, Versions, bounds
<1>3. TarballOK'
  <2>1. tarball'[f] = ram[f] /\ \A h \in Path \ {f} : tarball'[h] = tarball[h]
    BY <1>1 DEF SnapshotIInv, Typed, Versions
  <2> QED BY <1>1, <2>1 DEF SnapshotIInv, TarballOK, Changed, Present
<1>4. ChainOK' /\ StampOK' /\ PriorOK' /\ PublishedOK' /\ RestoreOK'
  BY <1>1 DEF SnapshotIInv, ChainOK, StampOK, PriorOK, Committing, PublishedOK, RestoreOK, bounds
<1> QED BY <1>2, <1>3, <1>4 DEF SnapshotIInv

\* The second scan finds the directory as the first did, so the archive is the
\* difference of two contents.
LEMMA CheckUnchangedKeeps == SnapshotIInv /\ CheckUnchanged => SnapshotIInv'
<1> SUFFICES ASSUME SnapshotIInv, CheckUnchanged PROVE SnapshotIInv'
  OBVIOUS
<1>1. /\ step = "tar" /\ todo = {} /\ ram = current /\ step' = "copy"
      /\ UNCHANGED <<ram, stamp, latest, bundles, locals, replayed, bounds>>
  BY DEF CheckUnchanged, Unchanged
<1>2. Typed'
  BY <1>1 DEF SnapshotIInv, Typed, Versions, locals, bounds
<1>3. TarballOK'
  <2>1. \A f \in Path :
          tarball[f] = IF f \in Changed(current, old) THEN current[f] ELSE Absent
    BY <1>1 DEF SnapshotIInv, TarballOK
  <2>2. tarball = [f \in Path |-> tarball[f]]
    BY DEF SnapshotIInv, Typed, Versions
  <2>3. tarball = [f \in Path |-> IF f \in Changed(current, old) THEN current[f] ELSE Absent]
    BY <2>1, <2>2
  <2> QED BY <1>1, <2>3 DEF TarballOK, locals
<1>4. ChainOK' /\ StampOK' /\ PriorOK' /\ PublishedOK' /\ RestoreOK'
  BY <1>1 DEF SnapshotIInv, ChainOK, StampOK, PriorOK, Committing, PublishedOK, RestoreOK, locals, bounds
<1> QED BY <1>2, <1>3, <1>4 DEF SnapshotIInv

\* The bundle of a commit is not yet in the published chain.
LEMMA CopyKeepsReplay ==
    ASSUME SnapshotIInv, CopyBundle, latest # Absent
    PROVE  /\ ReplayIn(bundles', latest.chain) = ReplayIn(bundles, latest.chain)
           /\ \A i \in DOMAIN latest.chain :
                bundles'[latest.chain[i].bundle] = bundles[latest.chain[i].bundle]
<1>1. /\ latest.chain \in Seq(Item) /\ latest.generation \in Nat /\ latest.generation < gens
      /\ gens \in Nat /\ bundles' = [bundles EXCEPT ![gens] = tarball]
  BY BoundsAssumption DEF SnapshotIInv, Typed, ChainOK, CopyBundle
<1>2. ASSUME NEW i \in DOMAIN latest.chain
      PROVE  bundles'[latest.chain[i].bundle] = bundles[latest.chain[i].bundle]
  <2>1. latest.chain[i] \in Item
    BY <1>1, ElementOfSeq, LenProperties
  <2>2. latest.chain[i].bundle \in Generation /\ latest.chain[i].bundle <= latest.generation
    BY <2>1 DEF Item, SnapshotIInv, ChainOK
  <2>3. latest.chain[i].bundle # gens
    BY <1>1, <2>2 DEF Generation
  <2> QED BY <1>1, <2>2, <2>3 DEF SnapshotIInv, Typed
<1> QED BY <1>1, <1>2, ReplayLocal

LEMMA CopyBundleKeeps == SnapshotIInv /\ CopyBundle => SnapshotIInv'
<1> SUFFICES ASSUME SnapshotIInv, CopyBundle PROVE SnapshotIInv'
  OBVIOUS
<1>1. /\ step = "copy" /\ step' = "publish" /\ bundles' = [bundles EXCEPT ![gens] = tarball]
      /\ UNCHANGED <<ram, stamp, latest, locals, replayed, bounds>>
  BY DEF CopyBundle
<1>2. gens \in Generation /\ gens \in Nat
  BY <1>1, BoundsAssumption DEF SnapshotIInv, Typed, PriorOK, Committing, Generation
<1>3. Typed'
  BY <1>1, <1>2 DEF SnapshotIInv, Typed, Versions, locals, bounds
<1>4. ChainOK' /\ StampOK' /\ PriorOK'
  BY <1>1, CopyKeepsReplay DEF SnapshotIInv, ChainOK, StampOK, PriorOK, Committing, locals, bounds
<1>5. TarballOK'
  <2>1. bundles'[gens] = tarball
    BY <1>1, <1>2 DEF SnapshotIInv, Typed
  <2> QED BY <1>1, <2>1 DEF SnapshotIInv, TarballOK, Changed, Present, locals, bounds
<1>6. PublishedOK' /\ RestoreOK'
  BY <1>1 DEF SnapshotIInv, PublishedOK, RestoreOK, locals, bounds
<1> QED BY <1>3, <1>4, <1>5, <1>6 DEF SnapshotIInv

\* What is published replays to the directory as the commit found it.
LEMMA PublishReplays ==
    ASSUME SnapshotIInv, Publish
    PROVE  /\ latest'.generation = gens /\ latest'.files = Present(current)
           /\ DOMAIN latest' = {"generation", "chain", "files"}
           /\ latest'.chain \in Seq(Item)
           /\ ReplayIn(bundles, latest'.chain) = current
           /\ \A i \in DOMAIN latest'.chain :
                latest'.chain[i].bundle <= gens /\ bundles[latest'.chain[i].bundle] # Absent
<1> DEFINE item == [bundle |-> gens, removed |-> Removed(current, old)]
           chain == Chain(old)
<1>1. /\ step = "publish"
      /\ latest' = [generation |-> gens, chain |-> Append(chain, item), files |-> Present(current)]
  BY DEF Publish
<1>2. /\ gens \in Generation /\ gens \in Nat /\ current \in Directory
      /\ old \in Directory \cup {Absent}
  BY <1>1, BoundsAssumption, VersionsAreContents
     DEF SnapshotIInv, Typed, PriorOK, Committing, Generation
<1>3. item \in Item
  BY <1>2 DEF Item, Removed, Present
<1>4. chain \in Seq(Item)
  BY <1>1 DEF SnapshotIInv, Typed, PriorOK, Chain
<1>5. /\ old # Absent => old = ReplayIn(bundles, chain)
      /\ old = Absent => chain = <<>>
  BY <1>1 DEF SnapshotIInv, PriorOK, Chain
<1>6. \A f \in Path : bundles[gens][f] = IF f \in Changed(current, old) THEN current[f] ELSE Absent
  BY <1>1 DEF SnapshotIInv, TarballOK
<1>7. ReplayIn(bundles, Append(chain, item)) = current
  <2>1. Extends(bundles, chain, old, current, gens)
    BY <1>5, <1>6 DEF Extends
  <2> HIDE DEF chain
  <2> QED BY <1>2, <1>4, <2>1, ReplayExtended
<1>8. bundles[gens] # Absent
  <2>1. bundles[gens] = tarball /\ tarball \in Directory
    BY <1>1, VersionsAreContents DEF SnapshotIInv, TarballOK, Typed
  <2> QED BY <2>1, NoneIsNoContent
<1>9. \A i \in DOMAIN chain : chain[i].bundle <= gens /\ bundles[chain[i].bundle] # Absent
  <2> SUFFICES ASSUME NEW i \in DOMAIN chain
               PROVE  chain[i].bundle <= gens /\ bundles[chain[i].bundle] # Absent
    OBVIOUS
  <2>1. chain # <<>>
    BY EmptySeq
  <2>2. latest # Absent /\ chain = latest.chain
    BY <1>1, <2>1 DEF SnapshotIInv, PriorOK, Chain
  <2>3. /\ chain[i].bundle <= latest.generation /\ latest.generation < gens
        /\ bundles[chain[i].bundle] # Absent /\ latest.generation \in Nat
    BY <1>1, <2>2 DEF SnapshotIInv, ChainOK, Typed
  <2>4. chain[i].bundle \in Nat
    <3> HIDE DEF chain
    <3>1. chain[i] \in Item
      BY <1>4, ElementOfSeq, LenProperties
    <3> QED BY <3>1 DEF Item, Generation
  <2> QED BY <1>2, <2>3, <2>4
<1> HIDE DEF item, chain
<1>10. /\ Append(chain, item) \in Seq(Item)
       /\ DOMAIN Append(chain, item) = 1..(Len(chain) + 1) /\ DOMAIN chain = 1..Len(chain)
       /\ Len(chain) \in Nat
       /\ \A i \in 1..Len(chain) : Append(chain, item)[i] = chain[i]
       /\ Append(chain, item)[Len(chain) + 1] = item
  BY <1>3, <1>4, AppendProperties, LenProperties
<1>11. ASSUME NEW i \in DOMAIN Append(chain, item)
       PROVE  /\ Append(chain, item)[i].bundle <= gens
              /\ bundles[Append(chain, item)[i].bundle] # Absent
  <2>1. CASE i = Len(chain) + 1
    BY <1>2, <1>8, <1>10, <2>1 DEF item
  <2>2. CASE i \in DOMAIN chain
    BY <1>9, <1>10, <2>2
  <2> QED BY <1>10, <2>1, <2>2
<1> QED BY <1>1, <1>7, <1>10, <1>11

LEMMA PublishKeeps == SnapshotIInv /\ Publish => SnapshotIInv'
<1> SUFFICES ASSUME SnapshotIInv, Publish PROVE SnapshotIInv'
  OBVIOUS
<1>1. /\ step = "publish" /\ step' = "stamp" /\ latest' # Absent
      /\ UNCHANGED <<ram, stamp, bundles, locals, replayed, bounds>>
  <2>1. latest' \in [generation: Generation, chain: Seq(Item), files: SUBSET Path]
    <3>1. gens \in Generation /\ Present(current) \subseteq Path
      BY BoundsAssumption DEF Publish, SnapshotIInv, Typed, PriorOK, Committing, Generation, Present
    <3>2. Append(Chain(old), [bundle |-> gens, removed |-> Removed(current, old)]) \in Seq(Item)
      BY PublishReplays DEF Publish
    <3> QED BY <3>1, <3>2 DEF Publish
  <2>2. latest' # Absent
    BY <2>1, NoneAssumption
  <2> QED BY <2>2 DEF Publish
<1>2. gens >= 1 /\ gens \in Nat
  BY <1>1, BoundsAssumption DEF SnapshotIInv, Typed, PriorOK, Committing
<1>3. Typed'
  <2>1. gens \in 1..gens /\ Present(current) \subseteq Path
    BY <1>2 DEF Present
  <2> QED BY <1>1, <2>1, PublishReplays DEF SnapshotIInv, Typed, Versions, locals, bounds
<1>4. ChainOK'
  BY <1>1, PublishReplays DEF ChainOK, Present, locals, bounds
<1>5. StampOK'
  <2>1. stamp # Absent => stamp.generation < gens
    <3>1. stamp # Absent => /\ latest # Absent /\ latest.generation < gens
                          /\ stamp.generation <= latest.generation
                          /\ latest.generation \in Nat /\ stamp.generation \in Nat
      BY <1>1 DEF SnapshotIInv, StampOK, ChainOK, Typed
    <3> QED BY <1>2, <3>1
  <2>2. stamp # Absent => stamp.generation \in Nat
    BY DEF SnapshotIInv, Typed
  <2> QED BY <1>1, <1>2, <2>1, <2>2, PublishReplays DEF StampOK
<1>6. PublishedOK'
  BY <1>1, PublishReplays DEF PublishedOK, locals, bounds
<1>7. PriorOK' /\ TarballOK' /\ RestoreOK'
  BY <1>1 DEF SnapshotIInv, PriorOK, Committing, TarballOK, RestoreOK, locals, bounds
<1> QED BY <1>3, <1>4, <1>5, <1>6, <1>7 DEF SnapshotIInv

LEMMA WriteStampKeeps == SnapshotIInv /\ WriteStamp => SnapshotIInv'
<1> SUFFICES ASSUME SnapshotIInv, WriteStamp PROVE SnapshotIInv'
  OBVIOUS
<1>1. /\ step = "stamp" /\ step' = "idle"
      /\ stamp' = [generation |-> gens, files |-> current]
      /\ old' = Absent /\ current' = Absent /\ todo' = {} /\ tarball' = NoFiles
      /\ UNCHANGED <<ram, latest, bundles, replayed, bounds>>
  BY DEF WriteStamp, StampedFiles, Forget
<1>2. gens \in 1..gens /\ gens \in Nat /\ current \in Directory
  BY <1>1, BoundsAssumption, VersionsAreContents DEF SnapshotIInv, Typed, PriorOK, Committing
<1>3. Typed'
  <2>1. NoFiles \in Versions
    BY DEF NoFiles, Versions
  <2> QED BY <1>1, <1>2, <2>1 DEF SnapshotIInv, Typed, Versions, bounds
<1>4. StampOK'
  BY <1>1, <1>2 DEF SnapshotIInv, StampOK, PublishedOK
<1>5. ChainOK' /\ PriorOK' /\ TarballOK' /\ PublishedOK' /\ RestoreOK'
  BY <1>1 DEF SnapshotIInv, ChainOK, PriorOK, Committing, TarballOK, PublishedOK, RestoreOK, bounds
<1> QED BY <1>3, <1>4, <1>5 DEF SnapshotIInv

LEMMA EndCommitKeeps == SnapshotIInv /\ EndCommit => SnapshotIInv'
<1> SUFFICES ASSUME SnapshotIInv, EndCommit PROVE SnapshotIInv'
  OBVIOUS
<1>1. /\ step \in {"tar", "copy", "publish", "stamp"} /\ step' = "idle"
      /\ old' = Absent /\ current' = Absent /\ todo' = {} /\ tarball' = NoFiles
      /\ UNCHANGED <<ram, stamp, latest, bundles, replayed, bounds>>
  BY DEF EndCommit, Forget
<1>2. Typed'
  <2>1. NoFiles \in Versions
    BY DEF NoFiles, Versions
  <2> QED BY <1>1, <2>1 DEF SnapshotIInv, Typed, Versions, bounds
<1>3. ChainOK' /\ StampOK' /\ PriorOK' /\ TarballOK' /\ PublishedOK' /\ RestoreOK'
  BY <1>1 DEF SnapshotIInv, ChainOK, StampOK, PriorOK, Committing, TarballOK, PublishedOK, RestoreOK, bounds
<1> QED BY <1>2, <1>3 DEF SnapshotIInv

LEMMA LossKeeps ==
    SnapshotIInv /\ (LoseNode \/ OwnerDies \/ FreshDirectory \/ RestoreDies) => SnapshotIInv'
<1> SUFFICES ASSUME SnapshotIInv, LoseNode \/ OwnerDies \/ FreshDirectory \/ RestoreDies
             PROVE  SnapshotIInv'
  OBVIOUS
<1>1. /\ step' = "lost" /\ replayed' = 0 /\ stamp' \in {stamp, Absent} /\ current' = Absent
      /\ \/ old' = Absent /\ todo' = {} /\ tarball' = NoFiles
         \/ UNCHANGED <<old, todo, tarball>>
      /\ losses' = losses \/ (losses < MaxLosses /\ losses' = losses + 1)
      /\ UNCHANGED <<latest, bundles, clock, gens>>
  <2>1. CASE LoseNode
    BY <2>1 DEF LoseNode, Forget
  <2>2. CASE OwnerDies
    <3>1. replayed = 0
      BY <2>2 DEF OwnerDies, Owned, SnapshotIInv, RestoreOK
    <3> QED BY <2>2, <3>1 DEF OwnerDies, Forget
  <2>3. CASE FreshDirectory
    BY <2>3 DEF FreshDirectory, locals, bounds, SnapshotIInv, RestoreOK
  <2>4. CASE RestoreDies
    BY <2>4 DEF RestoreDies, locals, SnapshotIInv, RestoreOK
  <2> QED BY <2>1, <2>2, <2>3, <2>4
<1>2. ram' \in Versions
  <2>1. ram \in Versions /\ NoFiles \in Versions
    BY DEF NoFiles, Versions, SnapshotIInv, Typed
  <2>2. CASE ram' \in {ram, NoFiles}
    BY <2>1, <2>2
  <2>3. CASE RestoreDies /\ ram' # ram
    <3> DEFINE item == latest.chain[replayed + 1]
    <3>1. latest # Absent /\ latest.chain \in Seq(Item) /\ replayed \in Nat
      BY <2>3 DEF RestoreDies, SnapshotIInv, Typed, RestoreOK
    <3>2. /\ replayed < Len(latest.chain) /\ bundles[item.bundle] # Absent
          /\ \E done \in SUBSET Path :
               ram' = [f \in Path |-> IF f \in done THEN Apply(ram, item)[f] ELSE ram[f]]
      BY <2>3 DEF RestoreDies
    <3>3. item \in Item
      BY <3>1, <3>2, LenProperties, ElementOfSeq
    <3> HIDE DEF item
    <3>4. PICK done \in SUBSET Path :
            ram' = [f \in Path |-> IF f \in done THEN Apply(ram, item)[f] ELSE ram[f]]
      BY <3>2
    <3>5. bundles[item.bundle] \in Versions
      BY <3>2, <3>3 DEF Item, SnapshotIInv, Typed
    <3>6. ASSUME NEW f \in Path PROVE Apply(ram, item)[f] \in 1..clock \cup {Absent}
      BY <2>1, <3>5 DEF Apply, Versions
    <3>7. ASSUME NEW f \in Path
          PROVE  (IF f \in done THEN Apply(ram, item)[f] ELSE ram[f]) \in 1..clock \cup {Absent}
      BY <2>1, <3>6 DEF Versions
    <3> QED BY <1>1, <3>4, <3>7 DEF Versions
  <2> QED BY <2>2, <2>3 DEF LoseNode, OwnerDies, FreshDirectory
<1>3. Typed'
  <2>1. losses' \in 0..MaxLosses /\ NoFiles \in Versions
    BY <1>1, BoundsAssumption DEF NoFiles, Versions, SnapshotIInv, Typed
  <2> QED BY <1>1, <1>2, <2>1 DEF SnapshotIInv, Typed, Versions
<1>4. ChainOK' /\ StampOK' /\ PriorOK' /\ TarballOK' /\ PublishedOK' /\ RestoreOK'
  BY <1>1 DEF SnapshotIInv, ChainOK, StampOK, PriorOK, Committing, TarballOK, PublishedOK, RestoreOK
<1> QED BY <1>3, <1>4 DEF SnapshotIInv

LEMMA TakeOverKeeps == SnapshotIInv /\ (StartOver \/ BeginRestore) => SnapshotIInv'
<1> SUFFICES ASSUME SnapshotIInv, StartOver \/ BeginRestore PROVE SnapshotIInv'
  OBVIOUS
<1>1. /\ step = "lost"
      /\ \/ step' = "idle" /\ latest = Absent
         \/ step' = "restore" /\ latest # Absent /\ ram = NoFiles /\ stamp = Absent
      /\ UNCHANGED <<ram, stamp, latest, bundles, locals, replayed, bounds>>
  BY DEF StartOver, BeginRestore, EmptyDirectory
<1>2. Typed'
  BY <1>1 DEF SnapshotIInv, Typed, Versions, locals, bounds
<1>3. RestoreOK'
  <2>1. latest # Absent => SubSeq(latest.chain, 1, 0) = <<>> /\ Len(latest.chain) >= 0
    BY LenProperties, SubSeqEmpty DEF SnapshotIInv, Typed
  <2>2. NoFiles = ReplayIn(bundles, <<>>)
    BY ReplayEmpty
  <2> QED BY <1>1, <2>1, <2>2 DEF SnapshotIInv, RestoreOK, locals
<1>4. ChainOK' /\ StampOK' /\ PriorOK' /\ TarballOK' /\ PublishedOK'
  BY <1>1 DEF SnapshotIInv, ChainOK, StampOK, PriorOK, Committing, TarballOK, PublishedOK, locals, bounds
<1> QED BY <1>2, <1>3, <1>4 DEF SnapshotIInv

LEMMA RestoreItemKeeps == SnapshotIInv /\ RestoreItem => SnapshotIInv'
<1> SUFFICES ASSUME SnapshotIInv, RestoreItem PROVE SnapshotIInv'
  OBVIOUS
<1> DEFINE item == latest.chain[replayed + 1]
<1>1. /\ step = "restore" /\ replayed < Len(latest.chain) /\ bundles[item.bundle] # Absent
      /\ ram' = Apply(ram, item) /\ replayed' = replayed + 1
      /\ UNCHANGED <<stamp, latest, bundles, step, locals, bounds>>
  BY DEF RestoreItem
<1>2. /\ latest # Absent /\ latest.chain \in Seq(Item) /\ replayed \in Nat
      /\ Len(latest.chain) \in Nat
  BY <1>1, LenProperties DEF SnapshotIInv, Typed, RestoreOK
<1>3. item \in Item
  BY <1>1, <1>2, ElementOfSeq
<1> HIDE DEF item
<1>4. ram' \in Versions
  <2>1. bundles[item.bundle] \in Versions
    BY <1>1, <1>3 DEF Item, SnapshotIInv, Typed
  <2>2. ASSUME NEW f \in Path
        PROVE  Apply(ram, item)[f] \in 1..clock \cup {Absent}
    BY <2>1 DEF Apply, SnapshotIInv, Typed, Versions
  <2> QED BY <1>1, <2>2 DEF Apply, Versions
<1>5. Typed'
  BY <1>1, <1>2, <1>4 DEF SnapshotIInv, Typed, Versions, locals, bounds
<1>6. RestoreOK'
  <2>1. ram' = ReplayIn(bundles, SubSeq(latest.chain, 1, replayed + 1))
    <3>1. ram = ReplayIn(bundles, SubSeq(latest.chain, 1, replayed))
      BY <1>1 DEF SnapshotIInv, RestoreOK
    <3> QED BY <1>1, <1>2, <3>1, ReplayStep DEF item
  <2> QED BY <1>1, <1>2, <2>1 DEF SnapshotIInv, RestoreOK, locals
<1>7. ChainOK' /\ StampOK' /\ PriorOK' /\ TarballOK' /\ PublishedOK'
  BY <1>1 DEF SnapshotIInv, ChainOK, StampOK, PriorOK, Committing, TarballOK, PublishedOK, locals, bounds
<1> QED BY <1>5, <1>6, <1>7 DEF SnapshotIInv

\* A restore that has come to the end of the chain has what was published.
LEMMA Restored ==
    ASSUME SnapshotIInv, EndRestore
    PROVE  latest # Absent /\ ram = ReplayIn(bundles, latest.chain)
<1>1. /\ step = "restore" /\ replayed = Len(latest.chain) /\ latest # Absent
      /\ latest.chain \in Seq(Item)
      /\ ram = ReplayIn(bundles, SubSeq(latest.chain, 1, replayed))
  BY DEF EndRestore, SnapshotIInv, RestoreOK, Typed
<1>2. SubSeq(latest.chain, 1, Len(latest.chain)) = latest.chain
  BY <1>1, SubSeqFull
<1> QED BY <1>1, <1>2

LEMMA EndRestoreKeeps == SnapshotIInv /\ EndRestore => SnapshotIInv'
<1> SUFFICES ASSUME SnapshotIInv, EndRestore PROVE SnapshotIInv'
  OBVIOUS
<1>1. /\ step = "restore" /\ step' = "idle" /\ replayed' = 0
      /\ stamp' = [generation |-> latest.generation, files |-> ram]
      /\ UNCHANGED <<ram, latest, bundles, locals, bounds>>
  BY DEF EndRestore
<1>2. latest # Absent /\ latest.generation \in 1..gens /\ ram \in Directory /\ gens \in Nat
  BY Restored, VersionsAreContents, BoundsAssumption DEF SnapshotIInv, Typed
<1>3. Typed'
  BY <1>1, <1>2 DEF SnapshotIInv, Typed, Versions, locals, bounds
<1>4. StampOK'
  <2>1. stamp' # Absent => stamp'.generation = latest.generation /\ stamp'.files = ram
    BY <1>1
  <2> QED BY <1>1, <1>2, <2>1, Restored DEF StampOK
<1>5. ChainOK' /\ PriorOK' /\ TarballOK' /\ PublishedOK' /\ RestoreOK'
  BY <1>1 DEF SnapshotIInv, ChainOK, PriorOK, Committing, TarballOK, PublishedOK, RestoreOK, locals, bounds
<1> QED BY <1>3, <1>4, <1>5 DEF SnapshotIInv

LEMMA NextKeeps == SnapshotIInv /\ [SnapshotNext]_snapshotVars => SnapshotIInv'
<1> SUFFICES ASSUME SnapshotIInv, [SnapshotNext]_snapshotVars PROVE SnapshotIInv'
  OBVIOUS
<1>1. CASE \E f \in Path : Write(f) \/ Unlink(f)
  BY <1>1, TaskKeeps
<1>2. CASE Commit
  BY <1>2, BeginCommitKeeps, AddToArchiveKeeps, CheckUnchangedKeeps, CopyBundleKeeps,
     PublishKeeps, WriteStampKeeps, EndCommitKeeps DEF Commit
<1>3. CASE LoseNode \/ OwnerDies \/ FreshDirectory \/ StartOver \/ Restore \/ RestoreDies
  BY <1>3, LossKeeps, TakeOverKeeps, RestoreItemKeeps, EndRestoreKeeps DEF Restore
<1>4. CASE UNCHANGED snapshotVars
  BY <1>4 DEF snapshotVars, locals, bounds, SnapshotIInv, Typed, Versions, ChainOK, StampOK, PriorOK, Committing,
              TarballOK, Changed, Present, PublishedOK, RestoreOK
<1> QED BY <1>1, <1>2, <1>3, <1>4 DEF SnapshotNext

LEMMA InvariantHolds == SnapshotSpec => []SnapshotIInv
<1>1. SnapshotInit => SnapshotIInv
  BY SnapshotInitHolds
<1>2. SnapshotIInv /\ [SnapshotNext]_snapshotVars => SnapshotIInv'
  BY NextKeeps
<1> QED BY <1>1, <1>2, PTL DEF SnapshotSpec

-----------------------------------------------------------------------------
(* Results                                                                  *)

LEMMA TypesFollow == SnapshotIInv => SnapshotTypeOK
<1> SUFFICES ASSUME SnapshotIInv PROVE SnapshotTypeOK
  OBVIOUS
<1>1. Versions \subseteq Directory
  BY VersionsAreContents DEF SnapshotIInv, Typed
<1>2. 1..gens \subseteq Generation
  BY BoundsAssumption DEF SnapshotIInv, Typed, Generation
<1>3. stamp \in [generation: Generation, files: Directory] \cup {Absent}
  BY <1>2 DEF SnapshotIInv, Typed
<1> QED BY <1>1, <1>2, <1>3 DEF SnapshotIInv, Typed, SnapshotTypeOK

(* Whatever commits were begun, cut off or abandoned since, the chain that  *)
(* latest.json names is in the store and replays to the files it lists, and *)
(* the stamp of the directory is in step with it, so the next commit extends*)
(* the right chain (ram_checkpoint.py lines 76-84, 122 and 134).  It holds  *)
(* for chains of any length and any number of files, commits and losses.    *)
THEOREM SnapshotsAreSound == SnapshotSpec => []SnapshotInv
<1>1. SnapshotIInv => RestoreVerifies
  BY ReplayHasIn DEF SnapshotIInv, ChainOK, RestoreVerifies
<1>2. SnapshotIInv => StampAgrees
  BY ReplayHasIn DEF SnapshotIInv, StampOK, StampAgrees
<1> QED BY <1>1, <1>2, TypesFollow, InvariantHolds, PTL DEF SnapshotInv

LEMMA SavedIsReplayed ==
    Saved = IF latest = Absent THEN Absent ELSE ReplayIn(bundles, latest.chain)
BY ReplayHasIn DEF Saved

\* The refinement mapping at a step that publishes nothing.
LEMMA SavedStays ==
    ASSUME UNCHANGED <<latest, bundles>>
    PROVE  Saved' = Saved
BY DEF Saved, Replay, Decides, Touches

LEMMA WorkersStep ==
    ASSUME SnapshotIInv, SnapshotIInv', NEW f \in Path, Write(f) \/ Unlink(f)
    PROVE  Store!Work
<1>1. Owned /\ Owned' /\ UNCHANGED <<current, latest, bundles>>
  BY DEF Write, Unlink, Owned, locals
<1>2. Live = ram /\ Live' = ram'
  BY <1>1 DEF Live
<1>3. ram # Absent /\ ram' \in Directory
  <2>1. SnapshotTypeOK /\ SnapshotTypeOK'
    BY TypesFollow, PTL
  <2> QED BY <2>1, NoneIsNoContent DEF SnapshotTypeOK
<1> QED BY <1>1, <1>2, <1>3, SavedStays DEF Store!Work

LEMMA CommitsStep ==
    ASSUME SnapshotIInv, SnapshotIInv', Commit
    PROVE  [Store!Next]_<<Live, current, Saved>>
<1>1. ram # Absent /\ Live = ram /\ Live' = ram'
  <2>1. Owned /\ Owned'
    BY DEF Commit, BeginCommit, AddToArchive, CheckUnchanged, CopyBundle, Publish, WriteStamp,
           EndCommit, Owned
  <2> QED BY <2>1, TypesFollow, NoneIsNoContent DEF Live, SnapshotTypeOK
<1>2. CASE BeginCommit
  BY <1>1, <1>2, SavedStays DEF BeginCommit, Store!Look, Store!Next
<1>3. CASE (\E f \in Path : AddToArchive(f)) \/ CheckUnchanged
  BY <1>1, <1>3, SavedStays DEF AddToArchive, CheckUnchanged, locals
<1>4. CASE CopyBundle
  <2>1. UNCHANGED <<ram, latest, current>>
    BY <1>4 DEF CopyBundle, locals
  <2>2. Saved' = IF latest = Absent THEN Absent ELSE ReplayIn(bundles', latest.chain)
    <3>1. Saved' = IF latest' = Absent THEN Absent ELSE ReplayIn(bundles', latest'.chain)
      BY DEF Saved, Replay, ReplayIn, Decides, DecidesIn, Touches, TouchesIn, ValueIn
    <3> QED BY <2>1, <3>1
  <2>3. Saved' = Saved
    BY <1>4, <2>2, CopyKeepsReplay, SavedIsReplayed
  <2> QED BY <1>1, <2>1, <2>3
<1>5. CASE Publish
  <2>1. UNCHANGED <<ram, current, bundles>> /\ current # Absent /\ latest' # Absent
    <3>1. step = "publish" /\ step' = "stamp" /\ UNCHANGED <<ram, current, bundles>>
      BY <1>5 DEF Publish, locals
    <3> QED BY <3>1 DEF SnapshotIInv, PriorOK, Committing, PublishedOK
  <2>2. Saved' = IF latest' = Absent THEN Absent ELSE ReplayIn(bundles', latest'.chain)
    BY DEF Saved, Replay, ReplayIn, Decides, DecidesIn, Touches, TouchesIn, ValueIn
  <2>3. Saved' = current
    BY <1>5, <2>1, <2>2, PublishReplays
  <2> QED BY <1>1, <2>1, <2>3 DEF Store!Save, Store!Next
<1>6. CASE WriteStamp \/ EndCommit
  BY <1>1, <1>6, SavedStays DEF WriteStamp, EndCommit, Forget, Store!Abandon, Store!Next
<1> QED BY <1>2, <1>3, <1>4, <1>5, <1>6 DEF Commit

LEMMA OwnersStep ==
    ASSUME SnapshotIInv, SnapshotIInv', LoseNode \/ OwnerDies \/ FreshDirectory \/ StartOver \/ Restore \/ RestoreDies
    PROVE  [Store!Next]_<<Live, current, Saved>>
<1>1. CASE LoseNode \/ OwnerDies \/ FreshDirectory \/ RestoreDies
  <2>1. step' = "lost" /\ current' = Absent /\ UNCHANGED <<latest, bundles>>
    BY <1>1 DEF LoseNode, OwnerDies, FreshDirectory, RestoreDies, Forget, locals, SnapshotIInv,
                RestoreOK
  <2> QED BY <2>1, SavedStays DEF Live, Owned, Store!Lose, Store!Next
<1>2. CASE StartOver
  <2>1. /\ step = "lost" /\ step' = "idle" /\ latest = Absent /\ ram = NoFiles
        /\ UNCHANGED <<ram, current, latest, bundles>>
    BY <1>2 DEF StartOver, locals
  <2>2. Live = Absent /\ Live' = NoFiles /\ Saved = Absent
    BY <2>1 DEF Live, Owned, Saved
  <2> QED BY <2>1, <2>2, SavedStays DEF Store!Recover, Store!Next
<1>3. CASE BeginRestore \/ RestoreItem
  <2>1. step \in {"lost", "restore"} /\ step' = "restore" /\ UNCHANGED <<current, latest, bundles>>
    BY <1>3 DEF BeginRestore, RestoreItem, locals
  <2> QED BY <2>1, SavedStays DEF Live, Owned
<1>4. CASE EndRestore
  <2>1. step = "restore" /\ step' = "idle" /\ UNCHANGED <<ram, current, latest, bundles>>
    BY <1>4 DEF EndRestore, locals
  <2>2. Live = Absent /\ Live' = ram
    BY <2>1 DEF Live, Owned
  <2>3. Saved = ram /\ Saved # Absent
    BY <1>4, Restored, SavedIsReplayed, TypesFollow, NoneIsNoContent DEF SnapshotTypeOK
  <2> QED BY <2>1, <2>2, <2>3, SavedStays DEF Store!Recover, Store!Next
<1> QED BY <1>1, <1>2, <1>3, <1>4 DEF Restore

(* Every step of a commit, a loss and a restore is a step of SnapshotStore  *)
(* or none: what a new owner gets is the whole content the last completed   *)
(* commit looked at, however commits and restores were cut off (lines 94-103*)
(* and 112-136).                                                            *)
THEOREM ImplementsSnapshotStore == SnapshotSpec => StoreSpec
<1>1. SnapshotInit => Store!Init
  BY DEF SnapshotInit, Store!Init, Live, Owned, Saved
<1>2. ASSUME SnapshotIInv, SnapshotIInv', [SnapshotNext]_snapshotVars
      PROVE  [Store!Next]_<<Live, current, Saved>>
  <2>1. CASE \E f \in Path : Write(f) \/ Unlink(f)
    BY <1>2, <2>1, WorkersStep DEF Store!Next
  <2>2. CASE Commit
    BY <1>2, <2>2, CommitsStep
  <2>3. CASE LoseNode \/ OwnerDies \/ FreshDirectory \/ StartOver \/ Restore \/ RestoreDies
    BY <1>2, <2>3, OwnersStep
  <2>4. CASE UNCHANGED snapshotVars
    BY <2>4, SavedStays DEF snapshotVars, locals, Live, Owned
  <2> QED BY <1>2, <2>1, <2>2, <2>3, <2>4 DEF SnapshotNext
<1> QED BY <1>1, <1>2, InvariantHolds, PTL DEF SnapshotSpec, StoreSpec, Store!Spec

-----------------------------------------------------------------------------
(* StageCheckpoint                                                          *)

(***************************************************************************)
(* The inductive invariant.  A row was made from the record its signature  *)
(* names, and with the prompt it names unless the run that appended it is  *)
(* on the record as one that sent another.                                 *)
(***************************************************************************)
RowOK(row) ==
    row # None /\ row.signature # None =>
        /\ row.made[2] = row.signature[2]
        /\ \/ row.made[1] = row.signature[1]
           \/ <<row.signature[1], row.made[1]>> \in torn

RowsOK ==
    /\ \A k \in Key : RowOK(file[k])
    /\ pc = "work" => using = asof \/ <<asof, using>> \in torn

(* Only records that have no row are being worked on.                      *)
PoolOK ==
    /\ pc # "work" => running = {} /\ finished = NoResults
    /\ \A k \in Key : k \in running \/ finished[k] # None => k \in Pending
    /\ \A k \in running : finished[k] = None
    /\ ~exists => file = NoRows

(* What a run takes away and keeps.                                        *)
ReplacingOK ==
    /\ pc \in {"archive", "replace", "prune"} => exists /\ mode = "resume"
    /\ pc \in {"archive", "prune"} => HistoryLimit > 0
    /\ pc \in {"archive", "replace"} => dropped = file /\ kept = CurrentRows(asof)
    /\ pc \in {"prune", "start"} /\ mode = "resume" => file = kept
    /\ (pc \in {"prune", "start"} /\ mode = "resume") \/ (pc = "work" /\ mode # "fresh") =>
           \A k \in Rows(file) : Stamped(k, asof)

Replaced == HistoryLimit > 0 /\ mode = "resume" /\ dropped # kept /\ dropped # NoRows

ArchiveOK ==
    /\ \A i, j \in DOMAIN archive : archive[i] = archive[j] => i = j
    /\ Replaced /\ pc \in {"replace", "prune", "start", "work"} => Contains(archive, dropped)
    /\ Replaced /\ pc \in {"start", "work"} => Len(archive) <= HistoryLimit

(* A run that has returned left the rows that it signed for, and they stay *)
(* even if its prompt is taken back and returns later.                     *)
ReturnOK ==
    returned =>
        /\ pc = "idle" /\ exists
        /\ mode # "fresh" => Rows(file) = Given /\ \A k \in Given : Stamped(k, asof)

StageIInv == TypeOK /\ RowsOK /\ PoolOK /\ ReplacingOK /\ ArchiveOK /\ ReturnOK

-----------------------------------------------------------------------------
(* The pruning of the archive.                                             *)

(* The members of a finite set of numbers are numbered by their order.     *)
UpTo(S, i) == {j \in S : j <= i}

LEMMA Numbering ==
    ASSUME NEW S \in SUBSET Nat, IsFiniteSet(S)
    PROVE  /\ Cardinality(S) \in Nat
           /\ \A i \in S : Cardinality(UpTo(S, i)) \in 1..Cardinality(S)
           /\ \A i, k \in S : Cardinality(UpTo(S, i)) = Cardinality(UpTo(S, k)) => i = k
           /\ \A n \in 1..Cardinality(S) : \E i \in S : Cardinality(UpTo(S, i)) = n
<1>1. Cardinality(S) \in Nat
  BY FS_CardinalityType
<1>2. ASSUME NEW i \in S
      PROVE  IsFiniteSet(UpTo(S, i)) /\ Cardinality(UpTo(S, i)) \in 1..Cardinality(S)
  <2>1. UpTo(S, i) \in SUBSET S /\ i \in UpTo(S, i)
    BY DEF UpTo
  <2>2. IsFiniteSet(UpTo(S, i)) /\ Cardinality(UpTo(S, i)) <= Cardinality(S)
    BY <2>1, FS_Subset
  <2>3. Cardinality(UpTo(S, i)) # 0 /\ Cardinality(UpTo(S, i)) \in Nat
    BY <2>1, <2>2, FS_EmptySet, FS_CardinalityType
  <2> QED BY <1>1, <2>2, <2>3
<1>3. ASSUME NEW i \in S, NEW k \in S, i < k
      PROVE  Cardinality(UpTo(S, i)) # Cardinality(UpTo(S, k))
  <2>1. UpTo(S, i) \in SUBSET UpTo(S, k) /\ UpTo(S, i) # UpTo(S, k)
    <3>1. i \in Nat /\ k \in Nat /\ \A j \in S : j \in Nat
      OBVIOUS
    <3>2. k \in UpTo(S, k) /\ k \notin UpTo(S, i)
      BY <1>3, <3>1 DEF UpTo
    <3>3. \A j \in S : j <= i => j <= k
      BY <1>3, <3>1
    <3> QED BY <3>2, <3>3 DEF UpTo
  <2>2. IsFiniteSet(UpTo(S, k))
    BY <1>2
  <2> QED BY <2>1, <2>2, FS_Subset
<1>4. ASSUME NEW i \in S, NEW k \in S, Cardinality(UpTo(S, i)) = Cardinality(UpTo(S, k))
      PROVE  i = k
  <2>1. i \in Nat /\ k \in Nat /\ ~(i < k) /\ ~(k < i)
    BY <1>3, <1>4
  <2> QED BY <2>1
<1>5. ASSUME NEW n \in 1..Cardinality(S)
      PROVE  \E i \in S : Cardinality(UpTo(S, i)) = n
  <2> DEFINE f == [i \in S |-> Cardinality(UpTo(S, i))]
             N == 1..Cardinality(S)
  <2>1. f \in Injection(S, N)
    <3>1. f \in [S -> N]
      BY <1>2
    <3>2. \A i, k \in S : f[i] = f[k] => i = k
      BY <1>4
    <3> QED BY <3>1, <3>2 DEF Injection, IsInjective
  <2>2. IsFiniteSet(N) /\ Cardinality(N) = Cardinality(S)
    BY <1>1, FS_Interval
  <2>3. f \in Surjection(S, N)
    <3> HIDE DEF f, N
    <3> QED BY <2>1, <2>2, FS_Injection
  <2>4. PICK i \in S : f[i] = n
    BY <2>3 DEF Surjection
  <2> QED BY <2>4
<1> QED BY <1>1, <1>2, <1>4, <1>5

(* Fewer than m of a finite set of numbers have fewer than m above them.   *)
LEMMA NewestAreFew ==
    ASSUME NEW S \in SUBSET Nat, IsFiniteSet(S), NEW m \in Nat,
           NEW T \in SUBSET S, \A i \in T : Cardinality({j \in S : j > i}) < m
    PROVE  IsFiniteSet(T) /\ Cardinality(T) <= m
<1> DEFINE Above(i) == {j \in S : j > i}
           f == [i \in T |-> Cardinality(Above(i))]
           N == 0..(m - 1)
<1>1. ASSUME NEW i \in S
      PROVE  Above(i) \in SUBSET S /\ IsFiniteSet(Above(i)) /\ Cardinality(Above(i)) \in Nat
  BY FS_Subset, FS_CardinalityType
<1>2. ASSUME NEW i \in S, NEW k \in S, i < k
      PROVE  Cardinality(Above(i)) # Cardinality(Above(k))
  <2>1. Above(k) \in SUBSET Above(i) /\ Above(k) # Above(i)
    <3>1. i \in Nat /\ k \in Nat /\ \A j \in S : j \in Nat
      OBVIOUS
    <3>2. k \in Above(i) /\ k \notin Above(k)
      BY <1>2, <3>1
    <3>3. \A j \in S : j > k => j > i
      BY <1>2, <3>1
    <3> QED BY <3>2, <3>3
  <2>2. IsFiniteSet(Above(i))
    BY <1>1
  <2> HIDE DEF Above
  <2> QED BY <2>1, <2>2, FS_Subset
<1>3. f \in Injection(T, N)
  <2>1. f \in [T -> N]
    BY <1>1
  <2>2. ASSUME NEW i \in T, NEW k \in T, f[i] = f[k] PROVE i = k
    <3>1. Cardinality(Above(i)) = Cardinality(Above(k))
      BY <2>2
    <3> HIDE DEF Above
    <3> QED BY <1>2, <3>1
  <2> QED BY <2>1, <2>2 DEF Injection, IsInjective
<1>4. IsFiniteSet(N) /\ Cardinality(N) = m
  BY FS_Interval
<1> HIDE DEF f, N
<1> QED BY <1>3, <1>4, FS_Injection

LEMMA StayingIsFinite ==
    ASSUME TypeOK
    PROVE  /\ DOMAIN archive \in SUBSET Nat /\ IsFiniteSet(DOMAIN archive)
           /\ Others \in SUBSET DOMAIN archive /\ IsFiniteSet(Others)
           /\ Staying \in SUBSET DOMAIN archive /\ IsFiniteSet(Staying)
           /\ Staying \in SUBSET Nat /\ Others \in SUBSET Nat
<1>1. DOMAIN archive = 1..Len(archive) /\ Len(archive) \in Nat
  BY DEF TypeOK
<1>2. IsFiniteSet(DOMAIN archive) /\ DOMAIN archive \in SUBSET Nat
  BY <1>1, FS_Interval
<1>3. Others \in SUBSET DOMAIN archive /\ Staying \in SUBSET DOMAIN archive
  BY DEF Others, Staying
<1> QED BY <1>2, <1>3, FS_Subset

(* What is left is an archive again, has the rows just dropped, and is     *)
(* within the limit.                                                       *)
LEMMA SurvivorsHold ==
    ASSUME TypeOK, HistoryLimit > 0,
           \A i, j \in DOMAIN archive : archive[i] = archive[j] => i = j
    PROVE  /\ Survivors \in Seq(File)
           /\ \A i, j \in DOMAIN Survivors : Survivors[i] = Survivors[j] => i = j
           /\ Contains(archive, dropped) =>
                 Contains(Survivors, dropped) /\ Len(Survivors) <= HistoryLimit
<1> DEFINE S == Staying
           size == Cardinality(S)
           at(n) == CHOOSE i \in S : Cardinality(UpTo(S, i)) = n
<1>1. S \in SUBSET Nat /\ IsFiniteSet(S) /\ S \subseteq DOMAIN archive
  BY StayingIsFinite
<1>2. /\ size \in Nat
      /\ \A i \in S : Cardinality(UpTo(S, i)) \in 1..size
      /\ \A i, k \in S : Cardinality(UpTo(S, i)) = Cardinality(UpTo(S, k)) => i = k
      /\ \A n \in 1..size : \E i \in S : Cardinality(UpTo(S, i)) = n
  <2> HIDE DEF S
  <2> QED BY <1>1, Numbering
<1>3. Survivors = [n \in 1..size |-> archive[at(n)]]
  BY DEF Survivors, UpTo
<1> HIDE DEF S
<1>4. \A n \in 1..size : at(n) \in S /\ Cardinality(UpTo(S, at(n))) = n
  BY <1>2
<1>5. \A i \in S : at(Cardinality(UpTo(S, i))) = i
  BY <1>2, <1>4
<1> HIDE DEF at, size
<1>6. Survivors \in Seq(File) /\ Len(Survivors) = size /\ DOMAIN Survivors = 1..size
  <2>1. ASSUME NEW n \in 1..size PROVE archive[at(n)] \in File
    <3>1. archive \in Seq(File) /\ DOMAIN archive = 1..Len(archive)
      BY DEF TypeOK
    <3>2. at(n) \in 1..Len(archive)
      BY <1>1, <1>4, <3>1
    <3> QED BY <3>1, <3>2
  <2> QED BY <1>2, <1>3, <2>1
<1>7. ASSUME NEW m \in DOMAIN Survivors, NEW n \in DOMAIN Survivors, Survivors[m] = Survivors[n]
      PROVE  m = n
  <2>1. archive[at(m)] = archive[at(n)]
    BY <1>3, <1>6, <1>7
  <2>2. at(m) = at(n)
    BY <1>1, <1>4, <1>6, <2>1
  <2> QED BY <1>4, <1>6, <2>2
<1>8. ASSUME Contains(archive, dropped)
      PROVE  Contains(Survivors, dropped) /\ Len(Survivors) <= HistoryLimit
  <2>1. PICK i \in DOMAIN archive : archive[i] = dropped
    BY <1>8 DEF Contains, TypeOK
  <2>2. i \notin Others /\ i \in S
    BY <2>1 DEF Others, Staying, S
  <2>3. Contains(Survivors, dropped)
    <3> DEFINE n == Cardinality(UpTo(S, i))
    <3>1. n \in 1..size /\ at(n) = i
      BY <1>2, <1>5, <2>2
    <3>2. Survivors[n] = dropped
      BY <1>3, <2>1, <3>1
    <3> QED BY <1>6, <3>1, <3>2 DEF Contains
  <2>4. size <= HistoryLimit
    <3> DEFINE T == S \cap Others
    <3>1. HistoryLimit - 1 \in Nat
      BY StageAssumption
    <3>2. \A j \in T : Cardinality({k \in Others : k > j}) < HistoryLimit - 1
      BY DEF S, Staying, Newer
    <3>3. IsFiniteSet(T) /\ Cardinality(T) <= HistoryLimit - 1
      <4> HIDE DEF T
      <4>1. T \in SUBSET Others
        BY DEF T
      <4> QED BY <3>1, <3>2, <4>1, StayingIsFinite, NewestAreFew
    <3>4. S = T \cup {i}
      <4>1. ASSUME NEW j \in S, j \notin Others PROVE j = i
        <5>1. j \in DOMAIN archive /\ archive[j] = dropped
          BY <1>1, <4>1 DEF Others
        <5> QED BY <2>1, <5>1
      <4> QED BY <2>2, <4>1
    <3>5. i \notin T
      BY <2>2
    <3>6. Cardinality(S) = Cardinality(T) + 1
      <4> HIDE DEF T
      <4> QED BY <3>3, <3>4, <3>5, FS_AddElement
    <3>7. Cardinality(T) \in Nat
      <4> HIDE DEF T
      <4> QED BY <3>3, FS_CardinalityType
    <3> HIDE DEF T
    <3> QED BY <3>1, <3>3, <3>6, <3>7, StageAssumption DEF size
  <2> QED BY <1>6, <2>3, <2>4
<1> QED BY <1>6, <1>7, <1>8

-----------------------------------------------------------------------------
(* The steps of a run.                                                     *)

LEMMA CurrentIsFile ==
    ASSUME TypeOK, NEW version
    PROVE  /\ CurrentRows(version) \in File
           /\ \A k \in Rows(CurrentRows(version)) : Stamped(k, version)
           /\ \A k \in Key : Stamped(k, version) => CurrentRows(version)[k] = file[k]
  BY DEF TypeOK, CurrentRows, Rows, Stamped, File

LEMMA InitHolds == Init => StageIInv
<1> SUFFICES ASSUME Init PROVE StageIInv
  OBVIOUS
<1>1. TypeOK
  <2>1. NoRows \in File
    BY DEF NoRows, File
  <2>2. ASSUME NEW k \in Key PROVE Unstamped(input[k]) \in Row
    BY StageAssumption DEF Init, Unstamped, Row, Made
  <2>3. file \in File
    BY <2>1, <2>2 DEF Init, File
  <2>4. NoResults \in [Key -> Result \cup {None}] /\ 0 \in 0..MaxEdits /\ 0 \in 0..MaxFaults
    BY StageAssumption DEF NoResults
  <2>5. input \in [Key -> Content \cup {None}] /\ archive \in Seq(File)
    BY DEF Init
  <2>6. kept \in File /\ dropped \in File /\ finished \in [Key -> Result \cup {None}]
    BY <2>1, <2>4 DEF Init
  <2>7. /\ context \in Contexts /\ asof \in Contexts /\ using \in Contexts
        /\ torn \subseteq Contexts \X Contexts /\ edits \in 0..MaxEdits /\ faults \in 0..MaxFaults
    BY <2>4 DEF Init
  <2> QED BY <2>3, <2>5, <2>6, <2>7 DEF Init, TypeOK
<1>2. RowsOK
  <2>1. ASSUME NEW k \in Key, file[k] # None PROVE file[k].signature = None
    BY <2>1 DEF Init, NoRows, Unstamped
  <2> QED BY <2>1 DEF Init, RowsOK, RowOK
<1>3. PoolOK /\ ReplacingOK /\ ReturnOK
  BY DEF Init, PoolOK, ReplacingOK, ReturnOK, NoResults
<1>4. ArchiveOK
  BY DEF Init, ArchiveOK
<1> QED BY <1>1, <1>2, <1>3, <1>4 DEF StageIInv

LEMMA BeginHolds ==
    ASSUME StageIInv, NEW m \in {"resume", "overwrite", "fresh"}, Begin(m), faults' \in 0..MaxFaults
    PROVE  StageIInv'
<1> DEFINE rows == IF m = "resume" /\ exists THEN CurrentRows(context) ELSE NoRows
<1>1. /\ pc = "idle" /\ mode' = m /\ asof' = context /\ kept' = rows /\ dropped' = file
      /\ pc' = FirstStep(m, rows) /\ returned' = FALSE
      /\ UNCHANGED <<input, context, edits, exists, file, archive, using, torn, running, finished>>
  BY DEF Begin, outside, disk, pool
<1>2. /\ pc' = "start" => m # "resume" \/ ~exists \/ rows = file
      /\ pc' # "start" => m = "resume" /\ exists /\ pc' \in {"archive", "replace"}
      /\ pc' = "archive" => HistoryLimit > 0
      /\ pc' = "replace" => HistoryLimit = 0
      /\ pc' \in {"archive", "replace", "start"}
  <2>1. CASE m # "resume" \/ ~exists \/ rows = file
    BY <1>1, <2>1 DEF FirstStep
  <2>2. CASE ~(m # "resume" \/ ~exists \/ rows = file)
    <3>1. CASE HistoryLimit > 0
      BY <1>1, <2>2, <3>1, StageAssumption DEF FirstStep
    <3>2. CASE ~(HistoryLimit > 0)
      BY <1>1, <2>2, <3>2, StageAssumption DEF FirstStep
    <3> QED BY <3>1, <3>2
  <2> QED BY <2>1, <2>2
<1>3. rows \in File
  BY CurrentIsFile DEF StageIInv, NoRows, File
<1>4. TypeOK'
  BY <1>1, <1>2, <1>3 DEF StageIInv, TypeOK
<1>5. RowsOK'
  <2> QED BY <1>1, <1>2 DEF StageIInv, RowsOK, RowOK
<1>6. PoolOK'
  BY <1>1, <1>2 DEF StageIInv, PoolOK, Pending, Given, Rows
<1>7. ReplacingOK'
  <2>1. pc' \in {"archive", "replace"} => rows = CurrentRows(asof)'
    BY <1>1, <1>2 DEF CurrentRows, Stamped, Given, Signature
  <2>2. ASSUME pc' = "start", m = "resume"
        PROVE  rows = file /\ \A k \in Rows(file)' : Stamped(k, asof)'
    <3>1. ~exists => file = NoRows /\ rows = NoRows
      BY DEF StageIInv, PoolOK
    <3>2. rows = file
      BY <1>2, <2>2, <3>1
    <3>3. \A k \in Rows(file) : Stamped(k, context)
      <4>1. CASE exists
        BY <2>2, <3>2, <4>1, CurrentIsFile DEF StageIInv
      <4>2. CASE ~exists
        BY <3>1, <4>2 DEF Rows, NoRows
      <4> QED BY <4>1, <4>2
    <3> QED BY <1>1, <3>2, <3>3 DEF Rows, Stamped, Given, Signature
  <2> HIDE DEF rows
  <2> QED BY <1>1, <1>2, <2>1, <2>2 DEF ReplacingOK
<1>8. ArchiveOK'
  <2>1. Replaced' => pc' # "start"
    <3>1. ~exists => file = NoRows
      BY DEF StageIInv, PoolOK
    <3> QED BY <1>1, <1>2, <3>1 DEF Replaced
  <2>2. Replaced' => pc' # "replace"
    BY <1>1, <1>2 DEF Replaced
  <2>3. pc' \notin {"replace", "prune", "start", "work"} \/ ~Replaced'
    BY <1>2, <2>1, <2>2
  <2> QED BY <1>1, <2>3 DEF StageIInv, ArchiveOK
<1>9. ReturnOK'
  BY <1>1 DEF ReturnOK
<1> QED BY <1>4, <1>5, <1>6, <1>7, <1>8, <1>9 DEF StageIInv

LEMMA ArchiveHolds ==
    ASSUME StageIInv, Archive
    PROVE  StageIInv'
<1>1. /\ pc = "archive" /\ pc' = "replace"
      /\ archive' = IF Contains(archive, dropped) THEN archive ELSE Append(archive, dropped)
      /\ UNCHANGED <<input, context, edits, exists, file, mode, asof, using, kept, dropped, torn,
                     running, finished, returned, faults>>
  BY DEF Archive, outside, run, pool
<1>2. archive \in Seq(File) /\ dropped \in File
  BY DEF StageIInv, TypeOK
<1>3. /\ archive' \in Seq(File) /\ Contains(archive', dropped)
      /\ \A i, j \in DOMAIN archive' : archive'[i] = archive'[j] => i = j
  <2>1. CASE Contains(archive, dropped)
    BY <1>1, <1>2, <2>1 DEF StageIInv, ArchiveOK
  <2>2. CASE ~Contains(archive, dropped)
    <3>1. /\ archive' \in Seq(File) /\ Len(archive') = Len(archive) + 1
          /\ archive'[Len(archive) + 1] = dropped
          /\ \A i \in 1..Len(archive) : archive'[i] = archive[i] /\ archive[i] # dropped
      BY <1>1, <1>2, <2>2 DEF Contains
    <3>2. Contains(archive', dropped)
      BY <1>2, <3>1 DEF Contains
    <3>3. DOMAIN archive' = 1..(Len(archive) + 1) /\ DOMAIN archive = 1..Len(archive)
      BY <1>2, <3>1
    <3>4. \A i, j \in 1..Len(archive) : archive[i] = archive[j] => i = j
      BY <3>3 DEF StageIInv, ArchiveOK
    <3>5. ASSUME NEW i \in DOMAIN archive', NEW j \in DOMAIN archive', archive'[i] = archive'[j]
          PROVE  i = j
      <4>1. \A n \in DOMAIN archive' : n \in 1..Len(archive) \/ n = Len(archive) + 1
        BY <1>2, <3>3
      <4> QED BY <3>1, <3>4, <3>5, <4>1
    <3> QED BY <3>1, <3>2, <3>5
  <2> QED BY <2>1, <2>2
<1>4. TypeOK'
  BY <1>1, <1>3 DEF StageIInv, TypeOK
<1>5. RowsOK' /\ PoolOK'
  BY <1>1 DEF StageIInv, RowsOK, RowOK, PoolOK, Pending, Given, Rows
<1>6. ReplacingOK'
  <2>1. CurrentRows(asof)' = CurrentRows(asof)
    BY <1>1 DEF CurrentRows, Stamped, Given, Signature
  <2> QED BY <1>1, <2>1 DEF StageIInv, ReplacingOK
<1>7. ArchiveOK'
  BY <1>1, <1>3 DEF ArchiveOK
<1>8. ReturnOK'
  BY <1>1 DEF StageIInv, ReturnOK
<1> QED BY <1>4, <1>5, <1>6, <1>7, <1>8 DEF StageIInv

LEMMA ReplaceHolds ==
    ASSUME StageIInv, Replace
    PROVE  StageIInv'
<1>1. /\ pc = "replace" /\ file' = kept
      /\ pc' = IF HistoryLimit > 0 THEN "prune" ELSE "start"
      /\ UNCHANGED <<input, context, edits, exists, archive, mode, asof, using, kept, dropped, torn,
                     running, finished, returned, faults>>
  BY DEF Replace, outside, run, pool
<1>2. exists /\ mode = "resume" /\ kept = CurrentRows(asof)
  BY <1>1 DEF StageIInv, ReplacingOK
<1>3. \A k \in Key : file'[k] # None => file'[k] = file[k] /\ Stamped(k, asof)
  BY <1>1, <1>2 DEF CurrentRows
<1>4. TypeOK'
  BY <1>1 DEF StageIInv, TypeOK
<1>5. RowsOK'
  BY <1>1, <1>3 DEF StageIInv, RowsOK, RowOK
<1>6. PoolOK'
  <2>1. running = {} /\ finished = NoResults
    BY <1>1 DEF StageIInv, PoolOK
  <2> QED BY <1>1, <1>2, <2>1 DEF PoolOK, NoResults
<1>7. ReplacingOK'
  <2>1. \A k \in Rows(file)' : Stamped(k, asof)'
    BY <1>1, <1>3 DEF Rows, Stamped, Given, Signature
  <2> QED BY <1>1, <1>2, <2>1 DEF ReplacingOK
<1>8. ArchiveOK'
  BY <1>1 DEF StageIInv, ArchiveOK, Replaced
<1>9. ReturnOK'
  BY <1>1 DEF StageIInv, ReturnOK
<1> QED BY <1>4, <1>5, <1>6, <1>7, <1>8, <1>9 DEF StageIInv

LEMMA PruneHolds ==
    ASSUME StageIInv, Prune
    PROVE  StageIInv'
<1>1. /\ pc = "prune" /\ pc' = "start" /\ archive' = Survivors
      /\ UNCHANGED <<input, context, edits, exists, file, mode, asof, using, kept, dropped, torn,
                     running, finished, returned, faults>>
  BY DEF Prune, outside, run, pool
<1>2. /\ Survivors \in Seq(File)
      /\ \A i, j \in DOMAIN Survivors : Survivors[i] = Survivors[j] => i = j
      /\ Contains(archive, dropped) =>
             Contains(Survivors, dropped) /\ Len(Survivors) <= HistoryLimit
  <2>1. HistoryLimit > 0
    BY <1>1 DEF StageIInv, ReplacingOK
  <2>2. TypeOK /\ \A i, j \in DOMAIN archive : archive[i] = archive[j] => i = j
    BY DEF StageIInv, ArchiveOK
  <2> QED BY <2>1, <2>2, SurvivorsHold
<1>3. TypeOK'
  BY <1>1, <1>2 DEF StageIInv, TypeOK
<1>4. RowsOK' /\ PoolOK'
  BY <1>1 DEF StageIInv, RowsOK, RowOK, PoolOK, Pending, Given, Rows
<1>5. ReplacingOK'
  <2>1. mode = "resume" /\ file = kept /\ \A k \in Rows(file) : Stamped(k, asof)
    BY <1>1 DEF StageIInv, ReplacingOK
  <2>2. \A k \in Rows(file)' : Stamped(k, asof)'
    BY <1>1, <2>1 DEF Rows, Stamped, Given, Signature
  <2> QED BY <1>1, <2>1, <2>2 DEF ReplacingOK
<1>6. ArchiveOK'
  <2>1. Replaced => Contains(archive, dropped)
    BY <1>1 DEF StageIInv, ArchiveOK
  <2> QED BY <1>1, <1>2, <2>1 DEF ArchiveOK, Replaced
<1>7. ReturnOK'
  BY <1>1 DEF StageIInv, ReturnOK
<1> QED BY <1>3, <1>4, <1>5, <1>6, <1>7 DEF StageIInv

(* A step that leaves the rows, the archive and what the run goes by.      *)
LEMMA RowsStay ==
    ASSUME StageIInv, pc' = pc \/ pc' = "idle", exists' = exists \/ exists' = TRUE,
           UNCHANGED <<input, context, edits, file, archive, mode, asof, using, kept, dropped, torn>>
    PROVE  RowsOK' /\ ReplacingOK' /\ ArchiveOK'
<1>1. RowsOK' /\ ArchiveOK'
  BY DEF StageIInv, RowsOK, RowOK, ArchiveOK, Replaced
<1>2. ReplacingOK'
  <2>1. CurrentRows(asof)' = CurrentRows(asof)
    BY DEF CurrentRows, Stamped, Given, Signature
  <2>2. (\A k \in Rows(file) : Stamped(k, asof)) => (\A k \in Rows(file)' : Stamped(k, asof)')
    BY DEF Rows, Stamped, Given, Signature
  <2> QED BY <2>1, <2>2 DEF StageIInv, ReplacingOK
<1> QED BY <1>1, <1>2

(* A run that is over, whatever was on file.                               *)
LEMMA EndHolds ==
    ASSUME StageIInv, NEW ok \in BOOLEAN, EndRun(ok), exists' = exists \/ exists' = TRUE,
           UNCHANGED <<outside, file, archive, run>>, faults' \in 0..MaxFaults,
           ok => exists' /\ (mode # "fresh" => Rows(file) = Given /\ \A k \in Given : Stamped(k, asof))
    PROVE  StageIInv'
<1>1. /\ pc' = "idle" /\ returned' = ok /\ running' = {} /\ finished' = NoResults
      /\ UNCHANGED <<input, context, edits, file, archive, mode, asof, using, kept, dropped, torn>>
  BY DEF EndRun, outside, run
<1>2. TypeOK'
  <2>1. NoResults \in [Key -> Result \cup {None}]
    BY DEF NoResults
  <2> QED BY <1>1, <2>1 DEF StageIInv, TypeOK
<1>3. RowsOK' /\ ReplacingOK' /\ ArchiveOK'
  BY <1>1, RowsStay
<1>4. PoolOK'
  BY <1>1 DEF StageIInv, PoolOK, NoResults
<1>5. ReturnOK'
  BY <1>1 DEF ReturnOK, Rows, Given, Stamped, Signature
<1> QED BY <1>1, <1>2, <1>3, <1>4, <1>5 DEF StageIInv

LEMMA SkipHolds == ASSUME StageIInv, Skip PROVE StageIInv'
<1>1. pc = "start" /\ exists /\ Rows(kept) = Given /\ mode # "overwrite"
  BY DEF Skip, AllKept
<1>2. mode # "fresh" => file = kept /\ \A k \in Rows(file) : Stamped(k, asof)
  BY <1>1 DEF StageIInv, TypeOK, ReplacingOK
<1>3. EndRun(TRUE) /\ UNCHANGED <<outside, exists, file, archive, run>> /\ faults' \in 0..MaxFaults
  BY DEF Skip, disk, StageIInv, TypeOK
<1> QED BY <1>1, <1>2, <1>3, EndHolds

LEMMA ReturnHolds == ASSUME StageIInv, Return PROVE StageIInv'
<1>1. pc = "work" /\ Pending = {}
  BY DEF Return
<1>2. ASSUME mode # "fresh"
      PROVE  Rows(file) = Given /\ \A k \in Given : Stamped(k, asof)
  <2>1. \A k \in Rows(file) : Stamped(k, asof) /\ k \in Given
    BY <1>1, <1>2 DEF StageIInv, ReplacingOK, Stamped
  <2>2. Given \subseteq Rows(file)
    BY <1>1 DEF Pending
  <2> QED BY <2>1, <2>2
<1>3. /\ EndRun(TRUE) /\ exists' = TRUE /\ UNCHANGED <<outside, file, archive, run>>
      /\ faults' \in 0..MaxFaults
  BY DEF Return, StageIInv, TypeOK
<1> QED BY <1>2, <1>3, EndHolds

(* A run that is refused, fails or dies promises nothing.                  *)
LEMMA GivingUpHolds ==
    ASSUME StageIInv, Refuse \/ Crash \/ \E k \in Key : Fatal(k)
    PROVE  StageIInv'
<1>1. EndRun(FALSE) /\ UNCHANGED <<outside, exists, file, archive, run>>
  BY DEF Refuse, Crash, Fatal, disk
<1>2. faults' \in 0..MaxFaults
  <2>1. faults \in 0..MaxFaults
    BY DEF StageIInv, TypeOK
  <2>2. faults' = faults \/ (faults < MaxFaults /\ faults' = faults + 1)
    BY DEF Refuse, Crash, Fatal
  <2> QED BY <2>1, <2>2, StageAssumption
<1> QED BY <1>1, <1>2, EndHolds

LEMMA EnterBodyHolds == ASSUME StageIInv, EnterBody PROVE StageIInv'
<1>1. /\ pc = "start" /\ pc' = "work" /\ (mode = "fresh" => ~exists)
      /\ using' = context /\ torn' = torn \cup ({<<asof, context>>} \ {<<asof, asof>>})
      /\ file' = IF mode = "overwrite" THEN NoRows ELSE file
      /\ exists' = (exists /\ mode # "overwrite")
      /\ UNCHANGED <<input, context, edits, archive, mode, asof, kept, dropped, running, finished,
                     returned, faults>>
  BY DEF EnterBody, outside, pool
<1>2. file' \in File /\ \A k \in Key : file'[k] # None => file'[k] = file[k]
  BY <1>1 DEF StageIInv, TypeOK, NoRows, File
<1>3. TypeOK'
  BY <1>1, <1>2 DEF StageIInv, TypeOK
<1>4. RowsOK'
  <2>1. torn \subseteq torn' /\ (context = asof \/ <<asof, context>> \in torn')
    BY <1>1
  <2> QED BY <1>1, <1>2, <2>1 DEF StageIInv, RowsOK, RowOK
<1>5. PoolOK'
  <2>1. running = {} /\ finished = NoResults
    BY <1>1 DEF StageIInv, PoolOK
  <2>2. ~exists' => file' = NoRows
    BY <1>1 DEF StageIInv, PoolOK
  <2> QED BY <1>1, <2>1, <2>2 DEF PoolOK, NoResults
<1>6. ReplacingOK'
  <2>1. ASSUME mode # "fresh" PROVE \A k \in Rows(file)' : Stamped(k, asof)'
    <3>1. CASE mode = "overwrite"
      BY <1>1, <3>1 DEF Rows, NoRows
    <3>2. CASE mode = "resume"
      BY <1>1, <3>2 DEF StageIInv, ReplacingOK, Rows, Stamped, Given, Signature
    <3> QED BY <2>1, <3>1, <3>2 DEF StageIInv, TypeOK
  <2> QED BY <1>1, <2>1 DEF ReplacingOK
<1>7. ArchiveOK'
  BY <1>1 DEF StageIInv, ArchiveOK, Replaced
<1>8. ReturnOK'
  BY <1>1 DEF StageIInv, ReturnOK
<1> QED BY <1>3, <1>4, <1>5, <1>6, <1>7, <1>8 DEF StageIInv

(* The workers touch no file.                                              *)
LEMMA WorkerHolds ==
    ASSUME StageIInv, pc = "work", UNCHANGED <<outside, disk, pc, run, returned>>,
           faults' \in 0..MaxFaults,
           running' \subseteq Key, finished' \in [Key -> Result \cup {None}],
           \A k \in Key : k \in running' \/ finished'[k] # None => k \in Pending,
           \A k \in running' : finished'[k] = None
    PROVE  StageIInv'
<1>1. UNCHANGED <<input, context, edits, exists, file, archive, pc, mode, asof, using, kept,
                  dropped, torn, returned>>
  BY DEF outside, disk, run
<1>2. TypeOK'
  BY <1>1 DEF StageIInv, TypeOK
<1>3. RowsOK' /\ ReplacingOK' /\ ArchiveOK'
  BY <1>1, RowsStay
<1>4. PoolOK'
  BY <1>1 DEF StageIInv, PoolOK, Pending, Given, Rows
<1>5. ReturnOK'
  BY <1>1 DEF StageIInv, ReturnOK
<1> QED BY <1>2, <1>3, <1>4, <1>5 DEF StageIInv

LEMMA StartWorkerHolds ==
    ASSUME StageIInv, NEW k \in Key, StartWorker(k)
    PROVE  StageIInv'
<1>1. /\ running' = running \cup {k} /\ finished' = finished /\ faults' = faults
      /\ k \in Pending /\ finished[k] = None
      /\ pc = "work" /\ UNCHANGED <<outside, disk, pc, run, returned>>
  BY DEF StartWorker
<1> QED BY <1>1, WorkerHolds DEF StageIInv, TypeOK, PoolOK

LEMMA EndWorkerHolds ==
    ASSUME StageIInv, NEW k \in Key,
           FailWorker(k) \/ \E result \in {"answer", "invalid"} : FinishWorker(k, result)
    PROVE  StageIInv'
<1>1. PICK result \in Result :
         /\ running' = running \ {k} /\ finished' = [finished EXCEPT ![k] = result]
         /\ k \in running /\ pc = "work" /\ UNCHANGED <<outside, disk, pc, run, returned>>
  BY DEF FailWorker, FinishWorker, Result
<1>2. faults' \in 0..MaxFaults
  BY StageAssumption DEF FailWorker, FinishWorker, StageIInv, TypeOK
<1>3. running' \subseteq Key /\ finished' \in [Key -> Result \cup {None}]
  BY <1>1 DEF StageIInv, TypeOK
<1>4. \A j \in Key : finished'[j] = IF j = k THEN result ELSE finished[j]
  BY <1>1 DEF StageIInv, TypeOK
<1> QED BY <1>1, <1>2, <1>3, <1>4, WorkerHolds DEF StageIInv, PoolOK

LEMMA AppendRowHolds ==
    ASSUME StageIInv, NEW k \in Key, AppendRow(k)
    PROVE  StageIInv'
<1>1. /\ pc = "work" /\ finished[k] \in {"answer", "invalid"}
      /\ file' = [file EXCEPT ![k] = Stamp(k)] /\ exists' = TRUE
      /\ finished' = [finished EXCEPT ![k] = None]
      /\ UNCHANGED <<input, context, edits, archive, pc, mode, asof, using, kept, dropped, torn, running,
                     returned, faults>>
  BY DEF AppendRow, outside, run
<1>2. finished[k] # None /\ k \in Pending /\ k \in Given
  BY <1>1, StageAssumption DEF Result, StageIInv, PoolOK, Pending
<1>3. Stamp(k) \in Row /\ Stamp(k) # None
  <2>1. input[k] \in Content
    BY <1>2 DEF Given, StageIInv, TypeOK
  <2>2. Stamp(k) \in Row
    BY <2>1 DEF Stamp, Signature, Row, Made, StageIInv, TypeOK
  <2> QED BY <2>2, StageAssumption
<1>4. \A j \in Key : file'[j] = IF j = k THEN Stamp(k) ELSE file[j]
  BY <1>1 DEF StageIInv, TypeOK, File
<1>5. \A j \in Key : finished'[j] = IF j = k THEN None ELSE finished[j]
  BY <1>1 DEF StageIInv, TypeOK
<1>6. TypeOK'
  <2>1. file' \in File /\ finished' \in [Key -> Result \cup {None}]
    BY <1>1, <1>3 DEF StageIInv, TypeOK, File
  <2> QED BY <1>1, <2>1 DEF StageIInv, TypeOK
<1>7. RowsOK'
  <2>1. using = asof \/ <<asof, using>> \in torn
    BY <1>1 DEF StageIInv, RowsOK
  <2>3. ASSUME NEW j \in Key PROVE RowOK(file[j])'
    <3>1. CASE j = k
      BY <1>1, <1>4, <2>1, <3>1 DEF RowOK, Stamp, Signature
    <3>2. CASE j # k
      BY <1>1, <1>4, <3>2 DEF StageIInv, RowsOK, RowOK
    <3> QED BY <3>1, <3>2
  <2> QED BY <1>1, <2>3 DEF StageIInv, RowsOK
<1>8. PoolOK'
  <2>1. k \notin running
    BY <1>2 DEF StageIInv, PoolOK
  <2>2. \A j \in Key : j # k /\ j \in Pending => j \in Pending'
    BY <1>1, <1>4 DEF Pending, Given, Rows
  <2> QED BY <1>1, <1>5, <2>1, <2>2 DEF StageIInv, PoolOK
<1>9. ReplacingOK'
  <2>1. ASSUME mode # "fresh", NEW j \in Key, file'[j] # None PROVE Stamped(j, asof)'
    <3>1. CASE j = k
      BY <1>1, <1>2, <1>4, <2>1, <3>1 DEF Stamped, Stamp, Given, Signature
    <3>2. CASE j # k
      BY <1>1, <1>4, <2>1, <3>2 DEF StageIInv, ReplacingOK, Rows, Stamped, Given, Signature
    <3> QED BY <3>1, <3>2
  <2> QED BY <1>1, <2>1 DEF ReplacingOK, Rows
<1>10. ArchiveOK'
  BY <1>1 DEF StageIInv, ArchiveOK, Replaced
<1>11. ReturnOK'
  BY <1>1 DEF StageIInv, ReturnOK
<1> QED BY <1>6, <1>7, <1>8, <1>9, <1>10, <1>11 DEF StageIInv

-----------------------------------------------------------------------------
(* What changes around a run, and the theorems.                            *)

LEMMA EditPromptHolds == ASSUME StageIInv, EditPrompt PROVE StageIInv'
<1>1. /\ edits < MaxEdits /\ edits' = edits + 1 /\ context' \in Contexts
      /\ UNCHANGED <<input, exists, file, archive, pc, mode, asof, using, kept, dropped, torn,
                     running, finished, returned, faults>>
  BY DEF EditPrompt, disk, run, pool
<1>2. TypeOK'
  <2>1. edits' \in 0..MaxEdits
    BY <1>1, StageAssumption DEF StageIInv, TypeOK
  <2> QED BY <1>1, <2>1 DEF StageIInv, TypeOK
<1>3. RowsOK'
  BY <1>1 DEF StageIInv, RowsOK, RowOK
<1>5. PoolOK' /\ ArchiveOK'
  BY <1>1 DEF StageIInv, PoolOK, Pending, Given, Rows, ArchiveOK, Replaced
<1>6. ReplacingOK'
  <2>1. CurrentRows(asof)' = CurrentRows(asof)
    BY <1>1 DEF CurrentRows, Stamped, Given, Signature
  <2>2. (\A k \in Rows(file) : Stamped(k, asof)) => (\A k \in Rows(file)' : Stamped(k, asof)')
    BY <1>1 DEF Rows, Stamped, Given, Signature
  <2> QED BY <1>1, <2>1, <2>2 DEF StageIInv, ReplacingOK
<1>7. ReturnOK'
  BY <1>1 DEF StageIInv, ReturnOK, Rows, Given, Stamped, Signature
<1> QED BY <1>2, <1>3, <1>5, <1>6, <1>7 DEF StageIInv

LEMMA EditInputHolds ==
    ASSUME StageIInv, NEW k \in Key, NEW c \in Content \cup {None}, EditInput(k, c)
    PROVE  StageIInv'
<1>1. /\ pc = "idle" /\ edits < MaxEdits /\ edits' = edits + 1
      /\ input' = [input EXCEPT ![k] = c] /\ returned' = FALSE
      /\ UNCHANGED <<context, exists, file, archive, pc, mode, asof, using, kept, dropped, torn, running,
                     finished, faults>>
  BY DEF EditInput, disk, run, pool
<1>2. TypeOK'
  <2>1. input' \in [Key -> Content \cup {None}] /\ edits' \in 0..MaxEdits
    BY <1>1, StageAssumption DEF StageIInv, TypeOK
  <2> QED BY <1>1, <2>1 DEF StageIInv, TypeOK
<1>3. RowsOK' /\ ArchiveOK'
  BY <1>1 DEF StageIInv, RowsOK, RowOK, ArchiveOK, Replaced
<1>4. PoolOK'
  <2>1. running = {} /\ finished = NoResults
    BY <1>1 DEF StageIInv, PoolOK
  <2> QED BY <1>1, <2>1 DEF StageIInv, PoolOK, NoResults
<1>5. ReplacingOK' /\ ReturnOK'
  BY <1>1 DEF ReplacingOK, ReturnOK
<1> QED BY <1>2, <1>3, <1>4, <1>5 DEF StageIInv

LEMMA StutterHolds == ASSUME StageIInv, UNCHANGED vars PROVE StageIInv'
<1>1. /\ UNCHANGED <<input, context, edits, exists, file, archive, pc, mode, asof, using, kept,
                     dropped, torn, running, finished, returned, faults>>
  BY DEF vars, outside, disk, run, pool
<1>2. TypeOK'
  BY <1>1 DEF StageIInv, TypeOK
<1>3. RowsOK' /\ ReplacingOK' /\ ArchiveOK'
  BY <1>1, RowsStay
<1>4. PoolOK'
  BY <1>1 DEF StageIInv, PoolOK, Pending, Given, Rows
<1>5. ReturnOK'
  BY <1>1 DEF StageIInv, ReturnOK, Rows, Given, Stamped, Signature
<1> QED BY <1>2, <1>3, <1>4, <1>5 DEF StageIInv

LEMMA StepHolds == StageIInv /\ [Next]_vars => StageIInv'
<1> SUFFICES ASSUME StageIInv, [Next]_vars PROVE StageIInv'
  OBVIOUS
<1>1. CASE Resume \/ Fresh \/ Overwrite
  <2>1. faults' \in 0..MaxFaults
    <3>1. faults \in 0..MaxFaults
      BY DEF StageIInv, TypeOK
    <3>2. faults' = faults \/ (faults < MaxFaults /\ faults' = faults + 1)
      BY <1>1 DEF Resume, Fresh, Overwrite, Otherwise
    <3> QED BY <3>1, <3>2, StageAssumption
  <2>2. \E m \in {"resume", "overwrite", "fresh"} : Begin(m)
    BY <1>1 DEF Resume, Fresh, Overwrite, Otherwise
  <2> QED BY <2>1, <2>2, BeginHolds
<1>2. CASE Replacing
  BY <1>2, ArchiveHolds, ReplaceHolds, PruneHolds DEF Replacing
<1>3. CASE Skip \/ Refuse \/ EnterBody \/ Return \/ Crash
  BY <1>3, SkipHolds, GivingUpHolds, EnterBodyHolds, ReturnHolds
<1>4. ASSUME NEW k \in Key, Body(k) PROVE StageIInv'
  BY <1>4, StartWorkerHolds, AppendRowHolds, GivingUpHolds, EndWorkerHolds DEF Body
<1>5. CASE EditPrompt
  BY <1>5, EditPromptHolds
<1>6. ASSUME NEW k \in Key, FailWorker(k) PROVE StageIInv'
  BY <1>6, EndWorkerHolds
<1>7. ASSUME NEW k \in Key, NEW c \in Content \cup {None}, EditInput(k, c) PROVE StageIInv'
  BY <1>7, EditInputHolds
<1>8. CASE UNCHANGED vars
  BY <1>8, StutterHolds
<1> QED BY <1>1, <1>2, <1>3, <1>4, <1>5, <1>6, <1>7, <1>8 DEF Next, Work

LEMMA Invariance == Spec => []StageIInv
<1> QED BY InitHolds, StepHolds, PTL DEF Spec

LEMMA TheInvariantHolds == StageIInv => StageInv
<1> SUFFICES ASSUME StageIInv PROVE StageInv
  OBVIOUS
<1>1. RowsAreTrue
  <2> SUFFICES ASSUME NEW k \in Key, Stamped(k, context)
               PROVE  /\ file[k].made[2] = input[k]
                      /\ file[k].made[1] = context \/ <<context, file[k].made[1]>> \in torn
    BY DEF RowsAreTrue
  <2>1. /\ file[k] # None /\ file[k].signature = <<context, input[k]>>
        /\ input[k] \in Content /\ context \in Contexts
    BY DEF Stamped, Signature, Given, StageIInv, TypeOK
  <2>2. /\ file[k].signature # None
        /\ file[k].signature[1] = context /\ file[k].signature[2] = input[k]
    BY <2>1, StageAssumption DEF Made
  <2> QED BY <2>1, <2>2 DEF StageIInv, RowsOK, RowOK
<1>2. HistoryHolds
  BY DEF StageIInv, ArchiveOK, Replaced, HistoryHolds
<1>3. ReturnIsComplete
  <2> SUFFICES ASSUME returned, asof = context, mode # "fresh" PROVE ProbeDone
    BY DEF ReturnIsComplete
  <2>1. exists /\ Rows(file) = Given /\ \A k \in Given : Stamped(k, context)
    BY DEF StageIInv, ReturnOK
  <2>2. \A k \in Key : CurrentRows(context)[k] # None <=> k \in Given
    BY <2>1 DEF CurrentRows, Stamped
  <2>3. Rows(CurrentRows(context)) = Given
    BY <2>2 DEF Rows, Given
  <2> QED BY <2>1, <2>3 DEF ProbeDone
<1> QED BY <1>1, <1>2, <1>3 DEF StageIInv, StageInv

(* A row with the current signature was made from the record it names, and *)
(* with the prompt it names unless its run signed with this prompt and     *)
(* sent another one (the prompt is read a second time for the workers);    *)
(* what a run replaced is in the archive, which is pruned to its limit;    *)
(* and a stage that returned is complete whenever its prompt is the        *)
(* current one, also when it was another one in between.                   *)
THEOREM StagesAreSound == Spec => []StageInv
<1> QED BY Invariance, TheInvariantHolds, PTL

LEMMA RowsAreKeptByStep ==
    ASSUME StageIInv, [Next]_vars, NEW k \in Key, Stamped(k, SignedWith), mode' # "overwrite"
    PROVE  file'[k] = file[k]
<1>1. CASE Replace
  <2>1. file' = CurrentRows(asof) /\ SignedWith = asof
    BY <1>1 DEF Replace, StageIInv, ReplacingOK, SignedWith
  <2> QED BY <2>1, CurrentIsFile DEF StageIInv
<1>2. CASE EnterBody
  BY <1>2 DEF EnterBody
<1>3. ASSUME NEW j \in Key, AppendRow(j) PROVE file'[k] = file[k]
  <2>1. finished[j] # None /\ j \in Pending
    BY <1>3, StageAssumption DEF AppendRow, Result, StageIInv, PoolOK
  <2>2. j # k
    BY <2>1 DEF Pending, Rows, Stamped
  <2> QED BY <1>3, <2>2 DEF AppendRow, StageIInv, TypeOK, File
<1>4. CASE UNCHANGED file
  BY <1>4
<1>5. Replace \/ EnterBody \/ (\E j \in Key : AppendRow(j)) \/ UNCHANGED file
  BY DEF Next, Resume, Fresh, Overwrite, Otherwise, Begin, Work, Replacing, Archive, Prune, Skip,
         Refuse, Return, Body, StartWorker, FinishWorker, Fatal, Crash, EditPrompt, FailWorker,
         EditInput, vars, disk
<1> QED BY <1>1, <1>2, <1>3, <1>4, <1>5

(* No run, crash, error or edit loses or replaces a row that is up to date *)
(* for the run, unless the run was told to overwrite.                      *)
THEOREM UnchangedRowsStay == Spec => UnchangedKept
<1>1. StageIInv /\ [Next]_vars =>
         [\A k \in Key : Stamped(k, SignedWith) /\ mode' # "overwrite" => file'[k] = file[k]]_vars
  BY RowsAreKeptByStep
<1> QED BY <1>1, Invariance, PTL DEF Spec, UnchangedKept
=============================================================================
