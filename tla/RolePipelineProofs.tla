------------------------- MODULE RolePipelineProofs -------------------------
(***************************************************************************)
(* Theorems about RolePipeline: the safety properties it states, for       *)
(* every number of images, stages, workers, files, crashes and exceptions, *)
(* and that the checkpoint file implements LockStep.                       *)
(*                                                                         *)
(* The inductive invariant says how the three copies of an image's state   *)
(* stand to each other: the worker's is ahead of stored, stored is ahead of*)
(* the file by nothing but the stage that is running, and whoever is about *)
(* to replace the file holds exactly what is stored.                       *)
(***************************************************************************)
EXTENDS RolePipeline, TLAPS

(* The file has the image as the process knows it.                         *)
InFile(i) == disk[i] = stored[i] \/ (disk[i] = Absent /\ stored[i] = Fresh)

MemoryOK(i) ==
    /\ stored[i] \in State
    /\ Even(stored[i].version)
    /\ StepOf(disk[i]) >= run - 1
    /\ stored[i].step >= StepOf(disk[i])
    /\ stored[i].step # StepOf(disk[i]) => stored[i].step = run
    /\ disk[i] # Absent => disk[i].version <= stored[i].version
    /\ run = Review => disk[i] # Absent /\ stored[i].version = disk[i].version

ThreadOK(i) ==
    /\ pc[i] = "off" <=> i \notin selected
    /\ pc[i] \in {"queued", "cancelled"} => InFile(i)
    /\ pc[i] = "done" => disk[i] = stored[i] /\ stored[i].step >= run
    /\ pc[i] \in {"working", "saving"} => StepOf(disk[i]) < run
    /\ pc[i] = "working" => /\ work[i] \in State
                            /\ work[i].step = stored[i].step
                            /\ stored[i].step < run
                            /\ work[i].version >= stored[i].version
                            /\ run = Review => work[i].version = stored[i].version
    /\ pc[i] = "saving" => work[i] = stored[i] /\ writing[i] = stored
    /\ writing[i] # Absent => pc[i] = "saving"

ProcessInv ==
    /\ run = 0 => phase = "off" /\ pc = Off /\ writing = Nothing
    /\ run # 0 => phase # "off"
    /\ phase \notin {"off", "work"} =>
           run >= Finalize /\ \A i \in selected : pc[i] = "done"

ThreadInv ==
    run # 0 => \A i \in Image : /\ ThreadOK(i)
                                /\ IF i \in selected THEN MemoryOK(i) ELSE stored[i] = Absent

LockInv == \A i, j \in Image : writing[i] # Absent /\ writing[j] # Absent => i = j

DiskInv == \A i \in Image : disk[i] # Absent => i \in selected /\ Even(disk[i].version)

FilesInv ==
    /\ phase = "work" => written = 0
    /\ phase = "export" => \A f \in 1..written : files[f] = Delivery(stored)
    /\ phase \in {"check", "draw", "recheck"} =>
           \A f \in 1..NumFiles : files[f] = Delivery(stored)

IInv == /\ TypeOK /\ ProcessInv /\ ThreadInv /\ LockInv /\ DiskInv /\ FilesInv
        /\ CompleteStaysComplete

-----------------------------------------------------------------------------
ImageOK(i) == /\ ThreadOK(i)
              /\ IF i \in selected THEN MemoryOK(i) ELSE stored[i] = Absent

LEMMA AbsentState ==
    /\ Absent \notin State /\ Absent \notin Checkpoint
    /\ Fresh \in State /\ Fresh # Absent /\ Even(Fresh.version)
    /\ StepOf(Absent) = 0
    /\ \A s \in State : /\ StepOf(s) = s.step /\ s.step \in 0..Steps
                        /\ s.version \in 0..MaxVersion
<1>1. Absent \notin State /\ Absent \notin Checkpoint
  BY AbsentAssumption
<1>2. Fresh \in State
  BY SizesAssumption DEF Fresh, State
<1>3. Even(Fresh.version)
  BY DEF Fresh, Even
<1>4. \A s \in State : StepOf(s) = s.step /\ s.step \in 0..Steps /\ s.version \in 0..MaxVersion
  BY <1>1 DEF StepOf, State
<1> QED BY <1>1, <1>2, <1>3, <1>4 DEF StepOf

LEMMA DurableNat ==
    ASSUME IInv, NEW i \in Image
    PROVE  StepOf(disk[i]) \in 0..Steps
BY AbsentState, SizesAssumption DEF IInv, TypeOK, Checkpoint

(* A worker that has not returned is one of the pool of a stage.           *)
LEMMA AtWork ==
    ASSUME IInv, NEW i \in Image, pc[i] \notin {"off", "done"}
    PROVE  phase = "work" /\ run # 0 /\ i \in selected /\ run \in 1..Steps
<1>1. run # 0
  BY DEF IInv, ProcessInv, Off
<1>2. i \in selected
  BY <1>1 DEF IInv, ThreadInv, ThreadOK
<1>3. phase = "work"
  BY <1>1, <1>2 DEF IInv, ProcessInv
<1> QED BY <1>1, <1>2, <1>3, SizesAssumption DEF IInv, TypeOK

(* What a step of a worker that leaves the files alone has to preserve.    *)
LEMMA PoolKept ==
    ASSUME IInv, phase = "work", run # 0,
           UNCHANGED <<durable, complete, control>>,
           stored' \in Checkpoint, work' \in Checkpoint,
           pc' \in [Image -> {"off", "queued", "working", "saving", "done", "failed",
                              "cancelled"}],
           writing' \in [Image -> Checkpoint \cup {Absent}],
           crashes' \in 0..MaxCrashes, failures' \in 0..MaxFailures,
           \A i \in Image : ImageOK(i)',
           LockInv'
    PROVE  IInv'
<1>1. TypeOK'
  BY DEF IInv, TypeOK, durable, control, outputs
<1>2. ProcessInv'
  BY DEF IInv, ProcessInv, durable, control, outputs
<1>3. ThreadInv'
  BY DEF ThreadInv, ImageOK
<1>4. DiskInv'
  BY DEF IInv, DiskInv, durable
<1>5. FilesInv'
  BY DEF IInv, FilesInv, control
<1>6. CompleteStaysComplete'
  BY DEF IInv, CompleteStaysComplete, durable, outputs, DurableStep, Delivery
<1> QED BY <1>1, <1>2, <1>3, <1>4, <1>5, <1>6 DEF IInv

(* An image the step does not touch.                                       *)
LEMMA OthersOK ==
    ASSUME IInv, run # 0, NEW j \in Image,
           UNCHANGED <<selected, disk, run>>,
           stored'[j] = stored[j], work'[j] = work[j], pc'[j] = pc[j],
           writing'[j] = writing[j],
           pc[j] = "saving" => stored' = stored
    PROVE  ImageOK(j)'
<1>1. ImageOK(j)
  BY DEF IInv, ThreadInv, ImageOK
<1>2. ThreadOK(j)'
  BY <1>1 DEF ImageOK, ThreadOK, InFile
<1>3. MemoryOK(j)' <=> MemoryOK(j)
  BY DEF MemoryOK
<1> QED BY <1>1, <1>2, <1>3 DEF ImageOK

LEMMA ReturnKept == \A i \in Image : IInv /\ Return(i) => IInv'
<1> SUFFICES ASSUME NEW i \in Image, IInv, Return(i) PROVE IInv'
  OBVIOUS
<1>1. /\ pc[i] = "queued" /\ stored[i].step >= run /\ pc' = [pc EXCEPT ![i] = "done"]
      /\ UNCHANGED <<durable, complete, control, stored, work, writing, bounds>>
  BY DEF Return, NextInQueue, Skip, At
<1>2. phase = "work" /\ run # 0 /\ i \in selected /\ run \in 1..Steps
  BY <1>1, AtWork
<1>3. ImageOK(i)
  BY <1>2 DEF IInv, ThreadInv, ImageOK
<1>4. disk[i] = stored[i]
  BY <1>1, <1>2, <1>3, SizesAssumption DEF ImageOK, ThreadOK, InFile, Fresh
<1>5. pc' \in [Image -> {"off", "queued", "working", "saving", "done", "failed",
                         "cancelled"}] /\ pc'[i] = "done"
  BY <1>1 DEF IInv, TypeOK
<1>6. ImageOK(i)'
  <2>1. MemoryOK(i)'
    BY <1>1, <1>2, <1>3 DEF ImageOK, MemoryOK, durable, control
  <2>2. ThreadOK(i)'
    BY <1>1, <1>2, <1>3, <1>4, <1>5 DEF ImageOK, ThreadOK, durable, control
  <2> QED BY <1>1, <1>2, <2>1, <2>2 DEF ImageOK, durable
<1>7. ASSUME NEW j \in Image PROVE ImageOK(j)'
  <2>1. CASE j = i
    BY <2>1, <1>6
  <2>2. CASE j # i
    <3>1. pc'[j] = pc[j]
      BY <1>1, <2>2 DEF IInv, TypeOK
    <3> QED BY <1>1, <1>2, <3>1, OthersOK DEF durable, control
  <2> QED BY <2>1, <2>2
<1>8. LockInv'
  BY <1>1 DEF IInv, LockInv
<1> QED BY <1>1, <1>2, <1>5, <1>7, <1>8, PoolKept DEF IInv, TypeOK, bounds

LEMMA StartKept == \A i \in Image : IInv /\ Start(i) => IInv'
<1> SUFFICES ASSUME NEW i \in Image, IInv, Start(i) PROVE IInv'
  OBVIOUS
<1>1. /\ pc[i] = "queued" /\ ~(stored[i].step >= run) /\ pc' = [pc EXCEPT ![i] = "working"]
      /\ work' = [work EXCEPT ![i] = stored[i]]
      /\ UNCHANGED <<durable, complete, control, stored, writing, bounds>>
  BY DEF Start, NextInQueue, Skip, At
<1>2. phase = "work" /\ run # 0 /\ i \in selected /\ run \in 1..Steps
  BY <1>1, AtWork
<1>3. ThreadOK(i) /\ MemoryOK(i) /\ stored[i] \in State
  BY <1>2 DEF IInv, ThreadInv, MemoryOK
<1>4. StepOf(disk[i]) < run /\ stored[i].step < run
  <2>1. stored[i].step \in 0..Steps
    BY <1>3, AbsentState
  <2>2. StepOf(disk[i]) \in 0..Steps /\ stored[i].step >= StepOf(disk[i])
    BY <1>3, DurableNat DEF MemoryOK
  <2> QED BY <1>1, <1>2, <2>1, <2>2, SizesAssumption
<1>5. pc' \in [Image -> {"off", "queued", "working", "saving", "done", "failed",
                         "cancelled"}] /\ pc'[i] = "working"
  BY <1>1 DEF IInv, TypeOK
<1>6. work' \in Checkpoint /\ work'[i] = stored[i]
  BY <1>1, <1>3 DEF IInv, TypeOK, Checkpoint
<1>7. ImageOK(i)'
  <2>1. MemoryOK(i)'
    BY <1>1, <1>2, <1>3 DEF MemoryOK, durable, control
  <2>2. stored[i].version >= stored[i].version
    BY <1>3, AbsentState
  <2>3. ThreadOK(i)'
    BY <1>1, <1>2, <1>3, <1>4, <1>5, <1>6, <2>2 DEF ThreadOK, durable, control
  <2> QED BY <1>1, <1>2, <2>1, <2>3 DEF ImageOK, durable
<1>8. ASSUME NEW j \in Image PROVE ImageOK(j)'
  <2>1. CASE j = i
    BY <2>1, <1>7
  <2>2. CASE j # i
    <3>1. pc'[j] = pc[j] /\ work'[j] = work[j]
      BY <1>1, <2>2 DEF IInv, TypeOK, Checkpoint
    <3> QED BY <1>1, <1>2, <3>1, OthersOK DEF durable, control
  <2> QED BY <2>1, <2>2
<1>9. LockInv'
  BY <1>1 DEF IInv, LockInv
<1> QED BY <1>1, <1>2, <1>5, <1>6, <1>8, <1>9, PoolKept DEF IInv, TypeOK, bounds

LEMMA ChangeKept == \A i \in Image : IInv /\ Change(i) => IInv'
<1> SUFFICES ASSUME NEW i \in Image, IInv, Change(i) PROVE IInv'
  OBVIOUS
<1>1. /\ pc[i] = "working" /\ run # Review /\ work[i].version < MaxVersion
      /\ work' = [work EXCEPT ![i] = Changed(i)]
      /\ UNCHANGED <<durable, complete, control, stored, pc, writing, bounds>>
  BY DEF Change
<1>2. phase = "work" /\ run # 0 /\ i \in selected /\ run \in 1..Steps
  BY <1>1, AtWork
<1>3. ThreadOK(i) /\ MemoryOK(i) /\ stored[i] \in State /\ work[i] \in State
  BY <1>1, <1>2 DEF IInv, ThreadInv, MemoryOK, ThreadOK
<1>4. /\ Changed(i) \in State /\ Changed(i).step = work[i].step
      /\ Changed(i).version >= stored[i].version
  <2>1. /\ work[i].version >= stored[i].version /\ work[i].version \in 0..MaxVersion
        /\ stored[i].version \in 0..MaxVersion /\ work[i].step \in 0..Steps
    BY <1>1, <1>3, AbsentState DEF ThreadOK
  <2>2. work[i].version + 1 \in 0..MaxVersion
    BY <1>1, <2>1, SizesAssumption
  <2> QED BY <2>1, <2>2, SizesAssumption DEF Changed, State
<1>5. work' \in Checkpoint /\ work'[i] = Changed(i)
  BY <1>1, <1>4 DEF IInv, TypeOK, Checkpoint
<1>6. ImageOK(i)'
  <2>1. MemoryOK(i)'
    BY <1>1, <1>2, <1>3 DEF MemoryOK, durable, control
  <2>2. ThreadOK(i)'
    BY <1>1, <1>2, <1>3, <1>4, <1>5 DEF ThreadOK, InFile, durable, control
  <2> QED BY <1>1, <1>2, <2>1, <2>2 DEF ImageOK, durable
<1>7. ASSUME NEW j \in Image PROVE ImageOK(j)'
  <2>1. CASE j = i
    BY <2>1, <1>6
  <2>2. CASE j # i
    <3>1. work'[j] = work[j]
      BY <1>1, <2>2 DEF IInv, TypeOK, Checkpoint
    <3> QED BY <1>1, <1>2, <3>1, OthersOK DEF durable, control
  <2> QED BY <2>1, <2>2
<1>8. LockInv'
  BY <1>1 DEF IInv, LockInv
<1> QED BY <1>1, <1>2, <1>5, <1>7, <1>8, PoolKept DEF IInv, TypeOK, bounds

(* A save, of the work in progress or of the finished stage.               *)
LEMMA SaveKept ==
    ASSUME IInv, NEW i \in Image, NEW state \in State, Save(i, state),
           state.version = work[i].version,
           state.step = work[i].step \/ state.step = run
    PROVE  IInv'
<1>1. /\ pc[i] = "working" /\ Even(work[i].version)
      /\ \A j \in Image : writing[j] = Absent
      /\ work' = [work EXCEPT ![i] = state]
      /\ stored' = [stored EXCEPT ![i] = state]
      /\ writing' = [writing EXCEPT ![i] = stored']
      /\ pc' = [pc EXCEPT ![i] = "saving"]
      /\ UNCHANGED <<durable, complete, control, bounds>>
  BY DEF Save, Unlocked, WithCopy, At
<1>2. phase = "work" /\ run # 0 /\ i \in selected /\ run \in 1..Steps
  BY <1>1, AtWork
<1>3. ThreadOK(i) /\ MemoryOK(i) /\ stored[i] \in State /\ work[i] \in State
  BY <1>1, <1>2 DEF IInv, ThreadInv, MemoryOK, ThreadOK
<1>4. /\ stored' \in Checkpoint /\ stored'[i] = state
      /\ work' \in Checkpoint /\ work'[i] = state
  BY <1>1 DEF IInv, TypeOK, Checkpoint
<1>5. /\ writing' \in [Image -> Checkpoint \cup {Absent}] /\ writing'[i] = stored'
      /\ \A j \in Image \ {i} : writing'[j] = Absent
  BY <1>1, <1>4 DEF IInv, TypeOK
<1>6. pc' \in [Image -> {"off", "queued", "working", "saving", "done", "failed",
                         "cancelled"}] /\ pc'[i] = "saving"
  BY <1>1 DEF IInv, TypeOK
<1>7. MemoryOK(i)'
  <2>1. /\ stored[i].step \in 0..Steps /\ StepOf(disk[i]) \in 0..Steps
        /\ stored[i].version \in 0..MaxVersion /\ work[i].version \in 0..MaxVersion
    BY <1>3, AbsentState, DurableNat
  <2>2. /\ work[i].step = stored[i].step /\ work[i].version >= stored[i].version
        /\ StepOf(disk[i]) < run
        /\ run = Review => work[i].version = stored[i].version
    BY <1>1, <1>3 DEF ThreadOK
  <2>3. state.step >= StepOf(disk[i]) /\ (state.step # StepOf(disk[i]) => state.step = run)
    BY <1>2, <1>3, <2>1, <2>2, SizesAssumption DEF MemoryOK
  <2>4. disk[i] # Absent => disk[i].version <= state.version
    <3>1. disk[i] # Absent => disk[i] \in State /\ disk[i].version \in 0..MaxVersion
      BY AbsentState DEF IInv, TypeOK, Checkpoint
    <3> QED BY <1>3, <2>1, <2>2, <3>1, SizesAssumption DEF MemoryOK
  <2> QED BY <1>1, <1>2, <1>3, <1>4, <2>2, <2>3, <2>4 DEF MemoryOK, durable, control
<1>8. ThreadOK(i)'
  BY <1>1, <1>2, <1>3, <1>4, <1>5, <1>6 DEF ThreadOK, durable, control
<1>9. ASSUME NEW j \in Image PROVE ImageOK(j)'
  <2>1. CASE j = i
    BY <1>1, <1>2, <1>7, <1>8, <2>1 DEF ImageOK, durable
  <2>2. CASE j # i
    <3>1. /\ work'[j] = work[j] /\ stored'[j] = stored[j] /\ pc'[j] = pc[j]
          /\ writing'[j] = writing[j]
      BY <1>1, <2>2 DEF IInv, TypeOK, Checkpoint
    <3>2. pc[j] # "saving"
      <4>1. ThreadOK(j) /\ writing[j] = Absent /\ stored # Absent
        BY <1>1, <1>2, AbsentState DEF IInv, ThreadInv, TypeOK
      <4> QED BY <4>1 DEF ThreadOK
    <3> QED BY <1>1, <1>2, <3>1, <3>2, OthersOK DEF durable, control
  <2> QED BY <2>1, <2>2
<1>10. LockInv'
  BY <1>5 DEF LockInv
<1> QED BY <1>1, <1>2, <1>4, <1>5, <1>6, <1>9, <1>10, PoolKept DEF IInv, TypeOK, bounds

LEMMA SaveUnitKept == \A i \in Image : IInv /\ SaveUnit(i) => IInv'
<1> SUFFICES ASSUME NEW i \in Image, IInv, SaveUnit(i) PROVE IInv'
  OBVIOUS
<1>1. Save(i, work[i]) /\ pc[i] = "working"
  BY DEF SaveUnit, Save
<1>2. work[i] \in State
  BY <1>1, AtWork DEF IInv, ThreadInv, ThreadOK
<1> QED BY <1>1, <1>2, SaveKept

LEMMA SaveStepKept == \A i \in Image : IInv /\ SaveStep(i) => IInv'
<1> SUFFICES ASSUME NEW i \in Image, IInv, SaveStep(i) PROVE IInv'
  OBVIOUS
<1>1. Save(i, Finished(i)) /\ pc[i] = "working"
  BY DEF SaveStep
<1>2. work[i] \in State /\ run \in 1..Steps
  BY <1>1, AtWork DEF IInv, ThreadInv, ThreadOK
<1>3. /\ Finished(i) \in State /\ Finished(i).step = run
      /\ Finished(i).version = work[i].version
  BY <1>2, AbsentState, SizesAssumption DEF Finished, State
<1> QED BY <1>1, <1>3, SaveKept

(* Replacing the file brings every image to what is stored.                *)
LEMMA SavedFile ==
    ASSUME IInv, NEW i \in Image, Saved(i)
    PROVE  /\ disk' = stored /\ stored' = stored /\ run' = run /\ run \in 1..Steps
           /\ selected' = selected /\ i \in selected
           /\ \A j \in Image : StepOf(disk'[j]) >= StepOf(disk[j])
           /\ \A j \in Image : disk[j] # Absent => /\ disk'[j] # Absent
                                                  /\ disk'[j].version >= disk[j].version
<1>1. pc[i] = "saving" /\ disk' = writing[i] /\ stored' = stored /\ run' = run
      /\ selected' = selected
  BY DEF Saved, control
<1>2. run # 0 /\ i \in selected /\ run \in 1..Steps
  BY <1>1, AtWork
<1>3. writing[i] = stored
  BY <1>1, <1>2 DEF IInv, ThreadInv, ThreadOK
<1>4. ASSUME NEW j \in Image
      PROVE  /\ StepOf(stored[j]) >= StepOf(disk[j])
             /\ disk[j] # Absent => stored[j] # Absent /\ stored[j].version >= disk[j].version
  <2>1. CASE j \notin selected
    <3>1. disk[j] = Absent /\ stored[j] = Absent
      BY <1>2, <2>1 DEF IInv, DiskInv, ThreadInv
    <3> QED BY <3>1, AbsentState
  <2>2. CASE j \in selected
    <3>1. MemoryOK(j) /\ stored[j] \in State
      BY <1>2, <2>2 DEF IInv, ThreadInv, MemoryOK
    <3>2. StepOf(stored[j]) = stored[j].step /\ stored[j] # Absent
      BY <3>1, AbsentState
    <3>3. disk[j] # Absent => disk[j].version \in Nat /\ stored[j].version \in Nat
      BY <3>1, AbsentState, SizesAssumption DEF IInv, TypeOK, Checkpoint
    <3> QED BY <3>1, <3>2, <3>3 DEF MemoryOK
  <2> QED BY <2>1, <2>2
<1> QED BY <1>1, <1>2, <1>3, <1>4

LEMMA SavedKept == \A i \in Image : IInv /\ Saved(i) => IInv'
<1> SUFFICES ASSUME NEW i \in Image, IInv, Saved(i) PROVE IInv'
  OBVIOUS
<1>1. /\ pc[i] = "saving"
      /\ writing' = [writing EXCEPT ![i] = Absent]
      /\ pc' = [pc EXCEPT ![i] = IF work[i].step = run THEN "done" ELSE "working"]
      /\ UNCHANGED <<selected, outputs, complete, control, stored, work, bounds>>
  BY DEF Saved, At
<1>2. phase = "work" /\ run # 0 /\ i \in selected /\ run \in 1..Steps
  BY <1>1, AtWork
<1>3. disk' = stored /\ stored \in Checkpoint
  BY SavedFile DEF IInv, TypeOK
<1>4. ThreadOK(i) /\ MemoryOK(i) /\ stored[i] \in State /\ work[i] = stored[i]
  BY <1>1, <1>2 DEF IInv, ThreadInv, MemoryOK, ThreadOK
<1>5. /\ pc' \in [Image -> {"off", "queued", "working", "saving", "done", "failed",
                            "cancelled"}]
      /\ pc'[i] = IF work[i].step = run THEN "done" ELSE "working"
      /\ \A j \in Image \ {i} : pc'[j] = pc[j] /\ pc[j] # "saving"
  <2>1. \A j \in Image \ {i} : pc[j] # "saving"
    <3> SUFFICES ASSUME NEW j \in Image \ {i}, pc[j] = "saving" PROVE FALSE
      OBVIOUS
    <3>1. writing[j] = stored /\ writing[i] = stored
      BY <1>1, <1>2 DEF IInv, ThreadInv, ThreadOK
    <3> QED BY <1>3, <3>1, AbsentState DEF IInv, LockInv
  <2> QED BY <1>1, <2>1 DEF IInv, TypeOK
<1>6. /\ writing' \in [Image -> Checkpoint \cup {Absent}] /\ writing'[i] = Absent
      /\ \A j \in Image \ {i} : writing'[j] = writing[j]
  BY <1>1 DEF IInv, TypeOK
<1>7. ASSUME NEW j \in selected PROVE MemoryOK(j)' /\ StepOf(disk'[j]) = stored[j].step
  <2>1. j \in Image
    BY DEF IInv, TypeOK
  <2>2. MemoryOK(j) /\ stored[j] \in State
    BY <1>2, <2>1 DEF IInv, ThreadInv, MemoryOK
  <2>3. /\ StepOf(disk'[j]) = stored[j].step /\ stored[j] # Absent
        /\ stored[j].step \in Nat /\ stored[j].version \in Nat
    BY <1>3, <2>2, AbsentState, SizesAssumption
  <2>4. StepOf(disk'[j]) >= run - 1
    BY <1>2, <2>1, <2>2, <2>3, DurableNat, SizesAssumption DEF MemoryOK
  <2> QED BY <1>1, <1>3, <2>2, <2>3, <2>4 DEF MemoryOK, control
<1>8. ThreadOK(i)'
  <2>1. stored[i].step \in 0..Steps /\ stored[i].version \in 0..MaxVersion
    BY <1>4, AbsentState
  <2>2. stored[i].step # run => stored[i].step < run
    <3>1. stored[i].step # run => stored[i].step = StepOf(disk[i])
      BY <1>4 DEF MemoryOK
    <3>2. StepOf(disk[i]) < run
      BY <1>1, <1>4 DEF ThreadOK
    <3> QED BY <3>1, <3>2
  <2>3. StepOf(disk'[i]) = stored[i].step
    BY <1>2, <1>7
  <2>4. stored[i].step >= stored[i].step /\ stored[i].version >= stored[i].version
    BY <2>1
  <2>5. stored' = stored /\ work' = work /\ run' = run /\ selected' = selected
    BY <1>1 DEF control
  <2>6. CASE work[i].step = run
    BY <1>1, <1>2, <1>3, <1>4, <1>5, <1>6, <2>3, <2>4, <2>5, <2>6 DEF ThreadOK
  <2>7. CASE work[i].step # run
    BY <1>1, <1>2, <1>3, <1>4, <1>5, <1>6, <2>2, <2>3, <2>4, <2>5, <2>7 DEF ThreadOK
  <2> QED BY <2>6, <2>7
<1>9. ASSUME NEW j \in Image, j # i PROVE ThreadOK(j)'
  <2>1. ThreadOK(j) /\ (pc[j] = "working" => StepOf(disk'[j]) < run)
    <3>1. ThreadOK(j)
      BY <1>2 DEF IInv, ThreadInv
    <3>2. pc[j] = "working" => j \in selected /\ stored[j].step < run
      BY <3>1, AtWork DEF ThreadOK
    <3>3. j \in selected => StepOf(disk'[j]) = stored[j].step
      BY <1>7
    <3> QED BY <3>1, <3>2, <3>3
  <2>2. /\ pc'[j] = pc[j] /\ pc[j] # "saving" /\ writing'[j] = writing[j]
        /\ disk'[j] = stored'[j]
    BY <1>1, <1>3, <1>5, <1>6, <1>9
  <2>3. stored' = stored /\ work' = work /\ run' = run /\ selected' = selected
    BY <1>1 DEF control
  <2> QED BY <2>1, <2>2, <2>3 DEF ThreadOK, InFile
<1>10. ThreadInv'
  <2>1. ASSUME NEW j \in Image PROVE ThreadOK(j)'
    BY <1>8, <1>9
  <2>2. \A j \in Image \ selected : stored[j] = Absent
    BY <1>2 DEF IInv, ThreadInv
  <2> QED BY <1>1, <1>7, <2>1, <2>2 DEF ThreadInv
<1>11. TypeOK'
  BY <1>1, <1>3, <1>5, <1>6 DEF IInv, TypeOK, outputs, control, bounds
<1>12. ProcessInv' /\ FilesInv'
  BY <1>1, <1>2 DEF IInv, ProcessInv, FilesInv, control
<1>13. LockInv'
  BY <1>6, <1>3 DEF IInv, LockInv
<1>14. DiskInv'
  <2>1. \A j \in Image \ selected : stored[j] = Absent
    BY <1>2 DEF IInv, ThreadInv
  <2>2. \A j \in selected : Even(stored[j].version)
    BY <1>2 DEF IInv, TypeOK, ThreadInv, MemoryOK
  <2> QED BY <1>1, <1>3, <2>1, <2>2 DEF DiskInv
<1>15. CompleteStaysComplete'
  <2>1. ASSUME NEW s \in complete, s >= Finalize PROVE Delivery(disk') = Delivery(disk)
    <3>1. s \in 1..Steps /\ StepOf(disk[i]) >= s /\ StepOf(disk[i]) < run
      BY <1>1, <1>2, <1>4, <2>1 DEF IInv, TypeOK, CompleteStaysComplete, DurableStep, ThreadOK
    <3>2. run = Review
      BY <1>2, <2>1, <3>1, DurableNat, SizesAssumption DEF Finalize, Review
    <3>3. ASSUME NEW j \in Image
          PROVE  /\ disk'[j] = Absent <=> disk[j] = Absent
                 /\ disk[j] # Absent => disk'[j].version = disk[j].version
      <4>1. CASE j \in selected
        <5>1. MemoryOK(j) /\ stored[j] # Absent
          BY <1>2, <4>1, AbsentState DEF IInv, ThreadInv, MemoryOK
        <5> QED BY <1>3, <3>2, <5>1 DEF MemoryOK
      <4>2. CASE j \notin selected
        BY <1>2, <1>3, <4>2 DEF IInv, ThreadInv, DiskInv
      <4> QED BY <4>1, <4>2
    <3> QED BY <3>3 DEF Delivery
  <2>2. \A j \in selected : j \in Image
    BY DEF IInv, TypeOK
  <2>3. \A j \in Image : StepOf(disk'[j]) >= StepOf(disk[j])
    BY SavedFile
  <2>4. \A j \in Image : StepOf(disk[j]) \in Nat /\ StepOf(disk'[j]) \in Nat
    <3>1. \A j \in Image : StepOf(stored[j]) \in Nat
      BY <1>3, AbsentState, SizesAssumption DEF Checkpoint
    <3> QED BY <1>3, <3>1, DurableNat, SizesAssumption
  <2>5. ASSUME NEW s \in complete, NEW j \in selected PROVE DurableStep'[j] >= s
    <3>1. StepOf(disk[j]) >= s
      BY <1>1, <2>2, <2>5 DEF IInv, CompleteStaysComplete, DurableStep
    <3>2. s \in Nat
      BY <1>1, SizesAssumption DEF IInv, TypeOK
    <3> QED BY <2>2, <2>3, <2>4, <3>1, <3>2 DEF DurableStep
  <2>6. Review >= Finalize
    BY SizesAssumption DEF Review, Finalize
  <2> QED BY <1>1, <2>1, <2>5, <2>6 DEF IInv, CompleteStaysComplete, outputs
<1> QED BY <1>10, <1>11, <1>12, <1>13, <1>14, <1>15 DEF IInv

LEMMA FailKept == \A i \in Image : IInv /\ Fail(i) => IInv'
<1> SUFFICES ASSUME NEW i \in Image, IInv, Fail(i) PROVE IInv'
  OBVIOUS
<1>1. /\ pc[i] \in {"working", "saving"} /\ failures < MaxFailures
      /\ failures' = failures + 1
      /\ writing' = [writing EXCEPT ![i] = Absent] /\ pc' = [pc EXCEPT ![i] = "failed"]
      /\ UNCHANGED <<durable, complete, control, stored, work, crashes>>
  BY DEF Fail, At
<1>2. phase = "work" /\ run # 0 /\ i \in selected
  BY <1>1, AtWork
<1>3. failures' \in 0..MaxFailures
  BY <1>1, SizesAssumption DEF IInv, TypeOK
<1>4. pc' \in [Image -> {"off", "queued", "working", "saving", "done", "failed",
                         "cancelled"}] /\ pc'[i] = "failed"
  BY <1>1 DEF IInv, TypeOK
<1>5. writing' \in [Image -> Checkpoint \cup {Absent}] /\ writing'[i] = Absent
  BY <1>1 DEF IInv, TypeOK
<1>6. ASSUME NEW j \in Image PROVE ImageOK(j)'
  <2>1. CASE j = i
    <3>1. MemoryOK(i)
      BY <1>2 DEF IInv, ThreadInv
    <3>2. MemoryOK(i)'
      BY <1>1, <3>1 DEF MemoryOK, durable, control
    <3>3. ThreadOK(i)'
      BY <1>1, <1>2, <1>4, <1>5 DEF ThreadOK, durable
    <3> QED BY <1>1, <1>2, <2>1, <3>2, <3>3 DEF ImageOK, durable
  <2>2. CASE j # i
    <3>1. pc'[j] = pc[j] /\ writing'[j] = writing[j]
      BY <1>1, <2>2 DEF IInv, TypeOK
    <3> QED BY <1>1, <1>2, <3>1, OthersOK DEF durable, control
  <2> QED BY <2>1, <2>2
<1>7. LockInv'
  <2>1. ASSUME NEW j \in Image, writing'[j] # Absent PROVE writing[j] # Absent
    BY <1>1, <2>1 DEF IInv, TypeOK
  <2> QED BY <2>1 DEF IInv, LockInv
<1> QED BY <1>1, <1>2, <1>3, <1>4, <1>5, <1>6, <1>7, PoolKept DEF IInv, TypeOK

LEMMA CancelKept == IInv /\ Cancel => IInv'
<1> SUFFICES ASSUME IInv, Cancel PROVE IInv'
  OBVIOUS
<1>1. PICK k \in selected : pc[k] = "failed"
  BY DEF Cancel
<1>2. k \in Image
  BY DEF IInv, TypeOK
<1>3. phase = "work" /\ run # 0
  BY <1>1, <1>2, AtWork
<1>4. /\ pc' = [i \in Image |-> IF pc[i] = "queued" THEN "cancelled" ELSE pc[i]]
      /\ UNCHANGED <<durable, complete, control, stored, work, writing, bounds>>
  BY DEF Cancel
<1>5. pc' \in [Image -> {"off", "queued", "working", "saving", "done", "failed",
                         "cancelled"}]
  BY <1>4 DEF IInv, TypeOK
<1>6. ASSUME NEW j \in Image PROVE ImageOK(j)'
  <2>1. CASE pc[j] = "queued"
    <3>1. pc'[j] = "cancelled"
      BY <1>4, <2>1
    <3>2. ImageOK(j) /\ j \in selected
      BY <1>3, <2>1, AtWork DEF IInv, ThreadInv, ImageOK
    <3>3. MemoryOK(j)'
      BY <1>4, <3>2 DEF ImageOK, MemoryOK, durable, control
    <3>4. ThreadOK(j)'
      BY <1>4, <2>1, <3>1, <3>2 DEF ImageOK, ThreadOK, InFile, durable, control
    <3> QED BY <1>4, <3>2, <3>3, <3>4 DEF ImageOK, durable
  <2>2. CASE pc[j] # "queued"
    <3>1. pc'[j] = pc[j]
      BY <1>4, <2>2
    <3> QED BY <1>3, <1>4, <3>1, OthersOK DEF durable, control
  <2> QED BY <2>1, <2>2
<1>7. LockInv'
  BY <1>4 DEF IInv, LockInv
<1> QED BY <1>3, <1>4, <1>5, <1>6, <1>7, PoolKept DEF IInv, TypeOK, bounds

-----------------------------------------------------------------------------
LEMMA WorkerKept == \A i \in Image : IInv /\ (Worker(i) \/ Fail(i)) => IInv'
BY ReturnKept, StartKept, ChangeKept, SaveUnitKept, SaveStepKept, SavedKept, FailKept
   DEF Worker

(* When every worker has returned, the file is what is stored.             *)
LEMMA AllInFile ==
    ASSUME IInv, run # 0, \A i \in selected : pc[i] = "done"
    PROVE  /\ disk = stored
           /\ \A i \in selected : DurableStep[i] >= run
           /\ \A i \in Image : disk[i] # Absent <=> i \in selected
           /\ \A i \in selected : stored[i] \in State /\ Even(stored[i].version)
<1>1. ASSUME NEW i \in Image
      PROVE  disk[i] = stored[i] /\ (disk[i] # Absent <=> i \in selected)
  <2>1. CASE i \in selected
    <3>1. ThreadOK(i) /\ pc[i] = "done" /\ stored[i] \in State
      BY <2>1 DEF IInv, ThreadInv, MemoryOK
    <3> QED BY <2>1, <3>1, AbsentState DEF ThreadOK
  <2>2. CASE i \notin selected
    BY <2>2 DEF IInv, ThreadInv, DiskInv
  <2> QED BY <2>1, <2>2
<1>2. disk \in Checkpoint /\ stored \in Checkpoint
  BY DEF IInv, TypeOK
<1>3. disk = stored
  BY <1>1, <1>2 DEF Checkpoint
<1>4. ASSUME NEW i \in selected
      PROVE DurableStep[i] >= run /\ stored[i] \in State /\ Even(stored[i].version)
  <2>1. i \in Image
    BY DEF IInv, TypeOK
  <2>2. ThreadOK(i) /\ MemoryOK(i) /\ stored[i] \in State
    BY <2>1 DEF IInv, ThreadInv, MemoryOK
  <2>3. StepOf(disk[i]) = stored[i].step /\ stored[i].step >= run
    BY <1>3, <2>2, AbsentState DEF ThreadOK
  <2> QED BY <2>1, <2>2, <2>3 DEF DurableStep, MemoryOK
<1> QED BY <1>1, <1>3, <1>4

LEMMA NoProcessKept ==
    ASSUME IInv, NoProcess, UNCHANGED durable,
           complete' \in SUBSET (1..Steps), CompleteStaysComplete',
           crashes' \in 0..MaxCrashes, failures' \in 0..MaxFailures
    PROVE  IInv'
<1>1. /\ run' = 0 /\ all' = FALSE /\ phase' = "off" /\ written' = 0
      /\ stored' = Nothing /\ work' = Nothing /\ pc' = Off /\ writing' = Nothing
  BY DEF NoProcess
<1>2. /\ Nothing \in Checkpoint /\ Nothing \in [Image -> Checkpoint \cup {Absent}]
      /\ Off \in [Image -> {"off", "queued", "working", "saving", "done", "failed",
                            "cancelled"}]
      /\ 0 \in 0..Steps /\ 0 \in 0..NumFiles /\ \A i \in Image : Nothing[i] = Absent
  BY SizesAssumption DEF Nothing, Checkpoint, Off
<1>3. TypeOK'
  BY <1>1, <1>2 DEF IInv, TypeOK, durable, outputs
<1>4. ProcessInv' /\ ThreadInv' /\ LockInv' /\ FilesInv'
  BY <1>1, <1>2 DEF ProcessInv, ThreadInv, LockInv, FilesInv
<1>5. DiskInv'
  BY DEF IInv, DiskInv, durable
<1> QED BY <1>3, <1>4, <1>5 DEF IInv

LEMMA BeginStageKept ==
    ASSUME IInv, NEW states \in Checkpoint, NEW s \in 1..Steps, BeginStage(states, s),
           UNCHANGED <<durable, bounds>>, all' \in BOOLEAN,
           complete' \in SUBSET (1..Steps), CompleteStaysComplete',
           \A i \in Image \ selected : states[i] = Absent,
           \A i \in selected : /\ states[i] \in State /\ Even(states[i].version)
                               /\ \/ disk[i] = states[i]
                                  \/ disk[i] = Absent /\ states[i] = Fresh
    PROVE  IInv'
<1>1. /\ \A i \in selected : states[i].step >= s - 1
      /\ run' = s /\ phase' = "work" /\ written' = 0
      /\ stored' = states /\ work' = Nothing /\ writing' = Nothing
      /\ pc' = [i \in Image |-> IF i \in selected THEN "queued" ELSE "off"]
  BY DEF BeginStage, MayEnter
<1>2. /\ Nothing \in Checkpoint /\ Nothing \in [Image -> Checkpoint \cup {Absent}]
      /\ 0 \in 0..NumFiles /\ s \in 0..Steps /\ s # 0
      /\ \A i \in Image : Nothing[i] = Absent
  BY SizesAssumption DEF Nothing, Checkpoint
<1>3. TypeOK'
  BY <1>1, <1>2 DEF IInv, TypeOK, durable, outputs, bounds
<1>4. ProcessInv' /\ LockInv' /\ FilesInv'
  BY <1>1, <1>2 DEF ProcessInv, LockInv, FilesInv
<1>5. DiskInv'
  BY DEF IInv, DiskInv, durable
<1>6. ASSUME NEW i \in Image PROVE ThreadOK(i)'
  BY <1>1, <1>2 DEF ThreadOK, InFile, durable
<1>7. ASSUME NEW i \in selected PROVE MemoryOK(i)'
  <2>1. StepOf(disk[i]) = states[i].step /\ states[i].step \in 0..Steps
    BY AbsentState DEF Fresh
  <2>2. states[i].step >= s - 1 /\ states[i].version >= states[i].version
    BY <1>1, AbsentState
  <2>3. s = Review => disk[i] # Absent
    BY <2>1, <2>2, AbsentState, SizesAssumption DEF Review
  <2>4. disk[i] # Absent => disk[i] = states[i] /\ disk[i].version <= states[i].version
    BY AbsentState
  <2>5. disk'[i] = disk[i] /\ stored'[i] = states[i] /\ run' = s
    BY <1>1 DEF durable
  <2>6. states[i].step >= StepOf(disk[i]) /\ StepOf(disk[i]) >= s - 1
    BY <2>1, <2>2
  <2> QED BY <2>1, <2>3, <2>4, <2>5, <2>6 DEF MemoryOK
<1>8. ThreadInv'
  BY <1>1, <1>6, <1>7 DEF ThreadInv, durable
<1> QED BY <1>3, <1>4, <1>5, <1>8 DEF IInv

(* A stage that ends is complete: its work is in the file, and the outputs *)
(* are those of the checkpoint if the stage has any.                       *)
LEMMA EndStageKept ==
    ASSUME IInv, run # 0, \A i \in selected : pc[i] = "done", EndStage,
           run >= Finalize => \A f \in 1..NumFiles : files[f] = Delivery(disk),
           run = Review => index = Delivery(disk)
    PROVE  IInv'
<1>1. run \in 1..Steps /\ complete' = complete \cup {run} /\ UNCHANGED <<durable, bounds>>
  BY SizesAssumption DEF EndStage, IInv, TypeOK
<1>2. complete' \in SUBSET (1..Steps) /\ all \in BOOLEAN
      /\ crashes' \in 0..MaxCrashes /\ failures' \in 0..MaxFailures
  BY <1>1 DEF IInv, TypeOK, bounds
<1>3. CompleteStaysComplete'
  <2>1. \A i \in selected : DurableStep[i] >= run
    BY AllInFile
  <2> QED BY <1>1, <2>1 DEF IInv, CompleteStaysComplete, durable, outputs, DurableStep,
                           Delivery
<1>4. CASE NoProcess
  BY <1>1, <1>2, <1>3, <1>4, NoProcessKept
<1>5. CASE run < Steps /\ BeginStage(stored, run + 1) /\ UNCHANGED all
  <2>1. run + 1 \in 1..Steps
    BY <1>1, <1>5, SizesAssumption
  <2>2. stored \in Checkpoint /\ \A i \in Image \ selected : stored[i] = Absent
    BY DEF IInv, TypeOK, ThreadInv
  <2>3. disk = stored /\ \A i \in selected : stored[i] \in State /\ Even(stored[i].version)
    BY AllInFile
  <2> QED BY <1>1, <1>2, <1>3, <1>5, <2>1, <2>2, <2>3, BeginStageKept
<1> QED BY <1>4, <1>5 DEF EndStage

LEMMA LoadedStates ==
    ASSUME IInv
    PROVE  /\ Loaded \in Checkpoint
           /\ \A i \in Image \ selected : Loaded[i] = Absent
           /\ \A i \in selected : /\ Loaded[i] \in State /\ Even(Loaded[i].version)
                                  /\ \/ disk[i] = Loaded[i]
                                     \/ disk[i] = Absent /\ Loaded[i] = Fresh
                                  /\ DurableStep[i] = Loaded[i].step
<1>1. ASSUME NEW i \in selected
      PROVE  /\ i \in Image /\ Loaded[i] \in State /\ Even(Loaded[i].version)
             /\ \/ disk[i] = Loaded[i]
                \/ disk[i] = Absent /\ Loaded[i] = Fresh
             /\ DurableStep[i] = Loaded[i].step
  <2>1. i \in Image
    BY DEF IInv, TypeOK
  <2>2. Loaded[i] = IF disk[i] = Absent THEN Fresh ELSE disk[i]
    BY <2>1 DEF Loaded
  <2>3. CASE disk[i] = Absent
    BY <2>1, <2>2, <2>3, AbsentState DEF DurableStep, Fresh
  <2>4. CASE disk[i] # Absent
    <3>1. disk[i] \in State /\ Even(disk[i].version)
      BY <2>1, <2>4 DEF IInv, TypeOK, Checkpoint, DiskInv
    <3> QED BY <2>1, <2>2, <2>4, <3>1, AbsentState DEF DurableStep
  <2> QED BY <2>3, <2>4
<1>2. \A i \in Image \ selected : Loaded[i] = Absent
  BY DEF Loaded
<1>3. Loaded \in Checkpoint
  <2>1. \A i \in Image : Loaded[i] \in State \cup {Absent}
    BY <1>1, <1>2
  <2>2. Loaded = [i \in Image |-> Loaded[i]]
    BY DEF Loaded
  <2> QED BY <2>1, <2>2 DEF Checkpoint
<1> QED BY <1>1, <1>2, <1>3

LEMMA InvokeKept ==
    IInv /\ (InvokeAll \/ \E s \in 1..Steps : Invoke(s)) => IInv'
<1> SUFFICES ASSUME IInv, InvokeAll \/ \E s \in 1..Steps : Invoke(s) PROVE IInv'
  OBVIOUS
<1>1. PICK s \in 1..Steps : /\ BeginStage(Loaded, s) /\ all' \in BOOLEAN
                            /\ UNCHANGED <<durable, complete, bounds>>
  <2>1. CASE InvokeAll
    <3>1. 1 \in 1..Steps
      BY SizesAssumption
    <3>2. BeginStage(Loaded, 1) /\ all' \in BOOLEAN /\ UNCHANGED <<durable, complete, bounds>>
      BY <2>1 DEF InvokeAll
    <3> QED BY <3>1, <3>2
  <2>2. CASE \E s \in 1..Steps : Invoke(s)
    <3>1. PICK s \in 1..Steps : Invoke(s)
      BY <2>2
    <3>2. BeginStage(Loaded, s) /\ all' \in BOOLEAN /\ UNCHANGED <<durable, complete, bounds>>
      BY <3>1 DEF Invoke
    <3> QED BY <3>2
  <2> QED BY <2>1, <2>2
<1>2. complete' \in SUBSET (1..Steps) /\ CompleteStaysComplete'
  BY <1>1 DEF IInv, TypeOK, CompleteStaysComplete, durable, outputs, DurableStep, Delivery
<1> QED BY <1>1, <1>2, LoadedStates, BeginStageKept

LEMMA ProbeKept == \A s \in 1..Steps : IInv /\ Probe(s) => IInv'
<1> SUFFICES ASSUME NEW s \in 1..Steps, IInv, Probe(s) PROVE IInv'
  OBVIOUS
<1>1. /\ \A i \in selected : Loaded[i].step >= s
      /\ s = Finalize => Valid
      /\ s = Review => ValidReview
      /\ complete' = complete \cup {s}
      /\ UNCHANGED <<durable, process, bounds>>
  BY DEF Probe
<1>2. \A i \in selected : DurableStep[i] >= s
  BY <1>1, LoadedStates
<1>3. s >= Finalize => Valid
  BY <1>1, SizesAssumption DEF ValidReview, Finalize, Review
<1>4. s = Review => index = Delivery(disk)
  BY <1>1, SizesAssumption DEF ValidReview, Valid
<1>5. CompleteStaysComplete'
  BY <1>1, <1>2, <1>3, <1>4
     DEF IInv, CompleteStaysComplete, Valid, durable, outputs, DurableStep, Delivery
<1>6. complete' \in SUBSET (1..Steps)
  BY <1>1 DEF IInv, TypeOK
<1>7. TypeOK'
  BY <1>1, <1>6 DEF IInv, TypeOK, durable, outputs, process, control, threads, bounds
<1>8. ProcessInv' /\ LockInv' /\ DiskInv' /\ FilesInv'
  BY <1>1 DEF IInv, ProcessInv, LockInv, DiskInv, FilesInv, durable, outputs, process,
              control, threads
<1>9. ThreadInv'
  BY <1>1 DEF IInv, ThreadInv, ThreadOK, MemoryOK, InFile, durable, process, control, threads
<1> QED BY <1>5, <1>7, <1>8, <1>9 DEF IInv

LEMMA GrowKept == IInv /\ Grow => IInv'
<1> SUFFICES ASSUME IInv, Grow PROVE IInv'
  OBVIOUS
<1>1. /\ run = 0 /\ complete' = {} /\ selected' \in (SUBSET Image) \ {{}}
      /\ selected \subseteq selected'
      /\ UNCHANGED <<disk, outputs, process, bounds>>
  <2>1. PICK i \in Image \ selected : selected' = selected \cup {i}
    BY DEF Grow
  <2>2. selected' \in SUBSET Image /\ selected' # {}
    BY <2>1 DEF IInv, TypeOK
  <2>3. selected' \in (SUBSET Image) \ {{}} /\ selected \subseteq selected'
    <3>1. selected' \in (SUBSET Image) \ {{}}
      BY <2>2
    <3>2. selected \subseteq selected'
      BY <2>1
    <3> QED BY <3>1, <3>2
  <2>4. run = 0 /\ complete' = {} /\ UNCHANGED <<disk, outputs, process, bounds>>
    BY DEF Grow
  <2> QED BY <2>3, <2>4
<1>2. TypeOK'
  BY <1>1 DEF IInv, TypeOK, outputs, process, control, threads, bounds
<1>3. ProcessInv' /\ ThreadInv' /\ LockInv' /\ DiskInv' /\ FilesInv'
  BY <1>1 DEF IInv, ProcessInv, ThreadInv, LockInv, DiskInv, FilesInv, outputs, process,
              control, threads
<1>4. CompleteStaysComplete'
  BY <1>1 DEF CompleteStaysComplete
<1> QED BY <1>2, <1>3, <1>4 DEF IInv

-----------------------------------------------------------------------------
(* The steps of the process between its pool and its end.                  *)
LEMMA ControlKept ==
    ASSUME IInv, UNCHANGED <<selected, disk, complete, run, all, threads, bounds>>,
           phase # "off", phase' \in {"export", "check", "draw", "recheck"},
           run >= Finalize, \A i \in selected : pc[i] = "done",
           files' \in [1..NumFiles -> Versions], index' \in Versions,
           written' \in 0..NumFiles, FilesInv',
           \A f \in 1..NumFiles : files[f] = Delivery(disk) => files'[f] = Delivery(disk),
           index = Delivery(disk) => index' = Delivery(disk)
    PROVE  IInv'
<1>1. TypeOK'
  BY DEF IInv, TypeOK, threads, bounds
<1>2. ProcessInv'
  BY DEF IInv, ProcessInv, threads
<1>3. LockInv' /\ DiskInv'
  BY DEF IInv, LockInv, DiskInv, threads
<1>4. ThreadInv'
  BY DEF IInv, ThreadInv, ThreadOK, MemoryOK, InFile, threads
<1>5. CompleteStaysComplete'
  <2>1. Delivery(disk)' = Delivery(disk) /\ DurableStep' = DurableStep
    BY DEF Delivery, DurableStep
  <2> QED BY <2>1 DEF IInv, CompleteStaysComplete
<1> QED BY <1>1, <1>2, <1>3, <1>4, <1>5 DEF IInv

LEMMA PoolReturned ==
    ASSUME IInv, PoolEmpty, AllReturned
    PROVE  run # 0 /\ run \in 1..Steps /\ \A i \in selected : pc[i] = "done"
BY SizesAssumption DEF IInv, TypeOK, ProcessInv, PoolEmpty, AllReturned

LEMMA AfterPool ==
    ASSUME IInv, phase \notin {"off", "work"}
    PROVE  /\ run # 0 /\ run \in 1..Steps /\ run >= Finalize
           /\ \A i \in selected : pc[i] = "done"
           /\ disk = stored
BY AllInFile, SizesAssumption DEF IInv, TypeOK, ProcessInv

LEMMA EndPoolKept == IInv /\ EndPool => IInv'
<1> SUFFICES ASSUME IInv, EndPool PROVE IInv'
  OBVIOUS
<1>1. EndStage /\ run < Finalize /\ run # 0 /\ run \in 1..Steps
      /\ \A i \in selected : pc[i] = "done"
  BY PoolReturned DEF EndPool
<1>2. ~(run >= Finalize) /\ run # Review
  BY <1>1, SizesAssumption DEF Finalize, Review
<1> QED BY <1>1, <1>2, EndStageKept

LEMMA AbortKept == IInv /\ (Abort \/ Crash) => IInv'
<1> SUFFICES ASSUME IInv, Abort \/ Crash PROVE IInv'
  OBVIOUS
<1>1. NoProcess /\ UNCHANGED <<durable, complete, failures>>
      /\ (crashes' = crashes \/ (crashes < MaxCrashes /\ crashes' = crashes + 1))
  BY DEF Abort, Crash, bounds
<1>2. crashes' \in 0..MaxCrashes /\ failures' \in 0..MaxFailures
      /\ complete' \in SUBSET (1..Steps)
  BY <1>1, SizesAssumption DEF IInv, TypeOK
<1>3. CompleteStaysComplete'
  BY <1>1 DEF IInv, CompleteStaysComplete, durable, outputs, DurableStep, Delivery
<1> QED BY <1>1, <1>2, <1>3, NoProcessKept

LEMMA BeginExportKept == IInv /\ BeginExport => IInv'
<1> SUFFICES ASSUME IInv, BeginExport PROVE IInv'
  OBVIOUS
<1>1. /\ phase = "work" /\ phase' = "export" /\ run >= Finalize
      /\ UNCHANGED <<durable, written, complete, run, all, threads, bounds>>
  BY DEF BeginExport, PoolEmpty, Goto
<1>2. run # 0 /\ \A i \in selected : pc[i] = "done"
  BY PoolReturned DEF BeginExport
<1>3. written = 0
  BY <1>1 DEF IInv, FilesInv
<1>4. FilesInv'
  BY <1>1, <1>3 DEF FilesInv
<1> QED BY <1>1, <1>2, <1>4, ControlKept DEF IInv, TypeOK, durable, outputs

LEMMA ExportKept == IInv /\ Export => IInv'
<1> SUFFICES ASSUME IInv, Export PROVE IInv'
  OBVIOUS
<1>1. /\ phase = "export" /\ written < NumFiles
      /\ files' = [files EXCEPT ![written + 1] = Delivery(stored)]
      /\ written' = written + 1
      /\ phase' = IF written + 1 = NumFiles THEN "check" ELSE "export"
      /\ UNCHANGED <<selected, disk, index, complete, run, all, threads, bounds>>
  BY DEF Export, Goto
<1>2. run # 0 /\ run >= Finalize /\ disk = stored /\ \A i \in selected : pc[i] = "done"
  BY <1>1, AfterPool
<1>3. written + 1 \in 1..NumFiles /\ written' \in 0..NumFiles
  BY <1>1, SizesAssumption DEF IInv, TypeOK
<1>4. Delivery(stored) \in Versions
  BY AbsentState DEF IInv, TypeOK, Checkpoint, Delivery, Versions
<1>5. files' \in [1..NumFiles -> Versions]
      /\ \A f \in 1..NumFiles : files'[f] = IF f = written + 1 THEN Delivery(stored)
                                            ELSE files[f]
  BY <1>1, <1>4 DEF IInv, TypeOK
<1>6. \A f \in 1..written' : f \in 1..NumFiles /\ (f = written + 1 \/ f \in 1..written)
  BY <1>1, <1>3, SizesAssumption DEF IInv, TypeOK
<1>7. \A f \in 1..written' : files'[f] = Delivery(stored)
  BY <1>1, <1>5, <1>6 DEF IInv, FilesInv
<1>8. Delivery(stored)' = Delivery(stored)
  BY <1>1 DEF Delivery, threads
<1>9. FilesInv'
  BY <1>1, <1>7, <1>8 DEF FilesInv
<1> QED BY <1>1, <1>2, <1>3, <1>5, <1>9, ControlKept DEF IInv, TypeOK

(* After an export the files are those of the checkpoint file.             *)
LEMMA ExportedFiles ==
    ASSUME IInv, phase \in {"check", "draw", "recheck"}
    PROVE  Valid
<1>1. disk = stored /\ \A i \in Image : disk[i] # Absent <=> i \in selected
  BY AfterPool, AllInFile
<1> QED BY <1>1 DEF IInv, FilesInv, Valid

LEMMA CheckKept == IInv /\ (Check \/ Recheck) => IInv'
<1> SUFFICES ASSUME IInv, Check \/ Recheck PROVE IInv'
  OBVIOUS
<1>1. phase \in {"check", "recheck"} /\ run # 0 /\ run >= Finalize /\ Valid
      /\ \A i \in selected : pc[i] = "done"
  BY AfterPool, ExportedFiles DEF Check, Recheck
<1>2. CASE EndStage /\ (run = Review => ValidReview)
  <2>1. run = Review => index = Delivery(disk)
    BY <1>1, <1>2, SizesAssumption DEF ValidReview, Valid
  <2> QED BY <1>1, <1>2, <2>1, EndStageKept DEF Valid
<1>3. CASE /\ phase' = "draw"
           /\ UNCHANGED <<durable, written, complete, run, all, threads, bounds>>
  <2>1. \A f \in 1..NumFiles : files[f] = Delivery(stored)
    BY <1>1, AfterPool DEF Valid
  <2>2. FilesInv'
    BY <1>3, <2>1 DEF FilesInv, Delivery, durable, outputs, threads
  <2> QED BY <1>1, <1>3, <2>2, ControlKept DEF IInv, TypeOK, durable, outputs
<1> QED BY <1>2, <1>3 DEF Check, Recheck, Goto

LEMMA DrawKept == IInv /\ Draw => IInv'
<1> SUFFICES ASSUME IInv, Draw PROVE IInv'
  OBVIOUS
<1>1. /\ phase = "draw" /\ phase' = "recheck" /\ index' = files[1]
      /\ UNCHANGED <<selected, disk, files, written, complete, run, all, threads, bounds>>
  BY DEF Draw, Goto
<1>2. run # 0 /\ run >= Finalize /\ disk = stored /\ Valid
      /\ \A i \in selected : pc[i] = "done"
  BY <1>1, AfterPool, ExportedFiles
<1>3. index' = Delivery(disk) /\ index' \in Versions
  BY <1>1, <1>2, SizesAssumption DEF IInv, TypeOK, Valid
<1>4. FilesInv'
  BY <1>1, <1>2 DEF FilesInv, Valid, Delivery, threads
<1> QED BY <1>1, <1>2, <1>3, <1>4, ControlKept DEF IInv, TypeOK

LEMMA InitIInv == Init => IInv
<1> SUFFICES ASSUME Init PROVE IInv
  OBVIOUS
<1>1. /\ Nothing \in Checkpoint /\ Nothing \in [Image -> Checkpoint \cup {Absent}]
      /\ Nothing \in Versions
      /\ Off \in [Image -> {"off", "queued", "working", "saving", "done", "failed",
                            "cancelled"}]
      /\ 0 \in 0..Steps /\ 0 \in 0..NumFiles /\ 0 \in 0..MaxCrashes /\ 0 \in 0..MaxFailures
      /\ \A i \in Image : Nothing[i] = Absent
  BY SizesAssumption DEF Nothing, Checkpoint, Off, Versions
<1>2. TypeOK
  BY <1>1 DEF Init, TypeOK
<1>3. ProcessInv /\ ThreadInv /\ LockInv /\ DiskInv /\ FilesInv
  BY <1>1 DEF Init, ProcessInv, ThreadInv, LockInv, DiskInv, FilesInv
<1>4. CompleteStaysComplete
  BY DEF Init, CompleteStaysComplete
<1> QED BY <1>2, <1>3, <1>4 DEF IInv

LEMMA NextKept == IInv /\ [Next]_vars => IInv'
<1> SUFFICES ASSUME IInv, [Next]_vars PROVE IInv'
  OBVIOUS
<1>1. CASE UNCHANGED vars
  <2>1. /\ UNCHANGED <<selected, disk, files, index, complete, run, all, phase, written>>
        /\ UNCHANGED <<stored, work, pc, writing, crashes, failures>>
    BY <1>1 DEF vars, durable, outputs, process, control, threads, bounds
  <2>2. TypeOK' /\ ProcessInv' /\ LockInv' /\ DiskInv' /\ FilesInv'
    BY <2>1 DEF IInv, TypeOK, ProcessInv, LockInv, DiskInv, FilesInv, Delivery
  <2>3. ThreadInv'
    BY <2>1 DEF IInv, ThreadInv, ThreadOK, MemoryOK, InFile
  <2>4. CompleteStaysComplete'
    BY <2>1 DEF IInv, CompleteStaysComplete, DurableStep, Delivery
  <2> QED BY <2>2, <2>3, <2>4 DEF IInv
<1>2. CASE Call
  BY <1>2, GrowKept, InvokeKept, ProbeKept DEF Call
<1>3. CASE \E i \in Image : Worker(i) \/ Fail(i)
  BY <1>3, WorkerKept
<1>4. CASE Finish
  BY <1>4, CancelKept, AbortKept, EndPoolKept, BeginExportKept, ExportKept, CheckKept,
     DrawKept DEF Finish
<1>5. CASE Crash
  BY <1>5, AbortKept
<1> QED BY <1>1, <1>2, <1>3, <1>4, <1>5 DEF Next

LEMMA Invariance == Spec => []IInv
BY InitIInv, NextKept, PTL DEF Spec

(* Every variable keeps its type: stages and versions stay in their bounds *)
(* and whoever holds the lock writes a whole checkpoint.                   *)
THEOREM TypeCorrect == Spec => []TypeOK
BY Invariance, PTL DEF IInv

(* No save writes a state another worker is in the middle of changing.     *)
THEOREM FileIsWhole == Spec => []WholeOnDisk
<1>1. IInv => WholeOnDisk
  BY DEF IInv, DiskInv, WholeOnDisk
<1> QED BY <1>1, Invariance, PTL

(* A worker that has returned finds its work in the file.                  *)
THEOREM ReturnIsDurable == Spec => []ReturnedIsDurable
<1>1. ASSUME IInv PROVE ReturnedIsDurable
  <2> SUFFICES ASSUME NEW i \in selected, pc[i] = "done"
               PROVE  disk[i] = stored[i] /\ disk[i].step >= run
    BY DEF ReturnedIsDurable
  <2>1. i \in Image
    BY <1>1 DEF IInv, TypeOK
  <2>2. run # 0
    BY <1>1, <2>1 DEF IInv, ProcessInv, Off
  <2> QED BY <1>1, <2>1, <2>2 DEF IInv, ThreadInv, ThreadOK
<1> QED BY <1>1, Invariance, PTL

(* The validation after an export never fails.                             *)
THEOREM ValidationSucceeds == Spec => []ValidationHolds
<1>1. IInv => ValidationHolds
  BY ExportedFiles DEF ValidationHolds
<1> QED BY <1>1, Invariance, PTL

(* A stage reported complete stays complete until the selection grows.     *)
THEOREM CompletionLasts == Spec => []CompleteStaysComplete
BY Invariance, PTL DEF IInv

(* Only the replacement of the file changes it.                            *)
LEMMA OnlySaves ==
    ASSUME IInv, [Next]_vars
    PROVE  disk' = disk \/ \E i \in Image : Saved(i)
<1>1. CASE Call
  BY <1>1 DEF Call, Grow, InvokeAll, Invoke, Probe, durable
<1>2. CASE \E i \in Image : Worker(i) \/ Fail(i)
  BY <1>2 DEF Worker, Return, Start, Change, SaveUnit, SaveStep, Save, Fail, durable
<1>3. CASE Finish
  BY <1>3 DEF Finish, Cancel, Abort, EndPool, EndStage, BeginExport, Export, Check, Draw,
              Recheck, durable
<1> QED BY <1>1, <1>2, <1>3 DEF Next, Crash, vars, durable

(* No interleaving of saves, exceptions and crashes takes the durable state*)
(* of an image back.                                                       *)
THEOREM NoUpdateIsLost == Spec => NoLostUpdate
<1>1. ASSUME IInv, [Next]_vars
      PROVE  [\A i \in Image : disk[i] # Absent =>
                 /\ disk'[i] # Absent
                 /\ disk'[i].step >= disk[i].step
                 /\ disk'[i].version >= disk[i].version]_vars
  <2> SUFFICES ASSUME NEW i \in Image, disk[i] # Absent
               PROVE  /\ disk'[i] # Absent
                      /\ disk'[i].step >= disk[i].step
                      /\ disk'[i].version >= disk[i].version
    OBVIOUS
  <2>1. disk[i] \in State
    BY <1>1 DEF IInv, TypeOK, Checkpoint
  <2>2. CASE disk' = disk
    BY <2>1, <2>2, AbsentState, SizesAssumption
  <2>3. CASE \E j \in Image : Saved(j)
    <3>1. /\ disk'[i] # Absent /\ disk'[i].version >= disk[i].version
          /\ StepOf(disk'[i]) >= StepOf(disk[i])
      BY <1>1, <2>3, SavedFile
    <3> QED BY <2>1, <3>1 DEF StepOf
  <2> QED BY <1>1, <2>2, <2>3, OnlySaves
<1> QED BY <1>1, Invariance, PTL DEF Spec, NoLostUpdate

(* The outputs wait until every image is through the finalize stage.       *)
THEOREM ExportsAreFinal == Spec => ExportsOnlyFinal
<1>1. ASSUME IInv, [Next]_vars
      PROVE  [files' # files => \A i \in selected : DurableStep[i] >= Finalize]_vars
  <2> SUFFICES ASSUME files' # files, NEW i \in selected
               PROVE  DurableStep[i] >= Finalize
    OBVIOUS
  <2>1. Export
    <3>1. CASE Call
      BY <3>1 DEF Call, Grow, InvokeAll, Invoke, Probe, durable, outputs
    <3>2. CASE \E j \in Image : Worker(j) \/ Fail(j)
      BY <3>2 DEF Worker, Return, Start, Change, SaveUnit, SaveStep, Save, Saved, Fail,
                  durable, outputs
    <3>3. CASE Finish
      BY <3>3 DEF Finish, Cancel, Abort, EndPool, EndStage, BeginExport, Check, Draw,
                  Recheck, durable, outputs
    <3> QED BY <1>1, <3>1, <3>2, <3>3 DEF Next, Crash, vars, durable, outputs
  <2>2. run >= Finalize /\ run \in 1..Steps /\ run # 0 /\ \A j \in selected : pc[j] = "done"
    BY <1>1, <2>1, AfterPool DEF Export
  <2>3. DurableStep[i] >= run /\ i \in Image
    BY <1>1, <2>2, AllInFile DEF IInv, TypeOK
  <2>4. DurableStep[i] \in 0..Steps
    BY <1>1, <2>3, DurableNat DEF DurableStep
  <2> QED BY <2>2, <2>3, <2>4, SizesAssumption DEF Finalize
<1> QED BY <1>1, Invariance, PTL DEF Spec, ExportsOnlyFinal

(* The checkpoint file keeps the selected images in lock step.             *)
THEOREM ImplementsLockStep == Spec => LockStepSpec
<1>1. Init => Board!Init
  BY AbsentState DEF Init, Board!Init, DurableStep, Nothing
<1>2. ASSUME IInv, [Next]_vars PROVE [Board!Join \/ Board!Advance]_<<selected, DurableStep>>
  <2>1. CASE \E i \in Image : Saved(i)
    <3>1. PICK i \in Image : Saved(i)
      BY <2>1
    <3>2. disk' = stored /\ run \in 1..Steps /\ selected' = selected
      BY <1>2, <3>1, SavedFile
    <3> DEFINE finishing == {j \in selected : StepOf(disk[j]) = run - 1 /\ stored[j].step = run}
    <3>3. ASSUME NEW j \in Image
          PROVE  /\ DurableStep'[j] = IF j \in finishing THEN run ELSE DurableStep[j]
                 /\ j \in selected => DurableStep[j] >= run - 1
      <4>1. DurableStep[j] = StepOf(disk[j]) /\ DurableStep'[j] = StepOf(stored[j])
        BY <3>2 DEF DurableStep
      <4>2. CASE j \notin selected
        <5>1. disk[j] = Absent /\ stored[j] = Absent
          BY <1>2, <3>2, <4>2 DEF IInv, DiskInv, ThreadInv
        <5> QED BY <4>1, <4>2, <5>1
      <4>3. CASE j \in selected
        <5>1. MemoryOK(j) /\ stored[j] \in State
          BY <1>2, <3>2, <4>3 DEF IInv, ThreadInv, MemoryOK
        <5>2. StepOf(stored[j]) = stored[j].step /\ stored[j].step \in 0..Steps
          BY <5>1, AbsentState
        <5>3. StepOf(disk[j]) \in 0..Steps
          BY <1>2, DurableNat
        <5>4. /\ StepOf(disk[j]) >= run - 1 /\ stored[j].step >= StepOf(disk[j])
              /\ stored[j].step # StepOf(disk[j]) => stored[j].step = run
          BY <5>1 DEF MemoryOK
        <5>5. CASE StepOf(disk[j]) = run - 1 /\ stored[j].step = run
          BY <4>1, <4>3, <5>2, <5>4, <5>5
        <5>6. CASE ~(StepOf(disk[j]) = run - 1 /\ stored[j].step = run)
          <6>1. stored[j].step = StepOf(disk[j])
            BY <3>2, <5>2, <5>3, <5>4, <5>6, SizesAssumption
          <6> QED BY <4>1, <4>3, <5>2, <5>4, <5>6, <6>1
        <5> QED BY <5>5, <5>6
      <4> QED BY <4>2, <4>3
    <3>4. DurableStep' = [j \in Image |-> IF j \in finishing THEN run ELSE DurableStep[j]]
      BY <3>3 DEF DurableStep
    <3>5. /\ finishing \in SUBSET selected
          /\ \A j \in selected : j \in Image /\ DurableStep[j] >= run - 1
      BY <1>2, <3>3 DEF IInv, TypeOK
    <3>6. \A j \in finishing : DurableStep[j] = run - 1
      BY <3>5 DEF DurableStep
    <3> HIDE DEF finishing
    <3>7. Board!Advance
      BY <3>2, <3>4, <3>5, <3>6 DEF Board!Advance
    <3> QED BY <3>7
  <2>2. CASE disk' = disk
    <3>1. DurableStep' = DurableStep
      BY <2>2 DEF DurableStep
    <3>2. CASE Grow
      BY <3>1, <3>2 DEF Grow, Board!Join
    <3>3. CASE UNCHANGED selected
      BY <3>1, <3>3
    <3>4. Grow \/ UNCHANGED selected
      <4>1. CASE Call
        BY <4>1 DEF Call, InvokeAll, Invoke, Probe, durable
      <4>2. CASE \E j \in Image : Worker(j) \/ Fail(j)
        BY <4>2 DEF Worker, Return, Start, Change, SaveUnit, SaveStep, Save, Saved, Fail,
                    durable
      <4>3. CASE Finish
        BY <4>3 DEF Finish, Cancel, Abort, EndPool, EndStage, BeginExport, Export, Check,
                    Draw, Recheck, durable
      <4> QED BY <1>2, <4>1, <4>2, <4>3 DEF Next, Crash, vars, durable
    <3> QED BY <3>2, <3>3, <3>4
  <2> QED BY <1>2, <2>1, <2>2, OnlySaves
<1> QED BY <1>1, <1>2, Invariance, PTL DEF Spec, LockStepSpec, Board!Spec, Board!vars
=============================================================================
