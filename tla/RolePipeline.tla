---------------------------- MODULE RolePipeline ----------------------------
(***************************************************************************)
(* The stages of many images: run of src/src/routes/role_pipeline.py with  *)
(* its thread pool and its checkpoint file, and export, review and validate*)
(* of role_outputs.py.  A process executes one stage, or all of them; its  *)
(* workers share the dictionary stored and the file role_state.jsonl.  What*)
(* an image's state holds is a version number, odd while its worker is in  *)
(* the middle of changing it; RoleSearch and RolePhrases are the contents. *)
(***************************************************************************)
EXTENDS Naturals, FiniteSets

CONSTANTS
    NumImages,    \* images of the manifest sample, in the order of their ids
    Steps,        \* number of stages; the last two are finalize and review
    Workers,      \* role_workers
    NumFiles,     \* files an export writes, one after the other
    MaxVersion,   \* bound on changes to the state of an image
    MaxCrashes,   \* bound on processes that die
    MaxFailures,  \* bound on exceptions in workers
    Absent        \* not in the file, nothing being written

ASSUME SizesAssumption ==
    /\ NumImages \in Nat \ {0} /\ Steps \in Nat /\ Steps >= 2
    /\ Workers \in Nat \ {0} /\ NumFiles \in Nat \ {0} /\ MaxVersion \in Nat
    /\ MaxCrashes \in Nat /\ MaxFailures \in Nat

VARIABLES
    selected,  \* images between start_index and end_index
    disk,      \* role_state.jsonl
    files,     \* the exported files, by the versions they were written from
    index,     \* human_review/route_b with its index.csv, likewise
    complete,  \* stages reported complete for this selection
    run,       \* the stage the process executes, 0 when there is no process
    all,       \* the process was started with --stage all
    phase,     \* where the process is in execute
    written,   \* files written by this export
    stored,    \* the process's dictionary of image states
    work,      \* the worker's own copy of the state
    pc,        \* where the worker of an image is
    writing,   \* what the worker that holds the lock is writing to the file
    crashes, failures

outputs == <<files, index>>
durable == <<selected, disk, outputs>>
threads == <<stored, work, pc, writing>>
control == <<run, all, phase, written>>
process == <<control, threads>>
bounds == <<crashes, failures>>
vars == <<durable, complete, process, bounds>>

Image == 1..NumImages
State == [step: 0..Steps, version: 0..MaxVersion]
Checkpoint == [Image -> State \cup {Absent}]
Versions == [Image -> 0..MaxVersion \cup {Absent}]

ASSUME AbsentAssumption == Absent \notin State \cup Checkpoint \cup Nat

Finalize == Steps - 1
Review == Steps

Fresh == [step |-> 0, version |-> 0]
Nothing == [i \in Image |-> Absent]
Off == [i \in Image |-> "off"]

TypeOK ==
    /\ selected \in (SUBSET Image) \ {{}}
    /\ disk \in Checkpoint
    /\ files \in [1..NumFiles -> Versions]
    /\ index \in Versions
    /\ complete \in SUBSET (1..Steps)
    /\ run \in 0..Steps /\ all \in BOOLEAN
    /\ phase \in {"off", "work", "export", "check", "draw", "recheck"}
    /\ written \in 0..NumFiles
    /\ stored \in Checkpoint /\ work \in Checkpoint
    /\ pc \in [Image -> {"off", "queued", "working", "saving", "done", "failed",
                         "cancelled"}]
    /\ writing \in [Image -> Checkpoint \cup {Absent}]
    /\ crashes \in 0..MaxCrashes /\ failures \in 0..MaxFailures

Init ==
    /\ selected \in (SUBSET Image) \ {{}}
    /\ disk = Nothing
    /\ files = [f \in 1..NumFiles |-> Nothing]
    /\ index = Nothing
    /\ complete = {}
    /\ run = 0 /\ all = FALSE /\ phase = "off" /\ written = 0
    /\ stored = Nothing /\ work = Nothing /\ pc = Off /\ writing = Nothing
    /\ crashes = 0 /\ failures = 0

-----------------------------------------------------------------------------
(* delivery: what the rows of the exported files are computed from.        *)
Delivery(states) == [i \in Image |-> IF states[i] = Absent THEN Absent
                                     ELSE states[i].version]

(* validate: the files are the delivery of the checkpoint file, and every  *)
(* selected image is there.                                                *)
Valid == /\ \A i \in Image : disk[i] # Absent <=> i \in selected
         /\ \A f \in 1..NumFiles : files[f] = Delivery(disk)

(* ... and with require_review the index has the rows of the verified file.*)
ValidReview == Valid /\ index = files[1]

(* L70-84: the records of the file, and a new state for every other image. *)
Loaded == [i \in Image |-> IF i \notin selected THEN Absent
                           ELSE IF disk[i] = Absent THEN Fresh ELSE disk[i]]

MayEnterUnchecked(states, s) == TRUE  \* mutant: the barrier is missing

MayEnter(states, s) == \A i \in selected : states[i].step >= s - 1

-----------------------------------------------------------------------------
(* The caller: a larger end_index, a stage, all stages, or --check-only.   *)
Grow ==
    /\ run = 0
    /\ \E i \in Image \ selected : selected' = selected \cup {i}
    /\ complete' = {}
    /\ UNCHANGED <<disk, outputs, process, bounds>>

BeginStage(states, s) ==
    /\ MayEnter(states, s)
    /\ run' = s /\ phase' = "work" /\ written' = 0
    /\ stored' = states
    /\ work' = Nothing /\ writing' = Nothing
    /\ pc' = [i \in Image |-> IF i \in selected THEN "queued" ELSE "off"]

Invoke(s) ==
    /\ run = 0
    /\ BeginStage(Loaded, s)
    /\ all' = FALSE
    /\ UNCHANGED <<durable, complete, bounds>>

InvokeAll ==
    /\ run = 0
    /\ BeginStage(Loaded, 1)
    /\ all' = TRUE
    /\ UNCHANGED <<durable, complete, bounds>>

(* --check-only that exits with 0; otherwise nothing is changed.           *)
ProbeSteps(s) ==  \* mutant: only the checkpoint is probed
    /\ run = 0
    /\ MayEnter(Loaded, s)
    /\ \A i \in selected : Loaded[i].step >= s
    /\ complete' = complete \cup {s}
    /\ UNCHANGED <<durable, process, bounds>>

Probe(s) ==
    /\ run = 0
    /\ MayEnter(Loaded, s)
    /\ \A i \in selected : Loaded[i].step >= s
    /\ s = Finalize => Valid
    /\ s = Review => ValidReview
    /\ complete' = complete \cup {s}
    /\ UNCHANGED <<durable, process, bounds>>

-----------------------------------------------------------------------------
(* The pool starts workers in the order of the ids.                        *)
Busy == {i \in Image : pc[i] \in {"working", "saving"}}

NextInQueue(i) ==
    /\ pc[i] = "queued"
    /\ \A j \in Image : j < i => pc[j] # "queued"
    /\ Cardinality(Busy) < Workers

At(i, label) == pc' = [pc EXCEPT ![i] = label]

SkipNever(i) ==  \* mutant: a finished image is processed again
    FALSE

Skip(i) == stored[i].step >= run

Return(i) ==
    /\ NextInQueue(i)
    /\ Skip(i)
    /\ At(i, "done")
    /\ UNCHANGED <<durable, complete, control, stored, work, writing, bounds>>

Start(i) ==
    /\ NextInQueue(i)
    /\ ~Skip(i)
    /\ work' = [work EXCEPT ![i] = stored[i]]
    /\ At(i, "working")
    /\ UNCHANGED <<durable, complete, control, stored, writing, bounds>>

(* The engine changes the state in place, each change in two halves.       *)
Even(n) == n % 2 = 0

Changed(i) == [step |-> work[i].step, version |-> work[i].version + 1]

Change(i) ==
    /\ pc[i] = "working"
    /\ run # Review
    /\ work[i].version < MaxVersion
    /\ work' = [work EXCEPT ![i] = Changed(i)]
    /\ UNCHANGED <<durable, complete, control, stored, pc, writing, bounds>>

(* save() takes the lock, puts a copy of the state into stored and writes  *)
(* all of stored to the file; no other worker is in between.               *)
Unlocked == \A j \in Image : writing[j] = Absent

WithCopyAliased(i, state) ==  \* mutant: the states of the workers are in stored
    [j \in Image |-> IF j = i THEN state
                     ELSE IF pc[j] = "working" THEN work[j] ELSE stored[j]]

WithCopy(i, state) == [stored EXCEPT ![i] = state]

Save(i, state) ==
    /\ pc[i] = "working"
    /\ Even(work[i].version)
    /\ Unlocked
    /\ work' = [work EXCEPT ![i] = state]
    /\ stored' = WithCopy(i, state)
    /\ writing' = [writing EXCEPT ![i] = WithCopy(i, state)]
    /\ At(i, "saving")
    /\ UNCHANGED <<durable, complete, control, bounds>>

SaveUnit(i) ==
    /\ work[i] # stored[i]
    /\ Save(i, work[i])

Finished(i) == [step |-> run, version |-> work[i].version]

SaveStep(i) == pc[i] = "working" /\ Save(i, Finished(i))

Saved(i) ==
    /\ pc[i] = "saving"
    /\ disk' = writing[i]
    /\ writing' = [writing EXCEPT ![i] = Absent]
    /\ At(i, IF work[i].step = run THEN "done" ELSE "working")
    /\ UNCHANGED <<selected, outputs, complete, control, stored, work, bounds>>

(* An exception of a model call, or of the write itself: stored then holds *)
(* what the file does not.                                                 *)
Fail(i) ==
    /\ pc[i] \in {"working", "saving"}
    /\ failures < MaxFailures
    /\ failures' = failures + 1
    /\ writing' = [writing EXCEPT ![i] = Absent]
    /\ At(i, "failed")
    /\ UNCHANGED <<durable, complete, control, stored, work, crashes>>

(* The results are read in order; the first exception cancels the queue.   *)
Cancel ==
    /\ \E i \in selected :
          pc[i] = "failed" /\ \A j \in selected : j < i => pc[j] = "done"
    /\ \E i \in selected : pc[i] = "queued"
    /\ pc' = [i \in Image |-> IF pc[i] = "queued" THEN "cancelled" ELSE pc[i]]
    /\ UNCHANGED <<durable, complete, control, stored, work, writing, bounds>>

-----------------------------------------------------------------------------
NoProcess ==
    /\ run' = 0 /\ all' = FALSE /\ phase' = "off" /\ written' = 0
    /\ stored' = Nothing /\ work' = Nothing /\ pc' = Off /\ writing' = Nothing

PoolEmpty ==
    phase = "work" /\ \A i \in Image : pc[i] \notin {"queued", "working", "saving"}

AllReturned == \A i \in selected : pc[i] = "done"

Abort ==
    /\ PoolEmpty
    /\ ~AllReturned
    /\ NoProcess
    /\ UNCHANGED <<durable, complete, bounds>>

EndStage ==
    /\ complete' = complete \cup {run}
    /\ IF all /\ run < Steps /\ MayEnter(stored, run + 1)
       THEN BeginStage(stored, run + 1) /\ UNCHANGED all
       ELSE NoProcess
    /\ UNCHANGED <<durable, bounds>>

EndPool ==
    /\ PoolEmpty
    /\ AllReturned
    /\ run < Finalize
    /\ EndStage

(* finalize and review export, validate, and review also draws.            *)
Goto(next) ==
    /\ phase' = next
    /\ UNCHANGED <<complete, run, all, threads, bounds>>

BeginExport ==
    /\ PoolEmpty
    /\ AllReturned
    /\ run >= Finalize
    /\ Goto("export")
    /\ UNCHANGED <<durable, written>>

Export ==
    /\ phase = "export"
    /\ written < NumFiles
    /\ files' = [files EXCEPT ![written + 1] = Delivery(stored)]
    /\ written' = written + 1
    /\ Goto(IF written + 1 = NumFiles THEN "check" ELSE "export")
    /\ UNCHANGED <<selected, disk, index>>

Check ==
    /\ phase = "check"
    /\ Valid
    /\ IF run = Review THEN Goto("draw") /\ UNCHANGED <<durable, written>>
       ELSE EndStage

Draw ==
    /\ phase = "draw"
    /\ index' = files[1]
    /\ Goto("recheck")
    /\ UNCHANGED <<selected, disk, files, written>>

Recheck ==
    /\ phase = "recheck"
    /\ ValidReview
    /\ EndStage

(* SIGKILL, a lost node: only the files remain.                            *)
Crash ==
    /\ run # 0
    /\ crashes < MaxCrashes
    /\ crashes' = crashes + 1
    /\ NoProcess
    /\ UNCHANGED <<durable, complete, failures>>

Worker(i) ==
    Return(i) \/ Start(i) \/ Change(i) \/ SaveUnit(i) \/ SaveStep(i) \/ Saved(i)
Finish == Cancel \/ Abort \/ EndPool \/ BeginExport \/ Export \/ Check \/ Draw
          \/ Recheck
Call == Grow \/ InvokeAll \/ \E s \in 1..Steps : Invoke(s) \/ Probe(s)

Next == Call \/ (\E i \in Image : Worker(i) \/ Fail(i)) \/ Finish \/ Crash

Spec == Init /\ [][Next]_vars

-----------------------------------------------------------------------------
(* The checkpoint file keeps the images of a run in lock step: see LockStep*)
(* (the barrier and the skip of execute, the lock of save).                *)
StepOf(state) == IF state = Absent THEN 0 ELSE state.step

DurableStep == [i \in Image |-> StepOf(disk[i])]

Board == INSTANCE LockStep WITH done <- DurableStep

LockStepSpec == Board!Spec

(* Concurrent saves never take the durable state of an image back (save).  *)
NoLostUpdate ==
    [][\A i \in Image : disk[i] # Absent =>
            /\ disk'[i] # Absent
            /\ disk'[i].step >= disk[i].step
            /\ disk'[i].version >= disk[i].version]_vars

(* The file never holds a state its worker was in the middle of changing,  *)
(* although every worker writes the states of all (the deepcopies).        *)
WholeOnDisk == \A i \in Image : disk[i] # Absent => Even(disk[i].version)

(* When a worker has returned, its work is in the file, whatever the others*)
(* wrote since.                                                            *)
ReturnedIsDurable ==
    \A i \in selected : pc[i] = "done" => disk[i] = stored[i] /\ disk[i].step >= run

(* Nothing is exported before every selected image has durably finished the*)
(* finalize stage: an exception of one image keeps all the outputs.        *)
ExportsOnlyFinal ==
    [][files' # files => \A i \in selected : DurableStep[i] >= Finalize]_vars

(* The validation that follows an export finds the files as the checkpoint *)
(* file has them.                                                          *)
ValidationHolds == phase \in {"check", "draw", "recheck"} => Valid

(* A stage once reported complete for a selection stays so: its work is in *)
(* the file and the outputs are those of the checkpoint, also while a later*)
(* process runs, exports again or dies.                                    *)
CompleteStaysComplete ==
    \A s \in complete :
        /\ \A i \in selected : DurableStep[i] >= s
        /\ s >= Finalize => \A f \in 1..NumFiles : files[f] = Delivery(disk)
        /\ s = Review => index = Delivery(disk)

=============================================================================
