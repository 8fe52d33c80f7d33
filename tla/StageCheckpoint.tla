--------------------------- MODULE StageCheckpoint ---------------------------
(***************************************************************************)
(* One model stage of the legacy Route B and its checkpoint                *)
(* (routes/route_b_checkpoint.py, routes/route_b_stages.py).  A stage asks *)
(* the model once per input record and appends each answer, stamped with   *)
(* a signature of the record and of the prompt and configuration.  A run   *)
(* keeps the rows whose signature still matches, archives what it drops,   *)
(* and asks for the rest in a pool of threads.  The process may die at any *)
(* step, and the prompt may be edited at any time, and edited back: it is  *)
(* the text that is signed.                                                *)
(***************************************************************************)
EXTENDS Naturals, Sequences, FiniteSets, SequencesExt

CONSTANTS
    Key,          \* record_key: images, entities or expressions
    Content,      \* semantic contents of an input record
    Contexts,     \* texts of the prompt, with configuration and model
    Workers,      \* workers
    HistoryLimit, \* ROUTE_B_CHECKPOINT_HISTORY_LIMIT
    MaxEdits,     \* bound on edits of the prompt and of the inputs
    MaxFaults,    \* bound on crashes, fatal errors and runs without --resume
    None

VARIABLES
    input,     \* the records the stage is given; None: not given, or not accepted
    context,   \* the prompt, configuration and model of the moment
    exists,    \* the output file is there
    file,      \* its rows
    archive,   \* checkpoint_archive: earlier contents, oldest first
    pc,        \* where the run is
    mode,      \* resume, overwrite, or neither of them
    asof,      \* the context the signatures of the run were computed with
    using,     \* the one with the prompt that the workers send
    kept,      \* existing: the rows the run found current
    dropped,   \* old: the rows a replace takes away
    torn,      \* history: <<signed, sent>> of the runs in which they differed
    running,   \* futures that are being worked on
    finished,  \* results of futures that the main thread has not taken yet
    returned,  \* the last run came to its end
    edits, faults

outside == <<input, context, edits>>
disk == <<exists, file, archive>>
run == <<mode, asof, using, kept, dropped, torn>>
pool == <<running, finished>>
vars == <<outside, disk, pc, run, pool, returned, faults>>

Signature(k, version) == <<version, input[k]>>
Made == Contexts \X Content
Row == [signature : Made \cup {None}, made : Made, invalid : BOOLEAN]
Result == {"answer", "invalid", "fatal"}

ASSUME StageAssumption ==
    /\ None \notin Key \cup Content /\ None \notin Made /\ None \notin Row /\ None \notin Result
    /\ Workers \in Nat \ {0} /\ HistoryLimit \in Nat
    /\ MaxEdits \in Nat /\ MaxFaults \in Nat

File == [Key -> Row \cup {None}]
NoRows == [k \in Key |-> None]
NoResults == [k \in Key |-> None]

TypeOK ==
    /\ input \in [Key -> Content \cup {None}] /\ context \in Contexts
    /\ exists \in BOOLEAN /\ file \in File /\ archive \in Seq(File)
    /\ pc \in {"idle", "archive", "replace", "prune", "start", "work"}
    /\ mode \in {"resume", "overwrite", "fresh"}
    /\ asof \in Contexts /\ using \in Contexts /\ torn \subseteq Contexts \X Contexts
    /\ kept \in File /\ dropped \in File
    /\ running \subseteq Key
    /\ finished \in [Key -> Result \cup {None}]
    /\ returned \in BOOLEAN /\ edits \in 0..MaxEdits /\ faults \in 0..MaxFaults

Unstamped(content) == [signature |-> None, made |-> <<context, content>>, invalid |-> FALSE]

\* A file may be left by a version that stamped nothing.
Init ==
    /\ input \in [Key -> Content] /\ context \in Contexts
    /\ \/ exists = FALSE /\ file = NoRows
       \/ exists = TRUE /\ file = [k \in Key |-> Unstamped(input[k])]
    /\ archive = << >>
    /\ pc = "idle" /\ mode = "resume" /\ asof = context /\ using = context
    /\ kept = NoRows /\ dropped = NoRows /\ torn = {}
    /\ running = {} /\ finished = NoResults
    /\ returned = FALSE /\ edits = 0 /\ faults = 0

Given == {k \in Key : input[k] # None}
Rows(f) == {k \in Key : f[k] # None}
Stamped(k, version) == k \in Given /\ file[k] # None /\ file[k].signature = Signature(k, version)

-----------------------------------------------------------------------------
(* checkpointed                                                             *)

\* The rows whose signature matches; a row without a stamp never does.
CurrentRows(version) == [k \in Key |-> IF Stamped(k, version) THEN file[k] ELSE None]

\* --check-only: exit 0 rather than 3.
ProbeDone ==
    /\ exists
    /\ Rows(CurrentRows(context)) = Given
    /\ Rows(file) = Rows(CurrentRows(context))

\* archive_and_replace leaves a file alone that holds just these rows.
FirstStep(m, rows) ==
    IF m # "resume" \/ ~exists \/ rows = file THEN "start"
    ELSE IF HistoryLimit > 0 THEN "archive" ELSE "replace"

Begin(m) ==
    LET rows == IF m = "resume" /\ exists THEN CurrentRows(context) ELSE NoRows
    IN  /\ pc = "idle"
        /\ mode' = m /\ asof' = context
        /\ kept' = rows /\ dropped' = file
        /\ pc' = FirstStep(m, rows)
        /\ returned' = FALSE
        /\ UNCHANGED <<outside, disk, using, torn, pool>>

Resume == Begin("resume") /\ UNCHANGED faults

Otherwise(m) ==
    /\ faults < MaxFaults /\ faults' = faults + 1
    /\ Begin(m)

Overwrite == Otherwise("overwrite")
Fresh == Otherwise("fresh")

-----------------------------------------------------------------------------
(* archive_and_replace                                                      *)

\* An archive of the same rows that is there already keeps its age.
Archive ==
    /\ pc = "archive"
    /\ archive' = IF Contains(archive, dropped) THEN archive ELSE Append(archive, dropped)
    /\ pc' = "replace"
    /\ UNCHANGED <<outside, exists, file, run, pool, returned, faults>>

\* mutant: one stale row drops them all
ReplaceByNone ==
    /\ pc = "replace"
    /\ file' = NoRows
    /\ pc' = IF HistoryLimit > 0 THEN "prune" ELSE "start"
    /\ UNCHANGED <<outside, exists, archive, run, pool, returned, faults>>

Replace ==
    /\ pc = "replace"
    /\ file' = kept
    /\ pc' = IF HistoryLimit > 0 THEN "prune" ELSE "start"
    /\ UNCHANGED <<outside, exists, archive, run, pool, returned, faults>>

\* The archive of the rows just dropped stays, and the newest of the others.
Others == {i \in DOMAIN archive : archive[i] # dropped}
Newer(i) == {j \in Others : j > i}
Staying == {i \in DOMAIN archive : i \in Others => Cardinality(Newer(i)) < HistoryLimit - 1}

Survivors ==
    [n \in 1..Cardinality(Staying) |->
        archive[CHOOSE i \in Staying : Cardinality({j \in Staying : j <= i}) = n]]

Prune ==
    /\ pc = "prune"
    /\ archive' = Survivors
    /\ pc' = "start"
    /\ UNCHANGED <<outside, exists, file, run, pool, returned, faults>>

-----------------------------------------------------------------------------
(* the body of a stage and _parallel_write                                  *)

EndRun(ok) ==
    /\ pc' = "idle" /\ returned' = ok
    /\ running' = {} /\ finished' = NoResults

\* Nothing to ask for, unless --overwrite: the function is not called.
AllKept == exists /\ mode # "overwrite" /\ Rows(kept) = Given

Skip ==
    /\ pc = "start" /\ AllKept
    /\ EndRun(TRUE)
    /\ UNCHANGED <<outside, disk, run, faults>>

\* prepare_output refuses an existing file without --resume or --overwrite.
Refuse ==
    /\ pc = "start" /\ ~AllKept /\ mode = "fresh" /\ exists
    /\ EndRun(FALSE)
    /\ UNCHANGED <<outside, disk, run, faults>>

\* Each stage reads the prompt a second time, for its workers.
EnterBody ==
    /\ pc = "start" /\ ~AllKept
    /\ mode = "fresh" => ~exists
    /\ using' = context
    /\ torn' = torn \cup ({<<asof, context>>} \ {<<asof, asof>>})
    /\ file' = IF mode = "overwrite" THEN NoRows ELSE file
    /\ exists' = (exists /\ mode # "overwrite")
    /\ pc' = "work"
    /\ UNCHANGED <<outside, archive, mode, asof, kept, dropped, pool, returned, faults>>

Pending == Given \ Rows(file)

StartWorker(k) ==
    /\ pc = "work" /\ k \in Pending \ running /\ finished[k] = None
    /\ Cardinality(running) < Workers
    /\ running' = running \cup {k}
    /\ UNCHANGED <<outside, disk, pc, run, finished, returned, faults>>

\* A worker ends with an answer or with a QwenValidationError ...
FinishWorker(k, result) ==
    /\ pc = "work" /\ k \in running
    /\ running' = running \ {k}
    /\ finished' = [finished EXCEPT ![k] = result]
    /\ UNCHANGED <<outside, disk, pc, run, returned, faults>>

\* mutant: an invalid answer is not stamped
StampAnswers(k) ==
    [signature |-> IF finished[k] = "invalid" THEN None ELSE Signature(k, asof),
     made |-> <<using, input[k]>>, invalid |-> finished[k] = "invalid"]

\* mutant: rows are stamped when they are appended
StampLate(k) ==
    [signature |-> Signature(k, context), made |-> <<using, input[k]>>,
     invalid |-> finished[k] = "invalid"]

Stamp(k) ==
    [signature |-> Signature(k, asof), made |-> <<using, input[k]>>,
     invalid |-> finished[k] = "invalid"]

\* ... or another error, which ends the run.
FailWorker(k) ==
    /\ faults < MaxFaults /\ faults' = faults + 1
    /\ pc = "work" /\ k \in running
    /\ running' = running \ {k}
    /\ finished' = [finished EXCEPT ![k] = "fatal"]
    /\ UNCHANGED <<outside, disk, pc, run, returned>>

\* Answers are appended in the order in which they came; an invalid answer is
\* a row too.
AppendRow(k) ==
    /\ pc = "work" /\ finished[k] \in {"answer", "invalid"}
    /\ file' = [file EXCEPT ![k] = Stamp(k)]
    /\ exists' = TRUE
    /\ finished' = [finished EXCEPT ![k] = None]
    /\ UNCHANGED <<outside, archive, pc, run, running, returned, faults>>

\* Another error cancels what has not started; what is being worked on ends
\* and is dropped with it.
Fatal(k) ==
    /\ pc = "work" /\ finished[k] = "fatal"
    /\ EndRun(FALSE)
    /\ UNCHANGED <<outside, disk, run, faults>>

\* mutant: the stage ends when every future has been taken by a worker
ReturnEarly ==
    /\ pc = "work" /\ Pending \ running = {}
    /\ exists' = TRUE
    /\ EndRun(TRUE)
    /\ UNCHANGED <<outside, file, archive, run, faults>>

\* Without any input an empty file is written.
Return ==
    /\ pc = "work" /\ Pending = {}
    /\ exists' = TRUE
    /\ EndRun(TRUE)
    /\ UNCHANGED <<outside, file, archive, run, faults>>

Crash ==
    /\ pc # "idle" /\ faults < MaxFaults /\ faults' = faults + 1
    /\ EndRun(FALSE)
    /\ UNCHANGED <<outside, disk, run>>

-----------------------------------------------------------------------------
(* what changes around it                                                   *)

EditPrompt ==
    /\ edits < MaxEdits /\ edits' = edits + 1
    /\ context' \in Contexts \ {context}
    /\ UNCHANGED <<input, disk, pc, run, pool, returned, faults>>

\* Earlier stages ran again, or another range of images was selected.
EditInput(k, content) ==
    /\ pc = "idle" /\ content # input[k]
    /\ edits < MaxEdits /\ edits' = edits + 1
    /\ input' = [input EXCEPT ![k] = content]
    /\ returned' = FALSE
    /\ UNCHANGED <<context, disk, pc, run, pool, faults>>

Replacing == Archive \/ Replace \/ Prune

Body(k) ==
    \/ StartWorker(k) \/ AppendRow(k) \/ Fatal(k)
    \/ \E result \in {"answer", "invalid"} : FinishWorker(k, result)

Work == Replacing \/ Skip \/ Refuse \/ EnterBody \/ Return \/ \E k \in Key : Body(k)

Next ==
    \/ Resume \/ Fresh \/ Overwrite \/ Work \/ Crash \/ EditPrompt
    \/ \E k \in Key : FailWorker(k) \/ \E c \in Content \cup {None} : EditInput(k, c)

Spec == Init /\ [][Next]_vars

\* The stage is started again until its probe says that it is complete, and no
\* thread stops for ever: generate_json ends every call (QwenPool).
FairSpec == Spec /\ WF_vars(Work) /\ WF_vars(Resume /\ ~ProbeDone)

-----------------------------------------------------------------------------
(* Properties                                                               *)

\* A row whose signature is the current one was made from the record that the
\* signature names, and with the prompt of today.  The prompt is read twice, once
\* to sign and once to ask, and a row lies about it only when a run signed with
\* the prompt of today and sent another one: edited in between, and edited back.
RowsAreTrue ==
    \A k \in Key : Stamped(k, context) =>
        /\ file[k].made[2] = input[k]
        /\ file[k].made[1] = context \/ <<context, file[k].made[1]>> \in torn

\* When a run has ended and prompt and records are what they were when it began,
\* the probe agrees: there is one current row for each record and no other row,
\* whatever was on file before, whatever was edited and edited back, and in
\* whatever order the answers came.  (With neither --resume nor --overwrite and
\* no record at all, an old file is left as it is.)
ReturnIsComplete ==
    returned /\ asof = context /\ mode # "fresh" => ProbeDone

\* Unless asked to overwrite, no run, crash or error loses or replaces the row
\* of a record that has not changed while others have.
SignedWith == IF pc = "idle" THEN context ELSE asof
UnchangedKept ==
    [][\A k \in Key : Stamped(k, SignedWith) /\ mode' # "overwrite" => file'[k] = file[k]]_vars

\* With a history the rows that a run replaced are in the archive while it goes
\* on, however old the copy is, and the archive is back within its limit.
HistoryHolds ==
    /\ HistoryLimit > 0 /\ mode = "resume" /\ dropped # kept /\ dropped # NoRows
    /\ pc \in {"prune", "start", "work"}
    => /\ Contains(archive, dropped)
       /\ pc # "prune" => Len(archive) <= HistoryLimit

\* What holds in every state of a run: rows are what their stamps say but for a
\* prompt edited between its two readings, what was replaced is in the archive,
\* and what is returned is complete.
StageInv == TypeOK /\ RowsAreTrue /\ HistoryHolds /\ ReturnIsComplete

\* A run that is started again and again ends with a complete file once the
\* edits and the faults are over: no row is dropped that the next run must make
\* again.
EventuallyComplete == <>[]ProbeDone
=============================================================================
