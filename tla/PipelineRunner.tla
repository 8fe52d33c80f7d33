--------------------------- MODULE PipelineRunner ---------------------------
(***************************************************************************)
(* scripts/run_pipeline.sh: one process that walks a plan of stages, starts*)
(* the Qwen server when a stage needs it, stops it before the next model   *)
(* takes the GPU, and is interrupted by USR1 or TERM.  bash runs a trap    *)
(* between two commands, so every command that starts a process and the    *)
(* assignment that remembers its pid are separate steps here.              *)
(*                                                                         *)
(* A supervisor starts the script again after a non-zero exit.  What a run *)
(* leaves behind (processes nobody remembers, completed stages) is there   *)
(* for the next run.                                                       *)
(***************************************************************************)
EXTENDS Naturals, Sequences

CONSTANTS
    Plan,       \* the calls of the script: "qwen", "other" and "stop"
    Finals,     \* positions of "qwen_stage finalize" of the legacy plan
    MaxFaults   \* bound on signals, server deaths and failing commands

ASSUME PlanAssumption ==
    /\ Plan \in Seq({"qwen", "other", "stop"})
    /\ Finals \subseteq {i \in DOMAIN Plan : Plan[i] = "qwen"}

\* Between the stop before a stage of another model and that stage, the script
\* runs only other stages (lines 131-132 and 136-162).
ASSUME StopsAssumption ==
    \A i \in DOMAIN Plan : Plan[i] = "other" =>
        \E j \in 1..(i - 1) : Plan[j] = "stop"
                             /\ \A k \in (j + 1)..(i - 1) : Plan[k] = "other"

ASSUME FaultsAssumption == MaxFaults \in Nat

VARIABLES
    pc,        \* position in the plan
    at,        \* the command the script is about to run
    step,      \* the stage process of this run
    stepPid,   \* ACTIVE_STEP_PID is set
    server,    \* the Qwen server of this run
    qwenPid,   \* QWEN_PID is set
    strays,    \* processes still running that no run remembers
    done,      \* stages whose records and files are complete on disk
    exit,      \* exit status of the last run, NoExit while one executes
    signalled, \* a signal waits for the end of the foreground command
    faults

script == <<pc, at, stepPid, qwenPid>>
processes == <<step, server, strays>>
vars == <<script, processes, done, exit, signalled, faults>>

Stage == {i \in DOMAIN Plan : Plan[i] # "stop"}
NoExit == 1000
End == Len(Plan) + 1
Port == 0    \* stands for a forgotten Qwen server among the strays

TypeOK ==
    /\ pc \in 1..End
    /\ at \in {"next", "probe", "fork_server", "set_server", "poll", "fork_step",
               "set_step", "wait", "abort", "off"}
    /\ step \in {"none", "running", "ok", "failed"}
    /\ server \in {"none", "loading", "ready", "dead"}
    /\ stepPid \in BOOLEAN /\ qwenPid \in BOOLEAN
    /\ strays \in SUBSET (Stage \cup {Port})
    /\ done \in SUBSET Stage
    /\ exit \in {NoExit, 0, 1, 75}
    /\ signalled \in BOOLEAN
    /\ faults \in 0..MaxFaults

Init ==
    /\ pc = 1 /\ at = "next"
    /\ step = "none" /\ stepPid = FALSE
    /\ server = "none" /\ qwenPid = FALSE
    /\ strays = {} /\ done = {}
    /\ exit = NoExit /\ signalled = FALSE /\ faults = 0

Fault == faults < MaxFaults /\ faults' = faults + 1

-----------------------------------------------------------------------------
(* The script.                                                              *)

\* A trapped signal is handled before the next command, never inside a probe.
Reads(label) == at = label /\ ~signalled

\* set -e: a command failed.
Failing(label) ==
    /\ Reads(label) /\ at' = "abort" /\ Fault
    /\ UNCHANGED <<pc, stepPid, qwenPid, processes, done, exit, signalled>>

NextCall(call, label) ==
    /\ Reads("next") /\ pc < End /\ Plan[pc] = call
    /\ at' = label
    /\ UNCHANGED <<pc, stepPid, qwenPid, processes, done, exit, signalled, faults>>

QwenStage == NextCall("qwen", "probe")

OtherStage == NextCall("other", "fork_step")

ForgetServer ==  \* mutant: the pid is cleared before the kill
    qwenPid' = FALSE /\ UNCHANGED server

\* stop_qwen kills the server and waits for it, when QWEN_PID is set.
KillServer ==
    /\ qwenPid' = FALSE
    /\ server' = IF qwenPid THEN "none" ELSE server

StopQwen ==
    /\ Reads("next") /\ pc < End /\ Plan[pc] = "stop"
    /\ KillServer
    /\ pc' = pc + 1
    /\ UNCHANGED <<at, stepPid, step, strays, done, exit, signalled, faults>>

BeginUnserved == "fork_step"  \* mutant: the server is taken for granted

\* The server is started by the first stage that needs it.
Begin == IF qwenPid THEN "fork_step" ELSE "fork_server"

\* route_b_caption --check-only: 0 when the stage is complete, 3 when pending.
Probe ==
    /\ at = "probe"
    /\ \/ /\ pc \in done /\ pc \notin Finals
          /\ pc' = pc + 1 /\ at' = "next"
       \/ /\ pc \in done /\ pc \in Finals
          /\ at' = "fork_step" /\ UNCHANGED pc
       \/ /\ pc \notin done
          /\ at' = Begin
          /\ UNCHANGED pc
    /\ UNCHANGED <<stepPid, qwenPid, processes, done, exit, signalled, faults>>

ProbeFails == Failing("probe")

\* setsid bash scripts/serve_qwen38.sh &
ForkServer ==
    /\ Reads("fork_server")
    /\ server' = "loading" /\ at' = "set_server"
    /\ UNCHANGED <<pc, stepPid, qwenPid, step, strays, done, exit, signalled, faults>>

SetServerNever ==  \* mutant: the pid of the server is not recorded
    /\ Reads("set_server") /\ at' = "poll"
    /\ UNCHANGED <<pc, stepPid, qwenPid, processes, done, exit, signalled, faults>>

SetServer ==
    /\ Reads("set_server")
    /\ qwenPid' = TRUE /\ at' = "poll"
    /\ UNCHANGED <<pc, stepPid, processes, done, exit, signalled, faults>>

\* curl asks the port, which any server may answer, before kill -0.
Answers == server = "ready" \/ Port \in strays

PollReady ==
    /\ Reads("poll") /\ Answers
    /\ at' = "fork_step"
    /\ UNCHANGED <<pc, stepPid, qwenPid, processes, done, exit, signalled, faults>>

PollDead ==
    /\ Reads("poll") /\ ~Answers /\ server = "dead"
    /\ at' = "abort"
    /\ UNCHANGED <<pc, stepPid, qwenPid, processes, done, exit, signalled, faults>>

PollTimeout == ~Answers /\ server = "loading" /\ Failing("poll")

\* setsid "$@" &
ForkStep ==
    /\ Reads("fork_step")
    /\ step' = "running" /\ at' = "set_step"
    /\ UNCHANGED <<pc, stepPid, qwenPid, server, strays, done, exit, signalled, faults>>

SetStep ==
    /\ Reads("set_step")
    /\ stepPid' = TRUE /\ at' = "wait"
    /\ UNCHANGED <<pc, qwenPid, processes, done, exit, signalled, faults>>

AfterStepAnyway ==  \* mutant: the status of the step is lost
    pc' = pc + 1 /\ at' = "next"

\* set -e ends the script if the step failed.
AfterStep ==
    IF step = "ok" THEN pc' = pc + 1 /\ at' = "next"
    ELSE at' = "abort" /\ UNCHANGED pc

\* wait returns the status of the step.
WaitReturns ==
    /\ Reads("wait") /\ step \in {"ok", "failed"}
    /\ stepPid' = FALSE /\ step' = "none"
    /\ AfterStep
    /\ UNCHANGED <<qwenPid, server, strays, done, exit, signalled, faults>>

\* The closing validation of the outputs, and the end of the script.
Validate ==
    /\ Reads("next") /\ pc = End
    /\ exit' = 0 /\ at' = "off" /\ KillServer
    /\ UNCHANGED <<pc, stepPid, step, strays, done, signalled, faults>>

ValidateFails == pc = End /\ Failing("next")

\* trap stop_qwen EXIT
Abort ==
    /\ Reads("abort")
    /\ exit' = 1 /\ at' = "off" /\ KillServer
    /\ UNCHANGED <<pc, stepPid, step, strays, done, signalled, faults>>

-----------------------------------------------------------------------------
(* Signals, the supervisor, and the processes themselves.                   *)

Signal ==
    /\ at # "off" /\ ~signalled
    /\ signalled' = TRUE /\ Fault
    /\ UNCHANGED <<script, processes, done, exit>>

\* The processes alive that the handler does not know the pid of.
Forgotten ==
    (IF step = "running" /\ ~stepPid THEN {pc} ELSE {})
        \cup (IF server \in {"loading", "ready"} /\ ~qwenPid THEN {Port} ELSE {})

\* handle_signal: stop_active_step, stop_qwen, exit 75.
HandleSignal ==
    /\ signalled /\ at # "probe"
    /\ exit' = 75 /\ at' = "off" /\ signalled' = FALSE
    /\ stepPid' = FALSE /\ qwenPid' = FALSE
    /\ step' = "none" /\ server' = "none"
    /\ strays' = strays \cup Forgotten
    /\ UNCHANGED <<pc, done, faults>>

Restart ==
    /\ at = "off" /\ exit # 0
    /\ pc' = 1 /\ at' = "next" /\ exit' = NoExit
    /\ UNCHANGED <<stepPid, qwenPid, processes, done, signalled, faults>>

\* Another server on the port keeps this one from serving.
Load ==
    /\ server = "loading" /\ Port \notin strays /\ server' = "ready"
    /\ UNCHANGED <<script, step, strays, done, exit, signalled, faults>>

\* The port is in use; or out of memory, a lost GPU.
ServerDies ==
    /\ server \in {"loading", "ready"} /\ server' = "dead"
    /\ \/ server = "loading" /\ Port \in strays /\ UNCHANGED faults
       \/ Fault
    /\ UNCHANGED <<script, step, strays, done, exit, signalled>>

\* A pending Qwen stage fails without a server; everything else may finish.
Served == Plan[pc] = "qwen" /\ pc \notin done => Answers

StepCompletes ==
    /\ step = "running" /\ Served
    /\ step' = "ok" /\ done' = done \cup {pc}
    /\ UNCHANGED <<script, server, strays, exit, signalled, faults>>

StepFails ==
    /\ step = "running" /\ step' = "failed"
    /\ \/ Served /\ Fault
       \/ ~Served /\ UNCHANGED faults
    /\ UNCHANGED <<script, server, strays, done, exit, signalled>>

StrayCompletes ==
    \E i \in strays \cap Stage :
        /\ strays' = strays \ {i}
        /\ done' = done \cup {i}
        /\ UNCHANGED <<script, step, server, exit, signalled, faults>>

StrayFails ==
    \E i \in strays \cap Stage :
        /\ strays' = strays \ {i} /\ Fault
        /\ UNCHANGED <<script, step, server, done, exit, signalled>>

Script ==
    \/ QwenStage \/ OtherStage \/ StopQwen
    \/ Probe
    \/ ForkServer \/ SetServer \/ PollReady \/ PollDead
    \/ ForkStep \/ SetStep \/ WaitReturns
    \/ Validate \/ Abort \/ HandleSignal

Failures == ProbeFails \/ PollTimeout \/ ValidateFails \/ ServerDies

Processes == Load \/ StepCompletes \/ StepFails \/ StrayCompletes \/ StrayFails

Next == Script \/ Failures \/ Processes \/ Signal \/ Restart

Spec == Init /\ [][Next]_vars

\* The script and what it starts run on; the supervisor restarts the script.
FairSpec ==
    /\ Spec /\ WF_vars(Script) /\ WF_vars(Restart)
    /\ WF_vars(Load) /\ WF_vars(StepCompletes \/ StepFails)

-----------------------------------------------------------------------------
(* Properties.                                                              *)

\* No grounder runs while the Qwen server of the same run holds the GPU: the
\* plan stops Qwen before every "other" stage, whatever was signalled, failed
\* or resumed before (stop_qwen, run_pipeline.sh lines 20-32 and 131).
GpuExclusive == step = "running" /\ Plan[pc] = "other" => server = "none"

\* A stage starts only when every earlier one is complete on disk, also when
\* the probes of a restarted script skip what an earlier run did, and a script
\* that reports success has completed them all (set -e, lines 86-103).
StagesInOrder ==
    /\ step # "none" => \A i \in Stage : i < pc => i \in done
    /\ exit = 0 => done = Stage

\* The step of a pending Qwen stage starts after its own server is ready,
\* unless a forgotten server answers on the port (start_qwen, lines 69-83).
ServerFirst ==
    step = "running" /\ Plan[pc] = "qwen" /\ pc \notin done /\ Port \notin strays
        => server \in {"ready", "dead"}

\* A run that ends without a signal leaves no process (trap stop_qwen EXIT).
NormalExitIsClean == exit \in {0, 1} => server = "none" /\ step = "none"

\* A signal leaves a process behind only if it arrives between the command
\* that starts the process and the assignment of its pid (lines 49-50, 67-68).
ForgetsOnlyInWindow ==
    [][strays' \subseteq strays \/ at \in {"set_server", "set_step"}]_vars

\* README.md line 134: a termination signal stops active work and exits 75.
SignalStopsWork == exit = 75 => strays = {}

\* With a supervisor that restarts it, the script completes every stage
\* however signals, dying servers and failing commands are spread over the
\* runs, once they stop.
Completes == <>(exit = 0)
=============================================================================
