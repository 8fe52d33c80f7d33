------------------------ MODULE PipelineRunnerProofs ------------------------
(***************************************************************************)
(* What the runner guarantees for every plan that stops Qwen before the    *)
(* stages of other models, and for any number of signals, failing commands,*)
(* dying servers and restarts.                                             *)
(***************************************************************************)
EXTENDS PipelineRunner, TLAPS

\* Where a process of this run may exist, and which pid is known there.
PidInv ==
    /\ server # "none" => qwenPid \/ at = "set_server"
    /\ qwenPid => server # "none"
    /\ at = "set_server" => server # "none"
    /\ at = "poll" => qwenPid
    /\ step # "none" => at = "set_step" \/ at = "wait"
    /\ at = "wait" => stepPid
    /\ at = "off" <=> exit # NoExit
    /\ at = "off" => server = "none" /\ step = "none" /\ ~qwenPid

\* Which call of the plan a command belongs to.
PlaceInv ==
    /\ at \in {"probe", "fork_server", "set_server", "poll"} =>
          pc \in DOMAIN Plan /\ Plan[pc] = "qwen"
    /\ at \in {"fork_step", "set_step", "wait"} => pc \in Stage

\* Before a stage of another model Qwen has been stopped.
QuietInv ==
    pc \in DOMAIN Plan /\ Plan[pc] = "other" => server = "none" /\ ~qwenPid

\* What lies behind is done.
OrderInv ==
    /\ \A i \in Stage : i < pc => i \in done
    /\ step = "ok" => pc \in done
    /\ exit = 0 => done = Stage

\* A pending Qwen stage runs against a server that has been waited for.
ReadyInv ==
    /\ server = "loading" => at \in {"set_server", "poll", "abort"} \/ Port \in strays
    /\ at \in {"fork_step", "set_step", "wait"} /\ Plan[pc] = "qwen" /\ pc \notin done
          => qwenPid

IInv == TypeOK /\ PidInv /\ PlaceInv /\ QuietInv /\ OrderInv /\ ReadyInv

-----------------------------------------------------------------------------
\* The plan as the provers need it: a function on 1..Len(Plan).
LEMMA PlanFacts ==
    /\ Len(Plan) \in Nat
    /\ DOMAIN Plan = 1..Len(Plan)
    /\ End = Len(Plan) + 1
    /\ \A i \in DOMAIN Plan : Plan[i] \in {"qwen", "other", "stop"}
    /\ Stage \subseteq DOMAIN Plan
    /\ Port \notin Stage
  BY PlanAssumption DEF Stage, End, Port

\* When a call before a stage of another model ends, that call was the stop or
\* another such stage.
LEMMA BeforeOther ==
    ASSUME NEW i \in DOMAIN Plan, i + 1 \in DOMAIN Plan, Plan[i + 1] = "other"
    PROVE  Plan[i] \in {"stop", "other"}
  <1>1. PICK j \in 1..((i + 1) - 1) : Plan[j] = "stop"
            /\ \A k \in (j + 1)..((i + 1) - 1) : Plan[k] = "other"
    BY StopsAssumption
  <1>2. i \in Nat /\ j \in Nat
    BY PlanFacts
  <1>3. CASE j = i
    BY <1>1, <1>3
  <1>4. CASE j # i
    <2>1. i \in (j + 1)..((i + 1) - 1)
      BY <1>2, <1>4
    <2>2. QED
      BY <1>1, <2>1
  <1>5. QED
    BY <1>3, <1>4

LEMMA Initially == Init => IInv
  <1> SUFFICES ASSUME Init PROVE IInv
    OBVIOUS
  <1>1. TypeOK
    <2>1. pc \in 1..End /\ faults \in 0..MaxFaults
      BY PlanFacts, FaultsAssumption DEF Init
    <2>2. QED
      BY <2>1 DEF Init, TypeOK, NoExit
  <1>2. PidInv /\ PlaceInv /\ QuietInv /\ ReadyInv
    BY DEF Init, PidInv, PlaceInv, QuietInv, ReadyInv, NoExit
  <1>3. OrderInv
    BY PlanFacts DEF Init, OrderInv, NoExit
  <1>4. QED
    BY <1>1, <1>2, <1>3 DEF IInv

LEMMA KeepsQwenStage == IInv /\ QwenStage => IInv'
  <1> SUFFICES ASSUME IInv, QwenStage PROVE IInv'
    OBVIOUS
  <1> USE PlanFacts, FaultsAssumption
      DEF IInv, QwenStage, NextCall, Reads, script, processes, NoExit
  <1>1. TypeOK'
    BY DEF TypeOK, PlaceInv
  <1>2. PidInv'
    BY DEF TypeOK, PidInv, PlaceInv
  <1>3. PlaceInv'
    BY DEF TypeOK, PidInv, PlaceInv, Stage
  <1>4. QuietInv'
    BY BeforeOther DEF TypeOK, PidInv, PlaceInv, QuietInv, Stage
  <1>5. OrderInv'
    BY DEF TypeOK, PidInv, PlaceInv, OrderInv, Stage
  <1>6. ReadyInv'
    BY DEF TypeOK, PidInv, PlaceInv, ReadyInv, Stage
  <1>7. QED
    BY <1>1, <1>2, <1>3, <1>4, <1>5, <1>6

LEMMA KeepsOtherStage == IInv /\ OtherStage => IInv'
  <1> SUFFICES ASSUME IInv, OtherStage PROVE IInv'
    OBVIOUS
  <1> USE PlanFacts, FaultsAssumption
      DEF IInv, OtherStage, NextCall, Reads, script, processes, NoExit
  <1>1. TypeOK'
    BY DEF TypeOK, PlaceInv
  <1>2. PidInv'
    BY DEF TypeOK, PidInv, PlaceInv
  <1>3. PlaceInv'
    BY DEF TypeOK, PidInv, PlaceInv, Stage
  <1>4. QuietInv'
    BY BeforeOther DEF TypeOK, PidInv, PlaceInv, QuietInv, Stage
  <1>5. OrderInv'
    BY DEF TypeOK, PidInv, PlaceInv, OrderInv, Stage
  <1>6. ReadyInv'
    BY DEF TypeOK, PidInv, PlaceInv, ReadyInv, Stage
  <1>7. QED
    BY <1>1, <1>2, <1>3, <1>4, <1>5, <1>6

LEMMA KeepsStopQwen == IInv /\ StopQwen => IInv'
  <1> SUFFICES ASSUME IInv, StopQwen PROVE IInv'
    OBVIOUS
  <1> USE PlanFacts, FaultsAssumption
      DEF IInv, StopQwen, KillServer, Reads, script, processes, NoExit
  <1>1. TypeOK'
    <2>1. pc + 1 \in 1..End
      BY DEF TypeOK, PlaceInv
    <2>2. /\ at' \in {"next", "probe", "fork_server", "set_server", "poll", "fork_step",
                      "set_step", "wait", "abort", "off"}
          /\ server' \in {"none", "loading", "ready", "dead"}
          /\ step' \in {"none", "running", "ok", "failed"}
      BY DEF TypeOK
    <2>3. stepPid' \in BOOLEAN /\ qwenPid' \in BOOLEAN /\ signalled' \in BOOLEAN
      BY DEF TypeOK
    <2>4. exit' \in {NoExit, 0, 1, 75} /\ faults' \in 0..MaxFaults
      BY DEF TypeOK
    <2>5. strays' \in SUBSET (Stage \cup {Port}) /\ done' \in SUBSET Stage
      BY DEF TypeOK
    <2>6. QED
      BY <2>1, <2>2, <2>3, <2>4, <2>5 DEF TypeOK
  <1>2. PidInv'
    BY DEF TypeOK, PidInv, PlaceInv
  <1>3. PlaceInv'
    BY DEF TypeOK, PidInv, PlaceInv, Stage
  <1>4. QuietInv'
    BY BeforeOther DEF TypeOK, PidInv, PlaceInv, QuietInv, Stage
  <1>5. OrderInv'
    BY DEF TypeOK, PidInv, PlaceInv, OrderInv, Stage
  <1>6. ReadyInv'
    BY DEF TypeOK, PidInv, PlaceInv, ReadyInv, Stage
  <1>7. QED
    BY <1>1, <1>2, <1>3, <1>4, <1>5, <1>6

LEMMA KeepsProbe == IInv /\ Probe => IInv'
  <1> SUFFICES ASSUME IInv, Probe PROVE IInv'
    OBVIOUS
  <1> USE PlanFacts, FaultsAssumption
      DEF IInv, Probe, Begin, script, processes, NoExit
  <1>1. TypeOK'
    BY DEF TypeOK, PlaceInv
  <1>2. PidInv'
    BY DEF TypeOK, PidInv, PlaceInv
  <1>3. PlaceInv'
    BY DEF TypeOK, PidInv, PlaceInv, Stage
  <1>4. QuietInv'
    <2> SUFFICES ASSUME pc' \in DOMAIN Plan, Plan[pc'] = "other"
                 PROVE  server' = "none" /\ ~qwenPid'
      BY DEF QuietInv
    <2>1. CASE pc' = pc
      BY <2>1 DEF TypeOK, PidInv, PlaceInv, QuietInv, Stage
    <2>2. CASE pc' = pc + 1
      <3>1. pc \in DOMAIN Plan
        BY <2>2 DEF TypeOK, PidInv, PlaceInv, Stage
      <3>2. Plan[pc] \in {"stop", "other"}
        BY <2>2, <3>1, BeforeOther
      <3>3. QED
        BY <2>2, <3>1, <3>2 DEF TypeOK, PidInv, PlaceInv, QuietInv, Stage
    <2>3. QED
      BY <2>1, <2>2 DEF TypeOK
  <1>5. OrderInv'
    BY DEF TypeOK, PidInv, PlaceInv, OrderInv, Stage
  <1>6. ReadyInv'
    BY DEF TypeOK, PidInv, PlaceInv, ReadyInv, Stage
  <1>7. QED
    BY <1>1, <1>2, <1>3, <1>4, <1>5, <1>6

LEMMA KeepsProbeFails == IInv /\ ProbeFails => IInv'
  <1> SUFFICES ASSUME IInv, ProbeFails PROVE IInv'
    OBVIOUS
  <1> USE PlanFacts, FaultsAssumption
      DEF IInv, ProbeFails, Failing, Reads, Fault, script, processes, NoExit
  <1>1. TypeOK'
    BY DEF TypeOK, PlaceInv
  <1>2. PidInv'
    BY DEF TypeOK, PidInv, PlaceInv
  <1>3. PlaceInv'
    BY DEF TypeOK, PidInv, PlaceInv, Stage
  <1>4. QuietInv'
    BY BeforeOther DEF TypeOK, PidInv, PlaceInv, QuietInv, Stage
  <1>5. OrderInv'
    BY DEF TypeOK, PidInv, PlaceInv, OrderInv, Stage
  <1>6. ReadyInv'
    BY DEF TypeOK, PidInv, PlaceInv, ReadyInv, Stage
  <1>7. QED
    BY <1>1, <1>2, <1>3, <1>4, <1>5, <1>6

LEMMA KeepsForkServer == IInv /\ ForkServer => IInv'
  <1> SUFFICES ASSUME IInv, ForkServer PROVE IInv'
    OBVIOUS
  <1> USE PlanFacts, FaultsAssumption
      DEF IInv, ForkServer, Reads, script, processes, NoExit
  <1>1. TypeOK'
    BY DEF TypeOK, PlaceInv
  <1>2. PidInv'
    BY DEF TypeOK, PidInv, PlaceInv
  <1>3. PlaceInv'
    BY DEF TypeOK, PidInv, PlaceInv, Stage
  <1>4. QuietInv'
    BY BeforeOther DEF TypeOK, PidInv, PlaceInv, QuietInv, Stage
  <1>5. OrderInv'
    BY DEF TypeOK, PidInv, PlaceInv, OrderInv, Stage
  <1>6. ReadyInv'
    BY DEF TypeOK, PidInv, PlaceInv, ReadyInv, Stage
  <1>7. QED
    BY <1>1, <1>2, <1>3, <1>4, <1>5, <1>6

LEMMA KeepsSetServer == IInv /\ SetServer => IInv'
  <1> SUFFICES ASSUME IInv, SetServer PROVE IInv'
    OBVIOUS
  <1> USE PlanFacts, FaultsAssumption
      DEF IInv, SetServer, Reads, script, processes, NoExit
  <1>1. TypeOK'
    BY DEF TypeOK, PlaceInv
  <1>2. PidInv'
    BY DEF TypeOK, PidInv, PlaceInv
  <1>3. PlaceInv'
    BY DEF TypeOK, PidInv, PlaceInv, Stage
  <1>4. QuietInv'
    BY BeforeOther DEF TypeOK, PidInv, PlaceInv, QuietInv, Stage
  <1>5. OrderInv'
    BY DEF TypeOK, PidInv, PlaceInv, OrderInv, Stage
  <1>6. ReadyInv'
    BY DEF TypeOK, PidInv, PlaceInv, ReadyInv, Stage
  <1>7. QED
    BY <1>1, <1>2, <1>3, <1>4, <1>5, <1>6

LEMMA KeepsPollReady == IInv /\ PollReady => IInv'
  <1> SUFFICES ASSUME IInv, PollReady PROVE IInv'
    OBVIOUS
  <1> USE PlanFacts, FaultsAssumption
      DEF IInv, PollReady, Answers, Reads, script, processes, NoExit
  <1>1. TypeOK'
    BY DEF TypeOK, PlaceInv
  <1>2. PidInv'
    BY DEF TypeOK, PidInv, PlaceInv
  <1>3. PlaceInv'
    BY DEF TypeOK, PidInv, PlaceInv, Stage
  <1>4. QuietInv'
    BY BeforeOther DEF TypeOK, PidInv, PlaceInv, QuietInv, Stage
  <1>5. OrderInv'
    BY DEF TypeOK, PidInv, PlaceInv, OrderInv, Stage
  <1>6. ReadyInv'
    BY DEF TypeOK, PidInv, PlaceInv, ReadyInv, Stage
  <1>7. QED
    BY <1>1, <1>2, <1>3, <1>4, <1>5, <1>6

LEMMA KeepsPollDead == IInv /\ PollDead => IInv'
  <1> SUFFICES ASSUME IInv, PollDead PROVE IInv'
    OBVIOUS
  <1> USE PlanFacts, FaultsAssumption
      DEF IInv, PollDead, Reads, script, processes, NoExit
  <1>1. TypeOK'
    BY DEF TypeOK, PlaceInv
  <1>2. PidInv'
    BY DEF TypeOK, PidInv, PlaceInv
  <1>3. PlaceInv'
    BY DEF TypeOK, PidInv, PlaceInv, Stage
  <1>4. QuietInv'
    BY BeforeOther DEF TypeOK, PidInv, PlaceInv, QuietInv, Stage
  <1>5. OrderInv'
    BY DEF TypeOK, PidInv, PlaceInv, OrderInv, Stage
  <1>6. ReadyInv'
    BY DEF TypeOK, PidInv, PlaceInv, ReadyInv, Stage
  <1>7. QED
    BY <1>1, <1>2, <1>3, <1>4, <1>5, <1>6

LEMMA KeepsPollTimeout == IInv /\ PollTimeout => IInv'
  <1> SUFFICES ASSUME IInv, PollTimeout PROVE IInv'
    OBVIOUS
  <1> USE PlanFacts, FaultsAssumption
      DEF IInv, PollTimeout, Failing, Reads, Fault, script, processes, NoExit
  <1>1. TypeOK'
    BY DEF TypeOK, PlaceInv
  <1>2. PidInv'
    BY DEF TypeOK, PidInv, PlaceInv
  <1>3. PlaceInv'
    BY DEF TypeOK, PidInv, PlaceInv, Stage
  <1>4. QuietInv'
    BY BeforeOther DEF TypeOK, PidInv, PlaceInv, QuietInv, Stage
  <1>5. OrderInv'
    BY DEF TypeOK, PidInv, PlaceInv, OrderInv, Stage
  <1>6. ReadyInv'
    BY DEF TypeOK, PidInv, PlaceInv, ReadyInv, Stage
  <1>7. QED
    BY <1>1, <1>2, <1>3, <1>4, <1>5, <1>6

LEMMA KeepsForkStep == IInv /\ ForkStep => IInv'
  <1> SUFFICES ASSUME IInv, ForkStep PROVE IInv'
    OBVIOUS
  <1> USE PlanFacts, FaultsAssumption
      DEF IInv, ForkStep, Reads, script, processes, NoExit
  <1>1. TypeOK'
    BY DEF TypeOK, PlaceInv
  <1>2. PidInv'
    BY DEF TypeOK, PidInv, PlaceInv
  <1>3. PlaceInv'
    BY DEF TypeOK, PidInv, PlaceInv, Stage
  <1>4. QuietInv'
    BY BeforeOther DEF TypeOK, PidInv, PlaceInv, QuietInv, Stage
  <1>5. OrderInv'
    BY DEF TypeOK, PidInv, PlaceInv, OrderInv, Stage
  <1>6. ReadyInv'
    BY DEF TypeOK, PidInv, PlaceInv, ReadyInv, Stage
  <1>7. QED
    BY <1>1, <1>2, <1>3, <1>4, <1>5, <1>6

LEMMA KeepsSetStep == IInv /\ SetStep => IInv'
  <1> SUFFICES ASSUME IInv, SetStep PROVE IInv'
    OBVIOUS
  <1> USE PlanFacts, FaultsAssumption
      DEF IInv, SetStep, Reads, script, processes, NoExit
  <1>1. TypeOK'
    BY DEF TypeOK, PlaceInv
  <1>2. PidInv'
    BY DEF TypeOK, PidInv, PlaceInv
  <1>3. PlaceInv'
    BY DEF TypeOK, PidInv, PlaceInv, Stage
  <1>4. QuietInv'
    BY BeforeOther DEF TypeOK, PidInv, PlaceInv, QuietInv, Stage
  <1>5. OrderInv'
    BY DEF TypeOK, PidInv, PlaceInv, OrderInv, Stage
  <1>6. ReadyInv'
    BY DEF TypeOK, PidInv, PlaceInv, ReadyInv, Stage
  <1>7. QED
    BY <1>1, <1>2, <1>3, <1>4, <1>5, <1>6

LEMMA KeepsWaitReturns == IInv /\ WaitReturns => IInv'
  <1> SUFFICES ASSUME IInv, WaitReturns PROVE IInv'
    OBVIOUS
  <1> USE PlanFacts, FaultsAssumption
      DEF IInv, WaitReturns, AfterStep, Reads, script, processes, NoExit
  <1>1. TypeOK'
    <2>1. pc' \in 1..End
      BY DEF TypeOK, PlaceInv
    <2>2. /\ at' \in {"next", "probe", "fork_server", "set_server", "poll", "fork_step",
                      "set_step", "wait", "abort", "off"}
          /\ server' \in {"none", "loading", "ready", "dead"}
          /\ step' \in {"none", "running", "ok", "failed"}
      BY DEF TypeOK
    <2>3. stepPid' \in BOOLEAN /\ qwenPid' \in BOOLEAN /\ signalled' \in BOOLEAN
      BY DEF TypeOK
    <2>4. exit' \in {NoExit, 0, 1, 75} /\ faults' \in 0..MaxFaults
      BY DEF TypeOK
    <2>5. strays' \in SUBSET (Stage \cup {Port}) /\ done' \in SUBSET Stage
      BY DEF TypeOK
    <2>6. QED
      BY <2>1, <2>2, <2>3, <2>4, <2>5 DEF TypeOK
  <1>2. PidInv'
    BY DEF TypeOK, PidInv, PlaceInv
  <1>3. PlaceInv'
    BY DEF TypeOK, PidInv, PlaceInv, Stage
  <1>4. QuietInv'
    <2> SUFFICES ASSUME pc' \in DOMAIN Plan, Plan[pc'] = "other"
                 PROVE  server' = "none" /\ ~qwenPid'
      BY DEF QuietInv
    <2>1. CASE pc' = pc
      BY <2>1 DEF TypeOK, PidInv, PlaceInv, QuietInv, Stage
    <2>2. CASE pc' = pc + 1
      <3>1. pc \in DOMAIN Plan
        BY <2>2 DEF TypeOK, PidInv, PlaceInv, Stage
      <3>2. Plan[pc] \in {"stop", "other"}
        BY <2>2, <3>1, BeforeOther
      <3>3. QED
        BY <2>2, <3>1, <3>2 DEF TypeOK, PidInv, PlaceInv, QuietInv, Stage
    <2>3. QED
      BY <2>1, <2>2 DEF TypeOK
  <1>5. OrderInv'
    BY DEF TypeOK, PidInv, PlaceInv, OrderInv, Stage
  <1>6. ReadyInv'
    BY DEF TypeOK, PidInv, PlaceInv, ReadyInv, Stage
  <1>7. QED
    BY <1>1, <1>2, <1>3, <1>4, <1>5, <1>6

LEMMA KeepsValidate == IInv /\ Validate => IInv'
  <1> SUFFICES ASSUME IInv, Validate PROVE IInv'
    OBVIOUS
  <1> USE PlanFacts, FaultsAssumption
      DEF IInv, Validate, KillServer, Reads, script, processes, NoExit
  <1>1. TypeOK'
    BY DEF TypeOK, PlaceInv
  <1>2. PidInv'
    BY DEF TypeOK, PidInv, PlaceInv
  <1>3. PlaceInv'
    BY DEF TypeOK, PidInv, PlaceInv, Stage
  <1>4. QuietInv'
    BY BeforeOther DEF TypeOK, PidInv, PlaceInv, QuietInv, Stage
  <1>5. OrderInv'
    BY DEF TypeOK, PidInv, PlaceInv, OrderInv, Stage
  <1>6. ReadyInv'
    BY DEF TypeOK, PidInv, PlaceInv, ReadyInv, Stage
  <1>7. QED
    BY <1>1, <1>2, <1>3, <1>4, <1>5, <1>6

LEMMA KeepsValidateFails == IInv /\ ValidateFails => IInv'
  <1> SUFFICES ASSUME IInv, ValidateFails PROVE IInv'
    OBVIOUS
  <1> USE PlanFacts, FaultsAssumption
      DEF IInv, ValidateFails, Failing, Reads, Fault, script, processes, NoExit
  <1>1. TypeOK'
    BY DEF TypeOK, PlaceInv
  <1>2. PidInv'
    BY DEF TypeOK, PidInv, PlaceInv
  <1>3. PlaceInv'
    BY DEF TypeOK, PidInv, PlaceInv, Stage
  <1>4. QuietInv'
    BY BeforeOther DEF TypeOK, PidInv, PlaceInv, QuietInv, Stage
  <1>5. OrderInv'
    BY DEF TypeOK, PidInv, PlaceInv, OrderInv, Stage
  <1>6. ReadyInv'
    BY DEF TypeOK, PidInv, PlaceInv, ReadyInv, Stage
  <1>7. QED
    BY <1>1, <1>2, <1>3, <1>4, <1>5, <1>6

LEMMA KeepsAbort == IInv /\ Abort => IInv'
  <1> SUFFICES ASSUME IInv, Abort PROVE IInv'
    OBVIOUS
  <1> USE PlanFacts, FaultsAssumption
      DEF IInv, Abort, KillServer, Reads, script, processes, NoExit
  <1>1. TypeOK'
    BY DEF TypeOK, PlaceInv
  <1>2. PidInv'
    BY DEF TypeOK, PidInv, PlaceInv
  <1>3. PlaceInv'
    BY DEF TypeOK, PidInv, PlaceInv, Stage
  <1>4. QuietInv'
    BY BeforeOther DEF TypeOK, PidInv, PlaceInv, QuietInv, Stage
  <1>5. OrderInv'
    BY DEF TypeOK, PidInv, PlaceInv, OrderInv, Stage
  <1>6. ReadyInv'
    BY DEF TypeOK, PidInv, PlaceInv, ReadyInv, Stage
  <1>7. QED
    BY <1>1, <1>2, <1>3, <1>4, <1>5, <1>6

LEMMA KeepsSignal == IInv /\ Signal => IInv'
  <1> SUFFICES ASSUME IInv, Signal PROVE IInv'
    OBVIOUS
  <1> USE PlanFacts, FaultsAssumption
      DEF IInv, Signal, Fault, script, processes, NoExit
  <1>1. TypeOK'
    BY DEF TypeOK, PlaceInv
  <1>2. PidInv'
    BY DEF TypeOK, PidInv, PlaceInv
  <1>3. PlaceInv'
    BY DEF TypeOK, PidInv, PlaceInv, Stage
  <1>4. QuietInv'
    BY BeforeOther DEF TypeOK, PidInv, PlaceInv, QuietInv, Stage
  <1>5. OrderInv'
    BY DEF TypeOK, PidInv, PlaceInv, OrderInv, Stage
  <1>6. ReadyInv'
    BY DEF TypeOK, PidInv, PlaceInv, ReadyInv, Stage
  <1>7. QED
    BY <1>1, <1>2, <1>3, <1>4, <1>5, <1>6

LEMMA KeepsHandleSignal == IInv /\ HandleSignal => IInv'
  <1> SUFFICES ASSUME IInv, HandleSignal PROVE IInv'
    OBVIOUS
  <1> USE PlanFacts, FaultsAssumption
      DEF IInv, HandleSignal, Forgotten, script, processes, NoExit
  <1>1. TypeOK'
    <2>1. step = "running" /\ ~stepPid => pc \in Stage
      BY DEF TypeOK, PidInv, PlaceInv
    <2>2. strays' \in SUBSET (Stage \cup {Port})
      BY <2>1 DEF TypeOK
    <2>3. QED
      BY <2>2 DEF TypeOK
  <1>2. PidInv'
    BY DEF TypeOK, PidInv, PlaceInv
  <1>3. PlaceInv'
    BY DEF TypeOK, PidInv, PlaceInv, Stage
  <1>4. QuietInv'
    BY BeforeOther DEF TypeOK, PidInv, PlaceInv, QuietInv, Stage
  <1>5. OrderInv'
    BY DEF TypeOK, PidInv, PlaceInv, OrderInv, Stage
  <1>6. ReadyInv'
    BY DEF TypeOK, PidInv, PlaceInv, ReadyInv, Stage
  <1>7. QED
    BY <1>1, <1>2, <1>3, <1>4, <1>5, <1>6

LEMMA KeepsRestart == IInv /\ Restart => IInv'
  <1> SUFFICES ASSUME IInv, Restart PROVE IInv'
    OBVIOUS
  <1> USE PlanFacts, FaultsAssumption
      DEF IInv, Restart, script, processes, NoExit
  <1>1. TypeOK'
    BY DEF TypeOK, PlaceInv
  <1>2. PidInv'
    BY DEF TypeOK, PidInv, PlaceInv
  <1>3. PlaceInv'
    BY DEF TypeOK, PidInv, PlaceInv, Stage
  <1>4. QuietInv'
    BY BeforeOther DEF TypeOK, PidInv, PlaceInv, QuietInv, Stage
  <1>5. OrderInv'
    BY DEF TypeOK, PidInv, PlaceInv, OrderInv, Stage
  <1>6. ReadyInv'
    BY DEF TypeOK, PidInv, PlaceInv, ReadyInv, Stage
  <1>7. QED
    BY <1>1, <1>2, <1>3, <1>4, <1>5, <1>6

LEMMA KeepsLoad == IInv /\ Load => IInv'
  <1> SUFFICES ASSUME IInv, Load PROVE IInv'
    OBVIOUS
  <1> USE PlanFacts, FaultsAssumption
      DEF IInv, Load, script, processes, NoExit
  <1>1. TypeOK'
    BY DEF TypeOK, PlaceInv
  <1>2. PidInv'
    BY DEF TypeOK, PidInv, PlaceInv
  <1>3. PlaceInv'
    BY DEF TypeOK, PidInv, PlaceInv, Stage
  <1>4. QuietInv'
    BY BeforeOther DEF TypeOK, PidInv, PlaceInv, QuietInv, Stage
  <1>5. OrderInv'
    BY DEF TypeOK, PidInv, PlaceInv, OrderInv, Stage
  <1>6. ReadyInv'
    BY DEF TypeOK, PidInv, PlaceInv, ReadyInv, Stage
  <1>7. QED
    BY <1>1, <1>2, <1>3, <1>4, <1>5, <1>6

LEMMA KeepsServerDies == IInv /\ ServerDies => IInv'
  <1> SUFFICES ASSUME IInv, ServerDies PROVE IInv'
    OBVIOUS
  <1> USE PlanFacts, FaultsAssumption
      DEF IInv, ServerDies, Fault, script, processes, NoExit
  <1>1. TypeOK'
    BY DEF TypeOK, PlaceInv
  <1>2. PidInv'
    BY DEF TypeOK, PidInv, PlaceInv
  <1>3. PlaceInv'
    BY DEF TypeOK, PidInv, PlaceInv, Stage
  <1>4. QuietInv'
    BY BeforeOther DEF TypeOK, PidInv, PlaceInv, QuietInv, Stage
  <1>5. OrderInv'
    BY DEF TypeOK, PidInv, PlaceInv, OrderInv, Stage
  <1>6. ReadyInv'
    BY DEF TypeOK, PidInv, PlaceInv, ReadyInv, Stage
  <1>7. QED
    BY <1>1, <1>2, <1>3, <1>4, <1>5, <1>6

LEMMA KeepsStepCompletes == IInv /\ StepCompletes => IInv'
  <1> SUFFICES ASSUME IInv, StepCompletes PROVE IInv'
    OBVIOUS
  <1> USE PlanFacts, FaultsAssumption
      DEF IInv, StepCompletes, script, processes, NoExit
  <1>1. TypeOK'
    <2>1. pc \in Stage
      BY DEF TypeOK, PidInv, PlaceInv
    <2>2. done' \in SUBSET Stage
      BY <2>1 DEF TypeOK
    <2>3. QED
      BY <2>2 DEF TypeOK
  <1>2. PidInv'
    BY DEF TypeOK, PidInv, PlaceInv
  <1>3. PlaceInv'
    BY DEF TypeOK, PidInv, PlaceInv, Stage
  <1>4. QuietInv'
    BY BeforeOther DEF TypeOK, PidInv, PlaceInv, QuietInv, Stage
  <1>5. OrderInv'
    BY DEF TypeOK, PidInv, PlaceInv, OrderInv, Stage
  <1>6. ReadyInv'
    BY DEF TypeOK, PidInv, PlaceInv, ReadyInv, Stage
  <1>7. QED
    BY <1>1, <1>2, <1>3, <1>4, <1>5, <1>6

LEMMA KeepsStepFails == IInv /\ StepFails => IInv'
  <1> SUFFICES ASSUME IInv, StepFails PROVE IInv'
    OBVIOUS
  <1> USE PlanFacts, FaultsAssumption
      DEF IInv, StepFails, Fault, script, processes, NoExit
  <1>1. TypeOK'
    BY DEF TypeOK, PlaceInv
  <1>2. PidInv'
    BY DEF TypeOK, PidInv, PlaceInv
  <1>3. PlaceInv'
    BY DEF TypeOK, PidInv, PlaceInv, Stage
  <1>4. QuietInv'
    BY BeforeOther DEF TypeOK, PidInv, PlaceInv, QuietInv, Stage
  <1>5. OrderInv'
    BY DEF TypeOK, PidInv, PlaceInv, OrderInv, Stage
  <1>6. ReadyInv'
    BY DEF TypeOK, PidInv, PlaceInv, ReadyInv, Stage
  <1>7. QED
    BY <1>1, <1>2, <1>3, <1>4, <1>5, <1>6

LEMMA KeepsStrayCompletes == IInv /\ StrayCompletes => IInv'
  <1> SUFFICES ASSUME IInv, StrayCompletes PROVE IInv'
    OBVIOUS
  <1> USE PlanFacts, FaultsAssumption
      DEF IInv, StrayCompletes, script, processes, NoExit
  <1>1. TypeOK'
    BY DEF TypeOK, PlaceInv
  <1>2. PidInv'
    BY DEF TypeOK, PidInv, PlaceInv
  <1>3. PlaceInv'
    BY DEF TypeOK, PidInv, PlaceInv, Stage
  <1>4. QuietInv'
    BY BeforeOther DEF TypeOK, PidInv, PlaceInv, QuietInv, Stage
  <1>5. OrderInv'
    BY DEF TypeOK, PidInv, PlaceInv, OrderInv, Stage
  <1>6. ReadyInv'
    BY DEF TypeOK, PidInv, PlaceInv, ReadyInv, Stage
  <1>7. QED
    BY <1>1, <1>2, <1>3, <1>4, <1>5, <1>6

LEMMA KeepsStrayFails == IInv /\ StrayFails => IInv'
  <1> SUFFICES ASSUME IInv, StrayFails PROVE IInv'
    OBVIOUS
  <1> USE PlanFacts, FaultsAssumption
      DEF IInv, StrayFails, Fault, script, processes, NoExit
  <1>1. TypeOK'
    BY DEF TypeOK, PlaceInv
  <1>2. PidInv'
    BY DEF TypeOK, PidInv, PlaceInv
  <1>3. PlaceInv'
    BY DEF TypeOK, PidInv, PlaceInv, Stage
  <1>4. QuietInv'
    BY BeforeOther DEF TypeOK, PidInv, PlaceInv, QuietInv, Stage
  <1>5. OrderInv'
    BY DEF TypeOK, PidInv, PlaceInv, OrderInv, Stage
  <1>6. ReadyInv'
    BY DEF TypeOK, PidInv, PlaceInv, ReadyInv, Stage
  <1>7. QED
    BY <1>1, <1>2, <1>3, <1>4, <1>5, <1>6

-----------------------------------------------------------------------------
(* The invariant, and what follows from it.                                 *)

LEMMA EveryStep == IInv /\ [Next]_vars => IInv'
  <1> SUFFICES ASSUME IInv, [Next]_vars PROVE IInv'
    OBVIOUS
  <1>1. CASE UNCHANGED vars
    BY <1>1 DEF vars, script, processes, IInv, TypeOK, PidInv, PlaceInv, QuietInv,
                OrderInv, ReadyInv
  <1>2. CASE Next
    BY <1>2, KeepsQwenStage, KeepsOtherStage, KeepsStopQwen, KeepsProbe,
       KeepsProbeFails, KeepsForkServer, KeepsSetServer, KeepsPollReady,
       KeepsPollDead, KeepsPollTimeout, KeepsForkStep, KeepsSetStep,
       KeepsWaitReturns, KeepsValidate, KeepsValidateFails, KeepsAbort,
       KeepsSignal, KeepsHandleSignal, KeepsRestart, KeepsLoad,
       KeepsServerDies, KeepsStepCompletes, KeepsStepFails,
       KeepsStrayCompletes, KeepsStrayFails
    DEF Next, Script, Failures, Processes
  <1>3. QED
    BY <1>1, <1>2

LEMMA Invariance == Spec => []IInv
  BY Initially, EveryStep, PTL DEF Spec

\* Every variable of the runner keeps its type; in particular the position
\* never runs past the end of the plan and only stages are reported done.
THEOREM TypeCorrect == Spec => []TypeOK
  <1>1. IInv => TypeOK
    BY DEF IInv
  <1>2. QED
    BY <1>1, Invariance, PTL

\* In every plan that stops Qwen before the stages of other models, none of
\* those stages ever runs beside the Qwen server of the run.
THEOREM GpuIsExclusive == Spec => []GpuExclusive
  <1>1. IInv => GpuExclusive
    BY PlanFacts DEF IInv, PidInv, PlaceInv, QuietInv, GpuExclusive, Stage
  <1>2. QED
    BY <1>1, Invariance, PTL

\* Stages start in the order of the plan, each on complete predecessors, and
\* exit status 0 means that all are complete.
THEOREM OrderIsKept == Spec => []StagesInOrder
  <1>1. IInv => StagesInOrder
    BY DEF IInv, OrderInv, StagesInOrder
  <1>2. QED
    BY <1>1, Invariance, PTL

\* The step of a pending Qwen stage finds a server that has been waited for.
THEOREM ServerIsFirst == Spec => []ServerFirst
  <1>1. IInv => ServerFirst
    BY DEF IInv, TypeOK, PidInv, PlaceInv, ReadyInv, ServerFirst
  <1>2. QED
    BY <1>1, Invariance, PTL

\* A run that ends without a signal leaves no process of its own.
THEOREM NormalExitLeavesNothing == Spec => []NormalExitIsClean
  <1>1. IInv => NormalExitIsClean
    BY DEF IInv, PidInv, NormalExitIsClean, NoExit
  <1>2. QED
    BY <1>1, Invariance, PTL

\* The only moments at which a signal can make the runner forget a process are
\* the two between starting it and recording its pid.
THEOREM ForgottenOnlyInWindow == Spec => ForgetsOnlyInWindow
  <1>1. IInv /\ [Next]_vars => [strays' \subseteq strays \/ at \in {"set_server", "set_step"}]_vars
    <2> SUFFICES ASSUME IInv, Next
                 PROVE  strays' \subseteq strays \/ at \in {"set_server", "set_step"}
      OBVIOUS
    <2>1. CASE HandleSignal
      <3>1. Forgotten = {} \/ at \in {"set_server", "set_step"}
        BY DEF IInv, PidInv, Forgotten
      <3>2. QED
        BY <2>1, <3>1 DEF HandleSignal
    <2>2. CASE StrayCompletes \/ StrayFails
      BY <2>2 DEF StrayCompletes, StrayFails
    <2>3. CASE ~HandleSignal /\ ~StrayCompletes /\ ~StrayFails
      BY <2>3 DEF Next, Script, Failures, Processes, Signal, Restart, processes, script,
         QwenStage, OtherStage, NextCall, StopQwen, Probe, ProbeFails, Failing, ForkServer,
         SetServer, PollReady, PollDead, PollTimeout, ForkStep, SetStep, WaitReturns,
         Validate, ValidateFails, Abort, Load, ServerDies, StepCompletes, StepFails
    <2>4. QED
      BY <2>1, <2>2, <2>3
  <1>2. QED
    BY <1>1, Invariance, PTL DEF Spec, ForgetsOnlyInWindow
=============================================================================
