---------------------------- MODULE ResidentPool ----------------------------
(***************************************************************************)
(* Resident grounder services: Proxy.ground_batch, through which a task    *)
(* reaches one, and the request handler and ImageCache of the process that *)
(* holds the model (src/src/grounding/resident.py).                        *)
(*                                                                         *)
(* The owner of a GPU is not part of the repository.  It publishes a ready *)
(* file for its endpoint, answers 429 while the model works for another    *)
(* task, starts the model process on demand and passes requests and        *)
(* answers on; it may die and be followed by an owner with other settings. *)
(***************************************************************************)
EXTENDS Naturals, Sequences, FiniteSets, SequencesExt

CONSTANTS
    Task, Service,
    Settings,     \* service_signature: model, config and environment
    TaskSettings, \* Proxy.signature of every task
    Image,        \* image contents, named by their hash
    Batches,      \* the images of a request list, in its order
    Capacity,     \* ImageCache.capacity
    MaxCalls,     \* bound on calls of ground_batch
    MaxFaults,    \* bound on failures, deaths and replacements
    Nobody

ASSUME PoolAssumption ==
    /\ TaskSettings \in [Task -> Settings]
    /\ Batches \subseteq Seq(Image) \ {<<>>}
    /\ Capacity \in Nat /\ MaxCalls \in Nat /\ MaxFaults \in Nat
    /\ Nobody \notin Settings \cup Service

VARIABLES
    owner, \* settings the living owner of an endpoint serves, or Nobody
    paths, \* ImageCache.paths of the model process: the images used before each image
    disk,  \* the image files of the endpoint: a set of [image, whole]
    job,   \* the request a model process is at, or Nobody
    call,  \* what a task is doing
    calls, poolFaults

poolVars == <<owner, paths, disk, job, call, calls, poolFaults>>

Result == [image: Image, whole: BOOLEAN, settings: Settings]
Idle == [pc |-> "idle", number |-> 0, batch |-> <<>>, unread |-> {}, candidates |-> {},
         found |-> FALSE, excluded |-> {}, late |-> FALSE, at |-> Nobody,
         results |-> <<>>, steady |-> {}, failed |-> {},
         deaths |-> [s \in Service |-> 0]]

NoPaths == [i \in {} |-> {}]

Init ==
    /\ owner \in [Service -> Settings]
    /\ paths = [s \in Service |-> NoPaths] /\ disk = [s \in Service |-> {}]
    /\ job = [s \in Service |-> Nobody]
    /\ call = [t \in Task |-> Idle]
    /\ calls = 0 /\ poolFaults = 0

Fault == poolFaults < MaxFaults /\ poolFaults' = poolFaults + 1

-----------------------------------------------------------------------------
(* Proxy.ground_batch                                                       *)

Compatible(t, s) == owner[s] = TaskSettings[t]

Begin(t) ==
    /\ call[t].pc \in {"idle", "returned", "gaveUp", "timedOut"}
    /\ calls < MaxCalls /\ calls' = calls + 1
    /\ \E b \in Batches : call' = [call EXCEPT ![t] = [Idle EXCEPT
            !.pc = "loop", !.number = calls + 1, !.batch = b]]
    /\ UNCHANGED <<owner, paths, disk, job, poolFaults>>

(* while time.monotonic() < deadline: the time may be up at any turn.       *)
Loop(t) ==
    /\ call[t].pc = "loop"
    /\ \/ /\ ~call[t].late
          /\ call' = [call EXCEPT ![t] = [call[t] EXCEPT
                !.pc = "scan", !.unread = Service, !.candidates = {}, !.found = FALSE,
                !.steady = {s \in Service : Compatible(t, s)}]]
       \/ call' = [call EXCEPT ![t].pc = "timedOut"]
    /\ UNCHANGED <<owner, paths, disk, job, calls, poolFaults>>

Read(t, s) ==
    /\ call[t].pc = "scan" /\ s \in call[t].unread
    /\ LET taken == Compatible(t, s) /\ s \notin call[t].excluded
       IN  call' = [call EXCEPT ![t] = [call[t] EXCEPT
                !.unread = @ \ {s},
                !.candidates = IF taken THEN @ \cup {s} ELSE @,
                !.found = @ \/ taken]]
    /\ UNCHANGED <<owner, paths, disk, job, calls, poolFaults>>

Scanned(t) ==
    /\ call[t].pc = "scan" /\ call[t].unread = {}
    /\ call' = [call EXCEPT ![t].pc = "try"]
    /\ UNCHANGED <<owner, paths, disk, job, calls, poolFaults>>

FailedByAgain(c, s) ==  \* mutant: a service that failed the request is tried again
    [c EXCEPT !.pc = "try", !.at = Nobody, !.failed = @ \cup {s}]

FailedBy(c, s) == [c EXCEPT !.pc = "try", !.at = Nobody,
                            !.excluded = @ \cup {s}, !.failed = @ \cup {s}]

BusyExcluded(c, s) == [c EXCEPT !.excluded = @ \cup {s}]  \* mutant: 429 is a failure

(* 429: passed over in this turn only.                                      *)
Busy(c, s) == c

(* The order of the candidates is that of flags their owners wrote, which   *)
(* may be anything.                                                         *)
Send(t, s) ==
    /\ call[t].pc = "try" /\ s \in call[t].candidates
    /\ LET c == [call[t] EXCEPT !.candidates = @ \ {s}]
       IN  \/ owner[s] = Nobody                      \* connection refused
              /\ call' = [call EXCEPT ![t] = FailedBy(c, s)]
              /\ UNCHANGED job
           \/ owner[s] # Nobody /\ job[s] # Nobody
              /\ call' = [call EXCEPT ![t] = Busy(c, s)]
              /\ UNCHANGED job
           \/ owner[s] # Nobody /\ job[s] = Nobody
              /\ job' = [job EXCEPT ![s] =
                    [task |-> t, number |-> c.number, batch |-> c.batch,
                     settings |-> TaskSettings[t], at |-> "check"]]
              /\ call' = [call EXCEPT ![t] = [c EXCEPT !.pc = "wait", !.at = s]]
    /\ UNCHANGED <<owner, paths, disk, calls, poolFaults>>

NoMore(t) ==
    /\ call[t].pc = "try" /\ call[t].candidates = {}
    /\ call' = [call EXCEPT ![t].pc =
            IF call[t].excluded # {} /\ ~call[t].found THEN "gaveUp" ELSE "loop"]
    /\ UNCHANGED <<owner, paths, disk, job, calls, poolFaults>>

(* The time is up while the service is still working; its answer, or its    *)
(* end, comes too late for the task.                                        *)
Expire(t) ==
    /\ call[t].pc = "wait" /\ Fault
    /\ call' = [call EXCEPT ![t] = [FailedBy(call[t], call[t].at) EXCEPT !.late = TRUE]]
    /\ UNCHANGED <<owner, paths, disk, job, calls>>

-----------------------------------------------------------------------------
(* The handler of a model process; it serves one request at a time.         *)

Waits(s) ==
    LET c == call[job[s].task]
    IN  c.pc = "wait" /\ c.at = s /\ c.number = job[s].number

(* os._exit(76) after the answer 500, or the death of the process under it. *)
Died(s) ==
    /\ paths' = [paths EXCEPT ![s] = NoPaths]
    /\ job' = [job EXCEPT ![s] = Nobody]
    /\ LET t == job[s].task
           c == [call[t] EXCEPT !.deaths[s] = @ + 1]
       IN  call' = IF call[t].number # job[s].number THEN call
                   ELSE [call EXCEPT ![t] = IF Waits(s) THEN FailedBy(c, s) ELSE c]

AcceptsAny(s) == TRUE  \* mutant: the settings of a request are not compared

Accepts(s) == job[s].settings = owner[s]

Refuse(s) ==
    /\ job[s] # Nobody /\ job[s].at = "check" /\ ~Accepts(s)
    /\ Died(s)
    /\ UNCHANGED <<owner, disk, calls, poolFaults>>

(* ImageCache.materialize: the images of a request become the newest, each   *)
(* at the place of its last use.                                            *)
LastUse(batch, i) == Max({n \in DOMAIN batch : batch[n] = i})

Touched(held, batch) ==
    LET current == ToSet(batch)
    IN  [i \in DOMAIN held \cup current |->
            IF i \notin current THEN held[i] \ current
            ELSE (DOMAIN held \ current)
                    \cup {j \in current : LastUse(batch, j) < LastUse(batch, i)}]

EvictedOldest(held, current) ==  \* mutant
    {i \in DOMAIN held : Cardinality(held[i]) + Capacity < Cardinality(DOMAIN held)}

(* The oldest are evicted until the rest fits, those of the request never.  *)
Evicted(held, current) ==
    {i \in DOMAIN held \ current :
        Cardinality(held[i] \ current) + Capacity < Cardinality(DOMAIN held)}

Materialize(s) ==
    /\ job[s] # Nobody /\ job[s].at = "check" /\ Accepts(s)
    /\ LET current == ToSet(job[s].batch)
           held == Touched(paths[s], job[s].batch)
           gone == Evicted(held, current)
           new == current \ DOMAIN paths[s]
       IN  /\ paths' = [paths EXCEPT ![s] = [i \in DOMAIN held \ gone |-> held[i] \ gone]]
           /\ disk' = [disk EXCEPT ![s] =
                {f \in @ : f.image \notin gone \cup new}
                    \cup {[image |-> i, whole |-> TRUE] : i \in new \ gone}]
    /\ job' = [job EXCEPT ![s].at = "infer"]
    /\ UNCHANGED <<owner, call, calls, poolFaults>>

(* The process dies while it writes the file of an image.                   *)
Tear(s) ==
    /\ job[s] # Nobody /\ job[s].at = "check" /\ Accepts(s) /\ Fault
    /\ \E i \in ToSet(job[s].batch) \ DOMAIN paths[s] :
        disk' = [disk EXCEPT ![s] = {f \in @ : f.image # i} \cup {[image |-> i, whole |-> FALSE]}]
    /\ Died(s)
    /\ UNCHANGED <<owner, calls>>

(* The answer of the model reaches the task if it still waits for it.  One  *)
(* with too few results counts as a failure of the service, which goes on.  *)
Answer(s) ==
    /\ job[s] # Nobody /\ job[s].at = "infer"
    /\ job' = [job EXCEPT ![s] = Nobody]
    /\ call' = IF ~Waits(s) THEN call
               ELSE [call EXCEPT ![job[s].task] = [call[job[s].task] EXCEPT
                    !.pc = "returned", !.at = Nobody,
                    !.results = [n \in DOMAIN job[s].batch |->
                        [image |-> job[s].batch[n],
                         whole |-> [image |-> job[s].batch[n], whole |-> TRUE] \in disk[s],
                         settings |-> owner[s]]]]]
    /\ UNCHANGED <<owner, paths, disk, calls, poolFaults>>

AnswerShort(s) ==
    /\ job[s] # Nobody /\ job[s].at = "infer" /\ Fault
    /\ job' = [job EXCEPT ![s] = Nobody]
    /\ call' = IF Waits(s) THEN [call EXCEPT ![job[s].task] = FailedBy(call[job[s].task], s)]
               ELSE call
    /\ UNCHANGED <<owner, paths, disk, calls>>

Fail(s) ==
    /\ job[s] # Nobody /\ job[s].at = "infer" /\ Fault
    /\ Died(s)
    /\ UNCHANGED <<owner, disk, calls>>

-----------------------------------------------------------------------------
(* The owner of an endpoint (external)                                      *)

Replaced(s) ==
    /\ Fault
    /\ \E o \in (Settings \cup {Nobody}) \ {owner[s]} : owner' = [owner EXCEPT ![s] = o]
    /\ paths' = [paths EXCEPT ![s] = NoPaths]
    /\ job' = [job EXCEPT ![s] = Nobody]
    /\ call' = [t \in Task |->
            LET c == [call[t] EXCEPT !.steady = @ \ {s}]
            IN  IF c.pc = "wait" /\ c.at = s THEN FailedBy(c, s) ELSE c]
    /\ UNCHANGED <<disk, calls>>

Next ==
    \/ \E t \in Task :
        \/ Begin(t) \/ Loop(t) \/ Scanned(t) \/ NoMore(t) \/ Expire(t)
        \/ \E s \in Service : Read(t, s) \/ Send(t, s)
    \/ \E s \in Service :
        \/ Refuse(s) \/ Materialize(s) \/ Tear(s)
        \/ Answer(s) \/ AnswerShort(s) \/ Fail(s)
        \/ Replaced(s)

Spec == Init /\ [][Next]_poolVars
-----------------------------------------------------------------------------
(* What a call returns was inferred with the task's own settings, though    *)
(* the service may have changed owners since its file was read, and from    *)
(* whole files of the images the task sent, though a process may have died  *)
(* writing them and the cache of the service evicts (resident.py:211).      *)
CallsAreRight ==
    \A t \in Task : call[t].pc = "returned" =>
        call[t].results = [n \in DOMAIN call[t].batch |->
            [image |-> call[t].batch[n], whole |-> TRUE, settings |-> TaskSettings[t]]]

(* A call gives up only when some service has failed it, and so has every   *)
(* service that was compatible throughout its last scan: a service that is  *)
(* busy with other tasks is waited for (resident.py:174).                   *)
GivesUpForCause ==
    \A t \in Task : call[t].pc = "gaveUp" =>
        call[t].failed # {} /\ call[t].steady \subseteq call[t].failed

(* A request that takes down the processes that work on it takes down each  *)
(* endpoint's at most once, whatever its owner starts in its place          *)
(* (resident.py:304).                                                       *)
PoisonIsBounded == \A t \in Task, s \in Service : call[t].deaths[s] <= 1
=============================================================================
