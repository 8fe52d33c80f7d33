--------------------------- MODULE GrounderProofs ---------------------------
(***************************************************************************)
(* Proofs about ResidentPool and GrounderCache, for any requests and       *)
(* manifests, any numbers of tasks, services, grounders, inferences, calls *)
(* and faults, and whatever settings there are.  The two share no variable *)
(* and no constant.                                                        *)
(***************************************************************************)
EXTENDS ResidentPool, GrounderCache, SequenceTheorems, FiniteSetTheorems, TLAPS

-----------------------------------------------------------------------------
(* ResidentPool: the inductive invariant                                    *)

Call ==
    [pc: {"idle", "loop", "scan", "try", "wait", "returned", "gaveUp", "timedOut"},
     number: Nat, batch: Seq(Image), unread: SUBSET Service, candidates: SUBSET Service,
     found: BOOLEAN, excluded: SUBSET Service, late: BOOLEAN, at: Service \cup {Nobody},
     results: Seq([image: Image, whole: BOOLEAN, settings: Settings \cup {Nobody}]),
     steady: SUBSET Service, failed: SUBSET Service, deaths: [Service -> Nat]]

Job == [task: Task, number: Nat, batch: Seq(Image), settings: Settings,
        at: {"check", "infer"}]

Typed ==
    /\ owner \in [Service -> Settings \cup {Nobody}]
    /\ job \in [Service -> Job \cup {Nobody}]
    /\ call \in [Task -> Call]
    /\ calls \in Nat

(* The services a call leaves alone are those that failed it, and a request *)
(* that took a process down leaves that process's endpoint alone.           *)
ExclusionOK(c) ==
    /\ c.failed = c.excluded
    /\ c.candidates \cap c.excluded = {}
    /\ c.pc = "wait" => c.at \in Service /\ c.at \notin c.candidates /\ c.at \notin c.excluded
    /\ \A s \in Service : c.deaths[s] <= 1 /\ (c.deaths[s] >= 1 => s \in c.excluded)

(* What a scan has seen of the services that were compatible throughout.    *)
ScanOK(c) ==
    /\ c.pc = "scan" => \A s \in c.steady \ c.unread : c.found \/ s \in c.excluded
    /\ c.pc \in {"try", "wait"} => \A s \in c.steady : c.found \/ s \in c.excluded
    /\ c.pc = "gaveUp" => c.excluded # {} /\ c.steady \subseteq c.excluded

SteadyOK(t) == \A s \in call[t].steady : Compatible(t, s)

(* A process is at a request of the present call of a task only when the    *)
(* request has not taken it down yet, and that call waits for it or has     *)
(* given it up.                                                             *)
JobOK(s) ==
    job[s] # Nobody =>
        /\ job[s].number <= calls
        /\ call[job[s].task].number = job[s].number =>
            /\ call[job[s].task].deaths[s] = 0
            /\ s \notin call[job[s].task].candidates
            /\ Waits(s) \/ s \in call[job[s].task].excluded

CallsOK ==
    \A t \in Task :
        ExclusionOK(call[t]) /\ ScanOK(call[t]) /\ SteadyOK(t) /\ call[t].number <= calls
JobsOK == \A s \in Service : JobOK(s)

IInv == Typed /\ CallsOK /\ JobsOK

-----------------------------------------------------------------------------
LEMMA InitHolds ==
    ASSUME Init
    PROVE  IInv
<1>1. Idle \in Call /\ ExclusionOK(Idle) /\ ScanOK(Idle)
  BY DEF Idle, Call, ExclusionOK, ScanOK
<1>2. Typed
  BY <1>1 DEF Init, Typed
<1>3. \A t \in Task : call[t] = Idle
  BY DEF Init
<1>4. CallsOK
  <2>1. \A t \in Task : SteadyOK(t) /\ call[t].number <= calls
    BY <1>3 DEF SteadyOK, Idle, Init
  <2> QED BY <1>1, <1>3, <2>1 DEF CallsOK
<1>5. JobsOK
  BY DEF Init, JobsOK, JobOK
<1> QED BY <1>2, <1>4, <1>5 DEF IInv

(* A step of one task that leaves the processes alone.                      *)
LEMMA TaskStep ==
    ASSUME IInv, NEW t \in Task, NEW c \in Call,
           call' = [call EXCEPT ![t] = c],
           UNCHANGED <<owner, job, calls>>,
           ExclusionOK(c), ScanOK(c), \A s \in c.steady : Compatible(t, s),
           c.number = call[t].number,
           \A s \in Service :
               job[s] # Nobody /\ job[s].task = t /\ job[s].number = c.number =>
                   /\ c.deaths[s] = call[t].deaths[s]
                   /\ s \notin c.candidates
                   /\ s \in c.excluded \/ (c.pc = "wait" /\ c.at = s)
    PROVE  IInv'
<1>1. Typed'
  BY DEF IInv, Typed
<1>2. \A u \in Task : call'[u] = IF u = t THEN c ELSE call[u]
  BY DEF IInv, Typed
<1>3. CallsOK'
  BY <1>2 DEF IInv, CallsOK, SteadyOK, Compatible
<1>4. ASSUME NEW s \in Service
      PROVE  JobOK(s)'
  <2>1. SUFFICES ASSUME job[s] # Nobody
                 PROVE  JobOK(s)'
    BY DEF JobOK
  <2>2. job[s] \in Job /\ job[s].task \in Task /\ JobOK(s)
    BY <2>1 DEF IInv, Typed, JobsOK, Job
  <2>3. CASE job[s].task = t
    BY <1>2, <2>1, <2>2, <2>3 DEF JobOK, Waits
  <2>4. CASE job[s].task # t
    BY <1>2, <2>1, <2>2, <2>4 DEF JobOK, Waits
  <2> QED BY <2>3, <2>4
<1>5. JobsOK'
  BY <1>4 DEF JobsOK
<1> QED BY <1>1, <1>3, <1>5 DEF IInv

(* What is known of the job a process is at, when it is one of the call.    *)
LEMMA JobOfCall ==
    ASSUME IInv, NEW t \in Task, NEW s \in Service,
           job[s] # Nobody, job[s].task = t, job[s].number = call[t].number
    PROVE  /\ call[t].deaths[s] = 0 /\ s \notin call[t].candidates
           /\ s \in call[t].excluded \/ (call[t].pc = "wait" /\ call[t].at = s)
  BY DEF IInv, JobsOK, JobOK, Waits

LEMMA CallOf ==
    ASSUME IInv, NEW t \in Task
    PROVE  /\ call[t] \in Call /\ ExclusionOK(call[t]) /\ ScanOK(call[t]) /\ SteadyOK(t)
           /\ call[t].number <= calls
  BY DEF IInv, Typed, CallsOK

(* A step of a task that does not wait, with no death.                      *)
LEMMA QuietStep ==
    ASSUME IInv, NEW t \in Task, NEW c \in Call,
           call' = [call EXCEPT ![t] = c],
           UNCHANGED <<owner, job, calls>>,
           call[t].pc # "wait",
           c.number = call[t].number, c.deaths = call[t].deaths,
           call[t].excluded \subseteq c.excluded,
           ExclusionOK(c), ScanOK(c), \A s \in c.steady : Compatible(t, s)
    PROVE  IInv'
<1>1. ASSUME NEW s \in Service, job[s] # Nobody, job[s].task = t, job[s].number = c.number
      PROVE  /\ c.deaths[s] = call[t].deaths[s]
             /\ s \notin c.candidates
             /\ s \in c.excluded \/ (c.pc = "wait" /\ c.at = s)
  <2>1. s \in call[t].excluded /\ s \notin call[t].candidates
    BY <1>1, JobOfCall
  <2> QED BY <2>1 DEF ExclusionOK
<1> QED BY <1>1, TaskStep

-----------------------------------------------------------------------------
(* The steps of a task                                                      *)

LEMMA BeginKeeps ==
    ASSUME IInv, NEW t \in Task, Begin(t)
    PROVE  IInv'
<1>1. PICK b \in Batches : call' = [call EXCEPT ![t] = [Idle EXCEPT
            !.pc = "loop", !.number = calls + 1, !.batch = b]]
  BY DEF Begin
<1> DEFINE c == [Idle EXCEPT !.pc = "loop", !.number = calls + 1, !.batch = b]
<1>2. c \in Call /\ c.number = calls + 1 /\ c.steady = {}
  <2>1. b \in Seq(Image) /\ calls + 1 \in Nat
    BY PoolAssumption DEF IInv, Typed
  <2>2. Idle \in Call /\ Idle.steady = {}
    BY DEF Idle, Call
  <2> QED BY <2>1, <2>2 DEF Call
<1>3. ExclusionOK(c) /\ ScanOK(c)
  BY DEF Idle, ExclusionOK, ScanOK
<1> HIDE DEF c
<1>4. Typed'
  BY <1>1, <1>2 DEF Begin, IInv, Typed, c
<1>5. \A u \in Task : call'[u] = IF u = t THEN c ELSE call[u]
  BY <1>1 DEF IInv, Typed, c
<1>6. CallsOK'
  <2>1. owner' = owner /\ calls' = calls + 1 /\ calls \in Nat
    BY DEF Begin, IInv, Typed
  <2>2. ASSUME NEW u \in Task
        PROVE  /\ ExclusionOK(call'[u]) /\ ScanOK(call'[u]) /\ SteadyOK(u)'
               /\ call'[u].number <= calls'
    <3>1. CASE u = t
      BY <1>2, <1>3, <1>5, <2>1, <3>1 DEF SteadyOK
    <3>2. CASE u # t
      <4>1. call'[u] = call[u] /\ call[u].number \in Nat
        BY <1>5, <3>2, CallOf DEF Call
      <4> QED BY <2>1, <4>1, CallOf DEF SteadyOK, Compatible
    <3> QED BY <3>1, <3>2
  <2> QED BY <2>2 DEF CallsOK
<1>7. ASSUME NEW s \in Service
      PROVE  JobOK(s)'
  <2>1. job' = job /\ calls' = calls + 1 /\ calls \in Nat
    BY DEF Begin, IInv, Typed
  <2>2. SUFFICES ASSUME job[s] # Nobody
                 PROVE  JobOK(s)'
    BY <2>1 DEF JobOK
  <2>3. job[s] \in Job /\ job[s].task \in Task /\ job[s].number \in Nat /\ JobOK(s)
    BY <2>2 DEF IInv, Typed, JobsOK, Job
  <2>4. CASE job[s].task = t
    BY <1>2, <1>5, <2>1, <2>2, <2>3, <2>4 DEF JobOK, Waits
  <2>5. CASE job[s].task # t
    BY <1>5, <2>1, <2>2, <2>3, <2>5 DEF JobOK, Waits
  <2> QED BY <2>4, <2>5
<1>8. JobsOK'
  BY <1>7 DEF JobsOK
<1> QED BY <1>4, <1>6, <1>8 DEF IInv

LEMMA LoopKeeps ==
    ASSUME IInv, NEW t \in Task, Loop(t)
    PROVE  IInv'
<1> DEFINE c == [call[t] EXCEPT
              !.pc = "scan", !.unread = Service, !.candidates = {}, !.found = FALSE,
              !.steady = {s \in Service : Compatible(t, s)}]
           d == [call[t] EXCEPT !.pc = "timedOut"]
<1>1. call[t].pc = "loop" /\ UNCHANGED <<owner, job, calls>>
  BY DEF Loop
<1>2. CASE call' = [call EXCEPT ![t] = c]
  <2>1. c \in Call
    BY CallOf DEF Call
  <2>2. ExclusionOK(c) /\ ScanOK(c) /\ \A s \in c.steady : Compatible(t, s)
    BY CallOf DEF Call, ExclusionOK, ScanOK
  <2>3. /\ c.number = call[t].number /\ c.deaths = call[t].deaths
        /\ c.candidates = {} /\ c.excluded = call[t].excluded
    BY CallOf DEF Call
  <2> HIDE DEF c
  <2> QED BY <1>1, <1>2, <2>1, <2>2, <2>3, QuietStep
<1>3. CASE call' = [call EXCEPT ![t] = d]
  <2>1. d \in Call
    BY CallOf DEF Call
  <2>2. ExclusionOK(d) /\ ScanOK(d) /\ \A s \in d.steady : Compatible(t, s)
    BY CallOf DEF Call, ExclusionOK, ScanOK, SteadyOK
  <2>3. /\ d.number = call[t].number /\ d.deaths = call[t].deaths
        /\ d.candidates = call[t].candidates /\ d.excluded = call[t].excluded
    BY CallOf DEF Call
  <2> HIDE DEF d
  <2> QED BY <1>1, <1>3, <2>1, <2>2, <2>3, QuietStep
<1>4. call' = [call EXCEPT ![t] = c] \/ call' = [call EXCEPT ![t] = d]
  BY DEF Loop
<1> HIDE DEF c, d
<1> QED BY <1>2, <1>3, <1>4

LEMMA ReadKeeps ==
    ASSUME IInv, NEW t \in Task, NEW r \in Service, Read(t, r)
    PROVE  IInv'
<1> DEFINE taken == Compatible(t, r) /\ r \notin call[t].excluded
           c == [call[t] EXCEPT
                    !.unread = @ \ {r},
                    !.candidates = IF taken THEN @ \cup {r} ELSE @,
                    !.found = @ \/ taken]
<1>1. /\ call[t].pc = "scan" /\ call' = [call EXCEPT ![t] = c]
      /\ UNCHANGED <<owner, job, calls>>
  BY DEF Read
<1>2. taken \in BOOLEAN
  BY DEF Compatible
<1> HIDE DEF taken
<1>3. c \in Call
  <2>1. call[t] \in Call
    BY CallOf
  <2>2. /\ call[t].unread \ {r} \in SUBSET Service
        /\ (IF taken THEN call[t].candidates \cup {r} ELSE call[t].candidates) \in SUBSET Service
        /\ (call[t].found \/ taken) \in BOOLEAN
    BY <1>2, <2>1 DEF Call
  <2> QED BY <2>1, <2>2 DEF Call
<1>4. /\ c.pc = "scan" /\ c.number = call[t].number /\ c.deaths = call[t].deaths
      /\ c.candidates = (IF taken THEN call[t].candidates \cup {r} ELSE call[t].candidates)
      /\ c.excluded = call[t].excluded /\ c.failed = call[t].failed
      /\ c.steady = call[t].steady /\ c.unread = call[t].unread \ {r}
      /\ c.found <=> call[t].found \/ taken
  BY <1>1, <1>2, CallOf DEF Call
<1> HIDE DEF c
<1>5. ExclusionOK(c)
  BY <1>4, CallOf DEF ExclusionOK, taken
<1>6. \A s \in c.steady : Compatible(t, s)
  BY <1>4, CallOf DEF SteadyOK
<1>7. ScanOK(c)
  BY <1>1, <1>4, <1>6, CallOf DEF ScanOK, taken
<1> QED BY <1>1, <1>3, <1>4, <1>5, <1>6, <1>7, QuietStep

LEMMA ScannedKeeps ==
    ASSUME IInv, NEW t \in Task, Scanned(t)
    PROVE  IInv'
<1> DEFINE c == [call[t] EXCEPT !.pc = "try"]
<1>1. /\ call[t].pc = "scan" /\ call[t].unread = {} /\ call' = [call EXCEPT ![t] = c]
      /\ UNCHANGED <<owner, job, calls>>
  BY DEF Scanned
<1>2. c \in Call
  BY CallOf DEF Call
<1>3. /\ c.number = call[t].number /\ c.deaths = call[t].deaths
      /\ c.candidates = call[t].candidates /\ c.excluded = call[t].excluded
      /\ c.failed = call[t].failed /\ c.steady = call[t].steady
      /\ c.found = call[t].found /\ c.pc = "try"
  BY CallOf DEF Call
<1> HIDE DEF c
<1>4. ExclusionOK(c) /\ ScanOK(c)
  BY <1>1, <1>3, CallOf DEF ExclusionOK, ScanOK
<1> QED BY <1>1, <1>2, <1>3, <1>4, CallOf, QuietStep DEF SteadyOK

LEMMA NoMoreKeeps ==
    ASSUME IInv, NEW t \in Task, NoMore(t)
    PROVE  IInv'
<1> DEFINE given == call[t].excluded # {} /\ ~call[t].found
           c == [call[t] EXCEPT !.pc = IF given THEN "gaveUp" ELSE "loop"]
<1>1. /\ call[t].pc = "try" /\ call' = [call EXCEPT ![t] = c]
      /\ UNCHANGED <<owner, job, calls>>
  BY DEF NoMore
<1> HIDE DEF given
<1>2. c \in Call
  BY CallOf DEF Call
<1>3. /\ c.number = call[t].number /\ c.deaths = call[t].deaths
      /\ c.candidates = call[t].candidates /\ c.excluded = call[t].excluded
      /\ c.failed = call[t].failed /\ c.steady = call[t].steady
      /\ c.found = call[t].found /\ c.pc = (IF given THEN "gaveUp" ELSE "loop")
  BY CallOf DEF Call
<1> HIDE DEF c
<1>4. ExclusionOK(c) /\ ScanOK(c)
  BY <1>1, <1>3, CallOf DEF ExclusionOK, ScanOK, given
<1> QED BY <1>1, <1>2, <1>3, <1>4, CallOf, QuietStep DEF SteadyOK

(* What a failure by a service that is not a candidate does to a call.      *)
LEMMA FailureIsOK ==
    ASSUME NEW c \in Call, NEW s \in Service
    PROVE  LET d == FailedBy(c, s)
           IN  /\ d \in Call /\ d.pc = "try" /\ d.number = c.number
               /\ d.candidates = c.candidates /\ d.excluded = c.excluded \cup {s}
               /\ d.failed = c.failed \cup {s} /\ d.deaths = c.deaths
               /\ d.steady = c.steady /\ d.found = c.found
  BY DEF FailedBy, Call

LEMMA SendKeeps ==
    ASSUME IInv, NEW t \in Task, NEW s \in Service, Send(t, s)
    PROVE  IInv'
<1> DEFINE c == [call[t] EXCEPT !.candidates = @ \ {s}]
           d == FailedBy(c, s)
           w == [c EXCEPT !.pc = "wait", !.at = s]
           new == [task |-> t, number |-> c.number, batch |-> c.batch,
                   settings |-> TaskSettings[t], at |-> "check"]
<1>1. /\ call[t].pc = "try" /\ s \in call[t].candidates /\ UNCHANGED <<owner, calls>>
      /\ \/ call' = [call EXCEPT ![t] = d] /\ job' = job
         \/ call' = [call EXCEPT ![t] = c] /\ job' = job
         \/ /\ call' = [call EXCEPT ![t] = w] /\ job[s] = Nobody
            /\ job' = [job EXCEPT ![s] = new]
  BY DEF Send, Busy
<1>2. call[t] \in Call /\ ExclusionOK(call[t]) /\ ScanOK(call[t]) /\ SteadyOK(t)
  BY CallOf
<1>3. /\ c \in Call /\ c.pc = "try" /\ c.number = call[t].number
      /\ c.candidates = call[t].candidates \ {s} /\ c.excluded = call[t].excluded
      /\ c.failed = call[t].failed /\ c.deaths = call[t].deaths
      /\ c.steady = call[t].steady /\ c.found = call[t].found
      /\ c.batch = call[t].batch
  BY <1>1, <1>2 DEF Call
<1>4. /\ w \in Call /\ w.pc = "wait" /\ w.at = s /\ w.number = call[t].number
      /\ w.candidates = call[t].candidates \ {s} /\ w.excluded = call[t].excluded
      /\ w.failed = call[t].failed /\ w.deaths = call[t].deaths
      /\ w.steady = call[t].steady /\ w.found = call[t].found
  BY <1>2 DEF Call
<1>5. new \in Job /\ new.task = t /\ new.number = call[t].number
  <2>1. c.number \in Nat /\ c.batch \in Seq(Image) /\ TaskSettings[t] \in Settings
    BY <1>3, PoolAssumption DEF Call
  <2> HIDE DEF c
  <2> QED BY <1>3, <2>1 DEF Job
<1> HIDE DEF c, w, new
<1>6. CASE call' = [call EXCEPT ![t] = d] /\ job' = job
  <2>1. /\ d \in Call /\ d.pc = "try" /\ d.number = c.number
        /\ d.candidates = c.candidates /\ d.excluded = c.excluded \cup {s}
        /\ d.failed = c.failed \cup {s} /\ d.deaths = c.deaths
        /\ d.steady = c.steady /\ d.found = c.found
    BY <1>3, FailureIsOK
  <2> HIDE DEF d
  <2>2. ExclusionOK(d) /\ ScanOK(d) /\ \A r \in d.steady : Compatible(t, r)
    BY <1>1, <1>2, <1>3, <2>1 DEF ExclusionOK, ScanOK, SteadyOK
  <2> QED BY <1>1, <1>3, <1>6, <2>1, <2>2, QuietStep
<1>7. CASE call' = [call EXCEPT ![t] = c] /\ job' = job
  <2>1. ExclusionOK(c) /\ ScanOK(c) /\ \A r \in c.steady : Compatible(t, r)
    BY <1>1, <1>2, <1>3 DEF ExclusionOK, ScanOK, SteadyOK
  <2> QED BY <1>1, <1>3, <1>7, <2>1, QuietStep
<1>8. CASE /\ call' = [call EXCEPT ![t] = w] /\ job[s] = Nobody
           /\ job' = [job EXCEPT ![s] = new]
  <2>1. Typed'
    BY <1>1, <1>4, <1>5, <1>8 DEF IInv, Typed
  <2>2. \A u \in Task : call'[u] = IF u = t THEN w ELSE call[u]
    BY <1>8 DEF IInv, Typed
  <2>3. ExclusionOK(w) /\ ScanOK(w)
    BY <1>1, <1>2, <1>4 DEF ExclusionOK, ScanOK
  <2>4. CallsOK'
    BY <1>1, <1>4, <2>2, <2>3 DEF IInv, CallsOK, SteadyOK, Compatible
  <2>5. call[t].number <= calls
    BY CallOf
  <2>6. ASSUME NEW r \in Service
        PROVE  JobOK(r)'
    <3>1. CASE r = s
      <4>1. job'[s] = new
        BY <1>8 DEF IInv, Typed
      <4>2. w.deaths[s] = 0
        BY <1>1, <1>2, <1>4 DEF ExclusionOK, Call
      <4> QED BY <1>1, <1>4, <1>5, <2>2, <2>5, <3>1, <4>1, <4>2 DEF JobOK, Waits
    <3>2. CASE r # s
      <4>1. job'[r] = job[r]
        BY <1>8, <3>2 DEF IInv, Typed
      <4>2. SUFFICES ASSUME job[r] # Nobody
                     PROVE  JobOK(r)'
        BY <4>1 DEF JobOK
      <4>3. job[r] \in Job /\ job[r].task \in Task /\ JobOK(r)
        BY <4>2 DEF IInv, Typed, JobsOK, Job
      <4> QED BY <1>1, <1>4, <2>2, <4>1, <4>2, <4>3 DEF JobOK, Waits
    <3> QED BY <3>1, <3>2
  <2> QED BY <2>1, <2>4, <2>6 DEF IInv, JobsOK
<1> QED BY <1>1, <1>6, <1>7, <1>8

LEMMA ExpireKeeps ==
    ASSUME IInv, NEW t \in Task, Expire(t)
    PROVE  IInv'
<1> DEFINE s == call[t].at
           d == FailedBy(call[t], s)
           c == [d EXCEPT !.late = TRUE]
<1>1. /\ call[t].pc = "wait" /\ call' = [call EXCEPT ![t] = c]
      /\ UNCHANGED <<owner, job, calls>>
  BY DEF Expire
<1>2. /\ call[t] \in Call /\ ExclusionOK(call[t]) /\ ScanOK(call[t]) /\ SteadyOK(t)
      /\ s \in Service
  BY <1>1, CallOf DEF ExclusionOK
<1>3. /\ d \in Call /\ d.pc = "try" /\ d.number = call[t].number
      /\ d.candidates = call[t].candidates /\ d.excluded = call[t].excluded \cup {s}
      /\ d.failed = call[t].failed \cup {s} /\ d.deaths = call[t].deaths
      /\ d.steady = call[t].steady /\ d.found = call[t].found
  BY <1>2, FailureIsOK
<1> HIDE DEF d
<1>4. /\ c \in Call /\ c.pc = d.pc /\ c.number = d.number
      /\ c.candidates = d.candidates /\ c.excluded = d.excluded /\ c.failed = d.failed
      /\ c.deaths = d.deaths /\ c.steady = d.steady /\ c.found = d.found
  BY <1>3 DEF Call
<1> HIDE DEF c
<1>5. ExclusionOK(c) /\ ScanOK(c) /\ \A r \in c.steady : Compatible(t, r)
  BY <1>1, <1>2, <1>3, <1>4 DEF ExclusionOK, ScanOK, SteadyOK
<1>6. ASSUME NEW r \in Service, job[r] # Nobody, job[r].task = t, job[r].number = c.number
      PROVE  /\ c.deaths[r] = call[t].deaths[r]
             /\ r \notin c.candidates
             /\ r \in c.excluded \/ (c.pc = "wait" /\ c.at = r)
  <2>1. /\ r \notin call[t].candidates
        /\ r \in call[t].excluded \/ call[t].at = r
    BY <1>3, <1>4, <1>6, JobOfCall
  <2> QED BY <1>3, <1>4, <2>1
<1>7. c \in Call /\ c.number = call[t].number
  BY <1>3, <1>4
<1> HIDE DEF s
<1> QED BY <1>1, <1>5, <1>6, <1>7, TaskStep

-----------------------------------------------------------------------------
(* The steps of a process and of its owner                                  *)

(* Nothing of a call changes that the jobs of other processes depend on.    *)
Unmoved(s) ==
    \A u \in Task :
        /\ call'[u].number = call[u].number
        /\ call'[u].candidates = call[u].candidates
        /\ call[u].excluded \subseteq call'[u].excluded
        /\ \A r \in Service \ {s} :
            /\ call'[u].deaths[r] = call[u].deaths[r]
            /\ call[u].pc = "wait" /\ call[u].at = r =>
                    call'[u].pc = "wait" /\ call'[u].at = r

(* The job of a process ends; what its end does to a call that waits for it *)
(* is all that happens.                                                     *)
LEMMA JobEnds ==
    ASSUME IInv, NEW s \in Service, Typed', calls' = calls,
           job' = [job EXCEPT ![s] = Nobody],
           \A t \in Task : ExclusionOK(call'[t]) /\ ScanOK(call'[t]) /\ SteadyOK(t)',
           Unmoved(s)
    PROVE  IInv'
<1>1. CallsOK'
  BY CallOf DEF CallsOK, Unmoved
<1>2. ASSUME NEW r \in Service
      PROVE  JobOK(r)'
  <2>1. CASE r = s
    BY <2>1 DEF JobOK, IInv, Typed
  <2>2. CASE r # s
    <3>1. job'[r] = job[r]
      BY <2>2 DEF IInv, Typed
    <3>2. SUFFICES ASSUME job[r] # Nobody
                   PROVE  JobOK(r)'
      BY <3>1 DEF JobOK
    <3>3. job[r] \in Job /\ job[r].task \in Task /\ JobOK(r)
      BY <3>2 DEF IInv, Typed, JobsOK, Job
    <3> QED BY <2>2, <3>1, <3>2, <3>3 DEF JobOK, Waits, Unmoved
  <2> QED BY <2>1, <2>2
<1> QED BY <1>1, <1>2 DEF IInv, JobsOK

(* The process dies under its job: a call that waits takes this for a       *)
(* failure, and a call that has given the job up is told nothing.           *)
LEMMA DeathKeeps ==
    ASSUME IInv, NEW s \in Service, job[s] # Nobody, Died(s),
           UNCHANGED <<owner, calls>>
    PROVE  IInv'
<1> DEFINE t == job[s].task
           c == [call[t] EXCEPT !.deaths[s] = @ + 1]
           d == FailedBy(c, s)
<1>1. /\ job' = [job EXCEPT ![s] = Nobody]
      /\ call' = IF call[t].number # job[s].number THEN call
                 ELSE [call EXCEPT ![t] = IF Waits(s) THEN d ELSE c]
  BY DEF Died
<1>2. job[s] \in Job /\ t \in Task /\ call[t] \in Call /\ call \in [Task -> Call]
  BY DEF IInv, Typed, Job
<1>3. /\ c \in Call /\ c.pc = call[t].pc /\ c.number = call[t].number
      /\ c.candidates = call[t].candidates /\ c.excluded = call[t].excluded
      /\ c.failed = call[t].failed /\ c.steady = call[t].steady
      /\ c.found = call[t].found /\ c.at = call[t].at /\ c.unread = call[t].unread
      /\ c.deaths = [call[t].deaths EXCEPT ![s] = @ + 1]
  <2> DEFINE more == [call[t].deaths EXCEPT ![s] = @ + 1]
  <2>1. more \in [Service -> Nat] /\ c = [call[t] EXCEPT !.deaths = more]
    BY <1>2 DEF Call
  <2> HIDE DEF more, c
  <2> QED BY <1>2, <2>1 DEF Call, more
<1> HIDE DEF c, t
<1>4. /\ d \in Call /\ d.pc = "try" /\ d.number = c.number
      /\ d.candidates = c.candidates /\ d.excluded = c.excluded \cup {s}
      /\ d.failed = c.failed \cup {s} /\ d.deaths = c.deaths
      /\ d.steady = c.steady /\ d.found = c.found
  BY <1>3, FailureIsOK
<1> HIDE DEF d
<1>5. CASE call[t].number # job[s].number
  <2>1. call' = call
    BY <1>1, <1>5
  <2>2. Typed'
    BY <1>1, <2>1 DEF IInv, Typed
  <2>3. \A u \in Task : SteadyOK(u)'
    BY <2>1, CallOf DEF SteadyOK, Compatible
  <2>4. Unmoved(s)
    BY <2>1 DEF Unmoved
  <2> QED BY <1>1, <2>1, <2>2, <2>3, <2>4, CallOf, JobEnds
<1>6. CASE call[t].number = job[s].number
  <2> DEFINE x == IF Waits(s) THEN d ELSE c
  <2>1. /\ x \in Call /\ \A u \in Task : call'[u] = IF u = t THEN x ELSE call[u]
        /\ call' \in [Task -> Call]
    BY <1>1, <1>2, <1>3, <1>4, <1>6
  <2>2. Typed'
    BY <1>1, <2>1 DEF IInv, Typed
  <2>3. /\ call[t].deaths[s] = 0 /\ s \notin call[t].candidates
        /\ s \in call[t].excluded \/ (call[t].pc = "wait" /\ call[t].at = s)
        /\ ~Waits(s) => s \in call[t].excluded
        /\ Waits(s) => call[t].pc = "wait" /\ call[t].at = s
    BY <1>2, <1>6, JobOfCall DEF Waits, t
  <2>4. /\ c.deaths[s] = 1 /\ \A r \in Service \ {s} : c.deaths[r] = call[t].deaths[r]
    BY <1>2, <1>3, <2>3 DEF Call
  <2>5. ExclusionOK(call[t]) /\ ScanOK(call[t]) /\ SteadyOK(t)
    BY <1>2, CallOf
  <2>6. CASE Waits(s)
    <3>1. x = d
      BY <2>6
    <3>2. ExclusionOK(d) /\ ScanOK(d)
      BY <1>3, <1>4, <2>3, <2>4, <2>5, <2>6 DEF ExclusionOK, ScanOK
    <3> HIDE DEF x
    <3>3. \A u \in Task : ExclusionOK(call'[u]) /\ ScanOK(call'[u]) /\ SteadyOK(u)'
      BY <1>3, <1>4, <2>1, <2>5, <3>1, <3>2, CallOf DEF SteadyOK, Compatible
    <3>4. /\ d.number = call[t].number /\ d.candidates = call[t].candidates
          /\ call[t].excluded \subseteq d.excluded
          /\ \A r \in Service \ {s} : d.deaths[r] = call[t].deaths[r] /\ call[t].at # r
      BY <1>3, <1>4, <2>3, <2>4, <2>6
    <3>5. Unmoved(s)
      BY <2>1, <3>1, <3>4 DEF Unmoved
    <3> QED BY <1>1, <2>2, <3>3, <3>5, JobEnds
  <2>7. CASE ~Waits(s)
    <3>1. x = c
      BY <2>7
    <3>2. ExclusionOK(c) /\ ScanOK(c)
      BY <1>3, <2>3, <2>4, <2>5, <2>7 DEF ExclusionOK, ScanOK
    <3> HIDE DEF x
    <3>3. \A u \in Task : ExclusionOK(call'[u]) /\ ScanOK(call'[u]) /\ SteadyOK(u)'
      BY <1>3, <2>1, <2>5, <3>1, <3>2, CallOf DEF SteadyOK, Compatible
    <3>4. Unmoved(s)
      BY <1>3, <2>1, <2>4, <3>1 DEF Unmoved
    <3> QED BY <1>1, <2>2, <3>3, <3>4, JobEnds
  <2> QED BY <2>6, <2>7
<1> QED BY <1>5, <1>6

LEMMA MaterializeKeeps ==
    ASSUME IInv, NEW s \in Service, Materialize(s)
    PROVE  IInv'
<1>1. /\ job[s] # Nobody /\ job' = [job EXCEPT ![s].at = "infer"]
      /\ UNCHANGED <<owner, call, calls>>
  BY DEF Materialize
<1>2. job[s] \in Job /\ job[s].task \in Task /\ job \in [Service -> Job \cup {Nobody}]
  BY <1>1 DEF IInv, Typed, Job
<1> DEFINE new == [job[s] EXCEPT !.at = "infer"]
<1>3. new \in Job /\ new.task = job[s].task /\ new.number = job[s].number
  BY <1>2 DEF Job
<1>4. job' = [job EXCEPT ![s] = new]
  BY <1>1
<1> HIDE DEF new
<1>5. Typed'
  BY <1>1, <1>3, <1>4 DEF IInv, Typed
<1>6. CallsOK'
  BY <1>1 DEF IInv, CallsOK, SteadyOK, Compatible
<1>7. ASSUME NEW r \in Service
      PROVE  JobOK(r)'
  <2>1. JobOK(r) /\ JobOK(s)
    BY DEF IInv, JobsOK
  <2>2. job'[r] = IF r = s THEN new ELSE job[r]
    BY <1>2, <1>4
  <2> QED BY <1>1, <1>3, <2>1, <2>2 DEF JobOK, Waits
<1> QED BY <1>5, <1>6, <1>7 DEF IInv, JobsOK

(* A call that waits for a process has its answer or, when there are too    *)
(* few results, one service less.                                           *)
LEMMA AnswerKeeps ==
    ASSUME IInv, NEW s \in Service, Answer(s) \/ AnswerShort(s)
    PROVE  IInv'
<1> DEFINE t == job[s].task
           results == [n \in DOMAIN job[s].batch |->
                        [image |-> job[s].batch[n],
                         whole |-> [image |-> job[s].batch[n], whole |-> TRUE] \in disk[s],
                         settings |-> owner[s]]]
           c == [call[t] EXCEPT !.pc = "returned", !.at = Nobody, !.results = results]
           d == FailedBy(call[t], s)
<1>1. /\ job[s] # Nobody /\ job' = [job EXCEPT ![s] = Nobody]
      /\ UNCHANGED <<owner, calls>>
  BY DEF Answer, AnswerShort
<1>2. \/ ~Waits(s) /\ call' = call
      \/ Waits(s) /\ call' = [call EXCEPT ![t] = c]
      \/ Waits(s) /\ call' = [call EXCEPT ![t] = d]
  BY DEF Answer, AnswerShort
<1>3. /\ job[s] \in Job /\ t \in Task /\ call[t] \in Call /\ call \in [Task -> Call]
      /\ owner \in [Service -> Settings \cup {Nobody}]
  BY <1>1 DEF IInv, Typed, Job
<1>4. CASE ~Waits(s) /\ call' = call
  <2>1. Typed'
    BY <1>1, <1>4 DEF IInv, Typed
  <2>2. \A u \in Task : SteadyOK(u)'
    BY <1>1, <1>4, CallOf DEF SteadyOK, Compatible
  <2>3. Unmoved(s)
    BY <1>4 DEF Unmoved
  <2> QED BY <1>1, <1>4, <2>1, <2>2, <2>3, CallOf, JobEnds
<1>5. ASSUME Waits(s), NEW x \in Call, call' = [call EXCEPT ![t] = x],
             x.number = call[t].number, x.candidates = call[t].candidates,
             call[t].excluded \subseteq x.excluded, x.deaths = call[t].deaths,
             x.steady = call[t].steady, ExclusionOK(x), ScanOK(x)
      PROVE  IInv'
  <2>1. \A u \in Task : call'[u] = IF u = t THEN x ELSE call[u]
    BY <1>3, <1>5
  <2>2. Typed'
    BY <1>1, <1>3, <1>5 DEF IInv, Typed
  <2>3. call[t].pc = "wait" /\ call[t].at = s
    BY <1>5 DEF Waits
  <2> HIDE DEF t
  <2>4. \A u \in Task : ExclusionOK(call'[u]) /\ ScanOK(call'[u]) /\ SteadyOK(u)'
    BY <1>1, <1>5, <2>1, CallOf DEF SteadyOK, Compatible
  <2>5. Unmoved(s)
    BY <1>5, <2>1, <2>3 DEF Unmoved
  <2> QED BY <1>1, <2>2, <2>4, <2>5, JobEnds
<1>6. CASE Waits(s) /\ call' = [call EXCEPT ![t] = c]
  <2>1. results \in Seq([image: Image, whole: BOOLEAN, settings: Settings \cup {Nobody}])
    <3>1. job[s].batch \in Seq(Image) /\ owner[s] \in Settings \cup {Nobody}
      BY <1>3 DEF Job
    <3> DEFINE n == Len(job[s].batch)
    <3>2. n \in Nat /\ DOMAIN job[s].batch = 1..n /\ job[s].batch \in [1..n -> Image]
      BY <3>1, LenProperties
    <3> HIDE DEF n
    <3>3. results \in [1..n -> [image: Image, whole: BOOLEAN, settings: Settings \cup {Nobody}]]
      BY <3>1, <3>2
    <3> DEFINE R == [image: Image, whole: BOOLEAN, settings: Settings \cup {Nobody}]
    <3> HIDE DEF results, R
    <3>4. results \in [1..n -> R]
      BY <3>3 DEF R
    <3>5. results \in Seq(R)
      BY <3>2, <3>4, SeqDef
    <3> QED BY <3>5 DEF R
  <2> HIDE DEF results
  <2>2. /\ c \in Call /\ c.pc = "returned" /\ c.number = call[t].number
        /\ c.candidates = call[t].candidates /\ c.excluded = call[t].excluded
        /\ c.failed = call[t].failed /\ c.steady = call[t].steady
        /\ c.deaths = call[t].deaths
    BY <1>3, <2>1 DEF Call
  <2> HIDE DEF c, t
  <2>3. ExclusionOK(c) /\ ScanOK(c)
    BY <1>3, <2>2, CallOf DEF ExclusionOK, ScanOK
  <2> QED BY <1>5, <1>6, <2>2, <2>3
<1>7. CASE Waits(s) /\ call' = [call EXCEPT ![t] = d]
  <2>1. call[t].pc = "wait" /\ call[t].at = s
    BY <1>7 DEF Waits
  <2> HIDE DEF t
  <2>2. /\ d \in Call /\ d.pc = "try" /\ d.number = call[t].number
        /\ d.candidates = call[t].candidates /\ d.excluded = call[t].excluded \cup {s}
        /\ d.failed = call[t].failed \cup {s} /\ d.deaths = call[t].deaths
        /\ d.steady = call[t].steady /\ d.found = call[t].found
    BY <1>3, FailureIsOK
  <2> HIDE DEF d
  <2>3. ExclusionOK(d) /\ ScanOK(d)
    BY <1>3, <2>1, <2>2, CallOf DEF ExclusionOK, ScanOK
  <2> QED BY <1>5, <1>7, <2>2, <2>3
<1> QED BY <1>2, <1>4, <1>6, <1>7

(* A service that changes its owner was not compatible throughout.          *)
LEMMA ReplacedKeeps ==
    ASSUME IInv, NEW s \in Service, Replaced(s)
    PROVE  IInv'
<1> DEFINE c(t) == [call[t] EXCEPT !.steady = @ \ {s}]
           x(t) == IF c(t).pc = "wait" /\ c(t).at = s THEN FailedBy(c(t), s) ELSE c(t)
<1>1. PICK o \in Settings \cup {Nobody} : owner' = [owner EXCEPT ![s] = o]
  BY DEF Replaced
<1>2. /\ job' = [job EXCEPT ![s] = Nobody] /\ calls' = calls
      /\ call' = [t \in Task |-> x(t)]
  BY DEF Replaced
<1>3. ASSUME NEW t \in Task
      PROVE  /\ c(t) \in Call /\ c(t).pc = call[t].pc /\ c(t).number = call[t].number
             /\ c(t).candidates = call[t].candidates /\ c(t).excluded = call[t].excluded
             /\ c(t).failed = call[t].failed /\ c(t).deaths = call[t].deaths
             /\ c(t).steady = call[t].steady \ {s} /\ c(t).found = call[t].found
             /\ c(t).at = call[t].at /\ c(t).unread = call[t].unread
  BY CallOf DEF Call
<1> HIDE DEF c
<1>4. ASSUME NEW t \in Task
      PROVE  /\ x(t) \in Call /\ x(t).number = call[t].number
             /\ x(t).candidates = call[t].candidates /\ x(t).deaths = call[t].deaths
             /\ call[t].excluded \subseteq x(t).excluded
             /\ x(t).steady = call[t].steady \ {s}
             /\ ExclusionOK(x(t)) /\ ScanOK(x(t))
             /\ ~(call[t].pc = "wait" /\ call[t].at = s) =>
                    x(t).pc = call[t].pc /\ x(t).at = call[t].at
  <2> DEFINE d == FailedBy(c(t), s)
  <2>1. ExclusionOK(call[t]) /\ ScanOK(call[t])
    BY CallOf
  <2>2. CASE call[t].pc = "wait" /\ call[t].at = s
    <3>1. x(t) = d
      BY <1>3, <2>2
    <3>2. /\ d \in Call /\ d.pc = "try" /\ d.number = c(t).number
          /\ d.candidates = c(t).candidates /\ d.excluded = c(t).excluded \cup {s}
          /\ d.failed = c(t).failed \cup {s} /\ d.deaths = c(t).deaths
          /\ d.steady = c(t).steady /\ d.found = c(t).found
      BY <1>3, FailureIsOK
    <3> HIDE DEF d, x
    <3>3. ExclusionOK(d) /\ ScanOK(d)
      BY <1>3, <2>1, <2>2, <3>2 DEF ExclusionOK, ScanOK
    <3> QED BY <1>3, <2>2, <3>1, <3>2, <3>3
  <2>3. CASE ~(call[t].pc = "wait" /\ call[t].at = s)
    <3>1. x(t) = c(t)
      BY <1>3, <2>3
    <3> HIDE DEF x
    <3>2. ExclusionOK(c(t)) /\ ScanOK(c(t))
      BY <1>3, <2>1 DEF ExclusionOK, ScanOK
    <3> QED BY <1>3, <2>3, <3>1, <3>2
  <2> QED BY <2>2, <2>3
<1> HIDE DEF x
<1>5. \A t \in Task : call'[t] = x(t)
  BY <1>2
<1>6. Typed'
  BY <1>1, <1>2, <1>4 DEF IInv, Typed
<1>7. \A t \in Task : SteadyOK(t)'
  <2>1. \A r \in Service \ {s} : owner'[r] = owner[r]
    BY <1>1 DEF IInv, Typed
  <2>2. \A t \in Task : call[t].steady \subseteq Service
    BY CallOf DEF Call
  <2> QED BY <1>4, <1>5, <2>1, <2>2, CallOf DEF SteadyOK, Compatible
<1>8. Unmoved(s)
  BY <1>4, <1>5 DEF Unmoved
<1> QED BY <1>2, <1>4, <1>5, <1>6, <1>7, <1>8, JobEnds

-----------------------------------------------------------------------------
LEMMA NextKeeps ==
    ASSUME IInv, [Next]_poolVars
    PROVE  IInv'
<1>1. ASSUME NEW t \in Task,
             \/ Begin(t) \/ Loop(t) \/ Scanned(t) \/ NoMore(t) \/ Expire(t)
             \/ \E s \in Service : Read(t, s) \/ Send(t, s)
      PROVE  IInv'
  BY <1>1, BeginKeeps, LoopKeeps, ScannedKeeps, NoMoreKeeps, ExpireKeeps, ReadKeeps, SendKeeps
<1>2. ASSUME NEW s \in Service, Refuse(s) \/ Tear(s) \/ Fail(s)
      PROVE  IInv'
  <2>1. job[s] # Nobody /\ Died(s) /\ UNCHANGED <<owner, calls>>
    BY <1>2 DEF Refuse, Tear, Fail
  <2> QED BY <2>1, DeathKeeps
<1>3. ASSUME NEW s \in Service, Materialize(s) \/ Answer(s) \/ AnswerShort(s) \/ Replaced(s)
      PROVE  IInv'
  BY <1>3, MaterializeKeeps, AnswerKeeps, ReplacedKeeps
<1>4. CASE UNCHANGED poolVars
  BY <1>4 DEF poolVars, IInv, Typed, CallsOK, SteadyOK, Compatible, JobsOK, JobOK, Waits
<1> QED BY <1>1, <1>2, <1>3, <1>4 DEF Next

(* The invariant of every behaviour.                                        *)
LEMMA InvariantHolds == Spec => []IInv
<1>1. Init => IInv
  BY InitHolds
<1>2. IInv /\ [Next]_poolVars => IInv'
  BY NextKeeps
<1> QED BY <1>1, <1>2, PTL DEF Spec

(* However many owners start processes at an endpoint, and however many     *)
(* calls and services there are, a request takes down at most one process   *)
(* of each endpoint (resident.py:304).                                      *)
THEOREM PoisonStaysBounded == Spec => []PoisonIsBounded
<1>1. IInv => PoisonIsBounded
  BY DEF IInv, CallsOK, ExclusionOK, PoisonIsBounded
<1> QED BY <1>1, InvariantHolds, PTL

(* A call that gives up was failed by a service, and by every one that was  *)
(* compatible throughout its last scan (resident.py:174).                   *)
THEOREM CallsGiveUpForCause == Spec => []GivesUpForCause
<1>1. IInv => GivesUpForCause
  BY DEF IInv, CallsOK, ExclusionOK, ScanOK, GivesUpForCause
<1> QED BY <1>1, InvariantHolds, PTL

-----------------------------------------------------------------------------
(* What a call returns                                                      *)

WholeFile(s, i) == [image |-> i, whole |-> TRUE] \in disk[s]

(* The cache only names files that are whole.                               *)
CacheOK(s) == \A i \in DOMAIN paths[s] : WholeFile(s, i)

(* A job has the settings and the images of its call; the process infers    *)
(* only with those settings, on whole files of those images.                *)
RequestOK(s) ==
    job[s] # Nobody =>
        /\ job[s].settings = TaskSettings[job[s].task]
        /\ call[job[s].task].number = job[s].number => job[s].batch = call[job[s].task].batch
        /\ job[s].at = "infer" =>
            /\ owner[s] = job[s].settings
            /\ \A n \in DOMAIN job[s].batch : WholeFile(s, job[s].batch[n])

RightResults(c, settings) ==
    c.results = [n \in DOMAIN c.batch |->
                    [image |-> c.batch[n], whole |-> TRUE, settings |-> settings]]

Right ==
    /\ DOMAIN paths = Service /\ DOMAIN disk = Service
    /\ \A s \in Service : CacheOK(s) /\ RequestOK(s)
    /\ \A t \in Task : call[t].pc = "returned" => RightResults(call[t], TaskSettings[t])

LEMMA RightInit ==
    ASSUME Init
    PROVE  Right
<1>1. \A t \in Task : call[t].pc = "idle"
  BY DEF Init, Idle
<1>2. \A s \in Service : CacheOK(s) /\ RequestOK(s)
  BY DEF Init, CacheOK, RequestOK, NoPaths
<1> QED BY <1>1, <1>2 DEF Init, Right

(* A step of a task that returns nothing and leaves the processes alone; a  *)
(* new call has a number no job has.                                        *)
LEMMA TaskStaysRight ==
    ASSUME IInv, Right, NEW t \in Task, NEW c, call' = [call EXCEPT ![t] = c],
           UNCHANGED <<owner, paths, disk, job>>, c.pc # "returned",
           \/ c.number = call[t].number /\ c.batch = call[t].batch
           \/ c.number = calls + 1
    PROVE  Right'
<1>1. \A u \in Task : call'[u] = IF u = t THEN c ELSE call[u]
  BY DEF IInv, Typed
<1>2. ASSUME NEW s \in Service
      PROVE  RequestOK(s)'
  <2>1. SUFFICES ASSUME job[s] # Nobody
                 PROVE  RequestOK(s)'
    BY DEF RequestOK
  <2>2. /\ job[s].task \in Task /\ job[s].number \in Nat /\ job[s].number <= calls
        /\ calls \in Nat /\ RequestOK(s)
    BY <2>1 DEF IInv, Typed, Job, JobsOK, JobOK, Right
  <2>3. call'[job[s].task].number = job[s].number => job[s].batch = call'[job[s].task].batch
    BY <1>1, <2>1, <2>2 DEF RequestOK
  <2> QED BY <2>2, <2>3 DEF RequestOK, WholeFile
<1>3. \A s \in Service : CacheOK(s)'
  BY DEF Right, CacheOK, WholeFile
<1> QED BY <1>1, <1>2, <1>3 DEF Right

LEMMA TasksStayRight ==
    ASSUME IInv, Right, NEW t \in Task,
           \/ Begin(t) \/ Loop(t) \/ Scanned(t) \/ NoMore(t) \/ Expire(t)
           \/ \E s \in Service : Read(t, s)
    PROVE  Right'
<1>1. call[t] \in Call
  BY CallOf
<1>2. CASE Begin(t)
  <2>1. PICK b \in Batches : call' = [call EXCEPT ![t] = [Idle EXCEPT
            !.pc = "loop", !.number = calls + 1, !.batch = b]]
    BY <1>2 DEF Begin
  <2> DEFINE c == [Idle EXCEPT !.pc = "loop", !.number = calls + 1, !.batch = b]
  <2>2. c.pc = "loop" /\ c.number = calls + 1
    BY DEF Idle
  <2> HIDE DEF c
  <2> QED BY <1>2, <2>1, <2>2, TaskStaysRight DEF Begin, c
<1>3. CASE Loop(t)
  <2> DEFINE c == [call[t] EXCEPT
              !.pc = "scan", !.unread = Service, !.candidates = {}, !.found = FALSE,
              !.steady = {s \in Service : Compatible(t, s)}]
             d == [call[t] EXCEPT !.pc = "timedOut"]
  <2>1. call' = [call EXCEPT ![t] = c] \/ call' = [call EXCEPT ![t] = d]
    BY <1>3 DEF Loop
  <2>2. /\ c.pc = "scan" /\ c.number = call[t].number /\ c.batch = call[t].batch
        /\ d.pc = "timedOut" /\ d.number = call[t].number /\ d.batch = call[t].batch
    BY <1>1 DEF Call
  <2> HIDE DEF c, d
  <2> QED BY <1>3, <2>1, <2>2, TaskStaysRight DEF Loop
<1>4. CASE \E s \in Service : Read(t, s)
  <2>1. PICK s \in Service : Read(t, s)
    BY <1>4
  <2> DEFINE taken == Compatible(t, s) /\ s \notin call[t].excluded
             c == [call[t] EXCEPT
                      !.unread = @ \ {s},
                      !.candidates = IF taken THEN @ \cup {s} ELSE @,
                      !.found = @ \/ taken]
  <2>2. call' = [call EXCEPT ![t] = c] /\ call[t].pc = "scan"
    BY <2>1 DEF Read
  <2> HIDE DEF taken
  <2>3. c.pc = "scan" /\ c.number = call[t].number /\ c.batch = call[t].batch
    BY <1>1, <2>2 DEF Call
  <2> HIDE DEF c
  <2> QED BY <2>1, <2>2, <2>3, TaskStaysRight DEF Read
<1>5. CASE Scanned(t) \/ NoMore(t)
  <2>1. PICK place \in {"try", "gaveUp", "loop"} : call' = [call EXCEPT ![t].pc = place]
    BY <1>5 DEF Scanned, NoMore
  <2> DEFINE c == [call[t] EXCEPT !.pc = place]
  <2>2. c.pc # "returned" /\ c.number = call[t].number /\ c.batch = call[t].batch
    BY <1>1 DEF Call
  <2>3. call' = [call EXCEPT ![t] = c]
    BY <2>1
  <2> HIDE DEF c
  <2> QED BY <1>5, <2>2, <2>3, TaskStaysRight DEF Scanned, NoMore
<1>6. CASE Expire(t)
  <2> DEFINE c == [FailedBy(call[t], call[t].at) EXCEPT !.late = TRUE]
  <2>1. call' = [call EXCEPT ![t] = c]
    BY <1>6 DEF Expire
  <2>2. c.pc = "try" /\ c.number = call[t].number /\ c.batch = call[t].batch
    BY <1>1 DEF Call, FailedBy
  <2> HIDE DEF c
  <2> QED BY <1>6, <2>1, <2>2, TaskStaysRight DEF Expire
<1> QED BY <1>2, <1>3, <1>4, <1>5, <1>6

LEMMA SendStaysRight ==
    ASSUME IInv, Right, NEW t \in Task, NEW s \in Service, Send(t, s)
    PROVE  Right'
<1> DEFINE c == [call[t] EXCEPT !.candidates = @ \ {s}]
           d == FailedBy(c, s)
           w == [c EXCEPT !.pc = "wait", !.at = s]
           new == [task |-> t, number |-> c.number, batch |-> c.batch,
                   settings |-> TaskSettings[t], at |-> "check"]
<1>1. /\ call[t].pc = "try" /\ UNCHANGED <<owner, paths, disk>>
      /\ \/ call' = [call EXCEPT ![t] = d] /\ job' = job
         \/ call' = [call EXCEPT ![t] = c] /\ job' = job
         \/ call' = [call EXCEPT ![t] = w] /\ job' = [job EXCEPT ![s] = new]
  BY DEF Send, Busy
<1>2. call[t] \in Call
  BY CallOf
<1>3. c \in Call /\ c.pc = call[t].pc /\ c.number = call[t].number /\ c.batch = call[t].batch
  BY <1>2 DEF Call
<1> HIDE DEF c
<1>4. /\ d.pc = "try" /\ d.number = c.number /\ d.batch = c.batch
      /\ w.pc = "wait" /\ w.number = c.number /\ w.batch = c.batch
  BY <1>3 DEF Call, FailedBy
<1> HIDE DEF d, w
<1>5. CASE job' = job
  BY <1>1, <1>3, <1>4, <1>5, TaskStaysRight
<1>6. CASE call' = [call EXCEPT ![t] = w] /\ job' = [job EXCEPT ![s] = new]
  <2>1. \A u \in Task : call'[u] = IF u = t THEN w ELSE call[u]
    BY <1>6 DEF IInv, Typed
  <2>2. \A r \in Service : job'[r] = IF r = s THEN new ELSE job[r]
    BY <1>6 DEF IInv, Typed
  <2>3. RequestOK(s)'
    BY <1>3, <1>4, <2>1, <2>2 DEF RequestOK
  <2>4. ASSUME NEW r \in Service, r # s
        PROVE  RequestOK(r)'
    <3>1. RequestOK(r) /\ job'[r] = job[r] /\ owner' = owner /\ disk' = disk
      BY <1>1, <2>2, <2>4 DEF Right
    <3>2. job[r] # Nobody => job[r].task \in Task
      BY DEF IInv, Typed, Job
    <3>3. \A u \in Task : call'[u].number = call[u].number /\ call'[u].batch = call[u].batch
      BY <1>3, <1>4, <2>1
    <3> QED BY <3>1, <3>2, <3>3 DEF RequestOK, WholeFile
  <2>5. \A r \in Service : CacheOK(r)'
    BY <1>1 DEF Right, CacheOK, WholeFile
  <2> QED BY <1>1, <1>4, <2>1, <2>3, <2>4, <2>5 DEF Right
<1> QED BY <1>1, <1>5, <1>6

(* The job of a process ends.                                               *)
LEMMA JobEndsRight ==
    ASSUME IInv, Right, NEW s \in Service, job' = [job EXCEPT ![s] = Nobody],
           DOMAIN paths' = Service, DOMAIN disk' = Service,
           \A r \in Service \ {s} :
               owner'[r] = owner[r] /\ paths'[r] = paths[r] /\ disk'[r] = disk[r],
           CacheOK(s)',
           \A u \in Task :
               /\ call'[u].number = call[u].number /\ call'[u].batch = call[u].batch
               /\ call'[u].pc = "returned" =>
                    \/ call[u].pc = "returned" /\ call'[u].results = call[u].results
                    \/ RightResults(call'[u], TaskSettings[u])
    PROVE  Right'
<1>1. \A r \in Service : job'[r] = IF r = s THEN Nobody ELSE job[r]
  BY DEF IInv, Typed
<1>2. ASSUME NEW r \in Service
      PROVE  RequestOK(r)' /\ CacheOK(r)'
  <2>1. CASE r = s
    BY <1>1, <2>1 DEF RequestOK
  <2>2. CASE r # s
    <3>1. /\ RequestOK(r) /\ CacheOK(r) /\ job'[r] = job[r] /\ owner'[r] = owner[r]
          /\ disk'[r] = disk[r] /\ paths'[r] = paths[r]
      BY <1>1, <2>2 DEF Right
    <3>2. job[r] # Nobody => job[r].task \in Task
      BY DEF IInv, Typed, Job
    <3> QED BY <3>1, <3>2 DEF RequestOK, CacheOK, WholeFile
  <2> QED BY <2>1, <2>2
<1>3. \A u \in Task : call'[u].pc = "returned" => RightResults(call'[u], TaskSettings[u])
  BY DEF Right, RightResults
<1> QED BY <1>2, <1>3 DEF Right

LEMMA DeathStaysRight ==
    ASSUME IInv, Right, NEW s \in Service, job[s] # Nobody, Died(s), UNCHANGED owner,
           DOMAIN disk' = Service, \A r \in Service \ {s} : disk'[r] = disk[r]
    PROVE  Right'
<1> DEFINE t == job[s].task
           c == [call[t] EXCEPT !.deaths[s] = @ + 1]
           d == FailedBy(c, s)
<1>1. /\ job' = [job EXCEPT ![s] = Nobody] /\ paths' = [paths EXCEPT ![s] = NoPaths]
      /\ \/ call' = call
         \/ call' = [call EXCEPT ![t] = c]
         \/ call' = [call EXCEPT ![t] = d] /\ Waits(s)
  BY DEF Died
<1>2. t \in Task /\ call[t] \in Call /\ call \in [Task -> Call]
  BY DEF IInv, Typed, Job
<1> HIDE DEF t
<1>3. /\ c.pc = call[t].pc /\ c.number = call[t].number /\ c.batch = call[t].batch
      /\ c.results = call[t].results
      /\ d.pc = "try" /\ d.number = call[t].number /\ d.batch = call[t].batch
  <2> DEFINE more == [call[t].deaths EXCEPT ![s] = @ + 1]
  <2>1. c = [call[t] EXCEPT !.deaths = more]
    BY <1>2 DEF Call
  <2> HIDE DEF more
  <2> QED BY <1>2, <2>1 DEF Call, FailedBy
<1> HIDE DEF c, d
<1>4. \A u \in Task :
        /\ call'[u].number = call[u].number /\ call'[u].batch = call[u].batch
        /\ call'[u].pc = "returned" =>
                call[u].pc = "returned" /\ call'[u].results = call[u].results
  BY <1>1, <1>2, <1>3
<1>5. CacheOK(s)' /\ DOMAIN paths' = Service /\ \A r \in Service \ {s} : paths'[r] = paths[r]
  BY <1>1 DEF CacheOK, NoPaths, Right
<1> QED BY <1>1, <1>4, <1>5, JobEndsRight

LEMMA ProcessEndsRight ==
    ASSUME IInv, Right, NEW s \in Service, Refuse(s) \/ Tear(s) \/ Fail(s)
    PROVE  Right'
<1>1. job[s] # Nobody /\ Died(s) /\ UNCHANGED owner
  BY DEF Refuse, Tear, Fail
<1>2. DOMAIN disk' = Service /\ \A r \in Service \ {s} : disk'[r] = disk[r]
  BY DEF Refuse, Tear, Fail, Right
<1> QED BY <1>1, <1>2, DeathStaysRight

(* Eviction spares the images of the request; an image the cache does not   *)
(* name is written anew.                                                    *)
LEMMA MaterializeStaysRight ==
    ASSUME IInv, Right, NEW s \in Service, Materialize(s)
    PROVE  Right'
<1> DEFINE current == ToSet(job[s].batch)
           held == Touched(paths[s], job[s].batch)
           gone == Evicted(held, current)
           new == current \ DOMAIN paths[s]
           kept == [i \in DOMAIN held \ gone |-> held[i] \ gone]
           stored == {f \in disk[s] : f.image \notin gone \cup new}
                        \cup {[image |-> i, whole |-> TRUE] : i \in new \ gone}
<1>1. /\ job[s] # Nobody /\ Accepts(s)
      /\ paths' = [paths EXCEPT ![s] = kept] /\ disk' = [disk EXCEPT ![s] = stored]
      /\ job' = [job EXCEPT ![s].at = "infer"]
      /\ UNCHANGED <<owner, call>>
  BY DEF Materialize
<1>2. DOMAIN held = DOMAIN paths[s] \cup current
  BY DEF Touched
<1>3. gone \cap current = {}
  BY DEF Evicted
<1> HIDE DEF held, gone
<1>4. \A i \in DOMAIN paths[s] : [image |-> i, whole |-> TRUE] \in disk[s]
  BY DEF Right, CacheOK, WholeFile
<1>5. \A i \in (DOMAIN paths[s] \cup current) \ gone : [image |-> i, whole |-> TRUE] \in stored
  <2> SUFFICES ASSUME NEW i \in (DOMAIN paths[s] \cup current) \ gone
               PROVE  [image |-> i, whole |-> TRUE] \in stored
    OBVIOUS
  <2>1. CASE i \in new
    BY <2>1
  <2>2. CASE i \notin new
    BY <1>4, <2>2
  <2> QED BY <2>1, <2>2
<1>6. DOMAIN kept = (DOMAIN paths[s] \cup current) \ gone
  BY <1>2
<1> HIDE DEF kept, stored, new
<1>7. /\ DOMAIN paths' = Service /\ DOMAIN disk' = Service
      /\ \A r \in Service : /\ paths'[r] = IF r = s THEN kept ELSE paths[r]
                            /\ disk'[r] = IF r = s THEN stored ELSE disk[r]
  BY <1>1 DEF Right
<1> HIDE DEF current
<1>8. CacheOK(s)'
  <2>1. paths'[s] = kept /\ disk'[s] = stored
    BY <1>7
  <2>2. \A i \in DOMAIN kept : [image |-> i, whole |-> TRUE] \in stored
    BY <1>5, <1>6
  <2> QED BY <2>1, <2>2 DEF CacheOK, WholeFile
<1>9. job[s] \in Job /\ job[s].task \in Task /\ job \in [Service -> Job \cup {Nobody}]
  BY <1>1 DEF IInv, Typed, Job
<1>10. /\ job'[s].task = job[s].task /\ job'[s].number = job[s].number
       /\ job'[s].batch = job[s].batch /\ job'[s].settings = job[s].settings
       /\ \A r \in Service \ {s} : job'[r] = job[r]
  BY <1>1, <1>9 DEF Job
<1>11. \A n \in DOMAIN job[s].batch : [image |-> job[s].batch[n], whole |-> TRUE] \in stored
  <2>1. \A n \in DOMAIN job[s].batch : job[s].batch[n] \in current
    BY DEF ToSet, current
  <2> QED BY <1>3, <1>5, <2>1
<1>12. RequestOK(s)'
  BY <1>1, <1>7, <1>10, <1>11 DEF RequestOK, WholeFile, Accepts, Right
<1>13. ASSUME NEW r \in Service \ {s}
       PROVE  CacheOK(r)' /\ RequestOK(r)'
  <2>1. paths'[r] = paths[r] /\ disk'[r] = disk[r] /\ job'[r] = job[r]
    BY <1>7, <1>10
  <2>2. CacheOK(r) /\ RequestOK(r)
    BY DEF Right
  <2> QED BY <1>1, <2>1, <2>2 DEF CacheOK, RequestOK, WholeFile
<1> QED BY <1>1, <1>7, <1>8, <1>12, <1>13 DEF Right

LEMMA AnswerStaysRight ==
    ASSUME IInv, Right, NEW s \in Service, Answer(s) \/ AnswerShort(s)
    PROVE  Right'
<1> DEFINE t == job[s].task
           results == [n \in DOMAIN job[s].batch |->
                        [image |-> job[s].batch[n],
                         whole |-> [image |-> job[s].batch[n], whole |-> TRUE] \in disk[s],
                         settings |-> owner[s]]]
           c == [call[t] EXCEPT !.pc = "returned", !.at = Nobody, !.results = results]
           d == FailedBy(call[t], s)
<1>1. /\ job[s] # Nobody /\ job[s].at = "infer" /\ job' = [job EXCEPT ![s] = Nobody]
      /\ UNCHANGED <<owner, paths, disk>>
  BY DEF Answer, AnswerShort
<1>2. \/ call' = call
      \/ Waits(s) /\ call' = [call EXCEPT ![t] = c]
      \/ Waits(s) /\ call' = [call EXCEPT ![t] = d]
  BY DEF Answer, AnswerShort
<1>3. t \in Task /\ call[t] \in Call /\ call \in [Task -> Call]
  BY <1>1 DEF IInv, Typed, Job
<1>4. Waits(s) =>
        results = [n \in DOMAIN call[t].batch |->
                    [image |-> call[t].batch[n], whole |-> TRUE, settings |-> TaskSettings[t]]]
  BY <1>1 DEF Right, RequestOK, WholeFile, Waits
<1> HIDE DEF t, results
<1>5. /\ c.number = call[t].number /\ c.batch = call[t].batch /\ c.results = results
      /\ d.pc = "try" /\ d.number = call[t].number /\ d.batch = call[t].batch
  BY <1>3 DEF Call, FailedBy
<1> HIDE DEF c, d
<1>6. \A u \in Task :
        /\ call'[u].number = call[u].number /\ call'[u].batch = call[u].batch
        /\ call'[u].pc = "returned" =>
                \/ call[u].pc = "returned" /\ call'[u].results = call[u].results
                \/ RightResults(call'[u], TaskSettings[u])
  <2>1. CASE call' = call
    BY <2>1
  <2>2. CASE Waits(s) /\ call' = [call EXCEPT ![t] = c]
    <3>1. RightResults(c, TaskSettings[t])
      BY <1>4, <1>5, <2>2 DEF RightResults
    <3> QED BY <1>3, <1>5, <2>2, <3>1
  <2>3. CASE call' = [call EXCEPT ![t] = d]
    BY <1>3, <1>5, <2>3
  <2> QED BY <1>2, <2>1, <2>2, <2>3
<1>7. CacheOK(s)' /\ DOMAIN paths' = Service /\ DOMAIN disk' = Service
  BY <1>1 DEF Right, CacheOK, WholeFile
<1> QED BY <1>1, <1>6, <1>7, JobEndsRight

LEMMA ReplacedStaysRight ==
    ASSUME IInv, Right, NEW s \in Service, Replaced(s)
    PROVE  Right'
<1> DEFINE c(t) == [call[t] EXCEPT !.steady = @ \ {s}]
           x(t) == IF c(t).pc = "wait" /\ c(t).at = s THEN FailedBy(c(t), s) ELSE c(t)
<1>1. /\ job' = [job EXCEPT ![s] = Nobody] /\ paths' = [paths EXCEPT ![s] = NoPaths]
      /\ disk' = disk /\ call' = [t \in Task |-> x(t)]
      /\ \A r \in Service \ {s} : owner'[r] = owner[r]
  BY DEF Replaced, IInv, Typed
<1>2. ASSUME NEW t \in Task
      PROVE  /\ x(t).number = call[t].number /\ x(t).batch = call[t].batch
             /\ x(t).pc = "returned" =>
                    call[t].pc = "returned" /\ x(t).results = call[t].results
  <2>1. /\ c(t) \in Call /\ c(t).pc = call[t].pc /\ c(t).number = call[t].number
        /\ c(t).batch = call[t].batch /\ c(t).results = call[t].results
    BY CallOf DEF Call
  <2> HIDE DEF c
  <2> QED BY <2>1 DEF Call, FailedBy
<1> HIDE DEF x
<1>3. CacheOK(s)' /\ DOMAIN paths' = Service /\ \A r \in Service \ {s} : paths'[r] = paths[r]
  BY <1>1 DEF CacheOK, NoPaths, Right
<1> QED BY <1>1, <1>2, <1>3, JobEndsRight DEF Right

LEMMA NextStaysRight ==
    ASSUME IInv, Right, [Next]_poolVars
    PROVE  Right'
<1>1. CASE UNCHANGED poolVars
  BY <1>1 DEF poolVars, Right, CacheOK, RequestOK, WholeFile
<1> QED BY <1>1, TasksStayRight, SendStaysRight, ProcessEndsRight, MaterializeStaysRight,
           AnswerStaysRight, ReplacedStaysRight DEF Next

(* Whatever owners follow each other, however small the cache is and        *)
(* wherever a process dies, what a call returns was inferred with the       *)
(* task's own settings from whole files of its images (resident.py:197-217, *)
(* 280-289).                                                                *)
THEOREM CallsReturnRightResults == Spec => []CallsAreRight
<1>1. Init => Right
  BY RightInit
<1>2. IInv /\ Right /\ [Next]_poolVars => Right'
  BY NextStaysRight
<1>3. Right => CallsAreRight
  BY DEF Right, RightResults, CallsAreRight
<1> QED BY <1>1, <1>2, <1>3, InvariantHolds, PTL DEF Spec

-----------------------------------------------------------------------------
(***************************************************************************)
(* GrounderCache: the inductive invariant.  First what holds of the files  *)
(* of a grounder whenever the invocation dies.  The rows of an id are those*)
(* of one inference; all marks are of the same settings.                   *)
(***************************************************************************)
RowsOf(r, res) == {[id |-> r, index |-> i - 1, from |-> res] : i \in 1..res.size}

OneInference(R) ==
    \A x \in R :
        /\ RowsOf(x.id, x.from) \subseteq R
        /\ x \in RowsOf(x.id, x.from)
        /\ \A y \in R : y.id = x.id => y.from = x.from

OneSetting(M) ==
    \A m, n \in M :
        /\ m.context = n.context /\ m.count \in Sizes /\ MaxRuns > 0
        /\ m.id = n.id => m = n

(* Where the rows of an id have a mark they are of the query it had.       *)
Matches(R, M, A) ==
    \A m \in M, x \in R :
        x.id = m.id /\ A[m.id] # None => x.from.query = A[m.id] /\ x.from.context = m.context

FilesOK(R, M, A) ==
    /\ OneInference(R) /\ OneSetting(M)
    /\ A = None => R = {} /\ M = {}
    /\ A # None => Matches(R, M, A)

(* Then what holds while an invocation is at a grounder, or beyond it.     *)
Current(R, M) ==
    /\ \A m \in M :
        /\ m.id \in Requested /\ m.context = invocation.context
        /\ Cardinality({x \in R : x.id = m.id}) = m.count
    /\ \A x \in R :
        /\ x.id \in Requested
        /\ x.from.query = invocation.manifest[x.id] /\ x.from.context = invocation.context

MarkedOrWritten == \A x \in rows[g] : x.id = written \/ x.id \in Marked(g)

MarkOK ==
    pc = "mark" =>
        /\ OneSetting(committed) /\ Current(rows[g], committed)
        /\ \A x \in rows[g] : x.from.run \notin cleaned /\ \E m \in committed : m.id = x.id
        /\ \A m \in committed :
            asked[g] # None /\ \E s \in Id : asked[g][s] = invocation.manifest[m.id]

WorkOK ==
    /\ pc \in {"ask", "work"} => Current(rows[g], marks[g]) /\ MarkedOrWritten
    /\ pc = "work" => asked[g] = invocation.manifest

BatchOK ==
    /\ \A r \in Id : batch[r] # None =>
        /\ pc = "work" /\ r \in Requested /\ r \notin Marked(g)
        /\ batch[r].query = invocation.manifest[r] /\ batch[r].context = invocation.context
    /\ written # None =>
        batch[written] # None /\ {x \in rows[g] : x.id = written} = RowsOf(written, batch[written])

Done ==
    CASE pc = "idle" -> {}
      [] pc \in {"reconcile", "mark", "ask", "work"} -> 1..(g - 1)
      [] pc \in {"merge", "settle", "returned"} -> Grounder

DoneOK ==
    /\ \A h \in Done : Current(rows[h], marks[h]) /\ Requested \subseteq Marked(h)
    /\ pc \in {"settle", "returned"} =>
        merged = UNION {{[grounder |-> h, row |-> x] : x \in rows[h]} : h \in Grounder}

CIInv ==
    /\ CacheTypeOK
    /\ pc # "idle" => invocation # None
    /\ \A h \in Grounder : FilesOK(rows[h], marks[h], asked[h])
    /\ \A h \in Grounder : FilesOK(snapshot[1][h], snapshot[2][h], snapshot[3][h])
    /\ MarkOK /\ WorkOK /\ BatchOK /\ DoneOK

-----------------------------------------------------------------------------
(* Rows and results.                                                       *)

LEMMA FilesTyped ==
    files \in Files <=>
        /\ rows \in [Grounder -> SUBSET Row] /\ marks \in [Grounder -> SUBSET Mark]
        /\ asked \in [Grounder -> Manifests \cup {None}]
        /\ merged \in {None} \cup SUBSET [grounder: Grounder, row: Row]
        /\ settled \in Manifests \cup {None} /\ cleaned \in SUBSET (1..MaxRuns)
  BY DEF files, Files

LEMMA SnapshotTyped ==
    ASSUME snapshot \in Files
    PROVE  /\ snapshot = <<snapshot[1], snapshot[2], snapshot[3], snapshot[4], snapshot[5], snapshot[6]>>
           /\ snapshot[1] \in [Grounder -> SUBSET Row] /\ snapshot[2] \in [Grounder -> SUBSET Mark]
           /\ snapshot[3] \in [Grounder -> Manifests \cup {None}]
  BY DEF Files

LEMMA SizeOfRows ==
    ASSUME NEW res \in Inference, NEW r
    PROVE  Cardinality(RowsOf(r, res)) = res.size
<1> DEFINE row(i) == [id |-> r, index |-> i - 1, from |-> res]
           f == [i \in 1..res.size |-> row(i)]
<1>1. res.size \in Nat
  BY CacheAssumption DEF Inference
<1>2. f \in Bijection(1..res.size, RowsOf(r, res))
  <2>1. f \in [1..res.size -> RowsOf(r, res)]
    BY DEF RowsOf
  <2>2. ASSUME NEW i \in 1..res.size, NEW j \in 1..res.size, f[i] = f[j] PROVE i = j
    <3>1. row(i).index = row(j).index
      BY <2>2
    <3>2. i - 1 = j - 1
      BY <3>1
    <3> QED BY <1>1, <3>2
  <2>3. \A x \in RowsOf(r, res) : \E i \in 1..res.size : f[i] = x
    BY DEF RowsOf
  <2> QED BY <2>1, <2>2, <2>3 DEF Bijection, Injection, IsInjective, Surjection
<1> QED BY <1>1, <1>2, FS_CountingElements DEF ExistsBijection

LEMMA RowsOfOne ==
    ASSUME NEW R, NEW x \in R, OneInference(R)
    PROVE  {y \in R : y.id = x.id} = RowsOf(x.id, x.from)
<1>1. ASSUME NEW y \in R, y.id = x.id PROVE y \in RowsOf(x.id, x.from)
  BY <1>1 DEF OneInference
<1>2. ASSUME NEW y \in RowsOf(x.id, x.from) PROVE y \in R /\ y.id = x.id
  BY <1>2 DEF OneInference, RowsOf
<1> QED BY <1>1, <1>2

(* No index is written twice.                                              *)
LEMMA AllAreDetections ==
    ASSUME NEW h \in Grounder, NEW r, OneInference(rows[h]), rows[h] \in SUBSET Row
    PROVE  Detections(h, r) = {x \in rows[h] : x.id = r}
<1>1. ASSUME NEW x \in rows[h], NEW y \in rows[h], x.id = y.id PROVE y.from.run <= x.from.run
  <2>1. y.from = x.from
    BY <1>1 DEF OneInference
  <2>2. x.from.run \in Nat
    BY CacheAssumption DEF Row, Inference
  <2> QED BY <2>1, <2>2
<1> QED BY <1>1 DEF Detections

(* An id that has no rows has the result of an inference that found none.  *)
LEMMA ResultIsWhole ==
    ASSUME NEW R \in SUBSET Row, NEW m \in Mark, NEW query \in Query,
           OneInference(R), m.count \in Sizes, MaxRuns > 0,
           Cardinality({x \in R : x.id = m.id}) = m.count,
           \A x \in R : x.id = m.id => x.from.query = query /\ x.from.context = m.context
    PROVE  Whole(Unbound({x \in R : x.id = m.id}), query, m.context)
<1> DEFINE D == {x \in R : x.id = m.id}
<1>1. CASE D = {}
  <2> DEFINE res == [query |-> query, context |-> m.context, size |-> 0, run |-> 1]
  <2>1. 0 \in Sizes
    BY <1>1, FS_EmptySet
  <2>2. res \in Inference
    BY <2>1, CacheAssumption DEF Inference, Mark
  <2>3. Unbound(D) = {[index |-> i - 1, from |-> res] : i \in 1..res.size}
    BY <1>1 DEF Unbound
  <2> QED BY <2>2, <2>3 DEF Whole
<1>2. CASE D # {}
  <2>1. PICK x \in R : x.id = m.id
    BY <1>2
  <2>2. D = RowsOf(m.id, x.from)
    BY <2>1, RowsOfOne
  <2>3. Unbound(D) = {[index |-> i - 1, from |-> x.from] : i \in 1..x.from.size}
    <3>1. ASSUME NEW y \in D
          PROVE  \E i \in 1..x.from.size :
                    [index |-> y.index, from |-> y.from] = [index |-> i - 1, from |-> x.from]
      BY <2>2 DEF RowsOf
    <3>2. ASSUME NEW i \in 1..x.from.size
          PROVE  \E y \in D : [index |-> y.index, from |-> y.from] = [index |-> i - 1, from |-> x.from]
      <4>1. [id |-> m.id, index |-> i - 1, from |-> x.from] \in D
        BY <2>2 DEF RowsOf
      <4> QED BY <4>1
    <3>3. ASSUME NEW z \in Unbound(D)
          PROVE  \E i \in 1..x.from.size : z = [index |-> i - 1, from |-> x.from]
      <4> HIDE DEF D
      <4>1. PICK y \in D : z = [index |-> y.index, from |-> y.from]
        BY DEF Unbound
      <4> QED BY <3>1, <4>1
    <3>4. ASSUME NEW i \in 1..x.from.size
          PROVE  [index |-> i - 1, from |-> x.from] \in Unbound(D)
      <4> HIDE DEF D
      <4> QED BY <3>2 DEF Unbound
    <3> HIDE DEF D
    <3> QED BY <3>3, <3>4
  <2>4. x.from \in Inference
    BY DEF Row
  <2> QED BY <2>1, <2>3, <2>4 DEF Whole
<1> QED BY <1>1, <1>2

-----------------------------------------------------------------------------
(* Reconciliation.                                                         *)

LEMMA Chosen ==
    ASSUME CIInv, NEW pick \in Picks(g), NEW q \in DOMAIN pick
    PROVE  /\ pick[q] \in marks[g] /\ pick[q] \in Reusable(g)
           /\ asked[g] # None /\ asked[g][pick[q].id] = q /\ q # None
           /\ pick[q].context = invocation.context
           /\ Cardinality({x \in rows[g] : x.id = pick[q].id}) = pick[q].count
<1>1. g \in Grounder /\ FilesOK(rows[g], marks[g], asked[g]) /\ rows[g] \in SUBSET Row
  BY FilesTyped DEF CIInv, CacheTypeOK
<1>2. pick[q] \in Reusable(g) /\ Prior(g)[pick[q].id] = q
  BY DEF Picks
<1>3. pick[q] \in marks[g] /\ Usable(g, pick[q], invocation.context)
  BY <1>2 DEF Reusable
<1>4. asked[g] # None /\ Prior(g) = asked[g]
  BY <1>1, <1>3 DEF FilesOK, Prior
<1>5. /\ Cardinality({x \in rows[g] : x.id = pick[q].id}) = pick[q].count
      /\ q # None /\ pick[q].context = invocation.context
  BY <1>1, <1>2, <1>3, AllAreDetections DEF Usable, FilesOK
<1> QED BY <1>2, <1>3, <1>4, <1>5

LEMMA ChosenRows ==
    ASSUME CIInv, NEW pick \in Picks(g), NEW q \in DOMAIN pick,
           NEW x \in rows[g], x.id = pick[q].id
    PROVE  x.from.run \notin cleaned /\ x.from.query = q /\ x.from.context = invocation.context
<1>1. g \in Grounder /\ FilesOK(rows[g], marks[g], asked[g]) /\ rows[g] \in SUBSET Row
  BY FilesTyped DEF CIInv, CacheTypeOK
<1>2. /\ pick[q] \in marks[g] /\ pick[q] \in Reusable(g) /\ asked[g] # None
      /\ asked[g][pick[q].id] = q /\ q # None /\ pick[q].context = invocation.context
  BY Chosen
<1>3. x.from.run \notin cleaned
  BY <1>1, <1>2, AllAreDetections DEF Reusable, Usable, FilesOK
<1> QED BY <1>1, <1>2, <1>3 DEF FilesOK, Matches

(* The rows of a rebound id.                                               *)
LEMMA ReboundTo ==
    ASSUME CIInv, invocation # None, NEW pick \in Picks(g), NEW r \in Answered(pick)
    PROVE  LET q == invocation.manifest[r]
               old == {x \in rows[g] : x.id = pick[q].id}
               new == {x \in Rebound(g, pick) : x.id = r}
           IN  /\ q \in DOMAIN pick /\ r \in Id /\ (new = {} <=> old = {})
               /\ \A x \in old : new = RowsOf(r, x.from) /\ old = RowsOf(pick[q].id, x.from)
               /\ \A y \in new : \E x \in old : y.from = x.from
<1> DEFINE q == invocation.manifest[r]
           old == {x \in rows[g] : x.id = pick[q].id}
           new == {x \in Rebound(g, pick) : x.id = r}
           to(x) == [id |-> r, index |-> x.index, from |-> x.from]
<1>1. g \in Grounder /\ OneInference(rows[g]) /\ rows[g] \in SUBSET Row
  BY FilesTyped DEF CIInv, CacheTypeOK, FilesOK
<1>2. Detections(g, pick[q].id) = old
  BY <1>1, AllAreDetections
<1>3. r \in Id /\ q \in DOMAIN pick
  BY DEF Answered
<1>4. ASSUME NEW y \in new PROVE \E x \in old : y = to(x)
  <2>1. PICK s \in Answered(pick) :
           \E x \in Detections(g, pick[invocation.manifest[s]].id) :
              y = [id |-> s, index |-> x.index, from |-> x.from]
    BY DEF Rebound
  <2>2. s = r
    BY <2>1
  <2> QED BY <1>2, <2>1, <2>2
<1>5. ASSUME NEW x \in old PROVE to(x) \in new
  BY <1>2 DEF Rebound
<1>6. ASSUME NEW x \in old PROVE new = RowsOf(r, x.from) /\ old = RowsOf(pick[q].id, x.from)
  <2>1. old = RowsOf(pick[q].id, x.from)
    BY <1>1, RowsOfOne
  <2>2. ASSUME NEW y \in new PROVE y \in RowsOf(r, x.from)
    <3>1. PICK z \in old : y = to(z)
      BY <1>4
    <3> QED BY <2>1, <3>1 DEF RowsOf
  <2>3. ASSUME NEW y \in RowsOf(r, x.from) PROVE y \in new
    <3>1. PICK i \in 1..x.from.size : y = [id |-> r, index |-> i - 1, from |-> x.from]
      BY DEF RowsOf
    <3>2. [id |-> pick[q].id, index |-> i - 1, from |-> x.from] \in old
      BY <2>1 DEF RowsOf
    <3>3. to([id |-> pick[q].id, index |-> i - 1, from |-> x.from]) \in new
      BY <1>5, <3>2
    <3> QED BY <3>1, <3>3
  <2> HIDE DEF old, new
  <2> QED BY <2>1, <2>2, <2>3
<1> HIDE DEF old, new
<1>7. new = {} <=> old = {}
  BY <1>4, <1>5
<1>8. \A y \in new : \E x \in old : y.from = x.from
  BY <1>4
<1>9. /\ q \in DOMAIN pick /\ r \in Id /\ (new = {} <=> old = {})
      /\ \A x \in old : new = RowsOf(r, x.from) /\ old = RowsOf(pick[q].id, x.from)
      /\ \A y \in new : \E x \in old : y.from = x.from
  BY <1>3, <1>6, <1>7, <1>8
<1> QED BY <1>9 DEF old, new

LEMMA ReboundIsWhole ==
    ASSUME CIInv, invocation # None, NEW pick \in Picks(g)
    PROVE  /\ Rebound(g, pick) \in SUBSET Row /\ OneInference(Rebound(g, pick))
           /\ \A y \in Rebound(g, pick) :
                 /\ y.id \in Answered(pick) /\ y.from.run \notin cleaned
                 /\ y.from.query = invocation.manifest[y.id] /\ y.from.context = invocation.context
<1>1. ASSUME NEW y \in Rebound(g, pick)
      PROVE  /\ y.id \in Answered(pick)
             /\ \E x \in rows[g] : x.id = pick[invocation.manifest[y.id]].id /\ y.from = x.from
  <2>1. y.id \in Answered(pick)
    BY DEF Rebound
  <2> QED BY <2>1, ReboundTo
<1>2. ASSUME NEW y \in Rebound(g, pick)
      PROVE  {z \in Rebound(g, pick) : z.id = y.id} = RowsOf(y.id, y.from)
  <2>1. PICK x \in rows[g] : x.id = pick[invocation.manifest[y.id]].id /\ y.from = x.from
    BY <1>1
  <2> QED BY <1>1, <2>1, ReboundTo
<1>3. OneInference(Rebound(g, pick))
  <2>1. ASSUME NEW y \in Rebound(g, pick)
        PROVE  /\ RowsOf(y.id, y.from) \subseteq Rebound(g, pick) /\ y \in RowsOf(y.id, y.from)
               /\ \A z \in Rebound(g, pick) : z.id = y.id => z.from = y.from
    <3>1. {z \in Rebound(g, pick) : z.id = y.id} = RowsOf(y.id, y.from)
      BY <1>2
    <3>2. \A z \in RowsOf(y.id, y.from) : z.from = y.from
      BY DEF RowsOf
    <3> QED BY <3>1, <3>2
  <2> QED BY <2>1 DEF OneInference
<1>4. rows[g] \in SUBSET Row
  BY FilesTyped DEF CIInv, CacheTypeOK
<1>5. Rebound(g, pick) \in SUBSET Row
  <2>1. ASSUME NEW y \in Rebound(g, pick) PROVE y \in Row
    <3>1. y.from \in Inference /\ y.id \in Id
      BY <1>1, <1>4 DEF Row, Answered
    <3>2. y \in RowsOf(y.id, y.from) /\ y.from.size \in Nat
      BY <1>3, <3>1, CacheAssumption DEF OneInference, Inference
    <3> QED BY <3>1, <3>2 DEF RowsOf, Row
  <2> QED BY <2>1
<1>6. ASSUME NEW y \in Rebound(g, pick)
      PROVE  /\ y.from.run \notin cleaned
             /\ y.from.query = invocation.manifest[y.id] /\ y.from.context = invocation.context
  <2>1. PICK q \in DOMAIN pick : q = invocation.manifest[y.id]
    BY <1>1 DEF Answered
  <2>2. PICK x \in rows[g] : x.id = pick[invocation.manifest[y.id]].id /\ y.from = x.from
    BY <1>1
  <2> QED BY <2>1, <2>2, ChosenRows
<1> QED BY <1>1, <1>3, <1>5, <1>6

(* The ids of a query are its own in any two manifests (NoAlias).          *)
LEMMA SameQuery ==
    ASSUME NEW old \in Manifests, NEW new \in Manifests, NEW r \in Id, NEW s \in Id,
           old[r] # None, new[r] # None, old[s] = new[r]
    PROVE  old[r] = new[r]
  BY CacheAssumption DEF NoAlias

LEMMA WriteOutputHolds == ASSUME CIInv, WriteOutput PROVE CIInv'
<1>1. PICK pick \in Picks(g) :
         /\ rows' = [rows EXCEPT ![g] = Rebound(g, pick)]
         /\ committed' = Recommitted(pick)
  BY DEF WriteOutput
<1>2. /\ pc = "reconcile" /\ pc' = "mark"
      /\ UNCHANGED <<marks, asked, merged, settled, cleaned, snapshot, invocation, g, batch,
                     written, runs, cacheFaults>>
  BY DEF WriteOutput
<1>3. invocation # None /\ invocation \in Invocation /\ g \in Grounder /\ g \in Nat
  BY <1>2 DEF CIInv, CacheTypeOK, Grounder
<1>4. /\ rows \in [Grounder -> SUBSET Row] /\ marks \in [Grounder -> SUBSET Mark]
      /\ asked \in [Grounder -> Manifests \cup {None}]
  BY FilesTyped DEF CIInv, CacheTypeOK
<1>5. Rebound(g, pick) \in SUBSET Row /\ OneInference(Rebound(g, pick))
  BY <1>3, ReboundIsWhole
<1>6. rows'[g] = Rebound(g, pick) /\ \A h \in Grounder \ {g} : rows'[h] = rows[h]
  BY <1>1, <1>3, <1>4
<1>7. \A h \in Grounder : FilesOK(rows[h], marks[h], asked[h])
  BY DEF CIInv
<1>8. \A m \in marks[g] : m.id \in Id
  BY <1>3, <1>4 DEF Mark
<1>9. ASSUME NEW m \in committed'
      PROVE  /\ m \in Mark /\ m.id \in Answered(pick) /\ m.id \in Requested
             /\ m.count = pick[invocation.manifest[m.id]].count /\ m.context = invocation.context
             /\ asked[g] # None /\ asked[g][pick[invocation.manifest[m.id]].id] = invocation.manifest[m.id]
             /\ pick[invocation.manifest[m.id]] \in marks[g]
  <2>1. PICK r \in Answered(pick) :
           m = [id |-> r, count |-> pick[invocation.manifest[r]].count, context |-> invocation.context]
    BY <1>1 DEF Recommitted
  <2>2. r \in Id /\ invocation.manifest[r] \in DOMAIN pick
    BY DEF Answered
  <2>3. pick[invocation.manifest[r]] \in Mark /\ invocation.manifest[r] # None
    BY <1>3, <1>4, <2>2, Chosen
  <2>4. m \in Mark
    BY <1>3, <2>1, <2>2, <2>3 DEF Mark, Invocation
  <2>5. asked[g] # None /\ asked[g][pick[invocation.manifest[r]].id] = invocation.manifest[r]
    BY <2>2, Chosen
  <2>6. pick[invocation.manifest[r]] \in marks[g]
    BY <2>2, Chosen
  <2> QED BY <2>1, <2>2, <2>3, <2>4, <2>5, <2>6 DEF Requested
<1>10. CacheTypeOK'
  <2>1. rows' \in [Grounder -> SUBSET Row] /\ committed' \subseteq Mark
    BY <1>1, <1>4, <1>5, <1>9
  <2>2. files' \in Files
    BY <1>2, <2>1, FilesTyped DEF CIInv, CacheTypeOK, files, Files
  <2> QED BY <1>2, <2>1, <2>2 DEF CIInv, CacheTypeOK
<1>11. FilesOK(Rebound(g, pick), marks[g], asked[g])
  <2>1. asked[g] = None => Rebound(g, pick) = {}
    <3>1. \A y \in Rebound(g, pick) : invocation.manifest[y.id] \in DOMAIN pick
      BY <1>3, ReboundIsWhole DEF Answered
    <3> QED BY <3>1, Chosen
  <2>2. ASSUME NEW m \in marks[g], NEW y \in Rebound(g, pick), y.id = m.id, asked[g] # None,
               asked[g][m.id] # None
        PROVE  y.from.query = asked[g][m.id] /\ y.from.context = m.context
    <3>1. /\ y.id \in Answered(pick) /\ y.from.query = invocation.manifest[y.id]
          /\ y.from.context = invocation.context
      BY <1>3, ReboundIsWhole
    <3> DEFINE q == invocation.manifest[y.id]
    <3>2. q \in DOMAIN pick /\ y.id \in Id
      BY <3>1 DEF Answered
    <3>3. pick[q] \in marks[g] /\ asked[g][pick[q].id] = q /\ q # None /\ pick[q].context = invocation.context
      BY <3>2, Chosen
    <3>4. asked[g] \in Manifests /\ invocation.manifest \in Manifests
      BY <1>3, <1>4, <2>2 DEF Invocation
    <3>5. asked[g][y.id] = q
      BY <1>8, <2>2, <3>2, <3>3, <3>4, SameQuery
    <3>6. m.context = pick[q].context
      BY <1>3, <1>7, <3>3 DEF FilesOK, OneSetting
    <3> QED BY <2>2, <3>1, <3>3, <3>5, <3>6
  <2> QED BY <1>3, <1>5, <1>7, <2>1, <2>2 DEF FilesOK, Matches
<1>12. \A h \in Grounder : FilesOK(rows[h], marks[h], asked[h])'
  BY <1>2, <1>6, <1>7, <1>11
<1>13. MarkOK'
  <2>1. OneSetting(committed')
    <3>1. \A m \in committed' : m.count \in Sizes /\ MaxRuns > 0
      BY <1>3, <1>7, <1>9 DEF FilesOK, OneSetting
    <3> QED BY <1>1, <1>9, <3>1 DEF OneSetting, Recommitted
  <2>2. Current(rows[g], committed)'
    <3>1. ASSUME NEW m \in committed'
          PROVE  Cardinality({y \in Rebound(g, pick) : y.id = m.id}) = m.count
      <4> DEFINE q == invocation.manifest[m.id]
                 old == {x \in rows[g] : x.id = pick[q].id}
                 new == {y \in Rebound(g, pick) : y.id = m.id}
      <4>1. /\ q \in DOMAIN pick /\ (new = {} <=> old = {})
            /\ \A x \in old : new = RowsOf(m.id, x.from) /\ old = RowsOf(pick[q].id, x.from)
        BY <1>3, <1>9, ReboundTo
      <4>2. Cardinality(old) = m.count
        BY <1>9, <4>1, Chosen
      <4>3. \A x \in old : x.from \in Inference
        BY <1>3, <1>4 DEF Row
      <4> HIDE DEF old, new
      <4>4. Cardinality(new) = m.count
        <5>1. CASE old = {}
          BY <4>1, <4>2, <5>1
        <5>2. CASE old # {}
          <6>1. PICK x \in old : TRUE
            BY <5>2
          <6>2. Cardinality(new) = x.from.size /\ Cardinality(old) = x.from.size
            BY <4>1, <4>3, SizeOfRows
          <6> QED BY <4>2, <6>2
        <5> QED BY <5>1, <5>2
      <4> QED BY <4>4 DEF new
    <3>2. \A y \in Rebound(g, pick) : y.id \in Requested
      <4>1. ASSUME NEW y \in Rebound(g, pick) PROVE y.id \in Requested
        <5>1. y.id \in Id /\ invocation.manifest[y.id] \in DOMAIN pick
          BY <1>3, ReboundIsWhole DEF Answered
        <5> QED BY <5>1, Chosen DEF Requested
      <4> QED BY <4>1
    <3>3. \A y \in Rebound(g, pick) :
             y.from.query = invocation.manifest[y.id] /\ y.from.context = invocation.context
      BY <1>3, ReboundIsWhole
    <3>4. Requested' = Requested /\ invocation' = invocation /\ rows'[g'] = Rebound(g, pick)
      BY <1>2, <1>6 DEF Requested
    <3> QED BY <1>9, <3>1, <3>2, <3>3, <3>4 DEF Current
  <2>3. \A y \in rows'[g] : y.from.run \notin cleaned /\ \E m \in committed' : m.id = y.id
    <3>1. ASSUME NEW y \in Rebound(g, pick) PROVE \E m \in committed' : m.id = y.id
      <4>1. y.id \in Answered(pick)
        BY <1>3, ReboundIsWhole
      <4>2. [id |-> y.id, count |-> pick[invocation.manifest[y.id]].count,
             context |-> invocation.context] \in committed'
        BY <1>1, <4>1 DEF Recommitted
      <4> QED BY <4>2
    <3>2. \A y \in Rebound(g, pick) : y.from.run \notin cleaned
      BY <1>3, ReboundIsWhole
    <3> QED BY <1>6, <3>1, <3>2
  <2>4. \A m \in committed' :
           asked[g] # None /\ \E s \in Id : asked[g][s] = invocation.manifest[m.id]
    BY <1>8, <1>9
  <2> QED BY <1>2, <2>1, <2>2, <2>3, <2>4 DEF MarkOK
<1>14. WorkOK' /\ BatchOK'
  <2>1. batch = NoBatch /\ written = None
    BY <1>2 DEF CIInv, BatchOK, CacheTypeOK, NoBatch
  <2> QED BY <1>2, <2>1 DEF WorkOK, BatchOK, NoBatch
<1>15. DoneOK'
  <2>1. Done = 1..(g - 1) /\ Done' = 1..(g - 1)
    BY <1>2 DEF Done
  <2>2. \A h \in Done : h \in Grounder \ {g}
    BY <1>3, <2>1, CacheAssumption DEF Grounder
  <2> QED BY <1>2, <1>6, <2>1, <2>2 DEF CIInv, DoneOK, Current, Requested, Marked
<1> QED BY <1>2, <1>10, <1>12, <1>13, <1>14, <1>15 DEF CIInv

-----------------------------------------------------------------------------
(* The other steps.                                                        *)

LEMMA FilesHold ==
    ASSUME CIInv
    PROVE  /\ rows \in [Grounder -> SUBSET Row] /\ marks \in [Grounder -> SUBSET Mark]
           /\ asked \in [Grounder -> Manifests \cup {None}]
           /\ merged \in {None} \cup SUBSET [grounder: Grounder, row: Row]
           /\ settled \in Manifests \cup {None} /\ cleaned \in SUBSET (1..MaxRuns)
           /\ g \in Grounder /\ g \in Nat
           /\ \A h \in Grounder : FilesOK(rows[h], marks[h], asked[h])
  BY FilesTyped DEF CIInv, CacheTypeOK, Grounder

(* Only a worker has results in memory.                                    *)
LEMMA NothingInMemory ==
    ASSUME CIInv, pc # "work"
    PROVE  batch = NoBatch /\ written = None
  BY DEF CIInv, BatchOK, CacheTypeOK, NoBatch

LEMMA NothingUnwritten ==
    ASSUME CIInv, batch = NoBatch
    PROVE  written = None
  BY DEF CIInv, BatchOK, CacheTypeOK, NoBatch

LEMMA NoBatchIsOK ==
    ASSUME batch' = NoBatch, written' = None
    PROVE  BatchOK'
  BY DEF BatchOK, NoBatch

(* A step at a grounder leaves those before it alone.                      *)
LEMMA DoneStays ==
    ASSUME CIInv, pc \in {"reconcile", "mark", "ask", "work"},
           pc' \in {"reconcile", "mark", "ask", "work"}, g' = g, invocation' = invocation,
           \A h \in Grounder \ {g} : rows'[h] = rows[h] /\ marks'[h] = marks[h]
    PROVE  DoneOK'
<1>1. Done = 1..(g - 1) /\ Done' = 1..(g - 1)
  BY DEF Done
<1>2. \A h \in Done : h \in Grounder \ {g}
  BY <1>1, FilesHold, CacheAssumption DEF Grounder
<1>3. Requested' = Requested
  BY DEF Requested
<1>4. ASSUME NEW h \in Done' PROVE (Current(rows[h], marks[h]) /\ Requested \subseteq Marked(h))'
  <2>1. rows'[h] = rows[h] /\ marks'[h] = marks[h] /\ h \in Done
    BY <1>1, <1>2, <1>4
  <2>2. Current(rows[h], marks[h]) /\ Requested \subseteq Marked(h)
    BY <2>1 DEF CIInv, DoneOK
  <2> QED BY <1>3, <2>1, <2>2 DEF Current, Marked
<1> QED BY <1>4 DEF DoneOK

LEMMA InvokeHolds == ASSUME CIInv, Invoke PROVE CIInv'
<1>1. /\ pc \in {"idle", "returned"} /\ pc' = "reconcile" /\ g' = 1 /\ invocation' \in Invocation
      /\ UNCHANGED <<files, rows, marks, asked, snapshot, committed, batch, written, runs, cacheFaults>>
  BY DEF Invoke, files
<1>2. batch = NoBatch /\ written = None
  BY <1>1, NothingInMemory
<1>3. CacheTypeOK'
  BY <1>1, CacheAssumption DEF CIInv, CacheTypeOK, Grounder
<1>4. invocation' # None
  BY <1>1, CacheAssumption
<1>5. BatchOK'
  BY <1>1, <1>2, NoBatchIsOK
<1>6. DoneOK'
  BY <1>1 DEF DoneOK, Done
<1> QED BY <1>1, <1>3, <1>4, <1>5, <1>6 DEF CIInv, MarkOK, WorkOK

LEMMA WriteProgressHolds == ASSUME CIInv, WriteProgress PROVE CIInv'
<1>1. /\ pc = "mark" /\ pc' = "ask" /\ marks' = [marks EXCEPT ![g] = committed]
      /\ UNCHANGED <<rows, asked, merged, settled, cleaned, snapshot, invocation, g, committed,
                     batch, written, runs, cacheFaults>>
  BY DEF WriteProgress, memory
<1>2. /\ OneSetting(committed) /\ Current(rows[g], committed)
      /\ \A x \in rows[g] : \E m \in committed : m.id = x.id
      /\ \A m \in committed :
            asked[g] # None /\ \E s \in Id : asked[g][s] = invocation.manifest[m.id]
  BY <1>1 DEF CIInv, MarkOK
<1>3. marks'[g] = committed /\ \A h \in Grounder \ {g} : marks'[h] = marks[h]
  BY <1>1, FilesHold
<1>4. invocation # None /\ invocation \in Invocation /\ committed \subseteq Mark
  BY <1>1 DEF CIInv, CacheTypeOK
<1>5. CacheTypeOK'
  <2>1. marks' \in [Grounder -> SUBSET Mark]
    BY <1>1, <1>4, FilesHold
  <2>2. files' \in Files
    BY <1>1, <2>1, FilesHold DEF files, Files
  <2> QED BY <1>1, <2>2 DEF CIInv, CacheTypeOK
<1>6. FilesOK(rows[g], committed, asked[g])
  <2>1. ASSUME NEW m \in committed, NEW x \in rows[g], x.id = m.id, asked[g][m.id] # None
        PROVE  x.from.query = asked[g][m.id] /\ x.from.context = m.context
    <3>1. m.id \in Requested /\ m.context = invocation.context
      BY <1>2 DEF Current
    <3>2. x.from.query = invocation.manifest[m.id] /\ x.from.context = invocation.context
      BY <1>2, <2>1 DEF Current
    <3>3. PICK s \in Id : asked[g][s] = invocation.manifest[m.id]
      BY <1>2
    <3>4. asked[g] \in Manifests /\ invocation.manifest \in Manifests
      BY <1>2, <1>4, FilesHold DEF Invocation
    <3>5. m.id \in Id /\ invocation.manifest[m.id] # None
      BY <3>1 DEF Requested
    <3>6. asked[g][m.id] = invocation.manifest[m.id]
      BY <2>1, <3>3, <3>4, <3>5, SameQuery
    <3> QED BY <3>1, <3>2, <3>6
  <2>2. asked[g] = None => rows[g] = {} /\ committed = {}
    BY <1>2, FilesHold DEF FilesOK
  <2>3. OneInference(rows[g])
    BY FilesHold DEF FilesOK
  <2> QED BY <1>2, <2>1, <2>2, <2>3 DEF FilesOK, Matches
<1>7. \A h \in Grounder : FilesOK(rows[h], marks[h], asked[h])'
  BY <1>1, <1>3, <1>6, FilesHold
<1>8. WorkOK'
  <2>1. Current(rows[g], marks[g])'
    BY <1>1, <1>2, <1>3 DEF Current, Requested
  <2>2. MarkedOrWritten'
    BY <1>1, <1>2, <1>3 DEF MarkedOrWritten, Marked
  <2> QED BY <1>1, <2>1, <2>2 DEF WorkOK
<1>9. BatchOK'
  <2>1. batch = NoBatch /\ written = None
    BY <1>1, NothingInMemory
  <2> QED BY <1>1, <2>1, NoBatchIsOK
<1>10. DoneOK'
  BY <1>1, <1>3, DoneStays
<1> QED BY <1>1, <1>4, <1>5, <1>7, <1>8, <1>9, <1>10 DEF CIInv, MarkOK

LEMMA WriteRequestsHolds == ASSUME CIInv, WriteRequests PROVE CIInv'
<1>1. /\ pc = "ask" /\ pc' = "work" /\ asked' = [asked EXCEPT ![g] = invocation.manifest]
      /\ UNCHANGED <<rows, marks, merged, settled, cleaned, snapshot, invocation, g, committed,
                     batch, written, runs, cacheFaults>>
  BY DEF WriteRequests, memory
<1>2. Current(rows[g], marks[g]) /\ MarkedOrWritten
  BY <1>1 DEF CIInv, WorkOK
<1>3. /\ invocation # None /\ invocation \in Invocation /\ invocation.manifest \in Manifests
      /\ invocation.manifest # None
  BY <1>1, CacheAssumption DEF CIInv, CacheTypeOK, Invocation
<1>4. asked'[g] = invocation.manifest /\ \A h \in Grounder \ {g} : asked'[h] = asked[h]
  BY <1>1, FilesHold
<1>5. CacheTypeOK'
  <2>1. asked' \in [Grounder -> Manifests \cup {None}]
    BY <1>1, <1>3, FilesHold
  <2>2. files' \in Files
    BY <1>1, <2>1, FilesHold DEF files, Files
  <2> QED BY <1>1, <2>2 DEF CIInv, CacheTypeOK
<1>6. FilesOK(rows[g], marks[g], invocation.manifest)
  <2>1. Matches(rows[g], marks[g], invocation.manifest)
    BY <1>2 DEF Current, Matches
  <2> QED BY <1>3, <2>1, FilesHold DEF FilesOK
<1>7. \A h \in Grounder : FilesOK(rows[h], marks[h], asked[h])'
  BY <1>1, <1>4, <1>6, FilesHold
<1>8. WorkOK'
  BY <1>1, <1>2, <1>4 DEF WorkOK, Current, Requested, MarkedOrWritten, Marked
<1>9. BatchOK'
  <2>1. batch = NoBatch /\ written = None
    BY <1>1, NothingInMemory
  <2> QED BY <1>1, <2>1, NoBatchIsOK
<1>10. DoneOK'
  BY <1>1, DoneStays
<1> QED BY <1>1, <1>3, <1>5, <1>7, <1>8, <1>9, <1>10 DEF CIInv, MarkOK

LEMMA InferHolds == ASSUME CIInv, Infer PROVE CIInv'
<1>1. PICK b \in (SUBSET Missing) \ {{}} :
         /\ runs + Cardinality(b) <= MaxRuns /\ runs' = runs + Cardinality(b)
         /\ \E size \in [b -> Sizes] :
            batch' = [r \in Id |->
                IF r \notin b THEN None
                ELSE [query |-> invocation.manifest[r], context |-> invocation.context,
                      size |-> size[r], run |-> runs + Cardinality({s \in b : s <= r})]]
  BY DEF Infer
<1>2. PICK size \in [b -> Sizes] :
         batch' = [r \in Id |->
            IF r \notin b THEN None
            ELSE [query |-> invocation.manifest[r], context |-> invocation.context,
                  size |-> size[r], run |-> runs + Cardinality({s \in b : s <= r})]]
  BY <1>1
<1>3. /\ pc = "work" /\ pc' = pc /\ batch = NoBatch
      /\ UNCHANGED <<files, rows, marks, asked, merged, settled, cleaned, snapshot, invocation,
                     g, committed, written, cacheFaults>>
  BY DEF Infer, files
<1>4. invocation \in Invocation /\ invocation # None /\ runs \in 0..MaxRuns /\ MaxRuns \in Nat
  BY <1>3, CacheAssumption DEF CIInv, CacheTypeOK
<1>5. b \subseteq Id /\ IsFiniteSet(b) /\ Cardinality(b) \in Nat
  <2>1. b \subseteq Id
    BY DEF Missing, Requested
  <2> QED BY <2>1, CacheAssumption, FS_Subset, FS_CardinalityType
<1>6. ASSUME NEW r \in b
      PROVE  /\ batch'[r] \in Inference /\ batch'[r] # None
             /\ batch'[r].query = invocation.manifest[r] /\ batch'[r].context = invocation.context
             /\ r \in Requested /\ r \notin Marked(g)
  <2> DEFINE before == {s \in b : s <= r}
  <2>1. r \in before /\ before \subseteq b
    BY <1>5, CacheAssumption
  <2> HIDE DEF before
  <2>2. IsFiniteSet(before) /\ Cardinality(before) \in Nat /\ Cardinality(before) # 0
        /\ Cardinality(before) <= Cardinality(b)
    BY <1>5, <2>1, FS_Subset, FS_CardinalityType, FS_EmptySet
  <2>3. runs + Cardinality(before) \in 1..MaxRuns
    <3>1. \A j, k, n \in Nat, m \in Nat :
             j # 0 /\ j <= k /\ n + k <= m => n + j \in 1..m
      OBVIOUS
    <3>2. runs \in Nat
      BY <1>4
    <3> QED BY <1>1, <1>4, <1>5, <2>2, <3>1, <3>2
  <2>4. batch'[r] = [query |-> invocation.manifest[r], context |-> invocation.context,
                     size |-> size[r], run |-> runs + Cardinality(before)]
    BY <1>2, <1>5 DEF before
  <2>5. r \in Requested /\ r \notin Marked(g)
    BY DEF Missing
  <2>6. invocation.manifest[r] \in Query /\ invocation.context \in Contexts /\ size[r] \in Sizes
    BY <1>2, <1>4, <1>5, <2>5, CacheAssumption DEF Invocation, Requested
  <2>7. batch'[r] \in Inference
    BY <2>3, <2>4, <2>6 DEF Inference
  <2> QED BY <2>4, <2>5, <2>7, CacheAssumption
<1>7. \A r \in Id \ b : batch'[r] = None
  BY <1>2
<1>8. CacheTypeOK'
  <2>1. batch' \in [Id -> Inference \cup {None}]
    <3>1. \A r \in Id : batch'[r] \in Inference \cup {None}
      BY <1>6, <1>7
    <3>2. batch' = [r \in Id |-> batch'[r]]
      BY <1>2
    <3> QED BY <3>1, <3>2
  <2>2. runs' \in 0..MaxRuns
    BY <1>1, <1>4, <1>5
  <2> QED BY <1>3, <2>1, <2>2 DEF CIInv, CacheTypeOK
<1>9. WorkOK'
  BY <1>3 DEF CIInv, WorkOK, Current, Requested, MarkedOrWritten, Marked
<1>10. BatchOK'
  <2>1. written = None
    BY <1>3, NothingUnwritten
  <2>2. Requested' = Requested /\ Marked(g)' = Marked(g)
    BY <1>3 DEF Requested, Marked
  <2>3. ASSUME NEW r \in Id, batch'[r] # None PROVE r \in b
    BY <1>7, <2>3
  <2> QED BY <1>3, <1>6, <2>1, <2>2, <2>3 DEF BatchOK
<1>11. DoneOK'
  BY <1>3, DoneStays
<1> QED BY <1>3, <1>4, <1>8, <1>9, <1>10, <1>11 DEF CIInv, MarkOK

LEMMA AppendRowsHolds == ASSUME CIInv, NEW r \in Id, AppendRows(r) PROVE CIInv'
<1> DEFINE new == RowsOf(r, batch[r])
<1>1. /\ pc = "work" /\ pc' = "work" /\ batch[r] # None /\ written = None /\ written' = r
      /\ rows' = [rows EXCEPT ![g] = @ \cup new]
      /\ UNCHANGED <<marks, asked, merged, settled, cleaned, snapshot, invocation, g, committed,
                     batch, runs, cacheFaults>>
  BY DEF AppendRows, RowsOf
<1>2. /\ Current(rows[g], marks[g]) /\ MarkedOrWritten /\ asked[g] = invocation.manifest
      /\ r \in Requested /\ r \notin Marked(g)
      /\ batch[r].query = invocation.manifest[r] /\ batch[r].context = invocation.context
  BY <1>1 DEF CIInv, WorkOK, BatchOK
<1>3. /\ invocation # None /\ invocation.manifest \in Manifests /\ invocation.manifest # None
      /\ batch[r] \in Inference /\ batch[r].size \in Nat
  <2>1. batch \in [Id -> Inference \cup {None}] /\ invocation # None
        /\ invocation \in Invocation
    BY <1>1 DEF CIInv, CacheTypeOK
  <2> QED BY <1>1, <2>1, CacheAssumption DEF Invocation, Inference
<1>4. rows'[g] = rows[g] \cup new /\ \A h \in Grounder \ {g} : rows'[h] = rows[h]
  BY <1>1, FilesHold
<1>5. \A x \in new : x \in Row /\ x.id = r /\ x.from = batch[r]
  BY <1>3 DEF RowsOf, Row
<1>6. r # None /\ \A x \in rows[g] : x.id # r
  <2>1. \A x \in rows[g] : x.id # written => x.id \in Marked(g)
    BY <1>2 DEF MarkedOrWritten
  <2>2. \A x \in rows[g] : x.id \in Id
    BY FilesHold DEF Row
  <2> QED BY <1>1, <1>2, <2>1, <2>2, CacheAssumption
<1> HIDE DEF new
<1>7. CacheTypeOK'
  <2>1. rows' \in [Grounder -> SUBSET Row]
    BY <1>1, <1>4, <1>5, FilesHold
  <2>2. files' \in Files
    BY <1>1, <2>1, FilesHold DEF files, Files
  <2> QED BY <1>1, <2>2 DEF CIInv, CacheTypeOK
<1>8. OneInference(rows[g]) /\ OneSetting(marks[g]) /\ Matches(rows[g], marks[g], asked[g])
  BY <1>2, <1>3, FilesHold DEF FilesOK
<1>9. OneInference(rows'[g])
  <2>1. ASSUME NEW x \in rows[g]
        PROVE  /\ RowsOf(x.id, x.from) \subseteq rows'[g] /\ x \in RowsOf(x.id, x.from)
               /\ \A y \in rows'[g] : y.id = x.id => y.from = x.from
    BY <1>4, <1>5, <1>6, <1>8 DEF OneInference
  <2>2. ASSUME NEW x \in new
        PROVE  /\ RowsOf(x.id, x.from) \subseteq rows'[g] /\ x \in RowsOf(x.id, x.from)
               /\ \A y \in rows'[g] : y.id = x.id => y.from = x.from
    <3>1. RowsOf(x.id, x.from) = new
      BY <1>5 DEF new
    <3> QED BY <1>4, <1>5, <1>6, <3>1
  <2> QED BY <1>4, <2>1, <2>2 DEF OneInference
<1>10. \A h \in Grounder : FilesOK(rows[h], marks[h], asked[h])'
  <2>1. Matches(rows'[g], marks[g], asked[g])
    <3>1. \A m \in marks[g] : m.id # r
      BY <1>2 DEF Marked
    <3> QED BY <1>4, <1>5, <1>8, <3>1 DEF Matches
  <2>2. FilesOK(rows'[g], marks[g], asked[g])
    BY <1>2, <1>3, <1>8, <1>9, <2>1 DEF FilesOK
  <2> QED BY <1>1, <1>4, <2>2, FilesHold
<1>11. WorkOK'
  <2>1. ASSUME NEW m \in marks[g] PROVE Cardinality({x \in rows'[g] : x.id = m.id}) = m.count
    <3>1. m.id # r
      BY <1>2 DEF Marked
    <3>2. {x \in rows'[g] : x.id = m.id} = {x \in rows[g] : x.id = m.id}
      BY <1>4, <1>5, <3>1
    <3> QED BY <1>2, <3>2 DEF Current
  <2>2. ASSUME NEW x \in rows'[g]
        PROVE  /\ x.id \in Requested /\ x.from.query = invocation.manifest[x.id]
               /\ x.from.context = invocation.context /\ (x.id = r \/ x.id \in Marked(g))
    <3>1. CASE x \in new
      BY <1>2, <1>5, <3>1
    <3>2. CASE x \in rows[g]
      <4>1. x.id # None
        BY <3>2, FilesHold, CacheAssumption DEF Row
      <4> QED BY <1>1, <1>2, <3>2, <4>1 DEF Current, MarkedOrWritten
    <3> QED BY <1>4, <3>1, <3>2
  <2>3. Requested' = Requested /\ Marked(g)' = Marked(g)
    BY <1>1 DEF Requested, Marked
  <2>4. Current(rows[g], marks[g])'
    BY <1>1, <1>2, <2>1, <2>2, <2>3 DEF Current
  <2>5. MarkedOrWritten'
    BY <1>1, <2>2, <2>3 DEF MarkedOrWritten
  <2> QED BY <1>1, <1>2, <2>4, <2>5 DEF WorkOK
<1>12. BatchOK'
  <2>1. {x \in rows'[g] : x.id = r} = new
    BY <1>4, <1>5, <1>6
  <2>2. Requested' = Requested /\ Marked(g)' = Marked(g)
    BY <1>1 DEF Requested, Marked
  <2> QED BY <1>1, <2>1, <2>2 DEF CIInv, BatchOK, new
<1>13. DoneOK'
  BY <1>1, <1>4, DoneStays
<1> QED BY <1>1, <1>3, <1>7, <1>10, <1>11, <1>12, <1>13 DEF CIInv, MarkOK

LEMMA AppendMarkHolds == ASSUME CIInv, NEW r \in Id, AppendMark(r) PROVE CIInv'
<1> DEFINE mark == [id |-> r, count |-> batch[r].size, context |-> batch[r].context]
<1>1. /\ pc = "work" /\ pc' = "work" /\ written = r /\ written' = None
      /\ marks' = [marks EXCEPT ![g] = @ \cup {mark}]
      /\ batch' = [batch EXCEPT ![r] = None]
      /\ UNCHANGED <<rows, asked, merged, settled, cleaned, invocation, g, committed, runs,
                     cacheFaults>>
      /\ snapshot' \in {snapshot, files'}
  BY DEF AppendMark
<1>2. /\ Current(rows[g], marks[g]) /\ MarkedOrWritten /\ asked[g] = invocation.manifest
      /\ r # None /\ batch[r] # None /\ {x \in rows[g] : x.id = r} = RowsOf(r, batch[r])
      /\ r \in Requested /\ r \notin Marked(g)
      /\ batch[r].query = invocation.manifest[r] /\ batch[r].context = invocation.context
  BY <1>1, CacheAssumption DEF CIInv, WorkOK, BatchOK
<1>3. /\ invocation # None /\ invocation.manifest \in Manifests /\ invocation.manifest # None
      /\ batch \in [Id -> Inference \cup {None}] /\ batch[r] \in Inference
      /\ batch[r].size \in Nat /\ batch[r].size \in Sizes /\ batch[r].context \in Contexts
      /\ MaxRuns > 0
  <2>1. batch \in [Id -> Inference \cup {None}] /\ invocation # None
        /\ invocation \in Invocation
    BY <1>1 DEF CIInv, CacheTypeOK
  <2>2. batch[r] \in Inference
    BY <1>2, <2>1
  <2>3. /\ batch[r].run \in 1..MaxRuns /\ batch[r].size \in Sizes /\ batch[r].size \in Nat
        /\ batch[r].context \in Contexts
    BY <2>2, CacheAssumption DEF Inference
  <2>4. invocation.manifest \in Manifests /\ invocation.manifest # None
    BY <2>1, CacheAssumption DEF Invocation
  <2>5. MaxRuns > 0
    BY <2>3, CacheAssumption
  <2> QED BY <2>1, <2>2, <2>3, <2>4, <2>5
<1>4. /\ mark.id = r /\ mark.count = batch[r].size /\ mark.context = invocation.context
      /\ mark \in Mark
  BY <1>2, <1>3 DEF Mark
<1> HIDE DEF mark
<1>5. marks'[g] = marks[g] \cup {mark} /\ \A h \in Grounder \ {g} : marks'[h] = marks[h]
  BY <1>1, FilesHold
<1>6. files' \in Files
  <2>1. marks' \in [Grounder -> SUBSET Mark]
    BY <1>1, <1>4, FilesHold
  <2> QED BY <1>1, <2>1, FilesHold DEF files, Files
<1>7. CacheTypeOK'
  <2>1. batch' \in [Id -> Inference \cup {None}]
    BY <1>1, <1>3
  <2> QED BY <1>1, <1>6, <2>1 DEF CIInv, CacheTypeOK
<1>8. OneInference(rows[g]) /\ OneSetting(marks[g]) /\ Matches(rows[g], marks[g], asked[g])
  BY <1>2, <1>3, FilesHold DEF FilesOK
<1>9. \A m \in marks[g] : m.id # r
  BY <1>2 DEF Marked
<1>10. \A x \in rows[g] : x.id = r => x.from = batch[r]
  BY <1>2 DEF RowsOf
<1>11. FilesOK(rows[g], marks'[g], asked[g])
  <2>1. OneSetting(marks'[g])
    BY <1>2, <1>3, <1>4, <1>5, <1>8, <1>9 DEF OneSetting, Current
  <2>2. Matches(rows[g], marks'[g], asked[g])
    BY <1>2, <1>4, <1>5, <1>8, <1>10 DEF Matches
  <2> QED BY <1>2, <1>3, <1>8, <2>1, <2>2 DEF FilesOK
<1>12. \A h \in Grounder : FilesOK(rows[h], marks[h], asked[h])'
  BY <1>1, <1>5, <1>11, FilesHold
<1>13. \A h \in Grounder : FilesOK(snapshot'[1][h], snapshot'[2][h], snapshot'[3][h])
  <2>1. CASE snapshot' = snapshot
    BY <2>1 DEF CIInv
  <2>2. CASE snapshot' = files'
    <3>1. snapshot'[1] = rows' /\ snapshot'[2] = marks' /\ snapshot'[3] = asked'
      BY <2>2 DEF files
    <3> QED BY <1>12, <3>1
  <2> QED BY <1>1, <2>1, <2>2
<1>14. Requested' = Requested /\ Marked(g)' = Marked(g) \cup {r}
  BY <1>1, <1>4, <1>5 DEF Requested, Marked
<1>15. WorkOK'
  <2>1. Cardinality({x \in rows[g] : x.id = r}) = batch[r].size
    BY <1>2, <1>3, SizeOfRows
  <2>2. Current(rows[g], marks[g])'
    <3>1. ASSUME NEW m \in marks'[g]
          PROVE  /\ m.id \in Requested /\ m.context = invocation.context
                 /\ Cardinality({x \in rows[g] : x.id = m.id}) = m.count
      <4>1. CASE m \in marks[g]
        BY <1>2, <4>1 DEF Current
      <4>2. CASE m = mark
        BY <1>2, <1>4, <2>1, <4>2
      <4> QED BY <1>5, <4>1, <4>2
    <3>2. \A x \in rows[g] :
             /\ x.id \in Requested
             /\ x.from.query = invocation.manifest[x.id] /\ x.from.context = invocation.context
      BY <1>2 DEF Current
    <3> QED BY <1>1, <1>14, <3>1, <3>2 DEF Current
  <2>3. MarkedOrWritten'
    BY <1>1, <1>2, <1>14 DEF MarkedOrWritten
  <2> QED BY <1>1, <1>2, <2>2, <2>3 DEF WorkOK
<1>16. BatchOK'
  <2>1. batch'[r] = None /\ \A s \in Id \ {r} : batch'[s] = batch[s]
    BY <1>1, <1>3
  <2> QED BY <1>1, <1>14, <2>1 DEF CIInv, BatchOK
<1>17. DoneOK'
  BY <1>1, <1>5, DoneStays
<1> QED BY <1>1, <1>3, <1>7, <1>12, <1>13, <1>15, <1>16, <1>17 DEF CIInv, MarkOK

LEMMA EndGrounderHolds == ASSUME CIInv, EndGrounder PROVE CIInv'
<1>1. /\ pc = "work" /\ Missing = {} /\ batch = NoBatch
      /\ \/ g < NumGrounders /\ g' = g + 1 /\ pc' = "reconcile"
         \/ ~(g < NumGrounders) /\ g' = g /\ pc' = "merge"
      /\ UNCHANGED <<files, rows, marks, asked, merged, settled, cleaned, snapshot, invocation,
                     committed, batch, written, runs, cacheFaults>>
  BY DEF EndGrounder, files
<1>2. CacheTypeOK'
  BY <1>1, CacheAssumption DEF CIInv, CacheTypeOK, Grounder
<1>3. BatchOK'
  BY <1>1, NothingUnwritten, NoBatchIsOK
<1>4. Done' = 1..g /\ Done = 1..(g - 1)
  BY <1>1, FilesHold, CacheAssumption DEF Done, Grounder
<1>5. Current(rows[g], marks[g]) /\ Requested \subseteq Marked(g)
  BY <1>1 DEF CIInv, WorkOK, Missing
<1>6. \A h \in Done' : Current(rows[h], marks[h]) /\ Requested \subseteq Marked(h)
  <2>1. \A h \in Done' : h = g \/ h \in Done
    BY <1>4, FilesHold
  <2> QED BY <1>5, <2>1 DEF CIInv, DoneOK
<1>7. DoneOK'
  BY <1>1, <1>6 DEF DoneOK, Current, Requested, Marked
<1> QED BY <1>1, <1>2, <1>3, <1>7 DEF CIInv, MarkOK, WorkOK

LEMMA MergeHolds == ASSUME CIInv, Merge PROVE CIInv'
<1> DEFINE all == UNION {{[grounder |-> h, row |-> x] : x \in rows[h]} : h \in Grounder}
<1>1. /\ pc = "merge" /\ pc' = "settle"
      /\ merged' = {[grounder |-> p[1], row |-> p[2]] : p \in
            {x \in Grounder \X UNION {rows[h] : h \in Grounder} :
                /\ x[2] \in rows[x[1]] /\ x[2].id \in Requested
                /\ \A other \in rows[x[1]] :
                    other.id = x[2].id /\ other.index = x[2].index
                        => x[2].from.run <= other.from.run}}
      /\ UNCHANGED <<rows, marks, asked, settled, cleaned, snapshot, invocation, g, committed,
                     batch, written, runs, cacheFaults>>
  BY DEF Merge, memory
<1>2. \A h \in Grounder : Current(rows[h], marks[h]) /\ Requested \subseteq Marked(h)
  BY <1>1 DEF CIInv, DoneOK, Done
<1>3. ASSUME NEW h \in Grounder, NEW x \in rows[h]
      PROVE  /\ x.id \in Requested /\ x \in Row
             /\ \A y \in rows[h] : y.id = x.id => x.from.run <= y.from.run
  <2>1. x.id \in Requested /\ x \in Row
    BY <1>2, FilesHold DEF Current
  <2>2. \A y \in rows[h] : y.id = x.id => y.from = x.from
    BY FilesHold DEF FilesOK, OneInference
  <2>3. x.from.run \in Nat
    BY <2>1, CacheAssumption DEF Row, Inference
  <2> QED BY <2>1, <2>2, <2>3
<1>4. merged' = all
  <2>1. ASSUME NEW z \in merged' PROVE z \in all
    BY <1>1
  <2>2. ASSUME NEW z \in all PROVE z \in merged'
    <3>1. PICK h \in Grounder : \E x \in rows[h] : z = [grounder |-> h, row |-> x]
      OBVIOUS
    <3>2. PICK x \in rows[h] : z = [grounder |-> h, row |-> x]
      BY <3>1
    <3>3. <<h, x>> \in Grounder \X UNION {rows[i] : i \in Grounder}
      OBVIOUS
    <3>4. /\ <<h, x>>[1] = h /\ <<h, x>>[2] = x /\ x.id \in Requested
          /\ \A other \in rows[h] :
                other.id = x.id /\ other.index = x.index => x.from.run <= other.from.run
      BY <1>3
    <3>5. [grounder |-> <<h, x>>[1], row |-> <<h, x>>[2]] \in merged'
      BY <1>1, <3>3, <3>4
    <3> QED BY <3>2, <3>4, <3>5
  <2> QED BY <2>1, <2>2
<1>5. merged' \in SUBSET [grounder: Grounder, row: Row]
  BY <1>3, <1>4
<1>6. CacheTypeOK'
  <2>1. files' \in Files
    BY <1>1, <1>5, FilesHold DEF files, Files
  <2> QED BY <1>1, <2>1 DEF CIInv, CacheTypeOK
<1>7. BatchOK'
  BY <1>1, NothingInMemory, NoBatchIsOK
<1>8. DoneOK'
  BY <1>1, <1>2, <1>4 DEF DoneOK, Done, Current, Requested, Marked
<1> QED BY <1>1, <1>6, <1>7, <1>8 DEF CIInv, MarkOK, WorkOK

LEMMA SettleHolds == ASSUME CIInv, Settle PROVE CIInv'
<1>1. /\ pc = "settle" /\ pc' = "returned" /\ settled' = invocation.manifest
      /\ UNCHANGED <<rows, marks, asked, merged, cleaned, snapshot, invocation, g, committed,
                     batch, written, runs, cacheFaults>>
  BY DEF Settle, memory
<1>2. invocation # None /\ invocation.manifest \in Manifests
  BY <1>1 DEF CIInv, CacheTypeOK, Invocation
<1>3. CacheTypeOK'
  <2>1. files' \in Files
    BY <1>1, <1>2, FilesHold DEF files, Files
  <2> QED BY <1>1, <2>1 DEF CIInv, CacheTypeOK
<1>4. BatchOK'
  BY <1>1, NothingInMemory, NoBatchIsOK
<1>5. DoneOK'
  BY <1>1 DEF CIInv, DoneOK, Done, Current, Requested, Marked
<1> QED BY <1>1, <1>2, <1>3, <1>4, <1>5 DEF CIInv, MarkOK, WorkOK

LEMMA CrashHolds == ASSUME CIInv, Crash PROVE CIInv'
<1>1. /\ pc' = "idle" /\ committed' = {} /\ batch' = NoBatch /\ written' = None
      /\ cacheFaults < MaxCacheFaults /\ cacheFaults' = cacheFaults + 1
      /\ UNCHANGED <<files, rows, marks, asked, merged, settled, cleaned, snapshot, invocation,
                     g, runs>>
  BY DEF Crash, CacheFault, Stop, files
<1>2. CacheTypeOK'
  BY <1>1, CacheAssumption DEF CIInv, CacheTypeOK, NoBatch
<1>3. BatchOK'
  BY <1>1, NoBatchIsOK
<1>4. DoneOK'
  BY <1>1 DEF DoneOK, Done
<1> QED BY <1>1, <1>2, <1>3, <1>4 DEF CIInv, MarkOK, WorkOK

LEMMA LoseNodeHolds == ASSUME CIInv, LoseNode PROVE CIInv'
<1>1. /\ pc' = "idle" /\ committed' = {} /\ batch' = NoBatch /\ written' = None
      /\ cacheFaults < MaxCacheFaults /\ cacheFaults' = cacheFaults + 1
      /\ rows' = snapshot[1] /\ marks' = snapshot[2] /\ asked' = snapshot[3]
      /\ merged' = snapshot[4] /\ settled' = snapshot[5] /\ cleaned' = snapshot[6]
      /\ UNCHANGED <<snapshot, invocation, g, runs>>
  BY DEF LoseNode, CacheFault, Stop
<1>2. CacheTypeOK'
  <2>1. snapshot \in Files
    BY DEF CIInv, CacheTypeOK
  <2>2. files' \in Files
    BY <1>1, <2>1 DEF files, Files
  <2> QED BY <1>1, <2>2, CacheAssumption DEF CIInv, CacheTypeOK, NoBatch
<1>3. BatchOK'
  BY <1>1, NoBatchIsOK
<1>4. DoneOK'
  BY <1>1 DEF DoneOK, Done
<1> QED BY <1>1, <1>2, <1>3, <1>4 DEF CIInv, MarkOK, WorkOK

LEMMA CleanMasksHolds == ASSUME CIInv, CleanMasks PROVE CIInv'
<1>1. PICK h \in Grounder : \E row \in rows[h] : cleaned' = cleaned \cup {row.from.run}
  BY DEF CleanMasks
<1>2. PICK x \in rows[h] : cleaned' = cleaned \cup {x.from.run}
  BY <1>1
<1>3. /\ pc \in {"idle", "returned"} /\ pc' = pc
      /\ cacheFaults < MaxCacheFaults /\ cacheFaults' = cacheFaults + 1
      /\ UNCHANGED <<rows, marks, asked, merged, settled, snapshot, invocation, g, committed,
                     batch, written, runs>>
  BY DEF CleanMasks, CacheFault, memory
<1>4. CacheTypeOK'
  <2>1. x.from.run \in 1..MaxRuns
    BY FilesHold DEF Row, Inference
  <2>2. cleaned' \in SUBSET (1..MaxRuns)
    BY <1>2, <2>1, FilesHold
  <2>3. files' \in Files
    BY <1>3, <2>2, FilesHold DEF files, Files
  <2>4. cacheFaults' \in 0..MaxCacheFaults
    BY <1>3, CacheAssumption DEF CIInv, CacheTypeOK
  <2> QED BY <1>3, <2>3, <2>4 DEF CIInv, CacheTypeOK
<1>5. BatchOK'
  BY <1>3, NothingInMemory, NoBatchIsOK
<1>6. DoneOK'
  <2>1. Done' = Done /\ Requested' = Requested
    BY <1>3 DEF Done, Requested
  <2> QED BY <1>3, <2>1 DEF CIInv, DoneOK, Current, Marked
<1> QED BY <1>3, <1>4, <1>5, <1>6 DEF CIInv, MarkOK, WorkOK

-----------------------------------------------------------------------------

LEMMA CacheInvariant == CacheSpec => []CIInv
<1>1. ASSUME CacheInit PROVE CIInv
  <2>1. rows = [h \in Grounder |-> {}] /\ marks = [h \in Grounder |-> {}]
        /\ asked = [h \in Grounder |-> None] /\ merged = None /\ settled = None /\ cleaned = {}
        /\ pc = "idle" /\ g = 1 /\ committed = {} /\ batch = NoBatch /\ written = None
        /\ invocation = None /\ runs = 0 /\ cacheFaults = 0 /\ snapshot = files
    BY <1>1 DEF CacheInit
  <2>2. CacheTypeOK
    <3>1. files \in Files
      <4>1. /\ rows \in [Grounder -> SUBSET Row] /\ marks \in [Grounder -> SUBSET Mark]
            /\ asked \in [Grounder -> Manifests \cup {None}]
        BY <2>1
      <4>2. /\ merged \in {None} /\ settled \in Manifests \cup {None}
            /\ cleaned \in SUBSET (1..MaxRuns)
        BY <2>1
      <4> QED BY <4>1, <4>2 DEF files, Files
    <3>2. g \in Grounder /\ batch \in [Id -> Inference \cup {None}]
      BY <2>1, CacheAssumption DEF Grounder, NoBatch
    <3> QED BY <2>1, <3>1, <3>2, CacheAssumption DEF CacheTypeOK
  <2>3. \A h \in Grounder : FilesOK(rows[h], marks[h], asked[h])
    BY <2>1 DEF FilesOK, OneInference, OneSetting
  <2>4. snapshot[1] = rows /\ snapshot[2] = marks /\ snapshot[3] = asked
    BY <2>1 DEF files
  <2> QED BY <2>1, <2>2, <2>3, <2>4 DEF CIInv, MarkOK, WorkOK, BatchOK, DoneOK, Done, NoBatch
<1>2. ASSUME CIInv, [CacheNext]_cacheVars PROVE CIInv'
  <2>1. CASE Work
    BY <1>2, <2>1, WriteOutputHolds, WriteProgressHolds, WriteRequestsHolds, InferHolds,
       AppendRowsHolds, AppendMarkHolds, EndGrounderHolds, MergeHolds, SettleHolds DEF Work
  <2>2. CASE UNCHANGED cacheVars
    <3>1. UNCHANGED <<rows, marks, asked, merged, settled, cleaned, snapshot, invocation, pc, g,
                      committed, batch, written, runs, cacheFaults>> /\ files' = files
      BY <2>2 DEF cacheVars, files, memory
    <3>2. Done' = Done /\ Requested' = Requested
      BY <3>1 DEF Done, Requested
    <3>4. CacheTypeOK'
      BY <1>2, <3>1 DEF CIInv, CacheTypeOK
    <3>5. MarkOK'
      BY <1>2, <3>1, <3>2 DEF CIInv, MarkOK, Current
    <3>6. WorkOK'
      BY <1>2, <3>1, <3>2 DEF CIInv, WorkOK, Current, MarkedOrWritten, Marked
    <3>7. BatchOK'
      BY <1>2, <3>1, <3>2 DEF CIInv, BatchOK, Marked
    <3>8. DoneOK'
      BY <1>2, <3>1, <3>2 DEF CIInv, DoneOK, Current, Marked
    <3> QED BY <1>2, <3>1, <3>4, <3>5, <3>6, <3>7, <3>8 DEF CIInv
  <2> QED BY <1>2, <2>1, <2>2, InvokeHolds, CrashHolds, LoseNodeHolds, CleanMasksHolds DEF CacheNext
<1> QED BY <1>1, <1>2, PTL DEF CacheSpec

(* However the files were left, a mark that reconcile would accept stands  *)
(* for the complete result of one inference on the query its id had, and   *)
(* what an invocation returns is for every grounder and request the rows   *)
(* of one inference on that request (common.py lines 127-157, cache.py     *)
(* lines 62-76).                                                           *)
THEOREM CachesAreSound == CacheSpec => []CacheInv
<1>1. ASSUME CIInv PROVE MarksAreWhole
  <2>1. ASSUME NEW h \in Grounder, NEW m \in marks[h], Usable(h, m, m.context)
        PROVE  /\ Whole(Unbound(Detections(h, m.id)), Prior(h)[m.id], m.context)
               /\ Cardinality(Detections(h, m.id)) = m.count
    <3>1. /\ FilesOK(rows[h], marks[h], asked[h]) /\ rows[h] \in SUBSET Row /\ m \in Mark
          /\ asked[h] \in Manifests \cup {None}
      BY <1>1, FilesHold
    <3>2. asked[h] # None /\ Prior(h) = asked[h]
      BY <3>1 DEF FilesOK, Prior
    <3>3. Detections(h, m.id) = {x \in rows[h] : x.id = m.id}
      BY <3>1, AllAreDetections DEF FilesOK
    <3>4. asked[h][m.id] # None /\ Cardinality({x \in rows[h] : x.id = m.id}) = m.count
      BY <2>1, <3>2, <3>3 DEF Usable
    <3>5. asked[h][m.id] \in Query
      <4>1. asked[h] \in [Id -> Query \cup {None}] /\ m.id \in Id
        BY <3>1, <3>2, CacheAssumption DEF Mark
      <4> QED BY <3>4, <4>1
    <3>6. \A x \in rows[h] : x.id = m.id =>
             x.from.query = asked[h][m.id] /\ x.from.context = m.context
      BY <3>1, <3>2, <3>4 DEF FilesOK, Matches
    <3>7. Whole(Unbound({x \in rows[h] : x.id = m.id}), asked[h][m.id], m.context)
      BY <3>1, <3>4, <3>5, <3>6, ResultIsWhole DEF FilesOK, OneSetting
    <3> QED BY <3>2, <3>3, <3>4, <3>7
  <2> QED BY <2>1 DEF MarksAreWhole
<1>2. ASSUME CIInv PROVE MergedIsSound
  <2> SUFFICES ASSUME pc = "returned" PROVE MergedIsSound
    BY DEF MergedIsSound
  <2>1. /\ \A h \in Grounder : Current(rows[h], marks[h]) /\ Requested \subseteq Marked(h)
        /\ merged = UNION {{[grounder |-> h, row |-> x] : x \in rows[h]} : h \in Grounder}
        /\ invocation \in Invocation
    BY <1>2, CacheAssumption DEF CIInv, CacheTypeOK, DoneOK, Done
  <2>2. ASSUME NEW h \in Grounder, NEW r \in Requested
        PROVE  {x.row : x \in {y \in merged : y.grounder = h /\ y.row.id = r}}
                  = {x \in rows[h] : x.id = r}
    <3>1. ASSUME NEW x \in rows[h], x.id = r
          PROVE  \E z \in {y \in merged : y.grounder = h /\ y.row.id = r} : x = z.row
      <4>1. [grounder |-> h, row |-> x] \in merged
        BY <2>1
      <4> QED BY <3>1, <4>1
    <3>2. ASSUME NEW z \in merged, z.grounder = h, z.row.id = r
          PROVE  z.row \in rows[h]
      BY <2>1, <3>2
    <3> QED BY <3>1, <3>2
  <2>3. ASSUME NEW h \in Grounder, NEW r \in Requested
        PROVE  LET found == {x \in rows[h] : x.id = r}
               IN  /\ Whole(Unbound(found), invocation.manifest[r], invocation.context)
                   /\ \E m \in marks[h] : m.id = r /\ m.count = Cardinality(found)
    <3>1. PICK m \in marks[h] : m.id = r
      BY <2>1 DEF Marked
    <3>2. /\ m \in Mark /\ rows[h] \in SUBSET Row /\ OneInference(rows[h])
          /\ m.count \in Sizes /\ MaxRuns > 0
      BY <1>2, FilesHold DEF FilesOK, OneSetting
    <3>3. /\ m.context = invocation.context /\ Cardinality({x \in rows[h] : x.id = m.id}) = m.count
          /\ \A x \in rows[h] : x.id = m.id =>
                x.from.query = invocation.manifest[m.id] /\ x.from.context = m.context
      BY <2>1 DEF Current
    <3>4. invocation.manifest[m.id] \in Query
      BY <2>1, <3>1, CacheAssumption DEF Requested, Invocation
    <3> QED BY <3>1, <3>2, <3>3, <3>4, ResultIsWhole
  <2>4. ASSUME NEW z \in merged PROVE z.row.id \in Requested
    BY <2>1 DEF Current
  <2>5. ASSUME NEW h \in Grounder, NEW r \in Requested
        PROVE  LET found == {x.row : x \in {y \in merged : y.grounder = h /\ y.row.id = r}}
               IN  /\ Whole(Unbound(found), invocation.manifest[r], invocation.context)
                   /\ \E m \in marks[h] : m.id = r /\ m.count = Cardinality(found)
    <3> DEFINE found == {x.row : x \in {y \in merged : y.grounder = h /\ y.row.id = r}}
               all == {x \in rows[h] : x.id = r}
    <3>1. found = all
      BY <2>2
    <3>2. /\ Whole(Unbound(all), invocation.manifest[r], invocation.context)
          /\ \E m \in marks[h] : m.id = r /\ m.count = Cardinality(all)
      BY <2>3
    <3> HIDE DEF found, all
    <3>3. /\ Whole(Unbound(found), invocation.manifest[r], invocation.context)
          /\ \E m \in marks[h] : m.id = r /\ m.count = Cardinality(found)
      BY <3>1, <3>2
    <3> QED BY <3>3 DEF found
  <2> QED BY <2>4, <2>5 DEF MergedIsSound
<1> QED BY <1>1, <1>2, CacheInvariant, PTL DEF CacheInv, CIInv

-----------------------------------------------------------------------------
(* What is cached, by the files alone.                                     *)

Good(R, C, m, context) ==
    /\ m.context = context /\ Cardinality({x \in R : x.id = m.id}) = m.count
    /\ \A x \in R : x.id = m.id => x.from.run \notin C

Stored(R, M, A, C, context) ==
    {q \in Query : A # None /\ \E m \in M : A[m.id] = q /\ Good(R, C, m, context)}

CachedIsStored ==
    \A h \in Grounder, context \in Contexts :
        Cached(h, context) = Stored(rows[h], marks[h], asked[h], cleaned, context)

LEMMA CachedByFiles == CIInv => CachedIsStored
<1> SUFFICES ASSUME CIInv, NEW h \in Grounder, NEW context \in Contexts
             PROVE  Cached(h, context) = Stored(rows[h], marks[h], asked[h], cleaned, context)
  BY DEF CachedIsStored
<1>1. /\ FilesOK(rows[h], marks[h], asked[h]) /\ rows[h] \in SUBSET Row /\ marks[h] \in SUBSET Mark
      /\ asked[h] \in Manifests \cup {None}
  BY FilesHold
<1>2. CASE asked[h] = None
  <2>1. marks[h] = {}
    BY <1>1, <1>2 DEF FilesOK
  <2> QED BY <1>2, <2>1 DEF Cached, Stored
<1>3. CASE asked[h] # None
  <2>1. Prior(h) = asked[h] /\ asked[h] \in [Id -> Query \cup {None}]
    BY <1>1, <1>3, CacheAssumption DEF Prior
  <2>2. \A m \in marks[h] : Detections(h, m.id) = {x \in rows[h] : x.id = m.id}
    BY <1>1, AllAreDetections DEF FilesOK
  <2>3. ASSUME NEW m \in marks[h]
        PROVE  Usable(h, m, context) <=>
                  asked[h][m.id] \in Query /\ Good(rows[h], cleaned, m, context)
    <3>1. m.id \in Id /\ (asked[h][m.id] # None <=> asked[h][m.id] \in Query)
      BY <1>1, <2>1, CacheAssumption DEF Mark
    <3> QED BY <1>3, <2>1, <2>2, <3>1 DEF Usable, Good
  <2>4. Cached(h, context) = {asked[h][m.id] : m \in {n \in marks[h] : Usable(h, n, context)}}
    BY <1>3, <2>1 DEF Cached
  <2>5. ASSUME NEW q \in Cached(h, context)
        PROVE  q \in Stored(rows[h], marks[h], asked[h], cleaned, context)
    <3>1. PICK m \in marks[h] : Usable(h, m, context) /\ q = asked[h][m.id]
      BY <2>4
    <3> QED BY <1>3, <2>3, <3>1 DEF Stored
  <2>6. ASSUME NEW q \in Stored(rows[h], marks[h], asked[h], cleaned, context)
        PROVE  q \in Cached(h, context)
    <3>1. PICK m \in marks[h] : asked[h][m.id] = q /\ Good(rows[h], cleaned, m, context)
      BY DEF Stored
    <3>2. q \in Query
      BY DEF Stored
    <3> QED BY <2>3, <2>4, <3>1, <3>2
  <2> QED BY <2>5, <2>6
<1> QED BY <1>2, <1>3

(* A step that drops no mark, adds no row to the id of one and leaves what *)
(* the ids stand for keeps what is cached, unless it is WriteOutput.       *)
LEMMA CacheStays ==
    ASSUME CIInv, CIInv', NEW h \in Grounder, Resumes(h), cleaned' = cleaned,
           rows[h] \subseteq rows'[h], marks[h] \subseteq marks'[h],
           \A x \in rows'[h] \ rows[h] : x.id \notin Marked(h),
           asked'[h] = asked[h] \/ asked'[h] = invocation.manifest,
           ~(pc' = "mark" /\ h = g') \/ (pc = "mark" /\ g' = g /\ committed' = committed)
    PROVE  Kept(h) \subseteq Kept(h)'
<1>1. invocation # None /\ invocation' = invocation /\ Prior(h) = invocation.manifest
  BY DEF Resumes
<1>2. invocation.context \in Contexts /\ invocation.manifest \in Manifests /\ invocation.manifest # None
  BY <1>1, CacheAssumption DEF CIInv, CacheTypeOK, Invocation
<1>3. Cached(h, invocation.context) = Stored(rows[h], marks[h], asked[h], cleaned, invocation.context)
  BY <1>2, CachedByFiles DEF CachedIsStored
<1>4. CIInv' => CachedIsStored'
  BY CachedByFiles, PTL
<1>5. Cached(h, invocation.context)'
         = Stored(rows'[h], marks'[h], asked'[h], cleaned, invocation.context)
  BY <1>1, <1>2, <1>4 DEF CachedIsStored
<1>6. ASSUME NEW q \in Stored(rows[h], marks[h], asked[h], cleaned, invocation.context)
      PROVE  q \in Stored(rows'[h], marks'[h], asked'[h], cleaned, invocation.context)
  <2>1. PICK m \in marks[h] : asked[h][m.id] = q /\ Good(rows[h], cleaned, m, invocation.context)
    BY DEF Stored
  <2>2. q \in Query /\ asked[h] # None
    BY DEF Stored
  <2>3. asked'[h] = asked[h]
    BY <1>1, <2>2 DEF Prior
  <2>4. {x \in rows'[h] : x.id = m.id} = {x \in rows[h] : x.id = m.id}
    <3>1. m.id \in Marked(h)
      BY DEF Marked
    <3> QED BY <3>1
  <2>5. Good(rows'[h], cleaned, m, invocation.context)
    BY <2>1, <2>4 DEF Good
  <2> QED BY <2>1, <2>2, <2>3, <2>5 DEF Stored
<1>7. Cached(h, invocation.context) \subseteq Query
  BY <1>3 DEF Stored
<1>8. Cached(h, invocation.context) \subseteq Cached(h, invocation.context)'
  BY <1>3, <1>5, <1>6
<1>9. CASE ~(pc' = "mark" /\ h = g')
  <2>1. Kept(h)' = Cached(h, invocation.context)' \cap Query
    BY <1>9 DEF Kept
  <2> QED BY <1>7, <1>8, <2>1 DEF Kept
<1>10. CASE pc' = "mark" /\ h = g' /\ pc = "mark" /\ g' = g /\ committed' = committed
  BY <1>1, <1>8, <1>10 DEF Kept
<1> QED BY <1>9, <1>10

(* The rewrite of the rows keeps, under the ids their marks are chosen     *)
(* from, all that the marks to come will commit.                           *)
LEMMA RewriteKeeps ==
    ASSUME NEW h, CIInv, CIInv', WriteOutput, h = g, Resumes(h)
    PROVE  Kept(h) \subseteq Kept(h)'
<1>1. PICK pick \in Picks(g) :
         /\ rows' = [rows EXCEPT ![g] = Rebound(g, pick)] /\ committed' = Recommitted(pick)
  BY DEF WriteOutput
<1>2. /\ pc = "reconcile" /\ pc' = "mark"
      /\ UNCHANGED <<marks, asked, cleaned, invocation, g>>
  BY DEF WriteOutput
<1>3. invocation # None /\ ~invocation.fresh /\ Prior(h) = invocation.manifest
  BY DEF Resumes
<1>4. invocation.context \in Contexts /\ rows'[g] = Rebound(g, pick) /\ marks[g] \subseteq Mark
  <2>1. invocation \in Invocation
    BY <1>3 DEF CIInv, CacheTypeOK
  <2> QED BY <1>1, <2>1, FilesHold DEF Invocation
<1>5. Cached(h, invocation.context) = Stored(rows[g], marks[g], asked[g], cleaned, invocation.context)
  BY <1>4, FilesHold, CachedByFiles DEF CachedIsStored
<1>6. Cached(h, invocation.context)'
         = Stored(rows'[g], marks[g], asked[g], cleaned, invocation.context)
  <2>1. CIInv' => CachedIsStored'
    BY CachedByFiles, PTL
  <2> QED BY <1>2, <1>4, <2>1, FilesHold DEF CachedIsStored
<1>7. ASSUME NEW q \in Cached(h, invocation.context)
      PROVE  /\ q \in Cached(h, invocation.context)'
             /\ \E m \in committed' : invocation.manifest[m.id] = q
  <2>1. q \in DOMAIN pick
    <3>1. PICK m \in marks[g] : Usable(g, m, invocation.context) /\ q = Prior(h)[m.id]
      BY DEF Cached
    <3>2. m \in Reusable(g)
      BY <1>3, <3>1 DEF Reusable
    <3> QED BY <3>1, <3>2 DEF Picks
  <2> DEFINE m == pick[q]
  <2>2. /\ m \in marks[g] /\ asked[g] # None /\ asked[g][m.id] = q /\ q # None
        /\ m.context = invocation.context
        /\ Cardinality({x \in rows[g] : x.id = m.id}) = m.count
    BY <2>1, Chosen
  <2>3. invocation.manifest[m.id] = q /\ m.id \in Id
    BY <1>3, <1>4, <2>2 DEF Prior, Mark
  <2>4. m.id \in Answered(pick)
    BY <2>1, <2>3 DEF Answered
  <2> DEFINE old == {x \in rows[g] : x.id = m.id}
             new == {x \in Rebound(g, pick) : x.id = m.id}
  <2>5. /\ new = {} <=> old = {}
        /\ \A x \in old : new = RowsOf(m.id, x.from) /\ old = RowsOf(m.id, x.from)
    BY <1>3, <2>3, <2>4, ReboundTo
  <2>6. new = old
    <3> HIDE DEF old, new
    <3> QED BY <2>5
  <2>7. \A x \in new : x.from.run \notin cleaned
    BY <1>3, ReboundIsWhole
  <2>8. Good(rows'[g], cleaned, m, invocation.context)
    <3>1. Cardinality(new) = m.count
      BY <2>2, <2>6
    <3> QED BY <1>4, <2>2, <2>7, <3>1 DEF Good
  <2>9. q \in Query
    BY <1>5 DEF Stored
  <2>10. q \in Cached(h, invocation.context)'
    BY <1>6, <2>2, <2>8, <2>9 DEF Stored
  <2>11. [id |-> m.id, count |-> pick[invocation.manifest[m.id]].count,
          context |-> invocation.context] \in committed'
    BY <1>1, <2>4 DEF Recommitted
  <2> QED BY <2>3, <2>10, <2>11
<1>8. Kept(h)' = Cached(h, invocation.context)' \cap {invocation.manifest[m.id] : m \in committed'}
  BY <1>2 DEF Kept
<1>9. Kept(h) = Cached(h, invocation.context) \cap Query
  BY <1>2 DEF Kept
<1> QED BY <1>7, <1>8, <1>9

LEMMA CommitKeeps ==
    ASSUME NEW h, CIInv, CIInv', WriteProgress, h = g, Resumes(h)
    PROVE  Kept(h) \subseteq Kept(h)'
<1>1. /\ pc = "mark" /\ pc' = "ask" /\ marks'[g] = committed
      /\ UNCHANGED <<rows, asked, cleaned, invocation, g>>
  BY FilesHold DEF WriteProgress, memory
<1>2. /\ invocation # None /\ Prior(h) = invocation.manifest /\ invocation.context \in Contexts
  <2>1. invocation # None /\ invocation \in Invocation
    BY DEF Resumes, CIInv, CacheTypeOK
  <2> QED BY <2>1 DEF Resumes, Invocation
<1>3. /\ Current(rows[g], committed) /\ \A x \in rows[g] : x.from.run \notin cleaned
      /\ \A m \in committed : asked[g] # None
  BY <1>1 DEF CIInv, MarkOK
<1>4. Cached(h, invocation.context) = Stored(rows[g], marks[g], asked[g], cleaned, invocation.context)
  BY <1>2, FilesHold, CachedByFiles DEF CachedIsStored
<1>5. Cached(h, invocation.context)'
         = Stored(rows[g], committed, asked[g], cleaned, invocation.context)
  <2>1. CIInv' => CachedIsStored'
    BY CachedByFiles, PTL
  <2> QED BY <1>1, <1>2, <2>1, FilesHold DEF CachedIsStored
<1>6. ASSUME NEW q \in Cached(h, invocation.context), NEW m \in committed,
             invocation.manifest[m.id] = q
      PROVE  q \in Cached(h, invocation.context)'
  <2>1. q \in Query
    BY <1>4 DEF Stored
  <2>2. asked[g] # None /\ asked[g][m.id] = q
    BY <1>2, <1>3, <1>6 DEF Prior
  <2>3. Good(rows[g], cleaned, m, invocation.context)
    BY <1>3 DEF Current, Good
  <2> QED BY <1>5, <2>1, <2>2, <2>3 DEF Stored
<1>7. Kept(h) = Cached(h, invocation.context) \cap {invocation.manifest[m.id] : m \in committed}
  BY <1>1 DEF Kept
<1>8. Kept(h)' = Cached(h, invocation.context)' \cap Query
  BY <1>1 DEF Kept
<1>9. Cached(h, invocation.context)' \subseteq Query
  BY <1>5 DEF Stored
<1> QED BY <1>6, <1>7, <1>8, <1>9

(* An invocation that resumes the same requests never loses what is        *)
(* cached, at any of its steps and wherever it dies, unless mask files are *)
(* removed (common.py lines 79-80, cache.py lines 62-76).                  *)
THEOREM ResumedWorkIsKept == CacheSpec => ResumeKeepsWork
<1>1. ASSUME CIInv, CIInv', [CacheNext]_cacheVars
      PROVE  \A h \in Grounder :
                Resumes(h) /\ cleaned' = cleaned /\ ~LoseNode => Kept(h) \subseteq Kept(h)'
  <2> SUFFICES ASSUME NEW h \in Grounder, Resumes(h), cleaned' = cleaned, ~LoseNode
               PROVE  Kept(h) \subseteq Kept(h)'
    OBVIOUS
  <2>1. CASE Invoke
    <3>1. pc' = "reconcile" /\ UNCHANGED <<rows, marks, asked>>
      BY <2>1 DEF Invoke, files
    <3> QED BY <1>1, <3>1, CacheStays
  <2>2. CASE WriteOutput
    <3>1. CASE h = g
      BY <1>1, <2>2, <3>1, RewriteKeeps
    <3>2. CASE h # g
      <4>1. UNCHANGED <<marks, asked, g>> /\ rows'[h] = rows[h]
        BY <1>1, <2>2, <3>2, FilesHold DEF WriteOutput
      <4> QED BY <1>1, <3>2, <4>1, CacheStays
    <3> QED BY <3>1, <3>2
  <2>3. CASE WriteProgress
    <3>1. CASE h = g
      BY <1>1, <2>3, <3>1, CommitKeeps
    <3>2. CASE h # g
      <4>1. UNCHANGED <<rows, asked>> /\ marks'[h] = marks[h] /\ pc' = "ask"
        BY <1>1, <2>3, <3>2, FilesHold DEF WriteProgress
      <4> QED BY <1>1, <4>1, CacheStays
    <3> QED BY <3>1, <3>2
  <2>4. CASE WriteRequests
    <3>1. UNCHANGED <<rows, marks>> /\ pc' = "work"
      BY <2>4 DEF WriteRequests
    <3>2. asked'[h] = asked[h] \/ asked'[h] = invocation.manifest
      BY <1>1, <2>4, FilesHold DEF WriteRequests
    <3> QED BY <1>1, <3>1, <3>2, CacheStays
  <2>5. CASE Infer
    <3>1. pc' = "work" /\ UNCHANGED <<rows, marks, asked>>
      BY <2>5 DEF Infer, files
    <3> QED BY <1>1, <3>1, CacheStays
  <2>6. ASSUME NEW r \in Id, AppendRows(r) PROVE Kept(h) \subseteq Kept(h)'
    <3>1. /\ pc = "work" /\ pc' = pc /\ UNCHANGED <<marks, asked>> /\ batch[r] # None
          /\ rows' = [rows EXCEPT ![g] = @ \cup RowsOf(r, batch[r])]
      BY <2>6 DEF AppendRows, RowsOf
    <3>2. /\ rows[h] \subseteq rows'[h]
          /\ \A x \in rows'[h] \ rows[h] : h = g /\ x.id = r
      BY <1>1, <3>1, FilesHold DEF RowsOf
    <3>3. r \notin Marked(g)
      BY <1>1, <3>1 DEF CIInv, BatchOK
    <3> QED BY <1>1, <3>1, <3>2, <3>3, CacheStays
  <2>7. ASSUME NEW r \in Id, AppendMark(r) PROVE Kept(h) \subseteq Kept(h)'
    <3>1. pc = "work" /\ pc' = pc /\ UNCHANGED <<rows, asked>>
      BY <2>7 DEF AppendMark
    <3>2. marks[h] \subseteq marks'[h]
      BY <1>1, <2>7, FilesHold DEF AppendMark
    <3> QED BY <1>1, <3>1, <3>2, CacheStays
  <2>8. CASE EndGrounder
    <3>1. pc' # "mark" /\ UNCHANGED <<rows, marks, asked>>
      BY <2>8 DEF EndGrounder, files
    <3> QED BY <1>1, <3>1, CacheStays
  <2>9. CASE Merge \/ Settle
    <3>1. pc' # "mark" /\ UNCHANGED <<rows, marks, asked>>
      BY <2>9 DEF Merge, Settle
    <3> QED BY <1>1, <3>1, CacheStays
  <2>10. CASE Crash
    <3>1. pc' = "idle" /\ UNCHANGED <<rows, marks, asked>>
      BY <2>10 DEF Crash, Stop, files
    <3> QED BY <1>1, <3>1, CacheStays
  <2>11. CASE CleanMasks
    <3>1. pc' # "mark" /\ UNCHANGED <<rows, marks, asked>>
      BY <2>11 DEF CleanMasks
    <3> QED BY <1>1, <3>1, CacheStays
  <2>12. CASE UNCHANGED cacheVars
    <3>1. UNCHANGED <<rows, marks, asked, pc, g, committed>>
      BY <2>12 DEF cacheVars, files, memory
    <3> QED BY <1>1, <3>1, CacheStays
  <2> QED BY <1>1, <2>1, <2>2, <2>3, <2>4, <2>5, <2>6, <2>7, <2>8, <2>9, <2>10, <2>11, <2>12
          DEF CacheNext, Work
<1> QED BY <1>1, CacheInvariant, PTL DEF CacheSpec, ResumeKeepsWork

=============================================================================
