------------------------------ MODULE QwenPool ------------------------------
(***************************************************************************)
(* How a stage asks Qwen (models/qwen38_client.py).  Threads of several    *)
(* processes share the services of a node.  A thread takes a ticket of the *)
(* least loaded ready service under a file lock, sends the request, gives  *)
(* the ticket back, tries again elsewhere when the service failed, and asks*)
(* anew when the answer does not validate.  The owner of a GPU drains a    *)
(* service under the same lock and takes it down when no ticket is left;   *)
(* that part is outside the repository and modelled from the comment at    *)
(* lines 72-73.                                                            *)
(***************************************************************************)
EXTENDS Naturals, FiniteSets

CONSTANTS
    Thread, Process,
    ProcessOf,     \* the process of a thread
    Endpoint,
    Fallback,      \* QWEN_TRANSPORT_API_BASE or api_base
    Reply,         \* kinds of replies that may come
    MaxAttempts,   \* max_attempts: answers asked for
    MaxScans,      \* bound on scans before the deadline of a reservation
    MaxCalls,      \* bound on calls of a thread
    MaxFaults,     \* bound on drains, deaths and crashes
    None

ReplyKinds == {"valid", "malformed", "contract", "unusable", "overflow", "rejected",
               "unavailable", "lost"}

Outcomes == {"answered", "invalid", "overflow", "fatal", "unreachable", "timeout"}

ASSUME ThreadsAssumption ==
    /\ ProcessOf \in [Thread -> Process] /\ None \notin Thread \cup Endpoint \cup Outcomes
    /\ Fallback \in Endpoint
    /\ "lost" \in Reply /\ Reply \subseteq ReplyKinds

ASSUME BoundsAssumption ==
    /\ MaxAttempts \in Nat \ {0} /\ MaxScans \in Nat \ {0}
    /\ MaxCalls \in Nat /\ MaxFaults \in Nat

MaxPosts == 3 \* retry_delays and the first attempt

VARIABLES
    pooled,    \* QWEN_NODE_POOL is set
    gated,     \* OPD_RESIDENT_POOL is set
    status,    \* status of services/<name>.json
    up,        \* services whose process is alive
    tickets,   \* reservations/<name>/*.json
    lock,      \* the holder of allocation.lock
    pc,        \* where the call of a thread is
    seen,      \* services a scan found ready, and the live tickets of each
    target,    \* the endpoint of the request
    leased,    \* it was reserved with a ticket
    excluded, posts, attempts, scans, outcome,   \* how the call ended
    calls, faults

environment == <<pooled, gated>>
services == <<environment, status, up>>
request == <<target, leased>>
counters == <<excluded, posts, attempts, scans>>
vars == <<services, tickets, lock, pc, seen, request, counters, outcome, calls, faults>>

Ticket == [endpoint : Endpoint, thread : Thread, state : {"live", "dead"}]

TypeOK ==
    /\ pooled \in BOOLEAN /\ gated \in BOOLEAN
    /\ status \in [Endpoint -> {"ready", "draining", "released"}]
    /\ up \subseteq Endpoint
    /\ tickets \subseteq Ticket
    /\ lock \in Thread \cup {None}
    /\ pc \in [Thread -> {"idle", "reserve", "scan", "choose", "wait", "post", "backoff"}]
    /\ \A t \in Thread : \E s \in SUBSET Endpoint : seen[t] \in [s -> Nat]
    /\ target \in [Thread -> Endpoint \cup {None}]
    /\ leased \in [Thread -> BOOLEAN]
    /\ excluded \in [Thread -> SUBSET Endpoint]
    /\ posts \in [Thread -> 0..MaxPosts] /\ attempts \in [Thread -> 0..MaxAttempts]
    /\ scans \in [Thread -> 0..MaxScans]
    /\ outcome \in [Thread -> Outcomes \cup {None}]
    /\ calls \in [Thread -> 0..MaxCalls] /\ faults \in 0..MaxFaults

NoneSeen == [e \in {} |-> 0]

Init ==
    /\ pooled \in BOOLEAN /\ gated \in BOOLEAN /\ (gated => pooled)
    /\ status = [e \in Endpoint |-> "ready"] /\ up = Endpoint
    /\ tickets = {} /\ lock = None
    /\ pc = [t \in Thread |-> "idle"]
    /\ seen = [t \in Thread |-> NoneSeen]
    /\ target = [t \in Thread |-> None] /\ leased = [t \in Thread |-> FALSE]
    /\ excluded = [t \in Thread |-> {}]
    /\ posts = [t \in Thread |-> 0] /\ attempts = [t \in Thread |-> 0]
    /\ scans = [t \in Thread |-> 0]
    /\ outcome = [t \in Thread |-> None]
    /\ calls = [t \in Thread |-> 0] /\ faults = 0

Go(t, place) == pc' = [pc EXCEPT ![t] = place]

-----------------------------------------------------------------------------
(* generate_json                                                            *)

Call(t) ==
    /\ pc[t] = "idle" /\ calls[t] < MaxCalls
    /\ calls' = [calls EXCEPT ![t] = @ + 1]
    /\ attempts' = [attempts EXCEPT ![t] = 1]
    /\ posts' = [posts EXCEPT ![t] = 0] /\ excluded' = [excluded EXCEPT ![t] = {}]
    /\ outcome' = [outcome EXCEPT ![t] = None]
    /\ scans' = [scans EXCEPT ![t] = 0]
    /\ Go(t, "reserve")
    /\ UNCHANGED <<services, tickets, lock, seen, request, faults>>

End(t, result) ==
    /\ outcome' = [outcome EXCEPT ![t] = result]
    /\ Go(t, "idle")

-----------------------------------------------------------------------------
(* _reserve_endpoint                                                        *)

Take(t, e, ticket) ==
    /\ target' = [target EXCEPT ![t] = e] /\ leased' = [leased EXCEPT ![t] = ticket]
    /\ posts' = [posts EXCEPT ![t] = @ + 1]
    /\ Go(t, "post")

WithoutPool(t) ==
    /\ pc[t] = "reserve" /\ ~pooled
    /\ Take(t, Fallback, FALSE)
    /\ UNCHANGED <<services, tickets, lock, seen, excluded, attempts, scans, outcome, calls, faults>>

Lock(t) ==
    /\ pc[t] = "reserve" /\ pooled /\ lock = None
    /\ lock' = t
    /\ Go(t, "scan")
    /\ UNCHANGED <<services, tickets, seen, request, counters, outcome,
                   calls, faults>>

LiveTickets(e) == {k \in tickets : k.endpoint = e /\ k.state = "live"}

\* mutant: a service counts as ready as long as its process lives
ScanAnyStatus(t) ==
    /\ pc[t] = "scan"
    /\ LET found == up \ excluded[t]
       IN  /\ tickets' = {k \in tickets : k.endpoint \in found => k.state = "live"}
           /\ seen' = [seen EXCEPT ![t] = [e \in found |-> Cardinality(LiveTickets(e))]]
    /\ scans' = [scans EXCEPT ![t] = @ + 1]
    /\ Go(t, "choose")
    /\ UNCHANGED <<services, lock, request, excluded, posts, attempts, outcome, calls, faults>>

\* Tickets of dead processes are removed on the way.
Scan(t) ==
    /\ pc[t] = "scan"
    /\ LET found == {e \in up \ excluded[t] : status[e] = "ready"}
       IN  /\ tickets' = {k \in tickets : k.endpoint \in found => k.state = "live"}
           /\ seen' = [seen EXCEPT ![t] = [e \in found |-> Cardinality(LiveTickets(e))]]
    /\ scans' = [scans EXCEPT ![t] = @ + 1]
    /\ Go(t, "choose")
    /\ UNCHANGED <<services, lock, request, excluded, posts, attempts, outcome, calls, faults>>

\* _metric_load, and the tickets found; one that does not answer comes last.
InFlight(e) == {t \in Thread : pc[t] = "post" /\ target[t] = e}
Load(t, e) ==
    IF e \in up THEN Cardinality(InFlight(e)) + seen[t][e]
    ELSE 2^20 + seen[t][e]

Choose(t) ==
    /\ pc[t] = "choose"
    /\ \E e \in DOMAIN seen[t] :
        /\ \A other \in DOMAIN seen[t] : Load(t, e) <= Load(t, other)
        /\ tickets' = tickets \cup {[endpoint |-> e, thread |-> t, state |-> "live"]}
        /\ Take(t, e, TRUE)
    /\ lock' = None /\ seen' = [seen EXCEPT ![t] = NoneSeen]
    /\ UNCHANGED <<services, excluded, attempts, scans, outcome,
                   calls, faults>>

\* mutant: the lock is kept while waiting
NoneReadyLocked(t) ==
    /\ pc[t] = "choose" /\ DOMAIN seen[t] = {}
    /\ lock' = IF gated THEN lock ELSE None
    /\ IF gated THEN Go(t, "wait") /\ UNCHANGED <<request, posts>>
       ELSE Take(t, Fallback, FALSE)
    /\ UNCHANGED <<services, tickets, seen, excluded, attempts, scans, outcome, calls, faults>>

NoneReady(t) ==
    /\ pc[t] = "choose" /\ DOMAIN seen[t] = {}
    /\ lock' = None
    /\ IF gated THEN Go(t, "wait") /\ UNCHANGED <<request, posts>>
       ELSE Take(t, Fallback, FALSE)
    /\ UNCHANGED <<services, tickets, seen, excluded, attempts, scans, outcome, calls, faults>>

ScanAgain(t) ==
    /\ pc[t] = "wait" /\ scans[t] < MaxScans
    /\ Go(t, "reserve")
    /\ UNCHANGED <<services, tickets, lock, seen, request, counters, outcome,
                   calls, faults>>

Deadline(t) ==
    /\ pc[t] = "wait"
    /\ End(t, "timeout")
    /\ UNCHANGED <<services, tickets, lock, seen, request, counters, calls,
                   faults>>

-----------------------------------------------------------------------------
(* _vllm_generate and what generate_json makes of the answer                *)

\* mutant: the ticket is not removed
LeaveTicket(t) ==
    /\ UNCHANGED tickets
    /\ target' = [target EXCEPT ![t] = None] /\ leased' = [leased EXCEPT ![t] = FALSE]

\* finally: the ticket is given back.
Leave(t) ==
    /\ tickets' = {k \in tickets : k.thread = t => k.state = "dead"}
    /\ target' = [target EXCEPT ![t] = None] /\ leased' = [leased EXCEPT ![t] = FALSE]

\* A transport error.  The ticket is kept while the thread sleeps.
Lost(t) ==
    /\ pc[t] = "post"
    /\ excluded' = [excluded EXCEPT ![t] = @ \cup {target[t]}]
    /\ IF posts[t] < MaxPosts
       THEN Go(t, "backoff") /\ UNCHANGED <<tickets, request, outcome>>
       ELSE End(t, "unreachable") /\ Leave(t)
    /\ UNCHANGED <<services, lock, seen, posts, attempts, scans, calls,
                   faults>>

Backoff(t) ==
    /\ pc[t] = "backoff"
    /\ Leave(t)
    /\ scans' = [scans EXCEPT ![t] = 0]
    /\ Go(t, "reserve")
    /\ UNCHANGED <<services, lock, seen, excluded, posts, attempts, outcome, calls, faults>>

\* A response; the ticket is given back before it is looked at.
Receive(t) == pc[t] = "post" /\ target[t] \in up /\ Leave(t)

\* mutant: a service that answers 503 is asked again
UnavailableAgain(t) ==
    /\ "unavailable" \in Reply /\ Receive(t)
    /\ UNCHANGED excluded
    /\ IF posts[t] < MaxPosts
       THEN /\ Go(t, "reserve") /\ scans' = [scans EXCEPT ![t] = 0] /\ UNCHANGED outcome
       ELSE End(t, "unreachable") /\ UNCHANGED scans
    /\ UNCHANGED <<services, lock, seen, posts, attempts, calls, faults>>

\* 500, 502, 503 and 504.
Unavailable(t) ==
    /\ "unavailable" \in Reply /\ Receive(t)
    /\ excluded' = [excluded EXCEPT ![t] = @ \cup {target[t]}]
    /\ IF posts[t] < MaxPosts
       THEN /\ Go(t, "reserve") /\ scans' = [scans EXCEPT ![t] = 0] /\ UNCHANGED outcome
       ELSE End(t, "unreachable") /\ UNCHANGED scans
    /\ UNCHANGED <<services, lock, seen, posts, attempts, calls, faults>>

\* An answer that can be corrected is asked for again with a fresh request.
Correctable(t, reply) ==
    /\ reply \in {"malformed", "contract"}
    /\ Receive(t)
    /\ IF attempts[t] < MaxAttempts
       THEN /\ attempts' = [attempts EXCEPT ![t] = @ + 1]
            /\ posts' = [posts EXCEPT ![t] = 0] /\ excluded' = [excluded EXCEPT ![t] = {}]
            /\ scans' = [scans EXCEPT ![t] = 0]
            /\ Go(t, "reserve") /\ UNCHANGED outcome
       ELSE End(t, "invalid") /\ UNCHANGED counters
    /\ UNCHANGED <<services, lock, seen, calls, faults>>

OutcomeOf(reply) ==
    CASE reply = "valid" -> "answered"
      [] reply = "overflow" -> "overflow"
      [] reply \in {"rejected", "unusable"} -> "fatal"

Final(t, reply) ==
    /\ reply \in {"valid", "overflow", "rejected", "unusable"}
    /\ Receive(t)
    /\ End(t, OutcomeOf(reply))
    /\ UNCHANGED <<services, lock, seen, counters, calls, faults>>

-----------------------------------------------------------------------------
(* The processes around the call                                            *)

Fault == faults < MaxFaults /\ faults' = faults + 1
Calls == <<seen, request, counters, outcome, calls>>

\* The process of a thread dies; a new one takes its place.
Crash(p) ==
    /\ Fault
    /\ pc' = [t \in Thread |-> IF ProcessOf[t] = p THEN "idle" ELSE pc[t]]
    /\ lock' = IF lock # None /\ ProcessOf[lock] = p THEN None ELSE lock
    /\ tickets' = {IF ProcessOf[k.thread] = p THEN [k EXCEPT !.state = "dead"] ELSE k :
                      k \in tickets}
    /\ seen' = [t \in Thread |-> IF ProcessOf[t] = p THEN NoneSeen ELSE seen[t]]
    /\ target' = [t \in Thread |-> IF ProcessOf[t] = p THEN None ELSE target[t]]
    /\ leased' = [t \in Thread |-> leased[t] /\ ProcessOf[t] # p]
    /\ UNCHANGED <<services, counters, outcome, calls>>

Die(e) ==
    /\ e \in up /\ Fault
    /\ up' = up \ {e}
    /\ UNCHANGED <<environment, status, tickets, lock, pc, Calls>>

\* qwen_pool.Service.drain
Drain(e) ==
    /\ status[e] = "ready" /\ lock = None /\ Fault
    /\ status' = [status EXCEPT ![e] = "draining"]
    /\ UNCHANGED <<environment, up, tickets, lock, pc, Calls>>

Release(e) ==
    /\ status[e] = "draining" /\ LiveTickets(e) = {}
    /\ status' = [status EXCEPT ![e] = "released"] /\ up' = up \ {e}
    /\ UNCHANGED <<environment, tickets, lock, pc, Calls, faults>>

Reopen(e) ==
    /\ status[e] = "released" /\ Fault
    /\ status' = [status EXCEPT ![e] = "ready"] /\ up' = up \cup {e}
    /\ UNCHANGED <<environment, tickets, lock, pc, Calls>>

Step(t) ==
    \/ WithoutPool(t) \/ Lock(t) \/ Scan(t) \/ Choose(t) \/ NoneReady(t)
    \/ ScanAgain(t) \/ Deadline(t)
    \/ Lost(t) \/ Backoff(t) \/ Unavailable(t)
    \/ \E reply \in Reply : Correctable(t, reply) \/ Final(t, reply)

Owner(e) == Die(e) \/ Drain(e) \/ Release(e) \/ Reopen(e)

Next ==
    \/ \E t \in Thread : Call(t) \/ Step(t)
    \/ \E p \in Process : Crash(p)
    \/ \E e \in Endpoint : Owner(e)

Spec == Init /\ [][Next]_vars

\* Threads go on; calls are few, so nobody can be kept from the lock for ever.
FairSpec == Spec /\ \A t \in Thread : WF_vars(Step(t))

-----------------------------------------------------------------------------
(* Properties.                                                              *)

\* The clients of a service that hold a ticket of it.
Users(e) == {t \in Thread : pc[t] \in {"post", "backoff"} /\ leased[t] /\ target[t] = e}

\* A ticket that counts belongs to a thread that is using the service, and a
\* thread that uses a service has one: none is left behind by an error, a
\* retry, a correction or the end of a call (lines 111 and 285-287).
TicketsMatchUse ==
    \A e \in Endpoint : {k.thread : k \in LiveTickets(e)} = Users(e)

\* With OPD_RESIDENT_POOL a service that has been taken down is not being asked
\* by anyone, whatever retries, deaths and scans happen meanwhile (lines 72-73
\* and 103-105).
GateHolds ==
    gated => \A e \in Endpoint : status[e] = "released" => InFlight(e) \cup Users(e) = {}

\* A request that failed is sent again to a service that has not failed in this
\* answer yet (lines 273, 290), and a call gives up only when three services
\* failed, when as many answers as allowed did not validate, or when no service
\* was ready until the deadline (lines 189, 252-253 and 281).
RetriesElsewhere(t) ==
    pc[t] = "post" =>
        /\ leased[t] => target[t] \notin excluded[t]
        /\ gated => Cardinality(excluded[t]) = posts[t] - 1

GivesUpOnlyExhausted(t) ==
    /\ outcome[t] = "unreachable" =>
        posts[t] = MaxPosts /\ (gated => Cardinality(excluded[t]) = MaxPosts)
    /\ outcome[t] = "invalid" => attempts[t] = MaxAttempts
    /\ outcome[t] = "timeout" => gated /\ posts[t] = Cardinality(excluded[t])

RetriesAreExhaustive ==
    \A t \in Thread : RetriesElsewhere(t) /\ GivesUpOnlyExhausted(t)

\* What holds in every state of the pool: tickets are in step with the use of the
\* services, the gate holds, and nobody gives up early.
PoolInv == TypeOK /\ TicketsMatchUse /\ GateHolds /\ RetriesAreExhaustive

\* The pool is a gate in front of every service.
UsersOf == [e \in Endpoint |-> Users(e)]
Gate == INSTANCE ServiceGate WITH Client <- Thread, Service <- Endpoint, users <- UsersOf

GateSpec == Gate!Spec

\* Every call ends, with an answer or an error.
CallsEnd == \A t \in Thread : pc[t] = "reserve" ~> pc[t] = "idle"
=============================================================================
