--------------------------- MODULE QwenPoolProofs ---------------------------
(***************************************************************************)
(* Proofs about QwenPool: tickets are in step with the use of services, a  *)
(* service that was taken down has no user, nobody gives up early, and the *)
(* pool implements ServiceGate.                                            *)
(***************************************************************************)
EXTENDS QwenPool, FiniteSetTheorems, TLAPS

Typed ==
    /\ TypeOK
    /\ DOMAIN seen = Thread
    /\ gated => pooled
    /\ IsFiniteSet(tickets)
    /\ \A t \in Thread : IsFiniteSet(excluded[t])

HasTicket(t, e) == [endpoint |-> e, thread |-> t, state |-> "live"] \in tickets
Uses(t, e) == pc[t] \in {"post", "backoff"} /\ leased[t] /\ target[t] = e

\* What a thread knows of its request: with the gate every request is leased, and
\* the services it has excluded are as many as the requests that failed.
RequestOK(t) ==
    /\ pc[t] \in {"post", "backoff"} => target[t] # None /\ (gated => leased[t])
    /\ pc[t] \notin {"post", "backoff"} => ~leased[t]
    /\ pc[t] \in {"reserve", "scan", "choose", "wait", "backoff"} =>
        posts[t] < MaxPosts /\ (gated => Cardinality(excluded[t]) = posts[t])
    /\ pc[t] = "post" => posts[t] >= 1
    /\ pc[t] \in {"reserve", "scan"} => scans[t] < MaxScans
    /\ pc[t] = "wait" => gated
    /\ outcome[t] # None => pc[t] = "idle"
    /\ RetriesElsewhere(t) /\ GivesUpOnlyExhausted(t)

\* What a scan found stays true as long as the thread has the lock.
SeenOK(t) ==
    pc[t] = "choose" => \A e \in DOMAIN seen[t] : status[e] = "ready" /\ e \notin excluded[t]

LockOK(t) ==
    /\ pc[t] \in {"scan", "choose"} <=> lock = t
    /\ lock = t => pooled

TicketsOK(t) ==
    \A e \in Endpoint :
        /\ HasTicket(t, e) <=> Uses(t, e)
        /\ HasTicket(t, e) => status[e] # "released"

ThreadOK(t) == RequestOK(t) /\ SeenOK(t) /\ LockOK(t) /\ TicketsOK(t)

IInv == Typed /\ \A t \in Thread : ThreadOK(t)

-----------------------------------------------------------------------------
(* What a step of one thread leaves alone                                   *)

View(t) == <<pc[t], seen[t], target[t], leased[t], excluded[t], posts[t], attempts[t],
             scans[t], outcome[t]>>

Others(t) ==
    /\ UNCHANGED <<environment, status>>
    /\ \A u \in Thread \ {t} :
        /\ View(u)' = View(u)
        /\ lock' = u <=> lock = u
        /\ \A e \in Endpoint : HasTicket(u, e)' <=> HasTicket(u, e)

LEMMA OthersKeep ==
    ASSUME IInv, NEW t \in Thread, Others(t), Typed', ThreadOK(t)'
    PROVE  IInv'
<1>1. ASSUME NEW u \in Thread \ {t}
      PROVE  ThreadOK(u)'
  <2>1. ThreadOK(u)
    BY DEF IInv
  <2>2. /\ pc'[u] = pc[u] /\ seen'[u] = seen[u] /\ target'[u] = target[u]
        /\ leased'[u] = leased[u] /\ excluded'[u] = excluded[u] /\ posts'[u] = posts[u]
        /\ attempts'[u] = attempts[u] /\ scans'[u] = scans[u] /\ outcome'[u] = outcome[u]
        /\ UNCHANGED <<pooled, gated, status>>
    BY DEF Others, View, environment
  <2>3. RequestOK(u)'
    BY <2>1, <2>2 DEF ThreadOK, RequestOK, RetriesElsewhere, GivesUpOnlyExhausted
  <2>4. SeenOK(u)' /\ LockOK(u)'
    BY <2>1, <2>2 DEF ThreadOK, SeenOK, LockOK, Others
  <2>5. TicketsOK(u)'
    BY <2>1, <2>2 DEF ThreadOK, TicketsOK, Uses, Others
  <2> QED BY <2>3, <2>4, <2>5 DEF ThreadOK
<1> QED BY <1>1 DEF IInv

LEMMA LeaveTakesTickets ==
    ASSUME Typed, NEW t \in Thread, Leave(t)
    PROVE  /\ \A e \in Endpoint : ~HasTicket(t, e)'
           /\ \A u \in Thread \ {t}, e \in Endpoint : HasTicket(u, e)' <=> HasTicket(u, e)
           /\ tickets' \subseteq Ticket /\ IsFiniteSet(tickets')
           /\ target' \in [Thread -> Endpoint \cup {None}] /\ leased' \in [Thread -> BOOLEAN]
           /\ target'[t] = None /\ leased'[t] = FALSE
           /\ \A u \in Thread \ {t} : target'[u] = target[u] /\ leased'[u] = leased[u]
<1>1. tickets' \subseteq tickets
  BY DEF Leave
<1>2. IsFiniteSet(tickets')
  BY <1>1, FS_Subset DEF Typed
<1> QED BY <1>1, <1>2 DEF Leave, HasTicket, Typed, TypeOK

\* With the gate the service that failed is not one that had failed before.
LEMMA FailureCounts ==
    ASSUME IInv, NEW t \in Thread, pc[t] = "post"
    PROVE  /\ excluded[t] \cup {target[t]} \in SUBSET Endpoint
           /\ IsFiniteSet(excluded[t] \cup {target[t]})
           /\ gated => Cardinality(excluded[t] \cup {target[t]}) = posts[t]
<1> DEFINE s == excluded[t]
           e == target[t]
<1>1. /\ e \in Endpoint /\ s \subseteq Endpoint /\ IsFiniteSet(s)
      /\ posts[t] \in Nat
      /\ gated => e \notin s /\ Cardinality(s) = posts[t] - 1
  BY DEF IInv, Typed, TypeOK, ThreadOK, RequestOK, RetriesElsewhere, MaxPosts
<1> HIDE DEF s, e
<1>2. /\ IsFiniteSet(s \cup {e})
      /\ e \notin s => Cardinality(s \cup {e}) = Cardinality(s) + 1
  BY <1>1, FS_AddElement
<1>3. /\ s \cup {e} \in SUBSET Endpoint /\ IsFiniteSet(s \cup {e})
      /\ gated => Cardinality(s \cup {e}) = posts[t]
  BY <1>1, <1>2
<1> QED BY <1>3 DEF s, e

LEMMA InitHolds == Init => IInv
<1> SUFFICES ASSUME Init PROVE IInv
  OBVIOUS
<1>1. Typed
  <2>1. \A t \in Thread : seen[t] \in [{} -> Nat]
    BY DEF Init, NoneSeen
  <2>2. TypeOK
    BY <2>1, BoundsAssumption DEF Init, TypeOK, MaxPosts
  <2> QED BY <2>2, FS_EmptySet DEF Init, Typed
<1>2. ASSUME NEW t \in Thread
      PROVE  ThreadOK(t)
  <2>1. RequestOK(t)
    BY ThreadsAssumption DEF Outcomes, Init, RequestOK, RetriesElsewhere, GivesUpOnlyExhausted
  <2>2. SeenOK(t) /\ LockOK(t)
    BY ThreadsAssumption DEF Init, SeenOK, LockOK
  <2>3. TicketsOK(t)
    BY DEF Init, TicketsOK, HasTicket, Uses
  <2> QED BY <2>1, <2>2, <2>3 DEF ThreadOK
<1> QED BY <1>1, <1>2 DEF IInv

-----------------------------------------------------------------------------
(* Steps of a thread                                                        *)

LEMMA CallKeeps ==
    ASSUME IInv, NEW t \in Thread, Call(t)
    PROVE  IInv'
<1>1. /\ pc[t] = "idle" /\ pc' = [pc EXCEPT ![t] = "reserve"]
      /\ calls[t] < MaxCalls /\ calls' = [calls EXCEPT ![t] = @ + 1]
      /\ attempts' = [attempts EXCEPT ![t] = 1] /\ posts' = [posts EXCEPT ![t] = 0]
      /\ excluded' = [excluded EXCEPT ![t] = {}] /\ scans' = [scans EXCEPT ![t] = 0]
      /\ outcome' = [outcome EXCEPT ![t] = None]
      /\ UNCHANGED <<pooled, gated, status, up, tickets, lock, seen, target, leased, faults>>
  BY DEF Call, Go, services, environment, request
<1>2. Typed'
  <2>1. TypeOK'
    BY <1>1, BoundsAssumption DEF IInv, Typed, TypeOK, MaxPosts
  <2> QED BY <1>1, <2>1, FS_EmptySet DEF IInv, Typed, TypeOK
<1>3. Others(t)
  BY <1>1 DEF IInv, Typed, TypeOK, Others, View, HasTicket, environment
<1>4. /\ pc'[t] = "reserve" /\ posts'[t] = 0 /\ excluded'[t] = {} /\ scans'[t] = 0
      /\ outcome'[t] = None
  BY <1>1 DEF IInv, Typed, TypeOK
<1>5. RequestOK(t)'
  <2>1. Cardinality({}) = 0
    BY FS_EmptySet
  <2>2. RetriesElsewhere(t)' /\ GivesUpOnlyExhausted(t)'
    BY <1>4, ThreadsAssumption DEF Outcomes, RetriesElsewhere, GivesUpOnlyExhausted
  <2>3. ~leased'[t]
    BY <1>1 DEF IInv, ThreadOK, RequestOK
  <2>4. 0 < MaxPosts /\ 0 < MaxScans
    BY BoundsAssumption DEF MaxPosts
  <2> QED BY <1>4, <2>1, <2>2, <2>3, <2>4 DEF RequestOK
<1>6. SeenOK(t)' /\ LockOK(t)' /\ TicketsOK(t)'
  BY <1>1, <1>4 DEF IInv, ThreadOK, SeenOK, LockOK, TicketsOK, HasTicket, Uses
<1> QED BY <1>2, <1>3, <1>5, <1>6, OthersKeep DEF ThreadOK

LEMMA WithoutPoolKeeps ==
    ASSUME IInv, NEW t \in Thread, WithoutPool(t)
    PROVE  IInv'
<1>1. /\ pc[t] = "reserve" /\ ~pooled /\ pc' = [pc EXCEPT ![t] = "post"]
      /\ target' = [target EXCEPT ![t] = Fallback] /\ leased' = [leased EXCEPT ![t] = FALSE]
      /\ posts' = [posts EXCEPT ![t] = @ + 1]
      /\ UNCHANGED <<pooled, gated, status, up, tickets, lock, seen, excluded, attempts, scans,
                     outcome, calls, faults>>
  BY DEF WithoutPool, Take, Go, services, environment
<1>2. /\ posts[t] \in Nat /\ posts[t] < MaxPosts /\ ~gated
  BY <1>1 DEF IInv, Typed, TypeOK, ThreadOK, RequestOK, MaxPosts
<1>3. Typed'
  <2>1. TypeOK'
    BY <1>1, <1>2, ThreadsAssumption DEF IInv, Typed, TypeOK, MaxPosts
  <2> QED BY <1>1, <2>1 DEF IInv, Typed
<1>4. Others(t)
  BY <1>1 DEF IInv, Typed, TypeOK, Others, View, HasTicket, environment
<1>5. /\ pc'[t] = "post" /\ posts'[t] = posts[t] + 1 /\ target'[t] = Fallback /\ leased'[t] = FALSE
  BY <1>1 DEF IInv, Typed, TypeOK
<1>6. RequestOK(t)'
  BY <1>1, <1>2, <1>5, ThreadsAssumption
     DEF IInv, ThreadOK, RequestOK, RetriesElsewhere, GivesUpOnlyExhausted
<1>7. SeenOK(t)' /\ LockOK(t)' /\ TicketsOK(t)'
  BY <1>1, <1>5 DEF IInv, ThreadOK, SeenOK, LockOK, TicketsOK, HasTicket, Uses
<1> QED BY <1>3, <1>4, <1>6, <1>7, OthersKeep DEF ThreadOK

LEMMA LockKeeps ==
    ASSUME IInv, NEW t \in Thread, Lock(t)
    PROVE  IInv'
<1>1. /\ pc[t] = "reserve" /\ pooled /\ lock = None /\ lock' = t
      /\ pc' = [pc EXCEPT ![t] = "scan"]
      /\ UNCHANGED <<pooled, gated, status, up, tickets, seen, target, leased, excluded, posts,
                     attempts, scans, outcome, calls, faults>>
  BY DEF Lock, Go, services, environment, request, counters
<1>2. Typed'
  <2>1. TypeOK'
    BY <1>1 DEF IInv, Typed, TypeOK
  <2> QED BY <1>1, <2>1 DEF IInv, Typed
<1>3. Others(t)
  BY <1>1, ThreadsAssumption DEF IInv, Typed, TypeOK, Others, View, HasTicket, environment
<1>4. pc'[t] = "scan"
  BY <1>1 DEF IInv, Typed, TypeOK
<1>5. RequestOK(t)'
  BY <1>1, <1>4 DEF IInv, ThreadOK, RequestOK, RetriesElsewhere, GivesUpOnlyExhausted
<1>6. SeenOK(t)' /\ LockOK(t)' /\ TicketsOK(t)'
  BY <1>1, <1>4 DEF IInv, ThreadOK, SeenOK, LockOK, TicketsOK, HasTicket, Uses
<1> QED BY <1>2, <1>3, <1>5, <1>6, OthersKeep DEF ThreadOK

LEMMA ScanKeeps ==
    ASSUME IInv, NEW t \in Thread, Scan(t)
    PROVE  IInv'
<1> DEFINE found == {e \in up \ excluded[t] : status[e] = "ready"}
           loads == [e \in found |-> Cardinality(LiveTickets(e))]
<1>1. /\ pc[t] = "scan" /\ pc' = [pc EXCEPT ![t] = "choose"]
      /\ tickets' = {k \in tickets : k.endpoint \in found => k.state = "live"}
      /\ seen' = [seen EXCEPT ![t] = loads] /\ scans' = [scans EXCEPT ![t] = @ + 1]
      /\ UNCHANGED <<pooled, gated, status, up, lock, target, leased, excluded, posts, attempts,
                     outcome, calls, faults>>
  BY DEF Scan, Go, services, environment, request
<1>2. found \subseteq Endpoint /\ loads \in [found -> Nat] /\ DOMAIN loads = found
  <2>1. \A e \in Endpoint : LiveTickets(e) \subseteq tickets
    BY DEF LiveTickets
  <2>2. \A e \in Endpoint : Cardinality(LiveTickets(e)) \in Nat
    BY <2>1, FS_Subset, FS_CardinalityType DEF IInv, Typed
  <2>3. found \subseteq Endpoint
    BY DEF IInv, Typed, TypeOK
  <2> QED BY <2>2, <2>3
<1>3. \A e \in found : status[e] = "ready" /\ e \notin excluded[t]
  OBVIOUS
<1> HIDE DEF found, loads
<1>4. tickets' \subseteq tickets /\ IsFiniteSet(tickets')
  <2>1. tickets' \subseteq tickets
    BY <1>1
  <2> QED BY <2>1, FS_Subset DEF IInv, Typed
<1>5. /\ pc'[t] = "choose" /\ seen'[t] = loads /\ DOMAIN seen' = Thread
      /\ \A u \in Thread \ {t} : pc'[u] = pc[u] /\ seen'[u] = seen[u] /\ scans'[u] = scans[u]
  BY <1>1 DEF IInv, Typed, TypeOK
<1>6. Typed'
  <2>1. scans' \in [Thread -> 0..MaxScans]
    BY <1>1, BoundsAssumption DEF IInv, Typed, TypeOK, ThreadOK, RequestOK
  <2>2. \A u \in Thread : \E s \in SUBSET Endpoint : seen'[u] \in [s -> Nat]
    BY <1>2, <1>5 DEF IInv, Typed, TypeOK
  <2>3. pc' \in [Thread -> {"idle", "reserve", "scan", "choose", "wait", "post", "backoff"}]
    BY <1>1 DEF IInv, Typed, TypeOK
  <2>4. TypeOK'
    BY <1>1, <1>4, <2>1, <2>2, <2>3 DEF IInv, Typed, TypeOK
  <2> QED BY <1>1, <1>4, <1>5, <2>4 DEF IInv, Typed
<1>7. \A u \in Thread, e \in Endpoint : HasTicket(u, e)' <=> HasTicket(u, e)
  BY <1>1 DEF HasTicket
<1>8. Others(t)
  BY <1>1, <1>5, <1>7 DEF Others, View, environment
<1>9. RequestOK(t)'
  BY <1>1, <1>5 DEF IInv, ThreadOK, RequestOK, RetriesElsewhere, GivesUpOnlyExhausted
<1>10. SeenOK(t)' /\ LockOK(t)' /\ TicketsOK(t)'
  BY <1>1, <1>2, <1>3, <1>5, <1>7 DEF IInv, ThreadOK, SeenOK, LockOK, TicketsOK, Uses
<1> QED BY <1>6, <1>8, <1>9, <1>10, OthersKeep DEF ThreadOK

LEMMA ChooseKeeps ==
    ASSUME IInv, NEW t \in Thread, Choose(t)
    PROVE  IInv'
<1>1. PICK e \in DOMAIN seen[t] :
        /\ tickets' = tickets \cup {[endpoint |-> e, thread |-> t, state |-> "live"]}
        /\ target' = [target EXCEPT ![t] = e] /\ leased' = [leased EXCEPT ![t] = TRUE]
        /\ posts' = [posts EXCEPT ![t] = @ + 1] /\ pc' = [pc EXCEPT ![t] = "post"]
  BY DEF Choose, Take, Go
<1>2. /\ pc[t] = "choose" /\ lock' = None /\ seen' = [seen EXCEPT ![t] = NoneSeen]
      /\ UNCHANGED <<pooled, gated, status, up, excluded, attempts, scans, outcome, calls, faults>>
  BY DEF Choose, services, environment
<1>3. /\ posts[t] \in Nat /\ posts[t] < MaxPosts /\ e \in Endpoint
      /\ status[e] = "ready" /\ e \notin excluded[t] /\ lock = t /\ pooled /\ ~leased[t]
      /\ gated => Cardinality(excluded[t]) = posts[t]
  BY <1>1, <1>2 DEF IInv, Typed, TypeOK, ThreadOK, RequestOK, SeenOK, LockOK, MaxPosts
<1>4. /\ pc'[t] = "post" /\ posts'[t] = posts[t] + 1 /\ target'[t] = e /\ leased'[t] = TRUE
      /\ DOMAIN seen' = Thread /\ seen'[t] = NoneSeen
      /\ \A u \in Thread \ {t} :
            /\ pc'[u] = pc[u] /\ posts'[u] = posts[u] /\ target'[u] = target[u]
            /\ leased'[u] = leased[u] /\ seen'[u] = seen[u]
  BY <1>1, <1>2 DEF IInv, Typed, TypeOK
<1>5. Typed'
  <2>1. tickets' \subseteq Ticket
    BY <1>1, <1>3 DEF IInv, Typed, TypeOK, Ticket
  <2>2. IsFiniteSet(tickets')
    BY <1>1, FS_AddElement DEF IInv, Typed
  <2>3. NoneSeen \in [{} -> Nat]
    BY DEF NoneSeen
  <2>4. \A u \in Thread : \E s \in SUBSET Endpoint : seen'[u] \in [s -> Nat]
    BY <1>4, <2>3 DEF IInv, Typed, TypeOK
  <2>5. /\ pc' \in [Thread -> {"idle", "reserve", "scan", "choose", "wait", "post", "backoff"}]
        /\ target' \in [Thread -> Endpoint \cup {None}] /\ leased' \in [Thread -> BOOLEAN]
    BY <1>1, <1>3 DEF IInv, Typed, TypeOK
  <2>6. posts' \in [Thread -> 0..MaxPosts]
    BY <1>1, <1>3 DEF IInv, Typed, TypeOK, MaxPosts
  <2>7. TypeOK'
    BY <1>2, <2>1, <2>4, <2>5, <2>6 DEF IInv, Typed, TypeOK
  <2> QED BY <1>2, <1>4, <2>2, <2>7 DEF IInv, Typed
<1>6. \A u \in Thread, f \in Endpoint :
        HasTicket(u, f)' <=> HasTicket(u, f) \/ (u = t /\ f = e)
  BY <1>1 DEF HasTicket
<1>7. Others(t)
  BY <1>2, <1>3, <1>4, <1>6, ThreadsAssumption DEF Others, View, environment
<1>8. RequestOK(t)'
  <2>1. outcome'[t] = None
    BY <1>2 DEF IInv, ThreadOK, RequestOK
  <2> QED BY <1>2, <1>3, <1>4, <2>1, ThreadsAssumption
          DEF Outcomes, RequestOK, RetriesElsewhere, GivesUpOnlyExhausted
<1>9. SeenOK(t)' /\ LockOK(t)'
  BY <1>2, <1>4, ThreadsAssumption DEF SeenOK, LockOK
<1>10. TicketsOK(t)'
  <2>1. \A f \in Endpoint : HasTicket(t, f)' <=> f = e
    BY <1>2, <1>6 DEF IInv, ThreadOK, TicketsOK, Uses
  <2> QED BY <1>2, <1>3, <1>4, <2>1 DEF TicketsOK, Uses
<1> QED BY <1>5, <1>7, <1>8, <1>9, <1>10, OthersKeep DEF ThreadOK

LEMMA NoneReadyKeeps ==
    ASSUME IInv, NEW t \in Thread, NoneReady(t)
    PROVE  IInv'
<1>1. /\ pc[t] = "choose" /\ lock' = None
      /\ UNCHANGED <<pooled, gated, status, up, tickets, seen, excluded, attempts, scans, outcome,
                     calls, faults>>
  BY DEF NoneReady, services, environment
<1>2. lock = t /\ posts[t] \in Nat /\ posts[t] < MaxPosts /\ ~leased[t] /\ outcome[t] = None
  BY <1>1 DEF IInv, Typed, TypeOK, ThreadOK, RequestOK, LockOK, MaxPosts
<1>3. CASE gated
  <2>1. pc' = [pc EXCEPT ![t] = "wait"] /\ UNCHANGED <<target, leased, posts>>
    BY <1>3 DEF NoneReady, Go, request
  <2>2. Typed'
    <3>1. TypeOK'
      BY <1>1, <2>1 DEF IInv, Typed, TypeOK
    <3> QED BY <1>1, <3>1 DEF IInv, Typed
  <2>3. Others(t)
    BY <1>1, <1>2, <2>1, ThreadsAssumption
       DEF IInv, Typed, TypeOK, Others, View, HasTicket, environment
  <2>4. pc'[t] = "wait"
    BY <2>1 DEF IInv, Typed, TypeOK
  <2>5. RequestOK(t)'
    BY <1>1, <1>2, <1>3, <2>1, <2>4
       DEF IInv, ThreadOK, RequestOK, RetriesElsewhere, GivesUpOnlyExhausted
  <2>6. SeenOK(t)' /\ LockOK(t)' /\ TicketsOK(t)'
    BY <1>1, <2>1, <2>4, ThreadsAssumption
       DEF IInv, ThreadOK, SeenOK, LockOK, TicketsOK, HasTicket, Uses
  <2> QED BY <2>2, <2>3, <2>5, <2>6, OthersKeep DEF ThreadOK
<1>4. CASE ~gated
  <2>1. /\ target' = [target EXCEPT ![t] = Fallback] /\ leased' = [leased EXCEPT ![t] = FALSE]
        /\ posts' = [posts EXCEPT ![t] = @ + 1] /\ pc' = [pc EXCEPT ![t] = "post"]
    BY <1>4 DEF NoneReady, Take, Go
  <2>2. Typed'
    <3>1. TypeOK'
      BY <1>1, <1>2, <2>1, ThreadsAssumption DEF IInv, Typed, TypeOK, MaxPosts
    <3> QED BY <1>1, <3>1 DEF IInv, Typed
  <2>3. Others(t)
    BY <1>1, <1>2, <2>1, ThreadsAssumption
       DEF IInv, Typed, TypeOK, Others, View, HasTicket, environment
  <2>4. /\ pc'[t] = "post" /\ posts'[t] = posts[t] + 1
        /\ target'[t] = Fallback /\ leased'[t] = FALSE
    BY <2>1 DEF IInv, Typed, TypeOK
  <2>5. RequestOK(t)'
    BY <1>1, <1>2, <1>4, <2>4, ThreadsAssumption
       DEF Outcomes, RequestOK, RetriesElsewhere, GivesUpOnlyExhausted
  <2>6. SeenOK(t)' /\ LockOK(t)' /\ TicketsOK(t)'
    BY <1>1, <1>2, <2>4, ThreadsAssumption
       DEF IInv, ThreadOK, SeenOK, LockOK, TicketsOK, HasTicket, Uses
  <2> QED BY <2>2, <2>3, <2>5, <2>6, OthersKeep DEF ThreadOK
<1> QED BY <1>3, <1>4

LEMMA WaitKeeps ==
    ASSUME IInv, NEW t \in Thread, ScanAgain(t) \/ Deadline(t)
    PROVE  IInv'
<1>1. /\ pc[t] = "wait"
      /\ \/ scans[t] < MaxScans /\ pc' = [pc EXCEPT ![t] = "reserve"] /\ UNCHANGED outcome
         \/ pc' = [pc EXCEPT ![t] = "idle"] /\ outcome' = [outcome EXCEPT ![t] = "timeout"]
      /\ UNCHANGED <<pooled, gated, status, up, tickets, lock, seen, target, leased, excluded,
                     posts, attempts, scans, calls, faults>>
  BY DEF ScanAgain, Deadline, End, Go, services, environment, request, counters
<1>2. Typed'
  <2>1. TypeOK'
    BY <1>1 DEF IInv, Typed, TypeOK, Outcomes
  <2> QED BY <1>1, <2>1 DEF IInv, Typed
<1>3. Others(t)
  BY <1>1 DEF IInv, Typed, TypeOK, Others, View, HasTicket, environment
<1>4. \/ scans[t] < MaxScans /\ pc'[t] = "reserve" /\ outcome'[t] = outcome[t]
      \/ pc'[t] = "idle" /\ outcome'[t] = "timeout"
  BY <1>1 DEF IInv, Typed, TypeOK
<1>5. RequestOK(t)'
  BY <1>1, <1>4 DEF IInv, ThreadOK, RequestOK, RetriesElsewhere, GivesUpOnlyExhausted
<1>6. SeenOK(t)' /\ LockOK(t)' /\ TicketsOK(t)'
  BY <1>1, <1>4 DEF IInv, ThreadOK, SeenOK, LockOK, TicketsOK, HasTicket, Uses
<1> QED BY <1>2, <1>3, <1>5, <1>6, OthersKeep DEF ThreadOK

LEMMA LostKeeps ==
    ASSUME IInv, NEW t \in Thread, Lost(t)
    PROVE  IInv'
<1> DEFINE failed == excluded[t] \cup {target[t]}
<1>1. /\ pc[t] = "post" /\ excluded' = [excluded EXCEPT ![t] = failed]
      /\ UNCHANGED <<pooled, gated, status, up, lock, seen, posts, attempts, scans, calls, faults>>
  BY DEF Lost, services, environment
<1>2. /\ failed \in SUBSET Endpoint /\ IsFiniteSet(failed)
      /\ gated => Cardinality(failed) = posts[t]
  BY <1>1, FailureCounts
<1> HIDE DEF failed
<1>3. /\ excluded'[t] = failed /\ excluded' \in [Thread -> SUBSET Endpoint]
      /\ \A u \in Thread \ {t} : excluded'[u] = excluded[u]
  BY <1>1, <1>2 DEF IInv, Typed, TypeOK
<1>4. CASE posts[t] < MaxPosts
  <2>1. pc' = [pc EXCEPT ![t] = "backoff"] /\ UNCHANGED <<tickets, target, leased, outcome>>
    BY <1>4 DEF Lost, Go, request
  <2>2. Typed'
    <3>1. TypeOK'
      BY <1>1, <1>3, <2>1 DEF IInv, Typed, TypeOK
    <3> QED BY <1>1, <1>2, <1>3, <2>1, <3>1 DEF IInv, Typed
  <2>3. Others(t)
    BY <1>1, <1>3, <2>1 DEF IInv, Typed, TypeOK, Others, View, HasTicket, environment
  <2>4. pc'[t] = "backoff"
    BY <2>1 DEF IInv, Typed, TypeOK
  <2>5. outcome[t] = None
    BY <1>1 DEF IInv, ThreadOK, RequestOK
  <2>6. RequestOK(t)'
    BY <1>1, <1>2, <1>3, <1>4, <2>1, <2>4, <2>5, ThreadsAssumption
       DEF Outcomes, IInv, ThreadOK, RequestOK, RetriesElsewhere, GivesUpOnlyExhausted
  <2>7. SeenOK(t)' /\ LockOK(t)' /\ TicketsOK(t)'
    BY <1>1, <2>1, <2>4 DEF IInv, ThreadOK, SeenOK, LockOK, TicketsOK, HasTicket, Uses
  <2> QED BY <2>2, <2>3, <2>6, <2>7, OthersKeep DEF ThreadOK
<1>5. CASE ~(posts[t] < MaxPosts)
  <2>1. /\ pc' = [pc EXCEPT ![t] = "idle"] /\ outcome' = [outcome EXCEPT ![t] = "unreachable"]
        /\ Leave(t)
    BY <1>5 DEF Lost, End, Go
  <2>2. Typed'
    <3>1. TypeOK'
      BY <1>1, <1>3, <2>1, LeaveTakesTickets DEF IInv, Typed, TypeOK, Outcomes
    <3> QED BY <1>1, <1>2, <1>3, <2>1, <3>1, LeaveTakesTickets DEF IInv, Typed
  <2>3. Others(t)
    BY <1>1, <1>3, <2>1, LeaveTakesTickets
       DEF IInv, Typed, TypeOK, Others, View, environment
  <2>4. pc'[t] = "idle" /\ outcome'[t] = "unreachable" /\ leased'[t] = FALSE
    BY <2>1, LeaveTakesTickets DEF IInv, Typed, TypeOK
  <2>5. posts[t] = MaxPosts
    BY <1>5 DEF IInv, Typed, TypeOK, MaxPosts
  <2>6. RequestOK(t)'
    BY <1>1, <1>2, <1>3, <2>4, <2>5
       DEF RequestOK, RetriesElsewhere, GivesUpOnlyExhausted
  <2>7. \A e \in Endpoint : ~HasTicket(t, e)'
    BY <2>1, LeaveTakesTickets DEF IInv
  <2>8. SeenOK(t)' /\ LockOK(t)' /\ TicketsOK(t)'
    BY <1>1, <2>4, <2>7 DEF IInv, ThreadOK, SeenOK, LockOK, TicketsOK, Uses
  <2> QED BY <2>2, <2>3, <2>6, <2>8, OthersKeep DEF ThreadOK
<1> QED BY <1>4, <1>5

LEMMA BackoffKeeps ==
    ASSUME IInv, NEW t \in Thread, Backoff(t)
    PROVE  IInv'
<1>1. /\ pc[t] = "backoff" /\ Leave(t) /\ pc' = [pc EXCEPT ![t] = "reserve"]
      /\ scans' = [scans EXCEPT ![t] = 0]
      /\ UNCHANGED <<pooled, gated, status, up, lock, seen, excluded, posts, attempts, outcome,
                     calls, faults>>
  BY DEF Backoff, Go, services, environment
<1>2. Typed'
  <2>1. scans' \in [Thread -> 0..MaxScans]
    BY <1>1, BoundsAssumption DEF IInv, Typed, TypeOK
  <2>2. pc' \in [Thread -> {"idle", "reserve", "scan", "choose", "wait", "post", "backoff"}]
    BY <1>1 DEF IInv, Typed, TypeOK
  <2>3. /\ tickets' \subseteq Ticket /\ IsFiniteSet(tickets')
        /\ target' \in [Thread -> Endpoint \cup {None}] /\ leased' \in [Thread -> BOOLEAN]
    BY <1>1, LeaveTakesTickets DEF IInv
  <2>4. TypeOK'
    BY <1>1, <2>1, <2>2, <2>3 DEF IInv, Typed, TypeOK
  <2> QED BY <1>1, <2>3, <2>4 DEF IInv, Typed
<1>3. Others(t)
  BY <1>1, LeaveTakesTickets DEF IInv, Typed, TypeOK, Others, View, environment
<1>4. /\ pc'[t] = "reserve" /\ scans'[t] = 0 /\ leased'[t] = FALSE
      /\ \A e \in Endpoint : ~HasTicket(t, e)'
  BY <1>1, LeaveTakesTickets DEF IInv, Typed, TypeOK
<1>5. RequestOK(t)'
  BY <1>1, <1>4, BoundsAssumption
     DEF IInv, ThreadOK, RequestOK, RetriesElsewhere, GivesUpOnlyExhausted
<1>6. SeenOK(t)' /\ LockOK(t)' /\ TicketsOK(t)'
  BY <1>1, <1>4 DEF IInv, ThreadOK, SeenOK, LockOK, TicketsOK, Uses
<1> QED BY <1>2, <1>3, <1>5, <1>6, OthersKeep DEF ThreadOK

LEMMA UnavailableKeeps ==
    ASSUME IInv, NEW t \in Thread, Unavailable(t)
    PROVE  IInv'
<1> DEFINE failed == excluded[t] \cup {target[t]}
<1>1. /\ pc[t] = "post" /\ Leave(t) /\ excluded' = [excluded EXCEPT ![t] = failed]
      /\ \/ /\ posts[t] < MaxPosts /\ pc' = [pc EXCEPT ![t] = "reserve"]
            /\ scans' = [scans EXCEPT ![t] = 0] /\ outcome' = outcome
         \/ /\ ~(posts[t] < MaxPosts) /\ pc' = [pc EXCEPT ![t] = "idle"]
            /\ outcome' = [outcome EXCEPT ![t] = "unreachable"] /\ scans' = scans
      /\ UNCHANGED <<pooled, gated, status, up, lock, seen, posts, attempts, calls, faults>>
  BY DEF Unavailable, Receive, End, Go, services, environment
<1>2. /\ failed \in SUBSET Endpoint /\ IsFiniteSet(failed)
      /\ gated => Cardinality(failed) = posts[t]
  BY <1>1, FailureCounts
<1> HIDE DEF failed
<1>3. /\ excluded'[t] = failed /\ excluded' \in [Thread -> SUBSET Endpoint]
      /\ \A u \in Thread \ {t} : excluded'[u] = excluded[u]
  BY <1>1, <1>2 DEF IInv, Typed, TypeOK
<1>4. /\ \A e \in Endpoint : ~HasTicket(t, e)'
      /\ \A u \in Thread \ {t}, e \in Endpoint : HasTicket(u, e)' <=> HasTicket(u, e)
      /\ tickets' \subseteq Ticket /\ IsFiniteSet(tickets')
      /\ target' \in [Thread -> Endpoint \cup {None}] /\ leased' \in [Thread -> BOOLEAN]
      /\ target'[t] = None /\ leased'[t] = FALSE
      /\ \A u \in Thread \ {t} : target'[u] = target[u] /\ leased'[u] = leased[u]
  BY <1>1, LeaveTakesTickets DEF IInv
<1>5. /\ scans' \in [Thread -> 0..MaxScans] /\ outcome' \in [Thread -> Outcomes \cup {None}]
      /\ pc' \in [Thread -> {"idle", "reserve", "scan", "choose", "wait", "post", "backoff"}]
  <2>1. scans' \in [Thread -> 0..MaxScans]
    BY <1>1, BoundsAssumption DEF IInv, Typed, TypeOK
  <2>2. outcome' \in [Thread -> Outcomes \cup {None}]
    BY <1>1 DEF IInv, Typed, TypeOK, Outcomes
  <2>3. pc' \in [Thread -> {"idle", "reserve", "scan", "choose", "wait", "post", "backoff"}]
    BY <1>1 DEF IInv, Typed, TypeOK
  <2> QED BY <2>1, <2>2, <2>3
<1>6. Typed'
  <2>1. TypeOK'
    BY <1>1, <1>3, <1>4, <1>5 DEF IInv, Typed, TypeOK
  <2> QED BY <1>1, <1>2, <1>3, <1>4, <2>1 DEF IInv, Typed
<1>7. \A u \in Thread \ {t} : pc'[u] = pc[u] /\ scans'[u] = scans[u] /\ outcome'[u] = outcome[u]
  BY <1>1 DEF IInv, Typed, TypeOK
<1>8. Others(t)
  BY <1>1, <1>3, <1>4, <1>7 DEF Others, View, environment
<1>9. outcome[t] = None /\ posts[t] \in 0..MaxPosts
  BY <1>1 DEF IInv, Typed, TypeOK, ThreadOK, RequestOK
<1>10. \/ posts[t] < MaxPosts /\ pc'[t] = "reserve" /\ scans'[t] = 0 /\ outcome'[t] = None
       \/ posts[t] = MaxPosts /\ pc'[t] = "idle" /\ outcome'[t] = "unreachable"
  BY <1>1, <1>9 DEF IInv, Typed, TypeOK, MaxPosts
<1>11. RequestOK(t)'
  BY <1>1, <1>2, <1>3, <1>4, <1>10, ThreadsAssumption, BoundsAssumption
     DEF Outcomes, RequestOK, RetriesElsewhere, GivesUpOnlyExhausted
<1>12. SeenOK(t)' /\ LockOK(t)' /\ TicketsOK(t)'
  BY <1>1, <1>4, <1>10 DEF IInv, ThreadOK, SeenOK, LockOK, TicketsOK, Uses
<1> QED BY <1>6, <1>8, <1>11, <1>12, OthersKeep DEF ThreadOK

LEMMA CorrectableKeeps ==
    ASSUME IInv, NEW t \in Thread, NEW reply \in Reply, Correctable(t, reply)
    PROVE  IInv'
<1>1. /\ pc[t] = "post" /\ Leave(t)
      /\ UNCHANGED <<pooled, gated, status, up, lock, seen, calls, faults>>
      /\ \/ /\ attempts[t] < MaxAttempts /\ attempts' = [attempts EXCEPT ![t] = @ + 1]
            /\ posts' = [posts EXCEPT ![t] = 0] /\ excluded' = [excluded EXCEPT ![t] = {}]
            /\ scans' = [scans EXCEPT ![t] = 0] /\ pc' = [pc EXCEPT ![t] = "reserve"]
            /\ outcome' = outcome
         \/ /\ ~(attempts[t] < MaxAttempts) /\ pc' = [pc EXCEPT ![t] = "idle"]
            /\ outcome' = [outcome EXCEPT ![t] = "invalid"]
            /\ UNCHANGED <<excluded, posts, attempts, scans>>
  BY DEF Correctable, Receive, End, Go, services, environment, counters
<1>2. /\ \A e \in Endpoint : ~HasTicket(t, e)'
      /\ \A u \in Thread \ {t}, e \in Endpoint : HasTicket(u, e)' <=> HasTicket(u, e)
      /\ tickets' \subseteq Ticket /\ IsFiniteSet(tickets')
      /\ target' \in [Thread -> Endpoint \cup {None}] /\ leased' \in [Thread -> BOOLEAN]
      /\ target'[t] = None /\ leased'[t] = FALSE
      /\ \A u \in Thread \ {t} : target'[u] = target[u] /\ leased'[u] = leased[u]
  BY <1>1, LeaveTakesTickets DEF IInv
<1>3. /\ scans' \in [Thread -> 0..MaxScans] /\ outcome' \in [Thread -> Outcomes \cup {None}]
      /\ pc' \in [Thread -> {"idle", "reserve", "scan", "choose", "wait", "post", "backoff"}]
      /\ excluded' \in [Thread -> SUBSET Endpoint]
  <2>1. scans' \in [Thread -> 0..MaxScans]
    BY <1>1, BoundsAssumption DEF IInv, Typed, TypeOK
  <2>2. outcome' \in [Thread -> Outcomes \cup {None}]
    BY <1>1 DEF IInv, Typed, TypeOK, Outcomes
  <2>3. pc' \in [Thread -> {"idle", "reserve", "scan", "choose", "wait", "post", "backoff"}]
    BY <1>1 DEF IInv, Typed, TypeOK
  <2>4. excluded' \in [Thread -> SUBSET Endpoint]
    BY <1>1 DEF IInv, Typed, TypeOK
  <2> QED BY <2>1, <2>2, <2>3, <2>4
<1>4. posts' \in [Thread -> 0..MaxPosts] /\ attempts' \in [Thread -> 0..MaxAttempts]
  BY <1>1, BoundsAssumption DEF IInv, Typed, TypeOK, MaxPosts
<1>5. \A u \in Thread : excluded'[u] = excluded[u] \/ excluded'[u] = {}
  BY <1>1 DEF IInv, Typed, TypeOK
<1>6. Typed'
  <2>1. TypeOK'
    BY <1>1, <1>2, <1>3, <1>4 DEF IInv, Typed, TypeOK
  <2>2. \A u \in Thread : IsFiniteSet(excluded'[u])
    BY <1>5, FS_EmptySet DEF IInv, Typed
  <2> QED BY <1>1, <1>2, <2>1, <2>2 DEF IInv, Typed
<1>7. \A u \in Thread \ {t} :
        /\ pc'[u] = pc[u] /\ scans'[u] = scans[u] /\ outcome'[u] = outcome[u]
        /\ excluded'[u] = excluded[u] /\ posts'[u] = posts[u] /\ attempts'[u] = attempts[u]
  BY <1>1 DEF IInv, Typed, TypeOK
<1>8. Others(t)
  BY <1>1, <1>2, <1>7 DEF Others, View, environment
<1>9. outcome[t] = None /\ attempts[t] \in 0..MaxAttempts
  BY <1>1 DEF IInv, Typed, TypeOK, ThreadOK, RequestOK
<1>10. \/ /\ pc'[t] = "reserve" /\ posts'[t] = 0 /\ excluded'[t] = {} /\ scans'[t] = 0
          /\ outcome'[t] = None
       \/ pc'[t] = "idle" /\ outcome'[t] = "invalid" /\ attempts'[t] = MaxAttempts
  <2>1. CASE attempts[t] < MaxAttempts
    BY <1>1, <1>9, <2>1 DEF IInv, Typed, TypeOK
  <2>2. CASE ~(attempts[t] < MaxAttempts)
    <3>1. attempts[t] = MaxAttempts
      BY <1>9, <2>2, BoundsAssumption
    <3>2. pc'[t] = "idle" /\ outcome'[t] = "invalid" /\ attempts'[t] = attempts[t]
      BY <1>1, <2>2 DEF IInv, Typed, TypeOK
    <3> QED BY <3>1, <3>2
  <2> QED BY <2>1, <2>2
<1>11. RequestOK(t)'
  <2>1. Cardinality({}) = 0 /\ 0 < MaxPosts /\ 0 < MaxScans
    BY FS_EmptySet, BoundsAssumption DEF MaxPosts
  <2> QED BY <1>2, <1>10, <2>1, ThreadsAssumption
          DEF Outcomes, RequestOK, RetriesElsewhere, GivesUpOnlyExhausted
<1>12. SeenOK(t)' /\ LockOK(t)' /\ TicketsOK(t)'
  BY <1>1, <1>2, <1>10 DEF IInv, ThreadOK, SeenOK, LockOK, TicketsOK, Uses
<1> QED BY <1>6, <1>8, <1>11, <1>12, OthersKeep DEF ThreadOK

LEMMA FinalKeeps ==
    ASSUME IInv, NEW t \in Thread, NEW reply \in Reply, Final(t, reply)
    PROVE  IInv'
<1>1. /\ pc[t] = "post" /\ Leave(t) /\ pc' = [pc EXCEPT ![t] = "idle"]
      /\ outcome' = [outcome EXCEPT ![t] = OutcomeOf(reply)]
      /\ OutcomeOf(reply) \in {"answered", "overflow", "fatal"}
      /\ UNCHANGED <<pooled, gated, status, up, lock, seen, excluded, posts, attempts, scans,
                     calls, faults>>
  BY DEF Final, Receive, End, Go, OutcomeOf, services, environment, counters
<1>2. Typed'
  <2>1. TypeOK'
    BY <1>1, LeaveTakesTickets DEF IInv, Typed, TypeOK, Outcomes
  <2> QED BY <1>1, <2>1, LeaveTakesTickets DEF IInv, Typed
<1>3. Others(t)
  BY <1>1, LeaveTakesTickets DEF IInv, Typed, TypeOK, Others, View, environment
<1>4. /\ leased'[t] = FALSE /\ \A e \in Endpoint : ~HasTicket(t, e)'
      /\ pc'[t] = "idle" /\ outcome'[t] \in {"answered", "overflow", "fatal"}
  BY <1>1, LeaveTakesTickets DEF IInv, Typed, TypeOK
<1>5. RequestOK(t)'
  BY <1>4 DEF RequestOK, RetriesElsewhere, GivesUpOnlyExhausted
<1>6. SeenOK(t)' /\ LockOK(t)' /\ TicketsOK(t)'
  BY <1>1, <1>4 DEF IInv, ThreadOK, SeenOK, LockOK, TicketsOK, Uses
<1> QED BY <1>2, <1>3, <1>5, <1>6, OthersKeep DEF ThreadOK
-----------------------------------------------------------------------------
(* Steps of the processes and of the owner of a service                     *)

\* The threads of the process that died.
Of(p) == {t \in Thread : ProcessOf[t] = p}

LEMMA CrashMarksTickets ==
    ASSUME IInv, NEW p \in Process, Crash(p)
    PROVE  /\ tickets' \subseteq Ticket /\ IsFiniteSet(tickets')
           /\ \A t \in Thread, e \in Endpoint :
                HasTicket(t, e)' <=> HasTicket(t, e) /\ t \notin Of(p)
<1> DEFINE After(k) == IF ProcessOf[k.thread] = p THEN [k EXCEPT !.state = "dead"] ELSE k
<1>1. tickets' = {After(k) : k \in tickets} /\ tickets \subseteq Ticket /\ IsFiniteSet(tickets)
  BY DEF Crash, IInv, Typed, TypeOK
<1>2. \A k \in Ticket :
        /\ After(k) \in Ticket /\ After(k).thread = k.thread
        /\ After(k).endpoint = k.endpoint
        /\ After(k).state = IF ProcessOf[k.thread] = p THEN "dead" ELSE k.state
        /\ ProcessOf[k.thread] # p => After(k) = k
  BY DEF Ticket
<1>3. IsFiniteSet(tickets')
  <2> DEFINE f == [k \in tickets |-> After(k)]
  <2>1. f \in Surjection(tickets, tickets')
    BY <1>1 DEF Surjection
  <2> QED BY <1>1, <2>1, FS_Surjection
<1> HIDE DEF After
<1>4. tickets' \subseteq Ticket
  BY <1>1, <1>2
<1>5. ASSUME NEW t \in Thread, NEW e \in Endpoint
      PROVE  HasTicket(t, e)' <=> HasTicket(t, e) /\ t \notin Of(p)
  <2> DEFINE r == [endpoint |-> e, thread |-> t, state |-> "live"]
  <2>1. r \in Ticket /\ r.thread = t /\ r.state = "live"
    BY DEF Ticket
  <2> HIDE DEF r
  <2>2. ASSUME r \in tickets'
        PROVE  r \in tickets /\ ProcessOf[t] # p
    <3>1. PICK k \in tickets : r = After(k)
      BY <1>1, <2>2
    <3> QED BY <1>1, <1>2, <2>1, <3>1
  <2>3. ASSUME r \in tickets, ProcessOf[t] # p
        PROVE  r \in tickets'
    BY <1>1, <1>2, <2>1, <2>3
  <2> QED BY <2>2, <2>3 DEF HasTicket, Of, r
<1> QED BY <1>3, <1>4, <1>5

LEMMA CrashKeeps ==
    ASSUME IInv, NEW p \in Process, Crash(p)
    PROVE  IInv'
<1>1. /\ faults < MaxFaults /\ faults' = faults + 1
      /\ pc' = [t \in Thread |-> IF ProcessOf[t] = p THEN "idle" ELSE pc[t]]
      /\ lock' = IF lock # None /\ ProcessOf[lock] = p THEN None ELSE lock
      /\ seen' = [t \in Thread |-> IF ProcessOf[t] = p THEN NoneSeen ELSE seen[t]]
      /\ target' = [t \in Thread |-> IF ProcessOf[t] = p THEN None ELSE target[t]]
      /\ leased' = [t \in Thread |-> leased[t] /\ ProcessOf[t] # p]
      /\ UNCHANGED <<pooled, gated, status, up, excluded, posts, attempts, scans, outcome, calls>>
  BY DEF Crash, Fault, services, environment, counters
<1>2. /\ tickets' \subseteq Ticket /\ IsFiniteSet(tickets')
      /\ \A t \in Thread, e \in Endpoint :
            HasTicket(t, e)' <=> HasTicket(t, e) /\ t \notin Of(p)
  BY CrashMarksTickets
<1>3. Typed'
  <2>1. NoneSeen \in [{} -> Nat]
    BY DEF NoneSeen
  <2>2. \A u \in Thread : \E s \in SUBSET Endpoint : seen'[u] \in [s -> Nat]
    BY <1>1, <2>1 DEF IInv, Typed, TypeOK
  <2>3. pc' \in [Thread -> {"idle", "reserve", "scan", "choose", "wait", "post", "backoff"}]
    BY <1>1 DEF IInv, Typed, TypeOK
  <2>4. target' \in [Thread -> Endpoint \cup {None}] /\ leased' \in [Thread -> BOOLEAN]
    BY <1>1 DEF IInv, Typed, TypeOK
  <2>5. lock' \in Thread \cup {None} /\ faults' \in 0..MaxFaults
    BY <1>1, BoundsAssumption DEF IInv, Typed, TypeOK
  <2>6. TypeOK'
    BY <1>1, <1>2, <2>2, <2>3, <2>4, <2>5 DEF IInv, Typed, TypeOK
  <2> QED BY <1>1, <1>2, <2>6 DEF IInv, Typed
<1>4. ASSUME NEW t \in Thread
      PROVE  ThreadOK(t)'
  <2>1. ThreadOK(t)
    BY DEF IInv
  <2>2. CASE ProcessOf[t] = p
    <3>1. pc'[t] = "idle" /\ leased'[t] = FALSE /\ lock' # t
      BY <1>1, <2>2, ThreadsAssumption
    <3>2. RequestOK(t)'
      BY <1>1, <2>1, <3>1 DEF ThreadOK, RequestOK, RetriesElsewhere, GivesUpOnlyExhausted
    <3>3. SeenOK(t)' /\ LockOK(t)' /\ TicketsOK(t)'
      BY <1>1, <1>2, <2>2, <3>1 DEF SeenOK, LockOK, TicketsOK, Uses, Of
    <3> QED BY <3>2, <3>3 DEF ThreadOK
  <2>3. CASE ProcessOf[t] # p
    <3>1. /\ pc'[t] = pc[t] /\ seen'[t] = seen[t] /\ target'[t] = target[t]
          /\ leased'[t] = leased[t] /\ (lock' = t <=> lock = t)
      BY <1>1, <2>3, ThreadsAssumption DEF IInv, Typed, TypeOK
    <3>2. RequestOK(t)'
      BY <1>1, <2>1, <3>1 DEF ThreadOK, RequestOK, RetriesElsewhere, GivesUpOnlyExhausted
    <3>3. SeenOK(t)' /\ LockOK(t)'
      BY <1>1, <2>1, <3>1 DEF ThreadOK, SeenOK, LockOK
    <3>4. TicketsOK(t)'
      BY <1>1, <1>2, <2>1, <2>3, <3>1 DEF ThreadOK, TicketsOK, Uses, Of
    <3> QED BY <3>2, <3>3, <3>4 DEF ThreadOK
  <2> QED BY <2>2, <2>3
<1> QED BY <1>3, <1>4 DEF IInv

\* The owner of a service changes nothing a thread knows; only what a ticket and a
\* scan say of the status has to be shown again.
LEMMA OwnerKeeps ==
    ASSUME IInv, NEW e \in Endpoint, Owner(e)
    PROVE  IInv'
<1>1. /\ UNCHANGED <<pooled, gated, tickets, lock, pc, seen, target, leased, excluded, posts,
                     attempts, scans, outcome, calls>>
      /\ up' \subseteq Endpoint /\ faults' \in 0..MaxFaults
      /\ status' \in [Endpoint -> {"ready", "draining", "released"}]
  BY BoundsAssumption
     DEF Owner, Die, Drain, Release, Reopen, Fault, Calls, environment, request, counters,
         IInv, Typed, TypeOK
<1>2. Typed'
  <2>1. TypeOK'
    BY <1>1 DEF IInv, Typed, TypeOK
  <2> QED BY <1>1, <2>1 DEF IInv, Typed
<1>3. ASSUME NEW t \in Thread
      PROVE  SeenOK(t)' /\ TicketsOK(t)'
  <2>1. SeenOK(t) /\ TicketsOK(t) /\ LockOK(t)
    BY DEF IInv, ThreadOK
  <2>2. \A f \in Endpoint : HasTicket(t, f)' <=> HasTicket(t, f)
    BY <1>1 DEF HasTicket
  <2>3. CASE Die(e)
    BY <1>1, <2>1, <2>2, <2>3 DEF Die, SeenOK, TicketsOK, Uses
  <2>4. CASE Drain(e)
    <3>1. lock = None /\ status' = [status EXCEPT ![e] = "draining"]
      BY <2>4 DEF Drain
    <3>2. pc'[t] # "choose"
      BY <1>1, <2>1, <3>1, ThreadsAssumption DEF LockOK
    <3>3. \A f \in Endpoint : status'[f] = "released" => status[f] = "released"
      BY <3>1 DEF IInv, Typed, TypeOK
    <3> QED BY <1>1, <2>1, <2>2, <3>2, <3>3 DEF SeenOK, TicketsOK, Uses
  <2>5. CASE Release(e)
    <3>1. /\ status[e] = "draining" /\ LiveTickets(e) = {}
          /\ status' = [status EXCEPT ![e] = "released"]
      BY <2>5 DEF Release
    <3>2. ~HasTicket(t, e)
      BY <3>1 DEF HasTicket, LiveTickets
    <3>3. \A f \in Endpoint \ {e} : status'[f] = status[f]
      BY <3>1 DEF IInv, Typed, TypeOK
    <3>4. TicketsOK(t)'
      BY <1>1, <2>1, <2>2, <3>2, <3>3 DEF TicketsOK, Uses
    <3>5. pc[t] = "choose" => DOMAIN seen[t] \subseteq Endpoint \ {e}
      BY <2>1, <3>1 DEF SeenOK, IInv, Typed, TypeOK
    <3> QED BY <1>1, <2>1, <3>3, <3>4, <3>5 DEF SeenOK
  <2>6. CASE Reopen(e)
    <3>1. status[e] = "released" /\ status' = [status EXCEPT ![e] = "ready"]
      BY <2>6 DEF Reopen
    <3>2. \A f \in Endpoint : status'[f] = status[f] \/ status'[f] = "ready"
      BY <3>1 DEF IInv, Typed, TypeOK
    <3>3. TicketsOK(t)'
      BY <1>1, <2>1, <2>2, <3>2 DEF TicketsOK, Uses
    <3>4. DOMAIN seen[t] \subseteq Endpoint
      BY DEF IInv, Typed, TypeOK
    <3> QED BY <1>1, <2>1, <3>2, <3>3, <3>4 DEF SeenOK
  <2> QED BY <2>3, <2>4, <2>5, <2>6 DEF Owner
<1>4. ASSUME NEW t \in Thread
      PROVE  RequestOK(t)' /\ LockOK(t)'
  BY <1>1
     DEF IInv, ThreadOK, RequestOK, LockOK, RetriesElsewhere, GivesUpOnlyExhausted
<1> QED BY <1>2, <1>3, <1>4 DEF IInv, ThreadOK

LEMMA NextKeeps == IInv /\ [Next]_vars => IInv'
<1> SUFFICES ASSUME IInv, [Next]_vars PROVE IInv'
  OBVIOUS
<1>1. ASSUME NEW t \in Thread, Call(t) \/ Step(t)
      PROVE  IInv'
  BY <1>1, CallKeeps, WithoutPoolKeeps, LockKeeps, ScanKeeps, ChooseKeeps, NoneReadyKeeps,
     WaitKeeps, LostKeeps, BackoffKeeps, UnavailableKeeps, CorrectableKeeps, FinalKeeps
     DEF Step
<1>2. CASE UNCHANGED vars
  <2>1. UNCHANGED <<pooled, gated, status, up, tickets, lock, pc, seen, target, leased, excluded,
                    posts, attempts, scans, outcome, calls, faults>>
    BY <1>2 DEF vars, services, environment, request, counters
  <2>2. Typed'
    BY <2>1 DEF IInv, Typed, TypeOK
  <2>3. \A t \in Thread : ThreadOK(t)'
    BY <2>1 DEF IInv, ThreadOK, RequestOK, SeenOK, LockOK, TicketsOK, HasTicket, Uses,
                RetriesElsewhere, GivesUpOnlyExhausted
  <2> QED BY <2>2, <2>3 DEF IInv
<1> QED BY <1>1, <1>2, CrashKeeps, OwnerKeeps DEF Next

LEMMA InvariantHolds == Spec => []IInv
<1> QED BY InitHolds, NextKeeps, PTL DEF Spec

-----------------------------------------------------------------------------
(* The results                                                              *)

LEMMA TicketsAreInStep ==
    ASSUME IInv
    PROVE  TicketsMatchUse
<1> SUFFICES ASSUME NEW e \in Endpoint
             PROVE  {k.thread : k \in LiveTickets(e)} = Users(e)
  BY DEF TicketsMatchUse
<1>1. ASSUME NEW k \in LiveTickets(e)
      PROVE  k.thread \in Users(e)
  <2>1. k \in tickets /\ k.endpoint = e /\ k.state = "live" /\ k \in Ticket
    BY DEF LiveTickets, IInv, Typed, TypeOK
  <2>2. k.thread \in Thread /\ k = [endpoint |-> e, thread |-> k.thread, state |-> "live"]
    BY <2>1 DEF Ticket
  <2>3. HasTicket(k.thread, e)
    BY <2>1, <2>2 DEF HasTicket
  <2>4. TicketsOK(k.thread)
    BY <2>2 DEF IInv, ThreadOK
  <2> QED BY <2>2, <2>3, <2>4 DEF TicketsOK, Uses, Users
<1>2. ASSUME NEW t \in Users(e)
      PROVE  \E k \in LiveTickets(e) : k.thread = t
  <2>1. t \in Thread /\ Uses(t, e)
    BY DEF Users, Uses
  <2>2. HasTicket(t, e)
    BY <2>1 DEF IInv, ThreadOK, TicketsOK
  <2> QED BY <2>2 DEF HasTicket, LiveTickets
<1> QED BY <1>1, <1>2

\* With the gate every request is leased, so whoever asks a service holds a ticket
\* of it, and no ticket is of a service that was taken down.
LEMMA NobodyBehindTheGate ==
    ASSUME IInv
    PROVE  GateHolds
<1> SUFFICES ASSUME gated, NEW e \in Endpoint, status[e] = "released"
             PROVE  InFlight(e) \cup Users(e) = {}
  BY DEF GateHolds
<1>1. ASSUME NEW t \in Thread
      PROVE  ~Uses(t, e)
  BY DEF IInv, ThreadOK, TicketsOK
<1>2. InFlight(e) = {}
  BY <1>1 DEF InFlight, Uses, IInv, ThreadOK, RequestOK
<1>3. Users(e) = {}
  BY <1>1 DEF Users, Uses
<1> QED BY <1>2, <1>3

\* In every state tickets are in step with the use of the services, with the gate
\* nobody asks a service that was taken down, and nobody gives up early
\* (qwen38_client.py lines 72-111, 189, 252-253, 273-290): for any threads,
\* processes, services and bounds.
THEOREM PoolIsInStep == Spec => []PoolInv
<1>1. IInv => PoolInv
  BY TicketsAreInStep, NobodyBehindTheGate
     DEF PoolInv, RetriesAreExhaustive, IInv, Typed, ThreadOK, RequestOK
<1> QED BY <1>1, InvariantHolds, PTL

-----------------------------------------------------------------------------
(* The pool implements ServiceGate                                          *)

\* Who uses a service is who has a ticket of it.
LEMMA UsersHaveTickets ==
    ASSUME IInv, IInv'
    PROVE  /\ UsersOf = [e \in Endpoint |-> {t \in Thread : HasTicket(t, e)}]
           /\ UsersOf' = [e \in Endpoint |-> {t \in Thread : HasTicket(t, e)'}]
<1>1. \A t \in Thread, e \in Endpoint : Uses(t, e) <=> HasTicket(t, e)
  BY DEF IInv, ThreadOK, TicketsOK
<1>2. \A t \in Thread, e \in Endpoint : Uses(t, e)' <=> HasTicket(t, e)'
  BY DEF IInv, ThreadOK, TicketsOK
<1>3. \A e \in Endpoint : Users(e) = {t \in Thread : HasTicket(t, e)}
  BY <1>1 DEF Users, Uses
<1>4. \A e \in Endpoint : Users(e)' = {t \in Thread : HasTicket(t, e)'}
  BY <1>2 DEF Users, Uses
<1> QED BY <1>3, <1>4 DEF UsersOf

LEMMA GateInit == Init => Gate!Init
<1> SUFFICES ASSUME Init PROVE Gate!Init
  OBVIOUS
<1>1. \A e \in Endpoint : Users(e) = {}
  BY DEF Init, Users
<1> QED BY <1>1 DEF Init, Gate!Init, UsersOf

\* Clients that give their tickets back leave the services.
LEMMA TicketsGivenBack ==
    ASSUME IInv, IInv', NEW gone \in SUBSET Thread, UNCHANGED status,
           \A t \in Thread, e \in Endpoint :
               HasTicket(t, e)' <=> HasTicket(t, e) /\ t \notin gone
    PROVE  Gate!Next
<1>1. UsersOf' = [e \in Endpoint |-> UsersOf[e] \ gone]
  BY UsersHaveTickets
<1> QED BY <1>1 DEF Gate!Next, Gate!Leave

LEMMA LeaveMaps ==
    ASSUME IInv, IInv', NEW t \in Thread, Leave(t), UNCHANGED status
    PROVE  Gate!Next
<1>1. /\ \A e \in Endpoint : ~HasTicket(t, e)'
      /\ \A u \in Thread \ {t}, e \in Endpoint : HasTicket(u, e)' <=> HasTicket(u, e)
  BY LeaveTakesTickets DEF IInv
<1>2. \A u \in Thread, e \in Endpoint : HasTicket(u, e)' <=> HasTicket(u, e) /\ u \notin {t}
  BY <1>1
<1> QED BY <1>2, TicketsGivenBack

\* Steps that take and give back no ticket are invisible.
LEMMA NoTicketStutters ==
    ASSUME IInv, IInv', UNCHANGED status,
           \A t \in Thread, e \in Endpoint : HasTicket(t, e)' <=> HasTicket(t, e)
    PROVE  UNCHANGED Gate!vars
<1>1. UsersOf' = UsersOf
  BY UsersHaveTickets
<1> QED BY <1>1 DEF Gate!vars

LEMMA ChooseMaps ==
    ASSUME IInv, IInv', NEW t \in Thread, Choose(t)
    PROVE  Gate!Next
<1>1. PICK e \in DOMAIN seen[t] :
        tickets' = tickets \cup {[endpoint |-> e, thread |-> t, state |-> "live"]}
  BY DEF Choose
<1>2. e \in Endpoint /\ status[e] = "ready" /\ UNCHANGED status
  BY <1>1 DEF Choose, services, IInv, Typed, TypeOK, ThreadOK, SeenOK
<1>3. \A u \in Thread, f \in Endpoint :
        HasTicket(u, f)' <=> HasTicket(u, f) \/ (u = t /\ f = e)
  BY <1>1 DEF HasTicket
<1>4. UsersOf' = [UsersOf EXCEPT ![e] = @ \cup {t}]
  <2>1. /\ {u \in Thread : HasTicket(u, e)'} = {u \in Thread : HasTicket(u, e)} \cup {t}
        /\ \A f \in Endpoint \ {e} :
              {u \in Thread : HasTicket(u, f)'} = {u \in Thread : HasTicket(u, f)}
    BY <1>2, <1>3
  <2> QED BY <1>2, <2>1, UsersHaveTickets
<1> QED BY <1>2, <1>4 DEF Gate!Next, Gate!Enter

LEMMA ScanMaps ==
    ASSUME IInv, IInv', NEW t \in Thread, Scan(t)
    PROVE  UNCHANGED Gate!vars
<1>1. /\ tickets' = {k \in tickets : k.endpoint \in {e \in up \ excluded[t] : status[e] = "ready"}
                                      => k.state = "live"}
      /\ UNCHANGED status
  BY DEF Scan, services
<1>2. \A u \in Thread, e \in Endpoint : HasTicket(u, e)' <=> HasTicket(u, e)
  BY <1>1 DEF HasTicket
<1> QED BY <1>1, <1>2, NoTicketStutters

LEMMA OwnerMaps ==
    ASSUME IInv, IInv', NEW e \in Endpoint, Owner(e)
    PROVE  [Gate!Next]_(Gate!vars)
<1>1. UNCHANGED tickets
  BY DEF Owner, Die, Drain, Release, Reopen
<1>2. UsersOf' = UsersOf
  BY <1>1, UsersHaveTickets DEF HasTicket
<1>3. CASE Die(e)
  BY <1>2, <1>3 DEF Die, Gate!vars
<1>4. CASE Drain(e)
  BY <1>2, <1>4 DEF Drain, Gate!Next, Gate!Drain
<1>5. CASE Release(e)
  <2>1. \A t \in Thread : ~HasTicket(t, e)
    BY <1>5 DEF Release, LiveTickets, HasTicket
  <2>2. UsersOf[e] = {}
    BY <2>1, UsersHaveTickets
  <2> QED BY <1>2, <1>5, <2>2 DEF Release, Gate!Next, Gate!Release
<1>6. CASE Reopen(e)
  BY <1>2, <1>6 DEF Reopen, Gate!Next, Gate!Reopen
<1> QED BY <1>3, <1>4, <1>5, <1>6 DEF Owner

LEMMA NextMaps ==
    ASSUME IInv, IInv', [Next]_vars
    PROVE  [Gate!Next]_(Gate!vars)
<1>1. ASSUME NEW t \in Thread, Call(t) \/ Step(t)
      PROVE  [Gate!Next]_(Gate!vars)
  <2>1. CASE Choose(t)
    BY <2>1, ChooseMaps
  <2>2. CASE Scan(t)
    BY <2>2, ScanMaps
  <2>3. CASE UNCHANGED <<status, tickets>>
    BY <2>3, NoTicketStutters DEF HasTicket
  <2>4. CASE Leave(t) /\ UNCHANGED status
    BY <2>4, LeaveMaps
  <2>5. \/ UNCHANGED <<status, tickets>>
        \/ Leave(t) /\ UNCHANGED status
        \/ Choose(t) \/ Scan(t)
    <3>1. CASE Call(t) \/ WithoutPool(t) \/ Lock(t) \/ NoneReady(t) \/ ScanAgain(t) \/ Deadline(t)
      BY <3>1 DEF Call, WithoutPool, Lock, NoneReady, ScanAgain, Deadline, services
    <3>2. CASE Lost(t) \/ Backoff(t) \/ Unavailable(t)
      BY <3>2 DEF Lost, Backoff, Unavailable, Receive, services
    <3>3. ASSUME NEW reply \in Reply, Correctable(t, reply) \/ Final(t, reply)
          PROVE  Leave(t) /\ UNCHANGED status
      BY <3>3 DEF Correctable, Final, Receive, services
    <3> QED BY <1>1, <3>1, <3>2, <3>3 DEF Step
  <2> QED BY <2>1, <2>2, <2>3, <2>4, <2>5
<1>2. ASSUME NEW p \in Process, Crash(p)
      PROVE  Gate!Next
  <2>1. UNCHANGED status /\ Of(p) \in SUBSET Thread
    BY <1>2 DEF Crash, services, Of
  <2> QED BY <1>2, <2>1, CrashMarksTickets, TicketsGivenBack
<1>3. CASE UNCHANGED vars
  BY <1>3, NoTicketStutters DEF vars, services, HasTicket
<1> QED BY <1>1, <1>2, <1>3, OwnerMaps DEF Next

\* The pool is a gate in front of every service: a client enters a service that is
\* ready, and a service is taken down when the last client has left
\* (qwen38_client.py lines 66-111 and 261-287; the owner's part at lines 72-73).
THEOREM ImplementsServiceGate == Spec => GateSpec
<1>1. IInv /\ IInv' /\ [Next]_vars => [Gate!Next]_(Gate!vars)
  BY NextMaps
<1> QED BY <1>1, GateInit, InvariantHolds, PTL DEF Spec, GateSpec, Gate!Spec
=============================================================================
