----------------------------- MODULE ServiceGate -----------------------------
(***************************************************************************)
(* What the node-local pool of Qwen services promises their owners: once a *)
(* service is closed nobody enters it, and it is taken down only when the  *)
(* last client has left.                                                   *)
(***************************************************************************)
CONSTANTS Client, Service

VARIABLES
    status, \* "ready", "draining" or "released", by service
    users   \* the clients a service has, by service

vars == <<status, users>>

Init ==
    /\ status = [e \in Service |-> "ready"]
    /\ users = [e \in Service |-> {}]

Enter(e, t) ==
    /\ status[e] = "ready"
    /\ users' = [users EXCEPT ![e] = @ \cup {t}]
    /\ UNCHANGED status

\* The clients of a process leave together when it dies.
Leave(gone) ==
    /\ users' = [e \in Service |-> users[e] \ gone]
    /\ UNCHANGED status

Drain(e) ==
    /\ status[e] = "ready"
    /\ status' = [status EXCEPT ![e] = "draining"]
    /\ UNCHANGED users

Release(e) ==
    /\ status[e] = "draining" /\ users[e] = {}
    /\ status' = [status EXCEPT ![e] = "released"]
    /\ UNCHANGED users

Reopen(e) ==
    /\ status[e] = "released"
    /\ status' = [status EXCEPT ![e] = "ready"]
    /\ UNCHANGED users

Next ==
    \/ \E e \in Service, t \in Client : Enter(e, t)
    \/ \E gone \in SUBSET Client : Leave(gone)
    \/ \E e \in Service : Drain(e) \/ Release(e) \/ Reopen(e)

Spec == Init /\ [][Next]_vars
=============================================================================
