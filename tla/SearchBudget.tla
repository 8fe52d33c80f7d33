---------------------------- MODULE SearchBudget ----------------------------
(***************************************************************************)
(* What the category search promises about its budget, with nothing said   *)
(* of hints, answers, crashes or stages: each category has the same fixed  *)
(* number of local searches, a search is granted only when none of the     *)
(* category is in progress, and what was granted is never given back.      *)
(* RoleSearch is shown to implement this specification.                    *)
(***************************************************************************)
EXTENDS Naturals

CONSTANTS Category, Limit

VARIABLES
    granted,  \* searches granted to each category so far
    active    \* whether a granted search of the category is unfinished

Init ==
    /\ granted = [c \in Category |-> 0]
    /\ active = [c \in Category |-> FALSE]

Grant(c) ==
    /\ ~active[c]
    /\ granted[c] < Limit
    /\ granted' = [granted EXCEPT ![c] = @ + 1]
    /\ active' = [active EXCEPT ![c] = TRUE]

Finish(c) ==
    /\ active[c]
    /\ active' = [active EXCEPT ![c] = FALSE]
    /\ UNCHANGED granted

Next == \E c \in Category : Grant(c) \/ Finish(c)

Spec == Init /\ [][Next]_<<granted, active>>
=============================================================================
