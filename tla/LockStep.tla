------------------------------ MODULE LockStep ------------------------------
(***************************************************************************)
(* What the durable checkpoint of a role run promises: the selected images *)
(* go through the stages together.  No image enters a stage before every   *)
(* selected image has finished the one before, none is taken back, and an  *)
(* image that joins late starts from the beginning and holds the others.   *)
(***************************************************************************)
EXTENDS Naturals

CONSTANTS
    Image,  \* all images of the manifest sample
    Steps   \* number of stages

VARIABLES
    selected,  \* images of the run
    done       \* stages each image has durably finished

vars == <<selected, done>>

Init ==
    /\ selected \in (SUBSET Image) \ {{}}
    /\ done = [i \in Image |-> 0]

Join ==
    /\ \E i \in Image \ selected : selected' = selected \cup {i}
    /\ UNCHANGED done

Advance ==
    /\ \E s \in 1..Steps, finishing \in SUBSET selected :
        /\ \A i \in selected : done[i] >= s - 1
        /\ \A i \in finishing : done[i] = s - 1
        /\ done' = [i \in Image |-> IF i \in finishing THEN s ELSE done[i]]
    /\ UNCHANGED selected

Spec == Init /\ [][Join \/ Advance]_vars
=============================================================================
