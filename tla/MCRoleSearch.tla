---------------------------- MODULE MCRoleSearch ----------------------------
(* Instances of RoleDiscovery and RoleObjects for TLC.  What the search      *)
(* hands over are candidates, and RoleObjects takes any; so the two are      *)
(* checked side by side: the first state chooses which moves.                *)
(*                                                                           *)
(* In the street a left and a right box overlap and one is too small.  Both  *)
(* models see a car left and right, SAM sees the right one again in a part   *)
(* of the image and a bus there, and EGM a car that is too small.            *)
EXTENDS RoleDiscovery, RoleObjects, TLC

CONSTANTS left, right, small, car, bus, full, part, l1, l2

(* The second locator of the first category is the only one of the second. *)
TwoLocators == <<<<l1, l2>>, <<l2>>>>

VARIABLES verifying  \* whether RoleObjects moves

Seen(k, s, x, v) == [cat |-> k, source |-> s, box |-> x, view |-> v]

Street ==
    {Seen(car, s, x, full) : s \in {"sam31", "egm"}, x \in {left, right}}
        \cup {Seen(car, "sam31", right, part), Seen(bus, "sam31", right, full),
             Seen(car, "egm", small, full)}

StreetOverlap == ({left, right} \X {left, right}) \cup {<<small, small>>}

ImageInit == DiscoveryInit /\ ObjectsInit /\ verifying \in BOOLEAN

ImageNext ==
    \/ ~verifying /\ DiscoveryNext /\ UNCHANGED <<objectVars, verifying>>
    \/ verifying /\ ObjectsNext /\ UNCHANGED <<allVars, verifying>>

ImageSpec == ImageInit /\ [][ImageNext]_<<allVars, objectVars, verifying>>

Symmetry == Permutations(Places) \cup Permutations(Queries)
=============================================================================
