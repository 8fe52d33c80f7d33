------------------------------ MODULE MCRouteB ------------------------------
(* Instances of RouteBStages and RouteBRefine for TLC.  The refinement reads *)
(* only the first verifications that the stages end with, and takes any, so  *)
(* the two are checked side by side: the first state chooses which moves.    *)
(*                                                                           *)
(* In the first version of an image a dog is found that is the car of the    *)
(* proposals; in the second there is no dog, and the car is too small.       *)
EXTENDS RouteBStages, RouteBRefine, TLC

CONSTANTS v1, v2, car, dog

VARIABLE refining

DogFound == (v1 :> {dog}) @@ (v2 :> {})
CarShrinks == (v1 :> {car, dog}) @@ (v2 :> {dog})
CarIsDog == {<<car, dog>>}
OneOrNone == {{car}, {}}

\* Alignments may be refused, and some answers may never become valid.
Mixed == [s \in Name |-> IF s = "align" THEN {"yes", "no", "invalid"}
                        ELSE IF s \in {"ocr", "expression_verify"} THEN {"yes", "invalid"}
                        ELSE {"yes"}]

RouteBInit ==
    /\ Init /\ RefineInit /\ refining \in BOOLEAN
    /\ refining => source = [i \in Image |-> v1]
    /\ ~refining => managed /\ initial = [b \in Base |-> "accepted"]

RouteBNext ==
    \/ ~refining /\ Next /\ UNCHANGED <<refineVars, refining>>
    \/ refining /\ RefineNext /\ UNCHANGED <<vars, refining>>
    \/ refining /\ RefinementDone /\ UNCHANGED <<vars, refineVars, refining>>

RouteBSpec == RouteBInit /\ [][RouteBNext]_<<vars, refineVars, refining>>

Symmetry == Permutations(Base)
=============================================================================
