--------------------------- MODULE MCRouteBTargets --------------------------
(* Instances of RouteBRegions and RouteBTargets for TLC: which boxes are one *)
(* instance, and much later which records are one object.  They share no     *)
(* state, and the first state chooses which moves.                           *)
(*                                                                           *)
(* There are three records with any overlaps, of which two may have one      *)
(* text; different queries only matter to boxes that are nearly identical,   *)
(* and two mishaps may be a change that is undone.  The boxes are on a line  *)
(* of 12 of which one chain of matches, an entity and something else can be  *)
(* picked.                                                                   *)
EXTENDS RouteBTargets, RouteBRegions, TLC

CONSTANT e1

VARIABLE aggregating

ThreeTexts == {<<"x", "x", "y">>, <<"x", "y", "z">>}
OtherRanking == {<<2, 3, 1>>}

Seen(g, lo, hi, query, score) ==
    [grounder |-> g, box |-> [lo |-> lo, hi |-> hi], query |-> query,
     score |-> score, masked |-> g = "sam31"]

Detections ==
    << Seen("dino", 0, 4, "category", 5), Seen("sam31", 2, 6, "category", 0),
       Seen("rex", 1, 5, "category", 0), Seen("dino", 0, 4, e1, 9),
       Seen("rex", 8, 11, "category", 0), Seen("dino", 8, 12, e1, 5),
       Seen("rex", 2, 6, e1, 0) >>

Picked(S) ==
    LET order == SelectSeq([k \in 1..7 |-> k], LAMBDA k : k \in S)
    IN  [k \in DOMAIN order |-> Detections[order[k]]]

Grounded ==
    {<<Picked(S), Picked({5, 6})>> : S \in
        {{}, {1, 2, 3}, {1, 3, 4}, {1, 2, 3, 5, 6}, {3, 5, 6, 7}}}

Answered ==
    {[k \in DOMAIN Picked(S) |-> [Picked(S)[k] EXCEPT !.query = "expression"]] : S \in
        {{}, {1, 2, 3}, {1, 3, 5}, {2, 3, 5, 6}}}

TightMasks == {[lo |-> 2, hi |-> 5], [lo |-> 0, hi |-> 0]}
OneEntity == <<e1>>

TargetsInit ==
    /\ aggregating \in BOOLEAN
    /\ DedupInit
    /\ \/ \A t \in Target : world.query[t] = world.query[1]
       \/ \A p \in Pair : world.overlap[p] = "exact"
    /\ aggregating => /\ world.text = <<"x", "y", "z">> /\ world.rank = <<2, 3, 1>>
                      /\ \A t \in Target : world.query[t] = world.query[1]
                      /\ \A p \in Pair : world.overlap[p] = "apart"
    /\ RegionsInit
    /\ ~aggregating => evidence.raw[1] = <<>> /\ evidence.mask = NoBox /\ evidence.support = 1

TargetsNext ==
    \/ ~aggregating /\ DedupNext /\ UNCHANGED <<regionVars, aggregating>>
    \/ aggregating /\ RegionsNext /\ UNCHANGED <<targetVars, aggregating>>

TargetsSpec == TargetsInit /\ [][TargetsNext]_<<targetVars, regionVars, aggregating>>

(* The second run is about deliveries only.                                  *)
DeliverySpec == (TargetsInit /\ ~aggregating) /\ [][TargetsNext]_<<targetVars, regionVars, aggregating>>

Symmetry == Permutations(Category) \cup Permutations(Contexts)
=============================================================================
