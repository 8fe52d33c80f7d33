----------------------------- MODULE RoleObjects -----------------------------
(***************************************************************************)
(* From candidates to objects: Engine.verify_objects and Engine.identity in*)
(* src/src/routes/role_engine.py, in the order stage_plan gives them.  The *)
(* search stages (RoleSearch) are the environment that adds candidates.    *)
(*                                                                         *)
(* Boxes that the test at 0.98 calls near-identical are one box here.      *)
(* Every answer of the model is saved with the question as its key before  *)
(* it is used, so a crash loses only how far the comparison of a candidate *)
(* with the objects has come.                                              *)
(***************************************************************************)
EXTENDS Naturals, Sequences, FiniteSets, Functions

CONSTANTS
    Finds,        \* the candidates a search may return: [cat, source, box, view]
    Overlap,      \* pairs of boxes that the loop does not skip
    SizePass,     \* boxes that pass size_assessment
    Refinements,  \* max_refinement_rounds
    MaxFinds,     \* bound on candidates
    MaxDeaths     \* bound on crashes

Boxes == {c.box : c \in Finds}

ASSUME FindsAssumption ==
    /\ \A c \in Finds : c.source \in {"sam31", "egm"}
    /\ \A b \in Boxes : <<b, b>> \in Overlap
    /\ Refinements \in Nat /\ MaxFinds \in Nat /\ MaxDeaths \in Nat

VARIABLES
    at,       \* stage of the plan
    found,    \* s['candidates']
    status,   \* candidate['status']
    objects,  \* s['objects']
    calls,    \* s['calls']: cached answers, by question
    next,     \* object the current candidate is compared with, 0 before that
    deaths    \* how many crashes so far

objectVars == <<at, found, status, objects, calls, next, deaths>>

\* The stages that add or verify candidates.
Plan ==
    << "discover", "verify_objects", "recover", "verify_objects", "reground" >>
    \o [n \in 1..(3 * Refinements) |-> << "recover", "verify_objects", "reground" >>[1 + ((n - 1) % 3)]]
    \o << "verify_objects", "reground_final" >>

\* An object: the candidate it was made from (its id), the one whose box and
\* source it has now, its detections, and box_version.
Object == [id : 1..MaxFinds, from : 1..MaxFinds, detections : SUBSET (1..MaxFinds),
           version : 1..MaxFinds]

Extent(c) == [cat |-> c.cat, source |-> c.source, box |-> c.box]
Verdicts == {"yes", "no", "same_A", "same_B", "different", "uncertain"}

ObjectsTypeOK ==
    /\ at \in 1..(Len(Plan) + 1)
    /\ found \in Seq(Finds) /\ Len(found) <= MaxFinds
    /\ status \in Seq({"pending", "rejected", "verified", "duplicate", "unresolved_identity"})
    /\ Len(status) = Len(found)
    /\ objects \in Seq(Object)
    /\ \A q \in DOMAIN calls : calls[q] \in Verdicts
    /\ next \in 0..(Len(objects) + 1) /\ deaths \in 0..MaxDeaths

ObjectsInit ==
    /\ at = 1 /\ found = << >> /\ status = << >> /\ objects = << >>
    /\ calls = << >> /\ next = 0 /\ deaths = 0

-----------------------------------------------------------------------------
(* candidates                                                               *)

Waiting == {i \in DOMAIN found : status[i] = "pending"}
IsSam(i) == found[i].source = "sam31"

\* mutant: candidates in the order in which they were found
FirstInList(i) == i \in Waiting /\ \A j \in Waiting : i <= j

\* The loop visits the pending candidates of SAM first, each kind in list order.
IsFirst(i) ==
    /\ i \in Waiting
    /\ \A j \in Waiting \ {i} : (IsSam(i) /\ ~IsSam(j)) \/ (IsSam(i) = IsSam(j) /\ i < j)

ObjectBox(o) == found[o.from].box

\* What a search stage may add.  A candidate is on file once; reground only adds
\* boxes that are none of the objects'.
NewFind(c) ==
    /\ c \notin Range(found)
    /\ CASE Plan[at] = "discover" -> TRUE
         [] Plan[at] = "recover"  -> c.source = "sam31"
         [] Plan[at] = "reground" ->
                c.source = "egm" /\ \A k \in DOMAIN objects : c.box # ObjectBox(objects[k])
         [] OTHER -> FALSE

AddCandidate ==
    /\ at <= Len(Plan) /\ Plan[at] # "verify_objects" /\ Len(found) < MaxFinds
    /\ \E c \in Finds :
           /\ NewFind(c)
           /\ found' = Append(found, c)
           /\ status' = Append(status, "pending")
    /\ UNCHANGED <<at, objects, calls, next, deaths>>

StageDone ==
    /\ at <= Len(Plan) /\ (Plan[at] = "verify_objects" => Waiting = {})
    /\ at' = at + 1
    /\ UNCHANGED <<found, status, objects, calls, next, deaths>>

-----------------------------------------------------------------------------
(* questions                                                                *)

\* verify this exact box; the view of a candidate is part of the question
ObjectQuestion(i) == <<"object", found[i]>>
\* additional full-image audit of a SAM-unmatched EGM candidate
AuditQuestion(i) == <<"audit", found[i].cat, found[i].box>>
IdentityQuestion(o, i) ==
    <<"identity", [cat |-> found[o.id].cat, source |-> found[o.from].source,
                   box |-> ObjectBox(o)], Extent(found[i])>>

SameExtent(o, i) ==
    found[o.id].cat = found[i].cat /\ ObjectBox(o) = found[i].box

\* mutant: only boxes of different sources are compared
NearOtherSource(o, i) ==
    <<ObjectBox(o), found[i].box>> \in Overlap /\ IsSam(o.from) # IsSam(i)

Near(o, i) == <<ObjectBox(o), found[i].box>> \in Overlap

\* The question the visit of a candidate comes to, if it needs one.
Questions(i) ==
    IF next = 0
    THEN IF found[i].box \in SizePass THEN {ObjectQuestion(i)} ELSE {}
    ELSE IF next <= Len(objects)
    THEN IF Near(objects[next], i) /\ ~SameExtent(objects[next], i)
         THEN {IdentityQuestion(objects[next], i)} ELSE {}
    ELSE IF IsSam(i) THEN {} ELSE {AuditQuestion(i)}

AnswersTo(q) ==
    IF q[1] = "identity" THEN {"same_A", "same_B", "different", "uncertain"} ELSE {"yes", "no"}

Verifying(i) == at <= Len(Plan) /\ Plan[at] = "verify_objects" /\ IsFirst(i)
Ready(i) == Verifying(i) /\ Questions(i) \subseteq DOMAIN calls

\* Engine.call: ask, and save the answer.
Ask(i) ==
    /\ Verifying(i)
    /\ \E q \in Questions(i) \ DOMAIN calls : \E answer \in AnswersTo(q) :
           calls' = [p \in DOMAIN calls \cup {q} |-> IF p = q THEN answer ELSE calls[p]]
    /\ UNCHANGED <<at, found, status, objects, next, deaths>>

\* Engine.identity: equal extents of a category are the same object, and the box
\* of SAM is preferred; otherwise the model says so.
Identity(o, i) ==
    IF ~Near(o, i) THEN "different"
    ELSE IF SameExtent(o, i)
         THEN IF IsSam(i) /\ ~IsSam(o.from) THEN "same_B" ELSE "same_A"
    ELSE calls[IdentityQuestion(o, i)]

-----------------------------------------------------------------------------
(* verify_objects                                                           *)

Decide(i, s) == status' = [status EXCEPT ![i] = s] /\ next' = 0
Rest == UNCHANGED <<at, found, calls, deaths>>

Reject(i) ==
    /\ Ready(i)
    /\ \/ next = 0 /\ found[i].box \notin SizePass
       \/ next = 0 /\ found[i].box \in SizePass /\ calls[ObjectQuestion(i)] = "no"
       \/ next > Len(objects) /\ ~IsSam(i) /\ calls[AuditQuestion(i)] = "no"
    /\ Decide(i, "rejected")
    /\ UNCHANGED objects /\ Rest

\* mutant: any answer lets a box of sufficient size pass
AcceptAnyway(i) ==
    /\ Ready(i) /\ next = 0
    /\ found[i].box \in SizePass
    /\ next' = 1
    /\ UNCHANGED <<status, objects>> /\ Rest

Accept(i) ==
    /\ Ready(i) /\ next = 0
    /\ found[i].box \in SizePass /\ calls[ObjectQuestion(i)] = "yes"
    /\ next' = 1
    /\ UNCHANGED <<status, objects>> /\ Rest

NextObject(i) ==
    /\ Ready(i) /\ next \in DOMAIN objects /\ Identity(objects[next], i) = "different"
    /\ next' = next + 1
    /\ UNCHANGED <<status, objects>> /\ Rest

Unresolved(i) ==
    /\ Ready(i) /\ next \in DOMAIN objects /\ Identity(objects[next], i) = "uncertain"
    /\ Decide(i, "unresolved_identity")
    /\ UNCHANGED objects /\ Rest

\* mutant: an object that changes its box starts again with the new detection
DetectionAnew(o, i) ==
    IF Identity(o, i) = "same_B"
    THEN [id |-> o.id, from |-> i, detections |-> {i}, version |-> o.version + 1]
    ELSE [o EXCEPT !.detections = @ \cup {i}]

\* The object with one more detection, and with its box if that is the better one.
WithDetection(o, i) ==
    IF Identity(o, i) = "same_B"
    THEN [id |-> o.id, from |-> i, detections |-> o.detections \cup {i}, version |-> o.version + 1]
    ELSE [o EXCEPT !.detections = @ \cup {i}]

Duplicate(i) ==
    /\ Ready(i) /\ next \in DOMAIN objects
    /\ Identity(objects[next], i) \in {"same_A", "same_B"}
    /\ objects' = [objects EXCEPT ![next] = WithDetection(@, i)]
    /\ Decide(i, "duplicate")
    /\ Rest

NewObject(i) ==
    /\ Ready(i) /\ next > Len(objects) /\ (~IsSam(i) => calls[AuditQuestion(i)] = "yes")
    /\ objects' = Append(objects, [id |-> i, from |-> i, detections |-> {i}, version |-> 1])
    /\ Decide(i, "verified")
    /\ Rest

\* The stage is run again and comes to the same candidate.
Die ==
    /\ at <= Len(Plan) /\ deaths < MaxDeaths /\ deaths' = deaths + 1
    /\ next' = 0
    /\ UNCHANGED <<at, found, status, objects, calls>>

Visit ==
    \E i \in Waiting :
        \/ Ask(i) \/ Reject(i) \/ Accept(i) \/ NextObject(i) \/ Unresolved(i)
        \/ Duplicate(i) \/ NewObject(i)

ObjectsNext == AddCandidate \/ StageDone \/ Visit \/ Die

ObjectsSpec == ObjectsInit /\ [][ObjectsNext]_objectVars
-----------------------------------------------------------------------------
(* Properties                                                               *)

\* Every candidate that was found to be an object is a detection of exactly one
\* object, no other candidate is, and every object has the box of a detection.
EachInOneObject ==
    /\ \A i \in DOMAIN found :
           Cardinality({k \in DOMAIN objects : i \in objects[k].detections})
               = IF status[i] \in {"verified", "duplicate"} THEN 1 ELSE 0
    /\ \A k \in DOMAIN objects : {objects[k].id, objects[k].from} \subseteq objects[k].detections

\* The box of an object, now and at any time before, was verified itself, and an
\* object that SAM did not find had its additional audit.
ObjectsAreAudited ==
    \A k \in DOMAIN objects :
        /\ \A i \in objects[k].detections :
              /\ found[i].box \in SizePass
              /\ ObjectQuestion(i) \in DOMAIN calls /\ calls[ObjectQuestion(i)] = "yes"
        /\ LET i == objects[k].id
           IN  IsSam(i) \/ (AuditQuestion(i) \in DOMAIN calls /\ calls[AuditQuestion(i)] = "yes")

SameTwice(k, l) ==
    /\ k # l /\ ObjectBox(objects[k]) = ObjectBox(objects[l])
    /\ found[objects[k].id].cat = found[objects[l].id].cat

\* Two objects of a category have the same extent only when one of them took a
\* box that was compared with it and not with the other one.
DistinctUnlessMoved ==
    \A k, l \in DOMAIN objects :
        SameTwice(k, l) => objects[k].version > 1 \/ objects[l].version > 1

\* What holds in every state of an image: the books balance, objects are audited
\* and distinct, and when the last stage is over no candidate waits for its
\* verification.
ObjectsInv ==
    /\ ObjectsTypeOK
    /\ EachInOneObject
    /\ at > Len(Plan) => Waiting = {}
    /\ ObjectsAreAudited
    /\ DistinctUnlessMoved

\* Confirmed objects stay and only get better: none disappears, becomes another
\* one or loses a detection; a box changes only together with its version, and one
\* of SAM gives way to one of EGM only when the model preferred that one; and a
\* candidate of EGM becomes an object of its own only when no candidate of SAM is
\* left that could be the same.
ObjectsOnlyImprove ==
    [][/\ DOMAIN objects \subseteq DOMAIN objects'
       /\ \A k \in DOMAIN objects :
             /\ objects'[k].id = objects[k].id
             /\ objects[k].detections \subseteq objects'[k].detections
             /\ objects'[k].version
                    = objects[k].version + IF objects'[k].from = objects[k].from THEN 0 ELSE 1
             /\ IsSam(objects[k].from) /\ ~IsSam(objects'[k].from)
                    => LET q == IdentityQuestion(objects[k], objects'[k].from)
                       IN  q \in DOMAIN calls /\ calls[q] = "same_B"
       /\ \A k \in DOMAIN objects' \ DOMAIN objects :
             IsSam(objects'[k].id) \/ \A i \in Waiting : ~IsSam(i)
      ]_objectVars
=============================================================================
