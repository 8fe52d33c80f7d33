---------------------------- MODULE RolePhrases ----------------------------
(***************************************************************************)
(* The referring phrases of one image: ocr, describe, blind_review,        *)
(* reground, verify_phrases, mark_phrase_collisions and the finalize stage *)
(* of Engine in src/src/routes/role_engine.py, in the order stage_plan of  *)
(* role_schedule.py gives them.  Object verification is an environment     *)
(* here: it adds objects, replaces boxes and changes what the other        *)
(* objects' reviews see of an object.                                      *)
(*                                                                         *)
(* A loop visits the objects in list order and saves at the end of every   *)
(* visit that changed something; the saves inside a visit only keep        *)
(* answers of model calls.  A visit is one step, therefore; a crash loses  *)
(* the position (pass, obj) and nothing else.                              *)
(***************************************************************************)
EXTENDS Naturals, Sequences

CONSTANTS
    MaxObjects,  \* bound on confirmed objects
    MaxBox,      \* bound on box versions of an object
    Looks,       \* what a review card can show of an object to its peers
    Texts,       \* phrases, up to case and white space
    Shapes,      \* the kinds of drafts the phrase model can answer
    Rounds,      \* max_refinement_rounds
    MaxCrashes,  \* bound on crashes
    Absent       \* no object, no phrase, no review

AllShapes == {"good", "spaced", "foreign", "cueless", "bad"}

ASSUME SizesAssumption ==
    /\ MaxObjects \in Nat /\ MaxBox \in Nat \ {0}
    /\ Rounds \in Nat /\ MaxCrashes \in Nat

ASSUME ValuesAssumption ==
    Shapes \subseteq AllShapes /\ Shapes # {} /\ Texts # {} /\ Looks # {}

VARIABLES
    count,    \* number of confirmed objects: s['objects'][1..count]
    box,      \* obj['box_version']; 0 before the object exists
    look,     \* peer entry of obj: bbox, category, referent, categories
    ocr,      \* obj['ocr_version']; 0 when OCR was never run
    phrase,   \* obj['phrase']
    old,      \* obj['history'], its length
    step,     \* number of completed stages
    pass,     \* which loop of the running stage
    obj,      \* the object this loop visits next
    crashes   \* how many crashes so far

world == <<count, box, look>>
durable == <<world, ocr, phrase, old, step>>
position == <<pass, obj>>
vars == <<durable, position, crashes>>

Object == 1..MaxObjects
Present == 1..count
PeerKey == [own: Nat, scene: [Object -> Looks \cup {Absent}]]
Phrase == [text: Texts, shape: AllShapes, rev: 0..Rounds,
           blind: {"none", "unique", "multiple", "unclear"},
           reground: {"none", "passed", "failed"},
           boxVersion: 0..MaxBox,
           seen: PeerKey \cup {Absent},
           status: {"draft", "needs_rewrite", "unresolved", "verified"},
           via: {"none", "reground", "semantic_adjudication"},
           missed: SUBSET Object]  \* history: peers its approval passed over

ASSUME AbsentAssumption == Absent \notin Looks \cup PeerKey \cup Phrase

-----------------------------------------------------------------------------
(* stage_plan without the stages that leave objects and phrases alone.     *)
Opening == <<"objects", "ocr", "describe", "reground", "blind", "verify">>
Round == <<"objects", "rewrite", "reground", "blind", "verify">>
LastStep == 6 + 5 * (Rounds + 1) + 1

Stage(n) == IF n <= 6 THEN Opening[n]
            ELSE IF n < LastStep THEN Round[((n - 7) % 5) + 1]
            ELSE IF n = LastStep THEN "finalize" ELSE "end"

(* Engine.stage: the loops a stage consists of.                            *)
Passes(stage) ==
    CASE stage = "rewrite" -> <<"ocr", "verify", "mark", "describe">>
      [] stage = "verify" -> <<"verify", "mark">>
      [] stage = "finalize" -> <<"mark", "close">>
      [] OTHER -> <<stage>>

Running == Stage(step + 1)
Task == Passes(Running)[pass]

(* peer_key: the box version and everything the review sees of the others. *)
KeyOwn(o) ==  \* mutant: the peers are not part of the key
    [own |-> box[o], scene |-> [p \in Object |-> Absent]]

Key(o) == [own |-> box[o], scene |-> look]

TypeOK ==
    /\ count \in 0..MaxObjects
    /\ box \in [Object -> 0..MaxBox]
    /\ look \in [Object -> Looks \cup {Absent}]
    /\ ocr \in [Object -> 0..MaxBox]
    /\ phrase \in [Object -> Phrase \cup {Absent}]
    /\ old \in [Object -> Nat]
    /\ step \in 0..LastStep
    /\ pass \in 1..Len(Passes(Running))
    /\ obj \in 1..(count + 1)
    /\ crashes \in 0..MaxCrashes

Init ==
    /\ count = 0
    /\ box = [o \in Object |-> 0]
    /\ look = [o \in Object |-> Absent]
    /\ ocr = [o \in Object |-> 0]
    /\ phrase = [o \in Object |-> Absent]
    /\ old = [o \in Object |-> 0]
    /\ step = 0 /\ pass = 1 /\ obj = 1
    /\ crashes = 0

-----------------------------------------------------------------------------
(* verify_objects, as far as phrases notice it.                            *)
AddObject ==
    /\ Task = "objects"
    /\ count < MaxObjects
    /\ count' = count + 1
    /\ box' = [box EXCEPT ![count + 1] = 1]
    /\ \E l \in Looks : look' = [look EXCEPT ![count + 1] = l]
    /\ UNCHANGED <<ocr, phrase, old, step, position, crashes>>

ReplaceBox ==
    /\ Task = "objects"
    /\ \E o \in Present, l \in Looks :
        /\ box[o] < MaxBox
        /\ box' = [box EXCEPT ![o] = @ + 1]
        /\ look' = [look EXCEPT ![o] = l]
    /\ UNCHANGED <<count, ocr, phrase, old, step, position, crashes>>

(* A duplicate of another category joins the object's category_ids.        *)
MergeCategory ==
    /\ Task = "objects"
    /\ \E o \in Present, l \in Looks : look' = [look EXCEPT ![o] = l]
    /\ UNCHANGED <<count, box, ocr, phrase, old, step, position, crashes>>

-----------------------------------------------------------------------------
Visiting(task) == Task = task /\ obj \in Present

Visited == obj' = obj + 1 /\ UNCHANGED <<world, step, pass, crashes>>

SetPhrase(ph) == phrase' = [phrase EXCEPT ![obj] = ph]

Ocr ==
    /\ Visiting("ocr")
    /\ ocr' = [ocr EXCEPT ![obj] = box[obj]]
    /\ Visited
    /\ UNCHANGED <<phrase, old>>

(* describe: draft_valid and cue_type decide between draft and unresolved. *)
Draft(text, shape, rev) ==
    [text |-> text, shape |-> shape, rev |-> rev,
     blind |-> "none", reground |-> "none", boxVersion |-> box[obj],
     seen |-> Absent, status |-> IF shape = "good" THEN "draft" ELSE "unresolved",
     via |-> "none", missed |-> {}]

WriteFirst ==
    /\ Visiting("describe")
    /\ phrase[obj] = Absent
    /\ \E text \in Texts, shape \in Shapes : SetPhrase(Draft(text, shape, 0))
    /\ Visited
    /\ UNCHANGED <<ocr, old>>

RewritableOpen ==  \* mutant: every phrase that is not verified is rewritten
    phrase[obj] # Absent /\ Running = "rewrite" /\ phrase[obj].status # "verified"

Rewritable == phrase[obj] # Absent /\ Running = "rewrite"
                                   /\ phrase[obj].status = "needs_rewrite"

Rewrite ==
    /\ Visiting("describe")
    /\ Rewritable
    /\ phrase[obj].rev < Rounds
    /\ \E text \in Texts, shape \in Shapes :
          SetPhrase(Draft(text, shape, phrase[obj].rev + 1))
    /\ old' = [old EXCEPT ![obj] = @ + 1]
    /\ Visited
    /\ UNCHANGED ocr

(* Neither pass_via nor the reviews are touched here.                      *)
WithStatus(ph, status) == [ph EXCEPT !.status = status]

GiveUp ==
    /\ Visiting("describe")
    /\ Rewritable
    /\ phrase[obj].rev >= Rounds
    /\ SetPhrase(WithStatus(phrase[obj], "unresolved"))
    /\ Visited
    /\ UNCHANGED <<ocr, old>>

KeepUndescribed ==  \* mutant: only the first description stage describes
    /\ Visiting("describe")
    /\ ~Rewritable
    /\ phrase[obj] = Absent => Running = "rewrite"
    /\ Visited
    /\ UNCHANGED <<ocr, phrase, old>>

KeepPhrase ==
    /\ Visiting("describe")
    /\ phrase[obj] # Absent /\ ~Rewritable
    /\ Visited
    /\ UNCHANGED <<ocr, phrase, old>>

-----------------------------------------------------------------------------
(* A draft that does not start with "the " or shows no evidence is never   *)
(* located or reviewed; one without a cue has no blind review.             *)
Locatable(ph) == ph # Absent /\ ph.shape # "bad"
Readable(ph) == Locatable(ph) /\ ph.shape # "cueless"
Cued(ph) == ph.shape \in {"good", "spaced"}

BlindReview ==
    /\ Visiting("blind")
    /\ IF Readable(phrase[obj]) /\ phrase[obj].blind = "none"
       THEN \E outcome \in {"unique", "multiple", "unclear"} :
                SetPhrase([phrase[obj] EXCEPT !.blind = outcome])
       ELSE UNCHANGED phrase
    /\ Visited
    /\ UNCHANGED <<ocr, old>>

(* geometry_audit of the located boxes against the object's present box.   *)
Located(ph, result) ==
    [text |-> ph.text, shape |-> ph.shape, rev |-> ph.rev, blind |-> ph.blind,
     reground |-> result, boxVersion |-> box[obj], seen |-> Absent,
     status |-> ph.status, via |-> ph.via, missed |-> ph.missed]

Reground ==
    /\ Visiting("reground")
    /\ IF /\ Locatable(phrase[obj])
          /\ phrase[obj].reground = "none" \/ phrase[obj].boxVersion # box[obj]
       THEN \E result \in {"passed", "failed"} : SetPhrase(Located(phrase[obj], result))
       ELSE UNCHANGED phrase
    /\ Visited
    /\ UNCHANGED <<ocr, old>>

-----------------------------------------------------------------------------
(* verify_phrases. A phrase located for an older box is audited again.     *)
Reviewable(ph) == Locatable(ph) /\ ph.reground # "none"

Audits(ph) == IF ph.boxVersion = box[obj] THEN {ph}
              ELSE {Located(ph, result) : result \in {"passed", "failed"}}

(* The peers are shown page by page, one empty page if there are none.     *)
Peers(o) == {p \in Object \ {o} : look[p] # Absent}

Pagings(peers) ==
    IF peers = {} THEN {{{}}}
    ELSE {pages \in SUBSET (SUBSET peers \ {{}}) :
            UNION pages = peers /\ \A a, b \in pages : a = b \/ a \cap b = {}}

(* An answer about a page supports the phrase, or refutes it, which it also*)
(* does when it says that the phrase applies to another object, or neither;*)
(* and it names objects to which the phrase does not apply.                *)
Decision == [outcome: {"supports", "refutes", "unclear"}, differ: SUBSET Object]

PageVerdictLoose(page, d) ==  \* mutant: nobody asks whom a page compared
    CASE d.outcome = "supports" -> "verified"
      [] d.outcome = "refutes" -> "needs_rewrite"
      [] OTHER -> "unresolved"

(* An answer that leaves out a peer of its page, or compares another one,  *)
(* counts as uncertain.                                                    *)
PageVerdict(page, d) ==
    CASE d.outcome = "supports" /\ d.differ = page -> "verified"
      [] d.outcome = "refutes" -> "needs_rewrite"
      [] OTHER -> "unresolved"

(* The verdicts of the blind gate and of the cue go with those of the pages*)
BlindOverridden(ph) ==  \* mutant: target-aware approval beats several matches
    IF ph.blind = "unclear" THEN {"unresolved"} ELSE {}

BlindVerdicts(ph) == CASE ph.blind = "unique" -> {}
                       [] ph.blind = "multiple" -> {"needs_rewrite"}
                       [] OTHER -> {"unresolved"}
CueVerdicts(ph) == IF Cued(ph) THEN {} ELSE {"unresolved"}

Worst(verdicts) == IF "needs_rewrite" \in verdicts THEN "needs_rewrite"
                   ELSE IF "unresolved" \in verdicts THEN "unresolved" ELSE "verified"

Judged(ph, decisions) ==
    LET pages == DOMAIN decisions
        status == Worst({PageVerdict(page, decisions[page]) : page \in pages}
                            \cup BlindVerdicts(ph) \cup CueVerdicts(ph))
        compared == UNION {page \cap decisions[page].differ : page \in pages}
    IN  [text |-> ph.text, shape |-> ph.shape, rev |-> ph.rev, blind |-> ph.blind,
         reground |-> ph.reground, boxVersion |-> ph.boxVersion, seen |-> Key(obj),
         status |-> status,
         via |-> IF status # "verified" THEN "none"
                 ELSE IF ph.reground = "passed" THEN "reground"
                 ELSE "semantic_adjudication",
         missed |-> IF status # "verified" THEN {} ELSE Peers(obj) \ compared]

Unread(ph) ==
    [text |-> ph.text, shape |-> ph.shape, rev |-> ph.rev, blind |-> ph.blind,
     reground |-> ph.reground, boxVersion |-> ph.boxVersion, seen |-> ph.seen,
     status |-> "unresolved", via |-> "none", missed |-> {}]

Review(ph) ==
    IF ph.blind = "none" THEN SetPhrase(Unread(ph))
    ELSE \E pages \in Pagings(Peers(obj)) : \E decisions \in [pages -> Decision] :
            SetPhrase(Judged(ph, decisions))

Verify ==
    /\ Visiting("verify")
    /\ IF Reviewable(phrase[obj])
       THEN \E ph \in Audits(phrase[obj]) :
               IF ph.seen = Key(obj) THEN UNCHANGED phrase ELSE Review(ph)
       ELSE UNCHANGED phrase
    /\ Visited
    /\ UNCHANGED <<ocr, old>>

(* mark_phrase_collisions: one pass over all phrases, then one save.       *)
SharesVerified(o) ==  \* mutant: only two verified phrases collide
    \E p \in Present \ {o} :
        phrase[p] # Absent /\ phrase[p].text = phrase[o].text /\ phrase[p].status = "verified"

Shares(o) == \E p \in Present \ {o} : phrase[p] # Absent /\ phrase[p].text = phrase[o].text

Collided(ph) ==
    [text |-> ph.text, shape |-> ph.shape, rev |-> ph.rev, blind |-> ph.blind,
     reground |-> ph.reground, boxVersion |-> ph.boxVersion, seen |-> ph.seen,
     status |-> "needs_rewrite", via |-> "none", missed |-> {}]

Colliding(o) == /\ phrase[o] # Absent
                /\ phrase[o].status \in {"verified", "needs_rewrite"}
                /\ Shares(o)

AllVisited == obj' = count + 1 /\ UNCHANGED <<world, step, pass, crashes>>

Mark ==
    /\ Task = "mark" /\ obj = 1
    /\ phrase' = [o \in Object |-> IF o \in Present /\ Colliding(o)
                                   THEN Collided(phrase[o]) ELSE phrase[o]]
    /\ AllVisited
    /\ UNCHANGED <<ocr, old>>

(* finalize: what is not verified by now is delivered as unresolved.       *)
Close ==
    /\ Task = "close" /\ obj = 1
    /\ phrase' = [o \in Object |->
                    IF phrase[o] # Absent /\ phrase[o].status # "verified"
                    THEN WithStatus(phrase[o], "unresolved") ELSE phrase[o]]
    /\ AllVisited
    /\ UNCHANGED <<ocr, old>>

-----------------------------------------------------------------------------
PassOver == (Task \in {"objects", "end"} \/ obj > count) /\ step < LastStep

NextPass ==
    /\ PassOver
    /\ pass < Len(Passes(Running))
    /\ pass' = pass + 1 /\ obj' = 1
    /\ UNCHANGED <<durable, crashes>>

(* The stage worker: state['step'] = step; save().                         *)
EndStage ==
    /\ PassOver
    /\ pass = Len(Passes(Running))
    /\ step' = step + 1 /\ pass' = 1 /\ obj' = 1
    /\ UNCHANGED <<world, ocr, phrase, old, crashes>>

(* The process dies inside a stage; the next invocation reruns the stage.  *)
Crash ==
    /\ crashes < MaxCrashes
    /\ position # <<1, 1>>
    /\ pass' = 1 /\ obj' = 1
    /\ crashes' = crashes + 1
    /\ UNCHANGED durable

Done == step = LastStep /\ UNCHANGED vars

VerifyObjects == AddObject \/ ReplaceBox \/ MergeCategory
Describe == WriteFirst \/ Rewrite \/ GiveUp \/ KeepPhrase
Work == Ocr \/ Describe \/ BlindReview \/ Reground \/ Verify \/ Mark \/ Close
        \/ NextPass \/ EndStage

Next == VerifyObjects \/ Work \/ Crash \/ Done

Spec == Init /\ [][Next]_vars

-----------------------------------------------------------------------------
Delivered == step = LastStep

Verified(o) == phrase[o] # Absent /\ phrase[o].status = "verified"

(* Whatever the order of rewrites, new peers and crashes, a phrase counts  *)
(* as verified only with a cue of its own, a blind reader who found exactly*)
(* one referent, a location on record, and a review that compared each of  *)
(* the peers it was made with, on its own page, and found it different     *)
(* (blind_gate, verify_phrases).                                           *)
Certified ==
    \A o \in Object : Verified(o) =>
        /\ Cued(phrase[o])
        /\ phrase[o].blind = "unique"
        /\ phrase[o].reground # "none"
        /\ phrase[o].missed = {}

(* What is delivered as verified was reviewed against the box and the peers*)
(* the object has now, and names the evidence it passed by: no replaced box*)
(* or late object leaves an old verdict standing (peer_key, verified_peers).*)
UpToDate(o, ph) ==
    /\ ph.seen = [own |-> box[o], scene |-> look]
    /\ ph.boxVersion = box[o]
    /\ ph.via = IF ph.reground = "passed" THEN "reground" ELSE "semantic_adjudication"

DeliveredUpToDate ==
    Delivered => \A o \in Present : Verified(o) => UpToDate(o, phrase[o])

(* A phrase delivered as verified is no other object's phrase, be the other*)
(* verified or not (mark_phrase_collisions).                               *)
DeliveredDistinct ==
    Delivered => \A o, p \in Present :
        Verified(o) /\ phrase[p] # Absent /\ phrase[p].text = phrase[o].text => o = p

(* Every object, one found in the last object audit included, is delivered *)
(* with a phrase that is either verified or unresolved, and no rewrite is  *)
(* left undone: "Last discovery objects get a phrase attempt".             *)
DeliveredComplete ==
    Delivered => \A o \in Present :
        phrase[o] # Absent /\ phrase[o].status \in {"verified", "unresolved"}

(* The delivery of an image is up to date, distinct and complete.          *)
DeliveryInv == DeliveredUpToDate /\ DeliveredDistinct /\ DeliveredComplete

(* Verdicts hold: a phrase is replaced only when it was refuted, by the    *)
(* next revision, after its text was read in the box it now describes      *)
(* (ocr_version), and the refuted one goes to the history; and a phrase    *)
(* that is verified loses its approval only for a cause, when the object or*)
(* its peers have changed since or another object has the same phrase.     *)
RewrittenFor(o) == phrase[o] # Absent /\ phrase'[o].rev # phrase[o].rev

VerdictsHold ==
    [][\A o \in Object :
        /\ phrase[o] # Absent => phrase'[o] # Absent
        /\ RewrittenFor(o) => /\ phrase[o].status = "needs_rewrite"
                              /\ phrase'[o].rev = phrase[o].rev + 1
                              /\ old'[o] = phrase'[o].rev
                              /\ ocr[o] = box[o]
        /\ phrase[o] # Absent /\ ~RewrittenFor(o) => phrase'[o].text = phrase[o].text
        /\ Verified(o) /\ phrase'[o].status # "verified" =>
              phrase[o].seen # [own |-> box[o], scene |-> look] \/ Shares(o)]_vars
=============================================================================
