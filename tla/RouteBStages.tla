---------------------------- MODULE RouteBStages ----------------------------
(***************************************************************************)
(* The stages of the legacy Route B in the order in which run_pipeline.sh  *)
(* runs them (routes/route_b_caption.py, routes/route_b_stages.py,         *)
(* routes/route_b_discovery.py), from proposals to verified expressions.   *)
(* Every stage reads what earlier stages wrote and keeps a file of rows    *)
(* that name what they were made from; the protocol of one stage is        *)
(* StageCheckpoint.  Images may be edited between two stages; a stage that *)
(* fails ends the pass, and the next pass starts from the first stage.     *)
(* Detections are constants: the grounders and the consensus of their boxes*)
(* depend on nothing but the picture and the proposals.                    *)
(***************************************************************************)
EXTENDS Naturals, Sequences, FiniteSets

CONSTANTS
    Image, Source,   \* images of the manifest, versions of an image
    Entity,          \* targets that Qwen may propose, by their content
    Found,           \* Found[s]: further targets that the grounders see in s
    SizePass,        \* SizePass[s]: targets with a size-valid instance in s
    Same,            \* pairs of a proposed and a found target that are one object
    Proposals,       \* answers of the proposal stage: sets of entities
    Answers,         \* answers of the other stages: "yes", "no", "invalid"
    MaxEdits,        \* bound on edits of images
    MaxFaults        \* bound on crashes and fatal errors

Invalid == [invalid |-> TRUE]

ASSUME SourcesAssumption ==
    /\ \A s \in Source : Found[s] \cap Entity = {}
    /\ Proposals \subseteq SUBSET Entity
    /\ MaxEdits \in Nat /\ MaxFaults \in Nat

\* Only a box may be repaired instead of being accepted as it is.
ASSUME AnswersAssumption == "repaired" \notin Answers["align"] \cup Answers["expression_verify"]

Stages == << "entities", "aggregate", "align", "promote", "bbox_verify", "ocr", "describe",
             "reground", "expression_verify" >>
Name == {Stages[n] : n \in 1..Len(Stages)}
Checkpointed == Name \ {"aggregate", "reground"}

VARIABLES
    source,   \* the manifest: the version of each image
    file,     \* rows of each stage: key, what they were made from, and result
    at,       \* the stage of the pass
    asking,   \* the stage has begun
    dirty,    \* history: an image was edited during the pass
    edited,   \* history: images that ever were edited
    edits, faults

vars == <<source, file, at, asking, dirty, edited, edits, faults>>

TypeOK ==
    /\ source \in [Image -> Source]
    /\ DOMAIN file = Name
    /\ \A s \in Name : \A r \in file[s] :
           DOMAIN r = {"key", "from", "result"} /\ Head(r.key) \in Image
    /\ \A s \in Name : \A r, q \in file[s] : r.key = q.key => r = q
    /\ at \in 1..(Len(Stages) + 1) /\ asking \in BOOLEAN /\ dirty \in BOOLEAN
    /\ edited \subseteq Image /\ edits \in 0..MaxEdits /\ faults \in 0..MaxFaults

Init ==
    /\ source \in [Image -> Source]
    /\ file = [s \in Name |-> {}]
    /\ at = 1 /\ asking = FALSE /\ dirty = FALSE
    /\ edited = {} /\ edits = 0 /\ faults = 0

-----------------------------------------------------------------------------
(* what a stage reads                                                       *)

Of(i, rows) == {r \in rows : Head(r.key) = i}

\* _records leaves out the rows of answers that never became valid.
Records(s) == {r \in file[s] : r.result # Invalid}
Accepted(s) == {r \in Records(s) : r.result.accepted}

\* The objects of an image with a consensus box: those of the proposals, and
\* those that only the category queries found.
Candidates(i) == {r.result : r \in Of(i, file["aggregate"])}

Proposed(r) == {<<Head(r.key), e>> : e \in r.result.entities}

\* promotion_tasks: found targets of a valid size that no accepted alignment is.
Promotable ==
    {c \in file["aggregate"] :
        /\ c.result.found /\ c.result.size_pass
        /\ \A a \in Of(Head(c.key), Accepted("align")) : <<a.key[2], c.key[2]>> \notin Same}

Input(key, about) == [key |-> key, about |-> about]

\* The records a stage is given.
Inputs(s) ==
    CASE s = "entities" -> {Input(<<i>>, "image") : i \in Image}
      [] s = "align" -> {Input(k, "entity") : k \in UNION {Proposed(r) : r \in Records("entities")}}
      [] s = "promote" -> {Input(c.key, Candidates(Head(c.key))) : c \in Promotable}
      [] s = "bbox_verify" ->
             {Input(r.key, r.result) : r \in Accepted("align") \cup Accepted("promote")}
      [] s \in {"ocr", "describe"} -> {Input(r.key, r.result) : r \in Accepted("bbox_verify")}
      [] OTHER -> {Input(r.key, r.result) : r \in Records("describe")}

\* mutant: the evidence of every image is part of each signature
ExtrasOfAll(s, key) ==
    LET i == Head(key)
    IN  CASE s = "entities" -> <<source[i]>>
          [] s = "align" -> <<{r.result : r \in file["aggregate"]}, source[i]>>
          [] s = "promote" -> <<source[i]>>
          [] s = "describe" -> <<{<<r.key, r.result>> : r \in file["ocr"]}, source[i]>>
          [] s = "expression_verify" -> <<{r \in file["reground"] : r.key = key}>>
          [] OTHER -> << >>

\* What else is part of the signature of a record, all of it of the same image.
Extras(s, key) ==
    LET i == Head(key)
    IN  CASE s = "entities" -> <<source[i]>>
          [] s = "align" -> <<Candidates(i), source[i]>>
          [] s = "promote" -> <<source[i]>>
          [] s = "describe" -> <<{<<r.key, r.result>> : r \in Of(i, file["ocr"])}, source[i]>>
          [] s = "expression_verify" -> <<{r \in file["reground"] : r.key = key}>>
          [] OTHER -> << >>

Signature(s, in) == <<in.about, Extras(s, in.key)>>

Current(s) == {r \in file[s] : \E in \in Inputs(s) : in.key = r.key /\ Signature(s, in) = r.from}
Missing(s) == {in \in Inputs(s) : \A r \in file[s] : r.key # in.key}

-----------------------------------------------------------------------------
(* what a stage may write                                                   *)

Decision(about, answers) ==
    {[accepted |-> a \in {"yes", "repaired"}, answer |-> a, about |-> about] :
        a \in answers \ {"invalid"}}
    \cup (IF "invalid" \in answers THEN {Invalid} ELSE {})

\* An answer without entities is asked for once more, and may be empty again.
ProposalResults(in) ==
    {[entities |-> p] : p \in Proposals} \cup (IF "invalid" \in Answers["entities"]
                                              THEN {Invalid} ELSE {})

SizeValid(key) ==
    [target |-> key[2], found |-> FALSE, size_pass |-> TRUE] \in Candidates(Head(key))

\* Without a size-valid instance a proposal is refused without a question.
AlignmentResults(in) ==
    IF SizeValid(in.key)
    THEN Decision(<<in.key, Candidates(Head(in.key))>>, Answers["align"])
    ELSE Decision(<<in.key, {}>>, {"no"})

PromotionResults(in) == Decision(<<in.key, in.about>>, Answers["promote"])

\* A whole but loose box may be repaired with the box of a detector that is
\* accepted in its place.
BoxResults(in) == Decision(<<in.key, in.about>>, Answers["bbox_verify"])

TextResults(in) == Decision(<<in.key, in.about>>, Answers["ocr"])

Text(key) == {r \in file["ocr"] : r.key = key}

\* A draft is accepted here when it passes the surface checks.  Without a valid
\* text there is none.
DraftResults(in) ==
    IF \E r \in Text(in.key) : r.result = Invalid THEN {Invalid}
    ELSE Decision(<<<<in.key, in.about>>, {r.result : r \in Text(in.key)}>>, Answers["describe"])

Passes(key) == \E r \in file["reground"] : r.key = key /\ r.result.accepted

\* mutant: the verifier has the last word
VerificationByModel(in) == Decision(<<in.key, in.about>>, Answers["expression_verify"])

\* A draft that fails the surface checks or does not lead back to its box is
\* refused, whatever the verifier says.
VerificationResults(in) ==
    Decision(<<in.key, in.about>>,
             IF in.about.accepted /\ Passes(in.key) THEN Answers["expression_verify"]
             ELSE (Answers["expression_verify"] \ {"yes"}) \cup {"no"})

Results(s, in) ==
    CASE s = "entities" -> ProposalResults(in)
      [] s = "align" -> AlignmentResults(in)
      [] s = "promote" -> PromotionResults(in)
      [] s = "bbox_verify" -> BoxResults(in)
      [] s = "ocr" -> TextResults(in)
      [] s = "describe" -> DraftResults(in)
      [] OTHER -> VerificationResults(in)

Stage == Stages[at]

\* mutant: stale rows stay in the file
BeginStageKeeping ==
    /\ at <= Len(Stages) /\ Stage \in Checkpointed /\ ~asking
    /\ UNCHANGED file
    /\ asking' = TRUE
    /\ UNCHANGED <<source, at, dirty, edited, edits, faults>>

\* Stale rows leave the file before the first question is asked.
BeginStage ==
    /\ at <= Len(Stages) /\ Stage \in Checkpointed /\ ~asking
    /\ file' = [file EXCEPT ![Stage] = Current(Stage)]
    /\ asking' = TRUE
    /\ UNCHANGED <<source, at, dirty, edited, edits, faults>>

Ask ==
    /\ asking
    /\ \E in \in Missing(Stage) : \E result \in Results(Stage, in) :
           file' = [file EXCEPT ![Stage] =
                        @ \cup {[key |-> in.key, from |-> Signature(Stage, in),
                                 result |-> result]}]
    /\ UNCHANGED <<source, at, asking, dirty, edited, edits, faults>>

EndStage ==
    /\ asking /\ Missing(Stage) = {}
    /\ at' = at + 1 /\ asking' = FALSE
    /\ UNCHANGED <<source, file, dirty, edited, edits, faults>>

-----------------------------------------------------------------------------
(* the stages of the grounders                                              *)

Box(i, t, found) ==
    [key |-> <<i, t>>, from |-> "boxes",
     result |-> [target |-> t, found |-> found, size_pass |-> t \in SizePass[source[i]]]]

\* Only images with proposals have categories to look for.
BoxesOf(r) ==
    LET i == Head(r.key)
    IN  {Box(i, e, FALSE) : e \in r.result.entities}
        \cup (IF r.result.entities = {} THEN {} ELSE {Box(i, t, TRUE) : t \in Found[source[i]]})

Aggregate ==
    /\ Stage = "aggregate"
    /\ file' = [file EXCEPT !["aggregate"] = UNION {BoxesOf(r) : r \in Records("entities")}]
    /\ UNCHANGED <<source, dirty, edited, edits, faults>>

Reground ==
    /\ Stage = "reground"
    /\ \E passes \in SUBSET Records("describe") :
           LET rows == {[key |-> d.key, from |-> d.result,
                         result |-> [accepted |-> d \in passes]] : d \in Records("describe")}
           IN  \* a box that was found for the same expression is found again
               /\ \A r \in rows, old \in file["reground"] :
                      r.key = old.key /\ r.from = old.from => r = old
               /\ file' = [file EXCEPT !["reground"] = rows]
    /\ UNCHANGED <<source, dirty, edited, edits, faults>>

GroundStage ==
    /\ at <= Len(Stages)
    /\ Aggregate \/ Reground
    /\ at' = at + 1 /\ UNCHANGED asking

-----------------------------------------------------------------------------
(* passes                                                                   *)

Restart ==
    /\ at' = 1 /\ asking' = FALSE /\ dirty' = FALSE
    /\ UNCHANGED <<source, file, edited, edits>>

Abort ==
    /\ faults < MaxFaults /\ faults' = faults + 1
    /\ Restart

NewPass == at > Len(Stages) /\ Restart /\ UNCHANGED faults

Edit(i, version) ==
    /\ ~asking /\ edits < MaxEdits /\ edits' = edits + 1
    /\ version # source[i]
    /\ source' = [source EXCEPT ![i] = version]
    /\ edited' = edited \cup {i} /\ dirty' = TRUE
    /\ UNCHANGED <<file, at, asking, faults>>

Work == BeginStage \/ Ask \/ EndStage \/ GroundStage

Next ==
    \/ Work \/ Abort \/ NewPass
    \/ \E i \in Image, version \in Source : Edit(i, version)

Spec == Init /\ [][Next]_vars

-----------------------------------------------------------------------------
(* Properties                                                               *)

PassDone == at > Len(Stages) /\ ~dirty

\* When a pass has ended during which no image was edited, every stage has one
\* row for each record it is given, made from what is on file now, and no other
\* row: nothing made from an older image, an older text or another box is left.
PassIsCurrent ==
    PassDone => \A s \in Checkpointed : Missing(s) = {} /\ Current(s) = file[s]

MadeFrom(result, key, evidence) == result.accepted /\ result.about = <<key, evidence>>

\* An expression that a pass accepts went through every gate with evidence that
\* holds now: its draft was written for the box on file and with the text on
\* file, the box was checked for an accepted alignment or promotion, and the
\* object was proposed or found in the image as it is.
AcceptedPassedAllGates ==
    PassDone => \A v \in Accepted("expression_verify") :
        /\ Passes(v.key)
        /\ \E d \in Accepted("describe"), b \in Accepted("bbox_verify"),
              a \in Accepted("align") \cup Accepted("promote") :
               /\ MadeFrom(v.result, v.key, d.result)
               /\ MadeFrom(d.result, <<v.key, b.result>>, {t.result : t \in Text(v.key)})
               /\ Invalid \notin {t.result : t \in Text(v.key)} /\ Text(v.key) # {}
               /\ MadeFrom(b.result, v.key, a.result) /\ a.key = v.key
        /\ \/ v.key[2] \in SizePass[source[v.key[1]]] \cap Found[source[v.key[1]]]
           \/ /\ v.key[2] \in SizePass[source[v.key[1]]]
              /\ \E r \in Of(v.key[1], Records("entities")) : v.key[2] \in r.result.entities

\* Rows of an image that was never edited are never lost, whatever happens to
\* the others and wherever a pass is cut off.
UnrelatedKept ==
    [][\A s \in Name : \A r \in file[s] : Head(r.key) \notin edited => r \in file'[s]]_vars

\* The stage that writes drafts finds the text of every box it is given, if only
\* as an answer that never became valid: its error "OCR is incomplete" does not
\* come up in a pass.
TextIsThere ==
    at <= Len(Stages) /\ Stage = "describe" =>
        \A in \in Inputs("describe") : Text(in.key) # {}

\* What holds in every state of a pass, and at its end.
PassInv == TypeOK /\ AcceptedPassedAllGates /\ TextIsThere /\ PassIsCurrent
=============================================================================
