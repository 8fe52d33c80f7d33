---------------------------- MODULE RouteBTargets ---------------------------
(***************************************************************************)
(* The identity of targets at the end of the legacy Route B: which records *)
(* of an image are about the same object.  unique_alignments               *)
(* (routes/route_b_discovery.py) keeps one alignment for each, and         *)
(* materialize_final_route_b_outputs (routes/route_b_stages.py) one        *)
(* verified expression; both ask TargetDeduplicator.compare                *)
(* (routes/target_dedup.py), which asks the model about suspect pairs and  *)
(* keeps its decisions on file.                                            *)
(*                                                                         *)
(* The stage bbox_verify goes through the alignments first; those it keeps *)
(* are described and verified, and their verifications are on file.  The   *)
(* stage finalize goes through the alignments again, to list those that are*)
(* duplicates, and takes its records from the file.                        *)
(*                                                                         *)
(* run_pipeline.sh probes both stages and runs them with a model server    *)
(* when something is missing; finalize is run without one otherwise.  In   *)
(* the end it compares what was delivered once more.  The process may die  *)
(* anywhere, and the prompt may change, and change back.                   *)
(***************************************************************************)
EXTENDS Naturals, FiniteSets

CONSTANTS
    Count,      \* accepted alignments of the image, best first: 1..Count
    Category,   \* category names up to case
    Texts,      \* [1..Count -> texts]: what the final expressions may be
    Rankings,   \* [1..Count -> 1..Count]: how the final records may rank
    MayDiffer,  \* whether entity["category"] may differ from "category_query"
    MaxPerSourceImage,
    Contexts,   \* contents of the prompt, with the settings of the model
    MaxMishaps  \* bound on edits, crashes and errors of the model

Target == 1..Count
Pair == {p \in SUBSET Target : Cardinality(p) = 2}

ASSUME TargetsAssumption ==
    /\ Count \in Nat /\ MaxPerSourceImage \in Nat /\ MaxMishaps \in Nat
    /\ MayDiffer \in BOOLEAN
    /\ \A r \in Rankings : r \in [Target -> Target] /\ \A a, b \in Target : r[a] = r[b] => a = b
    /\ \A x \in Texts : DOMAIN x = Target

VARIABLES
    world,     \* what the records hold: query, label, text, rank and overlap
    context,   \* the prompt and the settings of the model
    decisions, \* files of target_dedup/decisions
    onFile,    \* records whose verification is on file, which accepts them
    delivered, \* verified_output
    rejected,  \* rejected_output, by the stage of its rows
    run,       \* where the process is
    outcome,   \* how the last process ended
    disturbed, \* history: the context changed during the pass
    basis,     \* history: the context `onFile` was found in, throughout
    made,      \* history: what `delivered` was found from, throughout
    mishaps

targetVars ==
    <<world, context, decisions, onFile, delivered, rejected, run, outcome, disturbed,
      basis, made, mishaps>>

(* The overlap of two boxes: nearly identical; alike enough to suspect one  *)
(* object; or neither, which stands for other scopes too.                   *)
Worlds ==
    [query : [Target -> Category], label : [Target -> Category], text : Texts,
     rank : Rankings, overlap : [Pair -> {"exact", "suspect", "apart"}]]

(* A process goes through the records of `todo`, compares each with those   *)
(* of `kept`, and remembers those it has `passed`.                          *)
Process(stage, mode, phase, todo) ==
    [stage |-> stage, mode |-> mode, phase |-> phase, todo |-> todo, kept |-> {},
     passed |-> {}, dropped |-> {}, earlier |-> {}]

Idle == Process("none", "idle", "align", {})

DedupInit ==
    /\ world \in Worlds /\ (MayDiffer \/ world.label = world.query)
    /\ context \in Contexts /\ decisions = {} /\ onFile = {}
    /\ delivered = {} /\ rejected = [alignment |-> {}, final |-> {}]
    /\ run = Idle /\ outcome = "none" /\ disturbed = FALSE /\ basis = {} /\ made = {}
    /\ mishaps = 0

-----------------------------------------------------------------------------
(* TargetDeduplicator                                                       *)

(* target: the category of a record with its entity is the query, that of a *)
(* delivered one, which has none, is its own; alignments have no text yet.  *)
View(t, phase) ==
    [target |-> t,
     category |-> IF phase = "validate" THEN world.label[t] ELSE world.query[t],
     text |-> IF phase = "align" THEN "" ELSE world.text[t]]

SameText(a, b, phase) == phase # "align" /\ world.text[a] = world.text[b]

(* What compare finds out without the model.                                *)
Rule(a, b, phase) ==
    CASE SameText(a, b, phase) -> "same"
      [] ~SameText(a, b, phase) /\ world.overlap[{a, b}] = "apart" -> "different"
      [] ~SameText(a, b, phase) /\ world.overlap[{a, b}] = "exact"
            /\ View(a, phase).category = View(b, phase).category -> "same"
      [] OTHER -> "ask"

OrderedPair(a, b, phase) ==  \* mutant: the pair is not sorted
    [pair |-> <<View(a, phase), View(b, phase)>>, context |-> context]

PairSignature(a, b, phase) ==
    [pair |-> {View(a, phase), View(b, phase)}, context |-> context]

(* The answer "uncertain" counts as "different".                            *)
Verdict(a, b, phase) ==
    IF Rule(a, b, phase) # "ask" THEN Rule(a, b, phase)
    ELSE LET found == {d \in decisions : d.about = PairSignature(a, b, phase)}
         IN  IF found = {} THEN "unknown" ELSE (CHOOSE d \in found : TRUE).answer

-----------------------------------------------------------------------------
(* unique_alignments, _deduplicate_final_records and the loop of the        *)
(* validation: the records are gone through best first, and each is compared*)
(* with those kept before it.                                               *)

Running == run.mode # "idle"

Stronger(a, b, phase) == IF phase = "final" THEN world.rank[a] < world.rank[b] ELSE a < b

Turn(b) ==
    Running /\ b \in run.todo /\ \A t \in run.todo : t = b \/ Stronger(b, t, run.phase)

OpponentsEver ==  \* mutant: records that were dropped drop others
    (run.kept \cup {x.target : x \in run.dropped}) \ run.passed

Opponents == run.kept \ run.passed

(* The same words are looked for first when final records are compared.     *)
Sooner(a, c, b, phase) ==
    LET words(t) == phase = "final" /\ world.text[t] = world.text[b]
    IN  (words(a) /\ ~words(c)) \/ (words(a) = words(c) /\ Stronger(a, c, phase))

Says(a, b, verdict) ==
    /\ Turn(b) /\ a \in Opponents
    /\ \A c \in Opponents : c = a \/ Sooner(a, c, b, run.phase)
    /\ Verdict(a, b, run.phase) = verdict

Advance(b) == [run EXCEPT !.todo = @ \ {b}, !.passed = {}]

Quiet ==
    UNCHANGED <<world, context, onFile, delivered, rejected, disturbed, basis, made, mishaps>>

End(how) == run' = Idle /\ outcome' = how

PassOver(a, b) ==
    /\ Says(a, b, "different")
    /\ run' = [run EXCEPT !.passed = @ \cup {a}]
    /\ UNCHANGED <<decisions, outcome>> /\ Quiet

Drop(a, b) ==
    /\ Says(a, b, "same") /\ run.phase # "validate"
    /\ run' = [Advance(b) EXCEPT !.dropped = @ \cup {[target |-> b, of |-> a]}]
    /\ UNCHANGED <<decisions, outcome>> /\ Quiet

(* assert not deduplicator.compare(first, second)["same_object"]            *)
Refute(a, b) ==
    /\ Says(a, b, "same") /\ run.phase = "validate"
    /\ End("same_object")
    /\ UNCHANGED decisions /\ Quiet

Keep(b) ==
    /\ Turn(b) /\ Opponents = {}
    /\ run' = [Advance(b) EXCEPT !.kept = @ \cup {b}]
    /\ UNCHANGED <<decisions, outcome>> /\ Quiet

(* The answer is on file before it is used; an error leaves nothing.        *)
AskModel(a, b) ==
    /\ Says(a, b, "unknown") /\ run.mode = "served"
    /\ \E answer \in {"same", "different"} :
        decisions' = decisions \cup
            {[about |-> PairSignature(a, b, run.phase), answer |-> answer]}
    /\ UNCHANGED <<run, outcome>> /\ Quiet

(* StagePending under CHECK_ONLY: a probe is followed by a run with a       *)
(* server, the validation fails.                                            *)
Undecided(a, b) ==
    /\ Says(a, b, "unknown") /\ run.mode \in {"probe", "validate"}
    /\ IF run.mode = "probe"
       THEN run' = Process(run.stage, "served", "align", Target) /\ UNCHANGED outcome
       ELSE End("pending")
    /\ UNCHANGED decisions /\ Quiet

(* There is no server to ask.                                               *)
Unserved(a, b) ==
    /\ Says(a, b, "unknown") /\ run.mode = "unserved"
    /\ End("no_server")
    /\ UNCHANGED decisions /\ Quiet

-----------------------------------------------------------------------------
(* the stages bbox_verify and finalize                                      *)

ProbeAnew(stage) ==  \* mutant: decisions last as long as a process
    /\ ~Running /\ (stage = "finalize" => onFile # {})
    /\ run' = Process(stage, "probe", "align", Target)
    /\ outcome' = "none" /\ disturbed' = FALSE /\ decisions' = {}
    /\ UNCHANGED <<world, context, onFile, delivered, rejected, basis, made, mishaps>>

(* finalize needs the file of verifications.                                *)
Probe(stage) ==
    /\ ~Running /\ (stage = "finalize" => onFile # {})
    /\ run' = Process(stage, "probe", "align", Target)
    /\ outcome' = "none" /\ disturbed' = FALSE
    /\ UNCHANGED <<world, context, decisions, onFile, delivered, rejected, basis, made, mishaps>>

Walked(stage) == Running /\ run.stage = stage /\ run.phase = "align" /\ run.todo = {}

(* Rows of other records, or too few, are something to do as well.          *)
BoxesProbed ==
    /\ Walked("bbox_verify") /\ run.mode = "probe"
    /\ IF onFile = run.kept
       THEN End("complete") /\ basis' = IF disturbed THEN basis ELSE {context}
       ELSE run' = Process("bbox_verify", "served", "align", Target) /\ UNCHANGED <<outcome, basis>>
    /\ UNCHANGED <<world, context, decisions, onFile, delivered, rejected, disturbed, made, mishaps>>

(* The stages up to the last verification; every record is accepted.        *)
BoxesVerified ==
    /\ Walked("bbox_verify") /\ run.mode = "served"
    /\ onFile' = run.kept
    /\ basis' = IF disturbed THEN {} ELSE {context}
    /\ End("verified")
    /\ UNCHANGED <<world, context, decisions, delivered, rejected, disturbed, made, mishaps>>

(* The final records are those on file, whatever this walk has kept.        *)
Aligned ==
    /\ Walked("finalize")
    /\ run' = [Process("finalize", run.mode, "final", onFile) EXCEPT !.earlier = run.dropped]
    /\ UNCHANGED <<decisions, outcome>> /\ Quiet

Finalized == Running /\ run.phase = "final" /\ run.todo = {}

(* A probe writes nothing; the stage is run even when nothing is missing.   *)
Probed ==
    /\ Finalized /\ run.mode = "probe"
    /\ run' = Process("finalize", "unserved", "align", Target)
    /\ UNCHANGED <<decisions, outcome>> /\ Quiet

(* The best MaxPerSourceImage records, or all when they are not more.       *)
Best(some, all) ==
    /\ some \subseteq all
    /\ Cardinality(some) <= MaxPerSourceImage
    /\ some = all \/ Cardinality(some) = MaxPerSourceImage
    /\ \A a \in some, b \in all \ some : Stronger(a, b, "final")

WriteVerified ==
    /\ Finalized /\ run.mode \in {"served", "unserved"}
    /\ delivered' \in {some \in SUBSET run.kept : Best(some, run.kept)}
    /\ made' = IF disturbed THEN {} ELSE {[context |-> context, records |-> onFile]}
    /\ run' = [run EXCEPT !.phase = "written"]
    /\ UNCHANGED <<world, context, decisions, onFile, rejected, outcome, disturbed, basis, mishaps>>

Capped == {[target |-> t, of |-> 0] : t \in run.kept \ delivered}

(* The validation then goes through the delivered records by entity_rank.   *)
WriteRejected ==
    /\ Running /\ run.phase = "written"
    /\ rejected' = [alignment |-> run.earlier, final |-> run.dropped \cup Capped]
    /\ run' = Process("finalize", "validate", "validate", delivered)
    /\ UNCHANGED <<world, context, decisions, onFile, delivered, outcome, disturbed, basis, made,
                   mishaps>>

Validated ==
    /\ Running /\ run.phase = "validate" /\ run.todo = {}
    /\ End("valid")
    /\ UNCHANGED decisions /\ Quiet

DedupCrash ==
    /\ Running /\ mishaps < MaxMishaps /\ mishaps' = mishaps + 1
    /\ End("crashed")
    /\ UNCHANGED <<world, context, decisions, onFile, delivered, rejected, disturbed, basis, made>>

(* Edits fall between two processes or two phases of one.                   *)
EditContext ==
    /\ run.kept = {} /\ run.dropped = {}
    /\ mishaps < MaxMishaps /\ mishaps' = mishaps + 1
    /\ context' \in Contexts \ {context} /\ disturbed' = TRUE
    /\ UNCHANGED <<world, decisions, onFile, delivered, rejected, run, outcome, basis, made>>

Compare(a, b) ==
    \/ PassOver(a, b) \/ Drop(a, b) \/ Refute(a, b)
    \/ AskModel(a, b) \/ Undecided(a, b) \/ Unserved(a, b)

DedupNext ==
    \/ (\E stage \in {"bbox_verify", "finalize"} : Probe(stage))
    \/ (\E b \in run.todo : Keep(b) \/ \E a \in Opponents : Compare(a, b))
    \/ BoxesProbed \/ BoxesVerified \/ Aligned \/ Probed \/ WriteVerified \/ WriteRejected \/ Validated
    \/ DedupCrash \/ EditContext

DedupSpec == DedupInit /\ [][DedupNext]_targetVars

-----------------------------------------------------------------------------
(* Properties                                                               *)

(* The stage that is run without a server after its probe found nothing     *)
(* missing asks no question, and the validation that follows needs no       *)
(* decision that was not made; unless something was edited in between, or a *)
(* delivered category is not the one that was looked for.                   *)
DecisionsSuffice ==
    /\ outcome = "no_server" => disturbed
    /\ outcome \in {"pending", "same_object"} => disturbed \/ world.label # world.query

Names(rows) == {x.target : x \in rows}

(* Rejected by the cap, and not for another record.                         *)
Late == {x \in rejected.final : x.of = 0}

(* A rejected record has a stronger one that was kept and is the same object*)
(* by a comparison of the two, not through a third one.                     *)
Direct(x, phase) ==
    Stronger(x.of, x.target, phase) /\ Verdict(x.of, x.target, phase) = "same"

(* What a pass delivers (route_b_stages.py:1232-1233): every record on file *)
(* is either delivered or rejected at the end, and rejected once, for a     *)
(* stronger record or as one too many; then it is weaker than all delivered *)
(* ones, which are as many as allowed.  No two delivered ones are the same. *)
(* The alignments listed as duplicates have a stronger one, too; they are   *)
(* all that is not on file, when the file was made in the present context.  *)
DeliveredAreDistinct ==
    outcome = "valid" /\ ~disturbed =>
        /\ delivered \cup Names(rejected.final) = onFile
        /\ delivered \cap Names(rejected.final) = {}
        /\ \A rows \in {rejected.alignment, rejected.final} :
              \A x, y \in rows : x.target = y.target => x = y
        /\ \A x \in rejected.alignment : Direct(x, "align") /\ x.of \notin Names(rejected.alignment)
        /\ \A x \in rejected.final \ Late :
              Direct(x, "final") /\ x.of \in delivered \cup Names(Late)
        /\ \A x \in Late, t \in delivered : Stronger(t, x.target, "final")
        /\ Late # {} => Cardinality(delivered) = MaxPerSourceImage
        /\ \A a, b \in delivered : a # b => Verdict(a, b, "final") = "different"
        /\ context \in basis => onFile = Target \ Names(rejected.alignment)

(* Without an edit another pass verifies and delivers the same records: what*)
(* the model was asked before a crash, or before an edit that was undone, is*)
(* not asked again.                                                         *)
DeliveryIsStable ==
    [][/\ onFile' # onFile => context \notin basis \/ disturbed
       /\ delivered' # delivered =>
             [context |-> context, records |-> onFile] \notin made \/ disturbed]_targetVars

(* What the validation asserts: no two delivered records are the same       *)
(* object (run_pipeline.sh, the last loop of its validation).               *)
DeliveredPassValidation == outcome = "same_object" => disturbed
=============================================================================
