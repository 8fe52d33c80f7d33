---------------------------- MODULE RouteBRefine ----------------------------
(***************************************************************************)
(* The refinement of weak expressions in the legacy Route B                *)
(* (routes/route_b_caption.py, refine_expression_batch and                 *)
(* materialize_final_route_b_outputs in routes/route_b_stages.py).  An     *)
(* expression that was refused but describes its target is rewritten and   *)
(* verified again, at most MaxRounds times; the last attempt is the final  *)
(* one.  run_pipeline.sh does it in three stages that it repeats, each with*)
(* a probe that may skip it; the stage "refine" does it in one process.    *)
(* The process may die between any two writes, and between two passes the  *)
(* first verification or the prompt of the verifier may have changed.      *)
(***************************************************************************)
EXTENDS Naturals, Sequences, FiniteSets

CONSTANTS
    Base,       \* expressions, by base_expression_id
    First,      \* contents of a first verification that asks for a revision
    Words,      \* what a revision may say
    MaxRounds,  \* max_refinement_rounds
    MaxRefineEdits,   \* bound on changes between two passes
    MaxRefineFaults   \* bound on crashes and fatal errors

ASSUME RefineAssumption ==
    /\ First \cap {"accepted", "refused", "invalid"} = {}
    /\ MaxRounds \in Nat /\ MaxRefineEdits \in Nat /\ MaxRefineFaults \in Nat

VARIABLES
    managed,   \* the stages of run_pipeline.sh, or else the stage "refine"
    initial,   \* expression_verification_output: the first verification of a base
    prompt,    \* version of the verifier's prompt and of the configuration
    drafts,    \* refinement_drafts_output
    verified,  \* refinement_verification_output
    exists,    \* which of the two files are there
    refineAt,  \* stage of the pass
    pc,        \* where the stage is
    todo,      \* records that a batch has still to rewrite
    rounds,    \* rounds of the stage "refine"
    final,     \* the attempts that the last finalization chose
    stale,     \* history: the pass began with revisions of another first verification
    refineEdits, refineFaults

refineVars == <<managed, initial, prompt, drafts, verified, exists, refineAt, pc, todo, rounds,
                final, stale, refineEdits, refineFaults>>

Opinions == First \cup {"accepted", "refused", "invalid"}
Draft == [base : Base, rev : 1..MaxRounds, root : Opinions, words : Words \cup {"invalid"}]
Verification ==
    [draft : Draft, prompt : 0..MaxRefineEdits,
     opinion : {"accepted", "weak", "refused", "invalid"}]
Attempt == [base : Base, rev : 0..MaxRounds, root : Opinions,
            opinion : Opinions \cup {"weak"}, words : Words \cup {"first", "invalid"}]

Script ==
    IF managed
    THEN << "refine_generate", "refine_reground", "refine_verify",
            "refine_generate", "refine_reground", "refine_verify", "finalize" >>
    ELSE << "refine" >>

RefineTypeOK ==
    /\ managed \in BOOLEAN
    /\ initial \in [Base -> Opinions] /\ prompt \in 0..MaxRefineEdits
    /\ drafts \subseteq Draft /\ verified \subseteq Verification
    /\ exists \subseteq {"drafts", "verified"}
    /\ refineAt \in 1..(Len(Script) + 1)
    /\ pc \in {"start", "clean", "clean_verified", "enter", "batch", "verify", "finalize"}
    /\ todo \subseteq Attempt /\ rounds \in 0..(MaxRounds + 1)
    /\ final \subseteq Attempt
    /\ stale \in BOOLEAN /\ refineEdits \in 0..MaxRefineEdits /\ refineFaults \in 0..MaxRefineFaults

RefineInit ==
    /\ managed \in BOOLEAN
    /\ initial \in [Base -> Opinions] /\ prompt = 0
    /\ drafts = {} /\ verified = {} /\ exists = {}
    /\ refineAt = 1 /\ pc = "start" /\ todo = {} /\ rounds = 0
    /\ final = {} /\ stale = FALSE /\ refineEdits = 0 /\ refineFaults = 0

-----------------------------------------------------------------------------
(* attempts                                                                 *)

\* _records leaves out answers that never became valid.
Bases == {b \in Base : initial[b] # "invalid"}
ValidDrafts == {d \in drafts : d.words # "invalid"}

FirstAttempt(b) ==
    [base |-> b, rev |-> 0, root |-> initial[b], opinion |-> initial[b], words |-> "first"]
AttemptOf(v) ==
    [base |-> v.draft.base, rev |-> v.draft.rev, root |-> v.draft.root, opinion |-> v.opinion,
     words |-> v.draft.words]

Attempts(rows) ==
    {FirstAttempt(b) : b \in Bases} \cup {AttemptOf(v) : v \in {w \in rows : w.opinion # "invalid"}}

\* _latest_verifications: the attempt with the highest revision of each base.
Latest(rows) ==
    {a \in Attempts(rows) : \A c \in Attempts(rows) : c.base = a.base => c.rev <= a.rev}

\* refinement_eligible, and the revision is not on file, valid or not.
Eligible(rows, written) ==
    {a \in Latest(rows) :
        /\ a.opinion \in First \cup {"weak"} /\ a.rev < MaxRounds
        /\ \A d \in written : d.base = a.base => d.rev # a.rev + 1}

\* mutant: revisions are kept by the name of their base
RootedByName(rows) == {d \in rows : d.base \in Bases}

\* Revisions that go back to the first verification on file.
Rooted(rows) == {d \in rows : d.base \in Bases /\ d.root = initial[d.base]}
RootedVerified == {v \in verified : v.draft \in Rooted({v.draft})}

-----------------------------------------------------------------------------
(* a stage begins                                                           *)

RefineStage == Script[refineAt]
Go(place) == pc' = place
Stay == UNCHANGED <<managed, initial, prompt, stale, refineEdits, refineFaults>>

\* Rows of the verification stage that are still current (route_b_checkpoint).
CurrentVerified(rows) == {v \in rows : v.draft \in ValidDrafts /\ v.prompt = prompt}

\* --check-only reads the files as they are.
ProbeDone ==
    \/ /\ RefineStage = "refine_generate"
       /\ "drafts" \in exists /\ Eligible(verified, drafts) = {}
    \/ /\ RefineStage = "refine_verify"
       /\ "verified" \in exists /\ CurrentVerified(verified) = verified
       /\ {v.draft : v \in verified} = ValidDrafts

NextStage ==
    /\ refineAt' = refineAt + 1 /\ Go("start") /\ rounds' = 0 /\ todo' = {}

Skip ==
    /\ refineAt <= Len(Script) /\ pc = "start" /\ ProbeDone
    /\ NextStage
    /\ UNCHANGED <<drafts, verified, exists, final>> /\ Stay

BeginRefinement ==
    /\ refineAt <= Len(Script) /\ pc = "start" /\ ~ProbeDone
    /\ Go("clean")
    /\ UNCHANGED <<drafts, verified, exists, refineAt, todo, rounds, final>> /\ Stay

\* Revisions of another first verification leave both files, one after the other.
Clean ==
    /\ pc = "clean"
    /\ drafts' = Rooted(drafts)
    /\ Go("clean_verified")
    /\ UNCHANGED <<verified, exists, refineAt, todo, rounds, final>> /\ Stay

CleanVerified ==
    /\ pc = "clean_verified"
    /\ verified' = RootedVerified
    /\ Go("enter")
    /\ UNCHANGED <<drafts, exists, refineAt, todo, rounds, final>> /\ Stay

-----------------------------------------------------------------------------
(* refine_generate and refine_expression_batch                              *)

Generate ==
    /\ pc = "enter" /\ RefineStage = "refine_generate"
    /\ todo' = Eligible(verified, drafts)
    /\ Go("batch")
    /\ UNCHANGED <<drafts, verified, exists, refineAt, rounds, final>> /\ Stay

Revision(a, w) == [base |-> a.base, rev |-> a.rev + 1, root |-> a.root, words |-> w]

\* Revisions are appended as they come, also those that never became valid.
AppendRevision ==
    /\ pc = "batch"
    /\ \E a \in todo, w \in Words \cup {"invalid"} :
           /\ drafts' = drafts \cup {Revision(a, w)}
           /\ todo' = todo \ {a}
    /\ exists' = exists \cup {"drafts"}
    /\ UNCHANGED <<verified, refineAt, pc, rounds, final>> /\ Stay

EndBatch ==
    /\ pc = "batch" /\ todo = {}
    /\ exists' = exists \cup {"drafts"}
    /\ \/ RefineStage = "refine_generate" /\ NextStage
       \/ /\ RefineStage = "refine" /\ Go("enter") /\ rounds' = rounds + 1
          /\ UNCHANGED <<refineAt, todo>>
    /\ UNCHANGED <<drafts, verified, final>> /\ Stay

\* refine_reground: the boxes follow from the drafts.
RegroundDrafts ==
    /\ pc = "enter" /\ RefineStage = "refine_reground"
    /\ NextStage
    /\ UNCHANGED <<drafts, verified, exists, final>> /\ Stay

-----------------------------------------------------------------------------
(* refine_verify                                                            *)

EnterVerify ==
    /\ verified' = CurrentVerified(verified)
    /\ Go("verify")
    /\ UNCHANGED <<drafts, exists, refineAt, todo, rounds, final>> /\ Stay

Verify == pc = "enter" /\ RefineStage = "refine_verify" /\ EnterVerify

Unverified == ValidDrafts \ {v.draft : v \in verified}

Answer ==
    /\ pc = "verify"
    /\ \E d \in Unverified, opinion \in {"accepted", "weak", "refused", "invalid"} :
           verified' = verified \cup {[draft |-> d, prompt |-> prompt, opinion |-> opinion]}
    /\ exists' = exists \cup {"verified"}
    /\ UNCHANGED <<drafts, refineAt, pc, todo, rounds, final>> /\ Stay

-----------------------------------------------------------------------------
(* the stage "refine" does the same in one loop                             *)

\* Valid drafts without a valid verification are verified first.
Pending == ValidDrafts \ {v.draft : v \in {w \in verified : w.opinion # "invalid"}}

Open == rounds <= MaxRounds

DrainRound ==
    /\ pc = "enter" /\ RefineStage = "refine" /\ Open /\ Pending # {}
    /\ EnterVerify

StartBatch ==
    LET eligible == IF Open THEN Eligible(verified, drafts) ELSE {}
    IN  /\ todo' = eligible
        /\ Go(IF eligible = {} THEN "finalize" ELSE "batch")

\* mutant: only new revisions are verified
RoundUndrained ==
    /\ pc = "enter" /\ RefineStage = "refine"
    /\ StartBatch
    /\ UNCHANGED <<drafts, verified, exists, refineAt, rounds, final>> /\ Stay

Round ==
    /\ pc = "enter" /\ RefineStage = "refine" /\ ~(Open /\ Pending # {})
    /\ StartBatch
    /\ UNCHANGED <<drafts, verified, exists, refineAt, rounds, final>> /\ Stay

EndVerify ==
    /\ pc = "verify" /\ Unverified = {}
    /\ exists' = exists \cup {"verified"}
    /\ \/ RefineStage = "refine_verify" /\ NextStage
       \/ RefineStage = "refine" /\ StartBatch /\ UNCHANGED <<refineAt, rounds>>
    /\ UNCHANGED <<drafts, verified, final>> /\ Stay

-----------------------------------------------------------------------------
(* materialize_final_route_b_outputs                                        *)

EnterFinalize ==
    /\ pc = "enter" /\ RefineStage = "finalize"
    /\ Go("finalize")
    /\ UNCHANGED <<drafts, verified, exists, refineAt, todo, rounds, final>> /\ Stay

Finalize ==
    /\ pc = "finalize"
    /\ final' = Latest(verified)
    /\ exists' = IF RefineStage = "refine" THEN exists \cup {"verified"} ELSE exists
    /\ NextStage
    /\ UNCHANGED <<drafts, verified>> /\ Stay

-----------------------------------------------------------------------------
(* passes                                                                   *)

Rewind == refineAt' = 1 /\ Go("start") /\ todo' = {} /\ rounds' = 0

RefineAbort ==
    /\ refineAt <= Len(Script) /\ refineFaults < MaxRefineFaults /\ refineFaults' = refineFaults + 1
    /\ Rewind
    /\ stale' = (drafts # Rooted(drafts) \/ verified # RootedVerified)
    /\ UNCHANGED <<managed, initial, prompt, drafts, verified, exists, final, refineEdits>>

\* Before the next pass the first verification of some bases may have come out
\* differently, with another prompt, with one that was there before, or with the same.
NewRefinement ==
    /\ refineAt > Len(Script) /\ refineEdits < MaxRefineEdits /\ refineEdits' = refineEdits + 1
    /\ initial' \in [Base -> Opinions] /\ prompt' \in 0..refineEdits'
    /\ Rewind
    /\ stale' = \E d \in drafts \cup {v.draft : v \in verified} : d.root # initial'[d.base]
    /\ UNCHANGED <<managed, drafts, verified, exists, final, refineFaults>>

RefineWork ==
    \/ Skip \/ BeginRefinement \/ Clean \/ CleanVerified
    \/ Generate \/ AppendRevision \/ EndBatch \/ RegroundDrafts \/ Verify \/ Answer \/ EndVerify
    \/ DrainRound \/ Round \/ EnterFinalize \/ Finalize

RefineNext == RefineWork \/ RefineAbort \/ NewRefinement

RefineSpec == RefineInit /\ [][RefineNext]_refineVars
-----------------------------------------------------------------------------
(* Properties                                                               *)

RefinementDone == refineAt > Len(Script)

\* A target whose first verification changed never gets a final expression that
\* was written for the old one: what is final goes back to the first verification
\* on file, and there is one attempt for each target.  The managed stages also
\* verified it with the prompt on file; "refine" only looks at the prompt when a
\* revision waits for its verification.
FinalIsRooted ==
    RefinementDone =>
        /\ {a.base : a \in final} = Bases /\ \A a, c \in final : a.base = c.base => a = c
        /\ \A a \in final :
              /\ a.root = initial[a.base]
              /\ a.rev > 0 => \E v \in verified : AttemptOf(v) = a /\ v.draft \in drafts
                                                 /\ (managed => v.prompt = prompt)

\* A pass that did not begin with revisions of other first verifications leaves
\* nothing to do: every revision is verified, and no weak expression is left that
\* may still be revised, also when the pass before was cut off anywhere.  The
\* managed stages repeat only twice, whatever the configuration says.
NothingLeft ==
    RefinementDone /\ (managed => ~stale /\ MaxRounds <= 2) =>
        Unverified = {} /\ Eligible(verified, drafts) = {}

\* What holds in every state of a pass, and at its end.
RefineInv == RefineTypeOK /\ FinalIsRooted /\ NothingLeft

=============================================================================
