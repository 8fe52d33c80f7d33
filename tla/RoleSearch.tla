----------------------------- MODULE RoleSearch -----------------------------
(***************************************************************************)
(* Category search of one image: Engine.discover, Engine.recover and the   *)
(* evidence half of Engine.reground in src/src/routes/role_engine.py, with *)
(* add_hint and reserve_search of role_contract.py.                        *)
(*                                                                         *)
(* Every Python statement group that ends in self.save() is one step, so   *)
(* all variables but `cursor` are the durable image state of               *)
(* role_state.jsonl; `cursor` is where the running stage stands and is all *)
(* that a crash loses.  A restarted stage begins again at its first        *)
(* category and finds the answers of finished model calls in the cache.    *)
(*                                                                         *)
(* A place stands for a box together with the padded region around it:     *)
(* two boxes that the IoU tests of the code call equal are the same place. *)
(***************************************************************************)
EXTENDS Naturals, Sequences, FiniteSets, Functions

CONSTANTS
    NumCategories,  \* length of state['categories'], in list order
    Places,         \* boxes and regions of the image
    Locator,        \* texts EGM is asked to locate
    LocatorsOf,     \* category['locators'] up to category_locator_limit, no blank ones
    SearchLimit,    \* local_search_limit
    Rounds,         \* max_refinement_rounds
    MaxCrashes,     \* bound on crashes
    Full            \* the full-image view (region=None)

ASSUME SizesAssumption ==
    /\ NumCategories \in Nat \ {0}
    /\ SearchLimit \in Nat
    /\ Rounds \in Nat
    /\ MaxCrashes \in Nat

ASSUME PlacesAssumption == IsFiniteSet(Places) /\ Full \notin Places

ASSUME LocatorsAssumption == LocatorsOf \in [1..NumCategories -> Seq(Locator)]

VARIABLES
    step,       \* number of completed stages of Stage(1) .. Stage(LastStep)
    fullDone,   \* category['full_done']
    hints,      \* category['hints'], in insertion order
    searches,   \* category['local_searches']
    sam,        \* cached SAM answers of s['calls'], per category and view
    egm,        \* cached EGM answers of s['calls'], per locator
    candidates, \* s['candidates'] without their review status
    cursor,     \* [task, cat, nth, todo]: where the running stage stands
    crashes,    \* how many crashes so far
    begun       \* history: `searches` when the stage was first entered

durable == <<step, fullDone, hints, searches, sam, egm, candidates, begun>>
vars == <<step, fullDone, hints, searches, sam, egm, candidates, cursor,
          crashes, begun>>

Category == 1..NumCategories
View == Places \cup {Full}
NoAnswer == {Full}  \* no cached model call: not a set of places
Answer == (SUBSET Places) \cup {NoAnswer}
Hint == [region: Places, status: {"pending", "running", "done"}, slot: Nat]
Candidate == [cat: Category, source: {"sam31", "egm"}, view: View, place: Places]
Cursor == [task: {"full", "egm", "sweep", "reground", "end"},
           cat: 1..(NumCategories + 1),
           nth: Nat \ {0},  \* the locator of the category; 1 where there is none
           todo: {"ask", "add", "mark"}]

-----------------------------------------------------------------------------
(* The stages of stage_plan that touch the search state: discovery, then   *)
(* a local sweep and a phrase regrounding, once initially and once per     *)
(* refinement round.                                                       *)

LastStep == 1 + 2 * (Rounds + 1)

Stage(n) == IF n = 1 THEN "full"
            ELSE IF n > LastStep THEN "end"
            ELSE IF n % 2 = 0 THEN "sweep" ELSE "reground"

BeginningOf(task) == [task |-> task, cat |-> 1, nth |-> 1, todo |-> "ask"]

EntryOf(n) == BeginningOf(Stage(n + 1))

TypeOK ==
    /\ step \in 0..LastStep
    /\ fullDone \in [Category -> BOOLEAN]
    /\ hints \in [Category -> Seq(Hint)]
    /\ searches \in [Category -> Nat]
    /\ sam \in [Category -> [View -> Answer]]
    /\ egm \in [Locator -> Answer]
    /\ candidates \subseteq Candidate
    /\ cursor \in Cursor
    /\ crashes \in 0..MaxCrashes
    /\ begun \in [Category -> Nat]

(* add_hint: a region already hinted for the category is not hinted again. *)
NewHint(p) == [region |-> p, status |-> "pending", slot |-> 0]

AddHint(hs, p) ==
    IF \E i \in DOMAIN hs : hs[i].region = p THEN hs ELSE Append(hs, NewHint(p))

(* The scene stage leaves every category with at most one hint.            *)
Init ==
    /\ step = 0
    /\ fullDone = [c \in Category |-> FALSE]
    /\ hints \in [Category -> {<<>>} \cup {AddHint(<<>>, p) : p \in Places}]
    /\ searches = [c \in Category |-> 0]
    /\ sam = [c \in Category |-> [v \in View |-> NoAnswer]]
    /\ egm = [l \in Locator |-> NoAnswer]
    /\ candidates = {}
    /\ cursor = EntryOf(0)
    /\ crashes = 0
    /\ begun = [c \in Category |-> 0]

-----------------------------------------------------------------------------
(* add_detections: an id is the hash of its category, model, view and box, *)
(* so recording an answer twice adds nothing.                              *)
Detections(c, source, view, places) ==
    {[cat |-> c, source |-> source, view |-> view, place |-> p] : p \in places}

NextCategory == [task |-> cursor.task, cat |-> cursor.cat + 1, nth |-> 1, todo |-> "ask"]
Then(t) == [cursor EXCEPT !.todo = t]
At(task, todo) == cursor.task = task /\ cursor.cat \in Category
                                     /\ cursor.todo = todo

(* Engine.ground on SAM: answered by the cache when the same category and  *)
(* view were asked before, saved at once otherwise.                        *)
AskSam(c, view) ==
    \E answer \in SUBSET Places :
        /\ sam[c][view] # NoAnswer => answer = sam[c][view]
        /\ sam' = [sam EXCEPT ![c][view] = answer]

(* First loop of discover: full-image SAM for every category.              *)
SkipFull ==
    /\ At("full", "ask")
    /\ fullDone[cursor.cat]
    /\ cursor' = NextCategory
    /\ UNCHANGED <<durable, crashes>>

AskFull ==
    /\ At("full", "ask")
    /\ ~fullDone[cursor.cat]
    /\ AskSam(cursor.cat, Full)
    /\ cursor' = Then("add")
    /\ UNCHANGED <<step, fullDone, hints, searches, egm, candidates, crashes, begun>>

AddFull ==
    /\ At("full", "add")
    /\ candidates' = candidates \cup
           Detections(cursor.cat, "sam31", Full, sam[cursor.cat][Full])
    /\ cursor' = Then("mark")
    /\ UNCHANGED <<step, fullDone, hints, searches, sam, egm, crashes, begun>>

MarkFull ==
    /\ At("full", "mark")
    /\ fullDone' = [fullDone EXCEPT ![cursor.cat] = TRUE]
    /\ cursor' = NextCategory
    /\ UNCHANGED <<step, hints, searches, sam, egm, candidates, crashes, begun>>

BeginLocators ==
    /\ cursor.task = "full"
    /\ cursor.cat = NumCategories + 1
    /\ cursor' = BeginningOf("egm")
    /\ UNCHANGED <<durable, crashes>>

(* Second loop of discover: EGM is asked for the locators of a category    *)
(* one after the other; a box that matches no SAM candidate of the         *)
(* category becomes a hint.  A locator that another category has too is    *)
(* answered by the cache.                                                  *)
AtLocator(todo) == At("egm", todo) /\ cursor.nth \in DOMAIN LocatorsOf[cursor.cat]
Asking == LocatorsOf[cursor.cat][cursor.nth]
NextLocator ==
    [task |-> cursor.task, cat |-> cursor.cat, nth |-> cursor.nth + 1, todo |-> "ask"]

AskUnanswered ==  \* mutant: a locator with a saved answer counts as dealt with
    /\ AtLocator("ask")
    /\ IF egm[Asking] = NoAnswer
       THEN /\ \E answer \in SUBSET Places : egm' = [egm EXCEPT ![Asking] = answer]
            /\ cursor' = Then("add")
       ELSE cursor' = NextLocator /\ UNCHANGED egm
    /\ UNCHANGED <<step, fullDone, hints, searches, sam, candidates, crashes, begun>>

AskLocator ==
    /\ AtLocator("ask")
    /\ \E answer \in SUBSET Places :
        /\ egm[Asking] # NoAnswer => answer = egm[Asking]
        /\ egm' = [egm EXCEPT ![Asking] = answer]
    /\ cursor' = Then("add")
    /\ UNCHANGED <<step, fullDone, hints, searches, sam, candidates, crashes, begun>>

AddLocator ==
    /\ AtLocator("add")
    /\ candidates' = candidates \cup Detections(cursor.cat, "egm", Full, egm[Asking])
    /\ cursor' = Then("mark")
    /\ UNCHANGED <<step, fullDone, hints, searches, sam, egm, crashes, begun>>

SamPlaces(c) == {d.place : d \in {d \in candidates : d.cat = c /\ d.source = "sam31"}}

Unmatched(c, l) == egm[l] \ SamPlaces(c)

Hinted(c) == {hints[c][i].region : i \in DOMAIN hints[c]}

(* The unmatched predictions of an answer are hinted in the answer's order *)
(* and saved together.                                                     *)
HintsOf(order) == [i \in DOMAIN order |-> NewHint(order[i])]

Orders(S) == Bijection(1..Cardinality(S), S)

HintUnmatched ==
    LET c == cursor.cat
    IN  /\ AtLocator("mark")
        /\ \E order \in Orders(Unmatched(c, Asking) \ Hinted(c)) :
              hints' = [hints EXCEPT ![c] = @ \o HintsOf(order)]
        /\ cursor' = NextLocator
        /\ UNCHANGED <<step, fullDone, searches, sam, egm, candidates, crashes, begun>>

EndLocators ==
    /\ At("egm", "ask")
    /\ cursor.nth \notin DOMAIN LocatorsOf[cursor.cat]
    /\ cursor' = NextCategory
    /\ UNCHANGED <<durable, crashes>>

-----------------------------------------------------------------------------
(* recover: one visit per category; reserve_search continues the running   *)
(* hint, otherwise takes the first pending one while the budget lasts.     *)

WithStatus(hs, st) == {i \in DOMAIN hs : hs[i].status = st}

FirstWith(hs, st) ==
    CHOOSE i \in WithStatus(hs, st) : \A j \in WithStatus(hs, st) : i <= j

Started(hs, slot) ==
    [hs EXCEPT ![FirstWith(hs, "pending")] =
        [region |-> @.region, status |-> "running", slot |-> slot]]

Finished(hs) == [hs EXCEPT ![FirstWith(hs, "running")] = [@ EXCEPT !.status = "done"]]

Running(c) == WithStatus(hints[c], "running")
Pending(c) == WithStatus(hints[c], "pending")

Searched(c) == hints[c][FirstWith(hints[c], "running")].region

Resume ==
    /\ At("sweep", "ask")
    /\ Running(cursor.cat) # {}
    /\ AskSam(cursor.cat, Searched(cursor.cat))
    /\ cursor' = Then("add")
    /\ UNCHANGED <<step, fullDone, hints, searches, egm, candidates, crashes, begun>>

CanReserveShared(c) ==  \* mutant: one exhausted category closes the budget of all
    Running(c) = {} /\ (\A d \in Category : searches[d] < SearchLimit) /\ Pending(c) # {}

CanReserveActive(c) == searches[c] < SearchLimit /\ Pending(c) # {}  \* mutant: no retry

CanReserve(c) == Running(c) = {} /\ searches[c] < SearchLimit /\ Pending(c) # {}

ReserveUncounted ==  \* mutant: the slot is not charged
    LET c == cursor.cat
    IN  /\ At("sweep", "ask")
        /\ CanReserve(c)
        /\ hints' = [hints EXCEPT ![c] = Started(@, searches[c] + 1)]
        /\ UNCHANGED <<step, fullDone, searches, sam, egm, candidates, cursor, crashes, begun>>

Reserve ==
    LET c == cursor.cat
    IN  /\ At("sweep", "ask")
        /\ CanReserve(c)
        /\ searches' = [searches EXCEPT ![c] = @ + 1]
        /\ hints' = [hints EXCEPT ![c] = Started(@, searches[c] + 1)]
        /\ UNCHANGED <<step, fullDone, sam, egm, candidates, cursor, crashes, begun>>

SkipSweep ==
    /\ At("sweep", "ask")
    /\ Running(cursor.cat) = {}
    /\ ~CanReserve(cursor.cat)
    /\ cursor' = NextCategory
    /\ UNCHANGED <<durable, crashes>>

AddLocal ==
    LET c == cursor.cat
    IN  /\ At("sweep", "add")
        /\ candidates' = candidates \cup
               Detections(c, "sam31", Searched(c), sam[c][Searched(c)])
        /\ cursor' = Then("mark")
        /\ UNCHANGED <<step, fullDone, hints, searches, sam, egm, crashes, begun>>

MarkLocal ==
    LET c == cursor.cat
    IN  /\ At("sweep", "mark")
        /\ hints' = [hints EXCEPT ![c] = Finished(@)]
        /\ cursor' = NextCategory
        /\ UNCHANGED <<step, fullDone, searches, sam, egm, candidates, crashes, begun>>

(* reground with discover=True: a predicted box near no object becomes a   *)
(* hint, unless it is one already, and in any case an EGM candidate of the *)
(* described object's category.                                            *)
RegroundEvidence ==
    /\ cursor.task = "reground"
    /\ \E c \in Category, p \in Places :
        /\ hints' = [hints EXCEPT ![c] = AddHint(@, p)]
        /\ candidates' = candidates \cup Detections(c, "egm", Full, {p})
    /\ UNCHANGED <<step, fullDone, searches, sam, egm, cursor, crashes, begun>>

-----------------------------------------------------------------------------
(* The last statement of the stage worker: state['step'] = step; save().   *)
StageOver ==
    \/ cursor.task = "reground"
    \/ cursor.task \in {"egm", "sweep"} /\ cursor.cat = NumCategories + 1

EndStage ==
    /\ StageOver
    /\ step' = step + 1
    /\ cursor' = EntryOf(step + 1)
    /\ begun' = searches
    /\ UNCHANGED <<fullDone, hints, searches, sam, egm, candidates, crashes>>

(* The process dies anywhere inside a stage; the next invocation reruns it.*)
Crash ==
    /\ crashes < MaxCrashes
    /\ cursor # EntryOf(step)
    /\ cursor' = EntryOf(step)
    /\ crashes' = crashes + 1
    /\ UNCHANGED durable

Discover == \/ SkipFull \/ AskFull \/ AddFull \/ MarkFull
            \/ BeginLocators \/ AskLocator \/ AddLocator \/ HintUnmatched \/ EndLocators

Recover == Resume \/ Reserve \/ SkipSweep \/ AddLocal \/ MarkLocal

Done == step = LastStep /\ UNCHANGED vars

Next == Discover \/ Recover \/ RegroundEvidence \/ EndStage \/ Crash \/ Done

Spec == Init /\ [][Next]_vars

-----------------------------------------------------------------------------
(* The budget of every category is kept: a hint has a slot exactly when it *)
(* left the pending state, no two hints share a slot or a region, at most  *)
(* one hint is running and it holds the last slot, and there are no more   *)
(* slots than local_search_limit (reserve_search).                         *)
SlotsOK(hs, taken) ==
    /\ \A i \in DOMAIN hs :
        /\ hs[i].status = "pending" <=> hs[i].slot = 0
        /\ hs[i].slot <= taken
        /\ hs[i].status = "running" => hs[i].slot = taken
    /\ \A i, j \in DOMAIN hs :
        hs[i].region = hs[j].region \/ (hs[i].slot = hs[j].slot /\ hs[i].slot # 0) => i = j

SlotsInv ==
    \A c \in Category : searches[c] <= SearchLimit /\ SlotsOK(hints[c], searches[c])

(* Nothing that was found is lost.  Whatever crash fell between an answer  *)
(* and its mark, or between two locators, a search that counts as finished *)
(* has left all its boxes among the candidates (recover, discover); and    *)
(* after discovery every locator of every category has been answered, all  *)
(* its boxes are candidates of the category, and each that no full-image   *)
(* SAM candidate of the category matches is evidence for a local search of *)
(* it (hint_box).                                                          *)
Recorded(c, view) ==
    /\ sam[c][view] # NoAnswer
    /\ Detections(c, "sam31", view, sam[c][view]) \subseteq candidates

Located(c, l) ==
    /\ egm[l] # NoAnswer
    /\ Detections(c, "egm", Full, egm[l]) \subseteq candidates
    /\ egm[l] \subseteq sam[c][Full] \cup Hinted(c)

NothingIsLost ==
    \A c \in Category :
        /\ fullDone[c] => Recorded(c, Full)
        /\ \A i \in DOMAIN hints[c] :
            hints[c][i].status = "done" => Recorded(c, hints[c][i].region)
        /\ step >= 1 => \A l \in Range(LocatorsOf[c]) : Located(c, l)

(* A finished sweep passed no category over: one with evidence left has    *)
(* taken a slot in this sweep or has none left.  And while no crash has    *)
(* interrupted the image, none has taken more than one slot per sweep      *)
(* (role_engine.py:173; a crash lets it take another, see the README).     *)
SweepsAreFair ==
    [][cursor.task = "sweep" /\ step' > step =>
        \A c \in Category :
            /\ Pending(c) # {} => searches[c] = SearchLimit \/ searches[c] > begun[c]
            /\ crashes = 0 => searches[c] <= begun[c] + 1]_vars

(* The categories with a search in progress.                               *)
Searching == [c \in Category |-> Running(c) # {}]

(* The search implements the promise about the budget.                     *)
Budget == INSTANCE SearchBudget WITH
    Limit <- SearchLimit,
    granted <- searches,
    active <- Searching

BudgetSpec == Budget!Spec
=============================================================================
