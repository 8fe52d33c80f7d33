------------------------------ MODULE RoleScene ------------------------------
(***************************************************************************)
(* Category inventory of one image: Engine.scene in                        *)
(* src/src/routes/role_engine.py with the cache of Engine.call.  A page    *)
(* shows the model the categories found so far and asks for more; its      *)
(* proposals become categories one after the other, each with a save.      *)
(*                                                                         *)
(* Every variable but `at` is durable; a crash puts `at` back to the first *)
(* page, and the pages already answered are gone through again.            *)
(***************************************************************************)
EXTENDS Naturals, Sequences, FiniteSets, SequencesExt

CONSTANTS
    Queries,        \* category queries up to case and white space
    Blank,          \* a query of white space only
    Regions,        \* regions a search hint may name
    Pages,          \* category_pages
    MaxProposals,   \* bound on the proposals of one page
    MaxSceneCrashes \* bound on crashes

SceneAssumption ==
    /\ Pages \in Nat \ {0}
    /\ MaxProposals \in Nat
    /\ MaxSceneCrashes \in Nat
    /\ Blank \notin Queries

VARIABLES
    calls,      \* s['calls']: the answered questions of this stage
    pages,      \* s['scene_pages']
    categories, \* s['categories'], in list order
    exhausted,  \* s['category_search_budget_exhausted']
    at,         \* [page, todo, next, result]: where the running stage stands
    falls       \* how many crashes so far

store == <<calls, pages, categories, exhausted>>
sceneVars == <<calls, pages, categories, exhausted, at, falls>>

(* A proposal with at most one search hint.                                *)
Proposal == [query: Queries \cup {Blank}, hints: {{}} \cup {{r} : r \in Regions}]
Answers == [proposals: BoundedSeq(Proposal, MaxProposals), more: BOOLEAN]

NoResult == [proposals |-> <<>>, more |-> TRUE]
PageStart(n) == [page |-> n, todo |-> "read", next |-> 1, result |-> NoResult]
Start == PageStart(1)

Init ==
    /\ calls = {}
    /\ pages = <<>>
    /\ categories = <<>>
    /\ exhausted = FALSE
    /\ at = Start
    /\ falls = 0

Seen(cats) == [i \in DOMAIN cats |-> cats[i].query]

Question == [page |-> at.page, seen |-> Seen(categories)]

(* A page whose answer is saved is not asked again, whatever the           *)
(* categories are by now.                                                  *)
Reread ==
    /\ at.todo = "read" /\ at.page <= Len(pages)
    /\ at' = [at EXCEPT !.todo = "take", !.result = pages[at.page]]
    /\ UNCHANGED <<store, falls>>

(* Engine.call: a question asked before is answered by the cache.          *)
Ask ==
    /\ at.todo = "read" /\ at.page > Len(pages)
    /\ \E answer \in Answers :
        /\ \A c \in calls : c.question = Question => c.answer = answer
        /\ calls' = calls \cup {[question |-> Question, answer |-> answer]}
        /\ at' = [at EXCEPT !.todo = "keep", !.result = answer]
    /\ UNCHANGED <<pages, categories, exhausted, falls>>

KeepNothing ==  \* mutant: the answer of a page is not kept as a page
    /\ at.todo = "keep"
    /\ at' = [at EXCEPT !.todo = "take"]
    /\ UNCHANGED <<store, falls>>

Keep ==
    /\ at.todo = "keep"
    /\ pages' = Append(pages, at.result)
    /\ at' = [at EXCEPT !.todo = "take"]
    /\ UNCHANGED <<calls, categories, exhausted, falls>>

Taken == at.next > Len(at.result.proposals)

IsNew(cats, p) == p.query # Blank /\ \A i \in DOMAIN cats : cats[i].query # p.query

(* One proposal: a new category with its hints, or nothing.                *)
Take ==
    /\ at.todo = "take" /\ ~Taken
    /\ LET p == at.result.proposals[at.next]
       IN  categories' = IF IsNew(categories, p) THEN Append(categories, p) ELSE categories
    /\ at' = [at EXCEPT !.next = @ + 1]
    /\ UNCHANGED <<calls, pages, exhausted, falls>>

TurnPage ==
    /\ at.todo = "take" /\ Taken
    /\ at.result.more /\ at.page < Pages
    /\ at' = PageStart(at.page + 1)
    /\ UNCHANGED <<store, falls>>

Conclude ==
    /\ at.todo = "take" /\ Taken
    /\ at.result.more => at.page = Pages
    /\ exhausted' = at.result.more
    /\ at' = [at EXCEPT !.todo = "end"]
    /\ UNCHANGED <<calls, pages, categories, falls>>

Crash ==
    /\ falls < MaxSceneCrashes
    /\ at # Start
    /\ at' = Start
    /\ falls' = falls + 1
    /\ UNCHANGED store

Next == Reread \/ Ask \/ Keep \/ Take \/ TurnPage \/ Conclude \/ Crash

-----------------------------------------------------------------------------
(* What the answers of the pages amount to, proposals in their order.      *)
Inventory(answers) ==
    LET Proposed == FlattenSeq([i \in DOMAIN answers |-> answers[i].proposals])
    IN  FoldLeft(LAMBDA cats, p : IF IsNew(cats, p) THEN Append(cats, p) ELSE cats,
                 <<>>, Proposed)

(* An interrupted inventory is the same as one that was not interrupted    *)
(* (role_engine.py:45): every page is asked exactly once, and its question *)
(* shows all categories of the pages before it and none of its own; the    *)
(* categories are what the pages propose, each once, with the hints of its *)
(* first proposal; and the budget is reported exhausted exactly when the   *)
(* last page still announced more.                                         *)
InventoryIsUninterrupted ==
    /\ \A c \in calls :
        /\ c.question.page \in 1..(Len(pages) + 1)
        /\ c.question.seen = Seen(Inventory(SubSeq(pages, 1, c.question.page - 1)))
    /\ Cardinality(calls) \in {Len(pages), Len(pages) + 1}
    /\ at.todo = "end" =>
        /\ categories = Inventory(pages)
        /\ \A i \in DOMAIN pages : pages[i].more <=> i < Len(pages) \/ exhausted
        /\ exhausted => Len(pages) = Pages
=============================================================================
