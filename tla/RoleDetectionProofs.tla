------------------------ MODULE RoleDetectionProofs ------------------------
(***************************************************************************)
(* Proofs about the detection on one image: first RoleSearch, for every    *)
(* number of categories, set of places, budget, number of rounds and of    *)
(* crashes; then RoleObjects, for all candidates, boxes, rounds and        *)
(* crashes.                                                                *)
(***************************************************************************)
EXTENDS RoleSearch, RoleObjects, SequenceTheorems, FiniteSetTheorems, WellFoundedInduction, TLAPS

-----------------------------------------------------------------------------
(* The first hint with a status exists when there is one at all, and it is *)
(* a hint of the list with that status (the next(...) of reserve_search).  *)
LEMMA FirstWithIsOne ==
    ASSUME NEW hs \in Seq(Hint), NEW st, WithStatus(hs, st) # {}
    PROVE  FirstWith(hs, st) \in WithStatus(hs, st)
<1> DEFINE Less == {ss \in Nat \X Nat : ss[1] < ss[2]}
           T == WithStatus(hs, st)
<1>1. T \subseteq Nat
  BY DEF WithStatus
<1>2. IsWellFoundedOn(Less, Nat)
  BY NatLessThanWellFounded DEF OpToRel
<1>3. \E i \in T : \A j \in T : <<j, i>> \notin Less
  <2> HIDE DEF Less, T
  <2> QED BY <1>1, <1>2, WFMin DEF T
<1>4. PICK i \in T : \A j \in T : <<j, i>> \notin Less
  BY <1>3
<1>5. \A j \in T : i <= j
  <2> TAKE j \in T
  <2>1. i \in Nat /\ j \in Nat
    BY <1>1
  <2>2. ~(j < i)
    BY <2>1, <1>4
  <2> QED BY <2>1, <2>2
<1>6. QED
  BY <1>5 DEF FirstWith

-----------------------------------------------------------------------------
(* What the operators on one hint list do to it.                           *)

(* Appending unsearched hints of new, distinct regions keeps the slots.    *)
LEMMA MoreHints ==
    ASSUME NEW hs \in Seq(Hint), NEW taken \in Nat, SlotsOK(hs, taken),
           NEW more \in Seq(Hint),
           \A k \in DOMAIN more :
               /\ more[k].status = "pending" /\ more[k].slot = 0
               /\ \A i \in DOMAIN hs : hs[i].region # more[k].region,
           \A k, l \in DOMAIN more : more[k].region = more[l].region => k = l
    PROVE  /\ hs \o more \in Seq(Hint)
           /\ SlotsOK(hs \o more, taken)
           /\ WithStatus(hs \o more, "running") = WithStatus(hs, "running")
<1> DEFINE all == hs \o more
<1>1. /\ all \in Seq(Hint)
      /\ Len(all) = Len(hs) + Len(more)
      /\ \A i \in 1..(Len(hs) + Len(more)) :
            all[i] = IF i <= Len(hs) THEN hs[i] ELSE more[i - Len(hs)]
  BY ConcatProperties
<1>2. /\ DOMAIN all = 1..Len(all) /\ DOMAIN hs = 1..Len(hs)
      /\ DOMAIN more = 1..Len(more) /\ Len(hs) \in Nat /\ Len(more) \in Nat
  BY <1>1, LenProperties
<1>3. \A i \in DOMAIN all :
        \/ i \in DOMAIN hs /\ all[i] = hs[i]
        \/ /\ i \notin DOMAIN hs
           /\ i - Len(hs) \in DOMAIN more /\ all[i] = more[i - Len(hs)]
  BY <1>1, <1>2
<1>4. DOMAIN hs \subseteq DOMAIN all
  BY <1>1, <1>2
<1> HIDE DEF all
<1>5. SlotsOK(all, taken)
  <2>1. ASSUME NEW i \in DOMAIN all
        PROVE  /\ all[i].status = "pending" <=> all[i].slot = 0
               /\ all[i].slot <= taken
               /\ all[i].status = "running" => all[i].slot = taken
    BY <1>3 DEF SlotsOK
  <2>2. ASSUME NEW i \in DOMAIN all, NEW j \in DOMAIN all,
               all[i].region = all[j].region
                   \/ (all[i].slot = all[j].slot /\ all[i].slot # 0)
        PROVE  i = j
    <3>1. CASE i \in DOMAIN hs /\ j \in DOMAIN hs
      BY <1>3, <2>2, <3>1 DEF SlotsOK
    <3>2. CASE i \in DOMAIN hs /\ j \notin DOMAIN hs
      BY <1>3, <2>2, <3>2
    <3>3. CASE i \notin DOMAIN hs /\ j \in DOMAIN hs
      BY <1>3, <2>2, <3>3
    <3>4. CASE i \notin DOMAIN hs /\ j \notin DOMAIN hs
      <4>1. i - Len(hs) = j - Len(hs)
        BY <1>3, <2>2, <3>4
      <4> QED BY <4>1, <1>2
    <3> QED BY <3>1, <3>2, <3>3, <3>4
  <2> QED BY <2>1, <2>2 DEF SlotsOK
<1>6. WithStatus(all, "running") = WithStatus(hs, "running")
  BY <1>3, <1>4 DEF WithStatus
<1> QED BY <1>1, <1>5, <1>6 DEF all

(* add_hint leaves a list alone or extends it by one unsearched hint.      *)
LEMMA OneMoreHint ==
    ASSUME NEW hs \in Seq(Hint), NEW taken \in Nat, SlotsOK(hs, taken),
           NEW p \in Places
    PROVE  /\ AddHint(hs, p) \in Seq(Hint)
           /\ SlotsOK(AddHint(hs, p), taken)
           /\ WithStatus(AddHint(hs, p), "running") = WithStatus(hs, "running")
<1>1. CASE \E i \in DOMAIN hs : hs[i].region = p
  BY <1>1 DEF AddHint
<1>2. CASE \A i \in DOMAIN hs : hs[i].region # p
  <2>1. NewHint(p) \in Hint /\ <<NewHint(p)>> \in Seq(Hint)
    BY DEF NewHint, Hint
  <2>2. AddHint(hs, p) = hs \o <<NewHint(p)>>
    BY <1>2, <2>1, AppendIsConcat DEF AddHint
  <2> DEFINE more == <<NewHint(p)>>
  <2>3. /\ DOMAIN more = {1} /\ more[1].status = "pending"
        /\ more[1].slot = 0 /\ more[1].region = p
    BY DEF NewHint
  <2>4. more \in Seq(Hint)
    BY <2>1
  <2> HIDE DEF more
  <2>5. \A k, l \in DOMAIN more : k = l
    BY <2>3
  <2>6. \A k \in DOMAIN more :
          /\ more[k].status = "pending" /\ more[k].slot = 0
          /\ \A i \in DOMAIN hs : hs[i].region # more[k].region
    BY <1>2, <2>3
  <2> QED BY <2>2, <2>4, <2>5, <2>6, MoreHints DEF more
<1> QED BY <1>1, <1>2

(* Any order of new places extends the list likewise (end of discover).    *)
LEMMA OrderedHints ==
    ASSUME NEW hs \in Seq(Hint), NEW taken \in Nat, SlotsOK(hs, taken),
           NEW S, S \subseteq Places, NEW order \in Orders(S),
           \A i \in DOMAIN hs : hs[i].region \notin S
    PROVE  /\ hs \o HintsOf(order) \in Seq(Hint)
           /\ SlotsOK(hs \o HintsOf(order), taken)
           /\ WithStatus(hs \o HintsOf(order), "running") = WithStatus(hs, "running")
<1>1. IsFiniteSet(S) /\ Cardinality(S) \in Nat
  BY PlacesAssumption, FS_Subset, FS_CardinalityType
<1>2. /\ order \in [1..Cardinality(S) -> S]
      /\ \A k, l \in 1..Cardinality(S) : order[k] = order[l] => k = l
  BY DEF Orders, Bijection, Injection, IsInjective
<1> DEFINE more == HintsOf(order)
<1>3. /\ more = [k \in 1..Cardinality(S) |-> NewHint(order[k])]
      /\ \A k \in 1..Cardinality(S) : NewHint(order[k]) \in Hint
  BY <1>2 DEF HintsOf, NewHint, Hint
<1>4. more \in Seq(Hint) /\ DOMAIN more = 1..Cardinality(S)
  BY <1>1, <1>3
<1>5. \A k \in DOMAIN more :
        /\ more[k].status = "pending" /\ more[k].slot = 0
        /\ more[k].region = order[k] /\ more[k].region \in S
  BY <1>2, <1>3, <1>4 DEF NewHint
<1> HIDE DEF more
<1>6. \A k, l \in DOMAIN more : more[k].region = more[l].region => k = l
  BY <1>2, <1>4, <1>5
<1>7. \A k \in DOMAIN more : \A i \in DOMAIN hs : hs[i].region # more[k].region
  BY <1>5
<1> QED BY <1>4, <1>5, <1>6, <1>7, MoreHints DEF more

(* Reserving takes the next slot and leaves exactly one hint running.      *)
LEMMA StartOne ==
    ASSUME NEW hs \in Seq(Hint), NEW taken \in Nat, SlotsOK(hs, taken),
           WithStatus(hs, "running") = {}, WithStatus(hs, "pending") # {}
    PROVE  /\ Started(hs, taken + 1) \in Seq(Hint)
           /\ SlotsOK(Started(hs, taken + 1), taken + 1)
           /\ WithStatus(Started(hs, taken + 1), "running") # {}
<1> DEFINE i == FirstWith(hs, "pending")
           h == [region |-> hs[i].region, status |-> "running", slot |-> taken + 1]
           new == Started(hs, taken + 1)
<1>1. i \in DOMAIN hs /\ hs[i].status = "pending"
  BY FirstWithIsOne DEF WithStatus
<1> HIDE DEF i
<1>2. /\ DOMAIN hs = 1..Len(hs) /\ \A k \in DOMAIN hs : hs[k] \in Hint
      /\ hs[i] \in Hint
  BY <1>1, LenProperties, ElementOfSeq
<1>3. /\ h \in Hint /\ h.status = "running" /\ h.slot = taken + 1
      /\ h.region = hs[i].region
  BY <1>1, <1>2 DEF Hint
<1>4. new = [hs EXCEPT ![i] = h]
  BY DEF Started, i
<1>5. /\ new \in Seq(Hint) /\ DOMAIN new = DOMAIN hs
      /\ \A k \in DOMAIN hs : new[k] = IF k = i THEN h ELSE hs[k]
  <2> HIDE DEF h, new
  <2> QED BY <1>1, <1>2, <1>3, <1>4, ExceptSeq, LenProperties
<1> HIDE DEF new, h
<1>6. \A k \in DOMAIN hs : hs[k].slot \in Nat /\ hs[k].slot <= taken
                           /\ hs[k].status # "running"
  BY <1>2 DEF SlotsOK, WithStatus, Hint
<1>7. SlotsOK(new, taken + 1)
  <2>1. ASSUME NEW k \in DOMAIN new
        PROVE  /\ new[k].status = "pending" <=> new[k].slot = 0
               /\ new[k].slot <= taken + 1
               /\ new[k].status = "running" => new[k].slot = taken + 1
    BY <1>3, <1>5, <1>6 DEF SlotsOK
  <2>2. ASSUME NEW k \in DOMAIN new, NEW l \in DOMAIN new,
               new[k].region = new[l].region
                   \/ (new[k].slot = new[l].slot /\ new[k].slot # 0)
        PROVE  k = l
    BY <1>1, <1>3, <1>5, <1>6, <2>2 DEF SlotsOK
  <2> QED BY <2>1, <2>2 DEF SlotsOK
<1>8. i \in WithStatus(new, "running")
  BY <1>1, <1>3, <1>5 DEF WithStatus
<1> QED BY <1>5, <1>7, <1>8 DEF new

(* Marking ends the one running hint and changes no slot.                  *)
LEMMA FinishOne ==
    ASSUME NEW hs \in Seq(Hint), NEW taken \in Nat, SlotsOK(hs, taken),
           WithStatus(hs, "running") # {}
    PROVE  /\ Finished(hs) \in Seq(Hint)
           /\ SlotsOK(Finished(hs), taken)
           /\ WithStatus(Finished(hs), "running") = {}
<1> DEFINE i == FirstWith(hs, "running")
           h == [hs[i] EXCEPT !.status = "done"]
           new == Finished(hs)
<1>1. i \in DOMAIN hs /\ hs[i].status = "running"
  BY FirstWithIsOne DEF WithStatus
<1> HIDE DEF i
<1>2. /\ DOMAIN hs = 1..Len(hs) /\ \A k \in DOMAIN hs : hs[k] \in Hint
      /\ hs[i] \in Hint
  BY <1>1, LenProperties, ElementOfSeq
<1>3. /\ h \in Hint /\ h.status = "done" /\ h.slot = hs[i].slot
      /\ h.region = hs[i].region
  BY <1>1, <1>2 DEF Hint
<1>4. new = [hs EXCEPT ![i] = h]
  BY DEF Finished, i
<1>5. /\ new \in Seq(Hint) /\ DOMAIN new = DOMAIN hs
      /\ \A k \in DOMAIN hs : new[k] = IF k = i THEN h ELSE hs[k]
  <2> HIDE DEF h, new
  <2> QED BY <1>1, <1>2, <1>3, <1>4, ExceptSeq, LenProperties
<1> HIDE DEF new, h
<1>6. SlotsOK(new, taken)
  <2>1. ASSUME NEW k \in DOMAIN new
        PROVE  /\ new[k].status = "pending" <=> new[k].slot = 0
               /\ new[k].slot <= taken
               /\ new[k].status = "running" => new[k].slot = taken
    BY <1>1, <1>3, <1>5 DEF SlotsOK
  <2>2. ASSUME NEW k \in DOMAIN new, NEW l \in DOMAIN new,
               new[k].region = new[l].region
                   \/ (new[k].slot = new[l].slot /\ new[k].slot # 0)
        PROVE  k = l
    BY <1>1, <1>3, <1>5, <2>2 DEF SlotsOK
  <2> QED BY <2>1, <2>2 DEF SlotsOK
<1>7. \A k \in DOMAIN hs : k # i => hs[k].status # "running"
  <2> SUFFICES ASSUME NEW k \in DOMAIN hs, hs[k].status = "running"
               PROVE  k = i
    OBVIOUS
  <2>1. hs[k].slot = hs[i].slot /\ hs[k].slot # 0
    BY <1>1 DEF SlotsOK
  <2> QED BY <1>1, <2>1 DEF SlotsOK
<1>8. WithStatus(new, "running") = {}
  BY <1>3, <1>5, <1>7 DEF WithStatus
<1> QED BY <1>5, <1>6, <1>8 DEF new

-----------------------------------------------------------------------------
(* The inductive invariant: types, slots, and where the cursor can stand.  *)

(* The cursor is in the stage that comes next; between a model call and the*)
(* mark that ends its use the answer is cached, and the hint of a local    *)
(* search is running.                                                      *)
PhaseInv ==
    /\ cursor.task = Stage(step + 1) \/ (cursor.task = "egm" /\ Stage(step + 1) = "full")
    /\ cursor.todo # "ask" =>
        /\ cursor.cat \in Category
        /\ cursor.task = "full" => sam[cursor.cat][Full] # NoAnswer
        /\ cursor.task = "egm" => /\ cursor.nth \in DOMAIN LocatorsOf[cursor.cat]
                                 /\ egm[Asking] # NoAnswer
        /\ cursor.task = "sweep" => /\ Running(cursor.cat) # {}
                                   /\ sam[cursor.cat][Searched(cursor.cat)] # NoAnswer

IInv == TypeOK /\ SlotsInv /\ PhaseInv

LEMMA StageOrder ==
    ASSUME NEW n \in Nat
    PROVE  /\ Stage(n + 1) \in {"full", "sweep", "reground", "end"}
           /\ LastStep \in Nat
           /\ n <= LastStep /\ Stage(n + 1) # "end" => n + 1 <= LastStep
BY SizesAssumption DEF Stage, LastStep

LEMMA BeginningOK ==
    ASSUME NEW task \in {"full", "egm", "sweep", "reground", "end"}
    PROVE  /\ BeginningOf(task) \in Cursor /\ BeginningOf(task).task = task
           /\ BeginningOf(task).cat = 1 /\ BeginningOf(task).nth = 1
           /\ BeginningOf(task).todo = "ask"
BY SizesAssumption DEF BeginningOf, Cursor

LEMMA EntryOK ==
    ASSUME NEW n \in Nat
    PROVE  /\ EntryOf(n) \in Cursor /\ EntryOf(n).task = Stage(n + 1)
           /\ EntryOf(n).cat = 1 /\ EntryOf(n).todo = "ask"
BY StageOrder, BeginningOK DEF EntryOf

LEMMA CursorMoves ==
    ASSUME cursor \in Cursor, cursor.cat \in Category
    PROVE  /\ NextCategory \in Cursor /\ NextCategory.task = cursor.task
           /\ NextCategory.todo = "ask" /\ NextCategory.cat = cursor.cat + 1
           /\ NextLocator \in Cursor /\ NextLocator.task = cursor.task
           /\ NextLocator.todo = "ask" /\ NextLocator.cat = cursor.cat
           /\ NextLocator.nth = cursor.nth + 1
           /\ \A t \in {"ask", "add", "mark"} :
                /\ Then(t) \in Cursor /\ Then(t).task = cursor.task
                /\ Then(t).cat = cursor.cat /\ Then(t).nth = cursor.nth /\ Then(t).todo = t
<1>1. /\ cursor.task \in {"full", "egm", "sweep", "reground", "end"}
      /\ cursor.cat \in 1..(NumCategories + 1) /\ cursor.nth \in Nat \ {0}
      /\ cursor = [task |-> cursor.task, cat |-> cursor.cat, nth |-> cursor.nth,
                   todo |-> cursor.todo]
  BY DEF Cursor
<1>2. cursor.cat + 1 \in 1..(NumCategories + 1) /\ cursor.nth + 1 \in Nat \ {0}
  BY <1>1, SizesAssumption DEF Category
<1>3. /\ NextCategory \in Cursor /\ NextCategory.task = cursor.task
      /\ NextCategory.todo = "ask" /\ NextCategory.cat = cursor.cat + 1
  BY <1>1, <1>2 DEF Cursor, NextCategory
<1>4. /\ NextLocator \in Cursor /\ NextLocator.task = cursor.task
      /\ NextLocator.todo = "ask" /\ NextLocator.cat = cursor.cat
      /\ NextLocator.nth = cursor.nth + 1
  BY <1>1, <1>2 DEF Cursor, NextLocator
<1>5. \A t \in {"ask", "add", "mark"} :
        Then(t) = [task |-> cursor.task, cat |-> cursor.cat, nth |-> cursor.nth, todo |-> t]
  BY <1>1 DEF Then
<1> QED BY <1>1, <1>2, <1>3, <1>4, <1>5 DEF Cursor

(* The locator at the cursor is one of the category's.                     *)
LEMMA AskingOK ==
    ASSUME cursor.cat \in Category, cursor.nth \in DOMAIN LocatorsOf[cursor.cat]
    PROVE  /\ Asking \in Locator /\ Asking \in Range(LocatorsOf[cursor.cat])
           /\ Asking = LocatorsOf[cursor.cat][cursor.nth]
BY LocatorsAssumption DEF Asking, Category, Range

LEMMA AskingStays ==
    ASSUME UNCHANGED <<cursor.cat, cursor.nth>>
    PROVE  Asking' = Asking
BY DEF Asking

LEMMA InitIInv == Init => IInv
<1> SUFFICES ASSUME Init PROVE IInv
  OBVIOUS
<1>1. ASSUME NEW c \in Category
      PROVE  hints[c] \in Seq(Hint) /\ SlotsOK(hints[c], 0)
  <2>1. <<>> \in Seq(Hint) /\ SlotsOK(<<>>, 0)
    BY DEF SlotsOK
  <2>2. ASSUME NEW p \in Places
        PROVE  AddHint(<<>>, p) \in Seq(Hint) /\ SlotsOK(AddHint(<<>>, p), 0)
    BY <2>1, OneMoreHint
  <2> QED BY <2>1, <2>2 DEF Init
<1>2. hints \in [Category -> Seq(Hint)]
  <2> SUFFICES hints = [c \in Category |-> hints[c]]
    BY <1>1
  <2> QED BY DEF Init
<1>3. TypeOK
  BY <1>2, EntryOK, StageOrder, SizesAssumption DEF Init, TypeOK, Answer
<1>4. SlotsInv
  BY <1>1, SizesAssumption DEF Init, SlotsInv
<1>5. PhaseInv
  BY EntryOK DEF Init, PhaseInv
<1> QED BY <1>3, <1>4, <1>5 DEF IInv

-----------------------------------------------------------------------------
(* A step of the search changes the hints of at most one category, and is  *)
(* a step of SearchBudget or invisible to it.                              *)
BudgetStep == [Budget!Next]_<<searches, Searching>>

LEMMA HintsChange ==
    ASSUME TypeOK, SlotsInv, NEW c \in Category, NEW new \in Seq(Hint), NEW n \in Nat,
           hints' = [hints EXCEPT ![c] = new], searches' = [searches EXCEPT ![c] = n],
           SlotsOK(new, n), n <= SearchLimit
    PROVE  /\ hints' \in [Category -> Seq(Hint)]
           /\ searches' \in [Category -> Nat]
           /\ SlotsInv'
           /\ Searching' = [Searching EXCEPT ![c] = WithStatus(new, "running") # {}]
           /\ Running(c)' = WithStatus(new, "running")
<1>1. \A d \in Category : hints'[d] = IF d = c THEN new ELSE hints[d]
  BY DEF TypeOK
<1>2. \A d \in Category : searches'[d] = IF d = c THEN n ELSE searches[d]
  BY DEF TypeOK
<1>3. hints' \in [Category -> Seq(Hint)] /\ searches' \in [Category -> Nat]
  BY DEF TypeOK
<1>4. SlotsInv'
  <2> SUFFICES ASSUME NEW d \in Category
               PROVE  searches'[d] <= SearchLimit /\ SlotsOK(hints'[d], searches'[d])
    BY DEF SlotsInv
  <2> QED BY <1>1, <1>2 DEF SlotsInv
<1>5. \A d \in Category :
        Running(d)' = IF d = c THEN WithStatus(new, "running") ELSE Running(d)
  BY <1>1 DEF Running, WithStatus
<1>6. Searching' = [Searching EXCEPT ![c] = WithStatus(new, "running") # {}]
  <2>1. Searching' = [d \in Category |-> Running(d)' # {}]
    BY DEF Searching
  <2> QED BY <2>1, <1>5, Zenon DEF Searching
<1> QED BY <1>3, <1>4, <1>5, <1>6

(* The case in which the budget and the running hint are left alone.       *)
LEMMA HintsGrow ==
    ASSUME TypeOK, SlotsInv, NEW c \in Category, NEW new \in Seq(Hint),
           hints' = [hints EXCEPT ![c] = new], searches' = searches,
           SlotsOK(new, searches[c]),
           WithStatus(new, "running") = Running(c)
    PROVE  hints' \in [Category -> Seq(Hint)] /\ SlotsInv' /\ BudgetStep
<1>1. searches' = [searches EXCEPT ![c] = searches[c]] /\ searches[c] \in Nat
      /\ searches[c] <= SearchLimit
  BY DEF TypeOK, SlotsInv
<1>2. /\ hints' \in [Category -> Seq(Hint)] /\ SlotsInv'
      /\ Searching' = [Searching EXCEPT ![c] = Running(c) # {}]
  BY <1>1, HintsChange
<1>3. Searching' = Searching
  BY <1>2, Zenon DEF Searching
<1> QED BY <1>2, <1>3 DEF BudgetStep

LEMMA HintsStay ==
    ASSUME TypeOK, SlotsInv, UNCHANGED <<hints, searches>>
    PROVE  hints' \in [Category -> Seq(Hint)] /\ SlotsInv' /\ BudgetStep
BY DEF TypeOK, SlotsInv, Searching, Running, WithStatus, SlotsOK, BudgetStep

LEMMA SearchedStays ==
    ASSUME UNCHANGED hints
    PROVE  \A c : Running(c)' = Running(c) /\ Searched(c)' = Searched(c)
BY DEF Running, Searched

LEMMA DetectionsOK ==
    ASSUME NEW c \in Category, NEW source \in {"sam31", "egm"}, NEW view \in View,
           NEW places \in Answer, places # NoAnswer
    PROVE  Detections(c, source, view, places) \subseteq Candidate
BY DEF Detections, Candidate, Answer

(* A SAM call leaves the asked view answered.                              *)
LEMMA Asked ==
    ASSUME TypeOK, NEW c \in Category, NEW view \in View, AskSam(c, view)
    PROVE  sam' \in [Category -> [View -> Answer]] /\ sam'[c][view] # NoAnswer
<1>1. PICK answer \in SUBSET Places : sam' = [sam EXCEPT ![c][view] = answer]
  BY DEF AskSam
<1>2. answer \in Answer /\ answer # NoAnswer
  BY PlacesAssumption DEF Answer, NoAnswer
<1> QED BY <1>1, <1>2 DEF TypeOK

(* The region searched next belongs to the image.                          *)
LEMMA SearchedOK ==
    ASSUME TypeOK, NEW c \in Category, Running(c) # {}
    PROVE  Searched(c) \in View
<1>1. hints[c] \in Seq(Hint)
  BY DEF TypeOK
<1>2. FirstWith(hints[c], "running") \in DOMAIN hints[c]
  BY <1>1, FirstWithIsOne DEF Running, WithStatus
<1>3. hints[c][FirstWith(hints[c], "running")] \in Hint
  BY <1>1, <1>2
<1> QED BY <1>3 DEF Searched, Hint, View

-----------------------------------------------------------------------------
(* Every action preserves the invariant and implements the budget.         *)
Kept == IInv' /\ BudgetStep

LEMMA DiscoverKept == IInv /\ Discover => Kept
<1> SUFFICES ASSUME IInv, Discover PROVE Kept
  OBVIOUS
<1> USE DEF IInv
<1>0. Full \in View /\ cursor \in Cursor /\ hints \in [Category -> Seq(Hint)]
  BY DEF View, TypeOK
<1>1. CASE SkipFull
  <2>1. UNCHANGED durable /\ cursor' = NextCategory /\ UNCHANGED crashes
        /\ cursor.cat \in Category
    BY <1>1 DEF SkipFull, At
  <2>2. TypeOK' /\ PhaseInv'
    BY <2>1, CursorMoves DEF TypeOK, PhaseInv, durable
  <2> QED BY <2>1, <2>2, HintsStay DEF Kept, durable
<1>2. CASE AskFull
  <2>1. /\ At("full", "ask") /\ cursor' = Then("add") /\ AskSam(cursor.cat, Full)
        /\ UNCHANGED <<step, fullDone, hints, searches, egm, candidates, crashes, begun>>
        /\ cursor.cat \in Category
    BY <1>2 DEF AskFull, At
  <2>2. sam' \in [Category -> [View -> Answer]] /\ sam'[cursor.cat][Full] # NoAnswer
    BY <1>0, <2>1, Asked
  <2>3. TypeOK' /\ PhaseInv'
    BY <2>1, <2>2, CursorMoves DEF TypeOK, PhaseInv, At
  <2> QED BY <2>1, <2>3, HintsStay DEF Kept
<1>3. CASE AddFull
  <2>1. /\ At("full", "add") /\ cursor' = Then("mark") /\ cursor.cat \in Category
        /\ candidates' = candidates \cup
              Detections(cursor.cat, "sam31", Full, sam[cursor.cat][Full])
        /\ UNCHANGED <<step, fullDone, hints, searches, sam, egm, crashes, begun>>
    BY <1>3 DEF AddFull, At
  <2>2. candidates' \subseteq Candidate
    BY <1>0, <2>1, DetectionsOK DEF TypeOK, PhaseInv, At
  <2>3. TypeOK' /\ PhaseInv'
    BY <2>1, <2>2, CursorMoves DEF TypeOK, PhaseInv, At
  <2> QED BY <2>1, <2>3, HintsStay DEF Kept
<1>4. CASE MarkFull
  <2>1. /\ At("full", "mark") /\ cursor' = NextCategory /\ cursor.cat \in Category
        /\ fullDone' = [fullDone EXCEPT ![cursor.cat] = TRUE]
        /\ UNCHANGED <<step, hints, searches, sam, egm, candidates, crashes, begun>>
    BY <1>4 DEF MarkFull, At
  <2>2. TypeOK' /\ PhaseInv'
    BY <2>1, CursorMoves DEF TypeOK, PhaseInv, At
  <2> QED BY <2>1, <2>2, HintsStay DEF Kept
<1>5. CASE BeginLocators
  <2>1. /\ cursor.task = "full" /\ UNCHANGED durable /\ UNCHANGED crashes
        /\ cursor' = BeginningOf("egm")
    BY <1>5 DEF BeginLocators
  <2>2. cursor' \in Cursor /\ cursor'.task = "egm" /\ cursor'.todo = "ask"
    BY <2>1, BeginningOK
  <2>3. TypeOK' /\ PhaseInv'
    BY <2>1, <2>2 DEF TypeOK, PhaseInv, durable, Stage
  <2> QED BY <2>1, <2>3, HintsStay DEF Kept, durable
<1>6. CASE AskLocator
  <2>1. /\ At("egm", "ask") /\ cursor' = Then("add") /\ cursor.cat \in Category
        /\ cursor.nth \in DOMAIN LocatorsOf[cursor.cat]
        /\ UNCHANGED <<step, fullDone, hints, searches, sam, candidates, crashes, begun>>
    BY <1>6 DEF AskLocator, AtLocator, At
  <2>2. PICK answer \in SUBSET Places : egm' = [egm EXCEPT ![Asking] = answer]
    BY <1>6 DEF AskLocator
  <2>3. cursor'.cat = cursor.cat /\ cursor'.nth = cursor.nth /\ Asking \in Locator
    BY <1>0, <2>1, CursorMoves, AskingOK
  <2>4. egm' \in [Locator -> Answer] /\ egm'[Asking] # NoAnswer
    BY <2>2, <2>3, PlacesAssumption DEF TypeOK, Answer, NoAnswer
  <2>5. Asking' = Asking
    BY <2>3, AskingStays
  <2>6. TypeOK' /\ PhaseInv'
    BY <2>1, <2>3, <2>4, <2>5, CursorMoves DEF TypeOK, PhaseInv, At
  <2> QED BY <2>1, <2>6, HintsStay DEF Kept
<1>7. CASE AddLocator
  <2>1. /\ At("egm", "add") /\ cursor' = Then("mark") /\ cursor.cat \in Category
        /\ cursor.nth \in DOMAIN LocatorsOf[cursor.cat]
        /\ candidates' = candidates \cup Detections(cursor.cat, "egm", Full, egm[Asking])
        /\ UNCHANGED <<step, fullDone, hints, searches, sam, egm, crashes, begun>>
    BY <1>7 DEF AddLocator, AtLocator, At
  <2>2. /\ cursor'.cat = cursor.cat /\ cursor'.nth = cursor.nth /\ Asking \in Locator
        /\ egm[Asking] # NoAnswer /\ egm[Asking] \in Answer
    BY <1>0, <2>1, CursorMoves, AskingOK DEF PhaseInv, At, TypeOK
  <2>3. Asking' = Asking
    BY <2>2, AskingStays
  <2>4. candidates' \subseteq Candidate
    BY <1>0, <2>1, <2>2, DetectionsOK DEF TypeOK
  <2>5. TypeOK' /\ PhaseInv'
    BY <2>1, <2>2, <2>3, <2>4, CursorMoves DEF TypeOK, PhaseInv, At
  <2> QED BY <2>1, <2>5, HintsStay DEF Kept
<1>8. CASE HintUnmatched
  <2> DEFINE c == cursor.cat
             S == Unmatched(c, Asking) \ Hinted(c)
  <2>1. /\ At("egm", "mark") /\ cursor' = NextLocator /\ c \in Category
        /\ cursor.nth \in DOMAIN LocatorsOf[c]
        /\ UNCHANGED <<step, fullDone, searches, sam, egm, candidates, crashes, begun>>
    BY <1>8 DEF HintUnmatched, AtLocator, At
  <2>2. PICK order \in Orders(S) :
          hints' = [hints EXCEPT ![c] = hints[c] \o HintsOf(order)]
    BY <1>8 DEF HintUnmatched
  <2>3. S \subseteq Places
    <3>1. Asking \in Locator /\ egm[Asking] # NoAnswer /\ egm[Asking] \in Answer
      BY <2>1, AskingOK DEF PhaseInv, At, TypeOK
    <3> QED BY <3>1 DEF Unmatched, Answer
  <2>4. hints[c] \in Seq(Hint) /\ searches[c] \in Nat /\ SlotsOK(hints[c], searches[c])
    BY <2>1 DEF TypeOK, SlotsInv
  <2>5. \A i \in DOMAIN hints[c] : hints[c][i].region \notin S
    BY DEF Hinted
  <2> DEFINE new == hints[c] \o HintsOf(order)
  <2>6. /\ new \in Seq(Hint) /\ SlotsOK(new, searches[c])
        /\ WithStatus(new, "running") = Running(c)
    <3> HIDE DEF S, c
    <3> QED BY <2>2, <2>3, <2>4, <2>5, OrderedHints DEF Running
  <2> HIDE DEF new
  <2>7. hints' = [hints EXCEPT ![c] = new]
    BY <2>2 DEF new
  <2>8. hints' \in [Category -> Seq(Hint)] /\ SlotsInv' /\ BudgetStep
    BY <2>1, <2>6, <2>7, HintsGrow
  <2>9. TypeOK' /\ PhaseInv'
    BY <2>1, <2>8, CursorMoves DEF TypeOK, PhaseInv, At
  <2> QED BY <2>8, <2>9 DEF Kept
<1>9. CASE EndLocators
  <2>1. UNCHANGED durable /\ cursor' = NextCategory /\ UNCHANGED crashes
        /\ cursor.cat \in Category /\ cursor.task = "egm"
    BY <1>9 DEF EndLocators, At
  <2>2. TypeOK' /\ PhaseInv'
    BY <2>1, CursorMoves DEF TypeOK, PhaseInv, durable
  <2> QED BY <2>1, <2>2, HintsStay DEF Kept, durable
<1> QED BY <1>1, <1>2, <1>3, <1>4, <1>5, <1>6, <1>7, <1>8, <1>9 DEF Discover

LEMMA RecoverKept == IInv /\ Recover => Kept
<1> SUFFICES ASSUME IInv, Recover PROVE Kept
  OBVIOUS
<1> USE DEF IInv
<1> DEFINE c == cursor.cat
<1>0. /\ cursor.task = "sweep" /\ c \in Category /\ cursor \in Cursor
      /\ cursor.todo \in {"ask", "add", "mark"}
      /\ hints \in [Category -> Seq(Hint)]
      /\ hints[c] \in Seq(Hint) /\ searches[c] \in Nat /\ searches[c] <= SearchLimit
      /\ SlotsOK(hints[c], searches[c])
  BY DEF Recover, Resume, Reserve, SkipSweep, AddLocal, MarkLocal, At, TypeOK, SlotsInv
<1>1. CASE Resume
  <2>1. /\ Running(c) # {} /\ AskSam(c, Searched(c)) /\ cursor' = Then("add")
        /\ UNCHANGED <<step, fullDone, hints, searches, egm, candidates, crashes, begun>>
    BY <1>1 DEF Resume
  <2>2. sam' \in [Category -> [View -> Answer]] /\ sam'[c][Searched(c)] # NoAnswer
    BY <1>0, <2>1, SearchedOK, Asked
  <2>3. /\ Running(cursor.cat)' = Running(cursor.cat)
        /\ Searched(cursor.cat)' = Searched(cursor.cat)
    BY <1>0, <2>1, CursorMoves, SearchedStays
  <2>4. TypeOK' /\ PhaseInv'
    BY <1>0, <2>1, <2>2, <2>3, CursorMoves DEF TypeOK, PhaseInv
  <2> QED BY <2>1, <2>4, HintsStay DEF Kept
<1>2. CASE Reserve
  <2> DEFINE n == searches[c] + 1
             new == Started(hints[c], n)
  <2>1. /\ cursor.todo = "ask" /\ Running(c) = {} /\ searches[c] < SearchLimit
        /\ Pending(c) # {}
        /\ searches' = [searches EXCEPT ![c] = n] /\ hints' = [hints EXCEPT ![c] = new]
        /\ UNCHANGED <<step, fullDone, sam, egm, candidates, cursor, crashes, begun>>
    BY <1>2 DEF Reserve, CanReserve, At
  <2>2. /\ new \in Seq(Hint) /\ SlotsOK(new, n) /\ WithStatus(new, "running") # {}
        /\ n \in Nat /\ n <= SearchLimit
    <3>1. WithStatus(hints[c], "running") = {} /\ WithStatus(hints[c], "pending") # {}
      BY <2>1 DEF Running, Pending
    <3> QED BY <1>0, <2>1, <3>1, StartOne, SizesAssumption
  <2> HIDE DEF new, n
  <2>3. /\ hints' \in [Category -> Seq(Hint)] /\ searches' \in [Category -> Nat] /\ SlotsInv'
        /\ Searching' = [Searching EXCEPT ![c] = WithStatus(new, "running") # {}]
    BY <1>0, <2>1, <2>2, HintsChange
  <2>4. Budget!Grant(c)
    <3>1. ~Searching[c]
      BY <1>0, <2>1 DEF Searching
    <3>2. Searching' = [Searching EXCEPT ![c] = TRUE]
      BY <2>2, <2>3, Zenon
    <3> QED BY <2>1, <3>1, <3>2 DEF Budget!Grant, n
  <2>5. TypeOK' /\ PhaseInv'
    BY <2>1, <2>3 DEF TypeOK, PhaseInv
  <2> QED BY <1>0, <2>3, <2>4, <2>5 DEF Kept, BudgetStep, Budget!Next
<1>3. CASE SkipSweep
  <2>1. cursor' = NextCategory /\ UNCHANGED durable /\ UNCHANGED crashes
    BY <1>3 DEF SkipSweep
  <2>2. TypeOK' /\ PhaseInv'
    BY <1>0, <2>1, CursorMoves DEF TypeOK, PhaseInv, durable
  <2> QED BY <2>1, <2>2, HintsStay DEF Kept, durable
<1>4. CASE AddLocal
  <2>1. /\ cursor.todo = "add" /\ cursor' = Then("mark")
        /\ candidates' = candidates \cup
               Detections(c, "sam31", Searched(c), sam[c][Searched(c)])
        /\ UNCHANGED <<step, fullDone, hints, searches, sam, egm, crashes, begun>>
    BY <1>4 DEF AddLocal, At
  <2>2. /\ Searched(c) \in View /\ sam[c][Searched(c)] # NoAnswer
        /\ sam[c][Searched(c)] \in Answer
    BY <1>0, <2>1, SearchedOK DEF PhaseInv, TypeOK
  <2>3. candidates' \subseteq Candidate
    BY <1>0, <2>1, <2>2, DetectionsOK DEF TypeOK
  <2>4. /\ Running(cursor.cat)' = Running(cursor.cat)
        /\ Searched(cursor.cat)' = Searched(cursor.cat)
    BY <1>0, <2>1, CursorMoves, SearchedStays
  <2>5. TypeOK' /\ PhaseInv'
    BY <1>0, <2>1, <2>3, <2>4, CursorMoves DEF TypeOK, PhaseInv
  <2> QED BY <2>1, <2>5, HintsStay DEF Kept
<1>5. CASE MarkLocal
  <2> DEFINE new == Finished(hints[c])
  <2>1. /\ cursor.todo = "mark" /\ cursor' = NextCategory
        /\ hints' = [hints EXCEPT ![c] = new]
        /\ UNCHANGED <<step, fullDone, searches, sam, egm, candidates, crashes, begun>>
    BY <1>5 DEF MarkLocal, At
  <2>2. Running(c) # {} /\ WithStatus(hints[c], "running") # {}
    BY <1>0, <2>1 DEF PhaseInv, Running
  <2>3. new \in Seq(Hint) /\ SlotsOK(new, searches[c]) /\ WithStatus(new, "running") = {}
    BY <1>0, <2>2, FinishOne
  <2> HIDE DEF new
  <2>4. searches' = [searches EXCEPT ![c] = searches[c]]
    BY <2>1 DEF TypeOK
  <2>5. /\ hints' \in [Category -> Seq(Hint)] /\ SlotsInv'
        /\ Searching' = [Searching EXCEPT ![c] = WithStatus(new, "running") # {}]
    BY <1>0, <2>1, <2>3, <2>4, HintsChange
  <2>6. Budget!Finish(c)
    <3>1. Searching[c]
      BY <1>0, <2>2 DEF Searching
    <3>2. Searching' = [Searching EXCEPT ![c] = FALSE]
      BY <2>3, <2>5, Zenon
    <3> QED BY <2>1, <3>1, <3>2 DEF Budget!Finish
  <2>7. TypeOK' /\ PhaseInv'
    BY <1>0, <2>1, <2>5, CursorMoves DEF TypeOK, PhaseInv
  <2> QED BY <1>0, <2>5, <2>6, <2>7 DEF Kept, BudgetStep, Budget!Next
<1> QED BY <1>1, <1>2, <1>3, <1>4, <1>5 DEF Recover

LEMMA RegroundKept == IInv /\ RegroundEvidence => Kept
<1> SUFFICES ASSUME IInv, RegroundEvidence PROVE Kept
  OBVIOUS
<1> USE DEF IInv
<1>1. PICK c \in Category, p \in Places :
        /\ hints' = [hints EXCEPT ![c] = AddHint(hints[c], p)]
        /\ candidates' = candidates \cup Detections(c, "egm", Full, {p})
  BY DEF RegroundEvidence
<1>2. /\ cursor.task = "reground"
      /\ UNCHANGED <<step, fullDone, searches, sam, egm, cursor, crashes, begun>>
  BY DEF RegroundEvidence
<1>3. hints[c] \in Seq(Hint) /\ searches[c] \in Nat /\ SlotsOK(hints[c], searches[c])
  BY DEF TypeOK, SlotsInv
<1> DEFINE new == AddHint(hints[c], p)
<1>4. /\ new \in Seq(Hint) /\ SlotsOK(new, searches[c])
      /\ WithStatus(new, "running") = Running(c)
  BY <1>3, OneMoreHint DEF Running
<1> HIDE DEF new
<1>5. hints' \in [Category -> Seq(Hint)] /\ SlotsInv' /\ BudgetStep
  BY <1>1, <1>2, <1>4, HintsGrow DEF new
<1>6. candidates' \subseteq Candidate
  <2>1. {p} \in Answer /\ {p} # NoAnswer /\ Full \in View
    BY PlacesAssumption DEF Answer, NoAnswer, View
  <2> QED BY <1>1, <2>1, DetectionsOK DEF TypeOK
<1>7. TypeOK' /\ PhaseInv'
  BY <1>2, <1>5, <1>6 DEF TypeOK, PhaseInv
<1> QED BY <1>5, <1>7 DEF Kept

LEMMA EndStageKept == IInv /\ EndStage => Kept
<1> SUFFICES ASSUME IInv, EndStage PROVE Kept
  OBVIOUS
<1> USE DEF IInv
<1>1. /\ step' = step + 1 /\ cursor' = EntryOf(step + 1) /\ begun' = searches
      /\ UNCHANGED <<fullDone, hints, searches, sam, egm, candidates, crashes>>
  BY DEF EndStage
<1>2. step \in Nat /\ step <= LastStep /\ cursor.task # "end"
  BY StageOrder DEF EndStage, StageOver, TypeOK
<1>3. step' \in 0..LastStep
  BY <1>1, <1>2, StageOrder DEF PhaseInv
<1>4. cursor' \in Cursor /\ cursor'.task = Stage(step' + 1) /\ cursor'.todo = "ask"
  BY <1>1, <1>2, EntryOK
<1>5. TypeOK'
  BY <1>1, <1>3, <1>4 DEF TypeOK
<1>6. PhaseInv'
  BY <1>4 DEF PhaseInv
<1> QED BY <1>1, <1>5, <1>6, HintsStay DEF Kept

LEMMA CrashKept == IInv /\ Crash => Kept
<1> SUFFICES ASSUME IInv, Crash PROVE Kept
  OBVIOUS
<1> USE DEF IInv
<1>1. /\ crashes < MaxCrashes /\ cursor' = EntryOf(step) /\ crashes' = crashes + 1
      /\ UNCHANGED durable
  BY DEF Crash
<1>2. step \in Nat /\ crashes' \in 0..MaxCrashes
  BY <1>1, StageOrder, SizesAssumption DEF TypeOK
<1>3. TypeOK' /\ PhaseInv'
  BY <1>1, <1>2, EntryOK DEF TypeOK, PhaseInv, durable
<1> QED BY <1>1, <1>3, HintsStay DEF Kept, durable

LEMMA NextKept == IInv /\ [Next]_vars => Kept
<1> SUFFICES ASSUME IInv, [Next]_vars PROVE Kept
  OBVIOUS
<1>1. CASE UNCHANGED vars
  <2>1. TypeOK' /\ SlotsInv'
    BY <1>1, HintsStay DEF vars, IInv, TypeOK
  <2>2. PhaseInv'
    BY <1>1, SearchedStays, AskingStays DEF vars, IInv, PhaseInv
  <2> QED BY <1>1, <2>1, <2>2, HintsStay DEF vars, Kept, IInv
<1> QED BY <1>1, DiscoverKept, RecoverKept, RegroundKept, EndStageKept, CrashKept
        DEF Next, Done

-----------------------------------------------------------------------------
LEMMA Invariance == Spec => []IInv
<1>1. IInv /\ [Next]_vars => IInv'
  BY NextKept DEF Kept
<1> QED BY <1>1, InitIInv, PTL DEF Spec

(* Every variable of the search keeps its type; in particular a candidate  *)
(* is only ever recorded from an answer that was really obtained.          *)
THEOREM TypeCorrect == Spec => []TypeOK
BY Invariance, PTL DEF IInv

(* No run of any length, with any crashes, spends a slot twice, gives one  *)
(* back, has two searches of a category open or exceeds the budget.        *)
THEOREM SlotsSafe == Spec => []SlotsInv
BY Invariance, PTL DEF IInv

(* The search of an image implements SearchBudget.                         *)
THEOREM ImplementsBudget == Spec => BudgetSpec
<1>1. Init => Budget!Init
  <2> SUFFICES ASSUME Init PROVE Budget!Init
    OBVIOUS
  <2>1. ASSUME NEW c \in Category PROVE Running(c) = {}
    BY DEF Init, Running, WithStatus, AddHint, NewHint
  <2>2. Searching = [c \in Category |-> FALSE]
    BY <2>1, Zenon DEF Searching
  <2> QED BY <2>2 DEF Init, Budget!Init
<1>2. IInv /\ [Next]_vars => [Budget!Next]_<<searches, Searching>>
  BY NextKept DEF Kept, BudgetStep
<1> QED BY <1>1, <1>2, Invariance, PTL DEF Spec, BudgetSpec, Budget!Spec

-----------------------------------------------------------------------------
(* Nothing is lost: what is known of the answers between two steps.         *)

(* The boxes of a locator are hints of the category where SAM has none.     *)
Matched(c, l) == egm[l] # NoAnswer /\ egm[l] \subseteq sam[c][Full] \cup Hinted(c)

Filed(c, l) == egm[l] # NoAnswer /\ Detections(c, "egm", Full, egm[l]) \subseteq candidates

(* The answer of the n-th locator of a category has been turned into hints. *)
Listed(c, n) ==
    \/ step >= 1
    \/ cursor.task = "egm" /\ (c < cursor.cat \/ (c = cursor.cat /\ n < cursor.nth))

FromFull(d) == d.source = "sam31" => /\ sam[d.cat][Full] # NoAnswer
                                     /\ d.place \in sam[d.cat][Full]

FoundInv ==
    /\ \A c \in Category :
        /\ fullDone[c] => Recorded(c, Full)
        /\ \A i \in DOMAIN hints[c] :
            hints[c][i].status = "done" => Recorded(c, hints[c][i].region)
        /\ \A n \in DOMAIN LocatorsOf[c] :
            Listed(c, n) => Matched(c, LocatorsOf[c][n]) /\ Filed(c, LocatorsOf[c][n])
    /\ cursor.todo = "mark" =>
        /\ cursor.task = "full" => Recorded(cursor.cat, Full)
        /\ cursor.task = "egm" => Filed(cursor.cat, Asking)
        /\ cursor.task = "sweep" => Recorded(cursor.cat, Searched(cursor.cat))
    /\ step = 0 => \A d \in candidates : FromFull(d)

(* Answers, candidates and hinted regions only accumulate.                  *)
AnswersStay ==
    /\ \A l \in Locator : egm[l] # NoAnswer => egm'[l] = egm[l]
    /\ \A c \in Category, v \in View : sam[c][v] # NoAnswer => sam'[c][v] = sam[c][v]
    /\ candidates \subseteq candidates'

Follows(old, new) ==
    /\ \A i \in DOMAIN old : \E j \in DOMAIN new : new[j].region = old[i].region
    /\ \A i \in DOMAIN new : new[i].status = "done" =>
          \E j \in DOMAIN old : old[j].status = "done" /\ old[j].region = new[i].region

HintsFollow == \A c \in Category : Follows(hints[c], hints'[c])

LEMMA RecordedStays ==
    ASSUME AnswersStay, NEW c \in Category, NEW v \in View, Recorded(c, v)
    PROVE  Recorded(c, v)'
BY DEF AnswersStay, Recorded

LEMMA FiledStays ==
    ASSUME AnswersStay, NEW c \in Category, NEW l \in Locator, Filed(c, l)
    PROVE  Filed(c, l)'
BY DEF AnswersStay, Filed

LEMMA MatchedStays ==
    ASSUME TypeOK, AnswersStay, NEW c \in Category, NEW l \in Locator, Matched(c, l),
           \A i \in DOMAIN hints[c] : \E j \in DOMAIN hints'[c] :
               hints'[c][j].region = hints[c][i].region
    PROVE  Matched(c, l)'
<1>1. egm'[l] = egm[l] /\ egm[l] \subseteq Places
  BY DEF AnswersStay, Matched, TypeOK, Answer
<1>2. Hinted(c) \subseteq Hinted(c)'
  BY DEF Hinted
<1>3. sam[c][Full] = NoAnswer \/ sam'[c][Full] = sam[c][Full]
  BY DEF AnswersStay, View
<1>4. sam[c][Full] = NoAnswer => egm[l] \subseteq Hinted(c)
  BY <1>1, PlacesAssumption DEF Matched, NoAnswer
<1> QED BY <1>1, <1>2, <1>3, <1>4 DEF Matched

(* What a step has to show; the rest follows from what accumulates.         *)
LEMMA FoundStays ==
    ASSUME IInv, FoundInv, AnswersStay,
           \A c \in Category : fullDone'[c] => fullDone[c] \/ Recorded(c, Full)',
           \A c \in Category :
               /\ \A i \in DOMAIN hints[c] : \E j \in DOMAIN hints'[c] :
                     hints'[c][j].region = hints[c][i].region
               /\ \A i \in DOMAIN hints'[c] : hints'[c][i].status = "done" =>
                     \/ Recorded(c, hints[c][i].region)'
                     \/ \E j \in DOMAIN hints[c] :
                            hints[c][j].status = "done" /\ hints[c][j].region = hints'[c][i].region,
           \A c \in Category : \A n \in DOMAIN LocatorsOf[c] :
               Listed(c, n)' =>
                   \/ Listed(c, n)
                   \/ Matched(c, LocatorsOf[c][n])' /\ Filed(c, LocatorsOf[c][n])',
           cursor'.todo = "mark" =>
               /\ cursor'.task = "full" => Recorded(cursor.cat, Full)'
               /\ cursor'.task = "egm" => Filed(cursor.cat, Asking)'
               /\ cursor'.task = "sweep" => Recorded(cursor.cat, Searched(cursor.cat))',
           step' = 0 => step = 0 /\ \A d \in candidates' \ candidates : FromFull(d)'
    PROVE  FoundInv'
<1>1. ASSUME NEW c \in Category, NEW i \in DOMAIN hints'[c], hints'[c][i].status = "done"
      PROVE  Recorded(c, hints[c][i].region)'
  <2>1. CASE \E j \in DOMAIN hints[c] :
                hints[c][j].status = "done" /\ hints[c][j].region = hints'[c][i].region
    <3>1. PICK j \in DOMAIN hints[c] :
                hints[c][j].status = "done" /\ hints[c][j].region = hints'[c][i].region
      BY <2>1
    <3>2. hints[c] \in Seq(Hint)
      BY DEF IInv, TypeOK
    <3>3. hints[c][j] \in Hint
      BY <3>2
    <3>4. PICK v \in View : v = hints[c][j].region
      BY <3>3 DEF Hint, View
    <3>5. Recorded(c, v)
      BY <3>1, <3>4 DEF FoundInv
    <3>6. Recorded(c, v)'
      BY <3>5, RecordedStays
    <3>7. hints'[c][i].region = v
      BY <3>1, <3>4
    <3> QED BY <3>6, <3>7 DEF Recorded
  <2> QED BY <1>1, <2>1
<1>2. ASSUME NEW c \in Category, fullDone'[c]
      PROVE  Recorded(c, Full)'
  BY <1>2, RecordedStays DEF FoundInv, View
<1>3. ASSUME NEW c \in Category, NEW n \in DOMAIN LocatorsOf[c], Listed(c, n)'
      PROVE  Matched(c, LocatorsOf[c][n])' /\ Filed(c, LocatorsOf[c][n])'
  <2>1. PICK l \in Locator : l = LocatorsOf[c][n]
    BY LocatorsAssumption DEF Category
  <2>2. CASE Listed(c, n)
    <3>1. Matched(c, l) /\ Filed(c, l)
      BY <2>1, <2>2 DEF FoundInv
    <3>2. TypeOK
      BY DEF IInv
    <3>3. Matched(c, l)' /\ Filed(c, l)'
      BY <3>1, <3>2, MatchedStays, FiledStays
    <3> QED BY <2>1, <3>3
  <2> QED BY <1>3, <2>2
<1>4. ASSUME step' = 0, NEW d \in candidates'
      PROVE  FromFull(d)'
  <2>1. CASE d \in candidates
    <3>1. FromFull(d) /\ d \in Candidate
      BY <1>4, <2>1 DEF FoundInv, IInv, TypeOK
    <3> QED BY <3>1 DEF FromFull, AnswersStay, Candidate, View
  <2> QED BY <1>4, <2>1
<1>5. /\ \A c \in Category : fullDone'[c] => Recorded(c, Full)'
      /\ \A c \in Category : \A i \in DOMAIN hints'[c] :
            hints'[c][i].status = "done" => Recorded(c, hints[c][i].region)'
      /\ \A c \in Category : \A n \in DOMAIN LocatorsOf[c] :
            Listed(c, n)' => Matched(c, LocatorsOf[c][n])' /\ Filed(c, LocatorsOf[c][n])'
      /\ step' = 0 => \A d \in candidates' : FromFull(d)'
  BY <1>1, <1>2, <1>3, <1>4
<1> QED BY <1>5 DEF FoundInv

(* The same for the many steps that leave all hints alone.                  *)
LEMMA FoundStaysHere ==
    ASSUME IInv, FoundInv, AnswersStay, UNCHANGED hints,
           \A c \in Category : fullDone'[c] => fullDone[c] \/ Recorded(c, Full)',
           \A c \in Category : \A n \in DOMAIN LocatorsOf[c] : Listed(c, n)' => Listed(c, n),
           cursor'.todo = "mark" =>
               /\ cursor'.task = "full" => Recorded(cursor.cat, Full)'
               /\ cursor'.task = "egm" => Filed(cursor.cat, Asking)'
               /\ cursor'.task = "sweep" => Recorded(cursor.cat, Searched(cursor.cat))',
           step' = 0 => step = 0 /\ \A d \in candidates' \ candidates : FromFull(d)'
    PROVE  FoundInv'
BY FoundStays

LEMMA SamCached ==
    ASSUME TypeOK, NEW c \in Category, NEW view \in View, AskSam(c, view),
           UNCHANGED <<egm, candidates>>
    PROVE  AnswersStay
BY DEF AskSam, TypeOK, AnswersStay

LEMMA DetectionsRecord ==
    ASSUME TypeOK, NEW c \in Category, NEW v \in View, sam[c][v] # NoAnswer, UNCHANGED <<sam, egm>>,
           candidates' = candidates \cup Detections(c, "sam31", v, sam[c][v])
    PROVE  /\ AnswersStay /\ Recorded(c, v)'
           /\ \A d \in candidates' \ candidates :
                d.cat = c /\ d.source = "sam31" /\ d.view = v /\ d.place \in sam[c][v]
BY DEF AnswersStay, Recorded, Detections

LEMMA TasksDiffer ==
    ASSUME IInv
    PROVE  /\ step = 0 <=> cursor.task \in {"full", "egm"}
           /\ step \in Nat
BY SizesAssumption DEF IInv, TypeOK, PhaseInv, Stage, LastStep

LEMMA FoundInit == Init => FoundInv
<1> SUFFICES ASSUME Init PROVE FoundInv
  OBVIOUS
<1>1. ASSUME NEW c \in Category, NEW i \in DOMAIN hints[c]
      PROVE  hints[c][i].status = "pending"
  BY DEF Init, AddHint, NewHint
<1>2. cursor.task = "full" /\ cursor.todo = "ask" /\ step = 0
  BY DEF Init, EntryOf, BeginningOf, Stage
<1> QED BY <1>1, <1>2 DEF Init, FoundInv, Listed

LEMMA FoundFull ==
    ASSUME IInv, FoundInv, SkipFull \/ AskFull \/ AddFull \/ MarkFull \/ BeginLocators
    PROVE  FoundInv'
<1>0. PICK c : c = cursor.cat
  OBVIOUS
<1>1. /\ cursor.task = "full" /\ step = 0 /\ cursor \in Cursor /\ Full \in View /\ TypeOK
      /\ UNCHANGED <<step, hints, egm>>
  BY <1>0, TasksDiffer
     DEF SkipFull, AskFull, AddFull, MarkFull, BeginLocators, At, IInv, TypeOK, durable, View
<1>2. ASSUME NEW d \in Category
      PROVE  \A n \in DOMAIN LocatorsOf[d] : Listed(d, n)' => Listed(d, n)
  <2>1. \/ cursor'.task = "egm" /\ cursor'.cat = 1 /\ cursor'.nth = 1
        \/ cursor'.task = "full"
    BY <1>0, <1>1, CursorMoves, BeginningOK
       DEF SkipFull, AskFull, AddFull, MarkFull, BeginLocators, At
  <2>2. DOMAIN LocatorsOf[d] = 1..Len(LocatorsOf[d])
    BY <1>2, LocatorsAssumption, LenProperties DEF Category
  <2>3. \A n \in DOMAIN LocatorsOf[d] : ~(n < 1)
    BY <2>2
  <2> QED BY <1>0, <1>1, <2>1, <2>3 DEF Listed, Category
<1>3. CASE SkipFull \/ BeginLocators
  <2>1. UNCHANGED <<sam, egm, candidates, fullDone>> /\ cursor'.todo = "ask"
    BY <1>0, <1>1, <1>3, CursorMoves, BeginningOK DEF SkipFull, BeginLocators, At, durable
  <2>2. AnswersStay
    BY <1>0, <2>1 DEF AnswersStay
  <2> QED BY <1>0, <1>1, <1>2, <2>1, <2>2, FoundStaysHere
<1>4. CASE AskFull
  <2>1. /\ AskSam(c, Full) /\ c \in Category /\ UNCHANGED <<candidates, fullDone>>
        /\ cursor'.todo = "add"
    BY <1>0, <1>1, <1>4, CursorMoves DEF AskFull, At
  <2>2. AnswersStay
    BY <1>0, <1>1, <2>1, SamCached
  <2> QED BY <1>0, <1>1, <1>2, <2>1, <2>2, FoundStaysHere
<1>5. CASE AddFull
  <2>1. /\ c \in Category /\ cursor.todo = "add" /\ cursor' = Then("mark")
        /\ candidates' = candidates \cup Detections(c, "sam31", Full, sam[c][Full])
        /\ UNCHANGED <<sam, fullDone>>
    BY <1>0, <1>5 DEF AddFull, At
  <2>2. sam[c][Full] # NoAnswer /\ cursor'.cat = c /\ cursor'.task = "full"
    BY <1>0, <1>1, <2>1, CursorMoves DEF IInv, PhaseInv
  <2>3. /\ AnswersStay /\ Recorded(c, Full)'
        /\ \A d \in candidates' \ candidates :
              d.cat = c /\ d.source = "sam31" /\ d.view = Full /\ d.place \in sam[c][Full]
    BY <1>0, <1>1, <2>1, <2>2, DetectionsRecord
  <2>4. \A d \in candidates' \ candidates : FromFull(d)'
    BY <1>0, <2>1, <2>2, <2>3 DEF FromFull
  <2>5. Recorded(cursor.cat, Full)'
    BY <1>0, <2>2, <2>3 DEF Recorded
  <2> QED BY <1>0, <1>1, <1>2, <2>1, <2>2, <2>3, <2>4, <2>5, FoundStaysHere
<1>6. CASE MarkFull
  <2>1. /\ c \in Category /\ cursor.todo = "mark" /\ cursor' = NextCategory
        /\ fullDone' = [fullDone EXCEPT ![c] = TRUE] /\ UNCHANGED <<sam, candidates>>
    BY <1>0, <1>6 DEF MarkFull, At
  <2>2. AnswersStay /\ cursor'.todo = "ask"
    BY <1>0, <1>1, <2>1, CursorMoves DEF AnswersStay
  <2>3. Recorded(c, Full)'
    BY <1>0, <1>1, <2>1, <2>2, RecordedStays DEF FoundInv
  <2>4. \A d \in Category : fullDone'[d] => fullDone[d] \/ Recorded(d, Full)'
    BY <1>0, <1>1, <2>1, <2>3 DEF TypeOK
  <2> QED BY <1>0, <1>1, <1>2, <2>1, <2>2, <2>4, FoundStaysHere
<1> QED BY <1>3, <1>4, <1>5, <1>6

(* The hints of an order of new places name all of them.                    *)
LEMMA OrderCovers ==
    ASSUME NEW hs \in Seq(Hint), NEW S, S \subseteq Places, NEW order \in Orders(S)
    PROVE  /\ Follows(hs, hs \o HintsOf(order))
           /\ \A p \in S : \E i \in DOMAIN (hs \o HintsOf(order)) :
                 (hs \o HintsOf(order))[i].region = p
<1>1. IsFiniteSet(S) /\ Cardinality(S) \in Nat
  BY PlacesAssumption, FS_Subset, FS_CardinalityType
<1>2. /\ order \in [1..Cardinality(S) -> S]
      /\ \A p \in S : \E k \in 1..Cardinality(S) : order[k] = p
  BY DEF Orders, Bijection, Surjection
<1> DEFINE more == HintsOf(order)
           all == hs \o more
<1>3. /\ more = [k \in 1..Cardinality(S) |-> NewHint(order[k])]
      /\ \A k \in 1..Cardinality(S) : NewHint(order[k]) \in Hint
  BY <1>2 DEF HintsOf, NewHint, Hint
<1>4. more \in Seq(Hint) /\ DOMAIN more = 1..Cardinality(S)
  BY <1>1, <1>3
<1>5. \A k \in DOMAIN more : more[k].status = "pending" /\ more[k].region = order[k]
  BY <1>3, <1>4 DEF NewHint
<1> HIDE DEF more
<1>6. /\ Len(all) = Len(hs) + Len(more)
      /\ \A i \in 1..(Len(hs) + Len(more)) :
            all[i] = IF i <= Len(hs) THEN hs[i] ELSE more[i - Len(hs)]
      /\ DOMAIN all = 1..Len(all) /\ DOMAIN hs = 1..Len(hs) /\ DOMAIN more = 1..Len(more)
      /\ Len(hs) \in Nat /\ Len(more) \in Nat
  BY <1>4, ConcatProperties, LenProperties
<1> HIDE DEF all
<1>7. \A i \in DOMAIN hs : i \in DOMAIN all /\ all[i] = hs[i]
  BY <1>6
<1>8. \A k \in DOMAIN more : k + Len(hs) \in DOMAIN all /\ all[k + Len(hs)] = more[k]
  BY <1>6
<1>9. \A i \in DOMAIN all :
        \/ i \in DOMAIN hs /\ all[i] = hs[i]
        \/ i - Len(hs) \in DOMAIN more /\ all[i] = more[i - Len(hs)]
  BY <1>6
<1>10. Follows(hs, all)
  BY <1>5, <1>7, <1>9 DEF Follows
<1>11. \A p \in S : \E i \in DOMAIN all : all[i].region = p
  BY <1>2, <1>4, <1>5, <1>8
<1> QED BY <1>10, <1>11 DEF all, more

LEMMA FoundLocators ==
    ASSUME IInv, FoundInv, AskLocator \/ AddLocator \/ HintUnmatched
    PROVE  FoundInv'
<1>0. PICK c : c = cursor.cat
  OBVIOUS
<1>1. /\ cursor.task = "egm" /\ step = 0 /\ cursor \in Cursor /\ TypeOK /\ c \in Category
      /\ cursor.nth \in DOMAIN LocatorsOf[cursor.cat] /\ UNCHANGED <<step, sam, fullDone>>
  BY <1>0, TasksDiffer DEF AskLocator, AddLocator, HintUnmatched, AtLocator, At, IInv, TypeOK
<1>2. PICK l \in Locator : l = Asking
  BY <1>0, <1>1, AskingOK
<1>3. CASE AskLocator
  <2>1. /\ cursor'.task = "egm" /\ cursor'.cat = c /\ cursor'.nth = cursor.nth
        /\ cursor'.todo = "add" /\ UNCHANGED <<hints, candidates>>
    BY <1>0, <1>1, <1>3, CursorMoves DEF AskLocator
  <2>2. AnswersStay
    BY <1>1, <1>2, <1>3 DEF AskLocator, AnswersStay, TypeOK
  <2>3. \A d \in Category : \A n \in DOMAIN LocatorsOf[d] : Listed(d, n)' => Listed(d, n)
    BY <1>0, <1>1, <2>1 DEF Listed
  <2> QED BY <1>0, <1>1, <2>1, <2>2, <2>3, FoundStaysHere
<1>4. CASE AddLocator
  <2>1. /\ cursor'.task = "egm" /\ cursor'.cat = c /\ cursor'.nth = cursor.nth
        /\ candidates' = candidates \cup Detections(c, "egm", Full, egm[l])
        /\ cursor.todo = "add" /\ UNCHANGED <<hints, egm>>
    BY <1>0, <1>1, <1>2, <1>4, CursorMoves DEF AddLocator, AtLocator, At
  <2>2. AnswersStay
    BY <1>0, <1>1, <2>1 DEF AnswersStay
  <2>3. \A d \in Category : \A n \in DOMAIN LocatorsOf[d] : Listed(d, n)' => Listed(d, n)
    BY <1>0, <1>1, <2>1 DEF Listed
  <2>4. \A d \in candidates' \ candidates : FromFull(d)'
    BY <1>0, <2>1 DEF FromFull, Detections
  <2>5. egm[l] # NoAnswer
    BY <1>1, <1>2, <2>1 DEF IInv, PhaseInv
  <2>6. Asking' = l
    BY <1>0, <1>2, <2>1, AskingStays
  <2>7. Filed(cursor.cat, Asking)'
    BY <2>1, <2>5, <2>6 DEF Filed
  <2> QED BY <1>0, <1>1, <2>1, <2>2, <2>3, <2>4, <2>7, FoundStaysHere
<1>5. CASE HintUnmatched
  <2> DEFINE S == Unmatched(c, l) \ Hinted(c)
  <2>1. /\ cursor'.task = "egm" /\ cursor'.cat = c /\ cursor'.nth = cursor.nth + 1
        /\ cursor'.todo = "ask" /\ cursor.todo = "mark" /\ UNCHANGED <<egm, candidates>>
    BY <1>0, <1>1, <1>5, CursorMoves DEF HintUnmatched, AtLocator, At
  <2>2. PICK order \in Orders(S) :
          hints' = [hints EXCEPT ![c] = hints[c] \o HintsOf(order)]
    BY <1>0, <1>2, <1>5 DEF HintUnmatched
  <2> DEFINE new == hints[c] \o HintsOf(order)
  <2>3. hints[c] \in Seq(Hint) /\ egm[l] # NoAnswer /\ egm[l] \subseteq Places
    BY <1>0, <1>1, <1>2, <2>1 DEF TypeOK, IInv, PhaseInv, Answer
  <2>4. /\ Follows(hints[c], new)
        /\ \A p \in S : \E i \in DOMAIN new : new[i].region = p
    <3>1. S \subseteq Places
      BY <1>0, <2>3 DEF Unmatched
    <3> HIDE DEF S
    <3>2. order \in Orders(S) /\ hints[c] \in Seq(Hint)
      BY <2>2, <2>3
    <3> QED BY <3>1, <3>2, OrderCovers
  <2>5. \A p \in Hinted(c) : \E i \in DOMAIN new : new[i].region = p
    <3> HIDE DEF new
    <3> QED BY <1>0, <2>4 DEF Follows, Hinted
  <2> HIDE DEF new
  <2>6. \A d \in Category : hints'[d] = IF d = c THEN new ELSE hints[d]
    BY <1>0, <1>1, <2>2 DEF TypeOK, new
  <2>7. HintsFollow
    <3>1. \A d \in Category : d # c => Follows(hints[d], hints'[d])
      BY <1>0, <2>6 DEF Follows
    <3> QED BY <1>0, <2>4, <2>6, <3>1 DEF HintsFollow
  <2>8. AnswersStay
    BY <1>0, <1>1, <2>1 DEF AnswersStay
  <2>9. SamPlaces(c) \subseteq sam[c][Full]
    BY <1>0, <1>1 DEF SamPlaces, FoundInv, FromFull
  <2>10. Matched(c, l)'
    <3>1. \A p \in egm[l] : p \in sam[c][Full] \/ \E i \in DOMAIN new : new[i].region = p
      BY <1>0, <2>4, <2>5, <2>9 DEF Unmatched
    <3>2. hints'[c] = new /\ egm'[l] = egm[l] /\ sam'[c][Full] = sam[c][Full]
      BY <1>0, <1>1, <2>1, <2>6
    <3> QED BY <1>0, <2>3, <3>1, <3>2 DEF Matched, Hinted
  <2>11. Filed(c, l)'
    <3>1. Filed(c, l)
      BY <1>0, <1>1, <1>2, <2>1 DEF FoundInv
    <3> QED BY <1>1, <2>8, <3>1, FiledStays
  <2>12. \A d \in Category : \A n \in DOMAIN LocatorsOf[d] :
            Listed(d, n)' =>
                \/ Listed(d, n)
                \/ Matched(d, LocatorsOf[d][n])' /\ Filed(d, LocatorsOf[d][n])'
    <3>1. ASSUME NEW d \in Category, NEW n \in DOMAIN LocatorsOf[d], Listed(d, n)', ~Listed(d, n)
          PROVE  d = c /\ LocatorsOf[d][n] = l
      <4>1. /\ n \in Nat /\ cursor.nth \in Nat
            /\ n < cursor.nth + 1 /\ ~(n < cursor.nth) => n = cursor.nth
        BY <1>1, LocatorsAssumption, LenProperties DEF Category, Cursor
      <4>2. d = c /\ n = cursor.nth
        BY <1>0, <1>1, <2>1, <3>1, <4>1 DEF Listed
      <4> QED BY <1>0, <1>2, <4>2 DEF Asking
    <3> QED BY <2>10, <2>11, <3>1
  <2> QED BY <1>0, <1>1, <2>1, <2>7, <2>8, <2>12, FoundStays DEF HintsFollow, Follows
<1> QED BY <1>3, <1>4, <1>5

LEMMA FoundNoMore ==
    ASSUME IInv, FoundInv, EndLocators
    PROVE  FoundInv'
<1>1. /\ cursor.task = "egm" /\ step = 0 /\ cursor \in Cursor /\ cursor.cat \in Category
      /\ cursor.nth \notin DOMAIN LocatorsOf[cursor.cat] /\ cursor' = NextCategory
      /\ UNCHANGED <<step, fullDone, hints, sam, egm, candidates>>
  BY TasksDiffer DEF EndLocators, At, IInv, TypeOK, durable
<1>2. cursor'.task = "egm" /\ cursor'.cat = cursor.cat + 1 /\ cursor'.nth = 1 /\ cursor'.todo = "ask"
  BY <1>1, CursorMoves DEF NextCategory
<1>3. AnswersStay
  BY <1>1 DEF AnswersStay
<1>4. ASSUME NEW d \in Category, NEW n \in DOMAIN LocatorsOf[d], Listed(d, n)'
      PROVE  Listed(d, n)
  <2>1. /\ DOMAIN LocatorsOf[d] = 1..Len(LocatorsOf[d]) /\ Len(LocatorsOf[d]) \in Nat
        /\ d \in Nat /\ cursor.cat \in Nat /\ cursor.nth \in Nat /\ cursor.nth >= 1
    BY <1>1, LocatorsAssumption, LenProperties DEF Category, Cursor
  <2>2. d < cursor.cat + 1 \/ (d = cursor.cat + 1 /\ n < 1)
    BY <1>1, <1>2, <1>4 DEF Listed
  <2>3. d < cursor.cat \/ d = cursor.cat
    BY <2>1, <2>2
  <2>4. d = cursor.cat => n < cursor.nth
    BY <1>1, <2>1
  <2> QED BY <1>1, <2>3, <2>4 DEF Listed
<1> QED BY <1>1, <1>2, <1>3, <1>4, FoundStaysHere

(* Starting and finishing a hint change neither its region nor any other.   *)
LEMMA StartedFollows ==
    ASSUME NEW hs \in Seq(Hint), NEW slot \in Nat, WithStatus(hs, "pending") # {}
    PROVE  Follows(hs, Started(hs, slot))
<1> DEFINE i == FirstWith(hs, "pending")
           h == [region |-> hs[i].region, status |-> "running", slot |-> slot]
<1>1. i \in DOMAIN hs
  BY FirstWithIsOne DEF WithStatus
<1>2. Started(hs, slot) = [hs EXCEPT ![i] = h]
  BY DEF Started
<1>3. h.region = hs[i].region /\ h.status = "running"
  OBVIOUS
<1> HIDE DEF i, h
<1> QED BY <1>1, <1>2, <1>3 DEF Follows

LEMMA FinishedFollows ==
    ASSUME NEW hs \in Seq(Hint), WithStatus(hs, "running") # {}
    PROVE  LET i == FirstWith(hs, "running")
           IN  /\ i \in DOMAIN hs /\ DOMAIN Finished(hs) = DOMAIN hs
               /\ Finished(hs)[i].region = hs[i].region
               /\ \A k \in DOMAIN hs : k # i => Finished(hs)[k] = hs[k]
<1> DEFINE i == FirstWith(hs, "running")
           h == [hs[i] EXCEPT !.status = "done"]
<1>1. i \in DOMAIN hs
  BY FirstWithIsOne DEF WithStatus
<1>2. Finished(hs) = [hs EXCEPT ![i] = h]
  BY DEF Finished
<1>3. hs[i] \in Hint
  BY <1>1, ElementOfSeq, LenProperties
<1>4. h.region = hs[i].region
  BY <1>3 DEF Hint
<1> HIDE DEF h
<1>5. /\ i \in DOMAIN hs /\ DOMAIN Finished(hs) = DOMAIN hs
      /\ Finished(hs)[i].region = hs[i].region
      /\ \A k \in DOMAIN hs : k # i => Finished(hs)[k] = hs[k]
  <2> HIDE DEF i
  <2> QED BY <1>1, <1>2, <1>4
<1> QED BY <1>5

LEMMA FoundSweep ==
    ASSUME IInv, FoundInv, Recover
    PROVE  FoundInv'
<1>0. PICK c : c = cursor.cat
  OBVIOUS
<1>1. /\ cursor.task = "sweep" /\ step >= 1 /\ step \in Nat /\ cursor \in Cursor /\ TypeOK
      /\ c \in Category /\ hints[c] \in Seq(Hint) /\ UNCHANGED <<step, egm, fullDone>>
  BY <1>0, TasksDiffer
     DEF Recover, Resume, Reserve, SkipSweep, AddLocal, MarkLocal, At, IInv, TypeOK, durable
<1>2. \A d \in Category : \A n \in DOMAIN LocatorsOf[d] : Listed(d, n)
  BY <1>0, <1>1 DEF Listed
<1>3. CASE Resume
  <2>1. /\ Running(c) # {} /\ AskSam(c, Searched(c)) /\ cursor'.todo = "add"
        /\ UNCHANGED <<hints, candidates>>
    BY <1>0, <1>1, <1>3, CursorMoves DEF Resume
  <2>2. AnswersStay
    BY <1>0, <1>1, <2>1, SamCached, SearchedOK
  <2> QED BY <1>0, <1>1, <1>2, <2>1, <2>2, FoundStaysHere
<1>4. CASE SkipSweep
  <2>1. UNCHANGED <<sam, egm, candidates, hints>> /\ cursor'.todo = "ask"
    BY <1>0, <1>1, <1>4, CursorMoves DEF SkipSweep, durable
  <2>2. AnswersStay
    BY <1>0, <2>1 DEF AnswersStay
  <2> QED BY <1>0, <1>1, <1>2, <2>1, <2>2, FoundStaysHere
<1>5. CASE AddLocal
  <2>1. /\ cursor.todo = "add" /\ cursor' = Then("mark") /\ UNCHANGED <<sam, hints>>
        /\ candidates' = candidates \cup Detections(c, "sam31", Searched(c), sam[c][Searched(c)])
    BY <1>0, <1>5 DEF AddLocal, At
  <2>2. /\ Running(c) # {} /\ sam[c][Searched(c)] # NoAnswer
        /\ cursor'.cat = c /\ cursor'.task = "sweep"
    BY <1>0, <1>1, <2>1, CursorMoves DEF IInv, PhaseInv
  <2>3. PICK v \in View : v = Searched(c)
    BY <1>1, <2>2, SearchedOK
  <2>4. Searched(c)' = v
    BY <2>1, <2>3 DEF Searched
  <2>5. AnswersStay /\ Recorded(c, v)'
    <3>1. candidates' = candidates \cup Detections(c, "sam31", v, sam[c][v])
      BY <2>1, <2>3
    <3>2. sam[c][v] # NoAnswer /\ UNCHANGED <<sam, egm>>
      BY <1>1, <2>1, <2>2, <2>3
    <3> QED BY <1>1, <3>1, <3>2, DetectionsRecord
  <2>6. Recorded(cursor.cat, Searched(cursor.cat))'
    BY <2>2, <2>4, <2>5 DEF Recorded
  <2> QED BY <1>0, <1>1, <1>2, <2>1, <2>2, <2>5, <2>6, FoundStaysHere
<1>6. CASE Reserve
  <2> DEFINE new == Started(hints[c], searches[c] + 1)
  <2>1. /\ hints' = [hints EXCEPT ![c] = new] /\ Pending(c) # {}
        /\ UNCHANGED <<sam, candidates, cursor>> /\ cursor.todo = "ask"
    BY <1>0, <1>6 DEF Reserve, CanReserve, At
  <2>2. Follows(hints[c], new)
    <3>1. searches[c] + 1 \in Nat
      BY <1>1 DEF TypeOK
    <3>2. WithStatus(hints[c], "pending") # {}
      BY <2>1 DEF Pending
    <3>3. hints[c] \in Seq(Hint)
      BY <1>1
    <3> QED BY <3>1, <3>2, <3>3, StartedFollows
  <2> HIDE DEF new
  <2>3. HintsFollow
    <3>1. \A d \in Category : hints'[d] = IF d = c THEN new ELSE hints[d]
      BY <1>0, <1>1, <2>1 DEF TypeOK
    <3>2. \A d \in Category : d # c => Follows(hints[d], hints'[d])
      BY <1>0, <3>1 DEF Follows
    <3> QED BY <1>0, <2>2, <3>1, <3>2 DEF HintsFollow
  <2>4. AnswersStay
    BY <1>0, <1>1, <2>1 DEF AnswersStay
  <2> QED BY <1>0, <1>1, <1>2, <2>1, <2>3, <2>4, FoundStays DEF HintsFollow, Follows
<1>7. CASE MarkLocal
  <2> DEFINE new == Finished(hints[c])
             i == FirstWith(hints[c], "running")
  <2>1. /\ hints' = [hints EXCEPT ![c] = new] /\ cursor.todo = "mark" /\ cursor'.todo = "ask"
        /\ UNCHANGED <<sam, candidates>>
    BY <1>0, <1>1, <1>7, CursorMoves DEF MarkLocal, At
  <2>2. AnswersStay
    BY <1>0, <1>1, <2>1 DEF AnswersStay
  <2>3. /\ Running(c) # {} /\ Searched(c) \in View /\ Recorded(c, Searched(c))
    BY <1>0, <1>1, <2>1, SearchedOK DEF IInv, PhaseInv, FoundInv
  <2>4. /\ i \in DOMAIN hints[c] /\ DOMAIN new = DOMAIN hints[c]
        /\ new[i].region = hints[c][i].region
        /\ \A k \in DOMAIN hints[c] : k # i => new[k] = hints[c][k]
    <3>1. WithStatus(hints[c], "running") # {}
      BY <1>0, <2>3 DEF Running
    <3> QED BY <1>0, <1>1, <3>1, FinishedFollows
  <2>5. PICK v \in View : v = Searched(c)
    BY <2>3
  <2>6. Recorded(c, v)' /\ hints[c][i].region = v
    <3>1. Recorded(c, v)
      BY <2>3, <2>5
    <3>2. hints[c][i].region = v
      BY <2>5 DEF Searched
    <3> HIDE DEF i
    <3>3. Recorded(c, v)'
      BY <1>1, <2>2, <3>1, RecordedStays
    <3> QED BY <3>2, <3>3
  <2> HIDE DEF new, i
  <2>7. \A d \in Category : hints'[d] = IF d = c THEN new ELSE hints[d]
    BY <1>0, <1>1, <2>1 DEF TypeOK
  <2>8. ASSUME NEW d \in Category, NEW k \in DOMAIN hints'[d], hints'[d][k].status = "done"
        PROVE  \/ Recorded(d, hints[d][k].region)'
               \/ \E j \in DOMAIN hints[d] :
                     hints[d][j].status = "done" /\ hints[d][j].region = hints'[d][k].region
    <3>1. CASE d = c /\ k = i
      <4>1. hints'[d][k].region = v
        BY <2>4, <2>6, <2>7, <3>1
      <4> QED BY <2>6, <3>1, <4>1 DEF Recorded
    <3>2. CASE ~(d = c /\ k = i)
      BY <1>0, <2>4, <2>7, <2>8, <3>2
    <3> QED BY <1>0, <3>1, <3>2
  <2>9. \A d \in Category : \A k \in DOMAIN hints[d] : \E j \in DOMAIN hints'[d] :
            hints'[d][j].region = hints[d][k].region
    BY <1>0, <2>4, <2>7
  <2> QED BY <1>0, <1>1, <1>2, <2>1, <2>2, <2>8, <2>9, FoundStays
<1> QED BY <1>3, <1>4, <1>5, <1>6, <1>7 DEF Recover

LEMMA AddedFollows ==
    ASSUME NEW hs \in Seq(Hint), NEW p \in Places
    PROVE  Follows(hs, AddHint(hs, p))
<1>1. CASE \E i \in DOMAIN hs : hs[i].region = p
  BY <1>1 DEF AddHint, Follows
<1>2. CASE \A i \in DOMAIN hs : hs[i].region # p
  <2> DEFINE h == NewHint(p)
             new == Append(hs, h)
  <2>1. AddHint(hs, p) = new
    BY <1>2 DEF AddHint
  <2>2. h \in Hint /\ h.status = "pending"
    BY DEF NewHint, Hint
  <2> HIDE DEF h
  <2>3. /\ DOMAIN new = 1..(Len(hs) + 1) /\ DOMAIN hs = 1..Len(hs) /\ Len(hs) \in Nat
        /\ \A i \in 1..Len(hs) : new[i] = hs[i]
        /\ new[Len(hs) + 1] = h
    BY <2>2, AppendProperties, LenProperties
  <2> HIDE DEF new
  <2>4. \A i \in DOMAIN new : (i \in DOMAIN hs /\ new[i] = hs[i]) \/ new[i] = h
    BY <2>3
  <2>5. \A i \in DOMAIN hs : i \in DOMAIN new /\ new[i] = hs[i]
    BY <2>3
  <2> QED BY <2>1, <2>2, <2>4, <2>5 DEF Follows
<1> QED BY <1>1, <1>2

LEMMA FoundReground ==
    ASSUME IInv, FoundInv, RegroundEvidence
    PROVE  FoundInv'
<1>1. PICK c \in Category, p \in Places :
        /\ hints' = [hints EXCEPT ![c] = AddHint(hints[c], p)]
        /\ candidates' = candidates \cup Detections(c, "egm", Full, {p})
  BY DEF RegroundEvidence
<1>2. /\ cursor.task = "reground" /\ step >= 1 /\ step \in Nat /\ TypeOK
      /\ UNCHANGED <<step, fullDone, sam, egm, cursor>>
  BY TasksDiffer DEF RegroundEvidence, IInv
<1> DEFINE new == AddHint(hints[c], p)
<1>3. Follows(hints[c], new)
  BY <1>2, AddedFollows DEF TypeOK
<1> HIDE DEF new
<1>4. \A d \in Category : hints'[d] = IF d = c THEN new ELSE hints[d]
  BY <1>1, <1>2 DEF TypeOK, new
<1>5. HintsFollow
  <2>1. \A d \in Category : d # c => Follows(hints[d], hints'[d])
    BY <1>4 DEF Follows
  <2> QED BY <1>3, <1>4, <2>1 DEF HintsFollow
<1>6. AnswersStay /\ \A d \in Category : \A n \in DOMAIN LocatorsOf[d] : Listed(d, n)
  BY <1>1, <1>2 DEF AnswersStay, Listed
<1> QED BY <1>2, <1>5, <1>6, FoundStays DEF HintsFollow, Follows

LEMMA FoundOthers ==
    ASSUME IInv, FoundInv, EndStage \/ Crash \/ UNCHANGED vars
    PROVE  FoundInv'
<1>1. UNCHANGED <<fullDone, hints, sam, egm, candidates>>
  BY DEF EndStage, Crash, durable, vars
<1>2. AnswersStay
  BY <1>1 DEF AnswersStay
<1>3. CASE EndStage
  <2>1. /\ cursor'.todo = "ask" /\ step' = step + 1 /\ step \in Nat
    BY <1>3, TasksDiffer, EntryOK DEF EndStage
  <2>2. \A d \in Category : \A n \in DOMAIN LocatorsOf[d] : Listed(d, n)
    <3>1. step >= 1 \/ (cursor.task = "egm" /\ cursor.cat = NumCategories + 1)
      BY <1>3, TasksDiffer DEF EndStage, StageOver
    <3> QED BY <3>1, SizesAssumption DEF Listed, Category
  <2> QED BY <1>1, <1>2, <2>1, <2>2, FoundStaysHere
<1>4. CASE Crash
  <2>1. cursor' = EntryOf(step) /\ UNCHANGED step /\ step \in Nat
    BY <1>4, TasksDiffer DEF Crash, durable
  <2>2. cursor'.todo = "ask" /\ cursor'.task # "egm"
    BY <2>1, EntryOK, StageOrder
  <2> QED BY <1>1, <1>2, <2>1, <2>2, FoundStaysHere DEF Listed
<1>5. CASE UNCHANGED vars
  <2>1. UNCHANGED <<step, cursor>>
    BY <1>5 DEF vars
  <2>2. Asking' = Asking /\ \A c \in Category : Searched(c)' = Searched(c)
    BY <1>1, <2>1, AskingStays, SearchedStays
  <2>3. cursor'.todo = "mark" =>
            /\ cursor'.task = "full" => Recorded(cursor.cat, Full)'
            /\ cursor'.task = "egm" => Filed(cursor.cat, Asking)'
            /\ cursor'.task = "sweep" => Recorded(cursor.cat, Searched(cursor.cat))'
    BY <1>1, <2>1, <2>2 DEF FoundInv, Recorded, Filed, Searched
  <2> QED BY <1>1, <1>2, <2>1, <2>3, FoundStaysHere DEF Listed, FoundInv, Recorded
<1> QED BY <1>3, <1>4, <1>5

(* Whatever crash falls between an answer and its mark or between two       *)
(* locators, a search that counts as finished has left all its boxes among  *)
(* the candidates, and so has every locator of every category; an EGM box   *)
(* without a SAM candidate is evidence for a local search of its category   *)
(* (Engine.discover, Engine.recover).                                       *)
THEOREM FindingsAreKept == Spec => []NothingIsLost
<1>1. IInv /\ FoundInv /\ [Next]_vars => FoundInv'
  BY FoundFull, FoundLocators, FoundNoMore, FoundSweep, FoundReground, FoundOthers
     DEF Next, Discover, Done
<1>2. FoundInv => NothingIsLost
  <2> SUFFICES ASSUME FoundInv, step >= 1, NEW c \in Category, NEW l \in Range(LocatorsOf[c])
               PROVE  Located(c, l)
    BY DEF FoundInv, NothingIsLost
  <2>1. PICK n \in DOMAIN LocatorsOf[c] : l = LocatorsOf[c][n]
    BY DEF Range
  <2> QED BY <2>1 DEF FoundInv, Listed, Matched, Filed, Located
<1> QED BY <1>1, <1>2, FoundInit, Invariance, PTL DEF Spec

-----------------------------------------------------------------------------
(* Fairness of the sweeps: a category the running sweep has passed, or will *)
(* pass only later, has these counts.                                       *)

Provided(c) == Pending(c) # {} => searches[c] = SearchLimit \/ searches[c] > begun[c]

FairInv ==
    \A c \in Category :
        /\ begun[c] <= searches[c]
        /\ Running(c) # {} => /\ cursor.task = "sweep" /\ cursor.cat <= c
                              /\ searches[c] > begun[c]
        /\ cursor.task = "sweep" /\ c < cursor.cat => Provided(c)
        /\ crashes = 0 =>
            /\ searches[c] <= begun[c] + 1
            /\ cursor.task = "sweep" /\ cursor.cat <= c /\ searches[c] > begun[c]
                  => Running(c) # {}

LEMMA FairInit == Init => FairInv
<1> SUFFICES ASSUME Init PROVE FairInv
  OBVIOUS
<1>1. \A c \in Category : Running(c) = {}
  BY DEF Init, Running, WithStatus, AddHint, NewHint
<1>2. cursor.cat = 1 /\ \A c \in Category : c \in Nat /\ ~(c < 1)
  BY DEF Init, EntryOf, BeginningOf, Category
<1> QED BY <1>1, <1>2 DEF Init, FairInv

LEMMA NumbersOK ==
    ASSUME TypeOK
    PROVE  /\ cursor.cat \in Nat
           /\ \A c \in Category : c \in Nat /\ searches[c] \in Nat /\ begun[c] \in Nat
           /\ crashes \in Nat /\ step \in Nat
BY SizesAssumption DEF TypeOK, Cursor, Category, LastStep

(* A step that is not part of a sweep and does not begin one.               *)
LEMMA FairElsewhere ==
    ASSUME IInv, FairInv, Kept, cursor.task # "sweep", cursor'.task # "sweep",
           UNCHANGED <<searches, begun, crashes>>
    PROVE  FairInv'
<1>1. \A c \in Category : Running(c) = {}
  BY DEF FairInv
<1>2. ASSUME NEW c \in Category PROVE Running(c)' = {}
  <2>1. ~Searching[c]
    BY <1>1, <1>2 DEF Searching
  <2>2. Searching' = Searching \/ \E d \in Category : Budget!Grant(d) \/ Budget!Finish(d)
    BY DEF Kept, BudgetStep, Budget!Next
  <2>3. ASSUME NEW d \in Category PROVE ~Budget!Grant(d) /\ ~Budget!Finish(d)
    <3>1. ~Searching[d]
      BY <1>1, <2>3 DEF Searching
    <3>2. searches[d] + 1 # searches[d] /\ searches \in [Category -> Nat]
      BY DEF IInv, TypeOK
    <3> QED BY <3>1, <3>2 DEF Budget!Grant, Budget!Finish
  <2>4. ~Searching'[c]
    BY <2>1, <2>2, <2>3
  <2> QED BY <2>4 DEF Searching
<1> QED BY <1>1, <1>2 DEF FairInv

(* A step of a sweep that starts and ends no search and stays where it is.  *)
LEMMA FairHere ==
    ASSUME FairInv, cursor'.task = cursor.task, cursor'.cat = cursor.cat,
           UNCHANGED <<hints, searches, begun, crashes>>
    PROVE  FairInv'
BY DEF FairInv, Running, Pending, Provided

LEMMA FairSweep ==
    ASSUME IInv, FairInv, Recover
    PROVE  FairInv'
<1>0. PICK c : c = cursor.cat
  OBVIOUS
<1>1. /\ cursor.task = "sweep" /\ cursor \in Cursor /\ c \in Category /\ TypeOK
      /\ hints[c] \in Seq(Hint) /\ SlotsOK(hints[c], searches[c])
      /\ searches[c] \in Nat /\ searches[c] <= SearchLimit
      /\ UNCHANGED <<begun, crashes>>
  BY <1>0 DEF Recover, Resume, Reserve, SkipSweep, AddLocal, MarkLocal, At, IInv, TypeOK,
              SlotsInv, durable
<1>2. CASE Resume \/ AddLocal
  <2>1. UNCHANGED <<hints, searches>> /\ cursor'.task = cursor.task /\ cursor'.cat = cursor.cat
    BY <1>0, <1>1, <1>2, CursorMoves DEF Resume, AddLocal
  <2> QED BY <1>1, <2>1, FairHere
<1>3. CASE SkipSweep
  <2>1. /\ Running(c) = {} /\ ~CanReserve(c) /\ UNCHANGED <<hints, searches>>
        /\ cursor'.task = "sweep" /\ cursor'.cat = c + 1
    BY <1>0, <1>1, <1>3 DEF SkipSweep, durable, NextCategory
  <2>2. Provided(c)
    BY <1>1, <2>1, SizesAssumption DEF CanReserve, Provided
  <2>3. ASSUME NEW d \in Category
        PROVE  /\ Running(d)' = Running(d) /\ Provided(d)' = Provided(d)
               /\ d < c + 1 => d < c \/ d = c
               /\ d \in Nat /\ c \in Nat /\ (c + 1 <= d => c <= d) /\ (c <= d => d = c \/ c + 1 <= d)
    BY <1>1, <2>1 DEF Running, Provided, Pending, Category
  <2> QED BY <1>0, <1>1, <2>1, <2>2, <2>3 DEF FairInv
<1>4. CASE Reserve
  <2> DEFINE new == Started(hints[c], searches[c] + 1)
  <2>1. /\ Running(c) = {} /\ Pending(c) # {} /\ UNCHANGED cursor
        /\ searches' = [searches EXCEPT ![c] = searches[c] + 1]
        /\ hints' = [hints EXCEPT ![c] = new]
    BY <1>0, <1>4 DEF Reserve, CanReserve
  <2>2. WithStatus(new, "running") # {}
    BY <1>1, <2>1, StartOne DEF Running, Pending
  <2> HIDE DEF new
  <2>3. Running(c)' # {}
    BY <1>1, <2>1, <2>2 DEF TypeOK, Running
  <2>4. searches'[c] = searches[c] + 1
    BY <1>1, <2>1 DEF TypeOK
  <2>5. \A d \in Category : d # c => /\ searches'[d] = searches[d] /\ hints'[d] = hints[d]
    BY <1>1, <2>1 DEF TypeOK
  <2>6. ASSUME NEW d \in Category, d # c
        PROVE  Running(d)' = Running(d) /\ Provided(d)' = Provided(d)
    BY <1>1, <2>5, <2>6 DEF Running, Provided, Pending
  <2>7. c <= c /\ ~(c < c) /\ begun[c] \in Nat
    BY <1>1, NumbersOK
  <2>8. ASSUME NEW d \in Category
        PROVE  /\ begun'[d] <= searches'[d]
               /\ Running(d)' # {} => /\ cursor'.task = "sweep" /\ cursor'.cat <= d
                                      /\ searches'[d] > begun'[d]
               /\ cursor'.task = "sweep" /\ d < cursor'.cat => Provided(d)'
               /\ crashes' = 0 =>
                    /\ searches'[d] <= begun'[d] + 1
                    /\ cursor'.task = "sweep" /\ cursor'.cat <= d /\ searches'[d] > begun'[d]
                          => Running(d)' # {}
    <3>1. CASE d = c
      BY <1>0, <1>1, <2>1, <2>3, <2>4, <2>7, <3>1 DEF FairInv
    <3>2. CASE d # c
      BY <1>1, <2>1, <2>5, <2>6, <3>2 DEF FairInv
    <3> QED BY <3>1, <3>2
  <2> QED BY <2>8 DEF FairInv
<1>5. CASE MarkLocal
  <2> DEFINE new == Finished(hints[c])
  <2>1. /\ cursor'.task = "sweep" /\ cursor'.cat = c + 1 /\ UNCHANGED searches
        /\ hints' = [hints EXCEPT ![c] = new] /\ cursor.todo = "mark"
    BY <1>0, <1>1, <1>5 DEF MarkLocal, NextCategory, At
  <2>2. WithStatus(hints[c], "running") # {}
    BY <1>0, <1>1, <2>1 DEF IInv, PhaseInv, Running
  <2>3. WithStatus(new, "running") = {}
    BY <1>1, <2>2, FinishOne
  <2> HIDE DEF new
  <2>4. Running(c)' = {} /\ searches[c] > begun[c]
    BY <1>1, <2>1, <2>2, <2>3 DEF TypeOK, Running, FairInv
  <2>5. \A d \in Category : d # c => hints'[d] = hints[d]
    BY <1>1, <2>1 DEF TypeOK
  <2>6. ASSUME NEW d \in Category, d # c
        PROVE  Running(d)' = Running(d) /\ Provided(d)' = Provided(d)
    BY <1>1, <2>1, <2>5, <2>6 DEF Running, Provided, Pending
  <2>7. Provided(c)'
    BY <1>1, <2>1, <2>4 DEF Provided
  <2>8. ASSUME NEW d \in Category
        PROVE  /\ begun'[d] <= searches'[d]
               /\ Running(d)' # {} => /\ cursor'.task = "sweep" /\ cursor'.cat <= d
                                      /\ searches'[d] > begun'[d]
               /\ cursor'.task = "sweep" /\ d < cursor'.cat => Provided(d)'
               /\ crashes' = 0 =>
                    /\ searches'[d] <= begun'[d] + 1
                    /\ cursor'.task = "sweep" /\ cursor'.cat <= d /\ searches'[d] > begun'[d]
                          => Running(d)' # {}
    <3>0. d \in Nat /\ c \in Nat
      BY <1>1 DEF Category
    <3>1. CASE d = c
      BY <1>0, <1>1, <2>1, <2>4, <2>7, <3>0, <3>1 DEF FairInv
    <3>2. CASE d # c
      <4>1. (d < c + 1 => d < c) /\ (c + 1 <= d => c <= d) /\ (c <= d => c + 1 <= d)
        BY <3>0, <3>2
      <4> QED BY <1>0, <1>1, <2>1, <2>6, <3>2, <4>1 DEF FairInv
    <3> QED BY <3>1, <3>2
  <2> QED BY <2>8 DEF FairInv
<1> QED BY <1>2, <1>3, <1>4, <1>5 DEF Recover

LEMMA FairEndStage ==
    ASSUME IInv, FairInv, EndStage
    PROVE  /\ FairInv'
           /\ cursor.task = "sweep" => \A c \in Category : c < cursor.cat
<1>1. /\ cursor' = EntryOf(step + 1) /\ begun' = searches
      /\ UNCHANGED <<hints, searches, crashes>>
  BY DEF EndStage
<1>2. cursor'.cat = 1
  BY <1>1 DEF EntryOf, BeginningOf
<1>3. cursor.task = "sweep" => \A c \in Category : c < cursor.cat
  BY SizesAssumption DEF EndStage, StageOver, Category
<1>4. ASSUME NEW c \in Category
      PROVE  /\ Running(c)' = {} /\ searches[c] <= searches[c] /\ ~(c < 1)
             /\ ~(searches[c] > searches[c]) /\ searches[c] <= searches[c] + 1
  <2>1. /\ c \in Nat /\ c >= 1 /\ cursor.cat \in Nat /\ searches[c] \in Nat
        /\ c < cursor.cat => ~(cursor.cat <= c)
    BY NumbersOK DEF IInv, Category
  <2>2. Running(c) = {}
    BY <1>3, <2>1 DEF FairInv
  <2> QED BY <1>1, <2>1, <2>2 DEF Running
<1> QED BY <1>1, <1>2, <1>3, <1>4 DEF FairInv

LEMMA FairCrash ==
    ASSUME IInv, FairInv, Crash
    PROVE  FairInv'
<1>1. /\ cursor' = EntryOf(step) /\ crashes' = crashes + 1 /\ crashes \in Nat /\ step \in Nat
      /\ UNCHANGED <<hints, searches, begun, step>>
  BY NumbersOK DEF Crash, durable, IInv
<1>2. cursor'.cat = 1 /\ cursor'.task = Stage(step + 1) /\ crashes' # 0
  BY <1>1 DEF EntryOf, BeginningOf
<1>3. cursor.task = "sweep" => cursor'.task = "sweep"
  BY <1>2 DEF IInv, PhaseInv
<1>4. \A c \in Category : 1 <= c /\ ~(c < 1)
  BY DEF Category
<1>5. \A c \in Category : Running(c)' = Running(c)
  BY <1>1 DEF Running
<1> QED BY <1>1, <1>2, <1>3, <1>4, <1>5 DEF FairInv

LEMMA FairNext ==
    ASSUME IInv, FairInv, [Next]_vars
    PROVE  FairInv'
<1>0. Kept /\ TypeOK
  BY NextKept DEF IInv
<1>1. CASE Discover
  <2>1. /\ cursor.task \in {"full", "egm"} /\ cursor'.task \in {"full", "egm"}
        /\ UNCHANGED <<searches, begun, crashes>>
    <3>1. CASE BeginLocators
      BY <3>1, BeginningOK DEF BeginLocators, durable
    <3>2. CASE SkipFull \/ AskFull \/ AddFull \/ MarkFull
      BY <1>0, <3>2, CursorMoves
         DEF SkipFull, AskFull, AddFull, MarkFull, At, durable, TypeOK
    <3>3. CASE AskLocator \/ AddLocator \/ HintUnmatched \/ EndLocators
      BY <1>0, <3>3, CursorMoves
         DEF AskLocator, AddLocator, HintUnmatched, EndLocators, AtLocator, At, durable, TypeOK
    <3> QED BY <1>1, <3>1, <3>2, <3>3 DEF Discover
  <2> QED BY <1>0, <2>1, FairElsewhere
<1>2. CASE RegroundEvidence
  BY <1>0, <1>2, FairElsewhere DEF RegroundEvidence
<1>3. CASE UNCHANGED vars
  BY <1>3, FairHere DEF vars
<1> QED BY <1>1, <1>2, <1>3, FairSweep, FairEndStage, FairCrash DEF Next, Done

(* No sweep passes a category with evidence and budget left over, and       *)
(* without a crash none takes two slots for one (Engine.recover).           *)
THEOREM SweepsTakeTurns == Spec => SweepsAreFair
<1>1. IInv /\ FairInv /\ [Next]_vars =>
        [cursor.task = "sweep" /\ step' > step =>
            \A c \in Category :
                /\ Pending(c) # {} => searches[c] = SearchLimit \/ searches[c] > begun[c]
                /\ crashes = 0 => searches[c] <= begun[c] + 1]_vars
  <2> SUFFICES ASSUME IInv, FairInv, [Next]_vars, cursor.task = "sweep", step' > step,
                      NEW c \in Category
               PROVE  /\ Pending(c) # {} => searches[c] = SearchLimit \/ searches[c] > begun[c]
                      /\ crashes = 0 => searches[c] <= begun[c] + 1
    OBVIOUS
  <2>1. EndStage
    <3>1. step \in Nat /\ ~(step > step)
      BY NumbersOK DEF IInv
    <3>2. UNCHANGED step => FALSE
      BY <3>1
    <3> QED BY <3>2 DEF Next, Discover, Recover, RegroundEvidence, Crash, Done, vars, durable,
          SkipFull, AskFull, AddFull, MarkFull, BeginLocators, AskLocator, AddLocator,
          HintUnmatched, EndLocators, Resume, Reserve, SkipSweep, AddLocal, MarkLocal
  <2> QED BY <2>1, FairEndStage DEF FairInv, Provided
<1>2. IInv /\ FairInv /\ [Next]_vars => FairInv'
  BY FairNext
<1> QED BY <1>1, <1>2, FairInit, Invariance, PTL DEF Spec, SweepsAreFair

-----------------------------------------------------------------------------
(* The objects that are made of what was found (RoleObjects).              *)

(***************************************************************************)
(* The inductive invariant.  The books: a candidate that was decided to be *)
(* an object is a detection of just one, and a box had as many versions as *)
(* the object has detections at most.                                      *)
(***************************************************************************)
Decided == {"verified", "duplicate"}

BooksInv ==
    /\ \A k \in DOMAIN objects :
          /\ objects[k].detections \subseteq DOMAIN found
          /\ objects[k].id \in objects[k].detections
          /\ objects[k].from \in objects[k].detections
          /\ objects[k].version <= Cardinality(objects[k].detections)
          /\ \A l \in DOMAIN objects \ {k} :
                objects[k].detections \cap objects[l].detections = {}
    /\ \A i \in DOMAIN found :
          status[i] \in Decided <=> \E k \in DOMAIN objects : i \in objects[k].detections

(* While objects are compared with a candidate, it is the first in line,   *)
(* its own box was verified, and it has none of the extents compared with  *)
(* so far.                                                                 *)
Accepted(i) ==
    found[i].box \in SizePass /\ ObjectQuestion(i) \in DOMAIN calls
        /\ calls[ObjectQuestion(i)] = "yes"

UnderWay ==
    /\ at <= Len(Plan) /\ Plan[at] = "verify_objects"
    /\ \E i \in Waiting :
          /\ IsFirst(i) /\ Accepted(i)
          /\ \A k \in DOMAIN objects : k < next => ~SameExtent(objects[k], i)

(* Nothing is added after the last verification.                           *)
LastOnesDone == at >= Len(Plan) => Waiting = {}

ObjectsIInv ==
    /\ ObjectsTypeOK
    /\ BooksInv
    /\ next > 0 => UnderWay
    /\ LastOnesDone
    /\ ObjectsAreAudited
    /\ DistinctUnlessMoved

-----------------------------------------------------------------------------
(* The plan ends with a verification and a stage that adds nothing.        *)
LEMMA PlanEnds ==
    /\ Len(Plan) = 3 * Refinements + 7 /\ Len(Plan) \in Nat
    /\ Plan[Len(Plan)] = "reground_final"
    /\ Plan[Len(Plan) - 1] = "verify_objects"
<1> DEFINE names == {"discover", "verify_objects", "recover", "reground", "reground_final"}
           round == << "recover", "verify_objects", "reground" >>
           first == << "discover", "verify_objects", "recover", "verify_objects", "reground" >>
           middle == [n \in 1..(3 * Refinements) |-> round[1 + ((n - 1) % 3)]]
           last == << "verify_objects", "reground_final" >>
<1>1. Refinements \in Nat /\ 3 * Refinements \in Nat
  BY FindsAssumption
<1>2. middle \in Seq(names) /\ Len(middle) = 3 * Refinements
  <2>1. ASSUME NEW n \in 1..(3 * Refinements)
        PROVE  round[1 + ((n - 1) % 3)] \in names
    <3>1. (n - 1) % 3 \in {0, 1, 2}
      BY <1>1
    <3> QED BY <3>1
  <2> QED BY <1>1, <2>1
<1>3. /\ first \in Seq(names) /\ Len(first) = 5
      /\ last \in Seq(names) /\ Len(last) = 2
      /\ last[1] = "verify_objects" /\ last[2] = "reground_final"
  OBVIOUS
<1> HIDE DEF first, middle, last, names
<1>4. /\ first \o middle \in Seq(names) /\ Len(first \o middle) = 3 * Refinements + 5
  <2>1. /\ first \o middle \in Seq(names)
        /\ Len(first \o middle) = Len(first) + Len(middle)
    BY <1>2, <1>3, ConcatProperties
  <2> QED BY <1>1, <1>2, <1>3, <2>1
<1> DEFINE both == first \o middle
<1> DEFINE whole == both \o last
<1>5. /\ Len(whole) = 3 * Refinements + 7
      /\ whole[3 * Refinements + 7] = last[2]
      /\ whole[3 * Refinements + 6] = last[1]
  <2> HIDE DEF both
  <2>1. both \in Seq(names) /\ Len(both) = 3 * Refinements + 5
    BY <1>4 DEF both
  <2>2. /\ Len(both \o last) = Len(both) + Len(last)
        /\ \A i \in 1..(Len(both) + Len(last)) :
              (both \o last)[i] = IF i <= Len(both) THEN both[i] ELSE last[i - Len(both)]
    BY <2>1, <1>3, ConcatProperties
  <2> QED BY <1>1, <1>3, <2>1, <2>2
<1>6. Plan = whole
  BY Zenon DEF Plan, whole, both, first, middle, last, round
<1> HIDE DEF whole
<1>7. Len(whole) - 1 = 3 * Refinements + 6
  BY <1>1, <1>5
<1> QED BY <1>1, <1>3, <1>5, <1>6, <1>7

(* Only one candidate is first in line.                                    *)
LEMMA FirstIsOne ==
    ASSUME ObjectsTypeOK, NEW i, NEW j, IsFirst(i), IsFirst(j)
    PROVE  i = j
<1>1. i \in 1..Len(found) /\ j \in 1..Len(found)
  BY DEF ObjectsTypeOK, IsFirst, Waiting
<1> QED BY <1>1 DEF IsFirst

(* The candidate of a step under way is the one its questions were asked   *)
(* about.                                                                  *)
LEMMA SameCandidate ==
    ASSUME ObjectsIInv, NEW i, Ready(i), next > 0
    PROVE  /\ Accepted(i)
           /\ \A k \in DOMAIN objects : k < next => ~SameExtent(objects[k], i)
<1>1. PICK j \in Waiting : /\ IsFirst(j) /\ Accepted(j)
                           /\ \A k \in DOMAIN objects : k < next => ~SameExtent(objects[k], j)
  BY DEF ObjectsIInv, UnderWay
<1>2. i = j
  BY <1>1, FirstIsOne DEF ObjectsIInv, Ready, Verifying
<1> QED BY <1>1, <1>2

(* What is of an object is a candidate, and its box one the loop compares  *)
(* with itself.                                                            *)
LEMMA BoxesOfObjects ==
    ASSUME ObjectsTypeOK, BooksInv, NEW k \in DOMAIN objects
    PROVE  /\ objects[k].id \in DOMAIN found /\ objects[k].from \in DOMAIN found
           /\ <<ObjectBox(objects[k]), ObjectBox(objects[k])>> \in Overlap
<1>1. objects[k].id \in DOMAIN found /\ objects[k].from \in DOMAIN found
  BY DEF BooksInv
<1>2. found[objects[k].from] \in Finds
  BY <1>1 DEF ObjectsTypeOK
<1> QED BY <1>1, <1>2, FindsAssumption DEF ObjectBox, Boxes

(* An object that was found to be different has not the same extent.       *)
LEMMA DifferentExtent ==
    ASSUME ObjectsTypeOK, BooksInv, NEW k \in DOMAIN objects, NEW i,
           Identity(objects[k], i) = "different"
    PROVE  ~SameExtent(objects[k], i)
<1> SUFFICES ASSUME SameExtent(objects[k], i) PROVE FALSE
  OBVIOUS
<1>1. Near(objects[k], i)
  BY BoxesOfObjects DEF Near, SameExtent
<1> QED BY <1>1 DEF Identity

(* A finite set of candidates has no more of them than there may be.       *)
LEMMA SizeOfDetections ==
    ASSUME ObjectsTypeOK, NEW D \in SUBSET DOMAIN found
    PROVE  IsFiniteSet(D) /\ Cardinality(D) \in Nat /\ Cardinality(D) <= MaxFinds
<1>1. Len(found) \in Nat /\ DOMAIN found = 1..Len(found) /\ Len(found) <= MaxFinds
  BY DEF ObjectsTypeOK
<1>2. IsFiniteSet(1..Len(found)) /\ Cardinality(1..Len(found)) = Len(found)
  BY <1>1, FS_Interval
<1>3. IsFiniteSet(D) /\ Cardinality(D) <= Len(found)
  BY <1>1, <1>2, FS_Subset
<1>4. Cardinality(D) \in Nat
  BY <1>3, FS_CardinalityType
<1> QED BY <1>1, <1>3, <1>4, FindsAssumption

-----------------------------------------------------------------------------
(* What a step does to the objects.                                        *)

(* A version is a number.                                                  *)
LEMMA VersionsAreNumbers ==
    ASSUME NEW some \in Seq(Object)
    PROVE  \A k \in DOMAIN some : some[k].version \in Nat /\ some[k].version >= 1
<1>1. \A k \in DOMAIN some : some[k] \in Object
  OBVIOUS
<1> QED BY <1>1, FindsAssumption DEF Object

(* A candidate that waits is a detection of no object.                     *)
LEMMA WaitingIsFree ==
    ASSUME ObjectsTypeOK, BooksInv, NEW i \in Waiting
    PROVE  /\ i \in DOMAIN found /\ i \in DOMAIN status /\ i \in 1..MaxFinds
           /\ \A k \in DOMAIN objects : i \notin objects[k].detections
<1>1. i \in DOMAIN found /\ status[i] = "pending"
  BY DEF Waiting
<1>2. i \in DOMAIN status /\ i \in 1..MaxFinds
  BY <1>1, FindsAssumption DEF ObjectsTypeOK
<1>3. status[i] \notin Decided
  BY <1>1 DEF Decided
<1> QED BY <1>1, <1>2, <1>3 DEF BooksInv

(* The candidate is added to one object, which may get its box.            *)
LEMMA DuplicateEffect ==
    ASSUME ObjectsTypeOK, BooksInv, NEW i \in Waiting, Duplicate(i)
    PROVE  /\ next \in DOMAIN objects
           /\ objects' \in Seq(Object) /\ Len(objects') = Len(objects)
           /\ \A k \in DOMAIN objects \ {next} : objects'[k] = objects[k]
           /\ objects'[next].id = objects[next].id
           /\ objects'[next].detections = objects[next].detections \cup {i}
           /\ \/ /\ objects'[next].from = objects[next].from
                 /\ objects'[next].version = objects[next].version
              \/ /\ objects'[next].from = i
                 /\ objects'[next].version = objects[next].version + 1
                 /\ Identity(objects[next], i) = "same_B"
<1> DEFINE o == objects[next]
           moved == [id |-> o.id, from |-> i, detections |-> o.detections \cup {i},
                     version |-> o.version + 1]
           kept == [o EXCEPT !.detections = o.detections \cup {i}]
           new == IF Identity(o, i) = "same_B" THEN moved ELSE kept
<1>1. next \in DOMAIN objects /\ objects' = [objects EXCEPT ![next] = new]
  BY DEF Duplicate, WithDetection
<1>2. o \in Object /\ i \in 1..MaxFinds
  BY <1>1, WaitingIsFree DEF ObjectsTypeOK
<1>3. o.version + 1 \in 1..MaxFinds
  <2>1. o.detections \in SUBSET DOMAIN found /\ o.version <= Cardinality(o.detections)
    BY <1>1 DEF BooksInv
  <2>2. o.detections \cup {i} \in SUBSET DOMAIN found
    BY <2>1, WaitingIsFree
  <2>3. i \notin o.detections
    BY <1>1, WaitingIsFree
  <2>4. Cardinality(o.detections \cup {i}) = Cardinality(o.detections) + 1
    BY <2>1, <2>3, SizeOfDetections, FS_AddElement
  <2>5. Cardinality(o.detections \cup {i}) <= MaxFinds /\ Cardinality(o.detections) \in Nat
    BY <2>1, <2>2, SizeOfDetections
  <2>6. o.version \in Nat /\ o.version >= 1 /\ MaxFinds \in Nat
    BY <1>2, FindsAssumption DEF Object
  <2> HIDE DEF o
  <2> QED BY <2>1, <2>4, <2>5, <2>6
<1>4. moved \in Object
  BY <1>2, <1>3 DEF Object
<1>5. /\ kept \in Object /\ kept.id = o.id /\ kept.from = o.from /\ kept.version = o.version
      /\ kept.detections = o.detections \cup {i}
  BY <1>2 DEF Object
<1>6. new \in Object
  BY <1>4, <1>5
<1>7. objects' \in Seq(Object) /\ Len(objects') = Len(objects) /\ objects'[next] = new
  <2> HIDE DEF new
  <2>1. objects \in Seq(Object) /\ next \in 1..Len(objects)
    BY <1>1 DEF ObjectsTypeOK
  <2> QED BY <1>1, <1>6, <2>1
<1>8. \A k \in DOMAIN objects \ {next} : objects'[k] = objects[k]
  <2> HIDE DEF new
  <2> QED BY <1>1
<1>9. CASE Identity(o, i) = "same_B"
  <2>1. objects'[next] = moved
    BY <1>7, <1>9
  <2> QED BY <1>1, <1>7, <1>8, <1>9, <2>1
<1>10. CASE Identity(o, i) # "same_B"
  <2>1. objects'[next] = kept
    BY <1>7, <1>10
  <2> HIDE DEF kept, new
  <2> QED BY <1>1, <1>5, <1>7, <1>8, <2>1
<1> QED BY <1>9, <1>10

(* The candidate becomes an object of its own.                             *)
LEMMA NewObjectEffect ==
    ASSUME ObjectsTypeOK, BooksInv, NEW i \in Waiting, NewObject(i)
    PROVE  /\ objects' \in Seq(Object) /\ Len(objects') = Len(objects) + 1
           /\ \A k \in DOMAIN objects : objects'[k] = objects[k]
           /\ objects'[Len(objects) + 1]
                  = [id |-> i, from |-> i, detections |-> {i}, version |-> 1]
<1> DEFINE new == [id |-> i, from |-> i, detections |-> {i}, version |-> 1]
<1>1. objects' = Append(objects, new) /\ objects \in Seq(Object)
  BY DEF NewObject, ObjectsTypeOK
<1>2. i \in 1..MaxFinds /\ 1 \in 1..MaxFinds
  BY WaitingIsFree, FindsAssumption
<1>3. new \in Object
  BY <1>2 DEF Object
<1> HIDE DEF new
<1>4. /\ objects' \in Seq(Object) /\ Len(objects') = Len(objects) + 1
      /\ \A k \in 1..Len(objects) : objects'[k] = objects[k]
      /\ objects'[Len(objects) + 1] = new
  BY <1>1, <1>3, AppendProperties
<1> QED BY <1>1, <1>4 DEF new

-----------------------------------------------------------------------------
(* Steps that leave the objects alone.                                     *)
LEMMA BooksUnchanged ==
    ASSUME BooksInv, UNCHANGED objects, DOMAIN found \subseteq DOMAIN found',
           \A j \in DOMAIN found' :
               status'[j] \in Decided <=> j \in DOMAIN found /\ status[j] \in Decided
    PROVE  BooksInv'
<1>1. \A k \in DOMAIN objects : objects[k].detections \subseteq DOMAIN found
  BY DEF BooksInv
<1>2. \A j \in DOMAIN found' :
          status'[j] \in Decided <=> \E k \in DOMAIN objects : j \in objects[k].detections
  BY <1>1 DEF BooksInv
<1>3. \A k \in DOMAIN objects' :
          /\ objects'[k].detections \subseteq DOMAIN found'
          /\ objects'[k].id \in objects'[k].detections
          /\ objects'[k].from \in objects'[k].detections
          /\ objects'[k].version <= Cardinality(objects'[k].detections)
          /\ \A l \in DOMAIN objects' \ {k} :
                objects'[k].detections \cap objects'[l].detections = {}
  BY <1>1 DEF BooksInv
<1> QED BY <1>2, <1>3 DEF BooksInv

LEMMA ObjectsUnchanged ==
    ASSUME BooksInv, ObjectsAreAudited, DistinctUnlessMoved, UNCHANGED objects,
           \A j \in DOMAIN found : found'[j] = found[j],
           \A q \in DOMAIN calls : q \in DOMAIN calls' /\ calls'[q] = calls[q]
    PROVE  ObjectsAreAudited' /\ DistinctUnlessMoved'
<1>1. \A k \in DOMAIN objects :
          /\ objects[k].detections \subseteq DOMAIN found
          /\ objects[k].id \in DOMAIN found /\ objects[k].from \in DOMAIN found
  BY DEF BooksInv
<1>2. \A k \in DOMAIN objects : \A i \in objects[k].detections :
          /\ found'[i].box \in SizePass
          /\ ObjectQuestion(i)' \in DOMAIN calls' /\ calls'[ObjectQuestion(i)'] = "yes"
  BY <1>1 DEF ObjectsAreAudited, ObjectQuestion
<1>3. ASSUME NEW k \in DOMAIN objects, NEW i, i = objects[k].id
      PROVE  IsSam(i)' \/ (AuditQuestion(i)' \in DOMAIN calls' /\ calls'[AuditQuestion(i)'] = "yes")
  BY <1>1, <1>3 DEF ObjectsAreAudited, AuditQuestion, IsSam
<1>4. ObjectsAreAudited'
  BY <1>2, <1>3 DEF ObjectsAreAudited, IsSam, AuditQuestion, ObjectQuestion
<1>5. DistinctUnlessMoved'
  BY <1>1 DEF DistinctUnlessMoved, SameTwice, ObjectBox
<1> QED BY <1>4, <1>5

-----------------------------------------------------------------------------
(* The steps, one after the other.                                         *)
LEMMA InitHolds == ObjectsInit => ObjectsIInv
<1> SUFFICES ASSUME ObjectsInit PROVE ObjectsIInv
  OBVIOUS
<1>1. Len(Plan) \in Nat /\ Len(Plan) >= 7
  BY PlanEnds, FindsAssumption
<1>2. found = << >> /\ status = << >> /\ objects = << >> /\ calls = << >> /\ DOMAIN calls = {}
  BY DEF ObjectsInit
<1>3. ObjectsTypeOK
  BY <1>1, <1>2, FindsAssumption DEF ObjectsInit, ObjectsTypeOK
<1>4. Waiting = {} /\ BooksInv /\ ObjectsAreAudited /\ DistinctUnlessMoved
  BY <1>2 DEF Waiting, BooksInv, ObjectsAreAudited, DistinctUnlessMoved
<1> QED BY <1>3, <1>4 DEF ObjectsIInv, LastOnesDone, ObjectsInit

LEMMA AddKeeps ==
    ASSUME ObjectsIInv, AddCandidate
    PROVE  ObjectsIInv'
<1> USE DEF ObjectsIInv
<1>1. PICK c \in Finds : /\ NewFind(c) /\ found' = Append(found, c)
                         /\ status' = Append(status, "pending")
                         /\ UNCHANGED <<at, objects, calls, next, deaths>>
                         /\ at <= Len(Plan) /\ Plan[at] # "verify_objects"
                         /\ Len(found) < MaxFinds
  BY DEF AddCandidate
<1>2. ObjectsTypeOK'
  BY <1>1, FindsAssumption DEF ObjectsTypeOK
<1>3. /\ found \in Seq(Finds) /\ Len(status) = Len(found)
      /\ DOMAIN found = 1..Len(found) /\ DOMAIN status = 1..Len(found)
      /\ DOMAIN found' = 1..(Len(found) + 1) /\ Len(found) \in Nat
      /\ \A j \in 1..Len(found) : found'[j] = found[j] /\ status'[j] = status[j]
      /\ status'[Len(found) + 1] = "pending"
  BY <1>1 DEF ObjectsTypeOK
<1>4. BooksInv'
  BY <1>1, <1>3, BooksUnchanged DEF Decided
<1>5. ObjectsAreAudited' /\ DistinctUnlessMoved'
  BY <1>1, <1>3, ObjectsUnchanged
<1>6. next' = 0
  BY <1>1 DEF UnderWay, ObjectsTypeOK
<1>7. LastOnesDone'
  <2>1. at # Len(Plan)
    BY <1>1, PlanEnds DEF NewFind
  <2> QED BY <1>1, <2>1, PlanEnds DEF LastOnesDone, ObjectsTypeOK
<1> QED BY <1>2, <1>4, <1>5, <1>6, <1>7

LEMMA StageKeeps ==
    ASSUME ObjectsIInv, StageDone
    PROVE  ObjectsIInv'
<1> USE DEF ObjectsIInv
<1>1. /\ at <= Len(Plan) /\ (Plan[at] = "verify_objects" => Waiting = {})
      /\ at' = at + 1 /\ UNCHANGED <<found, status, objects, calls, next, deaths>>
  BY DEF StageDone
<1>2. at \in 1..Len(Plan) /\ Len(Plan) \in Nat /\ at + 1 \in 1..(Len(Plan) + 1)
  BY <1>1, PlanEnds DEF ObjectsTypeOK
<1>3. ObjectsTypeOK'
  BY <1>1, <1>2 DEF ObjectsTypeOK
<1>4. BooksInv'
  BY <1>1, BooksUnchanged
<1>5. ObjectsAreAudited' /\ DistinctUnlessMoved'
  BY <1>1, ObjectsUnchanged
<1>6. next' = 0
  BY <1>1 DEF UnderWay, ObjectsTypeOK
<1>7. LastOnesDone'
  <2> SUFFICES ASSUME at + 1 >= Len(Plan) PROVE Waiting = {}
    BY <1>1 DEF LastOnesDone, Waiting
  <2>1. CASE at = Len(Plan)
    BY <2>1, <1>2 DEF LastOnesDone
  <2>2. CASE at = Len(Plan) - 1
    BY <1>1, <2>2, PlanEnds
  <2> QED BY <1>2, <2>1, <2>2
<1> QED BY <1>3, <1>4, <1>5, <1>6, <1>7

LEMMA DieKeeps ==
    ASSUME ObjectsIInv, Die
    PROVE  ObjectsIInv'
<1> USE DEF ObjectsIInv, Die
<1>1. ObjectsTypeOK'
  BY FindsAssumption DEF ObjectsTypeOK
<1>2. BooksInv'
  BY BooksUnchanged
<1>3. ObjectsAreAudited' /\ DistinctUnlessMoved'
  BY ObjectsUnchanged
<1>4. LastOnesDone'
  BY DEF LastOnesDone, Waiting
<1> QED BY <1>1, <1>2, <1>3, <1>4

(* A new answer: those on file are not touched.                            *)
LEMMA AskKeeps ==
    ASSUME ObjectsIInv, NEW i \in Waiting, Ask(i)
    PROVE  ObjectsIInv'
<1> USE DEF ObjectsIInv
<1>1. PICK q \in Questions(i) \ DOMAIN calls : \E answer \in AnswersTo(q) :
          calls' = [p \in DOMAIN calls \cup {q} |-> IF p = q THEN answer ELSE calls[p]]
  BY DEF Ask
<1>2. PICK answer \in AnswersTo(q) :
          calls' = [p \in DOMAIN calls \cup {q} |-> IF p = q THEN answer ELSE calls[p]]
  BY <1>1
<1>3. UNCHANGED <<at, found, status, objects, next, deaths>>
  BY DEF Ask
<1>4. \A p \in DOMAIN calls : p \in DOMAIN calls' /\ calls'[p] = calls[p]
  BY <1>1, <1>2
<1>5. ObjectsTypeOK'
  <2>1. answer \in Verdicts
    BY <1>2 DEF AnswersTo, Verdicts
  <2>2. \A p \in DOMAIN calls' : calls'[p] \in Verdicts
    BY <1>2, <2>1 DEF ObjectsTypeOK
  <2> QED BY <1>3, <2>2 DEF ObjectsTypeOK
<1>6. BooksInv'
  BY <1>3, BooksUnchanged
<1>7. ObjectsAreAudited' /\ DistinctUnlessMoved'
  BY <1>3, <1>4, ObjectsUnchanged
<1>8. LastOnesDone'
  BY <1>3 DEF LastOnesDone, Waiting
<1>9. ASSUME next > 0 PROVE UnderWay'
  BY <1>3, <1>4, <1>9 DEF UnderWay, Accepted, IsFirst, IsSam, Waiting, SameExtent,
                          ObjectBox, ObjectQuestion
<1> QED BY <1>3, <1>5, <1>6, <1>7, <1>8, <1>9

(* A candidate that is no object, or perhaps the same as one.              *)
LEMMA DismissKeeps ==
    ASSUME ObjectsIInv, NEW i \in Waiting, NEW s \in {"rejected", "unresolved_identity"},
           Decide(i, s), UNCHANGED objects, Rest
    PROVE  ObjectsIInv'
<1> USE DEF ObjectsIInv
<1>1. /\ status' = [status EXCEPT ![i] = s] /\ next' = 0
      /\ UNCHANGED <<at, found, calls, objects, deaths>>
  BY DEF Decide, Rest
<1>2. ObjectsTypeOK'
  BY <1>1, WaitingIsFree DEF ObjectsTypeOK
<1>3. \A j \in DOMAIN found : status'[j] \in Decided <=> status[j] \in Decided
  <2>1. i \in DOMAIN status /\ DOMAIN status = DOMAIN found /\ status[i] = "pending"
    BY WaitingIsFree DEF ObjectsTypeOK, Waiting
  <2> QED BY <1>1, <2>1 DEF Decided
<1>4. BooksInv'
  BY <1>1, <1>3, BooksUnchanged
<1>5. ObjectsAreAudited' /\ DistinctUnlessMoved'
  BY <1>1, ObjectsUnchanged
<1>6. LastOnesDone'
  BY <1>1 DEF LastOnesDone
<1> QED BY <1>1, <1>2, <1>4, <1>5, <1>6

LEMMA AcceptKeeps ==
    ASSUME ObjectsIInv, NEW i \in Waiting, Accept(i)
    PROVE  ObjectsIInv'
<1> USE DEF ObjectsIInv
<1>1. /\ next = 0 /\ next' = 1
      /\ UNCHANGED <<at, found, status, objects, calls, deaths>>
      /\ at <= Len(Plan) /\ Plan[at] = "verify_objects" /\ IsFirst(i)
  BY DEF Accept, Rest, Ready, Verifying
<1>2. ObjectsTypeOK'
  BY <1>1 DEF ObjectsTypeOK
<1>3. BooksInv'
  BY <1>1, BooksUnchanged
<1>4. ObjectsAreAudited' /\ DistinctUnlessMoved'
  BY <1>1, ObjectsUnchanged
<1>5. LastOnesDone'
  BY <1>1 DEF LastOnesDone, Waiting
<1>6. Accepted(i)
  BY <1>1 DEF Accept, Ready, Questions, Accepted
<1>7. UnderWay'
  <2>1. ASSUME NEW k \in DOMAIN objects, k < 1 PROVE FALSE
    BY <2>1 DEF ObjectsTypeOK
  <2>2. IsFirst(i)' /\ Accepted(i)' /\ i \in Waiting'
    BY <1>1, <1>6 DEF IsFirst, Accepted, Waiting, ObjectQuestion, IsSam
  <2> QED BY <1>1, <2>1, <2>2 DEF UnderWay
<1> QED BY <1>2, <1>3, <1>4, <1>5, <1>7

LEMMA NextObjectKeeps ==
    ASSUME ObjectsIInv, NEW i \in Waiting, NextObject(i)
    PROVE  ObjectsIInv'
<1> USE DEF ObjectsIInv
<1>1. /\ Ready(i) /\ next \in DOMAIN objects /\ next' = next + 1
      /\ UNCHANGED <<at, found, status, objects, calls, deaths>>
      /\ at <= Len(Plan) /\ Plan[at] = "verify_objects" /\ IsFirst(i)
      /\ Identity(objects[next], i) = "different"
  BY DEF NextObject, Rest, Ready, Verifying
<1>2. ObjectsTypeOK'
  BY <1>1 DEF ObjectsTypeOK
<1>3. BooksInv'
  BY <1>1, BooksUnchanged
<1>4. ObjectsAreAudited' /\ DistinctUnlessMoved'
  BY <1>1, ObjectsUnchanged
<1>5. LastOnesDone'
  BY <1>1 DEF LastOnesDone, Waiting
<1>6. next \in 1..Len(objects) /\ Len(objects) \in Nat
  BY <1>1 DEF ObjectsTypeOK
<1>7. /\ Accepted(i)
      /\ \A k \in DOMAIN objects : k < next => ~SameExtent(objects[k], i)
  BY <1>1, <1>6, SameCandidate
<1>8. ~SameExtent(objects[next], i)
  BY <1>1, DifferentExtent
<1>9. \A k \in DOMAIN objects : k < next + 1 => ~SameExtent(objects[k], i)
  BY <1>6, <1>7, <1>8 DEF ObjectsTypeOK
<1>10. UnderWay'
  <2>1. IsFirst(i)' /\ Accepted(i)' /\ i \in Waiting'
    BY <1>1, <1>7 DEF IsFirst, Accepted, Waiting, ObjectQuestion, IsSam
  <2>2. \A k \in DOMAIN objects' : k < next' => ~SameExtent(objects[k], i)'
    BY <1>1, <1>9 DEF SameExtent, ObjectBox
  <2> QED BY <1>1, <2>1, <2>2 DEF UnderWay
<1> QED BY <1>2, <1>3, <1>4, <1>5, <1>10

(* The candidate and the record of its decision, when it becomes part of   *)
(* an object.                                                              *)
LEMMA DecidedTypes ==
    ASSUME ObjectsTypeOK, BooksInv, NEW i \in Waiting, NEW s \in Decided,
           Decide(i, s), Rest, objects' \in Seq(Object)
    PROVE  /\ ObjectsTypeOK' /\ Waiting' \subseteq Waiting
           /\ UNCHANGED <<at, found, calls>> /\ next' = 0
           /\ \A j \in DOMAIN found : status'[j] \in Decided <=> j = i \/ status[j] \in Decided
<1>1. /\ status' = [status EXCEPT ![i] = s] /\ next' = 0
      /\ UNCHANGED <<at, found, calls, deaths>>
  BY DEF Decide, Rest
<1>2. i \in DOMAIN status /\ DOMAIN status = DOMAIN found /\ s \in {"verified", "duplicate"}
  BY WaitingIsFree DEF ObjectsTypeOK, Decided
<1>3. ObjectsTypeOK'
  BY <1>1, <1>2 DEF ObjectsTypeOK
<1>4. Waiting' \subseteq Waiting
  BY <1>1, <1>2 DEF Waiting
<1>5. \A j \in DOMAIN found : status'[j] \in Decided <=> j = i \/ status[j] \in Decided
  BY <1>1, <1>2 DEF Decided
<1> QED BY <1>1, <1>3, <1>4, <1>5

LEMMA DuplicateKeeps ==
    ASSUME ObjectsIInv, NEW i \in Waiting, Duplicate(i)
    PROVE  ObjectsIInv'
<1> USE DEF ObjectsIInv
<1> DEFINE D(k) == objects[k].detections
<1>1. /\ Ready(i) /\ Decide(i, "duplicate") /\ Rest
  BY DEF Duplicate
<1>2. PICK n \in DOMAIN objects : n = next
  BY DEF Duplicate
<1>3. /\ objects' \in Seq(Object) /\ Len(objects') = Len(objects)
      /\ \A k \in DOMAIN objects \ {n} : objects'[k] = objects[k]
      /\ objects'[n].id = objects[n].id
      /\ objects'[n].detections = objects[n].detections \cup {i}
      /\ \/ /\ objects'[n].from = objects[n].from
            /\ objects'[n].version = objects[n].version
         \/ /\ objects'[n].from = i
            /\ objects'[n].version = objects[n].version + 1
  BY <1>2, DuplicateEffect
<1>4. /\ ObjectsTypeOK' /\ Waiting' \subseteq Waiting
      /\ UNCHANGED <<at, found, calls>> /\ next' = 0
      /\ \A j \in DOMAIN found : status'[j] \in Decided <=> j = i \/ status[j] \in Decided
  <2>1. "duplicate" \in Decided
    BY DEF Decided
  <2> QED BY <1>1, <1>3, <2>1, DecidedTypes
<1>5. DOMAIN objects' = DOMAIN objects
  BY <1>3 DEF ObjectsTypeOK
<1>6. i \in DOMAIN found /\ \A k \in DOMAIN objects : i \notin D(k)
  BY WaitingIsFree
<1>7. BooksInv'
  <2>1. ASSUME NEW k \in DOMAIN objects
        PROVE  /\ objects'[k].detections \subseteq DOMAIN found
               /\ objects'[k].id \in objects'[k].detections
               /\ objects'[k].from \in objects'[k].detections
    BY <1>3, <1>6 DEF BooksInv
  <2>2. ASSUME NEW k \in DOMAIN objects
        PROVE  objects'[k].version <= Cardinality(objects'[k].detections)
    <3>1. CASE k # n
      BY <3>1, <1>3 DEF BooksInv
    <3>2. CASE k = n
      <4>1. /\ IsFiniteSet(D(n)) /\ Cardinality(D(n)) \in Nat
            /\ objects[n].version <= Cardinality(D(n))
        BY SizeOfDetections DEF BooksInv
      <4>2. Cardinality(D(n) \cup {i}) = Cardinality(D(n)) + 1
        BY <4>1, <1>6, FS_AddElement
      <4>3. objects[n].version \in Nat
        BY VersionsAreNumbers DEF ObjectsTypeOK
      <4>4. \/ objects'[n].version = objects[n].version
            \/ objects'[n].version = objects[n].version + 1
        BY <1>3
      <4>5. Cardinality(objects'[k].detections) = Cardinality(D(n)) + 1
        BY <1>3, <3>2, <4>2
      <4> HIDE DEF D
      <4> QED BY <3>2, <4>1, <4>3, <4>4, <4>5
    <3> QED BY <3>1, <3>2
  <2>3. ASSUME NEW k \in DOMAIN objects, NEW l \in DOMAIN objects \ {k}
        PROVE  objects'[k].detections \cap objects'[l].detections = {}
    <3>1. D(k) \cap D(l) = {} /\ i \notin D(k) /\ i \notin D(l)
      BY <1>6 DEF BooksInv
    <3> QED BY <1>3, <3>1
  <2>4. ASSUME NEW j \in DOMAIN found
        PROVE  status'[j] \in Decided <=> \E k \in DOMAIN objects : j \in objects'[k].detections
    <3>1. status[j] \in Decided <=> \E k \in DOMAIN objects : j \in D(k)
      BY DEF BooksInv
    <3>2. (\E k \in DOMAIN objects : j \in objects'[k].detections)
              <=> j = i \/ \E k \in DOMAIN objects : j \in D(k)
      BY <1>3
    <3> QED BY <1>4, <3>1, <3>2
  <2> QED BY <1>4, <1>5, <2>1, <2>2, <2>3, <2>4 DEF BooksInv
<1>8. ObjectsAreAudited'
  <2>1. next > 0
    BY <1>2 DEF ObjectsTypeOK
  <2>2. Accepted(i)
    BY <1>1, <2>1, SameCandidate
  <2>3. \A k \in DOMAIN objects : objects'[k].id = objects[k].id
            /\ objects'[k].detections \subseteq objects[k].detections \cup {i}
    BY <1>3
  <2> QED BY <1>4, <1>5, <2>2, <2>3
          DEF ObjectsAreAudited, Accepted, ObjectQuestion, AuditQuestion, IsSam
<1>9. DistinctUnlessMoved'
  <2> SUFFICES ASSUME NEW k \in DOMAIN objects, NEW l \in DOMAIN objects, SameTwice(k, l)'
               PROVE  objects'[k].version > 1 \/ objects'[l].version > 1
    BY <1>5 DEF DistinctUnlessMoved
  <2>1. \A m \in DOMAIN objects :
            /\ objects[m].version \in Nat /\ objects[m].version >= 1
            /\ objects'[m].version >= objects[m].version
            /\ objects'[m].id = objects[m].id
            /\ objects'[m].version = objects[m].version => objects'[m].from = objects[m].from
    <3>1. \A m \in DOMAIN objects : objects[m].version \in Nat /\ objects[m].version >= 1
      BY VersionsAreNumbers DEF ObjectsTypeOK
    <3> SUFFICES ASSUME NEW m \in DOMAIN objects
                 PROVE  /\ objects'[m].version >= objects[m].version
                        /\ objects'[m].id = objects[m].id
                        /\ objects'[m].version = objects[m].version
                               => objects'[m].from = objects[m].from
      BY <3>1
    <3>2. CASE m # n
      BY <1>3, <3>1, <3>2
    <3>3. CASE m = n
      BY <1>3, <3>1, <3>3
    <3> QED BY <3>2, <3>3
  <2>2. CASE objects'[k].version = objects[k].version /\ objects'[l].version = objects[l].version
    <3>1. SameTwice(k, l)
      BY <1>4, <2>1, <2>2 DEF SameTwice, ObjectBox
    <3> QED BY <2>2, <3>1 DEF DistinctUnlessMoved
  <2>3. \A m \in DOMAIN objects : objects'[m].version \in Nat
    BY <1>3, <1>5, VersionsAreNumbers
  <2> QED BY <2>1, <2>2, <2>3
<1>10. LastOnesDone'
  BY <1>4 DEF LastOnesDone
<1> QED BY <1>4, <1>7, <1>8, <1>9, <1>10

LEMMA NewObjectKeeps ==
    ASSUME ObjectsIInv, NEW i \in Waiting, NewObject(i)
    PROVE  ObjectsIInv'
<1> USE DEF ObjectsIInv
<1> DEFINE D(k) == objects[k].detections
<1>1. PICK n \in Nat : n = Len(objects) /\ DOMAIN objects = 1..n /\ n + 1 \notin DOMAIN objects
  BY DEF ObjectsTypeOK
<1>2. /\ Ready(i) /\ Decide(i, "verified") /\ Rest /\ next > n
      /\ ~IsSam(i) => calls[AuditQuestion(i)] = "yes"
  BY <1>1 DEF NewObject
<1>3. /\ objects' \in Seq(Object) /\ Len(objects') = n + 1
      /\ \A k \in DOMAIN objects : objects'[k] = objects[k]
      /\ objects'[n + 1].id = i /\ objects'[n + 1].from = i
      /\ objects'[n + 1].detections = {i} /\ objects'[n + 1].version = 1
  <2> DEFINE new == [id |-> i, from |-> i, detections |-> {i}, version |-> 1]
  <2>1. new.id = i /\ new.from = i /\ new.detections = {i} /\ new.version = 1
    OBVIOUS
  <2> HIDE DEF new
  <2>2. /\ objects' \in Seq(Object) /\ Len(objects') = n + 1
        /\ \A k \in DOMAIN objects : objects'[k] = objects[k]
        /\ objects'[n + 1] = new
    BY <1>1, NewObjectEffect DEF new
  <2> QED BY <2>1, <2>2
<1>4. /\ ObjectsTypeOK' /\ Waiting' \subseteq Waiting
      /\ UNCHANGED <<at, found, calls>> /\ next' = 0
      /\ \A j \in DOMAIN found : status'[j] \in Decided <=> j = i \/ status[j] \in Decided
  <2>1. "verified" \in Decided
    BY DEF Decided
  <2> QED BY <1>2, <1>3, <2>1, DecidedTypes
<1>5. DOMAIN objects' = DOMAIN objects \cup {n + 1}
  BY <1>1, <1>3
<1>6. i \in DOMAIN found /\ \A k \in DOMAIN objects : i \notin D(k)
  BY WaitingIsFree
<1>7. next > 0 /\ ~(next <= Len(objects))
  BY <1>1, <1>2 DEF ObjectsTypeOK
<1>8. /\ Accepted(i)
      /\ \A k \in DOMAIN objects : ~SameExtent(objects[k], i)
  BY <1>1, <1>2, <1>7, SameCandidate DEF ObjectsTypeOK
<1>9. IsSam(i) \/ (AuditQuestion(i) \in DOMAIN calls /\ calls[AuditQuestion(i)] = "yes")
  BY <1>2, <1>7 DEF Ready, Questions
<1>10. BooksInv'
  <2>1. ASSUME NEW k \in DOMAIN objects'
        PROVE  /\ objects'[k].detections \subseteq DOMAIN found
               /\ objects'[k].id \in objects'[k].detections
               /\ objects'[k].from \in objects'[k].detections
               /\ objects'[k].version <= Cardinality(objects'[k].detections)
    <3>1. CASE k \in DOMAIN objects
      BY <3>1, <1>3 DEF BooksInv
    <3>2. CASE k = n + 1
      <4>1. Cardinality({i}) = 1
        BY FS_Singleton
      <4>2. objects'[k].detections = {i} /\ objects'[k].version = 1
        BY <1>3, <3>2
      <4>3. objects'[k].version <= Cardinality(objects'[k].detections)
        BY <4>1, <4>2
      <4> QED BY <1>3, <1>6, <3>2, <4>2, <4>3
    <3> QED BY <1>5, <3>1, <3>2
  <2>2. ASSUME NEW k \in DOMAIN objects', NEW l \in DOMAIN objects' \ {k}
        PROVE  objects'[k].detections \cap objects'[l].detections = {}
    <3>1. CASE k \in DOMAIN objects /\ l \in DOMAIN objects
      BY <3>1, <1>3 DEF BooksInv
    <3>2. CASE k = n + 1
      BY <3>2, <1>3, <1>5, <1>6
    <3>3. CASE l = n + 1
      BY <3>3, <1>3, <1>5, <1>6
    <3> QED BY <1>5, <3>1, <3>2, <3>3
  <2>3. ASSUME NEW j \in DOMAIN found
        PROVE  status'[j] \in Decided <=> \E k \in DOMAIN objects' : j \in objects'[k].detections
    <3>1. status[j] \in Decided <=> \E k \in DOMAIN objects : j \in D(k)
      BY DEF BooksInv
    <3>2. (\E k \in DOMAIN objects' : j \in objects'[k].detections)
              <=> j = i \/ \E k \in DOMAIN objects : j \in D(k)
      BY <1>3, <1>5
    <3> QED BY <1>4, <3>1, <3>2
  <2> QED BY <1>4, <2>1, <2>2, <2>3 DEF BooksInv
<1>11. ObjectsAreAudited'
  <2>1. ASSUME NEW k \in DOMAIN objects', NEW j \in objects'[k].detections
        PROVE  Accepted(j)
    BY <1>3, <1>5, <1>8 DEF ObjectsAreAudited, Accepted
  <2>2. ASSUME NEW k \in DOMAIN objects', NEW j, j = objects'[k].id
        PROVE  IsSam(j) \/ (AuditQuestion(j) \in DOMAIN calls /\ calls[AuditQuestion(j)] = "yes")
    BY <1>3, <1>5, <1>9, <2>2 DEF ObjectsAreAudited
  <2> QED BY <1>4, <2>1, <2>2
          DEF ObjectsAreAudited, Accepted, ObjectQuestion, AuditQuestion, IsSam
<1>12. DistinctUnlessMoved'
  <2> SUFFICES ASSUME NEW k \in DOMAIN objects', NEW l \in DOMAIN objects', SameTwice(k, l)'
               PROVE  objects'[k].version > 1 \/ objects'[l].version > 1
    BY DEF DistinctUnlessMoved
  <2>1. CASE k \in DOMAIN objects /\ l \in DOMAIN objects
    <3>1. SameTwice(k, l)
      BY <1>3, <1>4, <2>1 DEF SameTwice, ObjectBox
    <3> QED BY <1>3, <2>1, <3>1 DEF DistinctUnlessMoved
  <2>2. \A m \in DOMAIN objects :
            ~(/\ found[objects'[m].from].box = found[i].box
              /\ found[objects'[m].id].cat = found[i].cat)
    BY <1>3, <1>8 DEF SameExtent, ObjectBox
  <2>3. CASE k = n + 1
    BY <1>3, <1>4, <1>5, <2>2, <2>3 DEF SameTwice, ObjectBox
  <2>4. CASE l = n + 1
    BY <1>3, <1>4, <1>5, <2>2, <2>4 DEF SameTwice, ObjectBox
  <2> QED BY <1>5, <2>1, <2>3, <2>4
<1>13. LastOnesDone'
  BY <1>4 DEF LastOnesDone
<1> QED BY <1>4, <1>10, <1>11, <1>12, <1>13

-----------------------------------------------------------------------------
LEMMA StepKeeps == ObjectsIInv /\ [ObjectsNext]_objectVars => ObjectsIInv'
<1> SUFFICES ASSUME ObjectsIInv, [ObjectsNext]_objectVars PROVE ObjectsIInv'
  OBVIOUS
<1>1. CASE AddCandidate
  BY <1>1, AddKeeps
<1>2. CASE StageDone
  BY <1>2, StageKeeps
<1>3. CASE Die
  BY <1>3, DieKeeps
<1>4. ASSUME NEW i \in Waiting, Ask(i) PROVE ObjectsIInv'
  BY <1>4, AskKeeps
<1>5. ASSUME NEW i \in Waiting, Reject(i) PROVE ObjectsIInv'
  BY <1>5, DismissKeeps DEF Reject
<1>6. ASSUME NEW i \in Waiting, Unresolved(i) PROVE ObjectsIInv'
  BY <1>6, DismissKeeps DEF Unresolved
<1>7. ASSUME NEW i \in Waiting, Accept(i) PROVE ObjectsIInv'
  BY <1>7, AcceptKeeps
<1>8. ASSUME NEW i \in Waiting, NextObject(i) PROVE ObjectsIInv'
  BY <1>8, NextObjectKeeps
<1>9. ASSUME NEW i \in Waiting, Duplicate(i) PROVE ObjectsIInv'
  BY <1>9, DuplicateKeeps
<1>10. ASSUME NEW i \in Waiting, NewObject(i) PROVE ObjectsIInv'
  BY <1>10, NewObjectKeeps
<1>11. CASE UNCHANGED objectVars
  <2>1. UNCHANGED <<at, found, status, objects, calls, next, deaths>>
    BY <1>11 DEF objectVars
  <2>2. ObjectsTypeOK' /\ BooksInv'
    BY <2>1, BooksUnchanged DEF ObjectsIInv, ObjectsTypeOK
  <2>3. ObjectsAreAudited' /\ DistinctUnlessMoved'
    BY <2>1, ObjectsUnchanged DEF ObjectsIInv
  <2>4. LastOnesDone' /\ (next' > 0 => UnderWay')
    BY <2>1 DEF ObjectsIInv, LastOnesDone, UnderWay, Accepted, IsFirst, IsSam, Waiting,
                SameExtent, ObjectBox, ObjectQuestion
  <2> QED BY <2>2, <2>3, <2>4 DEF ObjectsIInv
<1> QED BY <1>1, <1>2, <1>3, <1>4, <1>5, <1>6, <1>7, <1>8, <1>9, <1>10, <1>11
        DEF ObjectsNext, Visit

LEMMA ObjectsInvariant == ObjectsSpec => []ObjectsIInv
<1> QED BY InitHolds, StepKeeps, PTL DEF ObjectsSpec

(* The books by which a reader counts: one object per decided candidate.   *)
LEMMA BooksCount ==
    ASSUME BooksInv
    PROVE  EachInOneObject
<1>1. ASSUME NEW i \in DOMAIN found
      PROVE  Cardinality({k \in DOMAIN objects : i \in objects[k].detections})
                 = IF status[i] \in Decided THEN 1 ELSE 0
  <2> DEFINE having == {k \in DOMAIN objects : i \in objects[k].detections}
  <2>1. CASE status[i] \in Decided
    <3>1. PICK k \in DOMAIN objects : i \in objects[k].detections
      BY <2>1 DEF BooksInv
    <3>2. having = {k}
      BY <3>1 DEF BooksInv
    <3> QED BY <2>1, <3>2, FS_Singleton
  <2>2. CASE status[i] \notin Decided
    <3>1. having = {}
      BY <2>2 DEF BooksInv
    <3> QED BY <2>2, <3>1, FS_EmptySet
  <2> QED BY <2>1, <2>2
<1> QED BY <1>1 DEF EachInOneObject, BooksInv, Decided

(* However many candidates the searches add and whenever the worker dies:  *)
(* each candidate verify_objects decided to be an object is a detection of *)
(* exactly one, whose boxes were all verified themselves, no two objects   *)
(* of a category that kept their boxes have the same one, and nothing is   *)
(* left to verify when the stages are over.                                *)
THEOREM ObjectsAreSound == ObjectsSpec => []ObjectsInv
<1>1. ObjectsIInv => ObjectsInv
  <2> SUFFICES ASSUME ObjectsIInv PROVE ObjectsInv
    OBVIOUS
  <2>1. EachInOneObject
    BY BooksCount DEF ObjectsIInv
  <2>2. at > Len(Plan) => Waiting = {}
    BY PlanEnds DEF ObjectsIInv, LastOnesDone, ObjectsTypeOK
  <2> QED BY <2>1, <2>2 DEF ObjectsIInv, ObjectsInv
<1> QED BY <1>1, ObjectsInvariant, PTL

-----------------------------------------------------------------------------
(* What a step may do to objects.                                          *)
Improve ==
    /\ DOMAIN objects \subseteq DOMAIN objects'
    /\ \A k \in DOMAIN objects :
          /\ objects'[k].id = objects[k].id
          /\ objects[k].detections \subseteq objects'[k].detections
          /\ objects'[k].version
                 = objects[k].version + IF objects'[k].from = objects[k].from THEN 0 ELSE 1
          /\ IsSam(objects[k].from) /\ ~IsSam(objects'[k].from)
                 => LET q == IdentityQuestion(objects[k], objects'[k].from)
                    IN  q \in DOMAIN calls /\ calls[q] = "same_B"
    /\ \A k \in DOMAIN objects' \ DOMAIN objects :
          IsSam(objects'[k].id) \/ \A i \in Waiting : ~IsSam(i)

LEMMA UnchangedImproves ==
    ASSUME ObjectsIInv, UNCHANGED objects
    PROVE  Improve
<1>1. \A k \in DOMAIN objects : objects[k].version \in Nat
  BY VersionsAreNumbers DEF ObjectsIInv, ObjectsTypeOK
<1> QED BY <1>1 DEF Improve

LEMMA DuplicateImproves ==
    ASSUME ObjectsIInv, NEW i \in Waiting, Duplicate(i)
    PROVE  Improve
<1> USE DEF ObjectsIInv
<1>1. PICK n \in DOMAIN objects : n = next
  BY DEF Duplicate
<1>2. /\ objects' \in Seq(Object) /\ Len(objects') = Len(objects)
      /\ \A k \in DOMAIN objects \ {n} : objects'[k] = objects[k]
      /\ objects'[n].id = objects[n].id
      /\ objects'[n].detections = objects[n].detections \cup {i}
      /\ \/ /\ objects'[n].from = objects[n].from
            /\ objects'[n].version = objects[n].version
         \/ /\ objects'[n].from = i
            /\ objects'[n].version = objects[n].version + 1
            /\ Identity(objects[n], i) = "same_B"
  BY <1>1, DuplicateEffect
<1>3. \A k \in DOMAIN objects : objects[k].version \in Nat
  BY VersionsAreNumbers DEF ObjectsTypeOK
<1>4. DOMAIN objects' = DOMAIN objects
  BY <1>2 DEF ObjectsTypeOK
<1>5. i # objects[n].from
  BY WaitingIsFree DEF BooksInv
<1>6. ASSUME NEW k \in DOMAIN objects
      PROVE  /\ objects'[k].id = objects[k].id
             /\ objects[k].detections \subseteq objects'[k].detections
             /\ objects'[k].version
                    = objects[k].version + IF objects'[k].from = objects[k].from THEN 0 ELSE 1
  <2>1. CASE k # n
    BY <1>2, <1>3, <2>1
  <2>2. CASE k = n
    BY <1>2, <1>3, <1>5, <2>2
  <2> QED BY <2>1, <2>2
<1>7. ASSUME NEW k \in DOMAIN objects, IsSam(objects[k].from), ~IsSam(objects'[k].from)
      PROVE  LET q == IdentityQuestion(objects[k], objects'[k].from)
             IN  q \in DOMAIN calls /\ calls[q] = "same_B"
  <2>1. k = n /\ objects'[n].from = i /\ Identity(objects[n], i) = "same_B"
    BY <1>2, <1>7
  <2>2. IsSam(objects[n].from) /\ ~IsSam(i)
    BY <1>7, <2>1
  <2>3. Near(objects[n], i) /\ ~SameExtent(objects[n], i)
    BY <2>1, <2>2 DEF Identity
  <2>4. calls[IdentityQuestion(objects[n], i)] = "same_B"
    BY <2>1, <2>3 DEF Identity
  <2>5. IdentityQuestion(objects[n], i) \in DOMAIN calls
    <3>1. next # 0 /\ next <= Len(objects)
      BY <1>1 DEF ObjectsTypeOK
    <3>2. IdentityQuestion(objects[next], i) \in Questions(i)
      BY <1>1, <2>3, <3>1 DEF Questions
    <3> QED BY <1>1, <3>2 DEF Duplicate, Ready
  <2> QED BY <2>1, <2>4, <2>5
<1> QED BY <1>4, <1>6, <1>7 DEF Improve

LEMMA NewObjectImproves ==
    ASSUME ObjectsIInv, NEW i \in Waiting, NewObject(i)
    PROVE  Improve
<1> USE DEF ObjectsIInv
<1>1. PICK n \in Nat : n = Len(objects) /\ DOMAIN objects = 1..n
  BY DEF ObjectsTypeOK
<1>2. /\ objects' \in Seq(Object) /\ Len(objects') = n + 1
      /\ \A k \in DOMAIN objects : objects'[k] = objects[k]
      /\ objects'[n + 1].id = i
  <2> DEFINE new == [id |-> i, from |-> i, detections |-> {i}, version |-> 1]
  <2>1. new.id = i
    OBVIOUS
  <2> HIDE DEF new
  <2>2. /\ objects' \in Seq(Object) /\ Len(objects') = n + 1
        /\ \A k \in DOMAIN objects : objects'[k] = objects[k]
        /\ objects'[n + 1] = new
    BY <1>1, NewObjectEffect DEF new
  <2> QED BY <2>1, <2>2
<1>3. DOMAIN objects' = DOMAIN objects \cup {n + 1}
  BY <1>1, <1>2
<1>4. IsSam(i) \/ \A j \in Waiting : ~IsSam(j)
  BY DEF NewObject, Ready, Verifying, IsFirst
<1>5. \A k \in DOMAIN objects : objects[k].version \in Nat
  BY VersionsAreNumbers DEF ObjectsTypeOK
<1>6. \A k \in DOMAIN objects' \ DOMAIN objects : objects'[k].id = i
  BY <1>2, <1>3
<1> QED BY <1>2, <1>3, <1>4, <1>5, <1>6 DEF Improve

(* What verify_objects has confirmed is never lost or taken back by what   *)
(* later stages and rounds find: an object keeps its id and detections,    *)
(* counts its boxes, gives up a box of SAM only for one of EGM the model   *)
(* preferred, and EGM makes new objects only when no SAM candidate waits.  *)
THEOREM ConfirmedObjectsStay == ObjectsSpec => ObjectsOnlyImprove
<1>1. ObjectsIInv /\ [ObjectsNext]_objectVars => [Improve]_objectVars
  <2> SUFFICES ASSUME ObjectsIInv, ObjectsNext PROVE Improve
    OBVIOUS
  <2>1. CASE AddCandidate \/ StageDone \/ Die
    BY <2>1, UnchangedImproves DEF AddCandidate, StageDone, Die
  <2>2. ASSUME NEW i \in Waiting,
               Ask(i) \/ Reject(i) \/ Unresolved(i) \/ Accept(i) \/ NextObject(i)
        PROVE  Improve
    BY <2>2, UnchangedImproves DEF Ask, Reject, Unresolved, Accept, NextObject
  <2>3. ASSUME NEW i \in Waiting, Duplicate(i) PROVE Improve
    BY <2>3, DuplicateImproves
  <2>4. ASSUME NEW i \in Waiting, NewObject(i) PROVE Improve
    BY <2>4, NewObjectImproves
  <2> QED BY <2>1, <2>2, <2>3, <2>4 DEF ObjectsNext, Visit
<1>2. ObjectsSpec => [][Improve]_objectVars
  BY <1>1, ObjectsInvariant, PTL DEF ObjectsSpec
<1> QED BY <1>2 DEF ObjectsOnlyImprove, Improve
=============================================================================
