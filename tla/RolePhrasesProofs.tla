------------------------- MODULE RolePhrasesProofs -------------------------
(***************************************************************************)
(* Proofs about RolePhrases, for every number of objects, box versions,    *)
(* texts, rewrite rounds and crashes.                                      *)
(***************************************************************************)
EXTENDS RolePhrases, TLAPS

-----------------------------------------------------------------------------
(* Which stage follows which.                                              *)
LEMMA StageOrder ==
    ASSUME NEW n \in 1..LastStep
    PROVE  /\ Stage(n) \in {"objects", "ocr", "describe", "reground", "blind",
                            "verify", "rewrite", "finalize"}
           /\ Stage(n) = "objects" => Stage(n + 1) \in {"ocr", "rewrite"}
           /\ Stage(n) = "ocr" => Stage(n + 1) = "describe"
           /\ Stage(n) \in {"describe", "rewrite"} => Stage(n + 1) = "reground"
           /\ Stage(n) = "reground" => Stage(n + 1) = "blind"
           /\ Stage(n) = "blind" => Stage(n + 1) = "verify"
           /\ Stage(n) = "verify" => Stage(n + 1) \in {"objects", "finalize"}
           /\ Stage(n) = "finalize" <=> n = LastStep
<1>1. LastStep \in Nat /\ LastStep = 5 * Rounds + 12 /\ Rounds \in Nat
  BY SizesAssumption DEF LastStep
<1>2. CASE n <= 6
  <2>1. n \in {1, 2, 3, 4, 5, 6}
    BY <1>2
  <2>2. /\ Opening[1] = "objects" /\ Opening[2] = "ocr" /\ Opening[3] = "describe"
        /\ Opening[4] = "reground" /\ Opening[5] = "blind" /\ Opening[6] = "verify"
    BY DEF Opening
  <2>3. Stage(7) = "objects"
    BY <1>1 DEF Stage, Round
  <2> QED BY <1>1, <2>1, <2>2, <2>3 DEF Stage
<1>3. CASE n > 6 /\ n < LastStep
  <2> DEFINE k == (n - 7) % 5
  <2>1. k \in {0, 1, 2, 3, 4} /\ Stage(n) = Round[k + 1]
    BY <1>3 DEF Stage
  <2>2. /\ Round[1] = "objects" /\ Round[2] = "rewrite" /\ Round[3] = "reground"
        /\ Round[4] = "blind" /\ Round[5] = "verify"
    BY DEF Round
  <2>3. CASE k = 4
    <3>1. n + 1 < LastStep => Stage(n + 1) = Round[((n - 6) % 5) + 1]
      BY <1>3 DEF Stage
    <3>2. (n - 6) % 5 = 0
      BY <2>3, <1>3
    <3>3. n + 1 = LastStep => Stage(n + 1) = "finalize"
      BY <1>3 DEF Stage
    <3> QED BY <1>1, <1>3, <2>1, <2>2, <2>3, <3>1, <3>2, <3>3
  <2>4. CASE k # 4
    <3>1. n + 1 < LastStep
      BY <1>1, <1>3, <2>4
    <3>2. (n - 6) % 5 = k + 1
      BY <2>1, <2>4, <1>3
    <3>3. Stage(n + 1) = Round[((n - 6) % 5) + 1]
      BY <1>3, <3>1 DEF Stage
    <3> QED BY <1>3, <2>1, <2>2, <2>4, <3>1, <3>2, <3>3
  <2> QED BY <2>3, <2>4
<1>4. CASE n = LastStep
  BY <1>1, <1>4 DEF Stage
<1> QED BY <1>1, <1>2, <1>3, <1>4

(* The loops a stage consists of.                                          *)
LEMMA Tasks ==
    ASSUME TypeOK
    PROVE  /\ Running \in {"objects", "ocr", "describe", "reground", "blind",
                           "verify", "rewrite", "finalize", "end"}
           /\ Running = "end" <=> step = LastStep
           /\ Len(Passes(Running)) = IF Running = "rewrite" THEN 4
                                     ELSE IF Running \in {"verify", "finalize"} THEN 2 ELSE 1
           /\ Task = "objects" => Running = "objects"
           /\ Task = "ocr" => Running \in {"ocr", "rewrite"} /\ pass = 1
           /\ Task = "describe" => Running \in {"describe", "rewrite"}
           /\ Running = "rewrite" => (Task = "describe" <=> pass = 4)
           /\ Task = "blind" => Running = "blind"
           /\ Task = "reground" => Running = "reground"
           /\ Task = "verify" => Running \in {"verify", "rewrite"}
           /\ Running = "verify" => (Task = "verify" <=> pass = 1)
           /\ Task = "mark" => \/ Running = "rewrite" /\ pass = 3
                               \/ Running = "verify" /\ pass = 2
                               \/ Running = "finalize" /\ pass = 1
           /\ Task = "close" => Running = "finalize" /\ pass = 2
           /\ Running = "finalize" => (Task = "close" <=> pass = 2)
<1>1. step \in Nat /\ step <= LastStep /\ LastStep \in Nat
  BY SizesAssumption DEF TypeOK, LastStep
<1>2. CASE step = LastStep
  <2>1. Running = "end"
    <3>1. ~(LastStep + 1 <= 6) /\ ~(LastStep + 1 < LastStep) /\ LastStep + 1 # LastStep
      BY SizesAssumption DEF LastStep
    <3> QED BY <1>2, <3>1 DEF Running, Stage
  <2>2. Passes(Running) = <<"end">> /\ pass = 1
    BY <2>1 DEF Passes, TypeOK
  <2> QED BY <1>2, <2>1, <2>2 DEF Task
<1>3. CASE step < LastStep
  <2>1. Running \in {"objects", "ocr", "describe", "reground", "blind",
                    "verify", "rewrite", "finalize"}
    BY <1>1, <1>3, StageOrder DEF Running
  <2>2. CASE Running = "rewrite"
    <3>1. Passes(Running) = <<"ocr", "verify", "mark", "describe">>
      BY <2>2 DEF Passes
    <3>2. pass \in {1, 2, 3, 4}
      BY <3>1 DEF TypeOK
    <3> QED BY <1>1, <1>3, <2>2, <3>1, <3>2 DEF Task
  <2>3. CASE Running = "verify"
    <3>1. Passes(Running) = <<"verify", "mark">>
      BY <2>3 DEF Passes
    <3>2. pass \in {1, 2}
      BY <3>1 DEF TypeOK
    <3> QED BY <1>1, <1>3, <2>3, <3>1, <3>2 DEF Task
  <2>4. CASE Running = "finalize"
    <3>1. Passes(Running) = <<"mark", "close">>
      BY <2>4 DEF Passes
    <3>2. pass \in {1, 2}
      BY <3>1 DEF TypeOK
    <3> QED BY <1>1, <1>3, <2>4, <3>1, <3>2 DEF Task
  <2>5. CASE Running \in {"objects", "ocr", "describe", "reground", "blind"}
    <3>1. Passes(Running) = <<Running>>
      BY <2>5 DEF Passes
    <3>2. pass = 1 /\ Task = Running
      BY <3>1 DEF TypeOK, Task
    <3> QED BY <1>1, <1>3, <2>5, <3>1, <3>2
  <2> QED BY <2>1, <2>2, <2>3, <2>4, <2>5
<1> QED BY <1>1, <1>2, <1>3

-----------------------------------------------------------------------------
(* The inductive invariant. A verified phrase carries its evidence; a loop *)
(* has established its promise for the objects behind its position, and    *)
(* nothing in the later loops undoes it.                                   *)
Sound(ph) ==
    ph # Absent /\ ph.status = "verified" =>
        /\ Cued(ph) /\ ph.blind = "unique" /\ ph.reground # "none" /\ ph.missed = {}
        /\ ph.seen # Absent =>
            /\ ph.boxVersion = ph.seen.own
            /\ ph.via = IF ph.reground = "passed" THEN "reground"
                        ELSE "semantic_adjudication"

SoundInv == \A o \in Object : Sound(phrase[o])

Fresh(o) == Verified(o) => UpToDate(o, phrase[o])

FreshInv ==
    /\ Running = "verify" => \A o \in Present : pass = 2 \/ o < obj => Fresh(o)
    /\ Running \in {"finalize", "end"} => \A o \in Present : Fresh(o)

DescribedInv ==
    /\ Running = "describe" \/ (Running = "rewrite" /\ pass = 4) =>
        \A o \in Present : o < obj => phrase[o] # Absent
    /\ Running \in {"reground", "blind", "verify", "finalize", "end"} =>
        \A o \in Present : phrase[o] # Absent

Distinct(o) ==
    Verified(o) => \A p \in Present :
        phrase[p] # Absent /\ phrase[p].text = phrase[o].text => p = o

DistinctInv ==
    (Running = "finalize" /\ (pass = 2 \/ obj # 1)) \/ Running = "end" =>
        \A o \in Present : Distinct(o)

ClosedInv ==
    (Running = "finalize" /\ pass = 2 /\ obj # 1) \/ Running = "end" =>
        \A o \in Present : phrase[o].status \in {"verified", "unresolved"}

IInv == TypeOK /\ SoundInv /\ FreshInv /\ DescribedInv /\ DistinctInv /\ ClosedInv

LEMMA InitIInv == Init => IInv
<1> SUFFICES ASSUME Init PROVE IInv
  OBVIOUS
<1>1. Running = "objects" /\ Len(Passes(Running)) = 1
  BY DEF Init, Running, Stage, Opening, Passes
<1>2. Present = {} /\ \A o \in Object : phrase[o] = Absent
  BY DEF Init, Present
<1>3. TypeOK
  <2>1. LastStep \in Nat
    BY SizesAssumption DEF LastStep
  <2>2. 0 \in 0..MaxBox /\ 0 \in 0..MaxObjects /\ 0 \in 0..MaxCrashes
        /\ 0 \in 0..LastStep /\ 1 \in 1..1
    BY <2>1, SizesAssumption
  <2>3. /\ box \in [Object -> 0..MaxBox] /\ ocr \in [Object -> 0..MaxBox]
        /\ look \in [Object -> Looks \cup {Absent}]
        /\ phrase \in [Object -> Phrase \cup {Absent}] /\ old \in [Object -> Nat]
    BY <2>2 DEF Init
  <2>4. pass \in 1..Len(Passes(Running)) /\ obj \in 1..(count + 1)
    BY <1>1, <2>2 DEF Init
  <2> QED BY <2>2, <2>3, <2>4 DEF Init, TypeOK
<1> QED BY <1>1, <1>2, <1>3
        DEF IInv, SoundInv, Sound, FreshInv, DescribedInv, DistinctInv, ClosedInv

-----------------------------------------------------------------------------
(* A visit changes at most the phrase of the visited object.               *)
LEMMA VisitKept ==
    ASSUME IInv, obj \in Present, Running \notin {"objects", "finalize", "end"}, Visited,
           ocr' \in [Object -> 0..MaxBox], old' \in [Object -> Nat],
           NEW ph \in Phrase \cup {Absent}, phrase' = [phrase EXCEPT ![obj] = ph],
           Sound(ph),
           Running = "verify" =>
               pass = 1 /\ (ph # Absent /\ ph.status = "verified" => UpToDate(obj, ph)),
           phrase[obj] # Absent \/ Task = "describe" => ph # Absent
    PROVE  IInv'
<1>1. /\ UNCHANGED <<count, box, look, step, pass, crashes>>
      /\ obj' = obj + 1 /\ Running' = Running /\ Present' = Present
  BY DEF Visited, world, Running, Present
<1>2. Present \subseteq Object /\ count \in Nat /\ obj \in Nat
  BY SizesAssumption DEF IInv, TypeOK, Present, Object
<1>3. \A o \in Object : phrase'[o] = IF o = obj THEN ph ELSE phrase[o]
  BY <1>2 DEF IInv, TypeOK
<1>4. TypeOK'
  <2>1. phrase' \in [Object -> Phrase \cup {Absent}]
    BY <1>2 DEF IInv, TypeOK
  <2>2. obj' \in 1..(count + 1)
    BY <1>1, <1>2 DEF Present
  <2> QED BY <1>1, <2>1, <2>2 DEF IInv, TypeOK
<1>5. SoundInv'
  BY <1>3 DEF IInv, SoundInv, Sound, Cued
<1>6. FreshInv'
  <2> SUFFICES ASSUME Running = "verify", NEW o \in Present, o < obj + 1 \/ pass = 2
               PROVE  Fresh(o)'
    BY <1>1 DEF FreshInv
  <2>1. CASE o = obj
    BY <1>1, <1>2, <1>3, <2>1 DEF Fresh, Verified, UpToDate
  <2>2. CASE o # obj
    <3>1. o < obj /\ Fresh(o)
      BY <1>2, <2>2 DEF IInv, FreshInv, Present
    <3> QED BY <1>1, <1>2, <1>3, <2>2, <3>1 DEF Fresh, Verified, UpToDate
  <2> QED BY <2>1, <2>2
<1>7. DescribedInv'
  <2>1. \A o \in Present : phrase[o] # Absent => phrase'[o] # Absent
    BY <1>2, <1>3
  <2>2. ASSUME Running = "describe" \/ (Running = "rewrite" /\ pass = 4)
        PROVE  \A o \in Present : o < obj + 1 => phrase'[o] # Absent
    <3>1. Task = "describe"
      <4>1. CASE Running = "describe"
        BY <4>1, Tasks DEF IInv, TypeOK, Task, Passes
      <4>2. CASE Running = "rewrite" /\ pass = 4
        BY <4>2, Tasks DEF IInv
      <4> QED BY <2>2, <4>1, <4>2
    <3> QED BY <1>2, <1>3, <2>1, <2>2, <3>1 DEF IInv, DescribedInv, Present
  <2> QED BY <1>1, <2>1, <2>2 DEF IInv, DescribedInv
<1>8. DistinctInv' /\ ClosedInv'
  BY <1>1 DEF DistinctInv, ClosedInv
<1> QED BY <1>4, <1>5, <1>6, <1>7, <1>8 DEF IInv

(* A visit that leaves the phrase alone.                                   *)
LEMMA QuietVisitKept ==
    ASSUME IInv, obj \in Present, Running \notin {"objects", "finalize", "end"}, Visited,
           ocr' \in [Object -> 0..MaxBox], old' = old, phrase' = phrase,
           Running = "verify" => pass = 1 /\ Fresh(obj),
           Task = "describe" => phrase[obj] # Absent
    PROVE  IInv'
<1>1. obj \in Object
  BY SizesAssumption DEF IInv, TypeOK, Present, Object
<1>2. phrase' = [phrase EXCEPT ![obj] = phrase[obj]] /\ phrase[obj] \in Phrase \cup {Absent}
  BY <1>1 DEF IInv, TypeOK
<1>3. Sound(phrase[obj])
  BY <1>1 DEF IInv, SoundInv
<1> QED BY <1>2, <1>3, VisitKept DEF IInv, TypeOK, Fresh, Verified

(* What the invariant says of the object a loop stands at.                 *)
LEMMA AtObject ==
    ASSUME IInv, obj \in Present
    PROVE  /\ obj \in Object /\ box[obj] \in 0..MaxBox /\ ocr[obj] \in 0..MaxBox
           /\ phrase[obj] \in Phrase \cup {Absent} /\ Sound(phrase[obj])
           /\ Key(obj) \in PeerKey /\ Key(obj) # Absent
<1>1. obj \in Object
  BY SizesAssumption DEF IInv, TypeOK, Present, Object
<1>2. Key(obj) \in PeerKey
  BY <1>1, SizesAssumption DEF IInv, TypeOK, Key, PeerKey
<1> QED BY <1>1, <1>2, AbsentAssumption DEF IInv, TypeOK, SoundInv

-----------------------------------------------------------------------------
(* Every action preserves the invariant.                                   *)
LEMMA InLargerRange ==
    ASSUME NEW n \in Nat, NEW low \in Nat, NEW high \in Nat,
           1 <= n, n <= low + 1, high >= low
    PROVE  n \in 1..(high + 1)
OBVIOUS

LEMMA VerifyObjectsKept == IInv /\ VerifyObjects => IInv'
<1> SUFFICES ASSUME IInv, VerifyObjects PROVE IInv'
  OBVIOUS
<1>1. /\ Task = "objects" /\ UNCHANGED <<ocr, phrase, old, step, pass, obj, crashes>>
  BY DEF VerifyObjects, AddObject, ReplaceBox, MergeCategory, position
<1>2. Running = "objects" /\ Running' = "objects" /\ Passes(Running)' = Passes(Running)
  BY <1>1, Tasks DEF IInv, Running
<1>3. count' \in 0..MaxObjects /\ count' >= count /\ count \in Nat
      /\ box' \in [Object -> 0..MaxBox] /\ look' \in [Object -> Looks \cup {Absent}]
  <2>0. /\ count \in Nat /\ count <= MaxObjects /\ MaxObjects \in Nat /\ MaxBox \in Nat \ {0}
        /\ box \in [Object -> 0..MaxBox] /\ look \in [Object -> Looks \cup {Absent}]
    BY SizesAssumption DEF IInv, TypeOK
  <2>1. CASE AddObject
    <3>1. /\ count' = count + 1 /\ count < MaxObjects
          /\ box' = [box EXCEPT ![count + 1] = 1]
      BY <2>1 DEF AddObject
    <3>2. PICK l \in Looks : look' = [look EXCEPT ![count + 1] = l]
      BY <2>1 DEF AddObject
    <3>3. box' \in [Object -> 0..MaxBox]
      <4>1. 1 \in 0..MaxBox
        BY <2>0
      <4> QED BY <2>0, <3>1, <4>1
    <3>4. look' \in [Object -> Looks \cup {Absent}]
      BY <2>0, <3>2
    <3> QED BY <2>0, <3>1, <3>3, <3>4
  <2>2. CASE ReplaceBox
    <3>1. PICK o \in Present, l \in Looks :
            /\ box[o] < MaxBox
            /\ box' = [box EXCEPT ![o] = box[o] + 1] /\ look' = [look EXCEPT ![o] = l]
      BY <2>2 DEF ReplaceBox
    <3>2. o \in Object /\ box[o] + 1 \in 0..MaxBox /\ count' = count
      BY <2>0, <2>2, <3>1 DEF ReplaceBox, Present, Object
    <3>3. box' \in [Object -> 0..MaxBox] /\ look' \in [Object -> Looks \cup {Absent}]
      BY <2>0, <3>1, <3>2
    <3> QED BY <2>0, <3>2, <3>3
  <2>3. CASE MergeCategory
    <3>1. PICK o \in Present, l \in Looks : look' = [look EXCEPT ![o] = l]
      BY <2>3 DEF MergeCategory
    <3>2. look' \in [Object -> Looks \cup {Absent}]
      BY <2>0, <3>1
    <3>3. count' = count /\ box' = box
      BY <2>3 DEF MergeCategory
    <3> QED BY <2>0, <3>2, <3>3
  <2> QED BY <2>1, <2>2, <2>3 DEF VerifyObjects
<1>4. obj' \in 1..(count' + 1)
  <2>1. obj \in Nat /\ 1 <= obj /\ obj <= count + 1 /\ obj' = obj
    BY <1>1, <1>3 DEF IInv, TypeOK
  <2>2. count' \in Nat /\ count \in Nat /\ count' >= count
    BY <1>3, SizesAssumption
  <2> QED BY <2>1, <2>2, InLargerRange
<1>5. TypeOK'
  <2>1. pass' \in 1..Len(Passes(Running))'
    BY <1>1, <1>2 DEF IInv, TypeOK
  <2> QED BY <1>1, <1>3, <1>4, <2>1 DEF IInv, TypeOK
<1>6. SoundInv'
  BY <1>1 DEF IInv, SoundInv
<1> QED BY <1>2, <1>5, <1>6 DEF IInv, FreshInv, DescribedInv, DistinctInv, ClosedInv

LEMMA OcrKept == IInv /\ Ocr => IInv'
<1> SUFFICES ASSUME IInv, Ocr PROVE IInv'
  OBVIOUS
<1>1. /\ Task = "ocr" /\ obj \in Present /\ Visited /\ UNCHANGED <<phrase, old>>
      /\ ocr' = [ocr EXCEPT ![obj] = box[obj]]
  BY DEF Ocr, Visiting
<1>2. Running \in {"ocr", "rewrite"}
  BY <1>1, Tasks DEF IInv
<1>3. ocr' \in [Object -> 0..MaxBox]
  BY <1>1, AtObject DEF IInv, TypeOK
<1> QED BY <1>1, <1>2, <1>3, QuietVisitKept

LEMMA DraftOK ==
    ASSUME NEW text \in Texts, NEW shape \in Shapes, NEW rev \in 0..Rounds,
           box[obj] \in 0..MaxBox
    PROVE  Draft(text, shape, rev) \in Phrase /\ Draft(text, shape, rev) # Absent
           /\ Sound(Draft(text, shape, rev))
<1>1. Draft(text, shape, rev) \in Phrase
  BY ValuesAssumption DEF Draft, Phrase
<1> QED BY <1>1, AbsentAssumption DEF Draft, Sound

LEMMA DescribeKept == IInv /\ Describe => IInv'
<1> SUFFICES ASSUME IInv, Describe PROVE IInv'
  OBVIOUS
<1>1. /\ Task = "describe" /\ obj \in Present /\ Visited /\ UNCHANGED ocr
      /\ ocr' \in [Object -> 0..MaxBox]
  BY DEF Describe, WriteFirst, Rewrite, GiveUp, KeepPhrase, Visiting, IInv, TypeOK
<1>2. Running \in {"describe", "rewrite"}
  BY <1>1, Tasks DEF IInv
<1>3. old' \in [Object -> Nat]
  <2>1. old \in [Object -> Nat] /\ obj \in Object
    BY <1>1, AtObject DEF IInv, TypeOK
  <2>2. old' = old \/ old' = [old EXCEPT ![obj] = old[obj] + 1]
    BY DEF Describe, WriteFirst, Rewrite, GiveUp, KeepPhrase
  <2> QED BY <2>1, <2>2
<1>4. CASE WriteFirst
  <2>1. PICK text \in Texts, shape \in Shapes : SetPhrase(Draft(text, shape, 0))
    BY <1>4 DEF WriteFirst
  <2>2. 0 \in 0..Rounds
    BY SizesAssumption
  <2> QED BY <1>1, <1>2, <1>3, <2>1, <2>2, AtObject, DraftOK, VisitKept DEF SetPhrase
<1>5. CASE Rewrite
  <2>1. PICK text \in Texts, shape \in Shapes :
          SetPhrase(Draft(text, shape, phrase[obj].rev + 1))
    BY <1>5 DEF Rewrite
  <2>2. phrase[obj] \in Phrase /\ phrase[obj].rev < Rounds
    BY <1>1, <1>5, AtObject DEF Rewrite, Rewritable
  <2>3. phrase[obj].rev + 1 \in 0..Rounds
    BY <2>2, SizesAssumption DEF Phrase
  <2> QED BY <1>1, <1>2, <1>3, <2>1, <2>3, AtObject, DraftOK, VisitKept DEF SetPhrase
<1>6. CASE GiveUp
  <2> DEFINE ph == WithStatus(phrase[obj], "unresolved")
  <2>1. SetPhrase(ph) /\ phrase[obj] \in Phrase
    BY <1>1, <1>6, AtObject DEF GiveUp, Rewritable
  <2>2. ph \in Phrase /\ ph.status = "unresolved"
    BY <2>1 DEF WithStatus, Phrase
  <2>3. ph # Absent /\ Sound(ph)
    BY <2>2, AbsentAssumption DEF Sound
  <2> QED BY <1>1, <1>2, <1>3, <2>1, <2>2, <2>3, VisitKept DEF SetPhrase
<1>7. CASE KeepPhrase
  BY <1>1, <1>2, <1>7, QuietVisitKept DEF KeepPhrase
<1> QED BY <1>4, <1>5, <1>6, <1>7 DEF Describe

LEMMA BlindReviewKept == IInv /\ BlindReview => IInv'
<1> SUFFICES ASSUME IInv, BlindReview PROVE IInv'
  OBVIOUS
<1>1. /\ Task = "blind" /\ obj \in Present /\ Visited /\ UNCHANGED <<ocr, old>>
      /\ ocr' \in [Object -> 0..MaxBox] /\ old' \in [Object -> Nat]
  BY DEF BlindReview, Visiting, IInv, TypeOK
<1>2. Running = "blind"
  BY <1>1, Tasks DEF IInv
<1>3. CASE UNCHANGED phrase
  BY <1>1, <1>2, <1>3, QuietVisitKept
<1>4. CASE Readable(phrase[obj]) /\ phrase[obj].blind = "none"
  <2>1. PICK outcome \in {"unique", "multiple", "unclear"} :
          SetPhrase([phrase[obj] EXCEPT !.blind = outcome])
    BY <1>4 DEF BlindReview
  <2> DEFINE ph == [phrase[obj] EXCEPT !.blind = outcome]
  <2>2. phrase[obj] \in Phrase /\ phrase[obj].status # "verified"
    BY <1>1, <1>4, AtObject DEF Readable, Locatable, Sound
  <2>3. ph \in Phrase /\ ph.status # "verified"
    BY <2>2 DEF Phrase
  <2>4. ph # Absent /\ Sound(ph)
    BY <2>3, AbsentAssumption DEF Sound
  <2> QED BY <1>1, <1>2, <2>1, <2>3, <2>4, VisitKept DEF SetPhrase
<1> QED BY <1>3, <1>4 DEF BlindReview

LEMMA LocatedOK ==
    ASSUME NEW ph \in Phrase, Sound(ph), NEW result \in {"passed", "failed"},
           box[obj] \in 0..MaxBox
    PROVE  /\ Located(ph, result) \in Phrase /\ Located(ph, result) # Absent
           /\ Sound(Located(ph, result)) /\ Located(ph, result).seen = Absent
           /\ Located(ph, result).boxVersion = box[obj]
           /\ Located(ph, result).reground # "none"
<1>1. Located(ph, result) \in Phrase
  BY DEF Located, Phrase
<1>2. ph # Absent
  BY AbsentAssumption
<1> QED BY <1>1, <1>2, AbsentAssumption DEF Located, Sound, Cued

LEMMA RegroundKept == IInv /\ Reground => IInv'
<1> SUFFICES ASSUME IInv, Reground PROVE IInv'
  OBVIOUS
<1>1. /\ Task = "reground" /\ obj \in Present /\ Visited /\ UNCHANGED <<ocr, old>>
      /\ ocr' \in [Object -> 0..MaxBox] /\ old' \in [Object -> Nat]
  BY DEF Reground, Visiting, IInv, TypeOK
<1>2. Running = "reground"
  BY <1>1, Tasks DEF IInv
<1>3. CASE UNCHANGED phrase
  BY <1>1, <1>2, <1>3, QuietVisitKept
<1>4. CASE Locatable(phrase[obj])
           /\ \E result \in {"passed", "failed"} : SetPhrase(Located(phrase[obj], result))
  <2>1. PICK result \in {"passed", "failed"} : SetPhrase(Located(phrase[obj], result))
    BY <1>4
  <2>2. phrase[obj] \in Phrase
    BY <1>1, <1>4, AtObject DEF Locatable
  <2> QED BY <1>1, <1>2, <2>1, <2>2, AtObject, LocatedOK, VisitKept DEF SetPhrase
<1> QED BY <1>3, <1>4 DEF Reground

(* A review that approves a phrase had the blind reader and the cue on its  *)
(* side, and each page compared exactly its own peers; all peers are on one.*)
LEMMA ApprovalIsCovered ==
    ASSUME NEW ph, NEW pages \in Pagings(Peers(obj)), NEW decisions \in [pages -> Decision],
           Worst({PageVerdict(page, decisions[page]) : page \in pages}
                    \cup BlindVerdicts(ph) \cup CueVerdicts(ph)) = "verified"
    PROVE  /\ ph.blind = "unique" /\ Cued(ph)
           /\ Peers(obj) \ UNION {page \cap decisions[page].differ : page \in pages} = {}
<1> DEFINE all == {PageVerdict(page, decisions[page]) : page \in pages}
                      \cup BlindVerdicts(ph) \cup CueVerdicts(ph)
<1>1. "needs_rewrite" \notin all /\ "unresolved" \notin all
  BY DEF Worst
<1>2. ph.blind = "unique"
  BY <1>1 DEF BlindVerdicts
<1>3. Cued(ph)
  BY <1>1 DEF CueVerdicts
<1>4. ASSUME NEW page \in pages PROVE decisions[page].differ = page
  <2>1. PageVerdict(page, decisions[page]) \in all
    OBVIOUS
  <2> HIDE DEF all
  <2> QED BY <1>1, <2>1 DEF PageVerdict
<1>5. UNION pages = Peers(obj)
  BY DEF Pagings
<1> QED BY <1>2, <1>3, <1>4, <1>5

LEMMA VerifyKept == IInv /\ Verify => IInv'
<1> SUFFICES ASSUME IInv, Verify PROVE IInv'
  OBVIOUS
<1>1. /\ Task = "verify" /\ obj \in Present /\ Visited /\ UNCHANGED <<ocr, old>>
      /\ ocr' \in [Object -> 0..MaxBox] /\ old' \in [Object -> Nat]
  BY DEF Verify, Visiting, IInv, TypeOK
<1>2. Running \in {"verify", "rewrite"} /\ (Running = "verify" => pass = 1)
  BY <1>1, Tasks DEF IInv
<1>3. /\ obj \in Object /\ box[obj] \in 0..MaxBox /\ Sound(phrase[obj])
      /\ phrase[obj] \in Phrase \cup {Absent}
      /\ Key(obj) \in PeerKey /\ Key(obj) # Absent /\ Key(obj).own = box[obj]
  BY <1>1, AtObject DEF Key
<1>4. CASE ~Reviewable(phrase[obj])
  <2>1. ~Verified(obj)
    BY <1>3, <1>4 DEF Reviewable, Locatable, Verified, Sound, Cued
  <2> QED BY <1>1, <1>2, <1>4, <2>1, QuietVisitKept DEF Verify, Fresh
<1>5. CASE Reviewable(phrase[obj])
  <2>1. phrase[obj] \in Phrase
    BY <1>3, <1>5 DEF Reviewable, Locatable
  <2>2. PICK ph \in Audits(phrase[obj]) :
          IF ph.seen = Key(obj) THEN UNCHANGED phrase ELSE Review(ph)
    BY <1>5 DEF Verify
  <2>3. /\ ph \in Phrase /\ ph # Absent /\ Sound(ph) /\ ph.boxVersion = box[obj]
        /\ ph.reground # "none"
        /\ ph = phrase[obj] \/ ph.seen = Absent
    <3>1. CASE phrase[obj].boxVersion = box[obj]
      BY <1>3, <1>5, <2>1, <2>2, <3>1, AbsentAssumption DEF Audits, Reviewable
    <3>2. CASE phrase[obj].boxVersion # box[obj]
      <4>1. PICK result \in {"passed", "failed"} : ph = Located(phrase[obj], result)
        BY <2>2, <3>2 DEF Audits
      <4> QED BY <1>3, <2>1, <4>1, LocatedOK
    <3> QED BY <3>1, <3>2
  <2>4. CASE ph.seen = Key(obj)
    <3>1. ph = phrase[obj] /\ UNCHANGED phrase
      BY <1>3, <2>2, <2>3, <2>4
    <3>2. Fresh(obj)
      BY <1>3, <2>3, <2>4, <3>1 DEF Fresh, Verified, UpToDate, Sound, Key
    <3> QED BY <1>1, <1>2, <3>1, <3>2, QuietVisitKept
  <2>5. CASE Review(ph) /\ ph.blind = "none"
    <3> DEFINE new == Unread(ph)
    <3>1. new \in Phrase /\ new.status = "unresolved"
      BY <2>3 DEF Unread, Phrase
    <3>2. new # Absent /\ Sound(new)
      BY <3>1, AbsentAssumption DEF Sound
    <3>3. phrase' = [phrase EXCEPT ![obj] = new]
      BY <2>5 DEF Review, SetPhrase
    <3> HIDE DEF new
    <3> QED BY <1>1, <1>2, <3>1, <3>2, <3>3, VisitKept
  <2>6. CASE Review(ph) /\ ph.blind # "none"
    <3>0. PICK pages \in Pagings(Peers(obj)) :
            \E decisions \in [pages -> Decision] : SetPhrase(Judged(ph, decisions))
      BY <2>6 DEF Review
    <3>1. PICK decisions \in [pages -> Decision] : SetPhrase(Judged(ph, decisions))
      BY <3>0
    <3> DEFINE verdicts == {PageVerdict(page, decisions[page]) : page \in pages}
               status == Worst(verdicts \cup BlindVerdicts(ph) \cup CueVerdicts(ph))
               missed == Peers(obj) \ UNION {page \cap decisions[page].differ : page \in pages}
               new == Judged(ph, decisions)
    <3>2. status \in {"needs_rewrite", "unresolved", "verified"}
      BY DEF Worst
    <3>3. status = "verified" => ph.blind = "unique" /\ Cued(ph) /\ missed = {}
      BY <3>1, ApprovalIsCovered
    <3>4. new = [text |-> ph.text, shape |-> ph.shape, rev |-> ph.rev, blind |-> ph.blind,
                 reground |-> ph.reground, boxVersion |-> ph.boxVersion, seen |-> Key(obj),
                 status |-> status,
                 via |-> IF status # "verified" THEN "none"
                         ELSE IF ph.reground = "passed" THEN "reground"
                         ELSE "semantic_adjudication",
                 missed |-> IF status # "verified" THEN {} ELSE missed]
      BY <3>1 DEF Judged
    <3>8. missed \in SUBSET Object
      BY DEF Peers
    <3> HIDE DEF verdicts, status, missed
    <3> HIDE DEF new
    <3>5. new \in Phrase
      BY <1>3, <2>3, <3>2, <3>4, <3>8 DEF Phrase
    <3>6. Sound(new) /\ (new.status = "verified" => UpToDate(obj, new))
      BY <1>3, <2>3, <3>3, <3>4 DEF Sound, UpToDate, Cued, Key
    <3>7. phrase' = [phrase EXCEPT ![obj] = new] /\ new # Absent
      BY <3>1, <3>5, AbsentAssumption DEF SetPhrase, new
    <3> QED BY <1>1, <1>2, <3>5, <3>6, <3>7, VisitKept
  <2> QED BY <2>2, <2>4, <2>5, <2>6
<1> QED BY <1>4, <1>5

(* Marking and closing change statuses only, and never to "verified".      *)
LEMMA SweepKept ==
    ASSUME IInv, obj = 1, AllVisited, UNCHANGED <<ocr, old>>,
           Running \in {"rewrite", "verify", "finalize"},
           Running = "rewrite" => pass # 4, Running = "verify" => pass = 2,
           phrase' \in [Object -> Phrase \cup {Absent}],
           \A o \in Object :
               \/ phrase'[o] = phrase[o]
               \/ /\ phrase[o] # Absent /\ phrase'[o] # Absent
                  /\ phrase'[o].status # "verified" /\ phrase'[o].text = phrase[o].text
    PROVE  TypeOK' /\ SoundInv' /\ FreshInv' /\ DescribedInv'
<1>1. /\ UNCHANGED <<count, box, look, step, pass, crashes>> /\ obj' = count + 1
      /\ Running' = Running /\ Present' = Present /\ count \in Nat
      /\ Present \subseteq Object
  BY SizesAssumption DEF AllVisited, world, Running, Present, Object, IInv, TypeOK
<1>2. obj' \in 1..(count + 1)
  BY <1>1
<1>3. TypeOK'
  BY <1>1, <1>2 DEF IInv, TypeOK
<1>4. SoundInv'
  BY DEF IInv, SoundInv, Sound, Cued
<1>5. FreshInv'
  <2>1. ASSUME NEW o \in Present, Fresh(o) PROVE Fresh(o)'
    BY <1>1, <2>1 DEF Fresh, Verified, UpToDate
  <2> QED BY <1>1, <2>1 DEF IInv, FreshInv
<1>6. DescribedInv'
  BY <1>1 DEF IInv, DescribedInv
<1> QED BY <1>3, <1>4, <1>5, <1>6

LEMMA MarkKept == IInv /\ Mark => IInv'
<1> SUFFICES ASSUME IInv, Mark PROVE IInv'
  OBVIOUS
<1>1. /\ Task = "mark" /\ obj = 1 /\ AllVisited /\ UNCHANGED <<ocr, old>>
      /\ phrase' = [o \in Object |-> IF o \in Present /\ Colliding(o)
                                     THEN Collided(phrase[o]) ELSE phrase[o]]
  BY DEF Mark
<1>2. \/ Running = "rewrite" /\ pass = 3
      \/ Running = "verify" /\ pass = 2
      \/ Running = "finalize" /\ pass = 1
  BY <1>1, Tasks DEF IInv
<1>3. ASSUME NEW o \in Object, Colliding(o)
      PROVE  /\ phrase[o] \in Phrase /\ Collided(phrase[o]) \in Phrase
             /\ Collided(phrase[o]).status = "needs_rewrite"
             /\ Collided(phrase[o]).text = phrase[o].text
  <2>1. phrase[o] \in Phrase
    BY <1>3 DEF Colliding, IInv, TypeOK
  <2> QED BY <2>1 DEF Collided, Phrase
<1>4. /\ phrase' \in [Object -> Phrase \cup {Absent}]
      /\ \A o \in Object :
           \/ phrase'[o] = phrase[o]
           \/ /\ phrase[o] # Absent /\ phrase'[o] # Absent
              /\ phrase'[o].status # "verified" /\ phrase'[o].text = phrase[o].text
  BY <1>1, <1>3, AbsentAssumption DEF IInv, TypeOK
<1>5. TypeOK' /\ SoundInv' /\ FreshInv' /\ DescribedInv'
  BY <1>1, <1>2, <1>4, SweepKept
<1>6. /\ Running' = Running /\ pass' = pass /\ Present' = Present
      /\ Present \subseteq Object
  BY <1>1, SizesAssumption DEF AllVisited, world, Running, Present, Object, IInv, TypeOK
<1>7. ASSUME NEW o \in Present PROVE Distinct(o)'
  <2> SUFFICES ASSUME Verified(o)', NEW p \in Present,
                      phrase'[p] # Absent, phrase'[p].text = phrase'[o].text
               PROVE  p = o
    BY <1>6 DEF Distinct
  <2>1. phrase'[o] = phrase[o] /\ Verified(o) /\ ~Colliding(o)
    BY <1>1, <1>3, <1>4, <1>6 DEF Verified
  <2>2. phrase[p] # Absent /\ phrase[p].text = phrase[o].text
    BY <1>4, <1>6, <2>1
  <2> QED BY <2>1, <2>2 DEF Colliding, Shares, Verified
<1>8. DistinctInv' /\ ClosedInv'
  BY <1>2, <1>6, <1>7 DEF DistinctInv, ClosedInv
<1> QED BY <1>5, <1>8 DEF IInv

LEMMA CloseKept == IInv /\ Close => IInv'
<1> SUFFICES ASSUME IInv, Close PROVE IInv'
  OBVIOUS
<1>1. /\ Task = "close" /\ obj = 1 /\ AllVisited /\ UNCHANGED <<ocr, old>>
      /\ phrase' = [o \in Object |->
                      IF phrase[o] # Absent /\ phrase[o].status # "verified"
                      THEN WithStatus(phrase[o], "unresolved") ELSE phrase[o]]
  BY DEF Close
<1>2. Running = "finalize" /\ pass = 2
  BY <1>1, Tasks DEF IInv
<1>3. ASSUME NEW o \in Object, phrase[o] # Absent
      PROVE  /\ phrase[o] \in Phrase /\ WithStatus(phrase[o], "unresolved") \in Phrase
             /\ WithStatus(phrase[o], "unresolved").status = "unresolved"
             /\ WithStatus(phrase[o], "unresolved").text = phrase[o].text
  <2>1. phrase[o] \in Phrase
    BY <1>3 DEF IInv, TypeOK
  <2> QED BY <2>1 DEF WithStatus, Phrase
<1>4. /\ phrase' \in [Object -> Phrase \cup {Absent}]
      /\ \A o \in Object :
           \/ phrase'[o] = phrase[o]
           \/ /\ phrase[o] # Absent /\ phrase'[o] # Absent
              /\ phrase'[o].status # "verified" /\ phrase'[o].text = phrase[o].text
  BY <1>1, <1>3, AbsentAssumption DEF IInv, TypeOK
<1>5. TypeOK' /\ SoundInv' /\ FreshInv' /\ DescribedInv'
  BY <1>1, <1>2, <1>4, SweepKept
<1>6. /\ Running' = Running /\ pass' = pass /\ Present' = Present
      /\ Present \subseteq Object
  BY <1>1, SizesAssumption DEF AllVisited, world, Running, Present, Object, IInv, TypeOK
<1>7. ASSUME NEW o \in Present PROVE Distinct(o)'
  <2>1. Distinct(o)
    BY <1>2 DEF IInv, DistinctInv
  <2> SUFFICES ASSUME Verified(o)', NEW p \in Present,
                      phrase'[p] # Absent, phrase'[p].text = phrase'[o].text
               PROVE  p = o
    BY <1>6 DEF Distinct
  <2>2. phrase'[o] = phrase[o] /\ Verified(o)
    BY <1>4, <1>6 DEF Verified
  <2>3. phrase[p] # Absent /\ phrase[p].text = phrase[o].text
    BY <1>4, <1>6, <2>2
  <2> QED BY <2>1, <2>2, <2>3 DEF Distinct
<1>8. ASSUME NEW o \in Present PROVE phrase'[o].status \in {"verified", "unresolved"}
  <2>1. phrase[o] # Absent
    BY <1>2 DEF IInv, DescribedInv
  <2> QED BY <1>1, <1>3, <1>6, <2>1
<1>9. DistinctInv' /\ ClosedInv'
  BY <1>6, <1>7, <1>8 DEF DistinctInv, ClosedInv
<1> QED BY <1>5, <1>9 DEF IInv

(* A loop that is over has visited every object.                           *)
LEMMA PassIsOver ==
    ASSUME IInv, PassOver
    PROVE  /\ step < LastStep /\ Running # "end"
           /\ Running # "objects" => /\ \A o \in Present : o < obj
                                     /\ obj # 1 \/ Present = {}
<1>1. step < LastStep /\ Running # "end"
  BY Tasks, SizesAssumption DEF PassOver, IInv, TypeOK, LastStep
<1>2. ASSUME Running # "objects"
      PROVE  /\ \A o \in Present : o < obj
             /\ obj # 1 \/ Present = {}
  <2>1. Task # "objects" /\ Task # "end"
    <3>1. CASE Running \in {"ocr", "describe", "reground", "blind"}
      <4>1. Passes(Running) = <<Running>> /\ pass = 1
        BY <3>1 DEF Passes, IInv, TypeOK
      <4> QED BY <3>1, <4>1 DEF Task
    <3>2. CASE Running = "rewrite"
      <4>1. Passes(Running) = <<"ocr", "verify", "mark", "describe">> /\ pass \in {1, 2, 3, 4}
        BY <3>2 DEF Passes, IInv, TypeOK
      <4> QED BY <4>1 DEF Task
    <3>3. CASE Running = "verify"
      <4>1. Passes(Running) = <<"verify", "mark">> /\ pass \in {1, 2}
        BY <3>3 DEF Passes, IInv, TypeOK
      <4> QED BY <4>1 DEF Task
    <3>4. CASE Running = "finalize"
      <4>1. Passes(Running) = <<"mark", "close">> /\ pass \in {1, 2}
        BY <3>4 DEF Passes, IInv, TypeOK
      <4> QED BY <4>1 DEF Task
    <3> QED BY <1>1, <1>2, <3>1, <3>2, <3>3, <3>4, Tasks DEF IInv
  <2>2. obj > count /\ count \in Nat /\ obj \in Nat
    BY <2>1, SizesAssumption DEF PassOver, IInv, TypeOK
  <2> QED BY <2>2 DEF Present
<1> QED BY <1>1, <1>2

LEMMA NextPassKept == IInv /\ NextPass => IInv'
<1> SUFFICES ASSUME IInv, NextPass PROVE IInv'
  OBVIOUS
<1>1. /\ PassOver /\ pass < Len(Passes(Running)) /\ pass' = pass + 1 /\ obj' = 1
      /\ UNCHANGED <<count, box, look, ocr, phrase, old, step, crashes>>
      /\ Running' = Running /\ Present' = Present
  BY DEF NextPass, durable, world, Running, Present
<1>2. Running \in {"rewrite", "verify", "finalize"} /\ pass \in Nat /\ pass >= 1
      /\ (Running # "rewrite" => pass = 1) /\ Len(Passes(Running)) \in Nat
  <2>1. Len(Passes(Running)) = IF Running = "rewrite" THEN 4
                               ELSE IF Running \in {"verify", "finalize"} THEN 2 ELSE 1
    BY Tasks DEF IInv
  <2>2. pass \in 1..Len(Passes(Running))
    BY DEF IInv, TypeOK
  <2> QED BY <1>1, <2>1, <2>2
<1>3. /\ \A o \in Present : o < obj
      /\ obj # 1 \/ Present = {}
  BY <1>1, <1>2, PassIsOver
<1>4. TypeOK'
  <2>1. pass' \in 1..Len(Passes(Running))' /\ obj' \in 1..(count' + 1)
    <3>1. Passes(Running)' = Passes(Running)
      BY <1>1
    <3>2. count \in Nat
      BY SizesAssumption DEF IInv, TypeOK
    <3> QED BY <1>1, <1>2, <3>1, <3>2
  <2> QED BY <1>1, <2>1 DEF IInv, TypeOK
<1>5. SoundInv'
  BY <1>1 DEF IInv, SoundInv
<1>6. FreshInv'
  <2>1. ASSUME NEW o \in Present, Fresh(o) PROVE Fresh(o)'
    BY <1>1, <2>1 DEF Fresh, Verified, UpToDate
  <2> QED BY <1>1, <1>2, <1>3, <2>1 DEF IInv, FreshInv
<1>7. DescribedInv'
  <2>1. \A o \in Present : ~(o < 1)
    BY DEF Present
  <2> QED BY <1>1, <1>2, <2>1 DEF IInv, DescribedInv
<1>8. DistinctInv'
  <2>1. ASSUME NEW o \in Present, Distinct(o) PROVE Distinct(o)'
    BY <1>1, <2>1 DEF Distinct, Verified
  <2> QED BY <1>1, <1>2, <1>3, <2>1 DEF IInv, DistinctInv
<1>9. ClosedInv'
  BY <1>1, <1>2 DEF ClosedInv
<1> QED BY <1>4, <1>5, <1>6, <1>7, <1>8, <1>9 DEF IInv

LEMMA EndStageKept == IInv /\ EndStage => IInv'
<1> SUFFICES ASSUME IInv, EndStage PROVE IInv'
  OBVIOUS
<1>1. /\ PassOver /\ pass = Len(Passes(Running))
      /\ step' = step + 1 /\ pass' = 1 /\ obj' = 1
      /\ UNCHANGED <<count, box, look, ocr, phrase, old, crashes>>
      /\ Present' = Present /\ Running' = Stage(step' + 1)
  BY DEF EndStage, world, Running, Present
<1>2. /\ step < LastStep /\ Running # "end" /\ step \in Nat /\ LastStep \in Nat
      /\ Running # "objects" => /\ \A o \in Present : o < obj
                                /\ obj # 1 \/ Present = {}
  BY <1>1, PassIsOver, SizesAssumption DEF IInv, TypeOK, LastStep
<1>3. /\ Running = "objects" => Running' \in {"ocr", "rewrite"}
      /\ Running = "ocr" => Running' = "describe"
      /\ Running \in {"describe", "rewrite"} => Running' = "reground"
      /\ Running = "reground" => Running' = "blind"
      /\ Running = "blind" => Running' = "verify"
      /\ Running = "verify" => Running' \in {"objects", "finalize"}
      /\ Running = "finalize" => Running' = "end"
      /\ Running \in {"objects", "ocr", "describe", "reground", "blind", "verify",
                      "rewrite", "finalize"}
  <2> DEFINE n == step + 1
  <2>1. n \in 1..LastStep /\ Running = Stage(n) /\ Running' = Stage(n + 1)
    BY <1>1, <1>2 DEF Running
  <2>2. Stage(LastStep + 1) = "end"
    BY SizesAssumption DEF Stage, LastStep
  <2> HIDE DEF n
  <2> QED BY <2>1, <2>2, StageOrder
<1>4. /\ Running = "rewrite" => pass = 4
      /\ Running \in {"verify", "finalize"} => pass = 2
  BY <1>1, Tasks DEF IInv
<1>5. TypeOK'
  <2>1. step' \in 0..LastStep
    BY <1>1, <1>2
  <2>2. Len(Passes(Running'))>= 1 /\ Len(Passes(Running')) \in Nat
    BY <1>3 DEF Passes
  <2>3. pass' \in 1..Len(Passes(Running))' /\ obj' \in 1..(count' + 1)
    <3>1. count \in Nat
      BY SizesAssumption DEF IInv, TypeOK
    <3> QED BY <1>1, <2>2, <3>1
  <2> QED BY <1>1, <2>1, <2>3 DEF IInv, TypeOK
<1>6. SoundInv'
  BY <1>1 DEF IInv, SoundInv
<1>7. \A o \in Present : ~(o < 1)
  BY DEF Present
<1>8. FreshInv'
  <2>1. ASSUME NEW o \in Present, Fresh(o) PROVE Fresh(o)'
    BY <1>1, <2>1 DEF Fresh, Verified, UpToDate
  <2> QED BY <1>1, <1>3, <1>4, <1>7, <2>1 DEF IInv, FreshInv
<1>9. DescribedInv'
  BY <1>1, <1>2, <1>3, <1>4, <1>7 DEF IInv, DescribedInv
<1>10. DistinctInv'
  <2>1. ASSUME NEW o \in Present, Distinct(o) PROVE Distinct(o)'
    BY <1>1, <2>1 DEF Distinct, Verified
  <2> QED BY <1>1, <1>3, <1>4, <2>1 DEF IInv, DistinctInv
<1>11. ClosedInv'
  BY <1>1, <1>2, <1>3, <1>4 DEF IInv, ClosedInv
<1> QED BY <1>5, <1>6, <1>8, <1>9, <1>10, <1>11 DEF IInv

LEMMA CrashKept == IInv /\ Crash => IInv'
<1> SUFFICES ASSUME IInv, Crash PROVE IInv'
  OBVIOUS
<1>1. /\ pass' = 1 /\ obj' = 1 /\ crashes < MaxCrashes /\ crashes' = crashes + 1
      /\ UNCHANGED <<count, box, look, ocr, phrase, old, step>>
      /\ Running' = Running /\ Present' = Present
  BY DEF Crash, durable, world, Running, Present
<1>2. TypeOK'
  <2>1. crashes' \in 0..MaxCrashes
    BY <1>1, SizesAssumption DEF IInv, TypeOK
  <2>2. pass' \in 1..Len(Passes(Running))' /\ obj' \in 1..(count' + 1)
    <3>1. Len(Passes(Running)) \in Nat /\ Len(Passes(Running)) >= 1
          /\ Passes(Running)' = Passes(Running)
      <4>1. Len(Passes(Running)) = IF Running = "rewrite" THEN 4
                                   ELSE IF Running \in {"verify", "finalize"} THEN 2 ELSE 1
        BY Tasks DEF IInv
      <4> QED BY <1>1, <4>1
    <3>2. count \in Nat
      BY SizesAssumption DEF IInv, TypeOK
    <3> QED BY <1>1, <3>1, <3>2
  <2> QED BY <1>1, <2>1, <2>2 DEF IInv, TypeOK
<1>3. SoundInv'
  BY <1>1 DEF IInv, SoundInv
<1>4. \A o \in Present : ~(o < 1)
  BY DEF Present
<1>5. FreshInv'
  <2>1. ASSUME NEW o \in Present, Fresh(o) PROVE Fresh(o)'
    BY <1>1, <2>1 DEF Fresh, Verified, UpToDate
  <2> QED BY <1>1, <1>4, <2>1 DEF IInv, FreshInv
<1>6. DescribedInv'
  BY <1>1, <1>4 DEF IInv, DescribedInv
<1>7. DistinctInv'
  <2>1. ASSUME NEW o \in Present, Distinct(o) PROVE Distinct(o)'
    BY <1>1, <2>1 DEF Distinct, Verified
  <2> QED BY <1>1, <2>1 DEF IInv, DistinctInv
<1>8. ClosedInv'
  BY <1>1 DEF IInv, ClosedInv
<1> QED BY <1>2, <1>3, <1>5, <1>6, <1>7, <1>8 DEF IInv

LEMMA NextKept == IInv /\ [Next]_vars => IInv'
<1> SUFFICES ASSUME IInv, [Next]_vars PROVE IInv'
  OBVIOUS
<1>1. CASE UNCHANGED vars
  <2>1. UNCHANGED <<count, box, look, ocr, phrase, old, step, pass, obj, crashes>>
    BY <1>1 DEF vars, durable, world, position
  <2> QED BY <2>1 DEF IInv, TypeOK, SoundInv, Sound, FreshInv, Fresh, Verified, UpToDate,
              DescribedInv, DistinctInv, Distinct, ClosedInv, Running, Present
<1> QED BY <1>1, VerifyObjectsKept, OcrKept, DescribeKept, BlindReviewKept, RegroundKept,
           VerifyKept, MarkKept, CloseKept, NextPassKept, EndStageKept, CrashKept
        DEF Next, Work, Done

-----------------------------------------------------------------------------
LEMMA Invariance == Spec => []IInv
BY InitIInv, NextKept, PTL DEF Spec

(* Every variable keeps its type, revision numbers stay within the rewrite *)
(* budget and the cursor within the objects.                               *)
THEOREM TypeCorrect == Spec => []TypeOK
BY Invariance, PTL DEF IInv

(* At any moment of any run a verified phrase has its cue, the blind reader*)
(* found exactly one referent, and it was located.                         *)
THEOREM OnlyCertified == Spec => []Certified
<1>1. IInv => Certified
  BY DEF IInv, SoundInv, Sound, Certified, Verified
<1> QED BY <1>1, Invariance, PTL

(* A phrase is delivered as verified only if its review is about the box   *)
(* and the peers its object has at delivery.                               *)
THEOREM DeliveryIsUpToDate == Spec => []DeliveredUpToDate
<1>1. IInv => DeliveredUpToDate
  BY Tasks DEF IInv, FreshInv, Fresh, Delivered, DeliveredUpToDate
<1> QED BY <1>1, Invariance, PTL

(* No two objects are delivered with one phrase that is verified for either.*)
THEOREM DeliveryIsDistinct == Spec => []DeliveredDistinct
<1>1. IInv => DeliveredDistinct
  BY Tasks DEF IInv, DistinctInv, Distinct, Delivered, DeliveredDistinct
<1> QED BY <1>1, Invariance, PTL

(* Every object is delivered with a phrase, verified or unresolved.        *)
THEOREM DeliveryIsComplete == Spec => []DeliveredComplete
<1>1. IInv => DeliveredComplete
  BY Tasks DEF IInv, DescribedInv, ClosedInv, Delivered, DeliveredComplete
<1> QED BY <1>1, Invariance, PTL

(* At the end of the last stage of an image every object has a phrase, and *)
(* the verified ones are up to date and no two are the same.               *)
THEOREM DeliveryHolds == Spec => []DeliveryInv
<1>1. DeliveredUpToDate /\ DeliveredDistinct /\ DeliveredComplete <=> DeliveryInv
  BY DEF DeliveryInv
<1> QED BY <1>1, DeliveryIsUpToDate, DeliveryIsDistinct, DeliveryIsComplete, PTL

-----------------------------------------------------------------------------
(* What becomes of a phrase in a step; VerdictsHold says it of every step.  *)
Held(o) ==
    /\ phrase[o] # Absent => phrase'[o] # Absent
    /\ RewrittenFor(o) => /\ phrase[o].status = "needs_rewrite"
                          /\ phrase'[o].rev = phrase[o].rev + 1
                          /\ old'[o] = phrase'[o].rev
                          /\ ocr[o] = box[o]
    /\ phrase[o] # Absent /\ ~RewrittenFor(o) => phrase'[o].text = phrase[o].text
    /\ Verified(o) /\ phrase'[o].status # "verified" =>
          phrase[o].seen # [own |-> box[o], scene |-> look] \/ Shares(o)

AllHeld == \A o \in Object : Held(o)

(* The history is as long as the revision number says, and in a rewriting   *)
(* stage the text in the box has been read where the first loop went.       *)
Filed(ph, length) == length = IF ph = Absent THEN 0 ELSE ph.rev

HistoryInv ==
    /\ \A o \in Object : Filed(phrase[o], old[o])
    /\ Running = "rewrite" => \A o \in Present : pass > 1 \/ o < obj => ocr[o] = box[o]

LEMMA HistoryInit == Init => HistoryInv
BY DEF Init, HistoryInv, Filed, Running, Stage, Opening

(* A step that touches no phrase.                                           *)
LEMMA UntouchedHold ==
    ASSUME HistoryInv, UNCHANGED <<phrase, old>>
    PROVE  AllHeld /\ \A o \in Object : Filed(phrase'[o], old'[o])
BY DEF HistoryInv, AllHeld, Held, RewrittenFor, Verified

(* A step that changes the phrase of the visited object and keeps the text. *)
LEMMA JudgedHold ==
    ASSUME IInv, HistoryInv, obj \in Present, phrase[obj] # Absent, UNCHANGED old,
           NEW ph \in Phrase, phrase' = [phrase EXCEPT ![obj] = ph],
           ph.text = phrase[obj].text, ph.rev = phrase[obj].rev,
           phrase[obj].status = "verified" /\ ph.status # "verified" =>
               phrase[obj].seen # Key(obj)
    PROVE  AllHeld /\ \A o \in Object : Filed(phrase'[o], old'[o])
<1>1. obj \in Object /\ phrase \in [Object -> Phrase \cup {Absent}] /\ ph # Absent
  BY AtObject, AbsentAssumption DEF IInv, TypeOK
<1>2. \A o \in Object : phrase'[o] = IF o = obj THEN ph ELSE phrase[o]
  BY <1>1
<1>3. ASSUME NEW o \in Object PROVE Held(o)
  <2>1. CASE o = obj
    BY <1>1, <1>2, <2>1 DEF Held, RewrittenFor, Verified, Key
  <2>2. CASE o # obj
    BY <1>2, <2>2 DEF Held, RewrittenFor, Verified
  <2> QED BY <2>1, <2>2
<1> QED BY <1>1, <1>2, <1>3 DEF AllHeld, HistoryInv, Filed

(* What a visit leaves of the reading of the boxes.                         *)
LEMMA ReadStays ==
    ASSUME IInv, HistoryInv, obj \in Present, Visited,
           (ocr' = ocr /\ Task # "ocr") \/ ocr' = [ocr EXCEPT ![obj] = box[obj]]
    PROVE  Running' = "rewrite" =>
               \A o \in Present' : pass' > 1 \/ o < obj' => ocr'[o] = box'[o]
<1>1. /\ UNCHANGED <<count, box, look, step, pass>> /\ obj' = obj + 1
      /\ Running' = Running /\ Present' = Present
  BY DEF Visited, world, Running, Present
<1>2. /\ \A o \in Present : o \in Object /\ o \in Nat
      /\ obj \in Nat /\ ocr \in [Object -> 0..MaxBox]
  BY SizesAssumption DEF IInv, TypeOK, Present, Object
<1>3. SUFFICES ASSUME Running = "rewrite", NEW o \in Present, pass > 1 \/ o < obj + 1
               PROVE  ocr'[o] = box[o]
  BY <1>1
<1>4. CASE ocr' = [ocr EXCEPT ![obj] = box[obj]]
  BY <1>2, <1>3, <1>4 DEF HistoryInv
<1>5. CASE ocr' = ocr /\ Task # "ocr"
  <2>1. pass > 1
    <3>1. Passes(Running)[1] = "ocr" /\ Len(Passes(Running)) = 4
      BY <1>3 DEF Passes
    <3>2. pass # 1
      BY <1>5, <3>1 DEF Task
    <3> QED BY <3>1, <3>2 DEF IInv, TypeOK
  <2> QED BY <1>3, <1>5, <2>1 DEF HistoryInv
<1> QED BY <1>4, <1>5

LEMMA DescribeHolds ==
    ASSUME IInv, HistoryInv, Describe
    PROVE  AllHeld /\ \A o \in Object : Filed(phrase'[o], old'[o])
<1>1. /\ obj \in Present /\ obj \in Object /\ Task = "describe"
      /\ phrase \in [Object -> Phrase \cup {Absent}] /\ old \in [Object -> Nat]
      /\ phrase[obj] \in Phrase \cup {Absent} /\ Filed(phrase[obj], old[obj])
  BY AtObject
     DEF Describe, WriteFirst, Rewrite, GiveUp, KeepPhrase, Visiting, IInv, TypeOK, HistoryInv
<1>2. CASE WriteFirst
  <2>1. PICK text \in Texts, shape \in Shapes :
          phrase' = [phrase EXCEPT ![obj] = Draft(text, shape, 0)]
    BY <1>2 DEF WriteFirst, SetPhrase
  <2>2. phrase[obj] = Absent /\ UNCHANGED old
    BY <1>2 DEF WriteFirst
  <2>3. Draft(text, shape, 0).rev = 0
    BY DEF Draft
  <2>4. \A o \in Object : phrase'[o] = IF o = obj THEN Draft(text, shape, 0) ELSE phrase[o]
    BY <1>1, <2>1
  <2>5. Draft(text, shape, 0) # Absent
    BY SizesAssumption, AtObject, DraftOK, <1>1
  <2>6. \A o \in Object : Filed(phrase'[o], old'[o])
    BY <2>2, <2>3, <2>4, <2>5 DEF HistoryInv, Filed
  <2> QED BY <2>2, <2>4, <2>6 DEF AllHeld, Held, RewrittenFor, Verified
<1>3. CASE Rewrite
  <2> DEFINE n == phrase[obj].rev + 1
  <2>1. PICK text \in Texts, shape \in Shapes :
          phrase' = [phrase EXCEPT ![obj] = Draft(text, shape, n)]
    BY <1>3 DEF Rewrite, SetPhrase
  <2>2. /\ phrase[obj] # Absent /\ phrase[obj].status = "needs_rewrite"
        /\ Running = "rewrite" /\ phrase[obj].rev < Rounds
        /\ old' = [old EXCEPT ![obj] = old[obj] + 1]
    BY <1>3 DEF Rewrite, Rewritable
  <2>3. phrase[obj].rev \in Nat /\ n \in 0..Rounds
    BY <1>1, <2>2, SizesAssumption DEF Phrase
  <2>4. Draft(text, shape, n).rev = n /\ Draft(text, shape, n) # Absent
    <3>1. Draft(text, shape, n) # Absent
      BY <1>1, <2>3, AtObject, DraftOK
    <3> QED BY <3>1 DEF Draft
  <2>5. pass = 4
    BY <1>1, <2>2, Tasks DEF IInv
  <2>6. ocr[obj] = box[obj]
    BY <1>1, <2>2, <2>5 DEF HistoryInv
  <2>7. \A o \in Object : /\ phrase'[o] = IF o = obj THEN Draft(text, shape, n) ELSE phrase[o]
                          /\ old'[o] = IF o = obj THEN old[obj] + 1 ELSE old[o]
    BY <1>1, <2>1, <2>2
  <2>8. old[obj] + 1 = n
    BY <1>1, <2>2 DEF Filed
  <2>9. \A o \in Object : Filed(phrase'[o], old'[o])
    BY <2>4, <2>7, <2>8 DEF HistoryInv, Filed
  <2>10. ASSUME NEW o \in Object PROVE Held(o)
    <3>1. CASE o = obj
      BY <1>1, <2>2, <2>3, <2>4, <2>6, <2>7, <2>8, <3>1 DEF Held, RewrittenFor, Verified
    <3>2. CASE o # obj
      BY <2>7, <3>2 DEF Held, RewrittenFor, Verified
    <3> QED BY <3>1, <3>2
  <2> QED BY <2>9, <2>10 DEF AllHeld
<1>4. CASE GiveUp
  <2> DEFINE ph == WithStatus(phrase[obj], "unresolved")
  <2>1. /\ phrase' = [phrase EXCEPT ![obj] = ph] /\ UNCHANGED old
        /\ phrase[obj] \in Phrase /\ phrase[obj] # Absent /\ phrase[obj].status = "needs_rewrite"
    BY <1>1, <1>4 DEF GiveUp, Rewritable, SetPhrase
  <2>2. ph \in Phrase /\ ph.text = phrase[obj].text /\ ph.rev = phrase[obj].rev
    BY <2>1 DEF WithStatus, Phrase
  <2> HIDE DEF ph
  <2> QED BY <1>1, <2>1, <2>2, JudgedHold
<1>5. CASE KeepPhrase
  BY <1>5, UntouchedHold DEF KeepPhrase
<1> QED BY <1>2, <1>3, <1>4, <1>5 DEF Describe

LEMMA BlindReviewHolds ==
    ASSUME IInv, HistoryInv, BlindReview
    PROVE  AllHeld /\ \A o \in Object : Filed(phrase'[o], old'[o])
<1>1. obj \in Present /\ phrase[obj] \in Phrase \cup {Absent} /\ UNCHANGED old
      /\ Sound(phrase[obj])
  BY AtObject DEF BlindReview, Visiting
<1>2. CASE UNCHANGED phrase
  BY <1>1, <1>2, UntouchedHold
<1>3. CASE Readable(phrase[obj]) /\ phrase[obj].blind = "none"
  <2>1. PICK outcome \in {"unique", "multiple", "unclear"} :
          phrase' = [phrase EXCEPT ![obj] = [phrase[obj] EXCEPT !.blind = outcome]]
    BY <1>3 DEF BlindReview, SetPhrase
  <2> DEFINE ph == [phrase[obj] EXCEPT !.blind = outcome]
  <2>2. phrase[obj] # Absent /\ phrase[obj] \in Phrase /\ phrase[obj].status # "verified"
    BY <1>1, <1>3 DEF Readable, Locatable, Sound
  <2>3. ph \in Phrase /\ ph.text = phrase[obj].text /\ ph.rev = phrase[obj].rev
    BY <2>2 DEF Phrase
  <2> QED BY <1>1, <2>1, <2>2, <2>3, JudgedHold
<1> QED BY <1>2, <1>3 DEF BlindReview

LEMMA RegroundHolds ==
    ASSUME IInv, HistoryInv, Reground
    PROVE  AllHeld /\ \A o \in Object : Filed(phrase'[o], old'[o])
<1>1. /\ obj \in Present /\ phrase[obj] \in Phrase \cup {Absent} /\ UNCHANGED old
      /\ Sound(phrase[obj]) /\ box[obj] \in 0..MaxBox
  BY AtObject DEF Reground, Visiting
<1>2. CASE UNCHANGED phrase
  BY <1>1, <1>2, UntouchedHold
<1>3. CASE Locatable(phrase[obj])
           /\ \E result \in {"passed", "failed"} : SetPhrase(Located(phrase[obj], result))
  <2>1. PICK result \in {"passed", "failed"} :
          phrase' = [phrase EXCEPT ![obj] = Located(phrase[obj], result)]
    BY <1>3 DEF SetPhrase
  <2> DEFINE ph == Located(phrase[obj], result)
  <2>2. phrase[obj] # Absent /\ phrase[obj] \in Phrase
    BY <1>1, <1>3 DEF Locatable
  <2>3. ph \in Phrase
    BY <1>1, <2>2, LocatedOK
  <2>4. /\ ph.text = phrase[obj].text /\ ph.rev = phrase[obj].rev
        /\ ph.status = phrase[obj].status
    BY DEF Located
  <2> HIDE DEF ph
  <2> QED BY <1>1, <2>1, <2>2, <2>3, <2>4, JudgedHold DEF ph
<1> QED BY <1>2, <1>3 DEF Reground

LEMMA VerifyHolds ==
    ASSUME IInv, HistoryInv, Verify
    PROVE  AllHeld /\ \A o \in Object : Filed(phrase'[o], old'[o])
<1>1. /\ obj \in Present /\ phrase[obj] \in Phrase \cup {Absent} /\ UNCHANGED old
      /\ Sound(phrase[obj]) /\ box[obj] \in 0..MaxBox /\ Key(obj) \in PeerKey
      /\ Key(obj) # Absent
  BY AtObject DEF Verify, Visiting
<1>2. CASE UNCHANGED phrase
  BY <1>1, <1>2, UntouchedHold
<1>3. CASE Reviewable(phrase[obj]) /\ ~UNCHANGED phrase
  <2>1. PICK ph \in Audits(phrase[obj]) : ph.seen # Key(obj) /\ Review(ph)
    BY <1>3 DEF Verify
  <2>2. phrase[obj] # Absent /\ phrase[obj] \in Phrase
    BY <1>1, <1>3 DEF Reviewable, Locatable
  <2>3. /\ ph \in Phrase /\ ph.text = phrase[obj].text /\ ph.rev = phrase[obj].rev
        /\ \/ ph = phrase[obj]
           \/ phrase[obj].boxVersion # box[obj]
    <3>1. CASE ph = phrase[obj]
      BY <2>2, <3>1
    <3>2. CASE phrase[obj].boxVersion # box[obj]
      <4>1. PICK result \in {"passed", "failed"} : ph = Located(phrase[obj], result)
        BY <2>1, <3>2 DEF Audits
      <4>2. ph \in Phrase
        BY <1>1, <2>2, <4>1, LocatedOK
      <4> QED BY <3>2, <4>1, <4>2 DEF Located
    <3> QED BY <2>1, <3>1, <3>2 DEF Audits
  <2>4. phrase[obj].status = "verified" => phrase[obj].seen # Key(obj)
    <3>1. CASE ph = phrase[obj]
      BY <2>1, <3>1
    <3>2. CASE phrase[obj].boxVersion # box[obj]
      BY <1>1, <2>2, <3>2 DEF Sound, Key
    <3> QED BY <2>3, <3>1, <3>2
  <2>5. PICK new : /\ phrase' = [phrase EXCEPT ![obj] = new]
                   /\ \/ new = Unread(ph)
                      \/ \E pages \in Pagings(Peers(obj)) :
                            \E decisions \in [pages -> Decision] : new = Judged(ph, decisions)
    BY <2>1 DEF Review, SetPhrase
  <2>6. new \in Phrase /\ new.text = ph.text /\ new.rev = ph.rev
    <3>1. CASE new = Unread(ph)
      BY <2>3, <3>1 DEF Unread, Phrase
    <3>2. ASSUME NEW pages \in Pagings(Peers(obj)), NEW decisions \in [pages -> Decision],
                 new = Judged(ph, decisions)
          PROVE  new \in Phrase /\ new.text = ph.text /\ new.rev = ph.rev
      BY <1>1, <2>3, <3>2 DEF Judged, Phrase, Worst, Peers
    <3> QED BY <2>5, <3>1, <3>2
  <2> QED BY <1>1, <2>2, <2>3, <2>4, <2>5, <2>6, JudgedHold
<1> QED BY <1>2, <1>3 DEF Verify

LEMMA SweepHolds ==
    ASSUME IInv, HistoryInv, Mark \/ Close
    PROVE  AllHeld /\ \A o \in Object : Filed(phrase'[o], old'[o])
<1>1. phrase \in [Object -> Phrase \cup {Absent}] /\ UNCHANGED old
  BY DEF IInv, TypeOK, Mark, Close
<1>2. ASSUME NEW o \in Object
      PROVE  \/ phrase'[o] = phrase[o]
             \/ /\ phrase[o] # Absent /\ phrase'[o] # Absent
                /\ phrase'[o].text = phrase[o].text /\ phrase'[o].rev = phrase[o].rev
                /\ phrase[o].status # "verified" \/ Shares(o)
  <2>1. CASE Mark
    <3>1. phrase'[o] = IF o \in Present /\ Colliding(o) THEN Collided(phrase[o]) ELSE phrase[o]
      BY <2>1 DEF Mark
    <3>2. CASE o \in Present /\ Colliding(o)
      <4>1. phrase[o] # Absent /\ phrase[o] \in Phrase /\ Shares(o)
        BY <1>1, <3>2 DEF Colliding
      <4>2. Collided(phrase[o]) \in Phrase
        BY <4>1 DEF Collided, Phrase
      <4> QED BY <3>1, <3>2, <4>1, <4>2, AbsentAssumption DEF Collided
    <3> QED BY <3>1, <3>2
  <2>2. CASE Close
    <3>1. phrase'[o] = IF phrase[o] # Absent /\ phrase[o].status # "verified"
                       THEN WithStatus(phrase[o], "unresolved") ELSE phrase[o]
      BY <2>2 DEF Close
    <3>2. CASE phrase[o] # Absent /\ phrase[o].status # "verified"
      <4>1. phrase[o] \in Phrase
        BY <1>1, <3>2
      <4>2. WithStatus(phrase[o], "unresolved") \in Phrase
        BY <4>1 DEF WithStatus, Phrase
      <4>3. /\ WithStatus(phrase[o], "unresolved").text = phrase[o].text
            /\ WithStatus(phrase[o], "unresolved").rev = phrase[o].rev
        BY <4>1 DEF WithStatus, Phrase
      <4> QED BY <3>1, <3>2, <4>2, <4>3, AbsentAssumption
    <3> QED BY <3>1, <3>2
  <2> QED BY <2>1, <2>2
<1> QED BY <1>1, <1>2 DEF AllHeld, Held, RewrittenFor, Verified, HistoryInv, Filed

LEMMA NextHolds ==
    ASSUME IInv, HistoryInv, [Next]_vars
    PROVE  AllHeld /\ HistoryInv'
<1>1. CASE Describe \/ BlindReview \/ Reground \/ Verify \/ Ocr
  <2>1. AllHeld /\ \A o \in Object : Filed(phrase'[o], old'[o])
    BY <1>1, DescribeHolds, BlindReviewHolds, RegroundHolds, VerifyHolds, UntouchedHold DEF Ocr
  <2>2. /\ obj \in Present /\ Visited
        /\ (ocr' = ocr /\ Task # "ocr") \/ ocr' = [ocr EXCEPT ![obj] = box[obj]]
    BY <1>1 DEF Describe, WriteFirst, Rewrite, GiveUp, KeepPhrase, BlindReview, Reground,
                Verify, Ocr, Visiting
  <2> QED BY <2>1, <2>2, ReadStays DEF HistoryInv
<1>2. CASE Mark \/ Close
  <2>1. AllHeld /\ \A o \in Object : Filed(phrase'[o], old'[o])
    BY <1>2, SweepHolds
  <2>2. /\ UNCHANGED <<count, box, look, step, pass, ocr>> /\ Running' = Running
        /\ Present' = Present
    BY <1>2 DEF Mark, Close, AllVisited, world, Running, Present
  <2>3. Running = "rewrite" => pass > 1
    BY <1>2, Tasks DEF Mark, Close, IInv
  <2> QED BY <2>1, <2>2, <2>3 DEF HistoryInv
<1>3. CASE VerifyObjects
  <2>1. UNCHANGED <<phrase, old, step>> /\ Running = "objects" /\ Running' = Running
    BY <1>3, Tasks DEF VerifyObjects, AddObject, ReplaceBox, MergeCategory, IInv, Running
  <2> QED BY <2>1, UntouchedHold DEF HistoryInv
<1>4. CASE NextPass
  <2>1. /\ UNCHANGED <<phrase, old, ocr, box, count, step>> /\ pass' = pass + 1 /\ obj' = 1
        /\ Running' = Running /\ Present' = Present
    BY <1>4 DEF NextPass, durable, world, Running, Present
  <2>2. Running = "rewrite" => \A o \in Present : o < obj
    BY <1>4, PassIsOver DEF NextPass
  <2> QED BY <2>1, <2>2, UntouchedHold DEF HistoryInv
<1>5. CASE EndStage \/ Crash
  <2>1. UNCHANGED <<phrase, old, ocr, box, count>> /\ pass' = 1 /\ obj' = 1
    BY <1>5 DEF EndStage, Crash, durable, world
  <2>2. \A o \in Present' : ~(o < 1)
    BY DEF Present
  <2> QED BY <2>1, <2>2, UntouchedHold DEF HistoryInv
<1>6. CASE UNCHANGED vars
  <2>1. UNCHANGED <<count, box, look, ocr, phrase, old, step, pass, obj, crashes>>
    BY <1>6 DEF vars, durable, world, position
  <2> QED BY <2>1, UntouchedHold DEF HistoryInv, Running, Present
<1> QED BY <1>1, <1>2, <1>3, <1>4, <1>5, <1>6 DEF Next, Work, Done

(* Verdicts hold: a phrase is replaced only after it was refuted and the    *)
(* text in its box was read, the refuted one goes to the history, and       *)
(* approval is lost only for a cause (describe, verify_phrases,             *)
(* mark_phrase_collisions).                                                 *)
THEOREM VerdictsAreKept == Spec => VerdictsHold
<1>1. IInv /\ HistoryInv /\ [Next]_vars =>
        [\A o \in Object :
            /\ phrase[o] # Absent => phrase'[o] # Absent
            /\ RewrittenFor(o) => /\ phrase[o].status = "needs_rewrite"
                                  /\ phrase'[o].rev = phrase[o].rev + 1
                                  /\ old'[o] = phrase'[o].rev
                                  /\ ocr[o] = box[o]
            /\ phrase[o] # Absent /\ ~RewrittenFor(o) => phrase'[o].text = phrase[o].text
            /\ Verified(o) /\ phrase'[o].status # "verified" =>
                  phrase[o].seen # [own |-> box[o], scene |-> look] \/ Shares(o)]_vars
  BY NextHolds DEF AllHeld, Held
<1>2. IInv /\ HistoryInv /\ [Next]_vars => HistoryInv'
  BY NextHolds
<1> QED BY <1>1, <1>2, HistoryInit, Invariance, PTL DEF Spec, VerdictsHold
=============================================================================
