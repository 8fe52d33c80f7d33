---------------------------- MODULE RouteBProofs ----------------------------
(***************************************************************************)
(* Proofs about the legacy Route B, for any images, entities, bases,       *)
(* contents, answers and numbers of edits and faults: its stages           *)
(* (RouteBStages), the refinement of its expressions (RouteBRefine), the   *)
(* cache of its aggregates (RouteBRegions), and the identity of its targets*)
(* (RouteBTargets). The four share no state.                               *)
(***************************************************************************)
EXTENDS RouteBStages, RouteBRefine, RouteBRegions, RouteBTargets, FiniteSetTheorems,
        WellFoundedInduction, TLAPS

-----------------------------------------------------------------------------
(* RouteBStages                                                             *)

\* A valid record is made from what its signature says it was made from.
Derived(s, r) ==
    r.result # Invalid =>
        /\ s = "entities" => r.result.entities \subseteq Entity
        /\ s = "align" /\ r.result.accepted =>
            /\ r.result.about = <<r.key, r.from[2][1]>>
            /\ [target |-> r.key[2], found |-> FALSE, size_pass |-> TRUE] \in r.from[2][1]
        /\ s \in {"promote", "bbox_verify"} => r.result.about = <<r.key, r.from[1]>>
        /\ s = "describe" /\ r.result.accepted =>
            LET text == {q[2] : q \in {p \in r.from[2][1] : p[1] = r.key}}
            IN  r.result.about = <<<<r.key, r.from[1]>>, text>> /\ Invalid \notin text
        /\ s = "expression_verify" /\ r.result.accepted =>
            /\ r.result.about = <<r.key, r.from[1]>> /\ r.from[1].accepted
            /\ \E g \in r.from[2][1] : g.result.accepted

\* So is every record on file, at any time.
RowsDerived == \A s \in Checkpointed : \A r \in file[s] : Derived(s, r)

\* A regrounded box is that of an expression on file.
Regrounded(r) == \E d \in Records("describe") : d.key = r.key /\ d.result = r.from

\* A row is what would be made now.
Justified(s, r) ==
    CASE s = "aggregate" -> \E q \in Records("entities") : r \in BoxesOf(q)
      [] s = "reground" -> Regrounded(r)
      [] OTHER -> r \in Current(s)

\* Nothing of image i is left to do in stage s.
Settled(s, i) ==
    CASE s = "aggregate" -> \A q \in Of(i, Records("entities")) : BoxesOf(q) \subseteq file[s]
      [] s = "reground" -> \A d \in Of(i, Records("describe")) : \E r \in file[s] : r.key = d.key
      [] OTHER -> \A in \in Missing(s) : Head(in.key) # i

\* An inventory is named after its image, a candidate after its target as well.
KeysOK == /\ \A r \in file["entities"] : r.key = <<Head(r.key)>>
          /\ \A r \in file["aggregate"] : r.key = <<Head(r.key), r.result.target>>

\* The stages behind the present one have nothing left to ask, and if nothing
\* was edited since the pass began, what they have on file is what would be made
\* now.  A stage at work has dropped what is no longer current.
PassOK ==
    /\ \A n \in 1..(at - 1) : Stages[n] \in Checkpointed => Missing(Stages[n]) = {}
    /\ ~dirty => \A n \in 1..(at - 1) : Stages[n] # "reground" => \A r \in file[Stages[n]] : Justified(Stages[n], r)
    /\ asking => at <= Len(Stages) /\ Stage \in Checkpointed /\ Current(Stage) = file[Stage]

\* Of an image that was never edited every row is what would be made now, and a
\* stage has nothing left to do for it once a later one has a row of it: the
\* filter at the start of a stage can then drop none of its rows.
KeptOK ==
    \A i \in Image \ edited :
        /\ \A s \in Name : \A r \in Of(i, file[s]) : Justified(s, r)
        /\ \A n \in 1..Len(Stages) :
              at > n \/ (\E m \in (n + 1)..Len(Stages) : Of(i, file[Stages[m]]) # {}) =>
                  Settled(Stages[n], i)

(* The inductive invariant of the stages.                                   *)
StagesIInv == TypeOK /\ RowsDerived /\ KeysOK /\ PassOK /\ KeptOK

LEMMA StageNames ==
    /\ Len(Stages) = 9
    /\ Name = {"entities", "aggregate", "align", "promote", "bbox_verify", "ocr", "describe",
               "reground", "expression_verify"}
    /\ Checkpointed = {"entities", "align", "promote", "bbox_verify", "ocr", "describe",
                       "expression_verify"}
    /\ Stages[1] = "entities" /\ Stages[2] = "aggregate" /\ Stages[3] = "align"
    /\ Stages[4] = "promote" /\ Stages[5] = "bbox_verify" /\ Stages[6] = "ocr"
    /\ Stages[7] = "describe" /\ Stages[8] = "reground" /\ Stages[9] = "expression_verify"
<1>1. /\ Len(Stages) = 9
      /\ Stages[1] = "entities" /\ Stages[2] = "aggregate" /\ Stages[3] = "align"
      /\ Stages[4] = "promote" /\ Stages[5] = "bbox_verify" /\ Stages[6] = "ocr"
      /\ Stages[7] = "describe" /\ Stages[8] = "reground" /\ Stages[9] = "expression_verify"
  BY DEF Stages
<1>2. 1..Len(Stages) = {1, 2, 3, 4, 5, 6, 7, 8, 9}
  BY <1>1
<1>3. Name = {"entities", "aggregate", "align", "promote", "bbox_verify", "ocr", "describe",
               "reground", "expression_verify"}
  BY <1>1, <1>2 DEF Name
<1>4. QED
  BY <1>1, <1>3 DEF Checkpointed

LEMMA Numbered ==
    /\ 1..Len(Stages) = {1, 2, 3, 4, 5, 6, 7, 8, 9}
    /\ \A s \in Name : \E n \in 1..9 : Stages[n] = s
    /\ \A n \in 1..9 : Stages[n] \in Name
    /\ \A m, n \in 1..9 : Stages[m] = Stages[n] => m = n
<1>1. 1..9 = {1, 2, 3, 4, 5, 6, 7, 8, 9}
  OBVIOUS
<1>2. QED
  BY <1>1, StageNames

LEMMA AlignInputs ==
    ASSUME NEW in
    PROVE  in \in Inputs("align") <=>
                \E r \in Records("entities") : \E e \in r.result.entities :
                    in = Input(<<Head(r.key), e>>, "entity")
<1>1. Inputs("align") = {Input(k, "entity") : k \in UNION {Proposed(r) : r \in Records("entities")}}
  BY DEF Inputs
<1>2. \A k : k \in UNION {Proposed(r) : r \in Records("entities")} <=>
              \E r \in Records("entities") : \E e \in r.result.entities : k = <<Head(r.key), e>>
  BY DEF Proposed
<1>3. QED
  BY <1>1, <1>2

(* What the records of each stage are made from.                           *)
LEMMA InputsAre ==
    ASSUME NEW in
    PROVE  /\ in \in Inputs("entities") <=> \E i \in Image : in = Input(<<i>>, "image")
           /\ in \in Inputs("align") <=>
                \E r \in Records("entities") : \E e \in r.result.entities :
                    in = Input(<<Head(r.key), e>>, "entity")
           /\ in \in Inputs("promote") <=>
                \E c \in Promotable : in = Input(c.key, Candidates(Head(c.key)))
           /\ in \in Inputs("bbox_verify") <=>
                \E r \in Accepted("align") \cup Accepted("promote") : in = Input(r.key, r.result)
           /\ in \in Inputs("ocr") <=> \E r \in Accepted("bbox_verify") : in = Input(r.key, r.result)
           /\ in \in Inputs("describe") <=>
                \E r \in Accepted("bbox_verify") : in = Input(r.key, r.result)
           /\ in \in Inputs("expression_verify") <=>
                \E r \in Records("describe") : in = Input(r.key, r.result)
<1>1. in \in Inputs("entities") <=> \E i \in Image : in = Input(<<i>>, "image")
  BY DEF Inputs
<1>2. in \in Inputs("align") <=>
                \E r \in Records("entities") : \E e \in r.result.entities :
                    in = Input(<<Head(r.key), e>>, "entity")
  BY AlignInputs
<1>3. in \in Inputs("promote") <=>
                \E c \in Promotable : in = Input(c.key, Candidates(Head(c.key)))
  BY DEF Inputs
<1>4. in \in Inputs("bbox_verify") <=>
                \E r \in Accepted("align") \cup Accepted("promote") : in = Input(r.key, r.result)
  BY DEF Inputs
<1>5. /\ in \in Inputs("ocr") <=> \E r \in Accepted("bbox_verify") : in = Input(r.key, r.result)
      /\ in \in Inputs("describe") <=> \E r \in Accepted("bbox_verify") : in = Input(r.key, r.result)
  BY DEF Inputs
<1>6. in \in Inputs("expression_verify") <=>
                \E r \in Records("describe") : in = Input(r.key, r.result)
  BY DEF Inputs
<1>7. QED
  BY <1>1, <1>2, <1>3, <1>4, <1>5, <1>6

LEMMA ExtrasAre ==
    ASSUME NEW key
    PROVE  /\ Extras("entities", key) = <<source[Head(key)]>>
           /\ Extras("align", key) = <<Candidates(Head(key)), source[Head(key)]>>
           /\ Extras("promote", key) = <<source[Head(key)]>>
           /\ Extras("bbox_verify", key) = << >> /\ Extras("ocr", key) = << >>
           /\ Extras("describe", key) =
                <<{<<r.key, r.result>> : r \in Of(Head(key), file["ocr"])}, source[Head(key)]>>
           /\ Extras("expression_verify", key) = <<{r \in file["reground"] : r.key = key}>>
BY DEF Extras

(***************************************************************************)
(* All that a stage reads for an image is of that image.                   *)
(***************************************************************************)
SameRows(i, s) == Of(i, file'[s]) = Of(i, file[s])

LEMMA SameIsSame ==
    ASSUME NEW i, NEW s \in Name, SameRows(i, s), NEW r, Head(r.key) = i
    PROVE  /\ r \in file'[s] <=> r \in file[s]
           /\ r \in Records(s)' <=> r \in Records(s)
           /\ r \in Accepted(s)' <=> r \in Accepted(s)
<1>1. r \in file'[s] <=> r \in file[s]
  BY DEF SameRows, Of
<1>2. QED
  BY <1>1 DEF Records, Accepted

LEMMA CandidatesLocal ==
    ASSUME NEW i, SameRows(i, "aggregate") PROVE Candidates(i)' = Candidates(i)
BY DEF SameRows, Candidates, Of

LEMMA PromotableLocal ==
    ASSUME NEW i, SameRows(i, "aggregate"), SameRows(i, "align"), NEW c, Head(c.key) = i
    PROVE  c \in Promotable' <=> c \in Promotable
<1>1. "aggregate" \in Name /\ "align" \in Name
  BY StageNames
<1>2. Of(i, Accepted("align"))' = Of(i, Accepted("align"))
  BY <1>1, SameIsSame DEF Of, Accepted, Records
<1>3. QED
  BY <1>1, <1>2, SameIsSame DEF Promotable

LEMMA InputsLocal ==
    ASSUME NEW i, NEW n \in 1..9, Stages[n] \in Checkpointed,
           \A m \in 1..(n - 1) : SameRows(i, Stages[m]),
           NEW in, Head(in.key) = i
    PROVE  in \in Inputs(Stages[n])' <=> in \in Inputs(Stages[n])
<1>0. n \in {1, 3, 4, 5, 6, 7, 9}
  BY StageNames
<1> \A r, k : Head(Input(r, k).key) = Head(r)
  BY DEF Input
<1>1. CASE n = 1
  BY <1>1, StageNames, InputsAre DEF Inputs
<1>2. CASE n = 3
  <2>1. \A r : Head(r.key) = i => (r \in Records("entities")' <=> r \in Records("entities"))
    BY <1>2, StageNames, SameIsSame
  <2>2. QED
    BY <1>2, <2>1, StageNames DEF Inputs, Proposed, Input
<1>3. CASE n = 4
  <2>1. SameRows(i, "aggregate") /\ SameRows(i, "align")
    BY <1>3, StageNames
  <2>2. \A c : Head(c.key) = i => (c \in Promotable' <=> c \in Promotable)
    BY <2>1, PromotableLocal
  <2>3. Candidates(i)' = Candidates(i)
    BY <2>1, CandidatesLocal
  <2>4. QED
    BY <1>3, <2>2, <2>3, StageNames DEF Inputs, Input
<1>4. CASE n = 5
  <2>1. \A r : Head(r.key) = i => (r \in Accepted("align")' <=> r \in Accepted("align"))
                                /\ (r \in Accepted("promote")' <=> r \in Accepted("promote"))
    BY <1>4, StageNames, SameIsSame
  <2>2. QED
    BY <1>4, <2>1, StageNames DEF Inputs, Input
<1>5. CASE n \in {6, 7}
  <2>1. \A r : Head(r.key) = i => (r \in Accepted("bbox_verify")' <=> r \in Accepted("bbox_verify"))
    BY <1>5, StageNames, SameIsSame
  <2>2. QED
    BY <1>5, <2>1, StageNames DEF Inputs, Input
<1>6. CASE n = 9
  <2>1. \A r : Head(r.key) = i => (r \in Records("describe")' <=> r \in Records("describe"))
    BY <1>6, StageNames, SameIsSame
  <2>2. QED
    BY <1>6, <2>1, StageNames DEF Inputs, Input
<1>7. QED
  BY <1>0, <1>1, <1>2, <1>3, <1>4, <1>5, <1>6

LEMMA SignatureLocal ==
    ASSUME NEW i, NEW n \in 1..9, Stages[n] \in Checkpointed, source'[i] = source[i],
           \A m \in 1..(n - 1) : SameRows(i, Stages[m]),
           NEW in, Head(in.key) = i
    PROVE  Signature(Stages[n], in)' = Signature(Stages[n], in)
<1>0. n \in {1, 3, 4, 5, 6, 7, 9}
  BY StageNames
<1> SUFFICES Extras(Stages[n], in.key)' = Extras(Stages[n], in.key)
  BY DEF Signature
<1>1. CASE n \in {1, 4, 5, 6}
  BY <1>1, StageNames DEF Extras
<1>2. CASE n = 3
  <2>1. Candidates(i)' = Candidates(i)
    BY <1>2, StageNames, CandidatesLocal
  <2>2. QED
    BY <1>2, <2>1, StageNames DEF Extras
<1>3. CASE n = 7
  BY <1>3, StageNames DEF Extras, SameRows
<1>4. CASE n = 9
  <2>1. SameRows(i, "reground")
    BY <1>4, StageNames
  <2>2. {r \in file["reground"] : r.key = in.key}' = {r \in file["reground"] : r.key = in.key}
    BY <2>1 DEF SameRows, Of
  <2>3. QED
    BY <1>4, <2>2, StageNames DEF Extras
<1>5. QED
  BY <1>0, <1>1, <1>2, <1>3, <1>4
LEMMA CurrentLocal ==
    ASSUME NEW i, NEW n \in 1..9, Stages[n] \in Checkpointed, source'[i] = source[i],
           \A m \in 1..(n - 1) : SameRows(i, Stages[m]),
           NEW r, Head(r.key) = i, r \in file[Stages[n]], r \in file'[Stages[n]]
    PROVE  r \in Current(Stages[n])' <=> r \in Current(Stages[n])
<1>1. \A in : in.key = r.key =>
           /\ in \in Inputs(Stages[n])' <=> in \in Inputs(Stages[n])
           /\ Signature(Stages[n], in)' = Signature(Stages[n], in)
  BY InputsLocal, SignatureLocal
<1>2. QED
  BY <1>1 DEF Current

LEMMA MissingLocal ==
    ASSUME NEW i, NEW n \in 1..9, Stages[n] \in Checkpointed,
           \A m \in 1..n : SameRows(i, Stages[m]),
           NEW in, Head(in.key) = i
    PROVE  in \in Missing(Stages[n])' <=> in \in Missing(Stages[n])
<1>1. in \in Inputs(Stages[n])' <=> in \in Inputs(Stages[n])
  BY InputsLocal
<1>2. SameRows(i, Stages[n]) /\ Stages[n] \in Name
  BY Numbered
<1>3. \A r : r.key = in.key => (r \in file'[Stages[n]] <=> r \in file[Stages[n]])
  BY <1>2, SameIsSame
<1>4. QED
  BY <1>1, <1>3 DEF Missing

LEMMA BoxesLocal ==
    ASSUME NEW r PROVE  /\ \A b \in BoxesOf(r) : Head(b.key) = Head(r.key)
                        /\ source'[Head(r.key)] = source[Head(r.key)] => BoxesOf(r)' = BoxesOf(r)
BY DEF BoxesOf, Box

LEMMA JustifiedLocal ==
    ASSUME NEW i, NEW n \in 1..9, source'[i] = source[i],
           \A m \in 1..(n - 1) : SameRows(i, Stages[m]),
           NEW r, Head(r.key) = i, r \in file[Stages[n]], r \in file'[Stages[n]],
           Justified(Stages[n], r)
    PROVE  Justified(Stages[n], r)'
<1>1. CASE n = 2
  <2>1. PICK q \in Records("entities") : r \in BoxesOf(q)
    BY <1>1, StageNames DEF Justified
  <2>2. Head(q.key) = i
    BY <2>1, BoxesLocal
  <2>3. q \in Records("entities")'
    BY <1>1, <2>1, <2>2, StageNames, SameIsSame
  <2>4. BoxesOf(q)' = BoxesOf(q)
    BY <2>2, BoxesLocal
  <2>5. QED
    BY <1>1, <2>1, <2>3, <2>4, StageNames DEF Justified
<1>2. CASE n = 8
  <2>1. PICK d \in Records("describe") : d.key = r.key /\ d.result = r.from
    BY <1>2, StageNames DEF Justified, Regrounded
  <2>2. d \in Records("describe")'
    BY <1>2, <2>1, StageNames, SameIsSame
  <2>3. QED
    BY <1>2, <2>1, <2>2, StageNames DEF Justified, Regrounded
<1>3. CASE n \notin {2, 8}
  <2>1. Stages[n] \in Checkpointed
    BY <1>3, StageNames
  <2>2. r \in Current(Stages[n])
    BY <2>1, StageNames DEF Justified
  <2>3. r \in Current(Stages[n])'
    BY <2>1, <2>2, CurrentLocal
  <2>4. QED
    BY <2>1, <2>3, StageNames DEF Justified
<1>4. QED
  BY <1>1, <1>2, <1>3

LEMMA SettledLocal ==
    ASSUME NEW i, NEW n \in 1..9, source'[i] = source[i],
           \A m \in 1..n : SameRows(i, Stages[m]),
           Settled(Stages[n], i)
    PROVE  Settled(Stages[n], i)'
<1>1. CASE n = 2
  <2>1. SameRows(i, "entities") /\ SameRows(i, "aggregate")
    BY <1>1, StageNames
  <2>2. \A q \in Of(i, Records("entities"))' : BoxesOf(q)' \subseteq file'["aggregate"]
    <3> SUFFICES ASSUME NEW q \in Of(i, Records("entities"))' PROVE BoxesOf(q)' \subseteq file'["aggregate"]
      OBVIOUS
    <3>1. Head(q.key) = i /\ q \in Records("entities")
      BY <2>1, StageNames, SameIsSame DEF Of
    <3>2. BoxesOf(q) \subseteq file["aggregate"] /\ BoxesOf(q)' = BoxesOf(q)
      BY <1>1, <3>1, StageNames, BoxesLocal DEF Settled, Of
    <3>3. \A b \in BoxesOf(q) : b \in file'["aggregate"]
      BY <2>1, <3>1, <3>2, StageNames, BoxesLocal, SameIsSame
    <3>4. QED
      BY <3>2, <3>3
  <2>3. QED
    BY <1>1, <2>2, StageNames DEF Settled
<1>2. CASE n = 8
  <2>1. SameRows(i, "describe") /\ SameRows(i, "reground")
    BY <1>2, StageNames
  <2>2. \A d \in Of(i, Records("describe"))' : \E r \in file'["reground"] : r.key = d.key
    BY <1>2, <2>1, StageNames, SameIsSame DEF Settled, Of
  <2>3. QED
    BY <1>2, <2>2, StageNames DEF Settled
<1>3. CASE n \notin {2, 8}
  <2>1. Stages[n] \in Checkpointed
    BY <1>3, StageNames
  <2>2. \A in \in Missing(Stages[n]) : Head(in.key) # i
    BY <2>1, StageNames DEF Settled
  <2>3. \A in \in Missing(Stages[n])' : Head(in.key) # i
    BY <2>1, <2>2, MissingLocal
  <2>4. QED
    BY <2>1, <2>3, StageNames DEF Settled
<1>4. QED
  BY <1>1, <1>2, <1>3

LEMMA KeptStep ==
    ASSUME KeptOK, NEW k \in 1..9, at = k, UNCHANGED <<source, edited>>, at' \in {k, k + 1},
           \A m \in 1..9 : m # k => file'[Stages[m]] = file[Stages[m]],
           \A i \in Image \ edited :
               \/ SameRows(i, Stages[k])
               \/ /\ \A m \in (k + 1)..9 : Of(i, file[Stages[m]]) = {}
                  /\ \A r \in Of(i, file'[Stages[k]]) : Justified(Stages[k], r)',
           at' = k + 1 => \A i \in Image \ edited : Settled(Stages[k], i)'
    PROVE  KeptOK'
<1> SUFFICES ASSUME NEW i \in Image \ edited
             PROVE  /\ \A s \in Name : \A r \in Of(i, file'[s]) : Justified(s, r)'
                    /\ \A n \in 1..9 :
                          at' > n \/ (\E m \in (n + 1)..9 : Of(i, file'[Stages[m]]) # {}) =>
                              Settled(Stages[n], i)'
  BY StageNames DEF KeptOK, Of
<1>0. \A m \in 1..9 : m # k => SameRows(i, Stages[m])
  BY DEF SameRows
<1>1. /\ \A s \in Name : \A r \in Of(i, file[s]) : Justified(s, r)
      /\ \A n \in 1..9 :
            at > n \/ (\E m \in (n + 1)..9 : Of(i, file[Stages[m]]) # {}) =>
                Settled(Stages[n], i)
  BY StageNames DEF KeptOK
<1>2. source'[i] = source[i]
  OBVIOUS
<1>3. CASE SameRows(i, Stages[k])
  <2>1. \A m \in 1..9 : SameRows(i, Stages[m])
    BY <1>0, <1>3
  <2>2. ASSUME NEW s \in Name, NEW r \in Of(i, file'[s]) PROVE Justified(s, r)'
    <3>1. PICK n \in 1..9 : s = Stages[n]
      BY Numbered
    <3>2. Head(r.key) = i /\ r \in file'[s] /\ r \in file[s] /\ r \in Of(i, file[s])
      BY <2>1, <3>1 DEF SameRows, Of
    <3>3. \A m \in 1..(n - 1) : SameRows(i, Stages[m])
      BY <2>1
    <3>4. Justified(s, r)
      BY <1>1, <3>2
    <3>5. QED
      BY <1>2, <3>1, <3>2, <3>3, <3>4, JustifiedLocal
  <2>3. ASSUME NEW n \in 1..9,
               at' > n \/ (\E m \in (n + 1)..9 : Of(i, file'[Stages[m]]) # {})
        PROVE  Settled(Stages[n], i)'
    <3>1. CASE k > n \/ \E m \in (n + 1)..9 : Of(i, file'[Stages[m]]) # {}
      <4>1. Settled(Stages[n], i)
        BY <1>1, <2>1, <3>1 DEF SameRows
      <4>2. \A m \in 1..n : SameRows(i, Stages[m])
        BY <2>1
      <4>3. QED
        BY <1>2, <4>1, <4>2, SettledLocal
    <3>2. CASE at' = k + 1 /\ n = k
      BY <3>2
    <3>3. QED
      BY <2>3, <3>1, <3>2
  <2>4. QED
    BY <2>2, <2>3
<1>4. CASE /\ \A m \in (k + 1)..9 : Of(i, file[Stages[m]]) = {}
           /\ \A r \in Of(i, file'[Stages[k]]) : Justified(Stages[k], r)'
  <2>1. \A m \in (k + 1)..9 : Of(i, file'[Stages[m]]) = {}
    BY <1>4
  <2>2. ASSUME NEW s \in Name, NEW r \in Of(i, file'[s]) PROVE Justified(s, r)'
    <3>1. PICK n \in 1..9 : s = Stages[n]
      BY Numbered
    <3>2. CASE n = k
      BY <1>4, <3>1, <3>2
    <3>3. CASE n > k
      BY <2>1, <2>2, <3>1, <3>3
    <3>4. CASE n < k
      <4>1. Head(r.key) = i /\ r \in file'[s] /\ r \in file[s] /\ r \in Of(i, file[s])
        BY <1>0, <3>1, <3>4 DEF SameRows, Of
      <4>2. \A m \in 1..(n - 1) : SameRows(i, Stages[m])
        BY <1>0, <3>4
      <4>3. Justified(s, r)
        BY <1>1, <4>1
      <4>4. QED
        BY <1>2, <3>1, <4>1, <4>2, <4>3, JustifiedLocal
    <3>5. QED
      BY <3>2, <3>3, <3>4
  <2>3. ASSUME NEW n \in 1..9,
               at' > n \/ (\E m \in (n + 1)..9 : Of(i, file'[Stages[m]]) # {})
        PROVE  Settled(Stages[n], i)'
    <3>1. CASE n < k
      <4>1. Settled(Stages[n], i) /\ \A m \in 1..n : SameRows(i, Stages[m])
        BY <1>0, <1>1, <3>1
      <4>2. QED
        BY <1>2, <4>1, SettledLocal
    <3>2. CASE at' = k + 1 /\ n = k
      BY <3>2
    <3>3. QED
      BY <2>1, <2>3, <3>1, <3>2
  <2>4. QED
    BY <2>2, <2>3
<1>5. QED
  BY <1>3, <1>4

LEMMA KeptSame ==
    ASSUME KeptOK, TypeOK, file' = file, edited \subseteq edited', at' \in 1..at,
           \A i \in Image \ edited' : source'[i] = source[i]
    PROVE  KeptOK'
<1> SUFFICES ASSUME NEW i \in Image \ edited'
             PROVE  /\ \A s \in Name : \A r \in Of(i, file'[s]) : Justified(s, r)'
                    /\ \A n \in 1..9 :
                          at' > n \/ (\E m \in (n + 1)..9 : Of(i, file'[Stages[m]]) # {}) =>
                              Settled(Stages[n], i)'
  BY StageNames DEF KeptOK, Of
<1>1. \A m \in 1..9 : SameRows(i, Stages[m])
  BY DEF SameRows
<1>2. /\ \A s \in Name : \A r \in Of(i, file[s]) : Justified(s, r)
      /\ \A n \in 1..9 :
            at > n \/ (\E m \in (n + 1)..9 : Of(i, file[Stages[m]]) # {}) =>
                Settled(Stages[n], i)
  BY StageNames DEF KeptOK
<1>3. source'[i] = source[i]
  OBVIOUS
<1>4. ASSUME NEW s \in Name, NEW r \in Of(i, file'[s]) PROVE Justified(s, r)'
  <2>1. PICK n \in 1..9 : s = Stages[n]
    BY Numbered
  <2>2. Head(r.key) = i /\ r \in file'[s] /\ r \in file[s] /\ Justified(s, r)
    BY <1>2, <1>4 DEF Of
  <2>3. \A m \in 1..(n - 1) : SameRows(i, Stages[m])
    BY <1>1
  <2>4. QED
    BY <1>3, <2>1, <2>2, <2>3, JustifiedLocal
<1>5. ASSUME NEW n \in 1..9, at' > n \/ (\E m \in (n + 1)..9 : Of(i, file'[Stages[m]]) # {})
      PROVE  Settled(Stages[n], i)'
  <2>1. Settled(Stages[n], i)
    BY <1>2, <1>5, StageNames DEF TypeOK
  <2>2. \A m \in 1..n : SameRows(i, Stages[m])
    BY <1>1
  <2>3. QED
    BY <1>3, <2>1, <2>2, SettledLocal
<1>6. QED
  BY <1>4, <1>5

(* What was done before the present stage stays done.                      *)
LEMMA EarlierStays ==
    ASSUME NEW k \in 1..10, UNCHANGED source,
           \A m \in 1..9 : m # k => file'[Stages[m]] = file[Stages[m]],
           NEW n \in 1..9, n < k
    PROVE  /\ Stages[n] \in Checkpointed /\ Missing(Stages[n]) = {} => Missing(Stages[n])' = {}
           /\ (\A r \in file[Stages[n]] : Justified(Stages[n], r)) =>
                  \A r \in file'[Stages[n]] : Justified(Stages[n], r)'
<1>1. \A i : \A m \in 1..n : SameRows(i, Stages[m])
  BY DEF SameRows
<1>2. ASSUME Stages[n] \in Checkpointed, Missing(Stages[n]) = {}, NEW in \in Missing(Stages[n])'
      PROVE  FALSE
  <2>1. \A m \in 1..n : SameRows(Head(in.key), Stages[m])
    BY <1>1
  <2>2. in \in Missing(Stages[n])
    BY <1>2, <2>1, MissingLocal
  <2>3. QED
    BY <1>2, <2>2
<1>3. ASSUME \A r \in file[Stages[n]] : Justified(Stages[n], r), NEW r \in file'[Stages[n]]
      PROVE  Justified(Stages[n], r)'
  <2>1. \A m \in 1..(n - 1) : SameRows(Head(r.key), Stages[m])
    <3>1. \A m \in 1..(n - 1) : m \in 1..n
      OBVIOUS
    <3>2. QED
      BY <1>1, <3>1
  <2>2. r \in file[Stages[n]] /\ source'[Head(r.key)] = source[Head(r.key)]
    OBVIOUS
  <2>3. QED
    BY <1>3, <2>1, <2>2, JustifiedLocal
<1>4. QED
  BY <1>2, <1>3

LEMMA PresentStays ==
    ASSUME NEW k \in 1..9, Stages[k] \in Checkpointed, UNCHANGED source,
           \A m \in 1..9 : m # k => file'[Stages[m]] = file[Stages[m]], NEW in
    PROVE  /\ in \in Inputs(Stages[k])' <=> in \in Inputs(Stages[k])
           /\ Signature(Stages[k], in)' = Signature(Stages[k], in)
<1>1. \A m \in 1..(k - 1) : SameRows(Head(in.key), Stages[m])
  BY DEF SameRows
<1>2. QED
  BY <1>1, InputsLocal, SignatureLocal

LEMMA InputsHaveImages ==
    ASSUME TypeOK, NEW s \in Checkpointed, NEW in \in Inputs(s)
    PROVE  Head(in.key) \in Image
<1>1. \A t \in Name : \A r \in file[t] : Head(r.key) \in Image
  BY DEF TypeOK
<1>2. \A r, a : Input(r, a).key = r
  BY DEF Input
<1>3. CASE s = "entities"
  <2>1. PICK i \in Image : in = Input(<<i>>, "image")
    BY <1>3, InputsAre
  <2>2. QED
    BY <1>2, <2>1
<1>4. CASE s = "align"
  <2>0. \E r \in Records("entities") : \E e \in r.result.entities :
            in = Input(<<Head(r.key), e>>, "entity")
    <3>1. in \in Inputs("align")
      BY <1>4
    <3>2. QED
      BY <3>1, AlignInputs
  <2>1. PICK r \in Records("entities") : \E e \in r.result.entities :
            in = Input(<<Head(r.key), e>>, "entity")
    BY <2>0
  <2>2. Head(in.key) = Head(r.key)
    BY <1>2, <2>1
  <2>3. QED
    BY <1>1, <2>1, <2>2, StageNames DEF Records
<1>5. CASE s = "promote"
  BY <1>1, <1>2, <1>5, InputsAre, StageNames DEF Promotable
<1>6. CASE s \in {"bbox_verify", "ocr", "describe", "expression_verify"}
  BY <1>1, <1>2, <1>6, InputsAre, StageNames DEF Records, Accepted
<1>7. QED
  BY <1>3, <1>4, <1>5, <1>6, StageNames

-----------------------------------------------------------------------------
(* an answer                                                                *)

LEMMA DecisionIs ==
    ASSUME NEW about, NEW answers, NEW result \in Decision(about, answers), result # Invalid
    PROVE  /\ result.about = about
           /\ result.accepted <=> result.answer \in {"yes", "repaired"}
           /\ result.answer \in answers \ {"invalid"}
<1>1. PICK a \in answers \ {"invalid"} :
          result = [accepted |-> a \in {"yes", "repaired"}, answer |-> a, about |-> about]
  BY DEF Decision
<1>2. QED
  BY <1>1

LEMMA TextIsOf ==
    ASSUME NEW key
    PROVE  {t.result : t \in Text(key)} =
           {q[2] : q \in {p \in {<<r.key, r.result>> : r \in Of(Head(key), file["ocr"])} :
                            p[1] = key}}
<1>1. ASSUME NEW t \in Text(key)
      PROVE  t.result \in {q[2] : q \in {p \in {<<r.key, r.result>> : r \in Of(Head(key), file["ocr"])} :
                            p[1] = key}}
  <2>1. t \in Of(Head(key), file["ocr"]) /\ t.key = key
    BY DEF Text, Of
  <2>2. <<t.key, t.result>> \in {p \in {<<r.key, r.result>> : r \in Of(Head(key), file["ocr"])} :
                            p[1] = key}
    BY <2>1
  <2>3. <<t.key, t.result>>[2] = t.result
    OBVIOUS
  <2>4. QED
    BY <2>2, <2>3
<1>2. ASSUME NEW q \in {p \in {<<r.key, r.result>> : r \in Of(Head(key), file["ocr"])} : p[1] = key}
      PROVE  q[2] \in {t.result : t \in Text(key)}
  BY DEF Text, Of
<1>3. QED
  BY <1>1, <1>2

LEMMA AnswerIsDerived ==
    ASSUME NEW s \in Checkpointed, NEW in, NEW result \in Results(s, in)
    PROVE  Derived(s, [key |-> in.key, from |-> Signature(s, in), result |-> result])
<1> DEFINE row == [key |-> in.key, from |-> Signature(s, in), result |-> result]
<1>0. /\ row.key = in.key /\ row.result = result
      /\ row.from[1] = in.about /\ row.from[2] = Extras(s, in.key)
  BY DEF Signature
<1> HIDE DEF row
<1> SUFFICES ASSUME result # Invalid PROVE Derived(s, row)
  BY <1>0 DEF row, Derived
<1>1. CASE s = "entities"
  <2>1. result.entities \subseteq Entity
    BY <1>1, SourcesAssumption DEF Results, ProposalResults
  <2>2. QED
    BY <1>0, <1>1, <2>1 DEF Derived
<1>2. CASE s = "align"
  <2>1. row.from[2][1] = Candidates(Head(in.key))
    <3>1. row.from[2] = <<Candidates(Head(in.key)), source[Head(in.key)]>>
      BY <1>0, <1>2, ExtrasAre
    <3>2. QED
      BY <3>1
  <2>2. result \in AlignmentResults(in)
    BY <1>2 DEF Results
  <2>3. ASSUME result.accepted
        PROVE  SizeValid(in.key) /\ result.about = <<in.key, Candidates(Head(in.key))>>
    <3>1. SizeValid(in.key)
      BY <2>2, <2>3, DecisionIs DEF AlignmentResults
    <3>2. QED
      BY <2>2, <3>1, DecisionIs DEF AlignmentResults
  <2>4. QED
    BY <1>0, <1>2, <2>1, <2>3 DEF Derived, SizeValid
<1>3. CASE s \in {"promote", "bbox_verify"}
  <2>1. result \in Decision(<<in.key, in.about>>, Answers[s])
    BY <1>3 DEF Results, PromotionResults, BoxResults
  <2>2. QED
    BY <1>0, <1>3, <2>1, DecisionIs DEF Derived
<1>4. CASE s = "ocr"
  BY <1>4 DEF Derived
<1>5. CASE s = "describe"
  <2> DEFINE pairs == {<<r.key, r.result>> : r \in Of(Head(in.key), file["ocr"])}
  <2>1. row.from[2][1] = pairs
    <3>1. row.from[2] = <<pairs, source[Head(in.key)]>>
      BY <1>0, <1>5, ExtrasAre
    <3>2. QED
      BY <3>1
  <2>2. result \in DraftResults(in)
    BY <1>5 DEF Results
  <2>3. /\ \A t \in Text(in.key) : t.result # Invalid
        /\ result \in Decision(<<<<in.key, in.about>>, {t.result : t \in Text(in.key)}>>,
                               Answers["describe"])
    BY <2>2 DEF DraftResults
  <2>4. result.about = <<<<in.key, in.about>>, {t.result : t \in Text(in.key)}>>
    BY <2>3, DecisionIs
  <2>5. {t.result : t \in Text(in.key)} = {q[2] : q \in {p \in pairs : p[1] = in.key}}
    BY TextIsOf
  <2>6. Invalid \notin {t.result : t \in Text(in.key)}
    BY <2>3
  <2> HIDE DEF pairs
  <2>7. QED
    BY <1>0, <1>5, <2>1, <2>4, <2>5, <2>6 DEF Derived
<1>6. CASE s = "expression_verify"
  <2>1. row.from[2][1] = {r \in file["reground"] : r.key = in.key}
    <3>1. row.from[2] = <<{r \in file["reground"] : r.key = in.key}>>
      BY <1>0, <1>6, ExtrasAre
    <3>2. QED
      BY <3>1
  <2>2. result \in VerificationResults(in)
    BY <1>6 DEF Results
  <2>3. result.about = <<in.key, in.about>>
    BY <2>2, DecisionIs DEF VerificationResults
  <2>4. ASSUME result.accepted PROVE in.about.accepted /\ Passes(in.key)
    <3> SUFFICES ASSUME ~(in.about.accepted /\ Passes(in.key)) PROVE FALSE
      OBVIOUS
    <3>1. result.answer \in {"yes", "repaired"}
          /\ result.answer \in ((Answers["expression_verify"] \ {"yes"}) \cup {"no"})
      BY <2>2, <2>4, DecisionIs DEF VerificationResults
    <3>2. QED
      BY <3>1, AnswersAssumption
  <2>5. QED
    BY <1>0, <1>6, <2>1, <2>3, <2>4 DEF Derived, Passes
<1>7. QED
  BY <1>1, <1>2, <1>3, <1>4, <1>5, <1>6, StageNames

LEMMA StagesInitHolds == Init => StagesIInv
<1> SUFFICES ASSUME Init PROVE StagesIInv
  OBVIOUS
<1>1. \A s \in Name : file[s] = {}
  BY DEF Init
<1>2. TypeOK
  <2>1. source \in [Image -> Source] /\ DOMAIN file = Name
    BY DEF Init
  <2>2. /\ at \in 1..(Len(Stages) + 1) /\ asking \in BOOLEAN /\ dirty \in BOOLEAN
        /\ edited \subseteq Image /\ edits \in 0..MaxEdits /\ faults \in 0..MaxFaults
    <3>1. at = 1 /\ asking = FALSE /\ dirty = FALSE /\ edited = {} /\ edits = 0 /\ faults = 0
      BY DEF Init
    <3>2. MaxEdits \in Nat /\ MaxFaults \in Nat
      BY SourcesAssumption
    <3>3. at \in 1..(Len(Stages) + 1)
      BY <3>1, StageNames
    <3>4. asking \in BOOLEAN /\ dirty \in BOOLEAN
      BY <3>1
    <3>5. edited \subseteq Image
      BY <3>1
    <3>6. edits \in 0..MaxEdits /\ faults \in 0..MaxFaults
      BY <3>1, <3>2
    <3>7. QED
      BY <3>3, <3>4, <3>5, <3>6
  <2>3. QED
    BY <1>1, <2>1, <2>2 DEF TypeOK
<1>3. RowsDerived /\ KeysOK
  BY <1>1, StageNames DEF RowsDerived, KeysOK
<1>4. PassOK
  BY DEF Init, PassOK
<1>5. KeptOK
  <2>1. \A s \in Name, i \in Image : Of(i, file[s]) = {}
    BY <1>1 DEF Of
  <2>2. \A n \in 1..9 : ~(at > n)
    BY DEF Init
  <2>3. \A n \in 1..9 : \A m \in (n + 1)..9 : Stages[m] \in Name
    BY Numbered
  <2>4. QED
    BY <2>1, <2>2, <2>3, StageNames DEF KeptOK
<1>6. QED
  BY <1>2, <1>3, <1>4, <1>5 DEF StagesIInv

(* A stage is at work on its file, and on no other.                         *)
Touches(k) ==
    /\ at = k /\ UNCHANGED <<source, dirty, edited>>
    /\ DOMAIN file' = Name
    /\ \A m \in 1..9 : m # k => file'[Stages[m]] = file[Stages[m]]

LEMMA OthersStay ==
    ASSUME NEW k \in 1..9, Touches(k), NEW s \in Name, s # Stages[k]
    PROVE  file'[s] = file[s]
<1>1. PICK m \in 1..9 : s = Stages[m]
  BY Numbered
<1>2. QED
  BY <1>1 DEF Touches

LEMMA ExceptTouches ==
    ASSUME TypeOK, NEW k \in 1..9, at = k, UNCHANGED <<source, dirty, edited>>,
           NEW X, file' = [file EXCEPT ![Stages[k]] = X]
    PROVE  Touches(k) /\ file'[Stages[k]] = X
<1>1. DOMAIN file = Name /\ Stages[k] \in Name
  BY Numbered DEF TypeOK
<1>2. \A m \in 1..9 : m # k => Stages[m] # Stages[k]
  BY Numbered
<1>3. QED
  BY <1>1, <1>2 DEF Touches

LEMMA ThisOrEarlier ==
    ASSUME NEW k \in 1..9, NEW b \in {k, k + 1}, NEW n \in 1..(b - 1)
    PROVE  n < k \/ (n = k /\ b = k + 1)
OBVIOUS

(* What is to be shown of a step that changes the file of one stage.       *)
LEMMA TouchHolds ==
    ASSUME StagesIInv, NEW k \in 1..9, Touches(k), at' \in {k, k + 1},
           \A r \in file'[Stages[k]] :
               /\ DOMAIN r = {"key", "from", "result"} /\ Head(r.key) \in Image
               /\ \A q \in file'[Stages[k]] : r.key = q.key => r = q
               /\ Stages[k] \in Checkpointed => Derived(Stages[k], r)
               /\ Stages[k] = "entities" => r.key = <<Head(r.key)>>
               /\ Stages[k] = "aggregate" => r.key = <<Head(r.key), r.result.target>>
               /\ Justified(Stages[k], r)',
           \A i \in Image \ edited :
               (\E m \in (k + 1)..9 : Of(i, file[Stages[m]]) # {}) => SameRows(i, Stages[k]),
           asking' => at' = k /\ Stages[k] \in Checkpointed /\ Current(Stages[k])' = file'[Stages[k]],
           at' = k + 1 =>
               /\ Stages[k] \in Checkpointed => Missing(Stages[k])' = {}
               /\ \A i \in Image : Settled(Stages[k], i)',
           asking' \in BOOLEAN, edits' = edits, faults' = faults
    PROVE  StagesIInv'
<1> USE DEF StagesIInv
<1>1. TypeOK'
  <2>1. \A s \in Name : \A r \in file'[s] :
           DOMAIN r = {"key", "from", "result"} /\ Head(r.key) \in Image
    BY OthersStay DEF TypeOK
  <2>2. \A s \in Name : \A r, q \in file'[s] : r.key = q.key => r = q
    BY OthersStay DEF TypeOK
  <2>3. at' \in 1..(Len(Stages) + 1)
    BY StageNames
  <2>4. QED
    BY <2>1, <2>2, <2>3 DEF TypeOK, Touches
<1>2. RowsDerived'
  <2>1. ASSUME NEW s \in Checkpointed, NEW r \in file'[s] PROVE Derived(s, r)
    <3>1. s \in Name
      BY DEF Checkpointed
    <3>2. CASE s = Stages[k]
      BY <2>1, <3>2
    <3>3. CASE s # Stages[k]
      BY <2>1, <3>1, <3>3, OthersStay DEF RowsDerived
    <3>4. QED
      BY <3>2, <3>3
  <2>2. QED
    BY <2>1 DEF RowsDerived, Derived
<1>3. KeysOK'
  <2>1. "entities" \in Name /\ "aggregate" \in Name
    BY StageNames
  <2>2. \A r \in file'["entities"] : r.key = <<Head(r.key)>>
    BY <2>1, OthersStay DEF KeysOK
  <2>3. \A r \in file'["aggregate"] : r.key = <<Head(r.key), r.result.target>>
    BY <2>1, OthersStay DEF KeysOK
  <2>4. QED
    BY <2>2, <2>3 DEF KeysOK
<1>4. PassOK'
  <2>1. at = k /\ source' = source /\ dirty' = dirty
        /\ \A m \in 1..9 : m # k => file'[Stages[m]] = file[Stages[m]]
    BY DEF Touches
  <2>2. ASSUME NEW n \in 1..(at' - 1)
        PROVE  /\ Stages[n] \in Checkpointed => Missing(Stages[n])' = {}
               /\ ~dirty /\ Stages[n] # "reground" =>
                     \A r \in file'[Stages[n]] : Justified(Stages[n], r)'
    <3>1. CASE n < k
      <4>1. n \in 1..9 /\ n \in 1..(at - 1)
        BY <2>1, <3>1
      <4>2. Stages[n] \in Checkpointed => Missing(Stages[n])' = {}
        <5>1. Stages[n] \in Checkpointed => Missing(Stages[n]) = {}
          BY <4>1 DEF PassOK
        <5>2. Stages[n] \in Checkpointed /\ Missing(Stages[n]) = {} => Missing(Stages[n])' = {}
          BY <2>1, <3>1, <4>1, EarlierStays
        <5>3. QED
          BY <5>1, <5>2
      <4>3. ~dirty /\ Stages[n] # "reground" => \A r \in file[Stages[n]] : Justified(Stages[n], r)
        BY <4>1 DEF PassOK
      <4>4. (\A r \in file[Stages[n]] : Justified(Stages[n], r)) =>
                \A r \in file'[Stages[n]] : Justified(Stages[n], r)'
        BY <2>1, <3>1, <4>1, EarlierStays
      <4>5. QED
        BY <4>2, <4>3, <4>4
    <3>2. CASE n = k /\ at' = k + 1
      BY <3>2
    <3>3. n < k \/ (n = k /\ at' = k + 1)
      BY ThisOrEarlier
    <3>4. QED
      BY <3>1, <3>2, <3>3
  <2>3. asking' => at' <= Len(Stages) /\ Stages[at'] \in Checkpointed
                   /\ Current(Stages[k])' = file'[Stages[at']]
    BY StageNames
  <2>4. asking' => Current(Stages[k])' = Current(Stage)'
    BY DEF Stage, Current
  <2>5. QED
    BY <2>1, <2>2, <2>3, <2>4 DEF PassOK, Stage
<1>5. KeptOK'
  <2>1. /\ at = k /\ UNCHANGED <<source, edited>>
        /\ \A m \in 1..9 : m # k => file'[Stages[m]] = file[Stages[m]]
    BY DEF Touches
  <2>2. \A i \in Image \ edited :
               \/ SameRows(i, Stages[k])
               \/ /\ \A m \in (k + 1)..9 : Of(i, file[Stages[m]]) = {}
                  /\ \A r \in Of(i, file'[Stages[k]]) : Justified(Stages[k], r)'
    BY DEF Of
  <2>3. at' = k + 1 => \A i \in Image \ edited : Settled(Stages[k], i)'
    OBVIOUS
  <2>4. QED
    BY <2>1, <2>2, <2>3, KeptStep
<1>6. QED
  BY <1>1, <1>2, <1>3, <1>4, <1>5

LEMMA FileOK ==
    ASSUME StagesIInv, NEW s \in Name
    PROVE  /\ \A r \in file[s] :
               /\ DOMAIN r = {"key", "from", "result"} /\ Head(r.key) \in Image
               /\ \A q \in file[s] : r.key = q.key => r = q
               /\ s \in Checkpointed => Derived(s, r)
               /\ s = "entities" => r.key = <<Head(r.key)>>
               /\ s = "aggregate" => r.key = <<Head(r.key), r.result.target>>
BY DEF StagesIInv, TypeOK, RowsDerived, KeysOK

(* A row of an unedited image is what would be made now.                   *)
LEMMA UneditedJustified ==
    ASSUME StagesIInv, NEW s \in Name, NEW r \in file[s], Head(r.key) \notin edited
    PROVE  Justified(s, r)
BY FileOK DEF StagesIInv, KeptOK, Of

LEMMA LaterSettled ==
    ASSUME StagesIInv, NEW k \in 1..9, NEW i \in Image \ edited,
           \E m \in (k + 1)..9 : Of(i, file[Stages[m]]) # {}
    PROVE  Settled(Stages[k], i)
BY StageNames DEF StagesIInv, KeptOK

LEMMA JustifiedIsCurrent ==
    ASSUME NEW s \in Checkpointed, NEW r
    PROVE  /\ Justified(s, r) <=> r \in Current(s)
           /\ Justified(s, r)' <=> r \in Current(s)'
BY StageNames DEF Justified

LEMMA SettledIsAnswered ==
    ASSUME NEW s \in Checkpointed, NEW i
    PROVE  /\ Settled(s, i) <=> \A in \in Missing(s) : Head(in.key) # i
           /\ Settled(s, i)' <=> \A in \in Missing(s)' : Head(in.key) # i
BY StageNames DEF Settled

LEMMA BeginStageHolds == ASSUME StagesIInv, BeginStage PROVE StagesIInv'
<1>1. PICK k \in 1..9 : at = k
  BY StageNames DEF BeginStage, StagesIInv, TypeOK
<1> DEFINE s == Stages[k]
<1>2. s \in Checkpointed /\ s \in Name
  BY <1>1 DEF BeginStage, Stage, Checkpointed
<1>3. Touches(k) /\ file'[s] = Current(s)
  BY <1>1, ExceptTouches DEF BeginStage, Stage, StagesIInv
<1> HIDE DEF s
<1>4. Current(s) \subseteq file[s]
  BY DEF Current
<1>5. Current(s)' = file'[s]
  <2>1. \A in : /\ in \in Inputs(s)' <=> in \in Inputs(s)
                /\ Signature(s, in)' = Signature(s, in)
    BY <1>2, <1>3, PresentStays DEF s, Touches
  <2>2. QED
    BY <1>3, <2>1 DEF Current
<1>6. \A r \in file'[s] :
          /\ DOMAIN r = {"key", "from", "result"} /\ Head(r.key) \in Image
          /\ \A q \in file'[s] : r.key = q.key => r = q
          /\ s \in Checkpointed => Derived(s, r)
          /\ s = "entities" => r.key = <<Head(r.key)>>
          /\ s = "aggregate" => r.key = <<Head(r.key), r.result.target>>
          /\ Justified(s, r)'
  BY <1>2, <1>3, <1>4, <1>5, FileOK, JustifiedIsCurrent
<1>7. \A i \in Image \ edited : SameRows(i, s)
  BY <1>2, <1>3, <1>4, UneditedJustified, JustifiedIsCurrent DEF SameRows, Of
<1>8. /\ at' \in {k, k + 1} /\ at' # k + 1 /\ at' = k
      /\ asking' \in BOOLEAN /\ edits' = edits /\ faults' = faults
  BY <1>1 DEF BeginStage
<1>9. QED
  BY <1>2, <1>3, <1>5, <1>6, <1>7, <1>8, TouchHolds DEF s

LEMMA AskHolds == ASSUME StagesIInv, Ask PROVE StagesIInv'
<1>1. PICK k \in 1..9 : at = k
  BY StageNames DEF Ask, StagesIInv, PassOK, TypeOK
<1> DEFINE s == Stages[k]
<1>2. s \in Checkpointed /\ s \in Name /\ Current(s) = file[s]
  BY <1>1 DEF Ask, Stage, Checkpointed, StagesIInv, PassOK
<1>30. PICK in \in Missing(s) : \E result \in Results(s, in) :
           file' = [file EXCEPT ![s] = @ \cup {[key |-> in.key, from |-> Signature(s, in),
                                                result |-> result]}]
  BY <1>1 DEF Ask, Stage
<1>3. PICK result \in Results(s, in) :
          file' = [file EXCEPT ![s] = @ \cup {[key |-> in.key, from |-> Signature(s, in),
                                               result |-> result]}]
  BY <1>30
<1> DEFINE row == [key |-> in.key, from |-> Signature(s, in), result |-> result]
<1>4. Touches(k) /\ file'[s] = file[s] \cup {row}
  <2>1. file' = [file EXCEPT ![s] = file[s] \cup {row}]
    BY <1>2, <1>3
  <2>2. UNCHANGED <<source, dirty, edited>>
    BY DEF Ask
  <2>3. QED
    BY <1>1, <2>1, <2>2, ExceptTouches DEF StagesIInv
<1>5. /\ Derived(s, row) /\ row.key = in.key /\ row.from = Signature(s, in)
      /\ DOMAIN row = {"key", "from", "result"}
  BY <1>2, AnswerIsDerived
<1> HIDE DEF s, row
<1>6. in \in Inputs(s) /\ \A r \in file[s] : r.key # in.key
  BY DEF Missing
<1>7. Head(in.key) \in Image
  BY <1>2, <1>6, InputsHaveImages DEF StagesIInv
<1>8. Current(s)' = file'[s]
  <2>1. \A j : /\ j \in Inputs(s)' <=> j \in Inputs(s)
               /\ Signature(s, j)' = Signature(s, j)
    BY <1>2, <1>4, PresentStays DEF s, Touches
  <2>2. \A r \in file'[s] : \E j \in Inputs(s) : j.key = r.key /\ Signature(s, j) = r.from
    BY <1>2, <1>4, <1>5, <1>6 DEF Current
  <2>3. QED
    BY <2>1, <2>2 DEF Current
<1>9. s # "aggregate" /\ (s = "entities" => in.key = <<Head(in.key)>>)
  <2>1. ASSUME s = "entities" PROVE in.key = <<Head(in.key)>>
    <3>1. PICK i \in Image : in = Input(<<i>>, "image")
      BY <1>6, <2>1, InputsAre
    <3>2. QED
      BY <3>1 DEF Input
  <2>2. QED
    BY <1>2, <2>1, StageNames
<1>10. \A r \in file'[s] :
          /\ DOMAIN r = {"key", "from", "result"} /\ Head(r.key) \in Image
          /\ \A q \in file'[s] : r.key = q.key => r = q
          /\ s \in Checkpointed => Derived(s, r)
          /\ s = "entities" => r.key = <<Head(r.key)>>
          /\ s = "aggregate" => r.key = <<Head(r.key), r.result.target>>
          /\ Justified(s, r)'
  <2>1. \A r \in file'[s] : Justified(s, r)'
    BY <1>2, <1>8, JustifiedIsCurrent
  <2>2. \A r, q \in file'[s] : r.key = q.key => r = q
    BY <1>2, <1>4, <1>5, <1>6, FileOK
  <2>3. QED
    BY <1>2, <1>4, <1>5, <1>7, <1>9, <2>1, <2>2, FileOK
<1>11. ASSUME NEW i \in Image \ edited, \E m \in (k + 1)..9 : Of(i, file[Stages[m]]) # {}
       PROVE  SameRows(i, s)
  <2>1. Head(in.key) # i
    BY <1>2, <1>11, LaterSettled, SettledIsAnswered DEF s
  <2>2. QED
    BY <1>4, <1>5, <2>1 DEF SameRows, Of
<1>12. /\ at' \in {k, k + 1} /\ at' # k + 1 /\ at' = k
       /\ asking' \in BOOLEAN /\ edits' = edits /\ faults' = faults
  BY <1>1 DEF Ask, StagesIInv, TypeOK
<1>13. QED
  BY <1>2, <1>4, <1>8, <1>10, <1>11, <1>12, TouchHolds DEF s

LEMMA EndStageHolds == ASSUME StagesIInv, EndStage PROVE StagesIInv'
<1>1. PICK k \in 1..9 : at = k
  BY StageNames DEF EndStage, StagesIInv, PassOK, TypeOK
<1> DEFINE s == Stages[k]
<1>2. s \in Checkpointed /\ s \in Name /\ Current(s) = file[s] /\ Missing(s) = {}
  BY <1>1 DEF EndStage, Stage, Checkpointed, StagesIInv, PassOK
<1>3. Touches(k) /\ file'[s] = file[s]
  BY <1>1 DEF Touches, EndStage, StagesIInv, TypeOK
<1> HIDE DEF s
<1>4. Missing(s)' = {} /\ Current(s)' = file'[s]
  <2>1. \A j : /\ j \in Inputs(s)' <=> j \in Inputs(s)
               /\ Signature(s, j)' = Signature(s, j)
    BY <1>2, <1>3, PresentStays DEF s, Touches
  <2>2. QED
    BY <1>2, <1>3, <2>1 DEF Current, Missing
<1>5. \A r \in file'[s] :
          /\ DOMAIN r = {"key", "from", "result"} /\ Head(r.key) \in Image
          /\ \A q \in file'[s] : r.key = q.key => r = q
          /\ s \in Checkpointed => Derived(s, r)
          /\ s = "entities" => r.key = <<Head(r.key)>>
          /\ s = "aggregate" => r.key = <<Head(r.key), r.result.target>>
          /\ Justified(s, r)'
  BY <1>2, <1>3, <1>4, FileOK, JustifiedIsCurrent
<1>6. \A i \in Image : SameRows(i, s) /\ Settled(s, i)'
  BY <1>2, <1>3, <1>4, SettledIsAnswered DEF SameRows
<1>7. at' = k + 1 /\ ~asking' /\ asking' \in BOOLEAN /\ edits' = edits /\ faults' = faults
  BY <1>1 DEF EndStage
<1>8. QED
  BY <1>2, <1>3, <1>4, <1>5, <1>6, <1>7, TouchHolds DEF s

LEMMA BoxIs ==
    ASSUME NEW i, NEW t, NEW found
    PROVE  /\ Box(i, t, found).key = <<i, t>> /\ Box(i, t, found).result.target = t
           /\ Box(i, t, found).result.found = found
           /\ (Box(i, t, found).result.size_pass <=> t \in SizePass[source[i]])
           /\ DOMAIN Box(i, t, found) = {"key", "from", "result"}
BY DEF Box

LEMMA BoxesAre ==
    ASSUME NEW r, NEW b \in BoxesOf(r)
    PROVE  \E t : /\ b.key = <<Head(r.key), t>> /\ b.result.target = t
                 /\ DOMAIN b = {"key", "from", "result"}
                 /\ \/ t \in r.result.entities /\ b = Box(Head(r.key), t, FALSE)
                    \/ t \in Found[source[Head(r.key)]] /\ b = Box(Head(r.key), t, TRUE)
<1>1. CASE \E t \in r.result.entities : b = Box(Head(r.key), t, FALSE)
  <2>1. PICK t \in r.result.entities : b = Box(Head(r.key), t, FALSE)
    BY <1>1
  <2>2. b.key = <<Head(r.key), t>> /\ b.result.target = t /\ DOMAIN b = {"key", "from", "result"}
    BY <2>1 DEF Box
  <2>3. QED
    BY <2>1, <2>2
<1>2. CASE \E t \in Found[source[Head(r.key)]] : b = Box(Head(r.key), t, TRUE)
  <2>1. PICK t \in Found[source[Head(r.key)]] : b = Box(Head(r.key), t, TRUE)
    BY <1>2
  <2>2. b.key = <<Head(r.key), t>> /\ b.result.target = t /\ DOMAIN b = {"key", "from", "result"}
    BY <2>1 DEF Box
  <2>3. QED
    BY <2>1, <2>2
<1>3. QED
  BY <1>1, <1>2 DEF BoxesOf

LEMMA BoxesAreDistinct ==
    ASSUME StagesIInv, NEW r \in Records("entities"), NEW q \in Records("entities"),
           NEW b \in BoxesOf(r), NEW c \in BoxesOf(q), b.key = c.key
    PROVE  b = c
<1>1. Head(b.key) = Head(r.key) /\ Head(c.key) = Head(q.key)
  BY BoxesLocal
<1>2. /\ r \in file["entities"] /\ q \in file["entities"] /\ "entities" \in Name
      /\ "entities" \in Checkpointed /\ r.result # Invalid
  BY StageNames DEF Records
<1>3. r = q
  BY <1>1, <1>2, FileOK
<1> DEFINE i == Head(r.key)
<1>4. r.result.entities \subseteq Entity /\ Found[source[i]] \cap Entity = {}
  <2>1. i \in Image /\ Derived("entities", r)
    BY <1>2, FileOK
  <2>2. source[i] \in Source
    BY <2>1 DEF StagesIInv, TypeOK
  <2>3. QED
    BY <1>2, <2>1, <2>2, SourcesAssumption DEF Derived
<1>5. PICK t : b.key = <<i, t>> /\ \/ t \in r.result.entities /\ b = Box(i, t, FALSE)
                                   \/ t \in Found[source[i]] /\ b = Box(i, t, TRUE)
  BY BoxesAre
<1>6. PICK u : c.key = <<i, u>> /\ \/ u \in r.result.entities /\ c = Box(i, u, FALSE)
                                   \/ u \in Found[source[i]] /\ c = Box(i, u, TRUE)
  BY <1>3, BoxesAre
<1> HIDE DEF i
<1>7. t = u
  <2>1. b.key = <<i, t>> /\ c.key = <<i, u>>
    BY <1>5, <1>6
  <2>2. <<i, t>> = <<i, u>>
    BY <2>1
  <2>3. QED
    BY <2>2
<1>8. QED
  BY <1>4, <1>5, <1>6, <1>7

LEMMA AggregateHolds == ASSUME StagesIInv, GroundStage, Stage = "aggregate" PROVE StagesIInv'
<1>0. at = 2 /\ Stages[2] = "aggregate" /\ "aggregate" \in Name /\ "aggregate" \notin Checkpointed
      /\ "entities" \in Name /\ "entities" \in Checkpointed /\ "entities" # "aggregate"
  <2>1. at \in 1..9
    BY StageNames DEF GroundStage, StagesIInv, TypeOK
  <2>2. QED
    BY <2>1, StageNames, Numbered DEF Stage
<1>1. Aggregate /\ at' = at + 1 /\ asking' = asking
  BY StageNames DEF GroundStage, Reground
<1> DEFINE X == UNION {BoxesOf(r) : r \in Records("entities")}
<1>2. Touches(2) /\ file'["aggregate"] = X
  <2>1. file' = [file EXCEPT !["aggregate"] = X] /\ UNCHANGED <<source, dirty, edited>>
    BY <1>1 DEF Aggregate
  <2> HIDE DEF X
  <2>2. 2 \in 1..9 /\ file' = [file EXCEPT ![Stages[2]] = X] /\ TypeOK
    BY <1>0, <2>1 DEF StagesIInv
  <2>3. Touches(2) /\ file'[Stages[2]] = X
    BY <1>0, <2>1, <2>2, ExceptTouches
  <2>4. QED
    BY <1>0, <2>3
<1>3. \A b : b \in X <=> \E r \in Records("entities") : b \in BoxesOf(r)
  OBVIOUS
<1> HIDE DEF X
<1>4. Records("entities")' = Records("entities") /\ \A r : BoxesOf(r)' = BoxesOf(r)
  <2>1. file'["entities"] = file["entities"] /\ source' = source
    BY <1>0, <1>2, OthersStay DEF Touches
  <2>2. QED
    BY <2>1, BoxesLocal DEF Records
<1>5. \A b \in X : Justified("aggregate", b)'
  BY <1>3, <1>4, StageNames DEF Justified
<1>6. \A b \in X : /\ DOMAIN b = {"key", "from", "result"} /\ Head(b.key) \in Image
                   /\ b.key = <<Head(b.key), b.result.target>>
  <2> SUFFICES ASSUME NEW b \in X
               PROVE  /\ DOMAIN b = {"key", "from", "result"} /\ Head(b.key) \in Image
                      /\ b.key = <<Head(b.key), b.result.target>>
    OBVIOUS
  <2>1. PICK r \in Records("entities") : b \in BoxesOf(r)
    BY <1>3
  <2>3. PICK t : b.key = <<Head(r.key), t>> /\ b.result.target = t
                 /\ DOMAIN b = {"key", "from", "result"}
    BY <2>1, BoxesAre
  <2>4. Head(r.key) \in Image
    BY <1>0, <2>1, FileOK DEF Records
  <2>5. QED
    BY <2>3, <2>4
<1>7. \A b, c \in X : b.key = c.key => b = c
  BY <1>3, BoxesAreDistinct
<1>8. ASSUME NEW i \in Image \ edited, \E m \in 3..9 : Of(i, file[Stages[m]]) # {}
      PROVE  SameRows(i, "aggregate")
  <2>1. Settled("aggregate", i)
    BY <1>0, <1>8, LaterSettled
  <2>2. \A q \in Of(i, Records("entities")) : BoxesOf(q) \subseteq file["aggregate"]
    BY <2>1, StageNames DEF Settled
  <2>3. ASSUME NEW b \in X, Head(b.key) = i PROVE b \in file["aggregate"]
    <3>1. PICK q \in Records("entities") : b \in BoxesOf(q)
      BY <1>3, <2>3
    <3>2. QED
      BY <2>2, <2>3, <3>1, BoxesLocal DEF Of
  <2>4. ASSUME NEW b \in file["aggregate"], Head(b.key) = i PROVE b \in X
    <3>1. Justified("aggregate", b)
      BY <1>0, <2>4, UneditedJustified
    <3>2. QED
      BY <1>3, <3>1, StageNames DEF Justified
  <2>5. QED
    BY <1>2, <2>3, <2>4 DEF SameRows, Of
<1>9. \A i \in Image : Settled("aggregate", i)'
  <2>1. \A i \in Image : \A q \in Of(i, Records("entities"))' : BoxesOf(q)' \subseteq file'["aggregate"]
    BY <1>2, <1>3, <1>4 DEF Of
  <2>2. QED
    BY <2>1, StageNames DEF Settled
<1>10. ~asking' /\ asking' \in BOOLEAN
  BY <1>0, <1>1 DEF StagesIInv, PassOK, TypeOK
<1>11. at' = 3 /\ at' \in {2, 2 + 1} /\ edits' = edits /\ faults' = faults
  BY <1>0, <1>1 DEF Aggregate
<1>12. \A r \in file'["aggregate"] :
          /\ DOMAIN r = {"key", "from", "result"} /\ Head(r.key) \in Image
          /\ \A q \in file'["aggregate"] : r.key = q.key => r = q
          /\ r.key = <<Head(r.key), r.result.target>>
          /\ Justified("aggregate", r)'
  BY <1>2, <1>5, <1>6, <1>7
<1>13. 2 + 1 = 3 /\ 2 \in 1..9
  OBVIOUS
<1>14. QED
  BY <1>0, <1>2, <1>8, <1>9, <1>10, <1>11, <1>12, <1>13, TouchHolds

LEMMA RegroundHolds == ASSUME StagesIInv, GroundStage, Stage = "reground" PROVE StagesIInv'
<1>0. at = 8 /\ Stages[8] = "reground" /\ "reground" \in Name /\ "reground" \notin Checkpointed
      /\ "describe" \in Name
  <2>1. at \in 1..9
    BY StageNames DEF GroundStage, StagesIInv, TypeOK
  <2>2. QED
    BY <2>1, StageNames, Numbered DEF Stage
<1>1. Reground /\ at' = at + 1 /\ asking' = asking
  BY StageNames DEF GroundStage, Aggregate
<1>2. PICK X : /\ file' = [file EXCEPT !["reground"] = X]
               /\ \A r \in X, old \in file["reground"] :
                      r.key = old.key /\ r.from = old.from => r = old
               /\ \E passes \in SUBSET Records("describe") :
                     X = {[key |-> d.key, from |-> d.result,
                           result |-> [accepted |-> d \in passes]] : d \in Records("describe")}
  BY <1>1 DEF Reground
<1>3. Touches(8) /\ file'["reground"] = X
  <2>1. file' = [file EXCEPT ![Stages[8]] = X]
    BY <1>0, <1>2
  <2>2. UNCHANGED <<source, dirty, edited>>
    BY <1>1 DEF Reground
  <2>3. TypeOK /\ 8 \in 1..9 /\ at = 8
    BY <1>0 DEF StagesIInv
  <2>4. Touches(8) /\ file'[Stages[8]] = X
    BY ONLY <2>1, <2>2, <2>3, ExceptTouches
  <2>5. QED
    BY <1>0, <2>4
<1>4. /\ \A r \in X : \E d \in Records("describe") :
             r.key = d.key /\ r.from = d.result /\ DOMAIN r = {"key", "from", "result"}
      /\ \A d \in Records("describe") : \E r \in X : r.key = d.key /\ r.from = d.result
  <2>1. PICK passes \in SUBSET Records("describe") :
            X = {[key |-> d.key, from |-> d.result,
                  result |-> [accepted |-> d \in passes]] : d \in Records("describe")}
    BY <1>2
  <2>2. ASSUME NEW r \in X
        PROVE  \E d \in Records("describe") :
                   r.key = d.key /\ r.from = d.result /\ DOMAIN r = {"key", "from", "result"}
    <3>1. PICK d \in Records("describe") :
              r = [key |-> d.key, from |-> d.result, result |-> [accepted |-> d \in passes]]
      BY <2>1, <2>2
    <3>2. QED
      BY <3>1
  <2>3. ASSUME NEW d \in Records("describe")
        PROVE  \E r \in X : r.key = d.key /\ r.from = d.result
    <3>1. [key |-> d.key, from |-> d.result, result |-> [accepted |-> d \in passes]] \in X
      BY <2>1
    <3>2. QED
      BY <3>1
  <2>4. QED
    BY <2>2, <2>3
<1>5. \A r, q \in X : r.key = q.key => r = q
  <2>1. \A d, e \in Records("describe") : d.key = e.key => d = e
    BY <1>0, FileOK DEF Records
  <2>2. PICK passes \in SUBSET Records("describe") :
            X = {[key |-> d.key, from |-> d.result,
                  result |-> [accepted |-> d \in passes]] : d \in Records("describe")}
    BY <1>2
  <2>3. QED
    BY <2>1, <2>2
<1>6. Records("describe")' = Records("describe")
  BY <1>0, <1>3, OthersStay DEF Records
<1>7. \A r \in X : Justified("reground", r)'
  BY <1>4, <1>6, StageNames DEF Justified, Regrounded
<1>8. \A r \in X : Head(r.key) \in Image
  BY <1>0, <1>4, FileOK DEF Records
<1>9. ASSUME NEW i \in Image \ edited, \E m \in 9..9 : Of(i, file[Stages[m]]) # {}
      PROVE  SameRows(i, "reground")
  <2>1. Settled("reground", i)
    BY <1>0, <1>9, LaterSettled
  <2>2. \A d \in Of(i, Records("describe")) : \E r \in file["reground"] : r.key = d.key
    BY <2>1, StageNames DEF Settled
  <2>3. \A r \in file["reground"] : Head(r.key) = i =>
            \E d \in Records("describe") : d.key = r.key /\ d.result = r.from
    <3>1. \A r \in file["reground"] : Head(r.key) = i => Justified("reground", r)
      BY <1>0, UneditedJustified
    <3>2. QED
      BY <3>1, StageNames DEF Justified, Regrounded
  <2>4. ASSUME NEW r \in file["reground"], Head(r.key) = i PROVE r \in X
    BY <1>2, <1>4, <2>3, <2>4
  <2>5. ASSUME NEW r \in X, Head(r.key) = i PROVE r \in file["reground"]
    <3>1. PICK d \in Records("describe") : r.key = d.key /\ r.from = d.result
      BY <1>4, <2>5
    <3>2. PICK old \in file["reground"] : old.key = d.key
      BY <2>2, <2>5, <3>1 DEF Of
    <3>3. PICK e \in Records("describe") : e.key = old.key /\ e.result = old.from
      BY <2>3, <2>5, <3>1, <3>2
    <3>4. e = d
      BY <1>0, <3>1, <3>2, <3>3, FileOK DEF Records
    <3>5. QED
      BY <1>2, <2>5, <3>1, <3>2, <3>3, <3>4
  <2>6. QED
    BY <1>3, <2>4, <2>5 DEF SameRows, Of
<1>10. \A i \in Image : Settled("reground", i)'
  <2>1. \A i \in Image : \A d \in Of(i, Records("describe"))' : \E r \in file'["reground"] : r.key = d.key
    BY <1>3, <1>4, <1>6 DEF Of
  <2>2. QED
    BY <2>1, StageNames DEF Settled
<1>11. ~asking' /\ asking' \in BOOLEAN
  BY <1>0, <1>1 DEF StagesIInv, PassOK, TypeOK
<1>12. at' = 9 /\ at' \in {8, 8 + 1} /\ edits' = edits /\ faults' = faults
  BY <1>0, <1>1 DEF Reground
<1>13. \A r \in file'["reground"] :
          /\ DOMAIN r = {"key", "from", "result"} /\ Head(r.key) \in Image
          /\ \A q \in file'["reground"] : r.key = q.key => r = q
          /\ Justified("reground", r)'
  BY <1>3, <1>4, <1>5, <1>7, <1>8
<1>14. 8 + 1 = 9 /\ 8 \in 1..9 /\ "reground" # "entities" /\ "reground" # "aggregate"
  OBVIOUS
<1>15. QED
  BY <1>0, <1>3, <1>9, <1>10, <1>11, <1>12, <1>13, <1>14, TouchHolds

LEMMA SameFileHolds ==
    ASSUME StagesIInv, file' = file, edited \subseteq edited'
    PROVE  RowsDerived' /\ KeysOK'
BY DEF StagesIInv, RowsDerived, KeysOK, Derived

LEMMA EditHolds ==
    ASSUME StagesIInv, NEW i \in Image, NEW version \in Source, Edit(i, version) PROVE StagesIInv'
<1>1. /\ file' = file /\ at' = at /\ asking' = asking /\ ~asking /\ faults' = faults
      /\ source' = [source EXCEPT ![i] = version] /\ edited' = edited \cup {i}
      /\ edits < MaxEdits /\ edits' = edits + 1
  BY DEF Edit
<1>2. dirty' /\ dirty' \in BOOLEAN
  BY DEF Edit
<1>3. TypeOK'
  <2>1. source' \in [Image -> Source] /\ edits' \in 0..MaxEdits
    BY <1>1, SourcesAssumption DEF StagesIInv, TypeOK
  <2>2. /\ DOMAIN file' = Name
        /\ \A s \in Name : \A r \in file'[s] :
               DOMAIN r = {"key", "from", "result"} /\ Head(r.key) \in Image
        /\ \A s \in Name : \A r, q \in file'[s] : r.key = q.key => r = q
    BY <1>1 DEF StagesIInv, TypeOK
  <2>3. at' \in 1..(Len(Stages) + 1) /\ faults' \in 0..MaxFaults
    BY <1>1 DEF StagesIInv, TypeOK
  <2>4. asking' \in BOOLEAN /\ edited' \subseteq Image
    BY <1>1 DEF StagesIInv, TypeOK
  <2>5. QED
    BY <1>2, <2>1, <2>2, <2>3, <2>4 DEF TypeOK
<1>4. RowsDerived' /\ KeysOK'
  BY <1>1, SameFileHolds
<1>5. PassOK'
  <2>1. ASSUME NEW n \in 1..(at' - 1), Stages[n] \in Checkpointed, NEW in \in Missing(Stages[n])'
        PROVE  FALSE
    <3>1. n \in 1..9 /\ n \in 1..(at - 1)
      BY <1>1, StageNames DEF StagesIInv, TypeOK
    <3>2. \A m \in 1..n : SameRows(Head(in.key), Stages[m])
      BY <1>1 DEF SameRows
    <3>3. in \in Missing(Stages[n])
      BY <2>1, <3>1, <3>2, MissingLocal
    <3>4. Missing(Stages[n]) = {}
      BY <2>1, <3>1 DEF StagesIInv, PassOK
    <3>5. QED
      BY <3>3, <3>4
  <2>2. \A n \in 1..(at' - 1) : Stages[n] \in Checkpointed => Missing(Stages[n])' = {}
    BY <2>1
  <2>3. ~asking'
    BY <1>1
  <2>4. QED
    BY <1>2, <2>2, <2>3 DEF PassOK
<1>6. KeptOK'
  <2>1. KeptOK /\ TypeOK /\ at' \in 1..at /\ edited \subseteq edited'
    BY <1>1, StageNames DEF StagesIInv, TypeOK
  <2>2. \A j \in Image \ edited' : source'[j] = source[j]
    BY <1>1 DEF StagesIInv, TypeOK
  <2>3. QED
    BY <1>1, <2>1, <2>2, KeptSame
<1>7. QED
  BY <1>3, <1>4, <1>5, <1>6 DEF StagesIInv

LEMMA RestartHolds == ASSUME StagesIInv, Abort \/ NewPass PROVE StagesIInv'
<1>1. /\ at' = 1 /\ ~asking' /\ asking' \in BOOLEAN /\ ~dirty' /\ dirty' \in BOOLEAN
      /\ source' = source /\ file' = file /\ edited' = edited /\ edits' = edits
  BY DEF Abort, NewPass, Restart
<1>2. faults' \in 0..MaxFaults
  BY SourcesAssumption DEF Abort, NewPass, StagesIInv, TypeOK
<1>3. TypeOK'
  BY <1>1, <1>2, StageNames DEF StagesIInv, TypeOK
<1>4. RowsDerived' /\ KeysOK'
  BY <1>1, SameFileHolds
<1>5. PassOK'
  BY <1>1 DEF PassOK
<1>6. KeptOK'
  <2>1. KeptOK /\ TypeOK /\ at' \in 1..at
    BY <1>1, StageNames DEF StagesIInv, TypeOK
  <2>2. QED
    BY <1>1, <2>1, KeptSame
<1>7. QED
  BY <1>3, <1>4, <1>5, <1>6 DEF StagesIInv

LEMMA StutterHolds == ASSUME StagesIInv, UNCHANGED vars PROVE StagesIInv'
<1>1. /\ source' = source /\ file' = file /\ at' = at /\ edited' = edited /\ edits' = edits
      /\ faults' = faults
  BY DEF vars
<1>2. asking' = asking /\ dirty' = dirty
  BY DEF vars
<1>3. TypeOK'
  BY <1>1, <1>2 DEF StagesIInv, TypeOK
<1>4. RowsDerived' /\ KeysOK'
  BY <1>1, SameFileHolds
<1>5. PassOK'
  <2>1. /\ \A n \in 1..9 : Stages[n] \in Checkpointed /\ Missing(Stages[n]) = {} =>
              Missing(Stages[n])' = {}
        /\ \A n \in 1..9 : (\A r \in file[Stages[n]] : Justified(Stages[n], r)) =>
              \A r \in file'[Stages[n]] : Justified(Stages[n], r)'
    BY <1>1, EarlierStays
  <2>2. 1..(at - 1) \subseteq 1..9
    BY StageNames DEF StagesIInv, TypeOK
  <2>3. \A n \in 1..(at' - 1) : Stages[n] \in Checkpointed => Missing(Stages[n])' = {}
    BY <1>1, <2>1, <2>2 DEF StagesIInv, PassOK
  <2>4. ~dirty' => \A n \in 1..(at' - 1) : Stages[n] # "reground" =>
            \A r \in file'[Stages[n]] : Justified(Stages[n], r)'
    BY <1>1, <1>2, <2>1, <2>2 DEF StagesIInv, PassOK
  <2>5. ASSUME asking
        PROVE  at' <= Len(Stages) /\ Stage' \in Checkpointed /\ Current(Stage)' = file'[Stage']
    <3>1. at <= Len(Stages) /\ Stage \in Checkpointed /\ Current(Stage) = file[Stage]
      BY <2>5 DEF StagesIInv, PassOK
    <3>2. at \in 1..9
      BY <3>1, StageNames DEF StagesIInv, TypeOK
    <3>3. \A in : /\ in \in Inputs(Stages[at])' <=> in \in Inputs(Stages[at])
                  /\ Signature(Stages[at], in)' = Signature(Stages[at], in)
      <4>1. PICK k \in 1..9 : at = k
        BY <3>2
      <4>2. \A in : /\ in \in Inputs(Stages[k])' <=> in \in Inputs(Stages[k])
                    /\ Signature(Stages[k], in)' = Signature(Stages[k], in)
        BY <1>1, <3>1, <4>1, PresentStays DEF Stage
      <4>3. at' = k
        BY <1>1, <4>1
      <4>4. QED
        BY <4>1, <4>2, <4>3 DEF Inputs, Signature
    <3>4. QED
      BY <1>1, <3>1, <3>3 DEF Current, Stage
  <2>6. asking' <=> asking
    BY <1>2
  <2>7. QED
    BY <2>3, <2>4, <2>5, <2>6 DEF PassOK
<1>6. KeptOK'
  <2>1. KeptOK /\ TypeOK /\ at' \in 1..at
    BY <1>1, StageNames DEF StagesIInv, TypeOK
  <2>2. QED
    BY <1>1, <2>1, KeptSame
<1>7. QED
  BY <1>3, <1>4, <1>5, <1>6 DEF StagesIInv

LEMMA StagesStepHolds == StagesIInv /\ [Next]_vars => StagesIInv'
<1> SUFFICES ASSUME StagesIInv, [Next]_vars PROVE StagesIInv'
  OBVIOUS
<1>1. CASE BeginStage
  BY <1>1, BeginStageHolds
<1>2. CASE Ask
  BY <1>2, AskHolds
<1>3. CASE EndStage
  BY <1>3, EndStageHolds
<1>4. CASE GroundStage
  <2>1. Stage = "aggregate" \/ Stage = "reground"
    BY <1>4 DEF GroundStage, Aggregate, Reground
  <2>2. QED
    BY <1>4, <2>1, AggregateHolds, RegroundHolds
<1>5. CASE Abort \/ NewPass
  BY <1>5, RestartHolds
<1>6. CASE \E i \in Image, version \in Source : Edit(i, version)
  BY <1>6, EditHolds
<1>7. CASE UNCHANGED vars
  BY <1>7, StutterHolds
<1>8. QED
  BY <1>1, <1>2, <1>3, <1>4, <1>5, <1>6, <1>7 DEF Next, Work

LEMMA StagesInvariant == Spec => []StagesIInv
<1>1. QED
  BY StagesInitHolds, StagesStepHolds, PTL DEF Spec

(* What is true of an accepted expression when a pass has ended.           *)
-----------------------------------------------------------------------------
LEMMA DoneIsCurrent ==
    ASSUME StagesIInv, PassDone, NEW s \in Checkpointed
    PROVE  Missing(s) = {} /\ Current(s) = file[s]
<1>1. PICK n \in 1..9 : s = Stages[n]
  BY Numbered DEF Checkpointed
<1>2. n \in 1..(at - 1) /\ ~dirty
  BY StageNames DEF PassDone, StagesIInv, TypeOK
<1>3. Missing(s) = {}
  BY <1>1, <1>2 DEF StagesIInv, PassOK
<1>4. \A r \in file[s] : Justified(s, r)
  BY <1>1, <1>2, StageNames DEF StagesIInv, PassOK
<1>5. QED
  BY <1>3, <1>4, JustifiedIsCurrent DEF Current

LEMMA DoneIsBoxed ==
    ASSUME StagesIInv, PassDone, NEW b \in file["aggregate"]
    PROVE  \E q \in Records("entities") : b \in BoxesOf(q)
<1>1. 2 \in 1..(at - 1) /\ ~dirty
  BY StageNames DEF PassDone, StagesIInv, TypeOK
<1>2. Justified("aggregate", b)
  BY <1>1, StageNames DEF StagesIInv, PassOK
<1>3. QED
  BY <1>2, StageNames DEF Justified

LEMMA DoneIsJustified ==
    ASSUME StagesIInv, PassDone, NEW s \in Checkpointed, NEW r \in file[s]
    PROVE  \E in \in Inputs(s) : /\ in.key = r.key
                                 /\ r.from[1] = in.about /\ r.from[2] = Extras(s, r.key)
<1>1. r \in Current(s)
  BY DoneIsCurrent
<1>2. PICK in \in Inputs(s) : in.key = r.key /\ Signature(s, in) = r.from
  BY <1>1 DEF Current
<1>3. QED
  BY <1>2 DEF Signature

LEMMA InputIs == ASSUME NEW key, NEW about
                 PROVE  Input(key, about).key = key /\ Input(key, about).about = about
BY DEF Input

LEMMA DoneVerification ==
    ASSUME StagesIInv, PassDone, NEW v \in Accepted("expression_verify")
    PROVE  /\ Passes(v.key)
           /\ \E d \in Accepted("describe") : d.key = v.key /\ MadeFrom(v.result, v.key, d.result)
<1>1. /\ v \in file["expression_verify"] /\ v.result # Invalid /\ v.result.accepted
      /\ "expression_verify" \in Checkpointed /\ "expression_verify" \in Name
  BY StageNames DEF Accepted, Records
<1>2. PICK in \in Inputs("expression_verify") :
          in.key = v.key /\ v.from[1] = in.about /\ v.from[2] = Extras("expression_verify", v.key)
  BY <1>1, DoneIsJustified
<1>3. PICK d \in Records("describe") : in = Input(d.key, d.result)
  BY InputsAre
<1>4. Derived("expression_verify", v)
  BY <1>1, FileOK
<1>5. v.result.about = <<v.key, v.from[1]>> /\ v.from[1].accepted
      /\ \E g \in v.from[2][1] : g.result.accepted
  BY <1>1, <1>4 DEF Derived
<1>6. v.from[2][1] = {r \in file["reground"] : r.key = v.key}
  <2>1. v.from[2] = <<{r \in file["reground"] : r.key = v.key}>>
    BY <1>2, ExtrasAre
  <2>2. QED
    BY <2>1
<1>7. Passes(v.key)
  BY <1>5, <1>6 DEF Passes
<1>8. d.key = v.key /\ d.result = v.from[1] /\ d \in Accepted("describe")
  BY <1>2, <1>3, <1>5, InputIs DEF Accepted
<1>9. QED
  BY <1>1, <1>5, <1>7, <1>8 DEF MadeFrom

LEMMA DoneDraft ==
    ASSUME StagesIInv, PassDone, NEW d \in Accepted("describe")
    PROVE  /\ Invalid \notin {t.result : t \in Text(d.key)} /\ Text(d.key) # {}
           /\ \E b \in Accepted("bbox_verify") :
                 /\ b.key = d.key
                 /\ MadeFrom(d.result, <<d.key, b.result>>, {t.result : t \in Text(d.key)})
<1>1. /\ d \in file["describe"] /\ d.result # Invalid /\ d.result.accepted
      /\ "describe" \in Checkpointed /\ "describe" \in Name /\ "ocr" \in Checkpointed
  BY StageNames DEF Accepted, Records
<1>2. PICK in \in Inputs("describe") :
          in.key = d.key /\ d.from[1] = in.about /\ d.from[2] = Extras("describe", d.key)
  BY <1>1, DoneIsJustified
<1>3. PICK b \in Accepted("bbox_verify") : in = Input(b.key, b.result)
  BY InputsAre
<1>4. b.key = d.key /\ d.from[1] = b.result
  BY <1>2, <1>3, InputIs
<1>5. Derived("describe", d)
  BY <1>1, FileOK
<1> DEFINE text == {q[2] : q \in {p \in d.from[2][1] : p[1] = d.key}}
<1>6. d.result.about = <<<<d.key, d.from[1]>>, text>> /\ Invalid \notin text
  BY <1>1, <1>5 DEF Derived
<1>7. text = {t.result : t \in Text(d.key)}
  <2>1. d.from[2] = <<{<<r.key, r.result>> : r \in Of(Head(d.key), file["ocr"])}, source[Head(d.key)]>>
    BY <1>2, ExtrasAre
  <2>2. d.from[2][1] = {<<r.key, r.result>> : r \in Of(Head(d.key), file["ocr"])}
    BY <2>1
  <2>3. QED
    BY <2>2, TextIsOf
<1> HIDE DEF text
<1>8. Text(d.key) # {}
  <2>1. in \in Inputs("ocr") /\ Missing("ocr") = {}
    BY <1>1, <1>3, InputsAre, DoneIsCurrent
  <2>2. QED
    BY <1>2, <2>1 DEF Missing, Text
<1>9. QED
  BY <1>1, <1>4, <1>6, <1>7, <1>8 DEF MadeFrom

LEMMA DoneBox ==
    ASSUME StagesIInv, PassDone, NEW b \in Accepted("bbox_verify")
    PROVE  \E a \in Accepted("align") \cup Accepted("promote") :
               a.key = b.key /\ MadeFrom(b.result, b.key, a.result)
<1>1. /\ b \in file["bbox_verify"] /\ b.result # Invalid /\ b.result.accepted
      /\ "bbox_verify" \in Checkpointed /\ "bbox_verify" \in Name
  BY StageNames DEF Accepted, Records
<1>2. PICK in \in Inputs("bbox_verify") : in.key = b.key /\ b.from[1] = in.about
  BY <1>1, DoneIsJustified
<1>3. PICK a \in Accepted("align") \cup Accepted("promote") : in = Input(a.key, a.result)
  BY InputsAre
<1>4. a.key = b.key /\ b.from[1] = a.result
  BY <1>2, <1>3, InputIs
<1>5. Derived("bbox_verify", b)
  BY <1>1, FileOK
<1>6. b.result.about = <<b.key, b.from[1]>>
  BY <1>1, <1>5 DEF Derived
<1>7. QED
  BY <1>1, <1>4, <1>6 DEF MadeFrom

(* A size-valid box on file is a size-valid target of the image as it is.  *)
LEMMA DoneCandidate ==
    ASSUME StagesIInv, PassDone, NEW c \in file["aggregate"], c.result.size_pass
    PROVE  \E i, t : /\ c.key = <<i, t>> /\ c.result.target = t
                     /\ t \in SizePass[source[i]]
                     /\ c.result.found => t \in Found[source[i]]
<1>1. PICK q \in Records("entities") : c \in BoxesOf(q)
  BY DoneIsBoxed
<1> DEFINE i == Head(q.key)
<1>2. PICK t : /\ c.key = <<i, t>> /\ c.result.target = t
               /\ \/ t \in q.result.entities /\ c = Box(i, t, FALSE)
                  \/ t \in Found[source[i]] /\ c = Box(i, t, TRUE)
  BY <1>1, BoxesAre
<1> HIDE DEF i
<1>3. /\ Box(i, t, FALSE).result.size_pass <=> t \in SizePass[source[i]]
      /\ Box(i, t, TRUE).result.size_pass <=> t \in SizePass[source[i]]
      /\ ~Box(i, t, FALSE).result.found
  BY DEF Box
<1>4. CASE c = Box(i, t, FALSE)
  BY <1>2, <1>3, <1>4
<1>5. CASE t \in Found[source[i]] /\ c = Box(i, t, TRUE)
  BY <1>2, <1>3, <1>5
<1>6. QED
  BY <1>2, <1>4, <1>5

LEMMA DoneAlignment ==
    ASSUME StagesIInv, PassDone, NEW a \in Accepted("align")
    PROVE  /\ a.key[2] \in SizePass[source[a.key[1]]]
           /\ \E r \in Of(a.key[1], Records("entities")) : a.key[2] \in r.result.entities
<1>1. /\ a \in file["align"] /\ a.result # Invalid /\ a.result.accepted
      /\ "align" \in Checkpointed /\ "align" \in Name
  BY StageNames DEF Accepted, Records
<1>2. PICK in \in Inputs("align") : in.key = a.key /\ a.from[2] = Extras("align", a.key)
  BY <1>1, DoneIsJustified
<1>3. \E r \in Records("entities") : \E e \in r.result.entities :
          in = Input(<<Head(r.key), e>>, "entity")
  BY AlignInputs
<1>4. PICK r \in Records("entities") : \E e \in r.result.entities :
          in = Input(<<Head(r.key), e>>, "entity")
  BY <1>3
<1>5. PICK e \in r.result.entities : in = Input(<<Head(r.key), e>>, "entity")
  BY <1>4
<1>6. a.key = <<Head(r.key), e>>
  BY <1>2, <1>5, InputIs
<1>7. Head(a.key) = Head(r.key) /\ a.key[1] = Head(r.key) /\ a.key[2] = e
  BY <1>6
<1>8. a.from[2][1] = Candidates(Head(a.key))
  <2>1. a.from[2] = <<Candidates(Head(a.key)), source[Head(a.key)]>>
    BY <1>2, ExtrasAre
  <2>2. QED
    BY <2>1
<1>9. [target |-> a.key[2], found |-> FALSE, size_pass |-> TRUE] \in Candidates(Head(a.key))
  <2>1. Derived("align", a)
    BY <1>1, FileOK
  <2>2. [target |-> a.key[2], found |-> FALSE, size_pass |-> TRUE] \in a.from[2][1]
    BY <1>1, <2>1 DEF Derived
  <2>3. QED
    BY <1>8, <2>2
<1>10. PICK c \in file["aggregate"] :
           /\ Head(c.key) = Head(a.key)
           /\ c.result = [target |-> a.key[2], found |-> FALSE, size_pass |-> TRUE]
  BY <1>9 DEF Candidates, Of
<1>11. c.result.size_pass /\ c.result.target = a.key[2]
  BY <1>10
<1>12. PICK i, t : c.key = <<i, t>> /\ c.result.target = t /\ t \in SizePass[source[i]]
  BY <1>11, DoneCandidate
<1>13. i = Head(r.key) /\ t = e
  <2>1. Head(c.key) = i
    BY <1>12
  <2>2. QED
    BY <1>7, <1>10, <1>11, <1>12, <2>1
<1>14. QED
  BY <1>4, <1>5, <1>7, <1>12, <1>13 DEF Of

LEMMA DonePromotion ==
    ASSUME StagesIInv, PassDone, NEW a \in Accepted("promote")
    PROVE  a.key[2] \in SizePass[source[a.key[1]]] \cap Found[source[a.key[1]]]
<1>1. /\ a \in file["promote"] /\ "promote" \in Checkpointed
  BY StageNames DEF Accepted, Records
<1>2. PICK in \in Inputs("promote") : in.key = a.key
  BY <1>1, DoneIsJustified
<1>3. PICK c \in Promotable : in = Input(c.key, Candidates(Head(c.key)))
  BY InputsAre
<1>4. a.key = c.key /\ c \in file["aggregate"] /\ c.result.found /\ c.result.size_pass
  BY <1>2, <1>3, InputIs DEF Promotable
<1>5. PICK i, t : c.key = <<i, t>> /\ t \in SizePass[source[i]] /\ t \in Found[source[i]]
  BY <1>4, DoneCandidate
<1>6. a.key[1] = i /\ a.key[2] = t
  BY <1>4, <1>5
<1>7. QED
  BY <1>5, <1>6

LEMMA DoneIsGated ==
    ASSUME StagesIInv PROVE AcceptedPassedAllGates
<1> SUFFICES ASSUME PassDone, NEW v \in Accepted("expression_verify")
             PROVE  /\ Passes(v.key)
                    /\ \E d \in Accepted("describe"), b \in Accepted("bbox_verify"),
                          a \in Accepted("align") \cup Accepted("promote") :
                           /\ MadeFrom(v.result, v.key, d.result)
                           /\ MadeFrom(d.result, <<v.key, b.result>>, {t.result : t \in Text(v.key)})
                           /\ Invalid \notin {t.result : t \in Text(v.key)} /\ Text(v.key) # {}
                           /\ MadeFrom(b.result, v.key, a.result) /\ a.key = v.key
                    /\ \/ v.key[2] \in SizePass[source[v.key[1]]] \cap Found[source[v.key[1]]]
                       \/ /\ v.key[2] \in SizePass[source[v.key[1]]]
                          /\ \E r \in Of(v.key[1], Records("entities")) : v.key[2] \in r.result.entities
  BY DEF AcceptedPassedAllGates
<1>1. PICK d \in Accepted("describe") : d.key = v.key /\ MadeFrom(v.result, v.key, d.result)
  BY DoneVerification
<1>2. PICK b \in Accepted("bbox_verify") :
          b.key = d.key /\ MadeFrom(d.result, <<d.key, b.result>>, {t.result : t \in Text(d.key)})
  BY DoneDraft
<1>3. PICK a \in Accepted("align") \cup Accepted("promote") :
          a.key = b.key /\ MadeFrom(b.result, b.key, a.result)
  BY DoneBox
<1>4. Invalid \notin {t.result : t \in Text(v.key)} /\ Text(v.key) # {}
  BY <1>1, DoneDraft
<1>5. \/ v.key[2] \in SizePass[source[v.key[1]]] \cap Found[source[v.key[1]]]
      \/ /\ v.key[2] \in SizePass[source[v.key[1]]]
         /\ \E r \in Of(v.key[1], Records("entities")) : v.key[2] \in r.result.entities
  BY <1>1, <1>2, <1>3, DoneAlignment, DonePromotion
<1>6. Passes(v.key)
  BY DoneVerification
<1>7. QED
  BY <1>1, <1>2, <1>3, <1>4, <1>5, <1>6

LEMMA TextsArePresent == ASSUME StagesIInv PROVE TextIsThere
<1> SUFFICES ASSUME at <= Len(Stages), Stage = "describe", NEW in \in Inputs("describe")
             PROVE  Text(in.key) # {}
  BY DEF TextIsThere
<1>1. at \in 1..9
  BY StageNames DEF StagesIInv, TypeOK
<1>2. at = 7
  BY <1>1, StageNames, Numbered DEF Stage
<1>3. Missing("ocr") = {}
  <2>1. 6 \in 1..(at - 1) /\ Stages[6] \in Checkpointed /\ Stages[6] = "ocr"
    BY <1>2, StageNames
  <2>2. QED
    BY <2>1 DEF StagesIInv, PassOK
<1>4. in \in Inputs("ocr")
  BY InputsAre
<1>5. QED
  BY <1>3, <1>4 DEF Missing, Text

(***************************************************************************)
(* When a pass in which nothing was edited is done, every stage has the    *)
(* rows that would be made now and no others, and what is accepted passed  *)
(* every gate; and the stage that writes drafts never finds a box without  *)
(* its text, wherever passes were cut off.                                 *)
(***************************************************************************)
THEOREM PassesAreSound == Spec => []PassInv
<1>1. StagesIInv => PassInv
  <2>1. ASSUME StagesIInv PROVE PassIsCurrent
    BY <2>1, DoneIsCurrent DEF PassIsCurrent
  <2>2. QED
    BY <2>1, DoneIsGated, TextsArePresent DEF PassInv, StagesIInv
<1>2. QED
  BY <1>1, StagesInvariant, PTL

-----------------------------------------------------------------------------
\* A step that loses no row of an unedited image.
KeptNow == \A s \in Name : \A r \in file[s] : Head(r.key) \notin edited => r \in file'[s]

LEMMA ExceptKeeps ==
    ASSUME TypeOK, NEW s \in Name, NEW X, file' = [file EXCEPT ![s] = X],
           \A r \in file[s] : Head(r.key) \notin edited => r \in X
    PROVE  KeptNow
BY DEF TypeOK, KeptNow

LEMMA BeginStageKeeps == ASSUME StagesIInv, BeginStage PROVE KeptNow
<1>1. Stage \in Checkpointed /\ Stage \in Name /\ file' = [file EXCEPT ![Stage] = Current(Stage)]
  BY DEF BeginStage, Checkpointed
<1>2. \A r \in file[Stage] : Head(r.key) \notin edited => r \in Current(Stage)
  BY <1>1, UneditedJustified, JustifiedIsCurrent
<1>3. TypeOK
  BY DEF StagesIInv
<1>4. QED
  BY <1>1, <1>2, <1>3, ExceptKeeps

LEMMA GroundingKeeps == ASSUME StagesIInv, GroundStage PROVE KeptNow
<1>0. TypeOK /\ "aggregate" \in Name /\ "reground" \in Name
  BY StageNames DEF StagesIInv
<1>1. CASE Aggregate
  <2> DEFINE X == UNION {BoxesOf(r) : r \in Records("entities")}
  <2>1. file' = [file EXCEPT !["aggregate"] = X]
    BY <1>1 DEF Aggregate
  <2>2. \A r \in file["aggregate"] : Head(r.key) \notin edited => r \in X
    <3>1. ASSUME NEW r \in file["aggregate"], Head(r.key) \notin edited PROVE r \in X
      <4>1. Justified("aggregate", r)
        BY <1>0, <3>1, UneditedJustified
      <4>2. QED
        BY <4>1, StageNames DEF Justified
    <3>2. QED
      BY <3>1
  <2> HIDE DEF X
  <2>3. QED
    BY <1>0, <2>1, <2>2, ExceptKeeps
<1>2. CASE Reground
  <2>1. PICK passes \in SUBSET Records("describe") :
           LET rows == {[key |-> d.key, from |-> d.result,
                         result |-> [accepted |-> d \in passes]] : d \in Records("describe")}
           IN  /\ \A r \in rows, old \in file["reground"] :
                      r.key = old.key /\ r.from = old.from => r = old
               /\ file' = [file EXCEPT !["reground"] = rows]
    BY <1>2 DEF Reground
  <2> DEFINE X == {[key |-> d.key, from |-> d.result,
                    result |-> [accepted |-> d \in passes]] : d \in Records("describe")}
  <2>2. /\ \A r \in X, old \in file["reground"] : r.key = old.key /\ r.from = old.from => r = old
        /\ file' = [file EXCEPT !["reground"] = X]
    BY <2>1
  <2>3. \A d \in Records("describe") : \E r \in X : r.key = d.key /\ r.from = d.result
    <3>1. ASSUME NEW d \in Records("describe")
          PROVE  \E r \in X : r.key = d.key /\ r.from = d.result
      <4>1. [key |-> d.key, from |-> d.result, result |-> [accepted |-> d \in passes]] \in X
        OBVIOUS
      <4>2. QED
        BY <4>1
    <3>2. QED
      BY <3>1
  <2> HIDE DEF X
  <2>4. ASSUME NEW r \in file["reground"], Head(r.key) \notin edited PROVE r \in X
    <3>1. Justified("reground", r)
      BY <1>0, <2>4, UneditedJustified
    <3>2. PICK d \in Records("describe") : d.key = r.key /\ d.result = r.from
      BY <3>1, StageNames DEF Justified, Regrounded
    <3>3. PICK x \in X : x.key = d.key /\ x.from = d.result
      BY <2>3
    <3>4. x = r
      BY <2>2, <3>2, <3>3
    <3>5. QED
      BY <3>3, <3>4
  <2>5. \A r \in file["reground"] : Head(r.key) \notin edited => r \in X
    BY <2>4
  <2>6. file' = [file EXCEPT !["reground"] = X]
    BY <2>2
  <2>7. QED
    BY ONLY <1>0, <2>5, <2>6, ExceptKeeps
<1>3. QED
  BY <1>1, <1>2 DEF GroundStage

LEMMA AskKeeps == ASSUME StagesIInv, Ask PROVE KeptNow
<1>1. PICK k \in 1..9 : at = k
  BY StageNames DEF Ask, StagesIInv, PassOK, TypeOK
<1>2. Stage \in Name /\ TypeOK
  BY <1>1, Numbered DEF Stage, StagesIInv
<1>3. PICK row : file' = [file EXCEPT ![Stage] = file[Stage] \cup {row}]
  BY <1>2 DEF Ask, TypeOK
<1>4. QED
  BY <1>2, <1>3, ExceptKeeps

(***************************************************************************)
(* No step loses a row of an image that was never edited: what the others  *)
(* were edited to, or where a pass died, makes no difference to it.        *)
(***************************************************************************)
THEOREM UnrelatedRowsAreKept == Spec => UnrelatedKept
<1>1. StagesIInv /\ [Next]_vars => [KeptNow]_vars
  <2> SUFFICES ASSUME StagesIInv, Next PROVE KeptNow \/ file' = file
    BY DEF KeptNow, vars
  <2>1. CASE BeginStage
    BY <2>1, BeginStageKeeps
  <2>2. CASE Ask
    BY <2>2, AskKeeps
  <2>3. CASE GroundStage
    BY <2>3, GroundingKeeps
  <2>4. CASE EndStage \/ Abort \/ NewPass \/ \E i \in Image, version \in Source : Edit(i, version)
    BY <2>4 DEF EndStage, Abort, NewPass, Restart, Edit
  <2>5. QED
    BY <2>1, <2>2, <2>3, <2>4 DEF Next, Work
<1>2. [KeptNow]_vars => [\A s \in Name : \A r \in file[s] : Head(r.key) \notin edited => r \in file'[s]]_vars
  BY DEF KeptNow
<1>3. QED
  BY <1>1, <1>2, StagesInvariant, PTL DEF Spec, UnrelatedKept

-----------------------------------------------------------------------------
(* RouteBRefine                                                             *)

(* Which revisions are on file.                                            *)
IsRooted(d) == d.base \in Bases /\ d.root = initial[d.base]
Cleaned == (\A d \in drafts : IsRooted(d)) /\ \A v \in verified : IsRooted(v.draft)
AllCurrent == \A v \in verified : v.draft \in ValidDrafts /\ v.prompt = prompt
AllVerified == \A d \in ValidDrafts : \E v \in verified : v.draft = d
NoneEligible == Eligible(verified, drafts) = {}

\* Revision k of a base is on file, valid or not.
Drafted(b, k) == \E d \in drafts : d.base = b /\ d.rev = k

\* A base has one revision of each number, none left out, and all of them go back
\* to the same first verification.
RevisionsOK ==
    /\ \A d \in drafts : d.root \in First
    /\ \A d, e \in drafts : d.base = e.base => d.root = e.root /\ (d.rev = e.rev => d = e)
    /\ \A d \in drafts : \A k \in 1..d.rev : Drafted(d.base, k)

\* A revision is verified once, and a verification has its revision on file
\* unless it goes back to another first verification, as after a crash between
\* the two writes of Clean and CleanVerified.
VerificationsOK ==
    /\ \A v \in verified : v.draft.root \in First
    /\ \A v, w \in verified : v.draft = w.draft => v = w
    /\ \A v \in verified : v.draft \in drafts \/ ~IsRooted(v.draft)

(* Where the process is.                                                   *)
PlaceOK ==
    /\ prompt <= refineEdits
    /\ pc \in {"start", "clean", "clean_verified"} => rounds = 0
    /\ managed => rounds = 0
    /\ RefinementDone => pc = "start"
    /\ pc = "batch" => RefineStage \in {"refine_generate", "refine"}
    /\ pc = "verify" => RefineStage \in {"refine_verify", "refine"}
    /\ pc = "finalize" => RefineStage \in {"finalize", "refine"}
    /\ ~RefinementDone /\ ~managed => rounds <= MaxRounds

\* From where on only revisions of the first verification on file are left.
CleanedOK ==
    /\ pc = "clean_verified" => \A d \in drafts : IsRooted(d)
    /\ pc \in {"enter", "batch", "verify", "finalize"} => Cleaned
    /\ (managed /\ refineAt >= 3) \/ RefinementDone => Cleaned
    /\ ~stale => Cleaned

(* How many generations of revisions are complete.                         *)
Generations == IF managed THEN (IF refineAt = 1 THEN 0 ELSE IF refineAt <= 4 THEN 1 ELSE 2) ELSE rounds
\* The managed stages repeat twice, whatever there is to do: they promise no
\* complete generation to a pass that began with stale revisions.
Steady == managed => ~stale

\* Attempt k of a base asks for a revision.
Weak(b, k) ==
    \/ k = 0 /\ initial[b] \in First \cup {"weak"}
    \/ \E v \in verified : v.draft.base = b /\ v.draft.rev = k /\ v.opinion = "weak"
\* In a complete generation every weak attempt has its revision.
GenerationsOK ==
    Steady => \A b \in Bases, k \in 0..(MaxRounds - 1) :
        k < Generations /\ Weak(b, k) => Drafted(b, k + 1)

\* What waits for its verification belongs to the generation in progress.
UnverifiedOK ==
    Steady => \A d \in Unverified : d.rev >= (IF pc = "batch" THEN Generations + 1 ELSE Generations)

\* From where on only verifications with the prompt on file are left.
CurrentOK ==
    /\ managed /\ refineAt >= 4 => AllCurrent
    /\ pc = "verify" => AllCurrent
    /\ ~managed /\ rounds > 0 /\ pc # "finalize" =>
           AllCurrent \/ (rounds = 1 /\ pc = "enter" /\ NoneEligible)

\* From where on nothing is left to verify or to revise.
DoneOK ==
    /\ managed /\ Steady /\ refineAt = 4 /\ pc # "batch" => AllVerified
    /\ managed /\ Steady /\ refineAt >= 7 => AllVerified
    /\ ~managed /\ (pc = "finalize" \/ RefinementDone) => AllVerified /\ NoneEligible

BatchOK == pc = "batch" => /\ todo = Eligible(verified, drafts)
                           /\ ~managed => rounds < MaxRounds

\* What was finalized is the last attempt of the verifications still on file.
FinalOK == RefinementDone => final = Latest(verified)

(* The inductive invariant of the refinement.                               *)
RefineIInv == RefineTypeOK /\ RevisionsOK /\ VerificationsOK /\ PlaceOK /\ CleanedOK /\ GenerationsOK
         /\ UnverifiedOK /\ CurrentOK /\ DoneOK /\ BatchOK /\ FinalOK

LEMMA ScriptIs ==
    /\ managed => /\ Len(Script) = 7
                  /\ Script[1] = "refine_generate" /\ Script[2] = "refine_reground"
                  /\ Script[3] = "refine_verify" /\ Script[4] = "refine_generate"
                  /\ Script[5] = "refine_reground" /\ Script[6] = "refine_verify"
                  /\ Script[7] = "finalize"
    /\ ~managed => Len(Script) = 1 /\ Script[1] = "refine"
BY DEF Script

(* Each place of a pass, by what is done there.                            *)
LEMMA PlaceIs ==
    ASSUME RefineTypeOK
    PROVE  /\ refineAt \in Nat
           /\ managed => /\ refineAt \in 1..8 /\ (RefinementDone <=> refineAt = 8)
                         /\ RefineStage # "refine" \/ RefinementDone
                         /\ ~RefinementDone =>
                               /\ RefineStage = "refine_generate" <=> refineAt \in {1, 4}
                               /\ RefineStage = "refine_reground" <=> refineAt \in {2, 5}
                               /\ RefineStage = "refine_verify" <=> refineAt \in {3, 6}
                               /\ RefineStage = "finalize" <=> refineAt = 7
           /\ ~managed => /\ refineAt \in 1..2 /\ (RefinementDone <=> refineAt = 2)
                          /\ ~RefinementDone => RefineStage = "refine"
<1>0. refineAt \in 1..(Len(Script) + 1)
  BY DEF RefineTypeOK
<1>1. CASE managed
  <2>0. Len(Script) = 7
    BY <1>1, ScriptIs
  <2>1. refineAt \in 1..8
    BY ONLY <1>0, <2>0
  <2>2. RefinementDone <=> refineAt = 8
    BY ONLY <2>0, <2>1 DEF RefinementDone
  <2>3. refineAt \in {1, 2, 3, 4, 5, 6, 7, 8}
    BY <2>1
  <2>4. QED
    BY <1>1, <2>1, <2>2, <2>3, ScriptIs DEF RefineStage
<1>2. CASE ~managed
  <2>0. Len(Script) = 1
    BY <1>2, ScriptIs
  <2>1. refineAt \in 1..2
    BY ONLY <1>0, <2>0
  <2>2. RefinementDone <=> refineAt = 2
    BY ONLY <2>0, <2>1 DEF RefinementDone
  <2>3. QED
    BY <1>2, <2>1, <2>2, ScriptIs DEF RefineStage
<1>3. QED
  BY <1>1, <1>2

LEMMA DraftIs ==
    ASSUME NEW d \in Draft
    PROVE  d.base \in Base /\ d.rev \in 1..MaxRounds /\ d.rev \in Nat /\ d.root \in Opinions
BY RefineAssumption DEF Draft

LEMMA FilesAre ==
    ASSUME RefineTypeOK
    PROVE  /\ \A d \in drafts : d \in Draft /\ d.base \in Base /\ d.rev \in 1..MaxRounds
           /\ \A v \in verified : /\ v \in Verification /\ v.draft \in Draft
                                  /\ v.draft.base \in Base /\ v.draft.rev \in 1..MaxRounds
                                  /\ v.opinion \in {"accepted", "weak", "refused", "invalid"}
           /\ \A b \in Base : initial[b] \in Opinions
<1>1. \A v \in verified : v \in Verification
  BY DEF RefineTypeOK
<1>2. \A v \in Verification :
          v.draft \in Draft /\ v.opinion \in {"accepted", "weak", "refused", "invalid"}
  BY DEF Verification
<1>3. \A d \in drafts : d \in Draft
  BY DEF RefineTypeOK
<1>4. QED
  BY <1>1, <1>2, <1>3, DraftIs DEF RefineTypeOK

LEMMA AttemptsAre ==
    ASSUME NEW a, NEW rows
    PROVE  a \in Attempts(rows) <=>
              \/ \E b \in Bases : a = FirstAttempt(b)
              \/ \E v \in rows : v.opinion # "invalid" /\ a = AttemptOf(v)
BY DEF Attempts

LEMMA FirstAttemptIs ==
    ASSUME NEW b
    PROVE  /\ FirstAttempt(b).base = b /\ FirstAttempt(b).rev = 0
           /\ FirstAttempt(b).root = initial[b] /\ FirstAttempt(b).opinion = initial[b]
BY DEF FirstAttempt

LEMMA AttemptOfIs ==
    ASSUME NEW v
    PROVE  /\ AttemptOf(v).base = v.draft.base /\ AttemptOf(v).rev = v.draft.rev
           /\ AttemptOf(v).root = v.draft.root /\ AttemptOf(v).opinion = v.opinion
BY DEF AttemptOf

LEMMA AttemptIs ==
    ASSUME RefineTypeOK, VerificationsOK, Cleaned, NEW a \in Attempts(verified)
    PROVE  /\ a.base \in Bases /\ a.root = initial[a.base] /\ a.rev \in 0..MaxRounds
           /\ a.rev \in Nat
           /\ \/ a.rev = 0 /\ a = FirstAttempt(a.base) /\ a.opinion = initial[a.base]
              \/ /\ a.rev > 0 /\ Drafted(a.base, a.rev)
                 /\ \E v \in verified : /\ v.opinion # "invalid" /\ a = AttemptOf(v)
                                        /\ v.draft \in drafts
                                        /\ v.draft.base = a.base /\ v.draft.rev = a.rev
                                        /\ v.draft.root = a.root /\ v.opinion = a.opinion
<1>1. CASE \E b \in Bases : a = FirstAttempt(b)
  BY <1>1, FirstAttemptIs, RefineAssumption
<1>2. CASE \E v \in verified : v.opinion # "invalid" /\ a = AttemptOf(v)
  <2>1. PICK v \in verified : v.opinion # "invalid" /\ a = AttemptOf(v)
    BY <1>2
  <2>2. IsRooted(v.draft) /\ v.draft \in drafts /\ v.draft.rev \in 1..MaxRounds
    BY FilesAre DEF Cleaned, VerificationsOK
  <2>3. /\ a.base = v.draft.base /\ a.rev = v.draft.rev /\ a.root = v.draft.root
        /\ a.opinion = v.opinion
    BY <2>1, AttemptOfIs
  <2>4. Drafted(a.base, a.rev)
    BY <2>2, <2>3 DEF Drafted
  <2>5. a.rev > 0 /\ a.rev \in 0..MaxRounds /\ a.rev \in Nat
    BY <2>2, <2>3, RefineAssumption
  <2>6. a.base \in Bases /\ a.root = initial[a.base]
    BY <2>2, <2>3 DEF IsRooted
  <2>7. QED
    BY <2>1, <2>2, <2>3, <2>4, <2>5, <2>6
<1>3. QED
  BY <1>1, <1>2, AttemptsAre

LEMMA EligibleIs ==
    ASSUME NEW a
    PROVE  a \in Eligible(verified, drafts) <=>
              /\ a \in Attempts(verified)
              /\ \A c \in Attempts(verified) : c.base = a.base => c.rev <= a.rev
              /\ a.opinion \in First \cup {"weak"} /\ a.rev < MaxRounds
              /\ ~Drafted(a.base, a.rev + 1)
BY DEF Eligible, Latest, Drafted

(* What may be revised is weak, and its revision is not on file.           *)
LEMMA EligibleIsWeak ==
    ASSUME RefineTypeOK, VerificationsOK, Cleaned, NEW a \in Eligible(verified, drafts)
    PROVE  /\ a.base \in Bases /\ a.root = initial[a.base] /\ a.root \in First
           /\ a.rev \in 0..(MaxRounds - 1) /\ a.rev \in Nat
           /\ Weak(a.base, a.rev) /\ ~Drafted(a.base, a.rev + 1)
           /\ a.rev > 0 => Drafted(a.base, a.rev)
<1>1. /\ a \in Attempts(verified) /\ a.opinion \in First \cup {"weak"} /\ a.rev < MaxRounds
      /\ ~Drafted(a.base, a.rev + 1)
  BY EligibleIs
<1>2. /\ a.base \in Bases /\ a.root = initial[a.base] /\ a.rev \in 0..MaxRounds /\ a.rev \in Nat
      /\ a.rev > 0 => Drafted(a.base, a.rev)
  BY <1>1, AttemptIs
<1>3. a.rev \in 0..(MaxRounds - 1)
  BY <1>1, <1>2, RefineAssumption
<1>4. CASE a.rev = 0 /\ a = FirstAttempt(a.base) /\ a.opinion = initial[a.base]
  <2>1. initial[a.base] \in Opinions
    BY <1>2, FilesAre DEF Bases
  <2>2. a.root \in First
    BY <1>1, <1>2, <1>4, <2>1 DEF Opinions
  <2>3. Weak(a.base, a.rev)
    BY <1>1, <1>4 DEF Weak
  <2>4. QED
    BY <1>1, <1>2, <1>3, <2>2, <2>3
<1>5. CASE a.rev > 0 /\ \E v \in verified : /\ v.opinion # "invalid" /\ a = AttemptOf(v)
                                            /\ v.draft \in drafts
                                            /\ v.draft.base = a.base /\ v.draft.rev = a.rev
                                            /\ v.draft.root = a.root /\ v.opinion = a.opinion
  <2>1. PICK v \in verified : /\ v.opinion # "invalid" /\ a = AttemptOf(v)
                              /\ v.draft \in drafts
                              /\ v.draft.base = a.base /\ v.draft.rev = a.rev
                              /\ v.draft.root = a.root /\ v.opinion = a.opinion
    BY <1>5
  <2>2. a.root \in First
    BY <2>1 DEF VerificationsOK
  <2>3. v.opinion = "weak"
    BY <1>1, <2>1, FilesAre, RefineAssumption
  <2>4. Weak(a.base, a.rev)
    BY <2>1, <2>3 DEF Weak
  <2>5. QED
    BY <1>1, <1>2, <1>3, <2>2, <2>4
<1>6. QED
  BY <1>1, <1>4, <1>5, AttemptIs

(* When nothing is left to revise, what is weak has its revision.          *)
LEMMA NoneIsDone ==
    ASSUME RefineTypeOK, RevisionsOK, VerificationsOK, Cleaned, NoneEligible,
           NEW b \in Bases, NEW k \in 0..(MaxRounds - 1), Weak(b, k)
    PROVE  Drafted(b, k + 1)
<1> SUFFICES ASSUME ~Drafted(b, k + 1) PROVE FALSE
  OBVIOUS
<1>1. PICK a \in Attempts(verified) :
          a.base = b /\ a.rev = k /\ a.opinion \in First \cup {"weak"}
  <2>1. CASE k = 0 /\ initial[b] \in First \cup {"weak"}
    <3>1. FirstAttempt(b) \in Attempts(verified)
      BY AttemptsAre
    <3>2. QED
      BY <2>1, <3>1, FirstAttemptIs
  <2>2. CASE \E v \in verified : v.draft.base = b /\ v.draft.rev = k /\ v.opinion = "weak"
    <3>1. PICK v \in verified : v.draft.base = b /\ v.draft.rev = k /\ v.opinion = "weak"
      BY <2>2
    <3>2. AttemptOf(v) \in Attempts(verified)
      BY <3>1, AttemptsAre
    <3>3. QED
      BY <3>1, <3>2, AttemptOfIs
  <2>3. QED
    BY <2>1, <2>2 DEF Weak
<1>2. ASSUME NEW c \in Attempts(verified), c.base = b PROVE c.rev <= k
  <2>1. c.rev \in Nat /\ (c.rev > 0 => Drafted(b, c.rev))
    BY <1>2, AttemptIs
  <2>2. SUFFICES ASSUME c.rev > k PROVE FALSE
    BY <2>1, RefineAssumption
  <2>3. PICK d \in drafts : d.base = b /\ d.rev = c.rev
    BY <2>1, <2>2, RefineAssumption DEF Drafted
  <2>4. k + 1 \in 1..d.rev
    BY <2>1, <2>2, <2>3, RefineAssumption
  <2>5. QED
    BY <2>3, <2>4 DEF RevisionsOK
<1>3. a \in Eligible(verified, drafts)
  BY <1>1, <1>2, EligibleIs, RefineAssumption
<1>4. QED
  BY <1>3 DEF NoneEligible

(* Every target has a last attempt, and only one.                          *)
LEMMA LatestExists ==
    ASSUME RefineTypeOK, VerificationsOK, Cleaned, NEW b \in Bases
    PROVE  \E a \in Latest(verified) : a.base = b
<1> DEFINE Less == {ss \in Nat \X Nat : ss[1] < ss[2]}
           Own == {a \in Attempts(verified) : a.base = b}
           T == {MaxRounds - a.rev : a \in Own}
<1>1. \A a \in Own : a.rev \in Nat /\ MaxRounds - a.rev \in Nat
  BY AttemptIs, RefineAssumption
<1>2. T \subseteq Nat /\ T # {}
  <2>1. FirstAttempt(b) \in Own
    BY AttemptsAre, FirstAttemptIs
  <2>2. QED
    BY <1>1, <2>1
<1>3. IsWellFoundedOn(Less, Nat)
  BY NatLessThanWellFounded DEF OpToRel
<1>4. \E x \in T : \A y \in T : <<y, x>> \notin Less
  <2> HIDE DEF Less, T
  <2> QED BY <1>2, <1>3, WFMin
<1>5. PICK x \in T : \A y \in T : <<y, x>> \notin Less
  BY <1>4
<1>6. PICK a \in Own : x = MaxRounds - a.rev
  OBVIOUS
<1>7. ASSUME NEW c \in Own PROVE c.rev <= a.rev
  <2>1. MaxRounds - c.rev \in T /\ MaxRounds - c.rev \in Nat /\ x \in Nat
    BY <1>1, <1>2
  <2>2. ~(MaxRounds - c.rev < x)
    BY <1>5, <2>1
  <2>3. QED
    BY <1>1, <1>6, <2>2, RefineAssumption
<1>8. QED
  BY <1>6, <1>7 DEF Latest

LEMMA LatestIsOne ==
    ASSUME RefineTypeOK, RevisionsOK, VerificationsOK, Cleaned,
           NEW a \in Latest(verified), NEW c \in Latest(verified), a.base = c.base
    PROVE  a = c
<1>1. a \in Attempts(verified) /\ c \in Attempts(verified) /\ c.rev <= a.rev /\ a.rev <= c.rev
  BY DEF Latest
<1>2. a.rev \in Nat /\ c.rev \in Nat
  BY <1>1, AttemptIs
<1>3. a.rev = c.rev
  BY <1>1, <1>2
<1>4. CASE a.rev = 0
  <2>0. ASSUME NEW x \in Attempts(verified), x.rev = 0 PROVE x = FirstAttempt(x.base)
    <3>1. \/ x = FirstAttempt(x.base)
          \/ x.rev > 0
      BY AttemptIs
    <3>2. QED
      BY <2>0, <3>1
  <2>1. a = FirstAttempt(a.base) /\ c = FirstAttempt(c.base)
    BY <1>1, <1>3, <1>4, <2>0
  <2>2. QED
    BY <2>1
<1>5. CASE a.rev > 0
  <2>1. PICK v \in verified : /\ a = AttemptOf(v) /\ v.draft \in drafts
                              /\ v.draft.base = a.base /\ v.draft.rev = a.rev
    BY <1>1, <1>5, AttemptIs
  <2>2. PICK w \in verified : /\ c = AttemptOf(w) /\ w.draft \in drafts
                              /\ w.draft.base = c.base /\ w.draft.rev = c.rev
    BY <1>1, <1>3, <1>5, AttemptIs
  <2>3. v.draft = w.draft
    BY <1>3, <2>1, <2>2 DEF RevisionsOK
  <2>4. QED
    BY <2>1, <2>2, <2>3 DEF VerificationsOK
<1>6. QED
  BY <1>2, <1>4, <1>5

LEMMA SameFiles ==
    ASSUME UNCHANGED <<drafts, verified, initial, prompt>>
    PROVE  /\ Bases' = Bases /\ ValidDrafts' = ValidDrafts /\ Unverified' = Unverified
           /\ Cleaned' <=> Cleaned
           /\ AllCurrent' <=> AllCurrent
           /\ AllVerified' <=> AllVerified
           /\ NoneEligible' <=> NoneEligible
           /\ Eligible(verified, drafts)' = Eligible(verified, drafts)
           /\ Latest(verified)' = Latest(verified)
           /\ RevisionsOK' <=> RevisionsOK
           /\ VerificationsOK' <=> VerificationsOK
<1>1. Bases' = Bases /\ ValidDrafts' = ValidDrafts /\ Unverified' = Unverified
  BY DEF Bases, ValidDrafts, Unverified
<1>2. Latest(verified)' = Latest(verified)
  BY <1>1 DEF Latest, Attempts, FirstAttempt, AttemptOf
<1>3. Eligible(verified, drafts)' = Eligible(verified, drafts)
  BY <1>2 DEF Eligible
<1>4. \A d : IsRooted(d)' <=> IsRooted(d)
  BY <1>1 DEF IsRooted
<1>5. Cleaned' <=> Cleaned
  BY <1>4 DEF Cleaned
<1>6. /\ AllCurrent' <=> AllCurrent
      /\ AllVerified' <=> AllVerified
      /\ NoneEligible' <=> NoneEligible
  BY <1>1, <1>3 DEF AllCurrent, AllVerified, NoneEligible
<1>7. RevisionsOK' <=> RevisionsOK
  BY DEF RevisionsOK, Drafted
<1>8. VerificationsOK' <=> VerificationsOK
  BY <1>4 DEF VerificationsOK
<1>9. QED
  BY <1>1, <1>2, <1>3, <1>5, <1>6, <1>7, <1>8

LEMMA SameWeak ==
    ASSUME UNCHANGED <<drafts, verified, initial, prompt>>, NEW b, NEW k
    PROVE  /\ Weak(b, k)' <=> Weak(b, k)
           /\ Drafted(b, k)' <=> Drafted(b, k)
BY DEF Weak, Drafted

LEMMA GenerationsAre ==
    /\ managed /\ refineAt = 1 => Generations = 0
    /\ managed /\ refineAt \in {2, 3, 4} => Generations = 1
    /\ managed /\ refineAt \in {5, 6, 7, 8} => Generations = 2
    /\ ~managed => Generations = rounds
<1>1. ASSUME managed, refineAt = 1 PROVE Generations = 0
  BY <1>1 DEF Generations
<1>2. ASSUME managed, refineAt \in {2, 3, 4} PROVE Generations = 1
  <2>1. refineAt # 1 /\ refineAt <= 4
    BY ONLY <1>2
  <2>2. QED
    BY <1>2, <2>1 DEF Generations
<1>3. ASSUME managed, refineAt \in {5, 6, 7, 8} PROVE Generations = 2
  <2>1. refineAt # 1 /\ ~(refineAt <= 4)
    BY ONLY <1>3
  <2>2. QED
    BY <1>3, <2>1 DEF Generations
<1>4. ASSUME ~managed PROVE Generations = rounds
  BY <1>4 DEF Generations
<1>5. QED
  BY <1>1, <1>2, <1>3, <1>4

LEMMA GenerationsAreNow ==
    /\ managed' /\ refineAt' = 1 => Generations' = 0
    /\ managed' /\ refineAt' \in {2, 3, 4} => Generations' = 1
    /\ managed' /\ refineAt' \in {5, 6, 7, 8} => Generations' = 2
    /\ ~managed' => Generations' = rounds'
<1>1. (/\ managed /\ refineAt = 1 => Generations = 0
       /\ managed /\ refineAt \in {2, 3, 4} => Generations = 1
       /\ managed /\ refineAt \in {5, 6, 7, 8} => Generations = 2
       /\ ~managed => Generations = rounds)'
  BY GenerationsAre, PTL
<1>2. QED
  BY <1>1

(* A generation is complete when nothing is left to revise.                *)
LEMMA GenerationComplete ==
    ASSUME RefineIInv, Cleaned, NoneEligible, NEW b \in Bases, NEW k \in 0..(MaxRounds - 1),
           Weak(b, k)
    PROVE  Drafted(b, k + 1)
BY NoneIsDone DEF RefineIInv

LEMMA ScriptStays ==
    ASSUME UNCHANGED managed PROVE Script' = Script /\ Len(Script') = Len(Script)
BY DEF Script

LEMMA NextStageHolds ==
    ASSUME RefineIInv, ~RefinementDone, NextStage, Stay, UNCHANGED <<drafts, verified>>,
           exists' \subseteq {"drafts", "verified"}, final' \subseteq Attempt,
           managed /\ refineAt \in {1, 4} /\ Steady => NoneEligible,
           managed /\ refineAt = 2 => Cleaned,
           managed /\ refineAt \in {3, 6} => AllCurrent /\ AllVerified,
           ~managed => AllVerified /\ NoneEligible /\ Cleaned,
           refineAt = Len(Script) => final' = Latest(verified)
    PROVE  RefineIInv'
<1>1. /\ refineAt' = refineAt + 1 /\ pc' = "start" /\ rounds' = 0 /\ todo' = {}
      /\ drafts' = drafts /\ verified' = verified /\ initial' = initial /\ prompt' = prompt
      /\ refineEdits' = refineEdits /\ refineFaults' = refineFaults
  BY DEF NextStage, Go, Stay
<1>2. (managed' <=> managed) /\ (stale' <=> stale) /\ (Steady' <=> Steady)
      /\ managed' = managed /\ stale' = stale
  BY DEF Stay, Steady
<1>3. /\ Bases' = Bases /\ ValidDrafts' = ValidDrafts /\ Unverified' = Unverified
      /\ Cleaned' <=> Cleaned
      /\ AllCurrent' <=> AllCurrent
      /\ AllVerified' <=> AllVerified
      /\ NoneEligible' <=> NoneEligible
      /\ Latest(verified)' = Latest(verified)
      /\ RevisionsOK' <=> RevisionsOK
      /\ VerificationsOK' <=> VerificationsOK
  BY <1>1, SameFiles
<1>4. Script' = Script /\ Len(Script') = Len(Script)
  BY <1>2, ScriptStays
<1>5. RefineTypeOK /\ (Steady /\ managed => Cleaned) /\ (~stale => Cleaned)
  BY DEF RefineIInv, CleanedOK, Steady
<1>6. refineAt \in 1..Len(Script) /\ Len(Script) \in Nat
  BY <1>5, ScriptIs DEF RefineTypeOK, RefinementDone
<1>7. RefinementDone' <=> refineAt = Len(Script)
  <2>1. RefinementDone' <=> refineAt' > Len(Script')
    BY DEF RefinementDone
  <2>2. QED
    BY ONLY <1>1, <1>4, <1>6, <2>1
<1>8. /\ managed => refineAt \in {1, 2, 3, 4, 5, 6, 7} /\ refineAt' \in {2, 3, 4, 5, 6, 7, 8}
      /\ ~managed => refineAt = 1 /\ refineAt' = 2
  <2>1. ASSUME managed PROVE refineAt \in {1, 2, 3, 4, 5, 6, 7} /\ refineAt' \in {2, 3, 4, 5, 6, 7, 8}
    <3>1. Len(Script) = 7
      BY <2>1, ScriptIs
    <3>2. QED
      BY ONLY <3>1, <1>1, <1>6
  <2>2. ASSUME ~managed PROVE refineAt = 1 /\ refineAt' = 2
    <3>1. Len(Script) = 1
      BY <2>2, ScriptIs
    <3>2. QED
      BY ONLY <3>1, <1>1, <1>6
  <2>3. QED
    BY <2>1, <2>2
<1>9. RefineTypeOK'
  <2>1. refineAt' \in 1..(Len(Script') + 1)
    BY ONLY <1>1, <1>4, <1>6
  <2>2. /\ initial' \in [Base -> Opinions] /\ prompt' \in 0..MaxRefineEdits
        /\ drafts' \subseteq Draft /\ verified' \subseteq Verification
        /\ refineEdits' \in 0..MaxRefineEdits /\ refineFaults' \in 0..MaxRefineFaults
    BY <1>1, <1>5 DEF RefineTypeOK
  <2>3. pc' \in {"start", "clean", "clean_verified", "enter", "batch", "verify", "finalize"}
        /\ todo' \subseteq Attempt
    BY <1>1
  <2>4. rounds' \in 0..(MaxRounds + 1)
    BY <1>1, RefineAssumption
  <2>5. managed' \in BOOLEAN /\ stale' \in BOOLEAN
    BY <1>2, <1>5 DEF RefineTypeOK
  <2>6. QED
    BY <2>1, <2>2, <2>3, <2>4, <2>5 DEF RefineTypeOK
<1>10. RevisionsOK' /\ VerificationsOK'
  BY <1>3 DEF RefineIInv
<1>11. PlaceOK'
  <2>1. prompt' <= refineEdits' /\ rounds' <= MaxRounds
    BY <1>1, RefineAssumption DEF RefineIInv, PlaceOK
  <2>2. QED
    BY <1>1, <2>1 DEF PlaceOK
<1>12. CleanedOK'
  <2>1. managed /\ refineAt >= 3 => Cleaned
    BY DEF RefineIInv, CleanedOK
  <2>2. ASSUME managed, refineAt' >= 3 PROVE Cleaned
    <3>1. refineAt = 2 \/ refineAt >= 3
      BY ONLY <1>1, <1>6, <2>2
    <3>2. QED
      BY <2>1, <2>2, <3>1
  <2>3. ASSUME RefinementDone' PROVE Cleaned
    <3>1. CASE managed
      <4>1. Len(Script) = 7
        BY <3>1, ScriptIs
      <4>2. refineAt >= 3
        BY ONLY <4>1, <1>7, <2>3
      <4>3. QED
        BY <2>1, <3>1, <4>2
    <3>2. QED
      BY <3>1
  <2>4. QED
    BY <1>1, <1>2, <1>3, <1>5, <2>2, <2>3 DEF CleanedOK
<1>13. GenerationsOK'
  <2> SUFFICES ASSUME Steady, NEW b \in Bases, NEW k \in 0..(MaxRounds - 1),
                      k < Generations', Weak(b, k)'
               PROVE  Drafted(b, k + 1)'
    BY <1>2, <1>3 DEF GenerationsOK
  <2>1. Weak(b, k) /\ (Drafted(b, k + 1)' <=> Drafted(b, k + 1))
    BY <1>1, SameWeak
  <2>2. k < Generations => Drafted(b, k + 1)
    BY <2>1 DEF RefineIInv, GenerationsOK
  <2>3. CASE ~managed
    <3>1. Generations' = rounds'
      BY <1>2, <2>3, GenerationsAreNow
    <3>2. QED
      BY ONLY <1>1, <3>1, k < Generations', k \in 0..(MaxRounds - 1), RefineAssumption
  <2>4. CASE managed /\ refineAt \in {1, 4}
    BY <1>5, <2>1, <2>4, GenerationComplete
  <2>5. CASE managed /\ refineAt \in {2, 3}
    <3>1. refineAt' \in {2, 3, 4} /\ refineAt \in {2, 3, 4}
      BY ONLY <1>1, <2>5
    <3>2. Generations' = 1 /\ Generations = 1
      BY <1>2, <2>5, <3>1, GenerationsAre, GenerationsAreNow
    <3>3. QED
      BY <2>1, <2>2, <3>2
  <2>6. CASE managed /\ refineAt \in {5, 6, 7}
    <3>1. refineAt' \in {5, 6, 7, 8} /\ refineAt \in {5, 6, 7, 8}
      BY ONLY <1>1, <2>6
    <3>2. Generations' = 2 /\ Generations = 2
      BY <1>2, <2>6, <3>1, GenerationsAre, GenerationsAreNow
    <3>3. QED
      BY <2>1, <2>2, <3>2
  <2>7. QED
    BY <1>8, <2>3, <2>4, <2>5, <2>6
<1>14. UnverifiedOK'
  <2> SUFFICES ASSUME Steady, NEW d \in Unverified PROVE d.rev >= Generations'
    BY <1>1, <1>2, <1>3 DEF UnverifiedOK
  <2>1. d.rev \in Nat /\ d.rev >= 1 /\ ~AllVerified
    BY <1>5, FilesAre DEF Unverified, ValidDrafts, AllVerified
  <2>2. d.rev >= (IF pc = "batch" THEN Generations + 1 ELSE Generations)
    BY DEF RefineIInv, UnverifiedOK
  <2>3. CASE ~managed
    BY <2>1, <2>3
  <2>4. CASE managed /\ refineAt \in {1, 2, 3}
    <3>1. refineAt' \in {2, 3, 4}
      BY ONLY <1>1, <2>4
    <3>2. QED
      BY <1>2, <2>1, <2>4, <3>1, GenerationsAreNow
  <2>5. CASE managed /\ refineAt = 4
    <3>1. pc = "batch" /\ Generations = 1
      BY <2>1, <2>5, GenerationsAre DEF RefineIInv, DoneOK
    <3>2. Generations' = 2
      <4>1. refineAt' \in {5, 6, 7, 8}
        BY ONLY <1>1, <2>5
      <4>2. QED
        BY <1>2, <2>5, <4>1, GenerationsAreNow
    <3>3. QED
      BY ONLY <2>1, <2>2, <3>1, <3>2
  <2>6. CASE managed /\ refineAt \in {5, 6, 7}
    <3>1. refineAt' \in {5, 6, 7, 8} /\ refineAt \in {5, 6, 7, 8}
      BY ONLY <1>1, <2>6
    <3>2. Generations' = 2 /\ Generations = 2
      BY <1>2, <2>6, <3>1, GenerationsAre, GenerationsAreNow
    <3>3. QED
      BY ONLY <2>1, <2>2, <3>2
  <2>7. QED
    BY <1>8, <2>3, <2>4, <2>5, <2>6
<1>15. CurrentOK'
  <2>1. ASSUME managed, refineAt' >= 4 PROVE AllCurrent
    <3>1. refineAt = 3 \/ refineAt >= 4
      BY ONLY <1>1, <1>6, <2>1
    <3>2. QED
      BY <2>1, <3>1 DEF RefineIInv, CurrentOK
  <2>2. QED
    BY <1>1, <1>2, <1>3, <2>1 DEF CurrentOK
<1>16. DoneOK'
  <2>1. ASSUME managed, Steady, refineAt' = 4 PROVE AllVerified
    <3>1. refineAt = 3
      BY ONLY <1>1, <1>6, <2>1
    <3>2. QED
      BY <2>1, <3>1
  <2>2. ASSUME managed, Steady, refineAt' >= 7 PROVE AllVerified
    <3>1. refineAt = 6 \/ refineAt >= 7
      BY ONLY <1>1, <1>6, <2>2
    <3>2. QED
      BY <2>2, <3>1 DEF RefineIInv, DoneOK
  <2>3. QED
    BY <1>2, <1>3, <2>1, <2>2 DEF DoneOK
<1>17. BatchOK' /\ FinalOK'
  BY <1>1, <1>3, <1>7 DEF BatchOK, FinalOK
<1>18. QED
  BY <1>9, <1>10, <1>11, <1>12, <1>13, <1>14, <1>15, <1>16, <1>17 DEF RefineIInv

LEMMA GenerationsStay ==
    ASSUME managed' <=> managed, UNCHANGED <<refineAt, rounds>> PROVE Generations' = Generations
<1>1. CASE managed
  BY <1>1 DEF Generations
<1>2. CASE ~managed
  BY <1>2, GenerationsAre, GenerationsAreNow
<1>3. QED
  BY <1>1, <1>2

(* A step within a stage that writes nothing.                              *)
LEMMA SamePlace ==
    ASSUME RefineIInv, ~RefinementDone, Stay, UNCHANGED <<drafts, verified, refineAt, rounds, final>>,
           exists' \subseteq {"drafts", "verified"}, pc # "batch",
           pc' \in {"clean", "batch", "finalize"}, todo' \subseteq Attempt,
           pc' = "clean" => rounds = 0,
           pc' # "clean" => Cleaned,
           pc' = "batch" => /\ RefineStage \in {"refine_generate", "refine"}
                            /\ todo' = Eligible(verified, drafts)
                            /\ Steady => \A d \in Unverified : d.rev >= Generations + 1
                            /\ ~managed => rounds < MaxRounds /\ (rounds > 0 => AllCurrent),
           pc' = "finalize" => /\ RefineStage \in {"finalize", "refine"}
                               /\ ~managed => AllVerified /\ NoneEligible
    PROVE  RefineIInv'
<1>1. /\ refineAt' = refineAt /\ rounds' = rounds /\ final' = final
      /\ drafts' = drafts /\ verified' = verified /\ initial' = initial /\ prompt' = prompt
      /\ refineEdits' = refineEdits /\ refineFaults' = refineFaults
  BY DEF Stay
<1>2. (managed' <=> managed) /\ (stale' <=> stale) /\ (Steady' <=> Steady)
      /\ managed' = managed /\ stale' = stale
  BY DEF Stay, Steady
<1>3. /\ Bases' = Bases /\ ValidDrafts' = ValidDrafts /\ Unverified' = Unverified
      /\ Cleaned' <=> Cleaned
      /\ AllCurrent' <=> AllCurrent
      /\ AllVerified' <=> AllVerified
      /\ NoneEligible' <=> NoneEligible
      /\ Eligible(verified, drafts)' = Eligible(verified, drafts)
      /\ RevisionsOK' <=> RevisionsOK
      /\ VerificationsOK' <=> VerificationsOK
  BY <1>1, SameFiles
<1>4. Script' = Script /\ Len(Script') = Len(Script) /\ RefineStage' = RefineStage
  BY <1>1, <1>2, ScriptStays DEF RefineStage
<1>5. ~RefinementDone'
  BY <1>1, <1>4 DEF RefinementDone
<1>6. Generations' = Generations
  BY <1>1, <1>2, GenerationsStay
<1>7. RefineTypeOK'
  <2>1. refineAt' \in 1..(Len(Script') + 1)
    BY <1>1, <1>4 DEF RefineIInv, RefineTypeOK
  <2>2. /\ initial' \in [Base -> Opinions] /\ prompt' \in 0..MaxRefineEdits
        /\ drafts' \subseteq Draft /\ verified' \subseteq Verification
        /\ refineEdits' \in 0..MaxRefineEdits /\ refineFaults' \in 0..MaxRefineFaults
        /\ rounds' \in 0..(MaxRounds + 1) /\ final' \subseteq Attempt
    BY <1>1 DEF RefineIInv, RefineTypeOK
  <2>3. managed' \in BOOLEAN /\ stale' \in BOOLEAN
    BY <1>2 DEF RefineIInv, RefineTypeOK
  <2>4. QED
    BY <2>1, <2>2, <2>3 DEF RefineTypeOK
<1>8. RevisionsOK' /\ VerificationsOK'
  BY <1>3 DEF RefineIInv
<1>9. PlaceOK'
  <2>1. prompt' <= refineEdits' /\ (managed => rounds = 0)
        /\ (~RefinementDone /\ ~managed => rounds <= MaxRounds)
    BY <1>1 DEF RefineIInv, PlaceOK
  <2>2. QED
    BY <1>1, <1>2, <1>4, <1>5, <2>1 DEF PlaceOK
<1>10. CleanedOK'
  <2>1. (managed /\ refineAt >= 3 => Cleaned) /\ (~stale => Cleaned)
    BY DEF RefineIInv, CleanedOK
  <2>2. QED
    BY <1>1, <1>2, <1>3, <1>5, <2>1 DEF CleanedOK
<1>11. GenerationsOK'
  <2> SUFFICES ASSUME Steady, NEW b \in Bases, NEW k \in 0..(MaxRounds - 1),
                      k < Generations, Weak(b, k)'
               PROVE  Drafted(b, k + 1)'
    BY <1>2, <1>3, <1>6 DEF GenerationsOK
  <2>1. Weak(b, k) /\ (Drafted(b, k + 1)' <=> Drafted(b, k + 1))
    BY <1>1, SameWeak
  <2>2. QED
    BY <2>1 DEF RefineIInv, GenerationsOK
<1>12. UnverifiedOK'
  <2> SUFFICES ASSUME Steady, NEW d \in Unverified
               PROVE  d.rev >= (IF pc' = "batch" THEN Generations + 1 ELSE Generations)
    BY <1>2, <1>3, <1>6 DEF UnverifiedOK
  <2>1. d.rev >= Generations
    BY DEF RefineIInv, UnverifiedOK
  <2>2. QED
    BY <2>1
<1>13. CurrentOK'
  <2>1. managed /\ refineAt >= 4 => AllCurrent
    BY DEF RefineIInv, CurrentOK
  <2>2. ASSUME ~managed, rounds > 0, pc' # "finalize" PROVE AllCurrent
    <3>1. pc' = "batch"
      BY <2>2
    <3>2. QED
      BY <2>2, <3>1
  <2>3. QED
    BY <1>1, <1>2, <1>3, <2>1, <2>2 DEF CurrentOK
<1>14. DoneOK'
  <2>1. /\ managed /\ Steady /\ refineAt = 4 => AllVerified
        /\ managed /\ Steady /\ refineAt >= 7 => AllVerified
    BY DEF RefineIInv, DoneOK
  <2>2. QED
    BY <1>1, <1>2, <1>3, <1>5, <2>1 DEF DoneOK
<1>15. BatchOK' /\ FinalOK'
  BY <1>1, <1>2, <1>3, <1>5 DEF BatchOK, FinalOK
<1>16. QED
  BY <1>7, <1>8, <1>9, <1>10, <1>11, <1>12, <1>13, <1>14, <1>15 DEF RefineIInv

LEMMA EligibleAreAttempts ==
    ASSUME RefineTypeOK PROVE Eligible(verified, drafts) \subseteq Attempt /\ Latest(verified) \subseteq Attempt
<1>1. Attempts(verified) \subseteq Attempt
  <2> SUFFICES ASSUME NEW a \in Attempts(verified) PROVE a \in Attempt
    OBVIOUS
  <2>1. CASE \E b \in Bases : a = FirstAttempt(b)
    <3>1. PICK b \in Bases : a = FirstAttempt(b)
      BY <2>1
    <3>2. b \in Base /\ initial[b] \in Opinions /\ 0 \in 0..MaxRounds
      BY FilesAre, RefineAssumption DEF Bases
    <3>3. QED
      BY <3>1, <3>2 DEF FirstAttempt, Attempt
  <2>2. CASE \E v \in verified : a = AttemptOf(v)
    <3>1. PICK v \in verified : a = AttemptOf(v)
      BY <2>2
    <3>2. v.draft \in Draft /\ v.opinion \in {"accepted", "weak", "refused", "invalid"}
      BY FilesAre
    <3>3. v.draft.base \in Base /\ v.draft.rev \in 0..MaxRounds /\ v.draft.root \in Opinions
          /\ v.draft.words \in Words \cup {"first", "invalid"}
      BY <3>2, RefineAssumption DEF Draft
    <3>4. v.opinion \in Opinions \cup {"weak"}
      BY <3>2 DEF Opinions
    <3>5. QED
      BY <3>1, <3>3, <3>4 DEF AttemptOf, Attempt
  <2>3. QED
    BY <2>1, <2>2, AttemptsAre
<1>2. QED
  BY <1>1 DEF Latest, Eligible

LEMMA BeginHolds == ASSUME RefineIInv, BeginRefinement PROVE RefineIInv'
<1>1. ~RefinementDone
  BY DEF BeginRefinement, RefinementDone, RefineIInv, RefineTypeOK
<1>2. /\ pc = "start" /\ pc' = "clean" /\ rounds = 0 /\ Stay /\ todo' = todo
      /\ UNCHANGED <<drafts, verified, refineAt, rounds, final>> /\ exists' = exists
  BY DEF BeginRefinement, Go, RefineIInv, PlaceOK
<1>3. exists' \subseteq {"drafts", "verified"} /\ todo' \subseteq Attempt
  BY <1>2 DEF RefineIInv, RefineTypeOK
<1>4. QED
  BY <1>1, <1>2, <1>3, SamePlace

LEMMA GenerateHolds == ASSUME RefineIInv, Generate PROVE RefineIInv'
<1>1. /\ pc = "enter" /\ pc' = "batch" /\ Stay /\ todo' = Eligible(verified, drafts)
      /\ UNCHANGED <<drafts, verified, refineAt, rounds, final>> /\ exists' = exists
      /\ RefineStage = "refine_generate"
  BY DEF Generate, Go
<1>2. ~RefinementDone /\ Cleaned
  BY <1>1 DEF RefineIInv, PlaceOK, CleanedOK
<1>3. exists' \subseteq {"drafts", "verified"} /\ todo' \subseteq Attempt
  BY <1>1, EligibleAreAttempts DEF RefineIInv, RefineTypeOK
<1>4. managed /\ refineAt \in {1, 4}
  BY <1>1, <1>2, PlaceIs DEF RefineIInv
<1>5. ASSUME Steady, NEW d \in Unverified PROVE d.rev >= Generations + 1
  <2>1. d.rev \in Nat /\ d.rev >= 1 /\ ~AllVerified
    BY FilesAre DEF RefineIInv, Unverified, ValidDrafts, AllVerified
  <2>2. refineAt = 1
    BY <1>1, <1>4, <1>5, <2>1 DEF RefineIInv, DoneOK
  <2>3. QED
    BY <1>4, <2>1, <2>2, GenerationsAre
<1>6. QED
  BY <1>1, <1>2, <1>3, <1>4, <1>5, SamePlace

LEMMA EnterFinalizeHolds == ASSUME RefineIInv, EnterFinalize PROVE RefineIInv'
<1>1. /\ pc = "enter" /\ pc' = "finalize" /\ Stay /\ todo' = todo
      /\ UNCHANGED <<drafts, verified, refineAt, rounds, final>> /\ exists' = exists
      /\ RefineStage = "finalize"
  BY DEF EnterFinalize, Go
<1>2. ~RefinementDone /\ Cleaned
  BY <1>1 DEF RefineIInv, PlaceOK, CleanedOK
<1>3. exists' \subseteq {"drafts", "verified"} /\ todo' \subseteq Attempt
  BY <1>1 DEF RefineIInv, RefineTypeOK
<1>4. managed
  BY <1>1, <1>2, PlaceIs DEF RefineIInv
<1>5. QED
  BY <1>1, <1>2, <1>3, <1>4, SamePlace

(* The stage "refine" starts a batch when all that waits is verified.      *)
LEMMA StartBatchHolds ==
    ASSUME RefineIInv, RefineStage = "refine", pc \in {"enter", "verify"}, StartBatch, Stay,
           UNCHANGED <<drafts, verified, refineAt, rounds, final>>,
           exists' \subseteq {"drafts", "verified"}, AllVerified
    PROVE  RefineIInv'
<1>1. ~RefinementDone /\ Cleaned
  BY DEF RefineIInv, PlaceOK, CleanedOK
<1>2. ~managed
  BY <1>1, PlaceIs DEF RefineIInv
<1>3. rounds <= MaxRounds /\ rounds \in Nat
  <2>1. rounds \in 0..(MaxRounds + 1)
    BY DEF RefineIInv, RefineTypeOK
  <2>2. rounds <= MaxRounds
    BY <1>1, <1>2 DEF RefineIInv, PlaceOK
  <2>3. QED
    BY <2>1, <2>2, RefineAssumption
<1>4. todo' = Eligible(verified, drafts)
      /\ pc' = IF Eligible(verified, drafts) = {} THEN "finalize" ELSE "batch"
  BY <1>3 DEF StartBatch, Open, Go
<1>5. todo' \subseteq Attempt
  BY <1>4, EligibleAreAttempts DEF RefineIInv
<1>6. Steady /\ Generations = rounds /\ Unverified = {}
  BY <1>2, GenerationsAre DEF Steady, AllVerified, Unverified
<1>7. CASE Eligible(verified, drafts) = {}
  <2>1. pc' = "finalize" /\ NoneEligible
    BY <1>4, <1>7 DEF NoneEligible
  <2>2. QED
    BY <1>1, <1>2, <1>5, <2>1, SamePlace
<1>8. CASE Eligible(verified, drafts) # {}
  <2>1. pc' = "batch" /\ ~NoneEligible
    BY <1>4, <1>8 DEF NoneEligible
  <2>2. PICK a \in Eligible(verified, drafts) : TRUE
    BY <1>8
  <2>3. /\ a.base \in Bases /\ a.rev \in 0..(MaxRounds - 1) /\ Weak(a.base, a.rev)
        /\ ~Drafted(a.base, a.rev + 1)
    BY <1>1, EligibleIsWeak DEF RefineIInv
  <2>4. ~(a.rev < Generations)
    BY <1>6, <2>3 DEF RefineIInv, GenerationsOK
  <2>5. rounds < MaxRounds
    BY <1>3, <1>6, <2>3, <2>4, RefineAssumption
  <2>6. rounds > 0 => AllCurrent
    BY <1>2, <2>1 DEF RefineIInv, CurrentOK
  <2>7. QED
    BY <1>1, <1>2, <1>4, <1>5, <1>6, <2>1, <2>5, <2>6, SamePlace
<1>9. QED
  BY <1>7, <1>8

LEMMA SkipHolds == ASSUME RefineIInv, Skip PROVE RefineIInv'
<1>1. ~RefinementDone /\ RefineTypeOK
  BY DEF Skip, RefinementDone, RefineIInv, RefineTypeOK
<1>2. /\ NextStage /\ Stay /\ UNCHANGED <<drafts, verified>> /\ exists' = exists /\ final' = final
      /\ ProbeDone
  BY DEF Skip
<1>3. exists' \subseteq {"drafts", "verified"} /\ final' \subseteq Attempt
  BY <1>2 DEF RefineIInv, RefineTypeOK
<1>4. RefineStage \in {"refine_generate", "refine_verify"}
  BY <1>2 DEF ProbeDone
<1>5. managed /\ refineAt \in {1, 3, 4, 6}
  BY <1>1, <1>4, PlaceIs
<1>6. RefineStage = "refine_generate" => NoneEligible
  BY <1>2 DEF ProbeDone, NoneEligible
<1>7. RefineStage = "refine_verify" => AllCurrent /\ AllVerified
  <2> SUFFICES ASSUME RefineStage = "refine_verify" PROVE AllCurrent /\ AllVerified
    OBVIOUS
  <2>1. CurrentVerified(verified) = verified /\ {v.draft : v \in verified} = ValidDrafts
    BY <1>2 DEF ProbeDone
  <2>2. AllCurrent
    BY <2>1 DEF CurrentVerified, AllCurrent
  <2>3. AllVerified
    BY <2>1 DEF AllVerified
  <2>4. QED
    BY <2>2, <2>3
<1>8. /\ RefineStage = "refine_generate" <=> refineAt \in {1, 4}
      /\ RefineStage = "refine_verify" <=> refineAt \in {3, 6}
  BY <1>1, <1>5, PlaceIs
<1>9. refineAt # Len(Script) /\ refineAt # 2
  BY <1>5, ScriptIs
<1>10. QED
  BY <1>1, <1>2, <1>3, <1>5, <1>6, <1>7, <1>8, <1>9, NextStageHolds

LEMMA RegroundDraftsHolds == ASSUME RefineIInv, RegroundDrafts PROVE RefineIInv'
<1>1. /\ pc = "enter" /\ RefineStage = "refine_reground" /\ NextStage /\ Stay
      /\ UNCHANGED <<drafts, verified>> /\ exists' = exists /\ final' = final
  BY DEF RegroundDrafts
<1>2. ~RefinementDone /\ Cleaned /\ RefineTypeOK
  BY <1>1 DEF RefineIInv, PlaceOK, CleanedOK
<1>3. managed /\ refineAt \in {2, 5}
  BY <1>1, <1>2, PlaceIs
<1>4. exists' \subseteq {"drafts", "verified"} /\ final' \subseteq Attempt
  BY <1>1 DEF RefineIInv, RefineTypeOK
<1>5. refineAt \notin {1, 4} /\ refineAt \notin {3, 6} /\ refineAt # Len(Script)
  BY <1>3, ScriptIs
<1>6. QED
  BY <1>1, <1>2, <1>3, <1>4, <1>5, NextStageHolds

LEMMA FinalizeHolds == ASSUME RefineIInv, Finalize PROVE RefineIInv'
<1>1. /\ pc = "finalize" /\ final' = Latest(verified) /\ NextStage /\ Stay
      /\ UNCHANGED <<drafts, verified>>
      /\ exists' = IF RefineStage = "refine" THEN exists \cup {"verified"} ELSE exists
  BY DEF Finalize
<1>2. ~RefinementDone /\ Cleaned /\ RefineTypeOK /\ RefineStage \in {"finalize", "refine"}
  BY <1>1 DEF RefineIInv, PlaceOK, CleanedOK
<1>3. exists' \subseteq {"drafts", "verified"} /\ final' \subseteq Attempt
  BY <1>1, <1>2, EligibleAreAttempts DEF RefineTypeOK
<1>4. ASSUME managed PROVE refineAt \notin {1, 4} /\ refineAt \notin {3, 6}
  BY <1>2, <1>4, PlaceIs
<1>5. ASSUME ~managed PROVE AllVerified /\ NoneEligible
  BY <1>1, <1>5 DEF RefineIInv, DoneOK
<1>6. QED
  BY <1>1, <1>2, <1>3, <1>4, <1>5, NextStageHolds

LEMMA BatchIsDone ==
    ASSUME RefineIInv, pc = "batch", todo = {} PROVE NoneEligible
BY DEF RefineIInv, BatchOK, NoneEligible

(* The loop of "refine" goes on after a batch: one generation more.        *)
LEMMA NextRoundHolds ==
    ASSUME RefineIInv, pc = "batch", todo = {}, RefineStage = "refine", Stay,
           UNCHANGED <<drafts, verified, refineAt, todo, final>>,
           exists' \subseteq {"drafts", "verified"}, pc' = "enter", rounds' = rounds + 1
    PROVE  RefineIInv'
<1>1. ~RefinementDone /\ Cleaned /\ RefineTypeOK
  BY DEF RefineIInv, PlaceOK, CleanedOK
<1>2. ~managed
  BY <1>1, PlaceIs
<1>3. NoneEligible
  BY BatchIsDone
<1>4. rounds \in Nat /\ rounds < MaxRounds
  <2>1. rounds \in 0..(MaxRounds + 1)
    BY <1>1 DEF RefineTypeOK
  <2>2. rounds < MaxRounds
    BY <1>2 DEF RefineIInv, BatchOK
  <2>3. QED
    BY <2>1, <2>2, RefineAssumption
<1>5. /\ refineAt' = refineAt /\ final' = final /\ todo' = {}
      /\ drafts' = drafts /\ verified' = verified /\ initial' = initial /\ prompt' = prompt
      /\ refineEdits' = refineEdits /\ refineFaults' = refineFaults
  BY DEF Stay
<1>6. /\ managed' <=> managed
      /\ stale' <=> stale
      /\ managed' = managed
      /\ stale' = stale
  BY DEF Stay
<1>7. /\ Bases' = Bases /\ ValidDrafts' = ValidDrafts /\ Unverified' = Unverified
      /\ Cleaned' <=> Cleaned
      /\ AllCurrent' <=> AllCurrent
      /\ NoneEligible' <=> NoneEligible
      /\ RevisionsOK' <=> RevisionsOK
      /\ VerificationsOK' <=> VerificationsOK
  BY <1>5, SameFiles
<1>8. Script' = Script /\ Len(Script') = Len(Script) /\ RefineStage' = RefineStage
  BY <1>5, <1>6, ScriptStays DEF RefineStage
<1>9. ~RefinementDone'
  BY <1>1, <1>5, <1>8 DEF RefinementDone
<1>10. Generations = rounds /\ Generations' = rounds + 1
  BY <1>2, <1>6, GenerationsAre, GenerationsAreNow
<1>11. RefineTypeOK'
  <2>1. refineAt' \in 1..(Len(Script') + 1)
    BY <1>1, <1>5, <1>8 DEF RefineTypeOK
  <2>2. /\ initial' \in [Base -> Opinions] /\ prompt' \in 0..MaxRefineEdits
        /\ drafts' \subseteq Draft /\ verified' \subseteq Verification
        /\ refineEdits' \in 0..MaxRefineEdits /\ refineFaults' \in 0..MaxRefineFaults
        /\ final' \subseteq Attempt
    BY <1>1, <1>5 DEF RefineTypeOK
  <2>3. rounds' \in 0..(MaxRounds + 1)
    BY <1>4, RefineAssumption
  <2>4. managed' \in BOOLEAN /\ stale' \in BOOLEAN
    BY <1>1, <1>6 DEF RefineTypeOK
  <2>5. QED
    BY <1>5, <2>1, <2>2, <2>3, <2>4 DEF RefineTypeOK
<1>12. RevisionsOK' /\ VerificationsOK'
  BY <1>7 DEF RefineIInv
<1>13. PlaceOK'
  <2>1. prompt' <= refineEdits'
    BY <1>5 DEF RefineIInv, PlaceOK
  <2>2. rounds' <= MaxRounds
    BY <1>4, RefineAssumption
  <2>3. QED
    BY <1>2, <1>6, <1>9, <2>1, <2>2 DEF PlaceOK
<1>14. CleanedOK'
  BY <1>1, <1>7 DEF CleanedOK
<1>15. GenerationsOK'
  <2> SUFFICES ASSUME NEW b \in Bases, NEW k \in 0..(MaxRounds - 1),
                      k < rounds + 1, Weak(b, k)'
               PROVE  Drafted(b, k + 1)'
    BY <1>7, <1>10 DEF GenerationsOK
  <2>1. Weak(b, k) /\ (Drafted(b, k + 1)' <=> Drafted(b, k + 1))
    BY <1>5, SameWeak
  <2>2. QED
    BY <1>1, <1>3, <2>1, GenerationComplete
<1>16. UnverifiedOK'
  <2> SUFFICES ASSUME NEW d \in Unverified PROVE d.rev >= rounds + 1
    BY <1>7, <1>10 DEF UnverifiedOK
  <2>1. QED
    BY <1>2, <1>10 DEF RefineIInv, UnverifiedOK, Steady
<1>17. CurrentOK'
  <2>1. rounds > 0 => AllCurrent
    BY <1>2 DEF RefineIInv, CurrentOK
  <2>2. rounds + 1 = 1 \/ rounds > 0
    BY <1>4
  <2>3. QED
    BY <1>2, <1>3, <1>6, <1>7, <2>1, <2>2 DEF CurrentOK
<1>18. DoneOK'
  BY <1>2, <1>6, <1>9 DEF DoneOK
<1>19. BatchOK' /\ FinalOK'
  BY <1>9 DEF BatchOK, FinalOK
<1>20. QED
  BY <1>11, <1>12, <1>13, <1>14, <1>15, <1>16, <1>17, <1>18, <1>19 DEF RefineIInv

LEMMA EndBatchHolds == ASSUME RefineIInv, EndBatch PROVE RefineIInv'
<1>1. /\ pc = "batch" /\ todo = {} /\ Stay /\ UNCHANGED <<drafts, verified>> /\ final' = final
      /\ exists' \subseteq {"drafts", "verified"}
  BY DEF EndBatch, RefineIInv, RefineTypeOK
<1>2. ~RefinementDone /\ Cleaned /\ RefineTypeOK /\ NoneEligible
  BY <1>1, BatchIsDone DEF RefineIInv, PlaceOK, CleanedOK
<1>3. final' \subseteq Attempt
  BY <1>1, <1>2 DEF RefineTypeOK
<1>4. CASE RefineStage = "refine_generate" /\ NextStage
  <2>1. managed /\ refineAt \in {1, 4}
    BY <1>2, <1>4, PlaceIs
  <2>2. refineAt # 2 /\ refineAt \notin {3, 6} /\ refineAt # Len(Script)
    BY <2>1, ScriptIs
  <2>3. QED
    BY <1>1, <1>2, <1>3, <1>4, <2>1, <2>2, NextStageHolds
<1>5. CASE RefineStage = "refine" /\ Go("enter") /\ rounds' = rounds + 1 /\ UNCHANGED <<refineAt, todo>>
  <2>1. pc' = "enter"
    BY <1>5 DEF Go
  <2>2. QED
    BY <1>1, <1>5, <2>1, NextRoundHolds
<1>6. QED
  BY <1>4, <1>5 DEF EndBatch

LEMMA EndVerifyHolds == ASSUME RefineIInv, EndVerify PROVE RefineIInv'
<1>1. /\ pc = "verify" /\ Unverified = {} /\ Stay /\ UNCHANGED <<drafts, verified>> /\ final' = final
      /\ exists' \subseteq {"drafts", "verified"}
  BY DEF EndVerify, RefineIInv, RefineTypeOK
<1>2. ~RefinementDone /\ Cleaned /\ RefineTypeOK /\ AllVerified /\ AllCurrent
  BY <1>1 DEF RefineIInv, PlaceOK, CleanedOK, CurrentOK, AllVerified, Unverified
<1>3. final' \subseteq Attempt
  BY <1>1, <1>2 DEF RefineTypeOK
<1>4. CASE RefineStage = "refine_verify" /\ NextStage
  <2>1. managed /\ refineAt \in {3, 6}
    BY <1>2, <1>4, PlaceIs
  <2>2. refineAt # 2 /\ refineAt \notin {1, 4} /\ refineAt # Len(Script)
    BY <2>1, ScriptIs
  <2>3. QED
    BY <1>1, <1>2, <1>3, <1>4, <2>1, <2>2, NextStageHolds
<1>5. CASE RefineStage = "refine" /\ StartBatch /\ UNCHANGED <<refineAt, rounds>>
  BY <1>1, <1>2, <1>5, StartBatchHolds
<1>6. QED
  BY <1>4, <1>5 DEF EndVerify

LEMMA RoundHolds == ASSUME RefineIInv, Round PROVE RefineIInv'
<1>1. /\ pc = "enter" /\ RefineStage = "refine" /\ StartBatch /\ Stay
      /\ UNCHANGED <<drafts, verified, refineAt, rounds, final>> /\ exists' = exists
      /\ ~(Open /\ Pending # {})
  BY DEF Round
<1>2. ~RefinementDone /\ RefineTypeOK
  BY <1>1 DEF RefineIInv, PlaceOK
<1>3. Open
  <2>1. ~managed
    BY <1>1, <1>2, PlaceIs
  <2>2. QED
    BY <1>2, <2>1 DEF RefineIInv, PlaceOK, Open
<1>4. AllVerified
  BY <1>1, <1>3 DEF Pending, AllVerified
<1>5. exists' \subseteq {"drafts", "verified"}
  BY <1>1, <1>2 DEF RefineTypeOK
<1>6. QED
  BY <1>1, <1>4, <1>5, StartBatchHolds

(* A step within a stage that writes one of the files.                     *)
LEMMA FilesStep ==
    ASSUME RefineIInv, ~RefinementDone, Stay, UNCHANGED <<refineAt, rounds, final>>,
           drafts' \subseteq Draft, verified' \subseteq Verification,
           exists' \subseteq {"drafts", "verified"}, todo' \subseteq Attempt,
           pc' \in {"clean_verified", "enter", "batch", "verify"},
           pc' \in {"clean_verified", "enter"} => rounds = 0,
           pc' = "clean_verified" => \A d \in drafts' : IsRooted(d)',
           pc = "batch" <=> pc' = "batch",
           pc' = "batch" => todo' = Eligible(verified, drafts)',
           pc' = "verify" => RefineStage \in {"refine_verify", "refine"} /\ AllCurrent',
           pc' # "clean_verified" => Cleaned',
           Cleaned => Cleaned',
           Cleaned /\ AllCurrent => AllCurrent',
           pc' \notin {"batch", "verify"} /\ Cleaned /\ AllVerified => AllVerified',
           RevisionsOK', VerificationsOK', GenerationsOK', UnverifiedOK'
    PROVE  RefineIInv'
<1>1. /\ refineAt' = refineAt /\ rounds' = rounds /\ final' = final
      /\ initial' = initial /\ prompt' = prompt
      /\ refineEdits' = refineEdits /\ refineFaults' = refineFaults
  BY DEF Stay
<1>2. /\ managed' <=> managed
      /\ stale' <=> stale
      /\ Steady' <=> Steady
      /\ managed' = managed
      /\ stale' = stale
  BY DEF Stay, Steady
<1>3. Script' = Script /\ Len(Script') = Len(Script) /\ RefineStage' = RefineStage
  BY <1>1, <1>2, ScriptStays DEF RefineStage
<1>4. ~RefinementDone'
  BY <1>1, <1>3 DEF RefinementDone
<1>5. RefineTypeOK'
  <2>1. refineAt' \in 1..(Len(Script') + 1)
    BY <1>1, <1>3 DEF RefineIInv, RefineTypeOK
  <2>2. /\ initial' \in [Base -> Opinions] /\ prompt' \in 0..MaxRefineEdits
        /\ refineEdits' \in 0..MaxRefineEdits /\ refineFaults' \in 0..MaxRefineFaults
        /\ rounds' \in 0..(MaxRounds + 1) /\ final' \subseteq Attempt
    BY <1>1 DEF RefineIInv, RefineTypeOK
  <2>3. managed' \in BOOLEAN /\ stale' \in BOOLEAN
    BY <1>2 DEF RefineIInv, RefineTypeOK
  <2>4. QED
    BY <2>1, <2>2, <2>3 DEF RefineTypeOK
<1>6. PlaceOK'
  <2>1. prompt' <= refineEdits' /\ (managed => rounds = 0)
        /\ (~managed => rounds <= MaxRounds)
        /\ (pc = "batch" => RefineStage \in {"refine_generate", "refine"})
    BY <1>1 DEF RefineIInv, PlaceOK
  <2>2. QED
    BY <1>1, <1>2, <1>3, <1>4, <2>1 DEF PlaceOK
<1>7. CleanedOK'
  <2>1. (managed /\ refineAt >= 3 => Cleaned) /\ (~stale => Cleaned)
    BY DEF RefineIInv, CleanedOK
  <2>2. QED
    BY <1>1, <1>2, <1>4, <2>1 DEF CleanedOK
<1>8. CurrentOK'
  <2>1. ASSUME managed, refineAt >= 4 PROVE AllCurrent'
    <3>1. AllCurrent
      BY <2>1 DEF RefineIInv, CurrentOK
    <3>2. refineAt >= 3
      BY ONLY <2>1, RefineIInv, PlaceIs DEF RefineIInv
    <3>3. QED
      BY <2>1, <3>1, <3>2 DEF RefineIInv, CleanedOK
  <2>2. ASSUME ~managed, rounds > 0 PROVE AllCurrent'
    <3>1. rounds # 0 /\ pc' \in {"batch", "verify"}
      BY <2>2 DEF RefineIInv, RefineTypeOK
    <3>2. CASE pc' = "batch"
      BY <2>2, <3>2 DEF RefineIInv, CurrentOK, CleanedOK
    <3>3. QED
      BY <3>1, <3>2
  <2>3. QED
    BY <1>1, <1>2, <2>1, <2>2 DEF CurrentOK
<1>9. DoneOK'
  <2>1. /\ managed /\ pc' = "verify" => refineAt \in {3, 6}
        /\ managed /\ pc' = "batch" => refineAt \in {1, 4}
    <3>1. pc' = "batch" => RefineStage \in {"refine_generate", "refine"}
      BY DEF RefineIInv, PlaceOK
    <3>2. QED
      BY <3>1, PlaceIs DEF RefineIInv
  <2>2. ASSUME managed, Steady, refineAt = 4 \/ refineAt >= 7, pc' \notin {"batch", "verify"}
        PROVE  AllVerified'
    <3>1. Cleaned
      BY <2>2 DEF RefineIInv, CleanedOK, Steady
    <3>2. pc # "batch"
      BY <2>2
    <3>3. AllVerified
      BY <2>2, <3>1, <3>2 DEF RefineIInv, DoneOK
    <3>4. QED
      BY <2>2, <3>1, <3>3
  <2>3. QED
    BY <1>1, <1>2, <1>4, <2>1, <2>2 DEF DoneOK
<1>10. BatchOK' /\ FinalOK'
  <2>1. pc' = "batch" /\ ~managed => rounds < MaxRounds
    BY DEF RefineIInv, BatchOK
  <2>2. QED
    BY <1>1, <1>2, <1>4, <2>1 DEF BatchOK, FinalOK
<1>11. QED
  BY <1>5, <1>6, <1>7, <1>8, <1>9, <1>10 DEF RefineIInv

(* What leaves the files when a stage begins, when all of it is rooted.    *)
LEMMA NothingToClean ==
    ASSUME Cleaned PROVE Rooted(drafts) = drafts /\ RootedVerified = verified
<1>1. Rooted(drafts) = drafts
  BY DEF Cleaned, IsRooted, Rooted
<1>2. \A v \in verified : v.draft \in Rooted({v.draft})
  BY DEF Cleaned, IsRooted, Rooted
<1>3. QED
  BY <1>1, <1>2 DEF RootedVerified

LEMMA RootedIs ==
    /\ \A d : d \in Rooted(drafts) <=> d \in drafts /\ IsRooted(d)
    /\ \A v : v \in RootedVerified <=> v \in verified /\ IsRooted(v.draft)
BY DEF Rooted, RootedVerified, IsRooted

(* Nothing is promised about generations before revisions of another first *)
(* verification have left.                                                 *)
LEMMA NotCleanedIsFirst ==
    ASSUME RefineIInv, ~Cleaned PROVE Steady => ~managed
BY DEF RefineIInv, CleanedOK, Steady

LEMMA CleanHolds == ASSUME RefineIInv, Clean PROVE RefineIInv'
<1>1. /\ pc = "clean" /\ pc' = "clean_verified" /\ drafts' = Rooted(drafts)
      /\ verified' = verified /\ initial' = initial /\ prompt' = prompt
      /\ managed' = managed /\ stale' = stale /\ exists' = exists /\ todo' = todo
      /\ Stay /\ UNCHANGED <<refineAt, rounds, final>>
  BY DEF Clean, Go, Stay
<1>2. ~RefinementDone /\ rounds = 0 /\ RefineTypeOK
  BY <1>1 DEF RefineIInv, PlaceOK
<1>3. /\ Bases' = Bases
      /\ \A d : IsRooted(d)' <=> IsRooted(d)
      /\ Steady' <=> Steady
      /\ Generations' = Generations
  BY <1>1, GenerationsStay DEF Bases, IsRooted, Steady
<1>4. CASE Cleaned
  <2>1. UNCHANGED <<drafts, verified, initial, prompt>>
    BY <1>1, <1>4, NothingToClean
  <2>2. /\ Cleaned'
        /\ AllCurrent' <=> AllCurrent
        /\ AllVerified' <=> AllVerified
        /\ RevisionsOK' /\ VerificationsOK'
        /\ Unverified' = Unverified
    BY <1>4, <2>1, SameFiles DEF RefineIInv
  <2>3. GenerationsOK'
    <3> SUFFICES ASSUME Steady, NEW b \in Bases, NEW k \in 0..(MaxRounds - 1),
                        k < Generations, Weak(b, k)'
                 PROVE  Drafted(b, k + 1)'
      BY <1>3 DEF GenerationsOK
    <3>1. QED
      BY <2>1, SameWeak DEF RefineIInv, GenerationsOK
  <2>4. UnverifiedOK'
    BY <1>1, <1>3, <2>2 DEF RefineIInv, UnverifiedOK
  <2>5. \A d \in drafts' : IsRooted(d)'
    BY <2>2 DEF Cleaned
  <2>6. drafts' \subseteq Draft /\ verified' \subseteq Verification
        /\ exists' \subseteq {"drafts", "verified"} /\ todo' \subseteq Attempt
    BY <1>1, <1>2, <2>1 DEF RefineTypeOK
  <2>7. QED
    BY <1>1, <1>2, <2>2, <2>3, <2>4, <2>5, <2>6, FilesStep
<1>5. CASE ~Cleaned
  <2>1. Steady => ~managed /\ Generations = 0
    BY <1>2, <1>5, NotCleanedIsFirst, GenerationsAre
  <2>2. RevisionsOK'
    <3>1. \A d \in drafts' : d \in drafts /\ d.root \in First
      BY <1>1, RootedIs DEF RefineIInv, RevisionsOK
    <3>2. \A d, e \in drafts' : d.base = e.base => d.root = e.root /\ (d.rev = e.rev => d = e)
      BY <3>1 DEF RefineIInv, RevisionsOK
    <3>3. ASSUME NEW d \in drafts', NEW k \in 1..d.rev PROVE Drafted(d.base, k)'
      <4>1. PICK e \in drafts : e.base = d.base /\ e.rev = k
        BY <3>1 DEF RefineIInv, RevisionsOK, Drafted
      <4>2. e.root = d.root
        BY <3>1, <4>1 DEF RefineIInv, RevisionsOK
      <4>3. e \in drafts'
        BY <1>1, <4>1, <4>2, RootedIs DEF IsRooted
      <4>4. QED
        BY <4>1, <4>3 DEF Drafted
    <3>4. QED
      BY <3>1, <3>2, <3>3 DEF RevisionsOK
  <2>3. VerificationsOK'
    BY <1>1, <1>3, RootedIs DEF RefineIInv, VerificationsOK
  <2>4. GenerationsOK'
    <3> SUFFICES ASSUME Steady, NEW k \in 0..(MaxRounds - 1), k < Generations PROVE FALSE
      BY <1>3 DEF GenerationsOK
    <3>1. QED
      BY ONLY <2>1, Steady, k \in 0..(MaxRounds - 1), k < Generations, RefineAssumption
  <2>5. UnverifiedOK'
    <3> SUFFICES ASSUME Steady, NEW d \in Unverified' PROVE d.rev >= 0
      BY <1>1, <1>3, <2>1 DEF UnverifiedOK
    <3>1. d \in drafts
      BY <1>1, RootedIs DEF Unverified, ValidDrafts
    <3>2. QED
      BY <1>2, <3>1, FilesAre, RefineAssumption
  <2>6. \A d \in drafts' : IsRooted(d)'
    BY <1>1, <1>3, RootedIs
  <2>7. drafts' \subseteq Draft /\ verified' \subseteq Verification
        /\ exists' \subseteq {"drafts", "verified"} /\ todo' \subseteq Attempt
    BY <1>1, <1>2, RootedIs DEF RefineTypeOK
  <2>8. QED
    BY <1>1, <1>2, <1>5, <2>2, <2>3, <2>4, <2>5, <2>6, <2>7, FilesStep
<1>6. QED
  BY <1>4, <1>5

LEMMA CleanVerifiedHolds == ASSUME RefineIInv, CleanVerified PROVE RefineIInv'
<1>1. /\ pc = "clean_verified" /\ pc' = "enter" /\ drafts' = drafts
      /\ verified' = RootedVerified /\ initial' = initial /\ prompt' = prompt
      /\ managed' = managed /\ stale' = stale /\ exists' = exists /\ todo' = todo
      /\ Stay /\ UNCHANGED <<refineAt, rounds, final>>
  BY DEF CleanVerified, Go, Stay
<1>2. ~RefinementDone /\ rounds = 0 /\ RefineTypeOK /\ \A d \in drafts : IsRooted(d)
  BY <1>1 DEF RefineIInv, PlaceOK, CleanedOK
<1>3. /\ Bases' = Bases /\ ValidDrafts' = ValidDrafts
      /\ \A d : IsRooted(d)' <=> IsRooted(d)
      /\ Steady' <=> Steady
      /\ Generations' = Generations
  BY <1>1, GenerationsStay DEF Bases, IsRooted, Steady, ValidDrafts
<1>4. CASE Cleaned
  <2>1. UNCHANGED <<drafts, verified, initial, prompt>>
    BY <1>1, <1>4, NothingToClean
  <2>2. /\ Cleaned'
        /\ AllCurrent' <=> AllCurrent
        /\ AllVerified' <=> AllVerified
        /\ RevisionsOK' /\ VerificationsOK'
        /\ Unverified' = Unverified
    BY <1>4, <2>1, SameFiles DEF RefineIInv
  <2>3. GenerationsOK'
    <3> SUFFICES ASSUME Steady, NEW b \in Bases, NEW k \in 0..(MaxRounds - 1),
                        k < Generations, Weak(b, k)'
                 PROVE  Drafted(b, k + 1)'
      BY <1>3 DEF GenerationsOK
    <3>1. QED
      BY <2>1, SameWeak DEF RefineIInv, GenerationsOK
  <2>4. UnverifiedOK'
    BY <1>1, <1>3, <2>2 DEF RefineIInv, UnverifiedOK
  <2>6. drafts' \subseteq Draft /\ verified' \subseteq Verification
        /\ exists' \subseteq {"drafts", "verified"} /\ todo' \subseteq Attempt
    BY <1>1, <1>2, <2>1 DEF RefineTypeOK
  <2>7. QED
    BY <1>1, <1>2, <2>2, <2>3, <2>4, <2>6, FilesStep
<1>5. CASE ~Cleaned
  <2>1. Steady => ~managed /\ Generations = 0
    BY <1>2, <1>5, NotCleanedIsFirst, GenerationsAre
  <2>2. RevisionsOK'
    BY <1>1 DEF RefineIInv, RevisionsOK, Drafted
  <2>3. VerificationsOK'
    BY <1>1, <1>3, RootedIs DEF RefineIInv, VerificationsOK
  <2>4. GenerationsOK'
    <3> SUFFICES ASSUME Steady, NEW k \in 0..(MaxRounds - 1), k < Generations PROVE FALSE
      BY <1>3 DEF GenerationsOK
    <3>1. QED
      BY ONLY <2>1, Steady, k \in 0..(MaxRounds - 1), k < Generations, RefineAssumption
  <2>5. UnverifiedOK'
    <3> SUFFICES ASSUME Steady, NEW d \in Unverified' PROVE d.rev >= 0
      BY <1>1, <1>3, <2>1 DEF UnverifiedOK
    <3>1. d \in drafts
      BY <1>1 DEF Unverified, ValidDrafts
    <3>2. QED
      BY <1>2, <3>1, FilesAre, RefineAssumption
  <2>6. Cleaned'
    BY <1>1, <1>2, <1>3, RootedIs DEF Cleaned
  <2>7. drafts' \subseteq Draft /\ verified' \subseteq Verification
        /\ exists' \subseteq {"drafts", "verified"} /\ todo' \subseteq Attempt
    BY <1>1, <1>2, RootedIs DEF RefineTypeOK
  <2>8. QED
    BY <1>1, <1>2, <1>5, <2>2, <2>3, <2>4, <2>5, <2>6, <2>7, FilesStep
<1>6. QED
  BY <1>4, <1>5

(* A revision is written: it is the next of its target, and the only one.  *)
LEMMA AppendRevisionHolds == ASSUME RefineIInv, AppendRevision PROVE RefineIInv'
<1>1. PICK a \in todo, w \in Words \cup {"invalid"} :
          drafts' = drafts \cup {Revision(a, w)} /\ todo' = todo \ {a}
  BY DEF AppendRevision
<1>2. /\ pc = "batch" /\ pc' = "batch"
      /\ verified' = verified /\ initial' = initial /\ prompt' = prompt
      /\ managed' = managed /\ stale' = stale /\ exists' = exists \cup {"drafts"}
      /\ Stay /\ UNCHANGED <<refineAt, rounds, final>>
  BY DEF AppendRevision, Stay
<1>3. ~RefinementDone /\ Cleaned /\ RefineTypeOK /\ RevisionsOK /\ VerificationsOK
      /\ todo = Eligible(verified, drafts)
  BY <1>2 DEF RefineIInv, PlaceOK, CleanedOK, BatchOK
<1>4. /\ Bases' = Bases
      /\ \A d : IsRooted(d)' <=> IsRooted(d)
      /\ Steady' <=> Steady
      /\ Generations' = Generations
  BY <1>2, GenerationsStay DEF Bases, IsRooted, Steady
<1>5. /\ a.base \in Bases /\ a.root = initial[a.base] /\ a.root \in First
      /\ a.rev \in 0..(MaxRounds - 1) /\ a.rev \in Nat
      /\ Weak(a.base, a.rev) /\ ~Drafted(a.base, a.rev + 1)
      /\ a.rev > 0 => Drafted(a.base, a.rev)
  BY <1>1, <1>3, EligibleIsWeak
<1> DEFINE r == Revision(a, w)
<1>6. r.base = a.base /\ r.rev = a.rev + 1 /\ r.root = a.root /\ r.words = w
  BY DEF Revision
<1>7. r \in Draft
  <2>1. a.base \in Base /\ a.root \in Opinions
    BY <1>5, FilesAre, <1>3 DEF Bases
  <2>2. a.rev + 1 \in 1..MaxRounds
    BY <1>5, RefineAssumption
  <2>3. QED
    BY <2>1, <2>2 DEF Revision, Draft
<1>8. \A d : d \in drafts' <=> d \in drafts \/ d = r
  BY <1>1
<1> HIDE DEF r
<1>9. Cleaned'
  BY <1>2, <1>3, <1>4, <1>5, <1>6, <1>8 DEF Cleaned, IsRooted
<1>10. \A b, k : Drafted(b, k)' <=> Drafted(b, k) \/ (b = a.base /\ k = a.rev + 1)
  BY <1>6, <1>8 DEF Drafted
<1>11. RevisionsOK'
  <2>1. \A d \in drafts' : d.root \in First
    BY <1>3, <1>5, <1>6, <1>8 DEF RevisionsOK
  <2>2. ASSUME NEW d \in drafts, d.base = a.base PROVE d.root = a.root /\ d.rev # a.rev + 1
    BY <1>3, <1>5, <2>2 DEF Cleaned, IsRooted, Drafted
  <2>3. \A d, e \in drafts' : d.base = e.base => d.root = e.root /\ (d.rev = e.rev => d = e)
    BY <1>3, <1>6, <1>8, <2>2 DEF RevisionsOK
  <2>4. ASSUME NEW d \in drafts', NEW k \in 1..d.rev PROVE Drafted(d.base, k)'
    <3>1. CASE d \in drafts
      BY <1>3, <1>10, <3>1 DEF RevisionsOK
    <3>2. CASE d = r /\ k # a.rev + 1
      <4>1. k \in 1..a.rev /\ a.rev > 0
        BY <1>5, <1>6, <3>2
      <4>2. PICK e \in drafts : e.base = a.base /\ e.rev = a.rev
        BY <1>5, <4>1 DEF Drafted
      <4>3. Drafted(a.base, k)
        BY <1>3, <4>1, <4>2 DEF RevisionsOK
      <4>4. QED
        BY <1>6, <1>10, <3>2, <4>3
    <3>3. CASE d = r /\ k = a.rev + 1
      BY <1>6, <1>10, <3>3
    <3>4. QED
      BY <1>8, <3>1, <3>2, <3>3
  <2>5. QED
    BY <2>1, <2>3, <2>4 DEF RevisionsOK
<1>12. VerificationsOK'
  BY <1>2, <1>3, <1>4, <1>8 DEF VerificationsOK
<1>13. GenerationsOK'
  <2> SUFFICES ASSUME Steady, NEW b \in Bases, NEW k \in 0..(MaxRounds - 1),
                      k < Generations, Weak(b, k)'
               PROVE  Drafted(b, k + 1)'
    BY <1>4 DEF GenerationsOK
  <2>1. Weak(b, k)
    BY <1>2 DEF Weak
  <2>2. QED
    BY <1>10, <2>1 DEF RefineIInv, GenerationsOK
<1>14. UnverifiedOK'
  <2> SUFFICES ASSUME Steady, NEW d \in Unverified' PROVE d.rev >= Generations + 1
    BY <1>2, <1>4 DEF UnverifiedOK
  <2>1. d \in Unverified \/ d = r
    BY <1>2, <1>8 DEF Unverified, ValidDrafts
  <2>2. CASE d \in Unverified
    BY <1>2, <2>2 DEF RefineIInv, UnverifiedOK
  <2>3. CASE d = r
    <3>1. ~(a.rev < Generations)
      BY <1>5 DEF RefineIInv, GenerationsOK
    <3>2. Generations \in Nat
      BY <1>3 DEF Generations, RefineTypeOK
    <3>3. QED
      BY <1>5, <1>6, <2>3, <3>1, <3>2
  <2>4. QED
    BY <2>1, <2>2, <2>3
<1>15. todo' = Eligible(verified, drafts)'
  <2> SUFFICES ASSUME NEW x PROVE x \in todo' <=> x \in Eligible(verified, drafts)'
    OBVIOUS
  <2>1. Latest(verified)' = Latest(verified)
    BY <1>2, <1>4 DEF Latest, Attempts, FirstAttempt, AttemptOf
  <2>2. x \in Eligible(verified, drafts)' <=>
           /\ x \in Latest(verified)
           /\ x.opinion \in First \cup {"weak"} /\ x.rev < MaxRounds
           /\ ~Drafted(x.base, x.rev + 1)'
    BY <2>1 DEF Eligible, Drafted
  <2>3. x \in Eligible(verified, drafts) <=>
           /\ x \in Latest(verified)
           /\ x.opinion \in First \cup {"weak"} /\ x.rev < MaxRounds
           /\ ~Drafted(x.base, x.rev + 1)
    BY DEF Eligible, Drafted
  <2>4. a \in Latest(verified)
    BY <1>1, <1>3 DEF Eligible
  <2>5. ASSUME x \in Latest(verified), x.base = a.base PROVE x = a
    BY <1>3, <2>4, <2>5, LatestIsOne
  <2>6. QED
    BY <1>1, <1>3, <1>10, <2>2, <2>3, <2>5
<1>16. AllCurrent => AllCurrent'
  BY <1>2, <1>8 DEF AllCurrent, ValidDrafts
<1>17. drafts' \subseteq Draft /\ verified' \subseteq Verification
       /\ exists' \subseteq {"drafts", "verified"} /\ todo' \subseteq Attempt
  BY <1>1, <1>2, <1>3, <1>7, <1>8 DEF RefineTypeOK
<1>18. QED
  BY <1>2, <1>3, <1>9, <1>11, <1>12, <1>13, <1>14, <1>15, <1>16, <1>17, FilesStep

(* What is no longer current is verified again.                            *)
LEMMA EnterVerifyHolds ==
    ASSUME RefineIInv, pc = "enter", RefineStage \in {"refine_verify", "refine"}, EnterVerify
    PROVE  RefineIInv'
<1>1. /\ pc' = "verify" /\ verified' = CurrentVerified(verified) /\ drafts' = drafts
      /\ initial' = initial /\ prompt' = prompt
      /\ managed' = managed /\ stale' = stale /\ exists' = exists /\ todo' = todo
      /\ Stay /\ UNCHANGED <<refineAt, rounds, final>>
  BY DEF EnterVerify, Go, Stay
<1>2. ~RefinementDone /\ Cleaned /\ RefineTypeOK
  BY DEF RefineIInv, PlaceOK, CleanedOK
<1>3. /\ Bases' = Bases /\ ValidDrafts' = ValidDrafts
      /\ \A d : IsRooted(d)' <=> IsRooted(d)
      /\ Steady' <=> Steady
      /\ Generations' = Generations
  BY <1>1, GenerationsStay DEF Bases, IsRooted, Steady, ValidDrafts
<1>4. \A v : v \in verified' <=> v \in verified /\ v.draft \in ValidDrafts /\ v.prompt = prompt
  BY <1>1 DEF CurrentVerified
<1>5. AllCurrent'
  BY <1>1, <1>3, <1>4 DEF AllCurrent
<1>6. Cleaned'
  BY <1>1, <1>2, <1>3, <1>4 DEF Cleaned
<1>7. RevisionsOK'
  BY <1>1 DEF RefineIInv, RevisionsOK, Drafted
<1>8. VerificationsOK'
  BY <1>1, <1>3, <1>4 DEF RefineIInv, VerificationsOK
<1>9. GenerationsOK'
  <2> SUFFICES ASSUME Steady, NEW b \in Bases, NEW k \in 0..(MaxRounds - 1),
                      k < Generations, Weak(b, k)'
               PROVE  Drafted(b, k + 1)'
    BY <1>3 DEF GenerationsOK
  <2>1. Weak(b, k)
    BY <1>1, <1>4 DEF Weak
  <2>2. Drafted(b, k + 1)' <=> Drafted(b, k + 1)
    BY <1>1 DEF Drafted
  <2>3. QED
    BY <2>1, <2>2 DEF RefineIInv, GenerationsOK
<1>10. UnverifiedOK'
  <2> SUFFICES ASSUME Steady, NEW d \in Unverified' PROVE d.rev >= Generations
    BY <1>1, <1>3 DEF UnverifiedOK
  <2>1. d \in ValidDrafts /\ d \in drafts /\ d.rev \in Nat /\ d.rev >= 1
    BY <1>2, <1>3, FilesAre, RefineAssumption DEF Unverified, ValidDrafts
  <2>2. CASE d \in Unverified
    BY <2>2 DEF RefineIInv, UnverifiedOK
  <2>3. CASE d \notin Unverified
    <3>1. PICK v \in verified : v.draft = d
      BY <2>1, <2>3 DEF Unverified
    <3>2. ~AllCurrent
      BY <1>1, <1>4, <2>1, <3>1 DEF AllCurrent, Unverified
    <3>3. CASE managed
      <4>1. refineAt \in {3, 6} /\ refineAt # 6
        <5>1. refineAt \in {3, 6}
          BY <1>2, <3>3, PlaceIs
        <5>2. QED
          BY <3>2, <3>3, <5>1 DEF RefineIInv, CurrentOK
      <4>2. Generations = 1
        BY <3>3, <4>1, GenerationsAre
      <4>3. QED
        BY <2>1, <4>2
    <3>4. CASE ~managed
      <4>1. Generations = rounds
        BY <3>4, GenerationsAre
      <4>2. rounds = 1 \/ ~(rounds > 0)
        BY <3>2, <3>4 DEF RefineIInv, CurrentOK
      <4>3. rounds \in Nat
        BY <1>2, RefineAssumption DEF RefineTypeOK
      <4>4. QED
        BY <2>1, <4>1, <4>2, <4>3
    <3>5. QED
      BY <3>3, <3>4
  <2>4. QED
    BY <2>2, <2>3
<1>11. drafts' \subseteq Draft /\ verified' \subseteq Verification
       /\ exists' \subseteq {"drafts", "verified"} /\ todo' \subseteq Attempt
  BY <1>1, <1>2, <1>4 DEF RefineTypeOK
<1>12. QED
  BY <1>1, <1>2, <1>5, <1>6, <1>7, <1>8, <1>9, <1>10, <1>11, FilesStep

LEMMA VerifyHolds == ASSUME RefineIInv, Verify PROVE RefineIInv'
BY EnterVerifyHolds DEF Verify

LEMMA DrainRoundHolds == ASSUME RefineIInv, DrainRound PROVE RefineIInv'
BY EnterVerifyHolds DEF DrainRound

(* A revision is verified: once, with the prompt on file.                  *)
LEMMA AnswerHolds == ASSUME RefineIInv, Answer PROVE RefineIInv'
<1>1. PICK d \in Unverified, opinion \in {"accepted", "weak", "refused", "invalid"} :
          verified' = verified \cup {[draft |-> d, prompt |-> prompt, opinion |-> opinion]}
  BY DEF Answer
<1>2. /\ pc = "verify" /\ pc' = "verify" /\ drafts' = drafts
      /\ initial' = initial /\ prompt' = prompt /\ todo' = todo
      /\ managed' = managed /\ stale' = stale /\ exists' = exists \cup {"verified"}
      /\ Stay /\ UNCHANGED <<refineAt, rounds, final>>
  BY DEF Answer, Stay
<1>3. ~RefinementDone /\ Cleaned /\ RefineTypeOK /\ AllCurrent
      /\ RefineStage \in {"refine_verify", "refine"}
  BY <1>2 DEF RefineIInv, PlaceOK, CleanedOK, CurrentOK
<1>4. /\ Bases' = Bases /\ ValidDrafts' = ValidDrafts
      /\ \A e : IsRooted(e)' <=> IsRooted(e)
      /\ Steady' <=> Steady
      /\ Generations' = Generations
  BY <1>2, GenerationsStay DEF Bases, IsRooted, Steady, ValidDrafts
<1> DEFINE new == [draft |-> d, prompt |-> prompt, opinion |-> opinion]
<1>5. new.draft = d /\ new.prompt = prompt /\ new.opinion = opinion
  OBVIOUS
<1>6. d \in ValidDrafts /\ d \in drafts /\ \A v \in verified : v.draft # d
  BY DEF Unverified, ValidDrafts
<1>7. new \in Verification
  <2>1. d \in Draft /\ prompt \in 0..MaxRefineEdits
    BY <1>3, <1>6, FilesAre DEF RefineTypeOK
  <2>2. QED
    BY <2>1 DEF Verification
<1>8. \A v : v \in verified' <=> v \in verified \/ v = new
  BY <1>1
<1> HIDE DEF new
<1>9. AllCurrent'
  BY <1>2, <1>3, <1>4, <1>5, <1>6, <1>8 DEF AllCurrent
<1>10. Cleaned'
  BY <1>2, <1>3, <1>4, <1>5, <1>6, <1>8 DEF Cleaned
<1>11. RevisionsOK'
  BY <1>2 DEF RefineIInv, RevisionsOK, Drafted
<1>12. VerificationsOK'
  <2>1. d.root \in First
    BY <1>6 DEF RefineIInv, RevisionsOK
  <2>2. \A v \in verified' : v.draft.root \in First
    BY <1>5, <1>8, <2>1 DEF RefineIInv, VerificationsOK
  <2>3. \A v, w \in verified' : v.draft = w.draft => v = w
    BY <1>5, <1>6, <1>8 DEF RefineIInv, VerificationsOK
  <2>4. \A v \in verified' : v.draft \in drafts' \/ ~IsRooted(v.draft)'
    BY <1>2, <1>4, <1>5, <1>6, <1>8 DEF RefineIInv, VerificationsOK
  <2>5. QED
    BY <2>2, <2>3, <2>4 DEF VerificationsOK
<1>13. GenerationsOK'
  <2> SUFFICES ASSUME Steady, NEW b \in Bases, NEW k \in 0..(MaxRounds - 1),
                      k < Generations, Weak(b, k)'
               PROVE  Drafted(b, k + 1)'
    BY <1>4 DEF GenerationsOK
  <2>1. d.rev >= Generations
    BY <1>2 DEF RefineIInv, UnverifiedOK
  <2>2. Weak(b, k)
    <3>1. new.draft.rev # k
      <4>1. d.rev \in Nat
        BY <1>3, <1>6, FilesAre, RefineAssumption
      <4>2. Generations \in Nat
        BY <1>3 DEF Generations, RefineTypeOK
      <4>3. QED
        BY <1>5, <2>1, <4>1, <4>2, RefineAssumption
    <3>2. QED
      BY <1>2, <1>8, <3>1 DEF Weak
  <2>3. Drafted(b, k + 1)' <=> Drafted(b, k + 1)
    BY <1>2 DEF Drafted
  <2>4. QED
    BY <2>2, <2>3 DEF RefineIInv, GenerationsOK
<1>14. UnverifiedOK'
  <2> SUFFICES ASSUME Steady, NEW e \in Unverified' PROVE e.rev >= Generations
    BY <1>2, <1>4 DEF UnverifiedOK
  <2>1. e \in Unverified
    BY <1>4, <1>8 DEF Unverified
  <2>2. QED
    BY <1>2, <2>1 DEF RefineIInv, UnverifiedOK
<1>15. drafts' \subseteq Draft /\ verified' \subseteq Verification
       /\ exists' \subseteq {"drafts", "verified"} /\ todo' \subseteq Attempt
  BY <1>2, <1>3, <1>7, <1>8 DEF RefineTypeOK
<1>16. QED
  BY <1>2, <1>3, <1>9, <1>10, <1>11, <1>12, <1>13, <1>14, <1>15, FilesStep

(* A pass begins again: no generation of revisions counts as complete.     *)
LEMMA RewindHolds ==
    ASSUME RefineIInv, Rewind, UNCHANGED <<managed, drafts, verified, exists, final>>,
           initial' \in [Base -> Opinions], prompt' \in 0..MaxRefineEdits,
           refineEdits' \in 0..MaxRefineEdits, refineFaults' \in 0..MaxRefineFaults,
           prompt' <= refineEdits', stale' \in BOOLEAN,
           VerificationsOK', ~stale' => Cleaned'
    PROVE  RefineIInv'
<1>1. /\ refineAt' = 1 /\ pc' = "start" /\ todo' = {} /\ rounds' = 0
      /\ drafts' = drafts /\ verified' = verified /\ exists' = exists /\ final' = final
      /\ managed' = managed
      /\ managed' <=> managed
  BY DEF Rewind, Go
<1>2. Script' = Script /\ Len(Script') \in Nat /\ Len(Script') >= 1
  BY <1>1, ScriptStays, ScriptIs
<1>3. ~RefinementDone'
  <2>1. RefinementDone' <=> refineAt' > Len(Script')
    BY DEF RefinementDone
  <2>2. QED
    BY ONLY <1>1, <1>2, <2>1
<1>4. Generations' = 0
  BY <1>1, GenerationsAreNow
<1>5. RefineTypeOK'
  <2>1. refineAt' \in 1..(Len(Script') + 1)
    BY ONLY <1>1, <1>2
  <2>2. rounds' \in 0..(MaxRounds + 1) /\ todo' \subseteq Attempt
    BY <1>1, RefineAssumption
  <2>3. drafts' \subseteq Draft /\ verified' \subseteq Verification /\ managed' \in BOOLEAN
        /\ exists' \subseteq {"drafts", "verified"} /\ final' \subseteq Attempt
    BY <1>1 DEF RefineIInv, RefineTypeOK
  <2>4. QED
    BY <1>1, <2>1, <2>2, <2>3 DEF RefineTypeOK
<1>6. RevisionsOK'
  BY <1>1 DEF RefineIInv, RevisionsOK, Drafted
<1>7. PlaceOK'
  <2>1. rounds' <= MaxRounds
    BY <1>1, RefineAssumption
  <2>2. QED
    BY <1>1, <1>3, <2>1 DEF PlaceOK
<1>8. CleanedOK'
  <2>1. ~(refineAt' >= 3)
    BY <1>1
  <2>2. QED
    BY <1>1, <1>3, <2>1 DEF CleanedOK
<1>9. GenerationsOK'
  <2> SUFFICES ASSUME NEW k \in 0..(MaxRounds - 1), k < 0 PROVE FALSE
    BY <1>4 DEF GenerationsOK
  <2>1. QED
    BY RefineAssumption
<1>10. UnverifiedOK'
  <2> SUFFICES ASSUME NEW d \in Unverified' PROVE d.rev >= 0
    BY <1>1, <1>4 DEF UnverifiedOK
  <2>1. d \in drafts
    BY <1>1 DEF Unverified, ValidDrafts
  <2>2. QED
    BY <2>1, FilesAre, RefineAssumption DEF RefineIInv
<1>11. CurrentOK'
  <2>1. ~(refineAt' >= 4) /\ ~(rounds' > 0)
    BY <1>1
  <2>2. QED
    BY <1>1, <2>1 DEF CurrentOK
<1>12. DoneOK'
  <2>1. refineAt' # 4 /\ ~(refineAt' >= 7)
    BY <1>1
  <2>2. QED
    BY <1>1, <1>3, <2>1 DEF DoneOK
<1>13. BatchOK' /\ FinalOK'
  BY <1>1, <1>3 DEF BatchOK, FinalOK
<1>14. QED
  BY <1>5, <1>6, <1>7, <1>8, <1>9, <1>10, <1>11, <1>12, <1>13 DEF RefineIInv

LEMMA RefineAbortHolds == ASSUME RefineIInv, RefineAbort PROVE RefineIInv'
<1>1. /\ Rewind /\ UNCHANGED <<managed, drafts, verified, exists, final, initial, prompt>>
      /\ refineEdits' = refineEdits /\ refineFaults' = refineFaults + 1
      /\ refineFaults < MaxRefineFaults
      /\ stale' = (drafts # Rooted(drafts) \/ verified # RootedVerified)
  BY DEF RefineAbort
<1>2. RefineTypeOK
  BY DEF RefineIInv
<1>3. refineFaults' \in 0..MaxRefineFaults
  <2>1. refineFaults \in 0..MaxRefineFaults
    BY <1>2 DEF RefineTypeOK
  <2>2. QED
    BY ONLY <1>1, <2>1, RefineAssumption
<1>4. VerificationsOK' /\ (Cleaned' <=> Cleaned)
  BY <1>1, SameFiles DEF RefineIInv
<1>5. ASSUME Rooted(drafts) = drafts, RootedVerified = verified PROVE Cleaned
  BY <1>5, RootedIs DEF Cleaned
<1>6. stale' \in BOOLEAN /\ (~stale' => Cleaned')
  BY <1>1, <1>4, <1>5
<1>7. /\ initial' \in [Base -> Opinions] /\ prompt' \in 0..MaxRefineEdits
      /\ refineEdits' \in 0..MaxRefineEdits
  BY <1>1, <1>2 DEF RefineTypeOK
<1>8. prompt' <= refineEdits'
  BY <1>1 DEF RefineIInv, PlaceOK
<1>9. QED
  BY <1>1, <1>3, <1>4, <1>6, <1>7, <1>8, RewindHolds

LEMMA NewRefinementHolds == ASSUME RefineIInv, NewRefinement PROVE RefineIInv'
<1>1. /\ Rewind /\ UNCHANGED <<managed, drafts, verified, exists, final>>
      /\ refineEdits' = refineEdits + 1 /\ refineFaults' = refineFaults
      /\ refineEdits < MaxRefineEdits
      /\ initial' \in [Base -> Opinions] /\ prompt' \in 0..refineEdits'
      /\ stale' = \E d \in drafts \cup {v.draft : v \in verified} : d.root # initial'[d.base]
      /\ RefinementDone
  BY DEF NewRefinement, RefinementDone
<1>2. RefineTypeOK /\ Cleaned /\ prompt <= refineEdits
  BY <1>1 DEF RefineIInv, CleanedOK, PlaceOK
<1>3. refineEdits' \in 0..MaxRefineEdits /\ prompt' \in 0..MaxRefineEdits
      /\ prompt' <= refineEdits' /\ refineFaults' \in 0..MaxRefineFaults
  <2>1. refineEdits \in 0..MaxRefineEdits /\ prompt \in 0..MaxRefineEdits
        /\ refineFaults \in 0..MaxRefineFaults
    BY <1>2 DEF RefineTypeOK
  <2>2. QED
    BY ONLY <1>1, <1>2, <2>1, RefineAssumption
<1>4. VerificationsOK'
  <2>1. \A v \in verified : v.draft \in drafts
    BY <1>2 DEF RefineIInv, VerificationsOK, Cleaned
  <2>2. QED
    BY <1>1, <2>1 DEF RefineIInv, VerificationsOK
<1>5. ASSUME ~stale' PROVE Cleaned'
  <2>1. ASSUME NEW d, d \in drafts \/ \E v \in verified : v.draft = d PROVE IsRooted(d)'
    <3>1. d.root = initial'[d.base]
      BY <1>1, <1>5, <2>1
    <3>2. d.root \in First
      BY <2>1 DEF RefineIInv, RevisionsOK, VerificationsOK
    <3>3. d.base \in Base
      BY <1>2, <2>1, FilesAre
    <3>4. d.base \in Bases'
      BY <3>1, <3>2, <3>3, RefineAssumption DEF Bases
    <3>5. QED
      BY <3>1, <3>4 DEF IsRooted
  <2>2. QED
    BY <1>1, <2>1 DEF Cleaned
<1>6. stale' \in BOOLEAN
  BY <1>1
<1>7. QED
  BY <1>1, <1>3, <1>4, <1>5, <1>6, RewindHolds

LEMMA RefineStutters == ASSUME RefineIInv, UNCHANGED refineVars PROVE RefineIInv'
<1>1. UNCHANGED <<managed, initial, prompt, drafts, verified, exists, refineAt, pc, todo, rounds,
                  final, stale, refineEdits, refineFaults>>
  BY DEF refineVars
<1>2. /\ Bases' = Bases /\ Unverified' = Unverified
      /\ Cleaned' <=> Cleaned
      /\ AllCurrent' <=> AllCurrent
      /\ AllVerified' <=> AllVerified
      /\ NoneEligible' <=> NoneEligible
      /\ Eligible(verified, drafts)' = Eligible(verified, drafts)
      /\ Latest(verified)' = Latest(verified)
      /\ RevisionsOK' <=> RevisionsOK
      /\ VerificationsOK' <=> VerificationsOK
      /\ Script' = Script /\ RefineStage' = RefineStage
      /\ RefinementDone' <=> RefinementDone
      /\ Generations' = Generations
      /\ Steady' <=> Steady
      /\ \A d : IsRooted(d)' <=> IsRooted(d)
  BY <1>1, SameFiles, ScriptStays, GenerationsStay DEF RefineStage, RefinementDone, Steady, IsRooted, Bases
<1>3. \A b, k : (Weak(b, k)' <=> Weak(b, k)) /\ (Drafted(b, k)' <=> Drafted(b, k))
  BY <1>1, SameWeak
<1>4. RefineTypeOK'
  BY <1>1, <1>2 DEF RefineIInv, RefineTypeOK
<1>5. PlaceOK' /\ CleanedOK'
  BY <1>1, <1>2 DEF RefineIInv, PlaceOK, CleanedOK
<1>6. GenerationsOK' /\ UnverifiedOK'
  BY <1>1, <1>2, <1>3 DEF RefineIInv, GenerationsOK, UnverifiedOK
<1>7. CurrentOK' /\ DoneOK' /\ BatchOK' /\ FinalOK'
  BY <1>1, <1>2 DEF RefineIInv, CurrentOK, DoneOK, BatchOK, FinalOK
<1>8. QED
  BY <1>2, <1>4, <1>5, <1>6, <1>7 DEF RefineIInv

LEMMA RefineInitHolds == RefineInit => RefineIInv
<1> SUFFICES ASSUME RefineInit PROVE RefineIInv
  OBVIOUS
<1>1. /\ initial \in [Base -> Opinions] /\ managed \in BOOLEAN /\ prompt = 0
      /\ drafts = {} /\ verified = {} /\ exists = {} /\ refineAt = 1 /\ pc = "start"
      /\ todo = {} /\ rounds = 0 /\ final = {} /\ stale = FALSE
      /\ refineEdits = 0 /\ refineFaults = 0
  BY DEF RefineInit
<1>2. Len(Script) \in Nat /\ Len(Script) >= 1
  BY ScriptIs
<1>3. ~RefinementDone
  BY ONLY <1>1, <1>2 DEF RefinementDone
<1>4. Generations = 0
  BY <1>1, GenerationsAre
<1>5. RefineTypeOK
  <2>1. refineAt \in 1..(Len(Script) + 1)
    BY ONLY <1>1, <1>2
  <2>2. prompt \in 0..MaxRefineEdits /\ rounds \in 0..(MaxRounds + 1)
        /\ refineEdits \in 0..MaxRefineEdits /\ refineFaults \in 0..MaxRefineFaults
    BY ONLY <1>1, RefineAssumption
  <2>3. QED
    BY <1>1, <2>1, <2>2 DEF RefineTypeOK
<1>6. RevisionsOK /\ VerificationsOK /\ Cleaned
  BY <1>1 DEF RevisionsOK, VerificationsOK, Cleaned
<1>7. PlaceOK
  <2>1. prompt <= refineEdits /\ rounds <= MaxRounds
    BY ONLY <1>1, RefineAssumption
  <2>2. QED
    BY <1>1, <1>3, <2>1 DEF PlaceOK
<1>8. CleanedOK
  BY <1>1, <1>6 DEF CleanedOK
<1>9. GenerationsOK
  <2> SUFFICES ASSUME NEW k \in 0..(MaxRounds - 1), k < 0 PROVE FALSE
    BY <1>4 DEF GenerationsOK
  <2>1. QED
    BY RefineAssumption
<1>10. UnverifiedOK
  BY <1>1 DEF UnverifiedOK, Unverified, ValidDrafts
<1>11. CurrentOK /\ DoneOK
  <2>1. ~(refineAt >= 4) /\ ~(rounds > 0) /\ refineAt # 4 /\ ~(refineAt >= 7)
    BY <1>1
  <2>2. QED
    BY <1>1, <1>3, <2>1 DEF CurrentOK, DoneOK
<1>12. BatchOK /\ FinalOK
  BY <1>1, <1>3 DEF BatchOK, FinalOK
<1>13. QED
  BY <1>5, <1>6, <1>7, <1>8, <1>9, <1>10, <1>11, <1>12 DEF RefineIInv

LEMMA RefineStepHolds == RefineIInv /\ [RefineNext]_refineVars => RefineIInv'
<1> SUFFICES ASSUME RefineIInv, [RefineNext]_refineVars PROVE RefineIInv'
  OBVIOUS
<1>1. CASE RefineWork
  BY <1>1, SkipHolds, BeginHolds, CleanHolds, CleanVerifiedHolds, GenerateHolds,
     AppendRevisionHolds, EndBatchHolds, RegroundDraftsHolds, VerifyHolds, AnswerHolds,
     EndVerifyHolds, DrainRoundHolds, RoundHolds, EnterFinalizeHolds, FinalizeHolds DEF RefineWork
<1>2. CASE RefineAbort
  BY <1>2, RefineAbortHolds
<1>3. CASE NewRefinement
  BY <1>3, NewRefinementHolds
<1>4. CASE UNCHANGED refineVars
  BY <1>4, RefineStutters
<1>5. QED
  BY <1>1, <1>2, <1>3, <1>4 DEF RefineNext

LEMMA RefinementInvariant == RefineSpec => []RefineIInv
BY RefineInitHolds, RefineStepHolds, PTL DEF RefineSpec

LEMMA FinalFollows == ASSUME RefineIInv PROVE FinalIsRooted
<1> SUFFICES ASSUME RefinementDone
             PROVE  /\ {a.base : a \in final} = Bases
                    /\ \A a, c \in final : a.base = c.base => a = c
                    /\ \A a \in final :
                          /\ a.root = initial[a.base]
                          /\ a.rev > 0 => \E v \in verified :
                                              /\ AttemptOf(v) = a /\ v.draft \in drafts
                                              /\ managed => v.prompt = prompt
  BY DEF FinalIsRooted
<1>1. Cleaned /\ RefineTypeOK /\ RevisionsOK /\ VerificationsOK /\ final = Latest(verified)
  BY DEF RefineIInv, CleanedOK, FinalOK
<1>2. \A a \in final : a \in Attempts(verified)
  BY <1>1 DEF Latest
<1>3. {a.base : a \in final} = Bases
  <2>1. \A a \in final : a.base \in Bases
    BY <1>1, <1>2, AttemptIs
  <2>2. \A b \in Bases : \E a \in final : a.base = b
    BY <1>1, LatestExists
  <2>3. QED
    BY <2>1, <2>2
<1>4. \A a, c \in final : a.base = c.base => a = c
  BY <1>1, LatestIsOne
<1>5. ASSUME managed PROVE AllCurrent
  <2>1. refineAt >= 4
    BY <1>1, <1>5, PlaceIs
  <2>2. QED
    BY <1>5, <2>1 DEF RefineIInv, CurrentOK
<1>6. ASSUME NEW a \in final
      PROVE  /\ a.root = initial[a.base]
             /\ a.rev > 0 => \E v \in verified : /\ AttemptOf(v) = a /\ v.draft \in drafts
                                                 /\ managed => v.prompt = prompt
  <2>1. a \in Attempts(verified)
    BY <1>2
  <2>2. a.root = initial[a.base]
    BY <1>1, <2>1, AttemptIs
  <2>3. ASSUME a.rev > 0
        PROVE  \E v \in verified : /\ AttemptOf(v) = a /\ v.draft \in drafts
                                   /\ managed => v.prompt = prompt
    <3>1. PICK v \in verified : a = AttemptOf(v) /\ v.draft \in drafts
      BY <1>1, <2>1, <2>3, AttemptIs
    <3>2. managed => v.prompt = prompt
      BY <1>5 DEF AllCurrent
    <3>3. QED
      BY <3>1, <3>2
  <2>4. QED
    BY <2>2, <2>3
<1>7. QED
  BY <1>3, <1>4, <1>6

LEMMA NothingLeftFollows == ASSUME RefineIInv PROVE NothingLeft
<1> SUFFICES ASSUME RefinementDone, managed => ~stale /\ MaxRounds <= 2
             PROVE  Unverified = {} /\ Eligible(verified, drafts) = {}
  BY DEF NothingLeft
<1>1. Cleaned /\ RefineTypeOK /\ RevisionsOK /\ VerificationsOK
  BY DEF RefineIInv, CleanedOK
<1>2. CASE ~managed
  <2>1. AllVerified /\ NoneEligible
    BY <1>2 DEF RefineIInv, DoneOK
  <2>2. QED
    BY <2>1 DEF AllVerified, NoneEligible, Unverified
<1>3. CASE managed
  <2>1. refineAt = 8
    BY <1>1, <1>3, PlaceIs
  <2>2. Generations = 2 /\ Steady
    BY <1>3, <2>1, GenerationsAre DEF Steady
  <2>3. AllVerified
    BY <1>3, <2>1, <2>2 DEF RefineIInv, DoneOK
  <2>4. ASSUME NEW a \in Eligible(verified, drafts) PROVE FALSE
    <3>1. /\ a.base \in Bases /\ a.rev \in 0..(MaxRounds - 1)
          /\ Weak(a.base, a.rev) /\ ~Drafted(a.base, a.rev + 1)
      BY <1>1, EligibleIsWeak
    <3>2. a.rev < Generations
      BY <1>3, <2>2, <3>1, RefineAssumption
    <3>3. QED
      BY <2>2, <3>1, <3>2 DEF RefineIInv, GenerationsOK
  <2>5. QED
    BY <2>3, <2>4 DEF AllVerified, Unverified
<1>4. QED
  BY <1>2, <1>3

(***************************************************************************)
(* A finished pass chose one attempt for each target, and it goes back to  *)
(* the first verification on file; and it left nothing to verify and no    *)
(* weak expression that may still be revised, if no changed verification   *)
(* came before it.                                                         *)
(***************************************************************************)
THEOREM RefinementIsSound == RefineSpec => []RefineInv
<1>1. RefineIInv => RefineInv
  BY FinalFollows, NothingLeftFollows DEF RefineInv, RefineIInv
<1>2. QED
  BY <1>1, RefinementInvariant, PTL

-----------------------------------------------------------------------------
(* RouteBRegions                                                            *)

(***************************************************************************)
(* The inductive invariant.  A sound cache file holds what its signature   *)
(* aggregates to, and so does every result of the running process, because *)
(* the evidence stays as it is until the process rests.                    *)
(***************************************************************************)
\* e is a record of a cache file.
Entry(e) == e = [signature |-> e.signature, payload |-> e.payload, sound |-> e.sound]

CacheIsTrue == \A e \in cache : Entry(e) /\ (e.sound => e.payload = Aggregated(e.signature))

ResultsAreFresh ==
    phase \notin Resting =>
        /\ DOMAIN results \subseteq ImageId
        /\ results = [i \in DOMAIN results |-> Aggregated(AggregateInput(i))]

PublishedSoFar ==
    /\ files = [candidates |-> files.candidates, rejections |-> files.rejections,
                shared |-> files.shared]
    /\ phase \in {"candidates", "rejections"} =>
           DOMAIN results = ImageId /\ files.candidates = CandidateRows(results)
    /\ phase = "rejections" => files.rejections = Rejections(results)

RegionsInv ==
    /\ phase \in {"idle", "working", "candidates", "rejections", "done", "audited"}
    /\ CacheIsTrue /\ ResultsAreFresh /\ PublishedSoFar /\ AggregateIsCurrent

LEMMA RegionsInitHolds == RegionsInit => RegionsInv
  BY DEF RegionsInit, RegionsInv, CacheIsTrue, ResultsAreFresh, PublishedSoFar,
         AggregateIsCurrent, NoFiles, Resting

(* An edit of the evidence ends what was said of it: nothing is fresh, and *)
(* nothing claims to be.                                                   *)
LEMMA RestingHolds ==
    ASSUME RegionsInv, BeginAggregate \/ Interrupt \/ Damage \/ EditEvidence \/ Audit
    PROVE  RegionsInv'
<1> USE DEF RegionsInv, PublishedSoFar, Resting
<1>1. CASE BeginAggregate
  <2>1. results' = [i \in DOMAIN results' |-> Aggregated(AggregateInput(i))'] /\ DOMAIN results' \subseteq ImageId
    BY <1>1 DEF BeginAggregate
  <2>2. QED
    BY <1>1, <2>1 DEF BeginAggregate, CacheIsTrue, Entry, ResultsAreFresh, AggregateIsCurrent
<1>2. CASE Interrupt
  BY <1>2 DEF Interrupt, CacheIsTrue, Entry, ResultsAreFresh, AggregateIsCurrent
<1>3. CASE Damage
  <2>1. PICK e \in cache :
            cache' = (cache \ {e}) \cup {[e EXCEPT !.sound = FALSE, !.payload.candidates = <<>>]}
    BY <1>3 DEF Damage
  <2>2. Entry(e)
    BY DEF CacheIsTrue
  <2>3. ASSUME NEW d, d = [e EXCEPT !.sound = FALSE, !.payload.candidates = <<>>]
        PROVE  Entry(d) /\ d.sound = FALSE
    BY <2>2, <2>3 DEF Entry
  <2>4. CacheIsTrue'
    BY <2>1, <2>3 DEF CacheIsTrue, Entry
  <2>5. QED
    BY <1>3, <2>4 DEF Damage, ResultsAreFresh, AggregateIsCurrent, AggregateInput
<1>4. CASE EditEvidence
  BY <1>4 DEF EditEvidence, CacheIsTrue, Entry, ResultsAreFresh, AggregateIsCurrent
<1>5. CASE Audit
  BY <1>5 DEF Audit, CacheIsTrue, Entry, ResultsAreFresh, AggregateIsCurrent
<1>6. QED
  BY <1>1, <1>2, <1>3, <1>4, <1>5

LEMMA FinishedIsFresh ==
    ASSUME RegionsInv, NEW i \in ImageId, phase = "working", UNCHANGED <<evidence, phase>>,
           Finished(i, Aggregated(AggregateInput(i)))
    PROVE  ResultsAreFresh'
<1>1. DOMAIN results' \subseteq ImageId
  BY DEF Finished, RegionsInv, ResultsAreFresh, Resting
<1>2. \A j \in DOMAIN results' : results'[j] = Aggregated(AggregateInput(j))'
  BY DEF Finished, RegionsInv, ResultsAreFresh, Resting, AggregateInput
<1>3. results' = [j \in DOMAIN results' |-> Aggregated(AggregateInput(j))']
  BY <1>2 DEF Finished
<1>4. QED
  BY <1>1, <1>3 DEF ResultsAreFresh

LEMMA WorkHolds ==
    ASSUME RegionsInv, NEW i \in ImageId, Hit(i) \/ Compute(i)
    PROVE  RegionsInv'
<1>1. CASE Hit(i)
  <2>1. PICK e \in CacheFile(i) : Intact(e) /\ Finished(i, e.payload)
    BY <1>1 DEF Hit
  <2>2. e.payload = Aggregated(AggregateInput(i))
    BY <2>1 DEF CacheFile, ImageSignature, Intact, RegionsInv, CacheIsTrue
  <2>3. Finished(i, Aggregated(AggregateInput(i)))
    BY <2>1, <2>2
  <2>4. ResultsAreFresh'
    BY <1>1, <2>3, FinishedIsFresh DEF Hit, Working
  <2>5. QED
    BY <1>1, <2>4 DEF Hit, Working, RegionsInv, CacheIsTrue, Entry, PublishedSoFar,
                      AggregateIsCurrent
<1>2. CASE Compute(i)
  <2>1. Finished(i, Aggregated(AggregateInput(i)))
    BY <1>2 DEF Compute
  <2>2. ResultsAreFresh'
    BY <1>2, <2>1, FinishedIsFresh DEF Compute, Working
  <2>3. CacheIsTrue'
    BY <1>2 DEF Compute, RegionsInv, CacheIsTrue, Entry, ImageSignature
  <2>4. QED
    BY <1>2, <2>2, <2>3 DEF Compute, Working, RegionsInv, PublishedSoFar, AggregateIsCurrent
<1>3. QED
  BY <1>1, <1>2

LEMMA PublishHolds == ASSUME RegionsInv, Publish PROVE RegionsInv'
<1> USE DEF Publish, RegionsInv, PublishedSoFar, Resting
<1>1. CacheIsTrue'
  BY DEF CacheIsTrue, Entry
<1>2. CASE phase = "working"
  <2>1. ResultsAreFresh'
    BY <1>2 DEF ResultsAreFresh, AggregateInput
  <2>2. QED
    BY <1>1, <1>2, <2>1 DEF AggregateIsCurrent
<1>3. CASE phase = "candidates"
  <2>1. ResultsAreFresh'
    BY <1>3 DEF ResultsAreFresh, AggregateInput
  <2>2. QED
    BY <1>1, <1>3, <2>1 DEF AggregateIsCurrent
<1>4. CASE phase = "rejections"
  <2>1. results = [i \in ImageId |-> Aggregated(AggregateInput(i))]
    BY <1>4 DEF ResultsAreFresh
  <2>2. results = [i \in ImageId |-> Aggregated(AggregateInput(i)')]
    BY <2>1 DEF AggregateInput
  <2>3. AggregateIsCurrent'
    BY <1>4, <2>2 DEF AggregateIsCurrent
  <2>4. QED
    BY <1>1, <1>4, <2>3 DEF ResultsAreFresh
<1>5. QED
  BY <1>2, <1>3, <1>4

LEMMA RegionsStepHolds == RegionsInv /\ [RegionsNext]_regionVars => RegionsInv'
<1> SUFFICES ASSUME RegionsInv, [RegionsNext]_regionVars PROVE RegionsInv'
  OBVIOUS
<1>1. CASE UNCHANGED regionVars
  BY <1>1 DEF regionVars, RegionsInv, CacheIsTrue, Entry, ResultsAreFresh, PublishedSoFar,
              AggregateIsCurrent, AggregateInput
<1>2. CASE RegionsNext
  BY <1>2, RestingHolds, WorkHolds, PublishHolds DEF RegionsNext
<1>3. QED
  BY <1>1, <1>2

(***************************************************************************)
(* The three files of a finished aggregation say the same, and what they   *)
(* say is what the evidence on file aggregates to, whichever cache files   *)
(* were reused, damaged or left behind by a process that died.             *)
(***************************************************************************)
THEOREM PublishedIsCurrent == RegionsSpec => []AggregateIsCurrent
<1>1. RegionsInv => AggregateIsCurrent
  BY DEF RegionsInv
<1>2. QED
  BY <1>1, RegionsInitHolds, RegionsStepHolds, PTL DEF RegionsSpec

-----------------------------------------------------------------------------
(* RouteBTargets                                                            *)

\* The records of the walk that is going on, and its kind, also once it is over and
\* its result is being written.
AtHand == run.todo \cup run.kept \cup Names(run.dropped)
Walk == IF run.phase = "written" THEN "final" ELSE run.phase

\* All of some records were gone through, and these were kept.
Complete(kept, all, p) ==
    /\ kept \subseteq all
    /\ \A a, b \in kept : Stronger(a, b, p) => Verdict(a, b, p) = "different"
    /\ \A b \in all \ kept : \E a \in kept :
          /\ Stronger(a, b, p) /\ Verdict(a, b, p) = "same"
          /\ \A c \in kept : Stronger(c, b, p) /\ Sooner(c, a, b, p) =>
                Verdict(c, b, p) = "different"

\* The same in any context.
VerdictIn(c, a, b, p) ==
    IF Rule(a, b, p) # "ask" THEN Rule(a, b, p)
    ELSE LET found == {d \in decisions :
                          d.about = [pair |-> {View(a, p), View(b, p)}, context |-> c]}
         IN  IF found = {} THEN "unknown" ELSE (CHOOSE d \in found : TRUE).answer

CompleteIn(c, kept, all, p) ==
    /\ kept \subseteq all
    /\ \A a, b \in kept : Stronger(a, b, p) => VerdictIn(c, a, b, p) = "different"
    /\ \A b \in all \ kept : \E a \in kept :
          /\ Stronger(a, b, p) /\ VerdictIn(c, a, b, p) = "same"
          /\ \A d \in kept : Stronger(d, b, p) /\ Sooner(d, a, b, p) =>
                VerdictIn(c, d, b, p) = "different"

\* What both walks come to.
Pass(aligned, kept) ==
    Complete(aligned, Target, "align") /\ Complete(kept, onFile, "final")

\* Every row has a record of its own, and names another one.
RowsOK(rows) ==
    /\ \A x \in rows : x.target \in Target /\ x.of \in Target
    /\ \A x, y \in rows : x.target = y.target => x = y

WorldOK ==
    /\ world.rank \in [Target -> Target]
    /\ \A a, b \in Target : world.rank[a] = world.rank[b] => a = b

StoredOK == disturbed \in BOOLEAN /\ onFile \subseteq Target

DecisionsOK ==
    /\ \A d \in decisions : d.answer \in {"same", "different"}
    /\ \A d, e \in decisions : d.about = e.about => d = e

\* The process is where it can be.
RunOK ==
    /\ run = [stage |-> run.stage, mode |-> run.mode, phase |-> run.phase, todo |-> run.todo,
              kept |-> run.kept, passed |-> run.passed, dropped |-> run.dropped,
              earlier |-> run.earlier]
    /\ run.mode \in {"idle", "probe", "served", "unserved", "validate"}
    /\ run.mode \in {"probe", "served", "unserved"} => run.phase \in {"align", "final", "written"}
    /\ run.mode = "validate" => run.phase = "validate"
    /\ run.mode = "idle" => run = Idle
    /\ Running => outcome = "none"
    /\ run.phase = "written" => run.todo = {} /\ run.mode # "probe"
    /\ run.todo \subseteq Target /\ run.kept \subseteq Target /\ run.passed \subseteq run.kept
    /\ delivered \subseteq Target

\* Each record is at one place, and those that are done are stronger than those
\* to come.
PlacesOK ==
    /\ RowsOK(run.dropped) /\ RowsOK(run.earlier)
    /\ \A x \in run.dropped : x.of \in run.kept /\ Stronger(x.of, x.target, Walk)
    /\ \A x \in run.earlier :
          Stronger(x.of, x.target, "align") /\ x.of \notin Names(run.earlier)
    /\ \A t \in Target :
          /\ t \in run.todo => t \notin run.kept \cup Names(run.dropped)
          /\ t \in run.kept => t \notin Names(run.dropped)
    /\ \A a \in run.kept \cup Names(run.dropped), b \in run.todo : Stronger(a, b, Walk)
    /\ run.mode \in {"probe", "served", "unserved"} =>
          /\ run.phase = "align" => AtHand = Target
          /\ run.phase \in {"final", "written"} => AtHand = onFile

\* What was found out, and is still so, as nothing was edited.
FoundOK ==
    ~disturbed =>
        /\ run.mode \in {"probe", "served", "unserved"} =>
              Complete(run.kept, run.kept \cup Names(run.dropped), Walk)
        /\ \A x \in run.dropped : Verdict(x.of, x.target, Walk) = "same"
        /\ \A x \in run.earlier : Verdict(x.of, x.target, "align") = "same"
        /\ \A a \in run.passed, b \in run.todo : Turn(b) => Verdict(a, b, run.phase) = "different"
        /\ run.phase \in {"final", "written"} =>
              Complete(Target \ Names(run.earlier), Target, "align")

\* The run without a server does again what its probe did.
ReplayOK ==
    run.mode = "unserved" /\ ~disturbed =>
        \E aligned, kept \in SUBSET Target :
            /\ Pass(aligned, kept)
            /\ run.phase = "align" => run.kept = aligned \ run.todo
            /\ run.phase = "final" => run.kept = kept \ run.todo

\* What is on file, and what was delivered, is still what its context makes of it.
MadeOK ==
    /\ \A c \in basis : CompleteIn(c, onFile, Target, "align")
    /\ \A m \in made : \E kept \in SUBSET Target :
          CompleteIn(m.context, kept, m.records, "final") /\ Best(delivered, kept)

\* The two files, once both are written.
Delivery ==
    /\ delivered \cup Names(rejected.final) = onFile
    /\ delivered \cap Names(rejected.final) = {}
    /\ \A rows \in {rejected.alignment, rejected.final} :
          \A x, y \in rows : x.target = y.target => x = y
    /\ \A x \in rejected.alignment : Direct(x, "align") /\ x.of \notin Names(rejected.alignment)
    /\ \A x \in rejected.final \ Late : Direct(x, "final") /\ x.of \in delivered \cup Names(Late)
    /\ \A x \in Late, t \in delivered : Stronger(t, x.target, "final")
    /\ Late # {} => Cardinality(delivered) = MaxPerSourceImage
    /\ \A a, b \in delivered : a # b => Verdict(a, b, "final") = "different"
    /\ context \in basis => onFile = Target \ Names(rejected.alignment)

FilesOK ==
    ~disturbed =>
        /\ run.phase = "written" => Best(delivered, run.kept)
        /\ run.mode = "validate" \/ outcome = "valid" => Delivery
        /\ run.mode = "validate" => run.todo \cup run.kept \subseteq delivered

\* The inductive invariant.
TargetsInv ==
    /\ WorldOK /\ StoredOK /\ DecisionsOK /\ RunOK /\ PlacesOK
    /\ FoundOK /\ ReplayOK /\ MadeOK /\ FilesOK /\ DecisionsSuffice

-----------------------------------------------------------------------------
LEMMA TargetsAre == Target \subseteq Nat /\ 0 \notin Target /\ IsFiniteSet(Target)
BY TargetsAssumption, FS_Interval DEF Target

(* The order of a walk.                                                     *)
LEMMA StrongerIsOrder ==
    ASSUME WorldOK, NEW a \in Target, NEW b \in Target, NEW p
    PROVE  /\ ~(Stronger(a, b, p) /\ Stronger(b, a, p))
           /\ ~Stronger(a, a, p)
           /\ a = b \/ Stronger(a, b, p) \/ Stronger(b, a, p)
           /\ \A c \in Target : Stronger(a, b, p) /\ Stronger(b, c, p) => Stronger(a, c, p)
<1>1. \A t \in Target : t \in Nat /\ world.rank[t] \in Nat
  BY TargetsAre DEF WorldOK
<1>2. world.rank[a] = world.rank[b] => a = b
  BY DEF WorldOK
<1>3. QED
  BY <1>1, <1>2 DEF Stronger

LEMMA SoonerIsOrder ==
    ASSUME WorldOK, NEW a \in Target, NEW c \in Target, NEW b \in Target, NEW p
    PROVE  ~(Sooner(a, c, b, p) /\ Sooner(c, a, b, p))
BY StrongerIsOrder DEF Sooner

LEMMA StrongestExists ==
    ASSUME WorldOK, NEW S \in SUBSET Target, S # {}, NEW p
    PROVE  \E m \in S : \A t \in S : t = m \/ Stronger(m, t, p)
<1> DEFINE Less == {ss \in Nat \X Nat : ss[1] < ss[2]}
           Place(t) == IF p = "final" THEN world.rank[t] ELSE t
           T == {Place(t) : t \in S}
<1>1. \A t \in S : Place(t) \in Nat
  BY TargetsAre DEF WorldOK
<1>2. T \subseteq Nat /\ T # {}
  BY <1>1
<1>3. IsWellFoundedOn(Less, Nat)
  BY NatLessThanWellFounded DEF OpToRel
<1>4. \E x \in T : \A y \in T : <<y, x>> \notin Less
  <2> HIDE DEF Less, T
  <2> QED BY <1>2, <1>3, WFMin
<1>5. PICK x \in T : \A y \in T : <<y, x>> \notin Less
  BY <1>4
<1>6. PICK m \in S : x = Place(m)
  OBVIOUS
<1>7. ASSUME NEW t \in S PROVE ~Stronger(t, m, p)
  BY <1>1, <1>5, <1>6 DEF Stronger
<1>8. QED
  BY <1>6, <1>7, StrongerIsOrder

LEMMA TurnIsOne ==
    ASSUME WorldOK, RunOK, NEW b \in run.todo, NEW c \in run.todo, Turn(b), Turn(c)
    PROVE  b = c
BY StrongerIsOrder DEF RunOK, Turn

-----------------------------------------------------------------------------
(* A comparison does not depend on which of the two comes first.            *)
LEMMA VerdictIsSymmetric ==
    ASSUME NEW a, NEW b, NEW p
    PROVE  Verdict(a, b, p) = Verdict(b, a, p)
<1>1. {a, b} = {b, a} /\ {View(a, p), View(b, p)} = {View(b, p), View(a, p)}
  OBVIOUS
<1>2. Rule(a, b, p) = Rule(b, a, p)
  <2>1. SameText(a, b, p) <=> SameText(b, a, p)
    BY DEF SameText
  <2>2. world.overlap[{a, b}] = world.overlap[{b, a}]
    BY <1>1
  <2>3. View(a, p).category = View(b, p).category <=> View(b, p).category = View(a, p).category
    OBVIOUS
  <2>4. QED
    BY <2>1, <2>2, <2>3 DEF Rule
<1>3. PairSignature(a, b, p) = PairSignature(b, a, p)
  BY <1>1 DEF PairSignature
<1>4. QED
  BY <1>2, <1>3 DEF Verdict

LEMMA RuleIs ==
    ASSUME NEW a, NEW b, NEW p
    PROVE  Rule(a, b, p) \in {"same", "different", "ask"}
BY DEF Rule

(* What is decided has one answer.                                          *)
LEMMA VerdictIs ==
    ASSUME DecisionsOK, NEW a, NEW b, NEW p
    PROVE  /\ Verdict(a, b, p) \in {"same", "different", "unknown"}
           /\ Rule(a, b, p) # "ask" => Verdict(a, b, p) = Rule(a, b, p)
           /\ Rule(a, b, p) = "ask" =>
                /\ \A d \in decisions : d.about = PairSignature(a, b, p) => Verdict(a, b, p) = d.answer
                /\ Verdict(a, b, p) # "unknown" =>
                      \E d \in decisions : d.about = PairSignature(a, b, p)
                /\ (\A d \in decisions : d.about # PairSignature(a, b, p)) => Verdict(a, b, p) = "unknown"
<1> DEFINE found == {d \in decisions : d.about = PairSignature(a, b, p)}
<1>1. CASE Rule(a, b, p) # "ask"
  BY <1>1, RuleIs DEF Verdict
<1>2. CASE Rule(a, b, p) = "ask" /\ found = {}
  <2>1. Verdict(a, b, p) = "unknown"
    BY <1>2 DEF Verdict
  <2>2. QED
    BY <1>2, <2>1
<1>3. CASE Rule(a, b, p) = "ask" /\ found # {}
  <2>1. PICK e \in found : e = CHOOSE d \in found : TRUE
    BY <1>3
  <2>2. Verdict(a, b, p) = e.answer
    BY <1>3, <2>1 DEF Verdict
  <2>3. e \in decisions /\ \A d \in found : d = e
    BY <2>1 DEF DecisionsOK
  <2>4. QED
    BY <1>3, <2>2, <2>3 DEF DecisionsOK
<1>4. QED
  BY <1>1, <1>2, <1>3

(* An answer that was found stays on file, for its own context.             *)
LEMMA VerdictInStays ==
    ASSUME DecisionsOK, DecisionsOK', UNCHANGED world, decisions \subseteq decisions',
           NEW c, NEW a, NEW b, NEW p, VerdictIn(c, a, b, p) # "unknown"
    PROVE  VerdictIn(c, a, b, p)' = VerdictIn(c, a, b, p)
<1> DEFINE about == [pair |-> {View(a, p), View(b, p)}, context |-> c]
           found == {d \in decisions : d.about = about}
           then == {d \in decisions' : d.about = about}
<1>1. Rule(a, b, p)' = Rule(a, b, p) /\ View(a, p)' = View(a, p) /\ View(b, p)' = View(b, p)
  BY DEF Rule, SameText, View
<1>2. CASE Rule(a, b, p) # "ask"
  BY <1>1, <1>2 DEF VerdictIn
<1>3. CASE Rule(a, b, p) = "ask"
  <2>1. found # {} /\ VerdictIn(c, a, b, p) = (CHOOSE d \in found : TRUE).answer
    BY <1>3 DEF VerdictIn
  <2>2. PICK d \in found : \A e \in then : e = d
    BY <2>1 DEF DecisionsOK
  <2>3. found = {d} /\ then = {d}
    BY <2>2
  <2>4. VerdictIn(c, a, b, p)' =
          IF then = {} THEN "unknown" ELSE (CHOOSE e \in then : TRUE).answer
    BY <1>1, <1>3 DEF VerdictIn
  <2>5. QED
    BY ONLY <2>1, <2>3, <2>4
<1>4. QED
  BY <1>2, <1>3

LEMMA VerdictNow ==
    ASSUME NEW a, NEW b, NEW p PROVE VerdictIn(context, a, b, p) = Verdict(a, b, p)
BY DEF VerdictIn, Verdict, PairSignature

LEMMA VerdictStays ==
    ASSUME DecisionsOK, DecisionsOK', UNCHANGED <<world, context>>, decisions \subseteq decisions',
           NEW a, NEW b, NEW p, Verdict(a, b, p) # "unknown"
    PROVE  Verdict(a, b, p)' = Verdict(a, b, p)
<1>1. PICK c : c = context
  OBVIOUS
<1>2. VerdictIn(c, a, b, p) = Verdict(a, b, p)
  BY <1>1, VerdictNow
<1>3. VerdictIn(c, a, b, p)' = Verdict(a, b, p)'
  BY <1>1 DEF VerdictIn, Verdict, PairSignature
<1>4. QED
  BY <1>2, <1>3, VerdictInStays

(* The validation compares what the stage compared, when categories agree.  *)
LEMMA ValidationIsFinal ==
    ASSUME world.label = world.query, NEW a, NEW b
    PROVE  Verdict(a, b, "validate") = Verdict(a, b, "final")
<1>1. \A t : View(t, "validate") = View(t, "final")
  BY DEF View
<1>2. Rule(a, b, "validate") = Rule(a, b, "final")
  BY <1>1 DEF Rule, SameText
<1>3. PairSignature(a, b, "validate") = PairSignature(a, b, "final")
  BY <1>1 DEF PairSignature
<1> DEFINE FoundAt(p) == {d \in decisions : d.about = PairSignature(a, b, p)}
           Value(rule, found) == IF rule # "ask" THEN rule
                                 ELSE IF found = {} THEN "unknown" ELSE (CHOOSE d \in found : TRUE).answer
<1>4. /\ Verdict(a, b, "validate") = Value(Rule(a, b, "validate"), FoundAt("validate"))
      /\ Verdict(a, b, "final") = Value(Rule(a, b, "final"), FoundAt("final"))
  BY DEF Verdict
<1>5. FoundAt("validate") = FoundAt("final")
  BY <1>3
<1>6. QED
  <2> HIDE DEF FoundAt, Value
  <2> QED BY <1>2, <1>4, <1>5

-----------------------------------------------------------------------------
(* What a walk keeps is determined by the verdicts.                         *)
LEMMA NoFirstDifference ==
    ASSUME WorldOK, NEW S \in SUBSET Target, NEW K, NEW L, NEW p,
           Complete(K, S, p), Complete(L, S, p), NEW m \in K \ L,
           \A t \in (K \ L) \cup (L \ K) : t = m \/ Stronger(m, t, p)
    PROVE  FALSE
<1>1. K \subseteq Target /\ L \subseteq Target /\ m \in S \ L
  BY DEF Complete
<1>2. PICK a \in L : Stronger(a, m, p) /\ Verdict(a, m, p) = "same"
  BY <1>1 DEF Complete
<1>3. a \in K
  BY <1>1, <1>2, StrongerIsOrder
<1>4. Verdict(a, m, p) = "different"
  BY <1>2, <1>3 DEF Complete
<1>5. QED
  BY <1>2, <1>4

LEMMA CompleteIsOne ==
    ASSUME WorldOK, NEW S \in SUBSET Target, NEW K, NEW L, NEW p,
           Complete(K, S, p), Complete(L, S, p)
    PROVE  K = L
<1> SUFFICES ASSUME K # L PROVE FALSE
  OBVIOUS
<1>1. (K \ L) \cup (L \ K) \in SUBSET Target /\ (K \ L) \cup (L \ K) # {}
  BY DEF Complete
<1>2. PICK m \in (K \ L) \cup (L \ K) : \A t \in (K \ L) \cup (L \ K) : t = m \/ Stronger(m, t, p)
  BY <1>1, StrongestExists
<1>3. QED
  BY <1>2, NoFirstDifference

LEMMA BestIsOne ==
    ASSUME WorldOK, NEW K \in SUBSET Target, NEW R, NEW S, Best(R, K), Best(S, K)
    PROVE  R = S
<1> SUFFICES ASSUME R # S PROVE FALSE
  OBVIOUS
<1>1. R \subseteq Target /\ S \subseteq Target
  BY DEF Best
<1>2. IsFiniteSet(K) /\ IsFiniteSet(R) /\ IsFiniteSet(S)
  BY <1>1, TargetsAre, FS_Subset
<1>3. /\ Cardinality(R) \in Nat /\ Cardinality(S) \in Nat /\ Cardinality(K) \in Nat
      /\ Cardinality(R) <= Cardinality(K) /\ Cardinality(S) <= Cardinality(K)
  BY <1>2, FS_CardinalityType, FS_Subset DEF Best
<1>4. Cardinality(R) = Cardinality(S)
  BY <1>3, TargetsAssumption DEF Best
<1>5. ~(R \subseteq S) /\ ~(S \subseteq R)
  BY <1>2, <1>4, FS_Subset
<1>6. PICK x \in R \ S, y \in S \ R : TRUE
  BY <1>5
<1>7. Stronger(x, y, "final") /\ Stronger(y, x, "final")
  BY <1>6 DEF Best
<1>8. QED
  BY <1>1, <1>6, <1>7, StrongerIsOrder

LEMMA CompleteInStays ==
    ASSUME DecisionsOK, DecisionsOK', UNCHANGED world, decisions \subseteq decisions',
           NEW x, NEW K, NEW S, NEW p, CompleteIn(x, K, S, p)
    PROVE  CompleteIn(x, K, S, p)'
<1>1. \A a, b : Stronger(a, b, p)' = Stronger(a, b, p)
  BY DEF Stronger
<1>2. \A a, c, b : Sooner(a, c, b, p)' = Sooner(a, c, b, p)
  BY <1>1 DEF Sooner
<1>3. \A a, b : VerdictIn(x, a, b, p) \in {"same", "different"} =>
                    VerdictIn(x, a, b, p)' = VerdictIn(x, a, b, p)
  BY VerdictInStays
<1>4. ASSUME NEW b \in S \ K
      PROVE  \E a \in K :
                /\ Stronger(a, b, p)' /\ VerdictIn(x, a, b, p)' = "same"
                /\ \A d \in K : Stronger(d, b, p)' /\ Sooner(d, a, b, p)' =>
                      VerdictIn(x, d, b, p)' = "different"
  <2>1. PICK a \in K :
            /\ Stronger(a, b, p) /\ VerdictIn(x, a, b, p) = "same"
            /\ \A d \in K : Stronger(d, b, p) /\ Sooner(d, a, b, p) =>
                  VerdictIn(x, d, b, p) = "different"
    BY DEF CompleteIn
  <2>2. Stronger(a, b, p)' /\ VerdictIn(x, a, b, p)' = "same"
    BY <1>1, <1>3, <2>1
  <2>3. ASSUME NEW d \in K, Stronger(d, b, p)', Sooner(d, a, b, p)'
        PROVE  VerdictIn(x, d, b, p)' = "different"
    BY <1>1, <1>2, <1>3, <2>1, <2>3
  <2>4. QED
    BY <2>2, <2>3
<1>5. ASSUME NEW a \in K, NEW b \in K, Stronger(a, b, p)' PROVE VerdictIn(x, a, b, p)' = "different"
  BY <1>1, <1>3, <1>5 DEF CompleteIn
<1>6. K \subseteq S
  BY DEF CompleteIn
<1>7. QED
  BY <1>4, <1>5, <1>6 DEF CompleteIn

LEMMA CompleteNow ==
    ASSUME NEW K, NEW S, NEW p PROVE CompleteIn(context, K, S, p) = Complete(K, S, p)
<1>1. \A a, b : VerdictIn(context, a, b, p) = Verdict(a, b, p)
  BY VerdictNow
<1>2. QED
  BY <1>1 DEF CompleteIn, Complete

LEMMA CompleteStays ==
    ASSUME DecisionsOK, DecisionsOK', UNCHANGED <<world, context>>, decisions \subseteq decisions',
           NEW K, NEW S, NEW p, Complete(K, S, p)
    PROVE  Complete(K, S, p)'
<1>1. PICK c : c = context
  OBVIOUS
<1>2. CompleteIn(c, K, S, p)
  BY <1>1, CompleteNow
<1>3. CompleteIn(c, K, S, p)'
  BY <1>2, CompleteInStays
<1>4. \A a, b : VerdictIn(c, a, b, p)' = Verdict(a, b, p)'
  BY <1>1 DEF VerdictIn, Verdict, PairSignature
<1>5. QED
  BY <1>3, <1>4 DEF CompleteIn, Complete

LEMMA PassStays ==
    ASSUME DecisionsOK, DecisionsOK', UNCHANGED <<world, context, onFile>>,
           decisions \subseteq decisions', NEW K, NEW S, Pass(K, S)
    PROVE  Pass(K, S)'
<1>1. PICK V : V = onFile
  OBVIOUS
<1>2. Complete(K, Target, "align")' /\ Complete(S, V, "final")'
  BY <1>1, CompleteStays DEF Pass
<1>3. QED
  BY <1>1, <1>2 DEF Pass, Complete

(* A walk goes on: with a record that is kept,                              *)
LEMMA CompleteKeeps ==
    ASSUME WorldOK, NEW S \in SUBSET Target, NEW K, NEW p, Complete(K, S, p),
           NEW b \in Target, \A t \in S : Stronger(t, b, p),
           \A a \in K : Verdict(a, b, p) = "different"
    PROVE  Complete(K \cup {b}, S \cup {b}, p)
<1>1. K \subseteq S
  BY DEF Complete
<1>2. \A t \in S : ~Stronger(b, t, p)
  BY StrongerIsOrder
<1>3. ~Stronger(b, b, p) /\ b \notin S
  BY StrongerIsOrder
<1>4. ASSUME NEW x \in K \cup {b}, NEW y \in K \cup {b}, Stronger(x, y, p)
      PROVE  Verdict(x, y, p) = "different"
  <2>1. CASE x \in K /\ y \in K
    BY <1>4, <2>1 DEF Complete
  <2>2. CASE x \in K /\ y = b
    BY <2>2
  <2>3. CASE x = b
    BY <1>1, <1>2, <1>3, <1>4, <2>3
  <2>4. QED
    BY <2>1, <2>2, <2>3
<1>5. ASSUME NEW y \in (S \cup {b}) \ (K \cup {b})
      PROVE  \E a \in K \cup {b} :
                /\ Stronger(a, y, p) /\ Verdict(a, y, p) = "same"
                /\ \A c \in K \cup {b} : Stronger(c, y, p) /\ Sooner(c, a, y, p) =>
                      Verdict(c, y, p) = "different"
  <2>1. PICK a \in K :
            /\ Stronger(a, y, p) /\ Verdict(a, y, p) = "same"
            /\ \A c \in K : Stronger(c, y, p) /\ Sooner(c, a, y, p) => Verdict(c, y, p) = "different"
    BY DEF Complete
  <2>2. ~Stronger(b, y, p)
    BY <1>2
  <2>3. QED
    BY <2>1, <2>2
<1>6. QED
  BY <1>1, <1>4, <1>5 DEF Complete

(* or with one that is dropped.                                             *)
LEMMA CompleteDrops ==
    ASSUME WorldOK, NEW S \in SUBSET Target, NEW K, NEW p, Complete(K, S, p),
           NEW b \in Target, \A t \in S : Stronger(t, b, p),
           NEW a \in K, Verdict(a, b, p) = "same",
           \A c \in K : Sooner(c, a, b, p) => Verdict(c, b, p) = "different"
    PROVE  Complete(K, S \cup {b}, p)
<1>1. K \subseteq S
  BY DEF Complete
<1>2. Stronger(a, b, p)
  BY <1>1
<1>3. ASSUME NEW y \in (S \cup {b}) \ K
      PROVE  \E x \in K :
                /\ Stronger(x, y, p) /\ Verdict(x, y, p) = "same"
                /\ \A c \in K : Stronger(c, y, p) /\ Sooner(c, x, y, p) =>
                      Verdict(c, y, p) = "different"
  <2>1. CASE y = b
    BY <1>2, <2>1
  <2>2. CASE y # b
    BY <2>2 DEF Complete
  <2>3. QED
    BY <2>1, <2>2
<1>4. QED
  BY <1>1, <1>3 DEF Complete

(* A walk that repeats another one finds every answer on file.              *)
LEMMA RepeatedWalk ==
    ASSUME WorldOK, DecisionsOK, RunOK, NEW S \in SUBSET Target, NEW K,
           Complete(K, S, run.phase), run.todo \subseteq S, run.kept = K \ run.todo,
           \A a \in run.kept, b \in run.todo : Stronger(a, b, run.phase),
           NEW b \in run.todo, Turn(b),
           \A a \in run.passed : Verdict(a, b, run.phase) = "different"
    PROVE  /\ \A a \in Opponents : \A v : Says(a, b, v) => v # "unknown"
           /\ Opponents = {} => b \in K
           /\ \A a \in Opponents : Says(a, b, "same") => b \notin K
<1> DEFINE p == run.phase
<1>0. K \subseteq Target /\ b \in Target /\ b \in S
  BY DEF Complete
<1>1. \A c \in K : Stronger(c, b, p) => c \in run.kept
  BY <1>0, StrongerIsOrder DEF Turn
<1>2. CASE b \in K
  <2>1. \A a \in run.kept : Verdict(a, b, p) = "different"
    BY <1>2 DEF Complete
  <2>2. QED
    BY <1>2, <2>1 DEF Says, Opponents
<1>3. CASE b \notin K
  <2>1. PICK c \in K :
            /\ Stronger(c, b, p) /\ Verdict(c, b, p) = "same"
            /\ \A d \in K : Stronger(d, b, p) /\ Sooner(d, c, b, p) => Verdict(d, b, p) = "different"
    BY <1>0, <1>3 DEF Complete
  <2>2. c \in run.kept \ run.passed
    BY <1>1, <2>1
  <2>3. ASSUME NEW a \in Opponents, NEW v, Says(a, b, v) PROVE v # "unknown"
    <3>1. a = c \/ Sooner(a, c, b, p)
      BY <2>2, <2>3 DEF Says, Opponents
    <3>2. a \in K /\ Stronger(a, b, p)
      BY DEF Opponents
    <3>3. Verdict(a, b, p) = v
      BY <2>3 DEF Says
    <3>4. QED
      BY <2>1, <3>1, <3>2, <3>3
  <2>4. QED
    BY <1>3, <2>2, <2>3 DEF Opponents
<1>4. QED
  BY <1>2, <1>3

-----------------------------------------------------------------------------
LEMMA DedupInitHolds == DedupInit => TargetsInv
<1> SUFFICES ASSUME DedupInit PROVE TargetsInv
  OBVIOUS
<1> USE DEF DedupInit
<1>1. WorldOK
  <2>1. world.rank \in Rankings
    BY DEF Worlds
  <2>2. QED
    BY <2>1, TargetsAssumption DEF WorldOK
<1>2. StoredOK /\ DecisionsOK
  BY DEF StoredOK, DecisionsOK
<1>3. RunOK /\ PlacesOK
  BY DEF RunOK, PlacesOK, RowsOK, AtHand, Names, Walk, Idle, Process, Running
<1>4. FoundOK /\ ReplayOK
  BY DEF FoundOK, ReplayOK, Idle, Process
<1>5. MadeOK /\ FilesOK /\ DecisionsSuffice
  BY DEF MadeOK, FilesOK, DecisionsSuffice, Idle, Process
<1>6. QED
  BY <1>1, <1>2, <1>3, <1>4, <1>5 DEF TargetsInv

(* Whose turn it is, and what it means.                                     *)
LEMMA SaysIs ==
    ASSUME RunOK, NEW a, NEW b, NEW v, Says(a, b, v)
    PROVE  /\ Running /\ b \in run.todo /\ b \in Target /\ Turn(b)
           /\ a \in run.kept /\ a \in Target /\ a \notin run.passed
           /\ Verdict(a, b, run.phase) = v
           /\ run.phase # "written"
           /\ \A c \in run.kept \ run.passed : c = a \/ Sooner(a, c, b, run.phase)
BY DEF Says, Turn, Opponents, RunOK

(* Nothing is forgotten, and nothing is decided twice.                      *)
LEMMA DecisionsHold ==
    ASSUME TargetsInv, [DedupNext]_targetVars
    PROVE  DecisionsOK' /\ decisions \subseteq decisions'
<1>0. DecisionsOK
  BY DEF TargetsInv
<1>1. CASE decisions' = decisions
  BY <1>0, <1>1 DEF DecisionsOK
<1>2. ASSUME NEW a, NEW b, AskModel(a, b) PROVE DecisionsOK' /\ decisions \subseteq decisions'
  <2>1. Verdict(a, b, run.phase) = "unknown"
    BY <1>2 DEF AskModel, Says
  <2>2. \A d \in decisions : d.about # PairSignature(a, b, run.phase)
    <3> SUFFICES ASSUME NEW d \in decisions, d.about = PairSignature(a, b, run.phase) PROVE FALSE
      OBVIOUS
    <3>1. Rule(a, b, run.phase) = "ask"
      BY <2>1, RuleIs DEF Verdict
    <3>2. Verdict(a, b, run.phase) = d.answer
      BY <1>0, <3>1, VerdictIs
    <3>3. QED
      BY <1>0, <2>1, <3>2 DEF DecisionsOK
  <2>3. PICK answer \in {"same", "different"} :
            decisions' = decisions \cup {[about |-> PairSignature(a, b, run.phase), answer |-> answer]}
    BY <1>2 DEF AskModel
  <2>4. QED
    BY <1>0, <2>2, <2>3 DEF DecisionsOK
<1>3. QED
  BY <1>1, <1>2 DEF DedupNext, Compare, PassOver, Drop, Refute, Undecided, Unserved, Keep, Probe,
        BoxesProbed, BoxesVerified, Aligned, Probed, WriteVerified, WriteRejected, Validated, DedupCrash,
        EditContext, targetVars

LEMMA WorldHolds ==
    ASSUME TargetsInv, [DedupNext]_targetVars
    PROVE  UNCHANGED world /\ (UNCHANGED context \/ EditContext)
BY DEF DedupNext, Compare, PassOver, Drop, Refute, AskModel, Undecided, Unserved, Keep, Probe, Quiet,
       BoxesProbed, BoxesVerified, Aligned, Probed, WriteVerified, WriteRejected, Validated, DedupCrash,
       EditContext, targetVars

LEMMA StoredHolds ==
    ASSUME TargetsInv, [DedupNext]_targetVars
    PROVE  StoredOK'
<1>0. StoredOK /\ RunOK
  BY DEF TargetsInv
<1>1. CASE UNCHANGED onFile /\ disturbed' \in {disturbed, TRUE, FALSE}
  BY <1>0, <1>1 DEF StoredOK
<1>2. CASE BoxesVerified
  BY <1>0, <1>2 DEF StoredOK, RunOK, BoxesVerified
<1>3. QED
  BY <1>1, <1>2 DEF DedupNext, Compare, PassOver, Drop, Refute, AskModel, Undecided, Unserved, Keep,
        Probe, Quiet, BoxesProbed, Aligned, Probed, WriteVerified, WriteRejected, Validated,
        DedupCrash, EditContext, targetVars

(* A walk through the alignments is complete when nothing is left to do.    *)
LEMMA WalkedIs ==
    ASSUME TargetsInv, ~disturbed, NEW st, Walked(st), run.mode \in {"probe", "served", "unserved"}
    PROVE  Complete(run.kept, Target, "align")
<1>1. AtHand = Target /\ Walk = "align" /\ AtHand = run.kept \cup Names(run.dropped)
  BY DEF TargetsInv, PlacesOK, Walked, AtHand, Walk
<1>2. QED
  BY <1>1 DEF TargetsInv, FoundOK

(* What is on file, and what was delivered, is what its context makes of it,*)
(* also when another context has come and gone.                             *)
LEMMA MadeHolds ==
    ASSUME TargetsInv, [DedupNext]_targetVars
    PROVE  MadeOK'
<1>0. StoredOK /\ DecisionsOK /\ DecisionsOK' /\ decisions \subseteq decisions' /\ UNCHANGED world
  BY DecisionsHold, WorldHolds DEF TargetsInv
<1>1. \A c \in basis' : CompleteIn(c, onFile, Target, "align")'
  <2>1. CASE UNCHANGED <<onFile, basis>>
    <3> SUFFICES ASSUME NEW c \in basis PROVE CompleteIn(c, onFile, Target, "align")'
      BY <2>1
    <3>1. PICK V : V = onFile
      OBVIOUS
    <3>2. CompleteIn(c, V, Target, "align")
      BY <3>1 DEF TargetsInv, MadeOK
    <3>3. CompleteIn(c, V, Target, "align")'
      BY <1>0, <3>2, CompleteInStays
    <3>4. QED
      BY <2>1, <3>1, <3>3 DEF CompleteIn
  <2>2. CASE BoxesProbed \/ BoxesVerified
    <3>1. /\ Walked("bbox_verify") /\ run.mode \in {"probe", "served"}
          /\ disturbed => basis' = {} \/ UNCHANGED <<onFile, basis>>
          /\ UNCHANGED <<onFile, basis>> \/ (onFile' = run.kept /\ (disturbed \/ basis' = {context}))
      BY <2>2 DEF BoxesProbed, BoxesVerified
    <3>2. SUFFICES ASSUME ~disturbed, onFile' = run.kept, basis' = {context}, NEW c \in basis'
                   PROVE  CompleteIn(c, onFile, Target, "align")'
      BY <2>1, <3>1
    <3>3. c = context
      BY <3>2
    <3>4. PICK K : K = run.kept
      OBVIOUS
    <3>5. CompleteIn(c, K, Target, "align")
      BY <3>1, <3>2, <3>3, <3>4, WalkedIs, CompleteNow
    <3>6. CompleteIn(c, K, Target, "align")'
      BY <1>0, <3>5, CompleteInStays
    <3>7. QED
      BY <3>2, <3>4, <3>6 DEF CompleteIn
  <2>3. QED
    BY <2>1, <2>2 DEF DedupNext, Compare, PassOver, Drop, Refute, AskModel, Undecided, Unserved, Keep,
          Probe, Quiet, Aligned, Probed, WriteVerified, WriteRejected, Validated, DedupCrash,
          EditContext, targetVars
<1>2. \A m \in made' : \E kept \in SUBSET Target :
          CompleteIn(m.context, kept, m.records, "final")' /\ Best(delivered, kept)'
  <2>1. CASE UNCHANGED <<made, delivered>>
    <3> SUFFICES ASSUME NEW m \in made
                 PROVE  \E kept \in SUBSET Target :
                            CompleteIn(m.context, kept, m.records, "final")' /\ Best(delivered, kept)'
      BY <2>1
    <3>1. PICK K \in SUBSET Target :
              CompleteIn(m.context, K, m.records, "final") /\ Best(delivered, K)
      BY DEF TargetsInv, MadeOK
    <3>2. CompleteIn(m.context, K, m.records, "final")'
      BY <1>0, <3>1, CompleteInStays
    <3>3. Best(delivered, K)'
      BY <1>0, <2>1, <3>1 DEF Best, Stronger
    <3>4. QED
      BY <3>2, <3>3
  <2>2. CASE WriteVerified
    <3>1. /\ made' = IF disturbed THEN {} ELSE {[context |-> context, records |-> onFile]}
          /\ run.phase = "final" /\ run.todo = {} /\ run.mode \in {"served", "unserved"}
          /\ Best(delivered', run.kept)
      BY <2>2 DEF WriteVerified, Finalized
    <3>2. SUFFICES ASSUME ~disturbed, NEW m \in made'
                   PROVE  \E kept \in SUBSET Target :
                            CompleteIn(m.context, kept, m.records, "final")' /\ Best(delivered, kept)'
      BY <3>1
    <3>3. m.context = context /\ m.records = onFile
      BY <3>1, <3>2
    <3>4. PICK K : K = run.kept
      OBVIOUS
    <3>5. Complete(run.kept, AtHand, "final") /\ AtHand = onFile
      BY <3>1, <3>2 DEF TargetsInv, FoundOK, PlacesOK, Walk, AtHand
    <3>6. CompleteIn(m.context, K, m.records, "final")
      BY <3>3, <3>4, <3>5, CompleteNow
    <3>7. CompleteIn(m.context, K, m.records, "final")'
      BY <1>0, <3>6, CompleteInStays
    <3>8. K \in SUBSET Target /\ Best(delivered, K)'
      BY <1>0, <3>1, <3>4 DEF TargetsInv, RunOK, Best, Stronger
    <3>9. QED
      BY <3>7, <3>8
  <2>3. QED
    BY <2>1, <2>2 DEF DedupNext, Compare, PassOver, Drop, Refute, AskModel, Undecided, Unserved, Keep,
          Probe, Quiet, BoxesProbed, BoxesVerified, Aligned, Probed, WriteRejected, Validated,
          DedupCrash, EditContext, targetVars
<1>3. QED
  BY <1>1, <1>2 DEF MadeOK

-----------------------------------------------------------------------------
(* What was delivered stays what it is, while nothing is edited.            *)
LEMMA DeliveryStays ==
    ASSUME DecisionsOK, DecisionsOK', decisions \subseteq decisions',
           UNCHANGED <<world, context, onFile, delivered, rejected, basis>>, Delivery
    PROVE  Delivery'
<1>1. Late' = Late
  BY DEF Late
<1>2. \A a, b, p : Stronger(a, b, p)' = Stronger(a, b, p)
  BY DEF Stronger
<1>3. \A a, b, p : Verdict(a, b, p) \in {"same", "different"} => Verdict(a, b, p)' = Verdict(a, b, p)
  BY VerdictStays
<1>4. \A x, p : Direct(x, p) => Direct(x, p)'
  BY <1>2, <1>3 DEF Direct
<1>5. /\ delivered' \cup Names(rejected'.final) = onFile'
      /\ delivered' \cap Names(rejected'.final) = {}
      /\ \A rows \in {rejected'.alignment, rejected'.final} :
            \A x, y \in rows : x.target = y.target => x = y
      /\ Late' # {} => Cardinality(delivered') = MaxPerSourceImage
      /\ context' \in basis' => onFile' = Target \ Names(rejected'.alignment)
  BY <1>1 DEF Delivery
<1>6. /\ \A x \in rejected'.alignment :
            Direct(x, "align")' /\ x.of \notin Names(rejected'.alignment)
      /\ \A x \in rejected'.final \ Late' :
            Direct(x, "final")' /\ x.of \in delivered' \cup Names(Late')
  BY <1>1, <1>4 DEF Delivery
<1>7. \A x \in Late', t \in delivered' : Stronger(t, x.target, "final")'
  BY <1>1, <1>2 DEF Delivery
<1>8. \A a, b \in delivered' : a # b => Verdict(a, b, "final")' = "different"
  BY <1>3 DEF Delivery
<1>9. QED
  BY <1>5, <1>6, <1>7, <1>8 DEF Delivery, Names

\* What is to be shown of a step.
Goes == RunOK /\ PlacesOK /\ FoundOK /\ ReplayOK /\ FilesOK /\ DecisionsSuffice

(* A process ends.                                                          *)
LEMMA EndHolds ==
    ASSUME TargetsInv, [DedupNext]_targetVars, run' = Idle,
           UNCHANGED <<world, context, decisions, delivered, rejected, disturbed>>,
           outcome' = "valid" => Running /\ run.phase = "validate" /\ UNCHANGED <<onFile, basis>>,
           ~disturbed => outcome' # "no_server",
           ~disturbed /\ world.label = world.query => outcome' \notin {"pending", "same_object"}
    PROVE  Goes'
<1>1. RunOK' /\ PlacesOK'
  BY StoredHolds DEF TargetsInv, RunOK, PlacesOK, RowsOK, AtHand, Names, Walk, Idle, Process, Running,
     StoredOK
<1>2. FoundOK' /\ ReplayOK'
  BY DEF FoundOK, ReplayOK, Idle, Process
<1>3. FilesOK'
  <2>1. run'.phase = "align" /\ run'.mode = "idle"
    BY DEF Idle, Process
  <2>2. ASSUME ~disturbed, outcome' = "valid" PROVE Delivery'
    <3>1. Delivery /\ UNCHANGED <<onFile, basis>>
      BY <2>2 DEF TargetsInv, RunOK, FilesOK, Running
    <3>2. QED
      BY <3>1, DecisionsHold, DeliveryStays DEF TargetsInv
  <2>3. QED
    BY <2>1, <2>2 DEF FilesOK
<1>4. DecisionsSuffice'
  BY DEF DecisionsSuffice
<1>5. QED
  BY <1>1, <1>2, <1>3, <1>4 DEF Goes

(* A process starts at the alignments.                                      *)
LEMMA StartHolds ==
    ASSUME TargetsInv, [DedupNext]_targetVars,
           NEW st, NEW m \in {"probe", "served", "unserved"}, run' = Process(st, m, "align", Target),
           UNCHANGED <<world, context, delivered, rejected>>, outcome' = "none",
           m = "unserved" /\ ~disturbed' => \E A, K \in SUBSET Target : Pass(A, K)'
    PROVE  Goes'
<1>1. RunOK' /\ PlacesOK'
  BY DEF TargetsInv, RunOK, PlacesOK, RowsOK, AtHand, Names, Walk, Process, Running
<1>2. FoundOK'
  BY DEF FoundOK, Complete, Names, Process, Walk
<1>3. ReplayOK'
  <2> SUFFICES ASSUME m = "unserved", ~disturbed' PROVE ReplayOK'
    BY DEF ReplayOK, Process
  <2>1. PICK A, K \in SUBSET Target : Pass(A, K)'
    OBVIOUS
  <2>2. run'.phase = "align" /\ run'.kept = {} /\ run'.todo = Target
    BY DEF Process
  <2>3. QED
    BY <2>1, <2>2 DEF ReplayOK
<1>4. FilesOK' /\ DecisionsSuffice'
  BY DEF FilesOK, DecisionsSuffice, Process
<1>5. QED
  BY <1>1, <1>2, <1>3, <1>4 DEF Goes

(* While nothing was edited, what a delivered pair was told apart by is what*)
(* the validation finds.                                                    *)
LEMMA ValidationAgrees ==
    ASSUME TargetsInv, ~disturbed, world.label = world.query, run.mode = "validate",
           NEW a, NEW b, NEW v, Says(a, b, v)
    PROVE  v = "different"
<1>1. RunOK /\ FilesOK /\ PlacesOK
  BY DEF TargetsInv
<1>2. run.phase = "validate" /\ a \in delivered /\ b \in delivered /\ a # b
  <2>1. a \in run.kept /\ b \in run.todo /\ b \in Target
    BY <1>1, SaysIs
  <2>2. a # b
    BY <1>1, <2>1 DEF PlacesOK
  <2>3. QED
    BY <1>1, <2>1, <2>2 DEF RunOK, FilesOK
<1>3. Verdict(a, b, "final") = "different"
  BY <1>1, <1>2 DEF FilesOK, Delivery
<1>4. QED
  BY <1>2, <1>3, ValidationIsFinal DEF Says

(* The run without a server has every answer, while nothing was edited.     *)
LEMMA NothingIsAsked ==
    ASSUME TargetsInv, ~disturbed, run.mode = "unserved", NEW b \in run.todo, Turn(b)
    PROVE  \E A, K \in SUBSET Target :
              /\ Pass(A, K)
              /\ run.phase = "align" =>
                    /\ run.kept = A \ run.todo
                    /\ \A a \in Opponents : \A v : Says(a, b, v) => v # "unknown"
                    /\ Opponents = {} => b \in A
                    /\ \A a \in Opponents : Says(a, b, "same") => b \notin A
              /\ run.phase = "final" =>
                    /\ run.kept = K \ run.todo
                    /\ \A a \in Opponents : \A v : Says(a, b, v) => v # "unknown"
                    /\ Opponents = {} => b \in K
                    /\ \A a \in Opponents : Says(a, b, "same") => b \notin K
<1>0. WorldOK /\ StoredOK /\ DecisionsOK /\ RunOK /\ PlacesOK /\ FoundOK /\ ReplayOK
  BY DEF TargetsInv
<1>1. PICK A, K \in SUBSET Target :
          /\ Pass(A, K)
          /\ run.phase = "align" => run.kept = A \ run.todo
          /\ run.phase = "final" => run.kept = K \ run.todo
  BY <1>0 DEF ReplayOK
<1>2. \A a \in run.passed : Verdict(a, b, run.phase) = "different"
  BY <1>0 DEF FoundOK
<1>3. run.phase # "written" => \A a \in run.kept, c \in run.todo : Stronger(a, c, run.phase)
  BY <1>0 DEF PlacesOK, Walk
<1>4. CASE run.phase = "align"
  <2>1. run.todo \subseteq Target /\ Complete(A, Target, run.phase) /\ Target \in SUBSET Target
    BY <1>0, <1>1, <1>4 DEF RunOK, Pass
  <2>2. run.kept = A \ run.todo /\ \A a \in run.kept, c \in run.todo : Stronger(a, c, run.phase)
    BY <1>1, <1>3, <1>4
  <2>3. /\ \A a \in Opponents : \A v : Says(a, b, v) => v # "unknown"
        /\ Opponents = {} => b \in A
        /\ \A a \in Opponents : Says(a, b, "same") => b \notin A
    BY <1>0, <1>2, <2>1, <2>2, RepeatedWalk
  <2>4. QED
    BY <1>1, <1>4, <2>3
<1>5. CASE run.phase = "final"
  <2>1. run.todo \subseteq onFile /\ Complete(K, onFile, run.phase) /\ onFile \in SUBSET Target
    BY <1>0, <1>1, <1>5 DEF AtHand, PlacesOK, Pass, StoredOK
  <2>2. run.kept = K \ run.todo /\ \A a \in run.kept, c \in run.todo : Stronger(a, c, run.phase)
    BY <1>1, <1>3, <1>5
  <2>3. /\ \A a \in Opponents : \A v : Says(a, b, v) => v # "unknown"
        /\ Opponents = {} => b \in K
        /\ \A a \in Opponents : Says(a, b, "same") => b \notin K
    BY <1>0, <1>2, <2>1, <2>2, RepeatedWalk
  <2>4. QED
    BY <1>1, <1>5, <2>3
<1>6. CASE run.phase \notin {"align", "final"}
  BY <1>1, <1>6
<1>7. QED
  BY <1>4, <1>5, <1>6

-----------------------------------------------------------------------------
(* The steps.                                                               *)
LEMMA ProbeGoes ==
    ASSUME TargetsInv, NEW stage \in {"bbox_verify", "finalize"}, Probe(stage) PROVE Goes'
BY StartHolds DEF Probe, DedupNext

LEMMA BoxesProbedGoes == ASSUME TargetsInv, BoxesProbed PROVE Goes'
<1>1. [DedupNext]_targetVars /\ UNCHANGED <<world, context, decisions, delivered, rejected, disturbed>>
  BY DEF DedupNext, BoxesProbed
<1>2. CASE run' = Idle
  <2>1. outcome' = "complete" \/ outcome' = "none"
    BY DEF BoxesProbed, End, TargetsInv, RunOK, Walked
  <2>2. QED
    BY <1>1, <1>2, <2>1, EndHolds
<1>3. CASE run' # Idle
  <2>1. run' = Process("bbox_verify", "served", "align", Target) /\ outcome' = "none"
    BY <1>3 DEF BoxesProbed, End, TargetsInv, RunOK, Walked
  <2>2. QED
    BY <1>1, <2>1, StartHolds
<1>4. QED
  BY <1>2, <1>3

LEMMA BoxesVerifiedGoes == ASSUME TargetsInv, BoxesVerified PROVE Goes'
BY EndHolds DEF BoxesVerified, End, DedupNext

LEMMA ProbedGoes == ASSUME TargetsInv, Probed PROVE Goes'
<1>1. /\ Running /\ run.phase = "final" /\ run.todo = {} /\ run.mode = "probe"
      /\ run' = Process("finalize", "unserved", "align", Target)
      /\ UNCHANGED <<world, context, decisions, onFile, delivered, rejected, outcome, disturbed>>
  BY DEF Probed, Finalized, Quiet
<1>2. WorldOK /\ DecisionsOK /\ RunOK /\ PlacesOK /\ FoundOK /\ outcome = "none"
  BY <1>1 DEF TargetsInv, RunOK
<1>3. ASSUME ~disturbed' PROVE \E A, K \in SUBSET Target : Pass(A, K)'
  <2>1. /\ Complete(run.kept, AtHand, "final") /\ AtHand = onFile
        /\ Complete(Target \ Names(run.earlier), Target, "align")
    BY <1>1, <1>2, <1>3 DEF FoundOK, PlacesOK, Walk, AtHand
  <2>2. PICK A, K \in SUBSET Target : A = Target \ Names(run.earlier) /\ K = run.kept
    BY <1>2 DEF RunOK
  <2>3. Pass(A, K)
    BY <2>1, <2>2 DEF Pass
  <2>4. DecisionsOK' /\ decisions \subseteq decisions'
    BY <1>1, <1>2 DEF DecisionsOK
  <2>5. Pass(A, K)'
    BY <1>1, <1>2, <2>3, <2>4, PassStays
  <2>6. QED
    BY <2>5
<1>4. [DedupNext]_targetVars
  BY DEF DedupNext
<1>5. QED
  BY <1>1, <1>2, <1>3, <1>4, StartHolds

LEMMA ValidatedGoes == ASSUME TargetsInv, Validated PROVE Goes'
BY EndHolds DEF Validated, End, Quiet, DedupNext

LEMMA CrashGoes == ASSUME TargetsInv, DedupCrash PROVE Goes'
BY EndHolds DEF DedupCrash, End, DedupNext

LEMMA RefuteGoes ==
    ASSUME TargetsInv, NEW b \in run.todo, NEW a \in Opponents, Refute(a, b) PROVE Goes'
<1>1. run.phase = "validate" /\ run.mode = "validate"
  BY DEF Refute, TargetsInv, RunOK, Says, Turn, Running, Idle, Process
<1>2. ~disturbed => world.label # world.query
  BY <1>1, ValidationAgrees DEF Refute
<1>3. [DedupNext]_targetVars
  BY DEF DedupNext, Compare
<1>4. QED
  BY <1>2, <1>3, EndHolds DEF Refute, End, Quiet

LEMMA UnservedGoes ==
    ASSUME TargetsInv, NEW b \in run.todo, NEW a \in Opponents, Unserved(a, b) PROVE Goes'
<1>1. Says(a, b, "unknown") /\ run.mode = "unserved" /\ RunOK
  BY DEF Unserved, TargetsInv
<1>2. run.phase \in {"align", "final"} /\ Turn(b)
  BY <1>1, SaysIs DEF RunOK
<1>3. disturbed
  <2> SUFFICES ASSUME ~disturbed PROVE FALSE
    BY DEF TargetsInv, StoredOK
  <2>1. QED
    BY <1>1, <1>2, NothingIsAsked
<1>4. [DedupNext]_targetVars
  BY DEF DedupNext, Compare
<1>5. QED
  BY <1>3, <1>4, EndHolds DEF Unserved, End, Quiet

LEMMA UndecidedGoes ==
    ASSUME TargetsInv, NEW b \in run.todo, NEW a \in Opponents, Undecided(a, b) PROVE Goes'
<1>0. [DedupNext]_targetVars
  BY DEF DedupNext, Compare
<1>1. CASE run.mode = "probe"
  <2>1. outcome = "none"
    BY <1>1 DEF TargetsInv, RunOK, Running
  <2>2. QED
    BY <1>0, <1>1, <2>1, StartHolds DEF Undecided, Quiet
<1>2. CASE run.mode = "validate"
  <2>1. ~disturbed => world.label # world.query
    BY <1>2, ValidationAgrees DEF Undecided
  <2>2. QED
    BY <1>0, <1>2, <2>1, EndHolds DEF Undecided, End, Quiet
<1>3. QED
  BY <1>1, <1>2 DEF Undecided

LEMMA AskModelGoes ==
    ASSUME TargetsInv, NEW b \in run.todo, NEW a \in Opponents, AskModel(a, b) PROVE Goes'
<1>0. [DedupNext]_targetVars
  BY DEF DedupNext, Compare
<1>1. DecisionsOK' /\ decisions \subseteq decisions' /\ DecisionsOK
  BY <1>0, DecisionsHold DEF TargetsInv
<1>2. /\ UNCHANGED <<run, outcome, world, context, onFile, delivered, rejected, disturbed>>
      /\ run.mode = "served"
  BY DEF AskModel, Quiet
<1>3. \A x, y, p : Stronger(x, y, p)' = Stronger(x, y, p)
  BY <1>2 DEF Stronger
<1>4. \A x, y, p : Verdict(x, y, p) # "unknown" => Verdict(x, y, p)' = Verdict(x, y, p)
  BY <1>1, <1>2, VerdictStays
<1>5. RunOK'
  BY <1>2 DEF TargetsInv, RunOK, Running
<1>6. PlacesOK'
  BY <1>2, <1>3 DEF TargetsInv, PlacesOK, RowsOK, AtHand, Names, Walk
<1>7. FoundOK'
  <2> SUFFICES ASSUME ~disturbed PROVE FoundOK'
    BY <1>2 DEF FoundOK
  <2>1. Turn(b)' = Turn(b) /\ \A c : Turn(c)' = Turn(c)
    BY <1>2, <1>3 DEF Turn, Running
  <2>2. PICK K, D, A, p :
            /\ K \in SUBSET Target /\ D \in SUBSET Target /\ A \in SUBSET Target
            /\ K = run.kept /\ D = run.kept \cup Names(run.dropped) /\ p = Walk
            /\ A = Target \ Names(run.earlier) /\ Complete(K, D, p) /\ (run.phase \in {"final", "written"} => Complete(A, Target, "align"))
    <3>1. run.kept \cup Names(run.dropped) \in SUBSET Target /\ run.kept \in SUBSET Target
      BY DEF TargetsInv, RunOK, PlacesOK, RowsOK, Names
    <3>2. QED
      BY <1>2, <3>1 DEF TargetsInv, FoundOK
  <2>3. Complete(K, D, p)' /\ (run.phase \in {"final", "written"} => Complete(A, Target, "align")')
    BY <1>1, <1>2, <2>2, CompleteStays
  <2>4. Complete(run.kept, run.kept \cup Names(run.dropped), Walk)'
    BY <1>2, <2>2, <2>3 DEF Complete, Names, Walk
  <2>5. run'.phase \in {"final", "written"} => Complete(Target \ Names(run.earlier), Target, "align")'
    BY <1>2, <2>2, <2>3 DEF Complete, Names
  <2>6. QED
    BY <1>2, <1>4, <2>1, <2>4, <2>5 DEF TargetsInv, FoundOK, Walk
<1>8. ReplayOK'
  BY <1>2 DEF ReplayOK
<1>9. FilesOK'
  BY <1>2, <1>3 DEF TargetsInv, FilesOK, RunOK, Running, Best
<1>10. DecisionsSuffice'
  BY <1>2 DEF TargetsInv, DecisionsSuffice
<1>11. QED
  BY <1>5, <1>6, <1>7, <1>8, <1>9, <1>10 DEF Goes

LEMMA EditGoes == ASSUME TargetsInv, EditContext PROVE Goes'
<1>1. UNCHANGED <<world, decisions, onFile, delivered, rejected, run, outcome>> /\ disturbed' = TRUE
  BY DEF EditContext
<1>2. RunOK'
  BY <1>1 DEF TargetsInv, RunOK, Running
<1>3. PlacesOK'
  <2>1. \A x, y, p : Stronger(x, y, p)' = Stronger(x, y, p)
    BY <1>1 DEF Stronger
  <2>2. QED
    BY <1>1, <2>1 DEF TargetsInv, PlacesOK, RowsOK, AtHand, Names, Walk
<1>4. QED
  BY <1>1, <1>2, <1>3 DEF Goes, FoundOK, ReplayOK, FilesOK, DecisionsSuffice

(* A step of a walk leaves the files alone.                                 *)
LEMMA WalkKeepsFiles ==
    ASSUME TargetsInv, NEW b \in run.todo,
           run'.mode = run.mode, run'.phase = run.phase,
           Turn(b), run.phase # "written",
           run'.todo \cup run'.kept \subseteq run.todo \cup run.kept,
           UNCHANGED <<world, context, decisions, onFile, delivered, rejected, outcome, disturbed,
                       basis>>
    PROVE  FilesOK' /\ DecisionsSuffice'
<1>1. outcome = "none"
  BY DEF TargetsInv, RunOK, Turn
<1>2. ASSUME ~disturbed, run.mode = "validate" PROVE Delivery'
  <2>1. Delivery
    BY <1>2 DEF TargetsInv, FilesOK
  <2>2. DecisionsOK' /\ DecisionsOK /\ decisions \subseteq decisions'
    BY DEF TargetsInv, DecisionsOK
  <2>3. QED
    BY <2>1, <2>2, DeliveryStays
<1>3. QED
  BY <1>1, <1>2 DEF TargetsInv, FilesOK, DecisionsSuffice

LEMMA PassOverGoes ==
    ASSUME TargetsInv, NEW b \in run.todo, NEW a \in Opponents, PassOver(a, b) PROVE Goes'
<1>0. WorldOK /\ DecisionsOK /\ RunOK /\ PlacesOK /\ FoundOK /\ ReplayOK
  BY DEF TargetsInv
<1>1. /\ Says(a, b, "different")
      /\ run' = [run EXCEPT !.passed = run.passed \cup {a}]
      /\ UNCHANGED <<world, context, decisions, onFile, delivered, rejected, outcome, disturbed,
                     basis>>
  BY DEF PassOver, Quiet
<1>2. /\ Turn(b) /\ a \in run.kept /\ Running /\ Verdict(a, b, run.phase) = "different"
      /\ run.phase # "written"
  BY <1>0, <1>1, SaysIs
<1>3. run' = [stage |-> run.stage, mode |-> run.mode, phase |-> run.phase, todo |-> run.todo, kept |-> run.kept,
              passed |-> run.passed \cup {a}, dropped |-> run.dropped, earlier |-> run.earlier]
  BY <1>0, <1>1 DEF RunOK
<1>4. /\ run'.mode = run.mode /\ run'.phase = run.phase /\ run'.todo = run.todo
      /\ run'.kept = run.kept /\ run'.passed = run.passed \cup {a}
      /\ run'.dropped = run.dropped /\ run'.earlier = run.earlier
  BY <1>3
<1>5. /\ \A x, y, p : Stronger(x, y, p)' = Stronger(x, y, p)
      /\ \A x, y, p : Verdict(x, y, p)' = Verdict(x, y, p)
      /\ \A x, y, z, p : Sooner(x, y, z, p)' = Sooner(x, y, z, p)
  BY <1>1 DEF Stronger, Sooner, Verdict, Rule, SameText, View, PairSignature
<1>6. RunOK'
  BY <1>0, <1>1, <1>2, <1>3, <1>4 DEF RunOK, Running
<1>7. PlacesOK'
  BY <1>0, <1>1, <1>4, <1>5 DEF PlacesOK, RowsOK, AtHand, Names, Walk
<1>8. FoundOK'
  <2> SUFFICES ASSUME ~disturbed PROVE FoundOK'
    BY <1>1 DEF FoundOK
  <2>1. /\ AtHand' = AtHand /\ Walk' = Walk /\ Names(run'.dropped) = Names(run.dropped)
        /\ \A c : Turn(c)' = Turn(c)
    BY <1>4, <1>5 DEF AtHand, Walk, Names, Turn, Running
  <2>2. run'.mode \in {"probe", "served", "unserved"} =>
            Complete(run.kept, run.kept \cup Names(run.dropped), Walk)'
    BY <1>0, <1>4, <1>5, <2>1 DEF FoundOK, Complete, Names
  <2>3. run'.phase \in {"final", "written"} => Complete(Target \ Names(run.earlier), Target, "align")'
    BY <1>0, <1>4, <1>5 DEF FoundOK, Complete, Names
  <2>4. \A x \in run'.passed, y \in run'.todo : Turn(y)' => Verdict(x, y, run.phase)' = "different"
    <3>1. \A y \in run.todo : Turn(y) => y = b
      BY <1>0, <1>2, TurnIsOne
    <3>2. QED
      BY <1>0, <1>2, <1>4, <1>5, <2>1, <3>1 DEF FoundOK
  <2>5. QED
    BY <1>0, <1>4, <1>5, <2>1, <2>2, <2>3, <2>4 DEF FoundOK
<1>9. ReplayOK'
  <2> SUFFICES ASSUME run.mode = "unserved", ~disturbed PROVE ReplayOK'
    BY <1>1, <1>4 DEF ReplayOK
  <2>1. PICK A, K \in SUBSET Target :
            /\ Pass(A, K)
            /\ run.phase = "align" => run.kept = A \ run.todo
            /\ run.phase = "final" => run.kept = K \ run.todo
    BY <1>0 DEF ReplayOK
  <2>2. Pass(A, K)'
    BY <1>1, <1>5, <2>1 DEF Pass, Complete
  <2>3. QED
    BY <1>4, <2>1, <2>2 DEF ReplayOK
<1>10. FilesOK' /\ DecisionsSuffice'
  BY <1>1, <1>2, <1>4, WalkKeepsFiles
<1>11. QED
  BY <1>6, <1>7, <1>8, <1>9, <1>10 DEF Goes

(* What a walk says in the new state, when no answer was added.             *)
LEMMA SameAnswers ==
    ASSUME UNCHANGED <<world, context, decisions>>
    PROVE  /\ \A x, y, p : Stronger(x, y, p)' = Stronger(x, y, p)
           /\ \A x, y, p : Verdict(x, y, p)' = Verdict(x, y, p)
           /\ \A x, y, z, p : Sooner(x, y, z, p)' = Sooner(x, y, z, p)
           /\ \A K, S, p : Complete(K, S, p)' = Complete(K, S, p)
<1>1. \A x, y, p : Stronger(x, y, p)' = Stronger(x, y, p)
  BY DEF Stronger
<1>2. \A x, y, p : Verdict(x, y, p)' = Verdict(x, y, p)
  BY DEF Verdict, Rule, SameText, View, PairSignature
<1>3. \A x, y, z, p : Sooner(x, y, z, p)' = Sooner(x, y, z, p)
  BY <1>1 DEF Sooner
<1>4. \A K, S, p : Complete(K, S, p)' = Complete(K, S, p)
  BY <1>1, <1>2, <1>3 DEF Complete
<1>5. QED
  BY <1>1, <1>2, <1>3, <1>4

LEMMA NamesOfOneMore ==
    ASSUME NEW rows, NEW b, NEW a
    PROVE  Names(rows \cup {[target |-> b, of |-> a]}) = Names(rows) \cup {b}
<1> DEFINE x0 == [target |-> b, of |-> a]
<1>1. x0.target = b
  OBVIOUS
<1>2. ASSUME NEW t PROVE t \in Names(rows \cup {x0}) <=> t \in Names(rows) \cup {b}
  <2> HIDE DEF x0
  <2> QED BY <1>1 DEF Names
<1>3. QED
  BY <1>2

LEMMA DropGoes ==
    ASSUME TargetsInv, NEW b \in run.todo, NEW a \in Opponents, Drop(a, b) PROVE Goes'
<1>0. WorldOK /\ DecisionsOK /\ RunOK /\ PlacesOK /\ FoundOK /\ ReplayOK
  BY DEF TargetsInv
<1> DEFINE x0 == [target |-> b, of |-> a]
<1>1. /\ Says(a, b, "same") /\ run.phase # "validate"
      /\ run' = [Advance(b) EXCEPT !.dropped = Advance(b).dropped \cup {x0}]
      /\ UNCHANGED <<world, context, decisions, onFile, delivered, rejected, outcome, disturbed,
                     basis>>
  BY DEF Drop, Quiet
<1>2. /\ Turn(b) /\ a \in run.kept /\ Running /\ Verdict(a, b, run.phase) = "same"
      /\ run.phase # "written" /\ b \in Target /\ a \in Target /\ a \notin run.passed
      /\ \A c \in run.kept \ run.passed : c = a \/ Sooner(a, c, b, run.phase)
  BY <1>0, <1>1, SaysIs
<1>a. run.mode \in {"probe", "served", "unserved"} /\ run.phase \in {"align", "final"} /\ Walk = run.phase
  BY <1>0, <1>1, <1>2 DEF RunOK, Running, Walk
<1>3. run' = [stage |-> run.stage, mode |-> run.mode, phase |-> run.phase, todo |-> run.todo \ {b}, kept |-> run.kept,
              passed |-> {}, dropped |-> run.dropped \cup {x0}, earlier |-> run.earlier]
  BY <1>0, <1>1 DEF RunOK, Advance
<1>4. /\ run'.mode = run.mode /\ run'.phase = run.phase /\ run'.todo = run.todo \ {b}
      /\ run'.kept = run.kept /\ run'.passed = {}
      /\ run'.dropped = run.dropped \cup {x0} /\ run'.earlier = run.earlier
  BY <1>3
<1>5. /\ \A x, y, p : Stronger(x, y, p)' = Stronger(x, y, p)
      /\ \A x, y, p : Verdict(x, y, p)' = Verdict(x, y, p)
      /\ \A K, S, p : Complete(K, S, p)' = Complete(K, S, p)
  BY <1>1, SameAnswers
<1>6. RunOK'
  BY <1>0, <1>1, <1>2, <1>3, <1>4, <1>a DEF RunOK, Running
<1>7. /\ Names(run'.dropped) = Names(run.dropped) \cup {b} /\ AtHand' = AtHand /\ Walk' = Walk
      /\ Names(run'.earlier) = Names(run.earlier)
  <2>1. Names(run'.dropped) = Names(run.dropped) \cup {b}
    <3>1. Names(run.dropped \cup {[target |-> b, of |-> a]}) = Names(run.dropped) \cup {b}
      BY NamesOfOneMore
    <3>2. QED
      BY <1>4, <3>1
  <2>2. QED
    BY <1>4, <2>1 DEF AtHand, Walk, Names
<1>8. PlacesOK'
  <2>1. RowsOK(run'.dropped) /\ RowsOK(run'.earlier)
    <3>1. \A x \in run.dropped : x.target # b
      BY <1>0, <1>2 DEF PlacesOK, Names
    <3>2. QED
      BY <1>0, <1>2, <1>4, <3>1 DEF PlacesOK, RowsOK
  <2>2. /\ \A x \in run'.dropped : x.of \in run'.kept /\ Stronger(x.of, x.target, Walk)'
        /\ \A x \in run'.earlier : Stronger(x.of, x.target, "align")' /\ x.of \notin Names(run'.earlier)
    BY <1>0, <1>2, <1>4, <1>5, <1>7 DEF PlacesOK, Names
  <2>3. \A t \in Target :
            /\ t \in run'.todo => t \notin run'.kept \cup Names(run'.dropped)
            /\ t \in run'.kept => t \notin Names(run'.dropped)
    BY <1>0, <1>2, <1>4, <1>7 DEF PlacesOK
  <2>4. \A x \in run'.kept \cup Names(run'.dropped), y \in run'.todo : Stronger(x, y, Walk)'
    <3>1. \A y \in run.todo : y = b \/ Stronger(b, y, run.phase)
      BY <1>2 DEF Turn
    <3>2. QED
      BY <1>0, <1>a, <1>4, <1>5, <1>7, <3>1 DEF PlacesOK
  <2>5. run'.mode \in {"probe", "served", "unserved"} =>
            /\ run'.phase = "align" => AtHand' = Target
            /\ run'.phase \in {"final", "written"} => AtHand' = onFile'
    BY <1>0, <1>1, <1>4, <1>7 DEF PlacesOK
  <2>6. QED
    BY <2>1, <2>2, <2>3, <2>4, <2>5 DEF PlacesOK, RowsOK, Names
<1>9. FoundOK'
  <2> SUFFICES ASSUME ~disturbed PROVE FoundOK'
    BY <1>1 DEF FoundOK
  <2>1. PICK K, S, p :
            /\ K \in SUBSET Target /\ S \in SUBSET Target
            /\ K = run.kept /\ S = run.kept \cup Names(run.dropped) /\ p = run.phase
    <3>1. run.kept \cup Names(run.dropped) \in SUBSET Target /\ run.kept \in SUBSET Target
      BY <1>0 DEF RunOK, PlacesOK, RowsOK, Names
    <3>2. QED
      BY <3>1
  <2>2. Complete(K, S, p)
    BY <1>0, <1>a, <2>1 DEF FoundOK
  <2>3. \A c \in K : Sooner(c, a, b, p) => Verdict(c, b, p) = "different"
    <3> SUFFICES ASSUME NEW c \in K, Sooner(c, a, b, p) PROVE Verdict(c, b, p) = "different"
      OBVIOUS
    <3>1. c # a /\ ~Sooner(a, c, b, p)
      BY <1>0, <1>2, <2>1, SoonerIsOrder
    <3>2. c \in run.passed
      BY <1>2, <2>1, <3>1
    <3>3. QED
      BY <1>0, <1>2, <2>1, <3>2 DEF FoundOK
  <2>4. \A t \in S : Stronger(t, b, p)
    BY <1>0, <1>a, <2>1 DEF PlacesOK
  <2>5. Complete(K, S \cup {b}, p)
    BY <1>0, <1>2, <2>1, <2>2, <2>3, <2>4, CompleteDrops
  <2>6. Complete(K, S \cup {b}, p)'
    BY <1>5, <2>5
  <2>7. Complete(run.kept, run.kept \cup Names(run.dropped), Walk)'
    <3>1. K = run'.kept /\ S \cup {b} = run'.kept \cup Names(run'.dropped) /\ p = Walk'
      BY <1>a, <1>4, <1>7, <2>1
    <3>2. QED
      BY <2>6, <3>1 DEF Complete, Names
  <2>8. run'.phase \in {"final", "written"} => Complete(Target \ Names(run.earlier), Target, "align")'
    <3>1. PICK T : T = Target \ Names(run.earlier)
      OBVIOUS
    <3>2. run.phase \in {"final", "written"} => Complete(T, Target, "align")'
      BY <1>0, <1>5, <3>1 DEF FoundOK
    <3>3. QED
      BY <1>4, <3>1, <3>2 DEF Complete, Names
  <2>9. \A x \in run'.dropped : Verdict(x.of, x.target, Walk)' = "same"
    BY <1>0, <1>a, <1>2, <1>4, <1>5, <1>7 DEF FoundOK
  <2>10. \A x \in run'.earlier : Verdict(x.of, x.target, "align")' = "same"
    BY <1>0, <1>4, <1>5 DEF FoundOK
  <2>11. QED
    BY <1>4, <2>7, <2>8, <2>9, <2>10 DEF FoundOK
<1>10. ReplayOK'
  <2> SUFFICES ASSUME run.mode = "unserved", ~disturbed PROVE ReplayOK'
    BY <1>1, <1>4 DEF ReplayOK
  <2>1. PICK A, K \in SUBSET Target :
            /\ Pass(A, K)
            /\ run.phase = "align" => run.kept = A \ run.todo /\ b \notin A
            /\ run.phase = "final" => run.kept = K \ run.todo /\ b \notin K
    BY <1>1, <1>2, NothingIsAsked
  <2>2. Pass(A, K)'
    <3>1. PICK V : V = onFile
      OBVIOUS
    <3>2. Complete(A, Target, "align")' /\ Complete(K, V, "final")'
      BY <1>5, <2>1, <3>1 DEF Pass
    <3>3. QED
      BY <1>1, <3>1, <3>2 DEF Pass, Complete
  <2>3. /\ run'.phase = "align" => run'.kept = A \ run'.todo
        /\ run'.phase = "final" => run'.kept = K \ run'.todo
    BY <1>4, <2>1
  <2>4. QED
    BY <2>2, <2>3 DEF ReplayOK
<1>11. FilesOK' /\ DecisionsSuffice'
  BY <1>1, <1>2, <1>4, WalkKeepsFiles
<1>12. QED
  BY <1>6, <1>8, <1>9, <1>10, <1>11 DEF Goes

LEMMA KeepGoes ==
    ASSUME TargetsInv, NEW b \in run.todo, Keep(b) PROVE Goes'
<1>0. WorldOK /\ DecisionsOK /\ RunOK /\ PlacesOK /\ FoundOK /\ ReplayOK
  BY DEF TargetsInv
<1>1. /\ Turn(b) /\ Opponents = {}
      /\ run' = [Advance(b) EXCEPT !.kept = Advance(b).kept \cup {b}]
      /\ UNCHANGED <<world, context, decisions, onFile, delivered, rejected, outcome, disturbed,
                     basis>>
  BY DEF Keep, Quiet
<1>2. Running /\ b \in Target /\ run.phase # "written" /\ Walk = run.phase /\ run.kept = run.passed
  BY <1>0, <1>1 DEF Turn, Opponents, RunOK, Walk
<1>3. run' = [stage |-> run.stage, mode |-> run.mode, phase |-> run.phase, todo |-> run.todo \ {b},
              kept |-> run.kept \cup {b}, passed |-> {}, dropped |-> run.dropped,
              earlier |-> run.earlier]
  BY <1>0, <1>1 DEF RunOK, Advance
<1>4. /\ run'.mode = run.mode /\ run'.phase = run.phase /\ run'.todo = run.todo \ {b}
      /\ run'.kept = run.kept \cup {b} /\ run'.passed = {}
      /\ run'.dropped = run.dropped /\ run'.earlier = run.earlier
  BY <1>3
<1>5. /\ \A x, y, p : Stronger(x, y, p)' = Stronger(x, y, p)
      /\ \A x, y, p : Verdict(x, y, p)' = Verdict(x, y, p)
      /\ \A K, S, p : Complete(K, S, p)' = Complete(K, S, p)
  BY <1>1, SameAnswers
<1>6. RunOK'
  BY <1>0, <1>1, <1>2, <1>3, <1>4 DEF RunOK, Running
<1>7. AtHand' = AtHand /\ Walk' = Walk
  BY <1>4 DEF AtHand, Walk, Names
<1>8. PlacesOK'
  <2>1. RowsOK(run'.dropped) /\ RowsOK(run'.earlier)
    BY <1>0, <1>4 DEF PlacesOK
  <2>2. /\ \A x \in run'.dropped : x.of \in run'.kept /\ Stronger(x.of, x.target, Walk)'
        /\ \A x \in run'.earlier : Stronger(x.of, x.target, "align")' /\ x.of \notin Names(run'.earlier)
    BY <1>0, <1>4, <1>5, <1>7 DEF PlacesOK, Names
  <2>3. \A t \in Target :
            /\ t \in run'.todo => t \notin run'.kept \cup Names(run'.dropped)
            /\ t \in run'.kept => t \notin Names(run'.dropped)
    BY <1>0, <1>2, <1>4, <1>7 DEF PlacesOK
  <2>4. \A x \in run'.kept \cup Names(run'.dropped), y \in run'.todo : Stronger(x, y, Walk)'
    <3>1. \A y \in run.todo : y = b \/ Stronger(b, y, run.phase)
      BY <1>1 DEF Turn
    <3>2. QED
      BY <1>0, <1>2, <1>4, <1>5, <1>7, <3>1 DEF PlacesOK
  <2>5. run'.mode \in {"probe", "served", "unserved"} =>
            /\ run'.phase = "align" => AtHand' = Target
            /\ run'.phase \in {"final", "written"} => AtHand' = onFile'
    BY <1>0, <1>1, <1>4, <1>7 DEF PlacesOK
  <2>6. QED
    BY <2>1, <2>2, <2>3, <2>4, <2>5 DEF PlacesOK, RowsOK, Names
<1>9. FoundOK'
  <2> SUFFICES ASSUME ~disturbed PROVE FoundOK'
    BY <1>1 DEF FoundOK
  <2>1. PICK K, S, p :
            /\ K \in SUBSET Target /\ S \in SUBSET Target
            /\ K = run.kept /\ S = run.kept \cup Names(run.dropped) /\ p = run.phase
    <3>1. run.kept \cup Names(run.dropped) \in SUBSET Target /\ run.kept \in SUBSET Target
      BY <1>0 DEF RunOK, PlacesOK, RowsOK, Names
    <3>2. QED
      BY <3>1
  <2>2. run.mode \in {"probe", "served", "unserved"} =>
            Complete(run.kept, run.kept \cup Names(run.dropped), Walk)'
    <3> SUFFICES ASSUME run.mode \in {"probe", "served", "unserved"}
                 PROVE  Complete(run.kept, run.kept \cup Names(run.dropped), Walk)'
      OBVIOUS
    <3>1. Complete(K, S, p)
      BY <1>0, <1>2, <2>1 DEF FoundOK
    <3>2. \A c \in K : Verdict(c, b, p) = "different"
      BY <1>0, <1>1, <1>2, <2>1 DEF FoundOK
    <3>3. \A t \in S : Stronger(t, b, p)
      BY <1>0, <1>2, <2>1 DEF PlacesOK
    <3>4. Complete(K \cup {b}, S \cup {b}, p)
      BY <1>0, <1>2, <2>1, <3>1, <3>2, <3>3, CompleteKeeps
    <3>5. Complete(K \cup {b}, S \cup {b}, p)'
      BY <1>5, <3>4
    <3>6. K \cup {b} = run'.kept /\ S \cup {b} = run'.kept \cup Names(run'.dropped) /\ p = Walk'
      BY <1>2, <1>4, <1>7, <2>1
    <3>7. QED
      BY <3>5, <3>6 DEF Complete, Names
  <2>3. run'.phase \in {"final", "written"} => Complete(Target \ Names(run.earlier), Target, "align")'
    <3>1. PICK T : T = Target \ Names(run.earlier)
      OBVIOUS
    <3>2. run.phase \in {"final", "written"} => Complete(T, Target, "align")'
      BY <1>0, <1>5, <3>1 DEF FoundOK
    <3>3. QED
      BY <1>4, <3>1, <3>2 DEF Complete, Names
  <2>4. \A x \in run'.dropped : Verdict(x.of, x.target, Walk)' = "same"
    BY <1>0, <1>2, <1>4, <1>5, <1>7 DEF FoundOK
  <2>5. \A x \in run'.earlier : Verdict(x.of, x.target, "align")' = "same"
    BY <1>0, <1>4, <1>5 DEF FoundOK
  <2>6. QED
    BY <1>4, <2>2, <2>3, <2>4, <2>5 DEF FoundOK
<1>10. ReplayOK'
  <2> SUFFICES ASSUME run.mode = "unserved", ~disturbed PROVE ReplayOK'
    BY <1>1, <1>4 DEF ReplayOK
  <2>1. PICK A, K \in SUBSET Target :
            /\ Pass(A, K)
            /\ run.phase = "align" => run.kept = A \ run.todo /\ b \in A
            /\ run.phase = "final" => run.kept = K \ run.todo /\ b \in K
    BY <1>1, NothingIsAsked
  <2>2. Pass(A, K)'
    <3>1. PICK V : V = onFile
      OBVIOUS
    <3>2. Complete(A, Target, "align")' /\ Complete(K, V, "final")'
      BY <1>5, <2>1, <3>1 DEF Pass
    <3>3. QED
      BY <1>1, <3>1, <3>2 DEF Pass, Complete
  <2>3. /\ run'.phase = "align" => run'.kept = A \ run'.todo
        /\ run'.phase = "final" => run'.kept = K \ run'.todo
    BY <1>4, <2>1
  <2>4. QED
    BY <2>2, <2>3 DEF ReplayOK
<1>11. FilesOK' /\ DecisionsSuffice'
  BY <1>1, <1>2, <1>4, WalkKeepsFiles
<1>12. QED
  BY <1>6, <1>8, <1>9, <1>10, <1>11 DEF Goes

(* The second walk is over what is on file, whatever the first one kept.    *)
LEMMA AlignedGoes == ASSUME TargetsInv, Aligned PROVE Goes'
<1>0. WorldOK /\ StoredOK /\ DecisionsOK /\ RunOK /\ PlacesOK /\ FoundOK /\ ReplayOK
  BY DEF TargetsInv
<1>1. /\ Running /\ run.phase = "align" /\ run.todo = {} /\ Walked("finalize")
      /\ run' = [Process("finalize", run.mode, "final", onFile) EXCEPT !.earlier = run.dropped]
      /\ UNCHANGED <<world, context, decisions, onFile, delivered, rejected, outcome, disturbed,
                     basis>>
  BY DEF Aligned, Walked, Quiet
<1>2. run.mode \in {"probe", "served", "unserved"} /\ Walk = "align"
  BY <1>0, <1>1 DEF RunOK, Running, Walk
<1>3. run' = [stage |-> "finalize", mode |-> run.mode, phase |-> "final", todo |-> onFile, kept |-> {},
              passed |-> {}, dropped |-> {}, earlier |-> run.dropped]
  BY <1>1 DEF Process
<1>4. /\ run'.mode = run.mode /\ run'.phase = "final" /\ run'.todo = onFile
      /\ run'.kept = {} /\ run'.passed = {} /\ run'.dropped = {} /\ run'.earlier = run.dropped
  BY <1>3
<1>5. /\ \A x, y, p : Stronger(x, y, p)' = Stronger(x, y, p)
      /\ \A x, y, p : Verdict(x, y, p)' = Verdict(x, y, p)
      /\ \A K, S, p : Complete(K, S, p)' = Complete(K, S, p)
  BY <1>1, SameAnswers
<1>6. RunOK'
  BY <1>0, <1>1, <1>2, <1>3, <1>4 DEF RunOK, StoredOK, Running
<1>7. Names(run'.dropped) = {} /\ AtHand' = onFile' /\ Walk' = "final"
      /\ run.kept \cup Names(run.dropped) = Target
  BY <1>0, <1>1, <1>2, <1>4 DEF AtHand, Walk, Names, PlacesOK
<1>8. PlacesOK'
  <2>1. RowsOK(run'.dropped) /\ RowsOK(run'.earlier)
    BY <1>0, <1>4 DEF PlacesOK, RowsOK
  <2>2. ASSUME NEW x \in run'.earlier
        PROVE  Stronger(x.of, x.target, "align")' /\ x.of \notin Names(run'.earlier)
    <3>1. x \in run.dropped /\ x.of \in run.kept /\ x.of \in Target
      BY <1>0, <1>4 DEF PlacesOK, RowsOK
    <3>2. Stronger(x.of, x.target, "align") /\ x.of \notin Names(run.dropped)
      BY <1>0, <1>2, <3>1 DEF PlacesOK
    <3>3. QED
      BY <1>4, <1>5, <3>2
  <2>3. QED
    BY <1>1, <1>4, <1>7, <2>1, <2>2 DEF PlacesOK, RowsOK, Names
<1>9. FoundOK'
  <2> SUFFICES ASSUME ~disturbed PROVE FoundOK'
    BY <1>1 DEF FoundOK
  <2>1. Complete(run.kept, run.kept \cup Names(run.dropped), Walk)'
    BY <1>4, <1>7 DEF Complete, Names
  <2>2. Complete(Target \ Names(run.earlier), Target, "align")'
    <3>1. PICK T : T = run.kept
      OBVIOUS
    <3>2. Complete(T, Target, "align")'
      BY <1>1, <1>2, <1>5, <3>1, WalkedIs
    <3>3. T = Target \ Names(run'.earlier)
      BY <1>0, <1>4, <1>7, <3>1 DEF PlacesOK, RunOK
    <3>4. QED
      BY <3>2, <3>3 DEF Complete, Names
  <2>3. \A x \in run'.earlier : Verdict(x.of, x.target, "align")' = "same"
    BY <1>0, <1>2, <1>4, <1>5 DEF FoundOK
  <2>4. QED
    BY <1>4, <2>1, <2>2, <2>3 DEF FoundOK
<1>10. ReplayOK'
  <2> SUFFICES ASSUME run.mode = "unserved", ~disturbed PROVE ReplayOK'
    BY <1>1, <1>4 DEF ReplayOK
  <2>1. PICK A, K \in SUBSET Target : Pass(A, K)
    BY <1>0 DEF ReplayOK
  <2>2. PICK V : V = onFile
    OBVIOUS
  <2>3. Complete(A, Target, "align")' /\ Complete(K, V, "final")'
    BY <1>5, <2>1, <2>2 DEF Pass
  <2>4. Pass(A, K)'
    BY <1>1, <2>2, <2>3 DEF Pass, Complete
  <2>5. run'.kept = K \ run'.todo
    BY <1>4, <2>1 DEF Pass, Complete
  <2>6. QED
    BY <1>4, <2>4, <2>5 DEF ReplayOK
<1>11. FilesOK' /\ DecisionsSuffice'
  <2>1. outcome = "none" /\ run'.phase = "final" /\ run'.mode # "validate"
    BY <1>0, <1>1, <1>2, <1>4 DEF RunOK
  <2>2. QED
    BY <1>1, <2>1 DEF FilesOK, DecisionsSuffice
<1>12. QED
  BY <1>6, <1>8, <1>9, <1>10, <1>11 DEF Goes

LEMMA WriteVerifiedGoes == ASSUME TargetsInv, WriteVerified PROVE Goes'
<1>0. WorldOK /\ DecisionsOK /\ RunOK /\ PlacesOK /\ FoundOK
  BY DEF TargetsInv
<1>1. /\ Running /\ run.phase = "final" /\ run.todo = {} /\ run.mode \in {"served", "unserved"}
      /\ delivered' \subseteq run.kept /\ Best(delivered', run.kept)
      /\ run' = [run EXCEPT !.phase = "written"]
      /\ UNCHANGED <<world, context, decisions, onFile, rejected, outcome, disturbed>>
  BY DEF WriteVerified, Finalized
<1>2. run' = [stage |-> run.stage, mode |-> run.mode, phase |-> "written", todo |-> run.todo, kept |-> run.kept,
              passed |-> run.passed, dropped |-> run.dropped, earlier |-> run.earlier]
  BY <1>0, <1>1 DEF RunOK
<1>3. /\ run'.mode = run.mode /\ run'.phase = "written" /\ run'.todo = run.todo
      /\ run'.kept = run.kept /\ run'.passed = run.passed
      /\ run'.dropped = run.dropped /\ run'.earlier = run.earlier
  BY <1>2
<1>4. /\ \A x, y, p : Stronger(x, y, p)' = Stronger(x, y, p)
      /\ \A x, y, p : Verdict(x, y, p)' = Verdict(x, y, p)
      /\ \A K, S, p : Complete(K, S, p)' = Complete(K, S, p)
  BY <1>1, SameAnswers
<1>5. Walk = "final" /\ Walk' = "final" /\ AtHand' = AtHand
  BY <1>1, <1>3 DEF Walk, AtHand, Names
<1>6. RunOK'
  BY <1>0, <1>1, <1>2, <1>3 DEF RunOK, Running
<1>7. PlacesOK'
  BY <1>0, <1>1, <1>3, <1>4, <1>5 DEF PlacesOK, RowsOK, AtHand, Names
<1>8. FoundOK'
  <2> SUFFICES ASSUME ~disturbed PROVE FoundOK'
    BY <1>1 DEF FoundOK
  <2>1. PICK K, S, T : /\ K = run.kept /\ S = run.kept \cup Names(run.dropped)
                       /\ T = Target \ Names(run.earlier)
    OBVIOUS
  <2>2. Complete(K, S, "final")' /\ Complete(T, Target, "align")'
    BY <1>0, <1>1, <1>4, <1>5, <2>1 DEF FoundOK
  <2>3. Complete(run.kept, run.kept \cup Names(run.dropped), Walk)'
    BY <1>3, <1>5, <2>1, <2>2 DEF Complete, Names
  <2>4. Complete(Target \ Names(run.earlier), Target, "align")'
    BY <1>3, <2>1, <2>2 DEF Complete, Names
  <2>5. QED
    BY <1>0, <1>1, <1>3, <1>4, <1>5, <2>3, <2>4 DEF FoundOK
<1>9. ReplayOK'
  <2> SUFFICES ASSUME run.mode = "unserved", ~disturbed PROVE ReplayOK'
    BY <1>1, <1>3 DEF ReplayOK
  <2>1. PICK A, K \in SUBSET Target : Pass(A, K)
    BY DEF TargetsInv, ReplayOK
  <2>2. PICK V : V = onFile
    OBVIOUS
  <2>3. Complete(A, Target, "align")' /\ Complete(K, V, "final")'
    BY <1>4, <2>1, <2>2 DEF Pass
  <2>4. Pass(A, K)'
    BY <1>1, <2>2, <2>3 DEF Pass, Complete
  <2>5. QED
    BY <1>3, <2>4 DEF ReplayOK
<1>10. FilesOK' /\ DecisionsSuffice'
  <2>1. outcome = "none" /\ run'.mode # "validate"
    BY <1>0, <1>1, <1>3 DEF RunOK
  <2>2. Best(delivered, run.kept)'
    BY <1>1, <1>3, <1>4 DEF Best
  <2>3. QED
    BY <1>1, <2>1, <2>2 DEF FilesOK, DecisionsSuffice
<1>11. QED
  BY <1>6, <1>7, <1>8, <1>9, <1>10 DEF Goes

LEMMA WriteRejectedGoes == ASSUME TargetsInv, WriteRejected PROVE Goes'
<1>0. /\ WorldOK /\ DecisionsOK /\ RunOK /\ PlacesOK /\ FoundOK /\ FilesOK /\ MadeOK
      /\ MaxPerSourceImage \in Nat
  BY TargetsAssumption DEF TargetsInv
<1>1. /\ Running /\ run.phase = "written"
      /\ rejected' = [alignment |-> run.earlier, final |-> run.dropped \cup Capped]
      /\ run' = Process("finalize", "validate", "validate", delivered)
      /\ UNCHANGED <<world, context, decisions, onFile, delivered, outcome, disturbed, basis>>
  BY DEF WriteRejected
<1>2. /\ run.mode \in {"served", "unserved"} /\ run.todo = {} /\ Walk = "final"
      /\ outcome = "none" /\ delivered \subseteq Target
  BY <1>0, <1>1 DEF RunOK, Walk, Running
<1>3. /\ run'.mode = "validate" /\ run'.phase = "validate" /\ run'.todo = delivered
      /\ run'.kept = {} /\ run'.passed = {} /\ run'.dropped = {} /\ run'.earlier = {}
      /\ rejected'.alignment = run.earlier /\ rejected'.final = run.dropped \cup Capped
  BY <1>1 DEF Process
<1>4. /\ \A x, y, p : Stronger(x, y, p)' = Stronger(x, y, p)
      /\ \A x, y, p : Verdict(x, y, p)' = Verdict(x, y, p)
  BY <1>1, SameAnswers
<1>5. RunOK' /\ PlacesOK'
  BY <1>1, <1>2, <1>3 DEF RunOK, Running, Process, PlacesOK, RowsOK, AtHand, Names
<1>6. FoundOK' /\ ReplayOK'
  BY <1>3 DEF FoundOK, ReplayOK
<1>7. ASSUME ~disturbed PROVE Delivery'
  <2>1. /\ Best(delivered, run.kept) /\ delivered \subseteq run.kept /\ run.kept \subseteq Target
        /\ Complete(run.kept, run.kept \cup Names(run.dropped), "final")
    BY <1>0, <1>1, <1>2, <1>7 DEF FilesOK, FoundOK, Best, RunOK
  <2>2. \A x \in run.dropped : x.of # 0 /\ x.target \in Names(run.dropped)
    BY <1>0, TargetsAre DEF PlacesOK, RowsOK, Names
  <2>3. \A x \in Capped : x.of = 0 /\ x.target \in run.kept \ delivered
    BY DEF Capped
  <2>4. Names(Capped) = run.kept \ delivered
    <3> DEFINE cap(t) == [target |-> t, of |-> 0]
    <3>1. \A t : cap(t).target = t
      OBVIOUS
    <3>2. Capped = {cap(t) : t \in run.kept \ delivered}
      BY DEF Capped
    <3>3. Names(Capped) = {x.target : x \in Capped}
      BY DEF Names
    <3> HIDE DEF cap
    <3>4. QED
      BY <3>1, <3>2, <3>3
  <2>5. Late' = Capped
    <3>1. Late' = {x \in rejected'.final : x.of = 0}
      BY DEF Late
    <3>2. QED
      BY <1>3, <2>2, <2>3, <3>1
  <2>6. Names(rejected'.final) = Names(run.dropped) \cup (run.kept \ delivered)
    <3>1. Names(rejected'.final) = Names(run.dropped) \cup Names(Capped)
      BY <1>3 DEF Names
    <3>2. QED
      BY <2>4, <3>1
  <2>7. run.kept \cup Names(run.dropped) = onFile
    BY <1>0, <1>1, <1>2 DEF AtHand, PlacesOK
  <2>8. \A t \in run.kept : t \notin Names(run.dropped)
    BY <1>0, <2>1 DEF PlacesOK
  <2>9. /\ delivered' \cup Names(rejected'.final) = onFile'
        /\ delivered' \cap Names(rejected'.final) = {}
    BY <1>1, <2>1, <2>6, <2>7, <2>8
  <2>10. \A rows \in {rejected'.alignment, rejected'.final} :
            \A x, y \in rows : x.target = y.target => x = y
    <3>1. \A x, y \in Capped : y.target = x.target => y = x
      BY DEF Capped
    <3>2. /\ \A x, y \in run.earlier : y.target = x.target => y = x
          /\ \A x, y \in run.dropped : y.target = x.target => y = x
      BY <1>0 DEF PlacesOK, RowsOK
    <3>3. \A x \in run.dropped, y \in Capped : x.target # y.target
      BY <2>2, <2>3, <2>8
    <3>4. QED
      BY <1>3, <3>1, <3>2, <3>3
  <2>11. /\ \A x \in rejected'.alignment : Direct(x, "align")' /\ x.of \notin Names(rejected'.alignment)
         /\ \A x \in rejected'.final \ Late' :
               Direct(x, "final")' /\ x.of \in delivered' \cup Names(Late')
    <3>1. ASSUME NEW x \in run.earlier PROVE Direct(x, "align")' /\ x.of \notin Names(run.earlier)
      BY <1>0, <1>4, <1>7 DEF PlacesOK, FoundOK, Direct
    <3>2. ASSUME NEW x \in run.dropped PROVE Direct(x, "final")' /\ x.of \in delivered' \cup Names(Late')
      <4>1. /\ Stronger(x.of, x.target, "final") /\ Verdict(x.of, x.target, "final") = "same"
            /\ x.of \in run.kept
        BY <1>0, <1>2, <1>7 DEF PlacesOK, FoundOK
      <4>2. Direct(x, "final")'
        BY <1>4, <4>1 DEF Direct
      <4>3. Names(Late') = run.kept \ delivered
        BY <2>4, <2>5
      <4>4. QED
        BY <1>1, <4>1, <4>2, <4>3
    <3>3. QED
      BY <1>3, <2>5, <3>1, <3>2
  <2>12. \A x \in Late', t \in delivered' : Stronger(t, x.target, "final")'
    BY <1>1, <1>4, <2>1, <2>3, <2>5 DEF Best
  <2>13. Late' # {} => Cardinality(delivered') = MaxPerSourceImage
    BY <1>1, <2>1, <2>3, <2>5 DEF Best
  <2>14. \A a, b \in delivered' : a # b => Verdict(a, b, "final")' = "different"
    <3>1. SUFFICES ASSUME NEW a \in delivered, NEW b \in delivered, a # b
                   PROVE  Verdict(a, b, "final") = "different"
      BY <1>1, <1>4
    <3>2. a \in run.kept /\ b \in run.kept /\ a \in Target /\ b \in Target
      BY <2>1
    <3>3. Stronger(a, b, "final") \/ Stronger(b, a, "final")
      BY <1>0, <3>1, <3>2, StrongerIsOrder
    <3>4. Verdict(a, b, "final") = "different" \/ Verdict(b, a, "final") = "different"
      BY <2>1, <3>2, <3>3 DEF Complete
    <3>5. QED
      BY <3>4, VerdictIsSymmetric
  <2>15. context' \in basis' => onFile' = Target \ Names(rejected'.alignment)
    <3>1. SUFFICES ASSUME context \in basis PROVE onFile = Target \ Names(run.earlier)
      BY <1>1, <1>3
    <3>2. Complete(onFile, Target, "align")
      BY <1>0, <3>1, CompleteNow DEF MadeOK
    <3>3. Complete(Target \ Names(run.earlier), Target, "align")
      BY <1>0, <1>1, <1>7 DEF FoundOK
    <3>4. QED
      BY <1>0, <3>2, <3>3, CompleteIsOne
  <2>16. QED
    BY <2>9, <2>10, <2>11, <2>12, <2>13, <2>14, <2>15 DEF Delivery, Names
<1>8. FilesOK' /\ DecisionsSuffice'
  <2>1. ~disturbed' => Delivery'
    BY <1>1, <1>7
  <2>2. QED
    BY <1>1, <1>2, <1>3, <2>1 DEF FilesOK, DecisionsSuffice
<1>9. QED
  BY <1>5, <1>6, <1>8 DEF Goes

-----------------------------------------------------------------------------
LEMMA TargetsStep == TargetsInv /\ [DedupNext]_targetVars => TargetsInv'
<1> SUFFICES ASSUME TargetsInv, [DedupNext]_targetVars PROVE TargetsInv'
  OBVIOUS
<1>1. WorldOK' /\ StoredOK' /\ DecisionsOK' /\ MadeOK'
  <2>1. WorldOK /\ UNCHANGED world
    BY WorldHolds DEF TargetsInv
  <2>2. QED
    BY <2>1, StoredHolds, DecisionsHold, MadeHolds DEF WorldOK
<1>2. Goes'
  <2>1. CASE UNCHANGED targetVars
    <3>1. UNCHANGED <<world, context, decisions, onFile, delivered, rejected, run, outcome, disturbed,
                      basis>>
      BY <2>1 DEF targetVars
    <3>2. /\ \A x, y, p : Stronger(x, y, p)' = Stronger(x, y, p)
          /\ \A x, y, p : Verdict(x, y, p)' = Verdict(x, y, p)
          /\ \A K, S, p : Complete(K, S, p)' = Complete(K, S, p)
      BY <3>1, SameAnswers
    <3>3. /\ AtHand' = AtHand /\ Walk' = Walk /\ Running' = Running
          /\ \A t : Turn(t)' = Turn(t)
      BY <3>1, <3>2 DEF AtHand, Walk, Names, Running, Turn
    <3>4. RunOK'
      BY <3>1 DEF TargetsInv, RunOK, Idle, Running
    <3>5. PlacesOK'
      BY <3>1, <3>2, <3>3 DEF TargetsInv, PlacesOK, RowsOK, Names
    <3>6. FoundOK'
      <4>1. PICK K, S, p, T : /\ K = run.kept /\ S = run.kept \cup Names(run.dropped)
                              /\ p = Walk /\ T = Target \ Names(run.earlier)
        OBVIOUS
      <4>2. /\ Complete(run.kept, run.kept \cup Names(run.dropped), Walk)' = Complete(K, S, p)'
            /\ Complete(Target \ Names(run.earlier), Target, "align")' = Complete(T, Target, "align")'
        BY <3>1, <3>3, <4>1 DEF Complete, Names
      <4>3. QED
        BY <3>1, <3>2, <3>3, <4>1, <4>2 DEF TargetsInv, FoundOK
    <3>7. ReplayOK'
      <4>1. PICK V : V = onFile
        OBVIOUS
      <4>2. \A A, K : Pass(A, K) => Complete(A, Target, "align")' /\ Complete(K, V, "final")'
        BY <3>2, <4>1 DEF Pass
      <4>3. \A A, K : Pass(A, K) => Pass(A, K)'
        BY <3>1, <4>1, <4>2 DEF Pass, Complete
      <4>4. QED
        BY <3>1, <3>3, <4>3 DEF TargetsInv, ReplayOK
    <3>8. FilesOK' /\ DecisionsSuffice'
      <4>1. Delivery => Delivery'
        BY <3>1, DecisionsHold, DeliveryStays DEF TargetsInv
      <4>2. Best(delivered, run.kept)' = Best(delivered, run.kept)
        BY <3>1, <3>2 DEF Best
      <4>3. QED
        BY <3>1, <4>1, <4>2 DEF TargetsInv, FilesOK, DecisionsSuffice
    <3>9. QED
      BY <3>4, <3>5, <3>6, <3>7, <3>8 DEF Goes
  <2>2. ASSUME NEW b \in run.todo, Keep(b) PROVE Goes'
    BY <2>2, KeepGoes
  <2>3. ASSUME NEW b \in run.todo, NEW a \in Opponents, Compare(a, b) PROVE Goes'
    BY <2>3, PassOverGoes, DropGoes, RefuteGoes, AskModelGoes, UndecidedGoes, UnservedGoes
       DEF Compare
  <2>4. QED
    BY <2>1, <2>2, <2>3, ProbeGoes, BoxesProbedGoes, BoxesVerifiedGoes, AlignedGoes, ProbedGoes, WriteVerifiedGoes,
       WriteRejectedGoes, ValidatedGoes, CrashGoes, EditGoes DEF DedupNext
<1>3. QED
  BY <1>1, <1>2 DEF TargetsInv, Goes

LEMMA TargetsInvHolds == DedupSpec => []TargetsInv
BY DedupInitHolds, TargetsStep, PTL DEF DedupSpec

(* Unless the image, the prompt or the settings change while a pass is going*)
(* on, the stage that runs without a model server asks no question: it does *)
(* what its probe did.  The validation needs no decision that was not made  *)
(* either, and finds no two delivered records to be the same object, as long*)
(* as the categories delivered are those that were looked for.  This is for *)
(* every number of alignments and any overlaps, texts, rankings and answers.*)
THEOREM PairsAreDecided == DedupSpec => []DecisionsSuffice
<1>1. TargetsInv => DecisionsSuffice
  BY DEF TargetsInv
<1>2. QED
  BY <1>1, TargetsInvHolds, PTL

(* When a pass was valid and nothing was edited meanwhile, every record on  *)
(* file is delivered, or rejected once: for a stronger record that was kept *)
(* and is the same object by a comparison of the two, or by the cap, as     *)
(* weaker than all delivered ones, which are then as many as the cap allows.*)
(* No two delivered ones are the same object.  An alignment that is listed  *)
(* as a duplicate has a stronger one that is not; these are all that is not *)
(* on file, when the file was made in the same context, whatever the context*)
(* was in between.                                                          *)
THEOREM DeliveryIsDistinct == DedupSpec => []DeliveredAreDistinct
<1>1. TargetsInv => DeliveredAreDistinct
  BY DEF TargetsInv, FilesOK, Delivery, DeliveredAreDistinct
<1>2. QED
  BY <1>1, TargetsInvHolds, PTL

(* A pass in the context of an earlier undisturbed one verifies the same    *)
(* records, and delivers the same when the file it takes them from is the   *)
(* same: whatever died in between, whatever more was decided, and whatever  *)
(* was changed and changed back.                                            *)
THEOREM DeliveryRepeats == DedupSpec => DeliveryIsStable
<1> DEFINE Files == /\ onFile' # onFile => context \notin basis \/ disturbed
                    /\ delivered' # delivered =>
                          [context |-> context, records |-> onFile] \notin made \/ disturbed
<1>1. TargetsInv /\ [DedupNext]_targetVars => [Files]_targetVars
  <2> SUFFICES ASSUME TargetsInv, DedupNext, ~disturbed PROVE Files
    OBVIOUS
  <2>1. CASE WriteVerified
    <3> SUFFICES ASSUME [context |-> context, records |-> onFile] \in made
                 PROVE  delivered' = delivered
      BY <2>1 DEF WriteVerified
    <3>1. /\ WorldOK /\ StoredOK /\ RunOK /\ FoundOK /\ MadeOK /\ PlacesOK
          /\ run.phase = "final" /\ run.todo = {} /\ run.mode \in {"served", "unserved"}
          /\ Best(delivered', run.kept) /\ Walk = "final"
      BY <2>1 DEF TargetsInv, WriteVerified, Finalized, Walk
    <3>2. PICK K \in SUBSET Target :
            CompleteIn(context, K, onFile, "final") /\ Best(delivered, K)
      BY <3>1 DEF MadeOK
    <3>3. Complete(K, onFile, "final")
      BY <3>2, CompleteNow
    <3>4. Complete(run.kept, onFile, "final") /\ onFile \in SUBSET Target
      BY <3>1 DEF FoundOK, PlacesOK, AtHand, StoredOK
    <3>5. run.kept = K
      BY <3>1, <3>3, <3>4, CompleteIsOne
    <3>6. QED
      BY <3>1, <3>2, <3>5, BestIsOne
  <2>2. CASE BoxesVerified
    <3> SUFFICES ASSUME context \in basis PROVE onFile' = onFile
      BY <2>2 DEF BoxesVerified
    <3>1. Complete(run.kept, Target, "align") /\ onFile' = run.kept
      BY <2>2, WalkedIs DEF BoxesVerified
    <3>2. Complete(onFile, Target, "align")
      BY CompleteNow DEF TargetsInv, MadeOK
    <3>3. QED
      BY <3>1, <3>2, CompleteIsOne DEF TargetsInv
  <2>3. QED
    BY <2>1, <2>2 DEF DedupNext, Compare, PassOver, Drop, Refute, AskModel, Undecided, Unserved, Keep,
                Probe, Quiet, BoxesProbed, Aligned, Probed, WriteRejected, Validated, DedupCrash,
                EditContext
<1>2. QED
  BY <1>1, TargetsInvHolds, PTL DEF DedupSpec, DeliveryIsStable
=============================================================================
