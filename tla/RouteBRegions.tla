---------------------------- MODULE RouteBRegions ----------------------------
(***************************************************************************)
(* The stage `aggregate` of the legacy Route B: which detections of the    *)
(* grounders are one instance (regions/consensus.py, regions/route_b.py),  *)
(* and the cache of the results of an image                                *)
(* (regions/route_b_aggregate_cache.py); and the audit of an expression    *)
(* that the grounders have answered.                                       *)
(*                                                                         *)
(* A box is an interval: all boxes have the height of the image.  Ratios   *)
(* are in thousandths, rounded down.  The stage may fail or die anywhere;  *)
(* edits and damage to a cache file fall between two processes.            *)
(***************************************************************************)
EXTENDS Integers, Sequences, FiniteSets, SequencesExt

CONSTANTS
    ImageId,       \* image ids, a set of numbers: their order is that of the output
    Entities,    \* entities of every image, in the order of the row
    Pool,        \* id of the entity that promotion adds for their common category
    Raws,        \* [ImageId -> sequences of detections]: what grounding may say first
    Masks,       \* tight boxes of the mask file, NoBox when it is gone or empty
    Supports,    \* values of min_grounder_support
    Sizes,       \* lengths of boxes that pass the size filter
    Responses,     \* detections the grounders may give for an expression
    MaxRegionEdits, MaxRegionFaults

ASSUME RegionsAssumption ==
    /\ ImageId \subseteq Nat /\ Supports \subseteq Nat \ {0} /\ Sizes \subseteq Nat
    /\ Pool \notin ToSet(Entities)
    /\ MaxRegionEdits \in Nat /\ MaxRegionFaults \in Nat

VARIABLES
    evidence,    \* what the stage reads: detections, image contents, masks, rules
    cache,    \* files of aggregate_cache
    results,  \* results of the running process, by image
    phase,    \* how far the process is
    overwrite, \* whether the process leaves cache files unread
    files,    \* the three files of the stage
    audit,    \* an audited expression
    regionEdits, regionFaults

regionVars ==
    <<evidence, cache, results, phase, overwrite, files, audit, regionEdits, regionFaults>>

-----------------------------------------------------------------------------
(* utils/geometry.py                                                        *)

(* The empty sequence makes TLC evaluate the elements once.                 *)
Mapped(Op(_), s) == [k \in DOMAIN s |-> Op(s[k])] \o <<>>

NoBox == [lo |-> 0, hi |-> 0]
Size(b) == b.hi - b.lo
Shared(a, b) ==
    LET left == IF a.lo > b.lo THEN a.lo ELSE b.lo
        right == IF a.hi < b.hi THEN a.hi ELSE b.hi
    IN  IF right > left THEN right - left ELSE 0
Iou(a, b) == (1000 * Shared(a, b)) \div (Size(a) + Size(b) - Shared(a, b))

(* regions/consensus.py                                                     *)

Alike(a, b) ==
    LET small == IF Size(a) <= Size(b) THEN a ELSE b
        large == IF Size(a) <= Size(b) THEN b ELSE a
    IN  \/ Iou(a, b) >= 500
        \/ 1000 * Shared(a, b) >= 800 * Size(small) /\ Size(large) <= 3 * Size(small)

Match(d, e) == d.grounder # e.grounder /\ Alike(d.box, e.box)

Root(parents, i) ==
    LET up[k \in 0..Len(parents)] == IF k = 0 THEN i ELSE parents[up[k - 1]]
    IN  up[Len(parents)]

UnionOfMembers(parents, i, j) ==  \* mutant: the member is moved, not its root
    [parents EXCEPT ![j] = Root(parents, i)]

(* Shortening the paths on the way changes no root.                         *)
Union(parents, i, j) ==
    IF Root(parents, i) = Root(parents, j) THEN parents
    ELSE [parents EXCEPT ![Root(parents, j)] = Root(parents, i)]

Numbers(n) == [k \in 1..n |-> k]
PairsOf(n) ==
    SelectSeq([k \in 1..(n * n) |-> <<((k - 1) \div n) + 1, ((k - 1) % n) + 1>>],
              LAMBDA p : p[1] < p[2])

Merged(records) ==
    FoldLeft(LAMBDA p, x : IF Match(records[x[1]], records[x[2]])
                           THEN Union(p, x[1], x[2]) ELSE p,
             Numbers(Len(records)), PairsOf(Len(records)))

RootsOf(parents) == [k \in DOMAIN parents |-> Root(parents, k)] \o <<>>

(* Clusters in the order of their first record.                             *)
Grouped(records, roots) ==
    LET firsts == SelectSeq(Numbers(Len(records)), LAMBDA i :
                        \A j \in 1..(i - 1) : roots[i] # roots[j])
        cluster(i) == Mapped(LAMBDA j : records[j],
                             SelectSeq(Numbers(Len(records)), LAMBDA j : roots[j] = roots[i]))
    IN  Mapped(cluster, firsts)

(* consensus_components *)
Components(records) == Grouped(records, RootsOf(Merged(records)))

(* sorted(..., reverse=True) and max: equals stay in their order.           *)
Above(x, y) == \E k \in DOMAIN x : x[k] > y[k] /\ \A j \in 1..(k - 1) : x[j] = y[j]

RankedBy(s, keys) ==
    Mapped(LAMBDA i : s[i],
           SortSeq(Numbers(Len(s)), LAMBDA i, j :
               Above(keys[i], keys[j]) \/ (~Above(keys[j], keys[i]) /\ i < j)))

Ranked(s, Key(_)) == RankedBy(s, Mapped(Key, s))

Foremost(s, Key(_)) == Head(Ranked(s, Key))

Grounders(cluster) == {d.grounder : d \in ToSet(cluster)}
Mean(s) == IF s = <<>> THEN 0 ELSE FoldLeft(+, 0, s) \div Len(s)
Median(s) ==
    LET sorted == SortSeq(s, <)
        n == Len(s)
    IN  IF n = 0 THEN 0 ELSE (sorted[(n + 1) \div 2] + sorted[n \div 2 + 1]) \div 2

(* A detection without score counts as one with score 0.                    *)
ClusterKey(cluster) ==
    LET cross == SelectSeq(PairsOf(Len(cluster)), LAMBDA p :
                    cluster[p[1]].grounder # cluster[p[2]].grounder)
        scores == SelectSeq(cluster, LAMBDA d : d.score > 0)
    IN  <<Cardinality(Grounders(cluster)),
          Len(SelectSeq(cross, LAMBDA p : Match(cluster[p[1]], cluster[p[2]]))),
          Median(Mapped(LAMBDA p : Iou(cluster[p[1]].box, cluster[p[2]].box), cross)),
          Mean(Mapped(LAMBDA d : d.score, scores)),
          -Len(cluster)>>

(* The mean overlap with the boxes of other grounders; then the score.      *)
Agreement(cluster, d) ==
    <<Mean(Mapped(LAMBDA e : Iou(d.box, e.box),
                  SelectSeq(cluster, LAMBDA e : e.grounder # d.grounder))), d.score>>

Tightened(cluster, mask) ==
    SelectSeq(Mapped(LAMBDA d : [d EXCEPT !.box = mask],
                     SelectSeq(cluster, LAMBDA d : d.masked /\ mask # NoBox)),
              LAMBDA d : \E e \in ToSet(cluster) : Match(d, e))

(* The tight box of a mask, where it is supported, is preferred; all of them*)
(* are the same.                                                            *)
Representative(cluster, mask) ==
    IF Tightened(cluster, mask) # <<>> THEN mask
    ELSE Foremost(cluster, LAMBDA d : Agreement(cluster, d)).box

-----------------------------------------------------------------------------
(* regions/route_b.py                                                       *)

(* Both deduplications: a box that nearly repeats one kept before it goes.  *)
KeptApart(ranked, least) ==
    FoldLeft(LAMBDA kept, x : IF \E y \in ToSet(kept) : Iou(y.box, x.box) >= least
                              THEN kept ELSE Append(kept, x),
             <<>>, ranked)

Flag(b) == IF b THEN 1 ELSE 0

(* deduplicate_grounder_records: grounders in the order they appear.        *)
Deduplicated(records) ==
    LET own(g) == SelectSeq(records, LAMBDA d : d.grounder = g)
        firsts == SelectSeq(Numbers(Len(records)), LAMBDA k :
                    \A j \in 1..(k - 1) : records[j].grounder # records[k].grounder)
        key(d) == <<Flag(d.query \notin {"category", "expression"}), d.score,
                    Flag(d.masked)>>
    IN  FlattenSeq(Mapped(LAMBDA k : KeptApart(Ranked(own(records[k].grounder), key), 950),
                          firsts))

(* The supported clusters, the best first, without those that repeat one.   *)
Instances(records, mask, support) ==
    LET clusters == SelectSeq(Components(Deduplicated(records)), LAMBDA c :
                        Cardinality(Grounders(c)) >= support)
        found == Mapped(LAMBDA c : [box |-> Representative(c, mask), key |-> ClusterKey(c)],
                        clusters)
    IN  KeptApart(Ranked(found, LAMBDA f : f.key), 850)

(* records_by_entity: the category is asked once for all its entities.      *)
RecordsOf(entity, raw) == SelectSeq(raw, LAMBDA d : d.query \in {"category", entity})

Rows == Append(Entities, Pool)

(* The candidates of an entity, from left to right.                         *)
Placed(entity, content, boxes) ==
    [k \in DOMAIN boxes |->
        [entity |-> entity, number |-> k, box |-> boxes[k],
         sizePass |-> Size(boxes[k]) \in Sizes,
         shared |-> [content |-> content, box |-> boxes[k]]]] \o <<>>

Boxes(entity, input) ==
    Mapped(LAMBDA f : f.box,
           Ranked(Instances(RecordsOf(entity, input.raw), input.mask, input.support),
                  LAMBDA f : <<-f.box.lo, -f.box.hi>>))

Payload(per) ==
    [candidates |-> FlattenSeq(per),
     rejections |-> {<<c.entity, c.number>> :
                        c \in {x \in UNION {ToSet(per[k]) : k \in DOMAIN per} : ~x.sizePass}}
                    \cup {<<Rows[k], 0>> : k \in {j \in DOMAIN per : per[j] = <<>>}}]

(* _aggregate_route_b_entities_serial, for one image.                       *)
Aggregated(input) ==
    Payload(Mapped(LAMBDA e : Placed(e, input.content, Boxes(e, input)), Rows))

Recovers(found, box) ==
    /\ Iou(found, box) >= 500
    /\ 4 * Size(found) <= 5 * Size(box) /\ 4 * Size(box) <= 5 * Size(found)

(* evaluate_expression_reground *)
Judged(clusters, box) ==
    [passed |-> Len(clusters) = 1 /\ Recovers(Head(clusters), box),
     clusters |-> clusters,
     reason |-> IF clusters = <<>> THEN "no_result"
                ELSE IF ~\E b \in ToSet(clusters) : Recovers(b, box) THEN "not_recovered"
                ELSE IF Len(clusters) > 1 THEN "multiple_targets" ELSE "none"]

Audited(box, records, mask, support) ==
    Judged(Mapped(LAMBDA c : c.box, Instances(records, mask, support)), box)

-----------------------------------------------------------------------------
(* regions/route_b_aggregate_cache.py                                       *)

AggregateInput(i) == [image |-> i, raw |-> evidence.raw[i], content |-> evidence.content[i],
             mask |-> evidence.mask, support |-> evidence.support]

NoFiles == [candidates |-> <<>>, rejections |-> {}, shared |-> {}]
Resting == {"idle", "done", "audited"}
NoAudit == [passed |-> FALSE, reason |-> "none", clusters |-> <<>>, records |-> <<>>]

RegionsInit ==
    /\ evidence \in [raw : Raws, content : {[i \in ImageId |-> 0]},
                  mask : Masks, support : Supports]
    /\ cache = {} /\ results = <<>> /\ phase = "idle" /\ overwrite = FALSE
    /\ files = NoFiles /\ audit = NoAudit
    /\ regionEdits = 0 /\ regionFaults = 0

SignatureOfRecords(i) ==  \* mutant: the mask files are left out
    [AggregateInput(i) EXCEPT !.mask = NoBox]

ImageSignature(i) == AggregateInput(i)

BeginAggregate ==
    /\ phase \in Resting
    /\ phase' = "working" /\ results' = <<>>
    /\ overwrite' \in BOOLEAN
    /\ audit' = NoAudit
    /\ UNCHANGED <<evidence, cache, files, regionEdits, regionFaults>>

IntactUnread(entry) == TRUE  \* mutant: the checksum is not compared

Intact(entry) == entry.sound

CacheFile(i) == {e \in cache : e.signature = ImageSignature(i)}
Working(i) == phase = "working" /\ i \notin DOMAIN results

(* results[image_id] = payload *)
Finished(i, payload) == results' = [j \in DOMAIN results \cup {i} |->
                                        IF j = i THEN payload ELSE results[j]]

Hit(i) ==
    /\ Working(i) /\ ~overwrite
    /\ \E e \in CacheFile(i) : Intact(e) /\ Finished(i, e.payload)
    /\ UNCHANGED <<evidence, cache, phase, overwrite, files, audit, regionEdits, regionFaults>>

Compute(i) ==
    /\ Working(i)
    /\ overwrite \/ ~\E e \in CacheFile(i) : Intact(e)
    /\ \E payload \in {Aggregated(AggregateInput(i))} :
           /\ cache' = (cache \ CacheFile(i)) \cup
                       {[signature |-> ImageSignature(i), payload |-> payload, sound |-> TRUE]}
           /\ Finished(i, payload)
    /\ UNCHANGED <<evidence, phase, overwrite, files, audit, regionEdits, regionFaults>>

(* The results in the order of the images, not in that of their ends.       *)
CandidateRows(found) ==
    LET order == SortSeq(SetToSeq(DOMAIN found), <)
        of(i) == Mapped(LAMBDA c : [image |-> i, candidate |-> c], found[i].candidates)
    IN  FlattenSeq(Mapped(of, order))

Rejections(found) == UNION {{<<i>> \o r : r \in found[i].rejections} : i \in DOMAIN found}

(* The pool: one entry for every box of an image, with all who refer to it. *)
SharedInstances(found) ==
    {[instance |-> <<r.image, r.candidate.shared>>,
      references |-> {<<q.candidate.entity, q.candidate.number>> : q \in
            {x \in found : x.image = r.image /\ x.candidate.shared = r.candidate.shared}}]
        : r \in found}

(* Three files, each replaced at once, one after the other.                 *)
Publish ==
    /\ \/ /\ phase = "working" /\ DOMAIN results = ImageId
          /\ files' = [files EXCEPT !.candidates = CandidateRows(results)]
          /\ phase' = "candidates" /\ UNCHANGED results
       \/ /\ phase = "candidates"
          /\ files' = [files EXCEPT !.rejections = Rejections(results)]
          /\ phase' = "rejections" /\ UNCHANGED results
       \/ /\ phase = "rejections"
          /\ files' = [files EXCEPT !.shared = SharedInstances(ToSet(CandidateRows(results)))]
          /\ phase' = "done" /\ results' = <<>>
    /\ UNCHANGED <<evidence, cache, overwrite, audit, regionEdits, regionFaults>>

(* The grounders have been asked for the expression of a candidate.         *)
Audit ==
    /\ phase = "done" /\ phase' = "audited"
    /\ \E c \in ToSet(files.candidates), records \in Responses :
        /\ c.candidate.sizePass
        /\ audit' = [records |-> records] @@
                Audited(c.candidate.box, records, evidence.mask, evidence.support)
    /\ UNCHANGED <<evidence, cache, results, overwrite, files, regionEdits, regionFaults>>

-----------------------------------------------------------------------------
(* Faults and edits *)

(* The process dies, or a worker raises: the stage ends with nothing more   *)
(* published.                                                               *)
Interrupt ==
    /\ phase \notin Resting /\ regionFaults < MaxRegionFaults
    /\ phase' = "idle" /\ results' = <<>> /\ overwrite' = FALSE
    /\ regionFaults' = regionFaults + 1
    /\ UNCHANGED <<evidence, cache, files, audit, regionEdits>>

Damage ==
    /\ phase \in Resting /\ regionFaults < MaxRegionFaults
    /\ \E e \in cache :
        /\ e.sound
        /\ cache' = (cache \ {e}) \cup
                {[e EXCEPT !.sound = FALSE, !.payload.candidates = <<>>]}
    /\ regionFaults' = regionFaults + 1
    /\ UNCHANGED <<evidence, results, phase, overwrite, files, audit, regionEdits>>

(* Grounding is repeated with one detection less, an image or the mask      *)
(* changes, or the rules do; an image may be what it was before.            *)
EditEvidence ==
    /\ phase \in Resting /\ regionEdits < MaxRegionEdits
    /\ \/ \E i \in ImageId : \E k \in DOMAIN evidence.raw[i] :
            evidence' = [evidence EXCEPT !.raw[i] = RemoveAt(@, k)]
       \/ \E i \in ImageId : \E n \in (0..MaxRegionEdits) \ {evidence.content[i]} :
            evidence' = [evidence EXCEPT !.content[i] = n]
       \/ \E m \in Masks \ {evidence.mask} : evidence' = [evidence EXCEPT !.mask = m]
       \/ \E n \in Supports \ {evidence.support} : evidence' = [evidence EXCEPT !.support = n]
    /\ phase' = "idle" /\ audit' = NoAudit /\ regionEdits' = regionEdits + 1
    /\ UNCHANGED <<cache, results, overwrite, files, regionFaults>>

RegionsNext ==
    \/ BeginAggregate
    \/ \E i \in ImageId : Hit(i) \/ Compute(i)
    \/ Publish \/ Audit \/ Interrupt \/ Damage \/ EditEvidence

RegionsSpec == RegionsInit /\ [][RegionsNext]_regionVars

-----------------------------------------------------------------------------
(* Properties *)

(* When the stage has ended, its three files, which are not written         *)
(* together, are those of the present detections, images, masks and rules:  *)
(* whatever was computed before under others, was interrupted, or was       *)
(* damaged since.                                                           *)
AggregateIsCurrent ==
    phase = "done" =>
        \E fresh \in {[i \in ImageId |-> Aggregated(AggregateInput(i))]} :
            /\ files.candidates = CandidateRows(fresh)
            /\ files.rejections = Rejections(fresh)
            /\ files.shared = SharedInstances(ToSet(CandidateRows(fresh)))

(* What a cluster should be, without an algorithm: the records that a chain *)
(* of matches connects with one of them.                                    *)
Connected(records, i) ==
    LET closed(S) == \A j \in S, k \in DOMAIN records :
                        Match(records[j], records[k]) => k \in S
    IN  {records[j] : j \in {k \in DOMAIN records :
            \A S \in SUBSET DOMAIN records : i \in S /\ closed(S) => k \in S}}

SupportedObjects(records, support) ==
    {o \in {Connected(records, i) : i \in DOMAIN records} :
        Cardinality({d.grounder : d \in o}) >= support}

(* Nearly repeats the box of an object; a mask may have moved that box.     *)
Covers(box, object) == \E d \in object : Alike(box, d.box)

(* What enough grounders agree about is an instance, and nothing else is:   *)
(* every chain of matches with enough grounders is covered by an instance   *)
(* of each entity that asked for it, every instance covers one, there are   *)
(* not more of them than chains, no two of an entity are nearly the same;   *)
(* and an expression passes only when all chains lead to its target.        *)
ConsensusIsExact ==
    /\ phase = "done" =>
        \A i \in ImageId, e \in ToSet(Entities) \cup {Pool} :
            LET found == {c.candidate.box : c \in
                            {x \in ToSet(files.candidates) :
                                x.image = i /\ x.candidate.entity = e}}
                objects == SupportedObjects(
                    Deduplicated(RecordsOf(e, evidence.raw[i])), evidence.support)
            IN  /\ \A o \in objects : \E b \in found : Covers(b, o)
                /\ \A b \in found : \E o \in objects : Covers(b, o)
                /\ Cardinality(found) <= Cardinality(objects)
                /\ \A a, b \in found : a = b \/ Iou(a, b) < 850
    /\ phase = "audited" =>
        LET objects == SupportedObjects(Deduplicated(audit.records), evidence.support)
        IN  /\ audit.passed => \A o \in objects : Covers(Head(audit.clusters), o)
            /\ audit.reason = "no_result" <=> objects = {}
=============================================================================
