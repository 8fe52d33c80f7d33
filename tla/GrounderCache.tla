--------------------------- MODULE GrounderCache ----------------------------
(***************************************************************************)
(* The files between invoke_grounders (routes/common.py), the worker       *)
(* process of a grounder (grounding/base.py) and the reconciliation of what*)
(* an earlier invocation left (grounding/cache.py).  An invocation runs the*)
(* grounders one after the other; for each it rewrites the worker's output,*)
(* progress and requests, runs the worker on what is missing, and merges   *)
(* the outputs at the end.  It dies at any moment and is invoked again,    *)
(* with the same requests or with others.                                  *)
(*                                                                         *)
(* What a detection is does not matter here; where it comes from does: a   *)
(* row remembers the inference it was produced by.                         *)
(***************************************************************************)
EXTENDS Naturals, FiniteSets

CONSTANTS
    Id,            \* request ids
    Query,         \* image content, phrase and size: query_identity and hash
    NumGrounders,
    Manifests,     \* the requests an invocation may be given
    Contexts,      \* model settings: context signatures
    Sizes,         \* how many boxes an inference may return
    BatchSize,
    MaxRuns,       \* bound on inferences
    MaxCacheFaults, \* bound on crashes, failures, node losses and cleanups
    None

\* An id holds the image and, up to case, the phrase, so only the content of
\* the image changes under it, and then for every request on that image at once
\* (regions/route_b.py lines 57-59, 82-85 and 118-121).  Phrases of two ids that
\* differ in case only are left out.
NoAlias ==
    \A old, new \in Manifests : \A r, s \in Id :
        old[r] # None /\ new[r] # None /\ old[r] # new[r] => old[s] # new[r]

Inference == [query: Query, context: Contexts, size: Sizes, run: 1..MaxRuns]
Invocation == [manifest: Manifests, context: Contexts, fresh: BOOLEAN]

ASSUME CacheAssumption ==
    /\ Id \subseteq Nat /\ IsFiniteSet(Id)
    /\ Manifests \subseteq [Id -> Query \cup {None}]
    /\ None \notin Id /\ None \notin Query /\ None \notin Manifests
    /\ None \notin Inference /\ None \notin Invocation
    /\ NoAlias
    /\ NumGrounders \in Nat \ {0} /\ BatchSize \in Nat \ {0}
    /\ Sizes \subseteq Nat /\ MaxRuns \in Nat /\ MaxCacheFaults \in Nat

VARIABLES
    rows,     \* output of a worker
    marks,    \* progress of a worker
    asked,    \* requests of a worker
    merged,   \* combined_output, None before the first merge
    settled,  \* <combined>_requests.jsonl, None before the first merge
    cleaned,  \* inferences whose mask files have been removed
    snapshot, \* the files of the last RAM checkpoint
    invocation, \* arguments of the invocation
    pc,       \* where the invocation is
    g,        \* the grounder it is at
    committed, \* the marks reconcile is going to write
    batch,    \* results of the worker not yet appended, by id
    written,  \* the id whose rows are appended and whose mark is not
    runs, cacheFaults

files == <<rows, marks, asked, merged, settled, cleaned>>
memory == <<g, committed, batch, written>>
cacheVars == <<files, snapshot, invocation, pc, memory, runs, cacheFaults>>

Grounder == 1..NumGrounders
Row == [id: Id, index: Nat, from: Inference]
Mark == [id: Id, count: Nat, context: Contexts]
NoBatch == [r \in Id |-> None]

\* None stands for a file that is not there yet.
Files ==
    [Grounder -> SUBSET Row] \X [Grounder -> SUBSET Mark] \X [Grounder -> Manifests \cup {None}]
        \X ({None} \cup SUBSET [grounder: Grounder, row: Row]) \X (Manifests \cup {None})
        \X SUBSET (1..MaxRuns)

CacheTypeOK ==
    /\ files \in Files /\ snapshot \in Files
    /\ invocation \in Invocation \cup {None}
    /\ pc \in {"idle", "reconcile", "mark", "ask", "work", "merge", "settle", "returned"}
    /\ g \in Grounder
    /\ committed \subseteq Mark
    /\ batch \in [Id -> Inference \cup {None}] /\ written \in Id \cup {None}
    /\ runs \in 0..MaxRuns /\ cacheFaults \in 0..MaxCacheFaults

CacheInit ==
    /\ rows = [h \in Grounder |-> {}] /\ marks = [h \in Grounder |-> {}]
    /\ asked = [h \in Grounder |-> None]
    /\ merged = None /\ settled = None /\ cleaned = {}
    /\ snapshot = files
    /\ invocation = None /\ pc = "idle" /\ g = 1
    /\ committed = {} /\ batch = NoBatch /\ written = None
    /\ runs = 0 /\ cacheFaults = 0

Requested == {r \in Id : invocation.manifest[r] # None}
Marked(h) == {m.id : m \in marks[h]}

-----------------------------------------------------------------------------
(* reconcile_worker_cache                                                   *)

\* The rows of an id, the last one where an index was written twice.
Detections(h, r) ==
    {row \in rows[h] : row.id = r /\ \A other \in rows[h] :
        other.id = r /\ other.index = row.index => other.from.run <= row.from.run}

\* mutant: the requests of the worker are not kept, only the combined ones
PriorCombined(h) == settled

\* worker_requests, or the combined requests before it exists.
Prior(h) == IF asked[h] # None THEN asked[h] ELSE settled

\* Only a full, durable success marker can commit detections.
Usable(h, m, context) ==
    /\ Prior(h) # None /\ Prior(h)[m.id] # None
    /\ Cardinality(Detections(h, m.id)) = m.count
    /\ \A row \in Detections(h, m.id) : row.from.run \notin cleaned
    /\ m.context = context

\* mutant: an empty result does not count as one
ReusableFound(h) ==
    IF invocation.fresh THEN {}
    ELSE {m \in marks[h] : m.count > 0 /\ Usable(h, m, invocation.context)}

\* For every query the mark it is reused from; a later one replaces an earlier.
Reusable(h) ==
    IF invocation.fresh THEN {}
    ELSE {m \in marks[h] : Usable(h, m, invocation.context)}

Picks(h) ==
    {pick \in [{Prior(h)[m.id] : m \in Reusable(h)} -> Reusable(h)] :
        \A q \in DOMAIN pick : Prior(h)[pick[q].id] = q}

\* Rebinding: rows and marks under the ids of this invocation.
Answered(pick) == {r \in Id : invocation.manifest[r] \in DOMAIN pick}

Rebound(h, pick) ==
    UNION {{[id |-> r, index |-> row.index, from |-> row.from] :
                row \in Detections(h, pick[invocation.manifest[r]].id)} : r \in Answered(pick)}

Recommitted(pick) ==
    {[id |-> r, count |-> pick[invocation.manifest[r]].count, context |-> invocation.context] :
        r \in Answered(pick)}

Invoke ==
    /\ pc \in {"idle", "returned"}
    /\ invocation' \in Invocation
    /\ g' = 1 /\ pc' = "reconcile"
    /\ UNCHANGED <<files, snapshot, committed, batch, written, runs, cacheFaults>>

WriteOutput ==
    /\ pc = "reconcile"
    /\ \E pick \in Picks(g) :
        /\ rows' = [rows EXCEPT ![g] = Rebound(g, pick)]
        /\ committed' = Recommitted(pick)
    /\ pc' = "mark"
    /\ UNCHANGED <<marks, asked, merged, settled, cleaned, snapshot, invocation, g, batch,
                    written, runs, cacheFaults>>

WriteProgress ==
    /\ pc = "mark"
    /\ marks' = [marks EXCEPT ![g] = committed]
    /\ pc' = "ask"
    /\ UNCHANGED <<rows, asked, merged, settled, cleaned, snapshot, invocation, memory,
                   runs, cacheFaults>>

\* The requests follow; a grounder with nothing missing is skipped.
WriteRequests ==
    /\ pc = "ask"
    /\ asked' = [asked EXCEPT ![g] = invocation.manifest]
    /\ pc' = "work"
    /\ UNCHANGED <<rows, marks, merged, settled, cleaned, snapshot, invocation, memory,
                   runs, cacheFaults>>

-----------------------------------------------------------------------------
(* run_phrase_worker                                                        *)

Missing == Requested \ Marked(g)

\* The results of a batch are in memory before the first is written.
Infer ==
    /\ pc = "work" /\ batch = NoBatch /\ Missing # {}
    /\ \E b \in (SUBSET Missing) \ {{}} :
        /\ Cardinality(b) <= BatchSize /\ (Cardinality(b) = BatchSize \/ b = Missing)
        /\ runs + Cardinality(b) <= MaxRuns
        /\ runs' = runs + Cardinality(b)
        /\ \E size \in [b -> Sizes] :
            batch' = [r \in Id |->
                IF r \notin b THEN None
                ELSE [query |-> invocation.manifest[r], context |-> invocation.context,
                      size |-> size[r], run |-> runs + Cardinality({s \in b : s <= r})]]
    /\ UNCHANGED <<files, snapshot, invocation, pc, g, committed, written, cacheFaults>>

\* append_many: all rows of a request at once.
AppendRows(r) ==
    /\ pc = "work" /\ batch[r] # None /\ written = None
    /\ rows' = [rows EXCEPT ![g] = @ \cup
            {[id |-> r, index |-> i - 1, from |-> batch[r]] : i \in 1..batch[r].size}]
    /\ written' = r
    /\ UNCHANGED <<marks, asked, merged, settled, cleaned, snapshot, invocation, pc, g,
                   committed, batch, runs, cacheFaults>>

\* The success marker, and then checkpoint_boundary, which may take a snapshot.
AppendMark(r) ==
    /\ pc = "work" /\ written = r
    /\ marks' = [marks EXCEPT ![g] = @ \cup
            {[id |-> r, count |-> batch[r].size, context |-> batch[r].context]}]
    /\ batch' = [batch EXCEPT ![r] = None] /\ written' = None
    /\ UNCHANGED <<rows, asked, merged, settled, cleaned, invocation, pc, g, committed, runs,
                   cacheFaults>>
    /\ snapshot' \in {snapshot, files'}

-----------------------------------------------------------------------------
(* invoke_grounders                                                         *)

\* mutant: a worker that ended is taken for one that is complete
EndGrounderAnyway ==
    /\ pc = "work" /\ batch = NoBatch
    /\ IF g < NumGrounders THEN g' = g + 1 /\ pc' = "reconcile"
       ELSE pc' = "merge" /\ UNCHANGED g
    /\ UNCHANGED <<files, snapshot, invocation, committed, batch, written, runs, cacheFaults>>

EndGrounder ==
    /\ pc = "work" /\ Missing = {} /\ batch = NoBatch
    /\ IF g < NumGrounders THEN g' = g + 1 /\ pc' = "reconcile"
       ELSE pc' = "merge" /\ UNCHANGED g
    /\ UNCHANGED <<files, snapshot, invocation, committed, batch, written, runs, cacheFaults>>

\* unique_worker_records: the first row of an id and index is kept.
Merge ==
    /\ pc = "merge"
    /\ merged' = {[grounder |-> p[1], row |-> p[2]] : p \in
            {x \in Grounder \X UNION {rows[h] : h \in Grounder} :
                /\ x[2] \in rows[x[1]] /\ x[2].id \in Requested
                /\ \A other \in rows[x[1]] :
                    other.id = x[2].id /\ other.index = x[2].index
                        => x[2].from.run <= other.from.run}}
    /\ pc' = "settle"
    /\ UNCHANGED <<rows, marks, asked, settled, cleaned, snapshot, invocation, memory,
                   runs, cacheFaults>>

Settle ==
    /\ pc = "settle"
    /\ settled' = invocation.manifest
    /\ pc' = "returned"
    /\ UNCHANGED <<rows, marks, asked, merged, cleaned, snapshot, invocation, memory,
                   runs, cacheFaults>>

-----------------------------------------------------------------------------
(* Faults                                                                   *)

CacheFault == cacheFaults < MaxCacheFaults /\ cacheFaults' = cacheFaults + 1

Stop == pc' = "idle" /\ committed' = {} /\ batch' = NoBatch /\ written' = None

\* An exception or the death of the worker ends the invocation too.
Crash ==
    /\ pc \notin {"idle", "returned"} /\ CacheFault /\ Stop
    /\ UNCHANGED <<files, snapshot, invocation, g, runs>>

\* The node is lost; a new owner continues from the RAM checkpoint.
LoseNode ==
    /\ CacheFault /\ Stop
    /\ rows' = snapshot[1] /\ marks' = snapshot[2] /\ asked' = snapshot[3]
    /\ merged' = snapshot[4] /\ settled' = snapshot[5] /\ cleaned' = snapshot[6]
    /\ UNCHANGED <<snapshot, invocation, g, runs>>

\* Mask files are removed while the rows that name them stay.
CleanMasks ==
    /\ pc \in {"idle", "returned"} /\ CacheFault
    /\ \E h \in Grounder : \E row \in rows[h] : cleaned' = cleaned \cup {row.from.run}
    /\ UNCHANGED <<rows, marks, asked, merged, settled, snapshot, invocation, pc, memory, runs>>

Work ==
    \/ WriteOutput \/ WriteProgress \/ WriteRequests
    \/ Infer
    \/ \E r \in Id : AppendRows(r) \/ AppendMark(r)
    \/ EndGrounder \/ Merge \/ Settle

CacheNext == Invoke \/ Work \/ Crash \/ LoseNode \/ CleanMasks

CacheSpec == CacheInit /\ [][CacheNext]_cacheVars

-----------------------------------------------------------------------------
(* Properties.                                                              *)

\* Rows that are exactly what one inference on a query returned.
Whole(set, query, context) ==
    \E res \in Inference :
        /\ res.query = query /\ res.context = context
        /\ set = {[index |-> i - 1, from |-> res] : i \in 1..res.size}

Unbound(set) == {[index |-> row.index, from |-> row.from] : row \in set}

\* However the files were left, a mark that reconcile would accept stands for
\* the complete result of one inference on the query its id had in the prior
\* requests, under the settings in the mark (cache.py line 62, common.py line
\* 79-80): a crash between any two of the rewrites never attaches the boxes of
\* one query to another, nor a half-written result.
MarksAreWhole ==
    \A h \in Grounder : \A m \in marks[h] :
        Usable(h, m, m.context)
            => /\ Whole(Unbound(Detections(h, m.id)), Prior(h)[m.id], m.context)
               /\ Cardinality(Detections(h, m.id)) = m.count

\* What an invocation returns: for every grounder and request the rows of one
\* inference on that request, as many as its success marker promises, and no
\* other rows (common.py lines 127-157).
MergedIsSound ==
    pc = "returned" =>
        /\ \A h \in Grounder, r \in Requested :
            LET found == {x.row : x \in {y \in merged : y.grounder = h /\ y.row.id = r}}
            IN  /\ Whole(Unbound(found), invocation.manifest[r], invocation.context)
                /\ \E m \in marks[h] : m.id = r /\ m.count = Cardinality(found)
        /\ \A x \in merged : x.row.id \in Requested

\* A mark that counts stands for whole rows between any two writes, and what is
\* merged in the end is whole and complete.
CacheInv == CacheTypeOK /\ MarksAreWhole /\ MergedIsSound

\* Queries an invocation for the prior requests need not infer again.
Cached(h, context) ==
    IF Prior(h) = None THEN {}
    ELSE {Prior(h)[m.id] : m \in {n \in marks[h] : Usable(h, n, context)}}

\* Between the rewrites of rows and marks, those that are going to stay: a mark
\* that promises no rows may become usable for that moment, when the rows of
\* another request on the same query, rebound to its id before, are dropped.
Kept(h) ==
    Cached(h, invocation.context)
        \cap IF pc = "mark" /\ h = g THEN {invocation.manifest[m.id] : m \in committed} ELSE Query

Resumes(h) ==
    /\ invocation # None /\ invocation' = invocation
    /\ ~invocation.fresh /\ Prior(h) = invocation.manifest

\* An invocation that resumes the same requests never loses what is cached,
\* at any of its steps and wherever it dies, except to the removal of a mask
\* file (common.py lines 79-80).
ResumeKeepsWork ==
    [][\A h \in Grounder :
        Resumes(h) /\ cleaned' = cleaned /\ ~LoseNode => Kept(h) \subseteq Kept(h)']_cacheVars

=============================================================================
