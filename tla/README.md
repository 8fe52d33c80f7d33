# auto_workflow in TLA+

TLA+ models of the annotation pipeline in `src/`, TLC configurations that check
them on small instances, and theorems about fourteen of them with proofs that TLAPS
checks. `PROJECT.json` lists components, runs, mutants, the map from definitions
to source lines, findings, hazards and theorems. Paths below are relative to
`src/` unless they say otherwise: `src/routes/x.py` is `src/src/routes/x.py`.

- [1 The system](#1-the-system)
- [2 The modules](#2-the-modules)
- [3 The runs](#3-the-runs)
- [4 What is proved](#4-what-is-proved)
- [5 Findings](#5-findings)
- [6 What is not modelled](#6-what-is-not-modelled)
- [7 Plan](#7-plan)

To check a run or the proofs of a module:

    tlc -config search.cfg MCRoleSearch
    tlapm RoleDetectionProofs.tla

## 1 The system

The program annotates images with objects, their boxes and a referring phrase
for each. It drives several neural models (Qwen for text and judgement, SAM 3.1
and EGM for boxes, in the legacy route also Rex-Omni and GroundingDINO) that
take turns on one GPU, and it is built to be killed at any moment: its tasks run
on preemptible nodes with their files in RAM. There are two routes over the same
infrastructure, the default `role-grounding-v1` and the legacy Route B.

### 1.1 Components

| component | state it keeps | operations | model |
|---|---|---|---|
| category inventory (`routes/role_engine.py`, `Engine.scene`) | categories and their hints | pages of proposals, merged | RoleScene, RoleDiscovery |
| category search (`role_engine.py`, `role_contract.py`) | hints with status and slot, searches spent, cached answers, candidates | `discover`, `recover`, the evidence half of `reground`, `add_hint`, `reserve_search` | RoleSearch, SearchBudget |
| object verification (`role_engine.py`) | candidates with status, objects, cached answers | `verify_objects`, `identity` | RoleObjects |
| phrases (`role_engine.py`, `role_context.py`) | a phrase per object with its history, OCR | `ocr`, `describe`, `blind_review`, `reground`, `verify_phrases`, `mark_phrase_collisions`, `finalize` | RolePhrases |
| stage schedule (`role_schedule.py`) | none | `stage_plan` | in each of them |
| role pipeline (`role_pipeline.py`, `role_outputs.py`) | `role_state.jsonl`, the exported files, the review | `run`, `save`, `export`, `review`, `validate` | RolePipeline, LockStep |
| model backend (`role_backend.py`) | none | one call per question | answers are inputs |
| managed runner (`scripts/run_pipeline.sh`) | pids, stage position, Qwen server | stages, probes, signals, exit trap | PipelineRunner |
| RAM checkpoint (`utils/ram_checkpoint.py`) | bundles, `latest.json`, the stamp in the directory | `commit`, `restore` | RamCheckpoint, SnapshotStore |
| grounder invocations (`routes/common.py`, `grounding/base.py`, `grounding/cache.py`) | requests, rows, progress, per grounder; merged output | `invoke_grounders`, `reconcile`, `run_worker` | GrounderCache |
| Qwen client and node pool (`models/qwen38_client.py`) | tickets, lock, status of services | `_reserve_endpoint`, `generate_json`, retries, corrections | QwenPool, ServiceGate |
| resident grounder pool (`grounding/resident.py`) | requests, excluded services, image cache | `ground_batch`, the handler, `materialize` | ResidentPool |
| stage checkpoints of Route B (`routes/route_b_checkpoint.py`, `_parallel_write` of `route_b_stages.py`) | rows with signatures, archive | `checkpointed`, `archive_and_replace`, `_parallel_write` | StageCheckpoint |
| stages of Route B (`route_b_caption.py`, `route_b_stages.py`, `route_b_discovery.py`) | one file of rows per stage | entities to expression_verify; refine, finalize | RouteBStages, RouteBRefine, RouteBTargets, RouteBRegions (partly) |
| consensus and aggregation (`regions/consensus.py`, `regions/route_b_aggregate_cache.py`) | a cache of aggregates, three files | clusters of boxes, `aggregate_cached`, audit of an expression | RouteBRegions |
| target identity (`routes/target_dedup.py`) | decision cache | `compare`, `unique_alignments`, `_deduplicate_final_records`, final validation | RouteBTargets |
| proposal priority and coverage, schemas, configuration, provenance, review, OCR, grounder adapters, scripts | little or none | pure functions, output, set-up | not modelled (section 6) |

### 1.2 How they interact

`run_pipeline.sh` walks a plan of stages. For each Qwen stage it probes whether
anything is pending (exit 0 or 3), starts the server if so, and runs the stage
as a child process; before a stage of another model it stops the server. A role
stage is a run of `role_pipeline.py`: a pool of threads takes the selected images
through one `Engine` method each, all threads share one dictionary and one
`role_state.jsonl`, and every thread saves after every call of a model. A stage
of the legacy route reads the files of earlier stages and appends to its own.
Both call Qwen through `qwen38_client.py`, which reserves a service of the node
with tickets in a shared directory. Grounders are separate worker processes that
talk to the stage through files, or ask a resident service that keeps its model
between tasks. `ram_checkpoint.py` runs beside all this, in a
loop of its own, and copies what the others are writing.

So the interactions are: shared files between processes that may die (runner,
stages, workers, checkpoint), shared memory between threads under one lock (role
pipeline, pool of `_parallel_write`), shared files under a file lock between
processes that do not know each other (Qwen pool), and signals.

### 1.3 What is hard, and what makes it correct

`PROJECT.json` lists the hazards, each at its line with the properties that
would catch it. In short:

- **Category inventory.** Every page of proposals is asked with the categories of
  the pages before it. Correct means: whatever crashes, pages and categories are
  those of an inventory that was not interrupted.
- **Category search.** Answers and their consequences are saved separately, for
  the full image, for each locator of a category and for each local search; a
  crash in between must neither lose a detection nor spend a slot twice. Correct
  means: the budget is kept, a finished search has left its boxes, every category
  gets its full search before any gets a local one, none is passed over.
- **Object verification.** A candidate is compared with objects one by one, the
  answers are cached by what they were asked about, and an object may change its
  box. Correct means: objects are audited, no detection belongs to two objects,
  none is forgotten, an object never goes away, two objects are not one extent.
- **Phrases.** A verdict depends on the box, on all other objects and on all
  other phrases, each of which may change after it. Correct means that what is
  delivered is certified, up to date with what is delivered beside it, distinct
  and complete.
- **Role pipeline.** Every thread writes the states of all images. Correct means:
  no update is lost or torn, a stage that returned is on disk, images stay in lock
  step, exports are made of final states only.
- **Runner.** A trap may run between any two commands. Correct means: one model
  on the GPU, stages in order, no process left behind, completion in the end.
- **RAM checkpoint.** Files change while they are archived; a commit or a restore
  may die at any step; bundles are incremental. Correct means that a new owner
  gets the whole content of one moment, and nothing else.
- **Grounder caches.** Results are matched to requests by id, by query and by
  model settings, over invocations with other requests. Correct means: no box is
  given to a query it was not found for, and finished work is kept.
- **Resident pool.** A service may be busy, die under a request, or change its
  owner between the scan that found it and the request. Correct means: results
  are whole and of the task's own settings, a call gives up only for cause, and a
  request that kills processes kills each endpoint's once.
- **Consensus.** Chains of matches make an instance, and results are cached by
  what they were computed from. Correct means: instances are what enough grounders
  agree about, and the published files are those of the present evidence.
- **Target identity.** Sameness comes from words, boxes or a cached decision of
  the model, and it is not transitive. Correct means: what is delivered is
  distinct, what is rejected lost to something stronger, a probe that finds no
  decision missing is right, and another pass delivers the same.
- **Qwen pool.** Reservation, use and release are separate steps of processes
  that die. Correct means: nobody is at a service that was taken down, retries go
  elsewhere, every call ends.
- **Stage checkpoints and Route B.** Inputs and prompts change between and during
  runs, and change back. Correct means: a row is what its stamp says unless its
  prompt was edited between being signed and being sent, unchanged rows are kept, what is
  replaced is archived, an accepted expression passed every gate on the current
  picture, and a final one goes back to the current first verification.

## 2 The modules

Every component has a module with its state, its actions and its properties and,
where theorems are listed, a `Proofs` module. Some share one: RoleSearch and
RoleObjects have RoleDetectionProofs, GrounderCache and ResidentPool
GrounderProofs, RamCheckpoint and StageCheckpoint CheckpointProofs, and the four
modules of the legacy route RouteBProofs; where names would meet, a module says
`Path` or `Unlink` for what the code calls a file and its removal. An `MC` module has what a
configuration needs (sets, plans, symmetry) for one or two of them. Definitions marked "mutant" are broken
variants of a definition beside them; only `PROJECT.json` uses them.

Conventions: a step is what happens between two points where the program can be
interrupted or observed, which is stated in the head of each module. A crash is
an action that resets what lives in memory and keeps what is on disk. Answers of
models are `\E` over small sets, so every property holds whatever the models say.
Counters that would be unbounded are bounded by a constant named `Max...`.

### 2.1 RoleSearch, SearchBudget

`Engine.discover`, `Engine.recover` and the evidence half of `Engine.reground`
for one image. All variables but `cursor` are in `role_state.jsonl`, which is
saved after every group of statements that a step stands for; a crash loses
`cursor` and the stage starts again at its first category, where finished model
calls are answered by the cache (`sam`, `egm`). `AskFull`, `AddFull`, `MarkFull`
are the three saves of the full-image search. EGM is then asked for each locator
of a category in turn (`LocatorsOf`, the first `category_locator_limit` without
blank ones; `cursor.nth` says which): `AskLocator`, `AddLocator`, `HintUnmatched`
are the saves of one locator, after which the next one has its turn, and a crash
between any two of them starts at the first category again. Answers are cached by
the text of the locator, so two categories with the same locator share one.
`Reserve`, `Resume` (the search of the running hint, just reserved or left by a
crash), `AddLocal` and `MarkLocal` are those of a local search. A place is a box with the padded
region around it: boxes that the IoU tests at 0.8 call equal are one place.
The order in which unmatched EGM boxes become hints follows their coordinates,
so here it is any order.

`SearchBudget` says what the bookkeeping is for: a category is granted a fixed
number of searches, one at a time, and none is given back. `RoleSearch`
implements it with `granted <- searches` and "some hint is running" for `active`.

**RoleScene** is what comes before: `Engine.scene`. A page whose answer is saved
is gone through again (`Reread`), another is asked (`Ask`) and kept (`Keep`), and
its proposals become categories one save after the other (`Take`) until there is
no next page (`TurnPage`, `Conclude`). `Ask` and `Keep` are two saves, and the
cache of calls is what makes a crash between them harmless. A proposal has at
most one hint. **RoleDiscovery** is the two in sequence: when the inventory has
ended, its categories and their hints become the start of RoleSearch.

### 2.2 RoleObjects

`Engine.verify_objects` and `Engine.identity`. Candidates arrive from the search
stages (`AddCandidate`), each with category, source, box and view. A visit of a
candidate asks the questions that are not cached (`Ask`: object check, box audit,
identity with an object) and decides (`Reject`, `Accept`, `NextObject`,
`Unresolved`, `Duplicate`, `NewObject`). `calls` are the cached answers by
question: the model may say anything, but says it once. Boxes at IoU 0.98 or more
are one box; `Overlap` is the test that decides whether two boxes are compared at
all. `next`, the object the candidate is being compared with, is all that a crash
loses. `found` is `s['candidates']`: its names differ from those of RoleSearch,
beside which it is instantiated. `peer_version` is written and never read, so it is left out.

### 2.3 RolePhrases

`ocr`, `describe`, `blind_review`, `reground`, `verify_phrases`,
`mark_phrase_collisions` and `finalize` in the order of `stage_plan`. Object
verification is the environment: while its stage runs it adds objects, replaces
boxes, and changes what others see of an object. A visit of an object is one
step, since the saves inside a visit only keep cached answers. `look` is the part
of an object that enters the peers' keys; `Key(o)` is `peer_key`. A review shows
the peers page by page, in any division into pages (`Pagings`); each page has an
answer that says which objects it has compared and found different, its own peers
or not, and `PageVerdict` is what the code makes of it. `missed` remembers peers
that an approval has not compared: there are none. Every other object is a peer,
which is what `competitors` selects while there are at most `nearest_peers` (8). A draft has a
text and one of five shapes, for the ways in which it can pass or fail the checks
of the code: good, good with other white space, naming what the object is not,
without a cue, malformed.

### 2.4 RolePipeline, LockStep

`role_pipeline.run` with its thread pool, lock and checkpoint, and
`export`/`review`/`validate` of `role_outputs.py`. `stored` is the dictionary the
threads share, `work[i]` the deep copy a worker changes, `disk` the file. An
image's content is a version number, odd between the two halves of a change, so
that "never half a change on disk" can be said. `save` is two steps with the lock
held (`SaveUnit` or `SaveStep`, then `Saved`), because the file is replaced some
time after the dictionary is updated. `Grow` is a caller with a larger
`end_index`; `Probe` is `--check-only`. Exports and reviews are written file by
file and validated. The pictures of the review are part of `index`; the row
checks of `validate` amount to equality with the delivery.

`LockStep` says what the checkpoint promises to the rest of the system: the
selected images go through the stages together and none is taken back.

### 2.5 PipelineRunner

`run_pipeline.sh`. bash runs a trap between two commands, so a command that
starts a process and the assignment that remembers its pid are two steps
(`ForkServer`/`SetServer`, `ForkStep`/`SetStep`). `at` is the command about to
run; `Signal` may come at any time and `HandleSignal` runs at the next boundary.
`strays` are processes that still run and that no variable of the script names.
After an exit other than 0 the supervisor starts the script again
(README.md line 134). `stop_qwen` and `stop_active_step` are one step each: they
wait for the process they kill. What is done is recorded by position in the plan;
a stage that was done stays done, since inputs do not change here.

### 2.6 RamCheckpoint, SnapshotStore

`commit` and `restore` of `ram_checkpoint.py`, step by step: list the files, add
each changed file to the archive (and find that it changed meanwhile: give up),
publish the bundle, move `latest.json`, write the stamp. `Write` and `Unlink` of
the task happen between any two of them. An owner is lost with its node or leaves
its directory behind (`OwnerDies`). A new owner starts over or restores; a restore
that dies leaves what it had extracted (`RestoreDies`), in the middle of a bundle or
not, and is refused a directory with anything in it (`EmptyDirectory`), until it is
given another one (`FreshDirectory`, done outside the repository). `checkpoint_boundary`'s decision when to commit (by
count and time) is part of `BeginCommit`: a commit may begin at any time.

`SnapshotStore` says what this is for: a new owner gets the whole content of the
one moment that the last completed checkpoint looked at.

### 2.7 GrounderCache

`invoke_grounders`, `reconcile` and `run_worker`. A row remembers the inference
that made it. An invocation, for one grounder after the other, rewrites output
and progress to what reconcile finds usable, writes the requests, runs the worker
on what is missing, whose rows and marks are separate appends, and at the end
merges. It crashes between any two writes, is invoked again with the same or
other requests, on the same node or on another one from an older copy of all
files, and mask files may be removed. Assumptions: a worker is only started
through `invoke_grounders`; an append is one write; ids hold image and phrase, so
under one id only the content of the image changes (`NoAlias`).
`resume=False` acts as `overwrite`, so both are `fresh`.

`ResumeKeepsWork` speaks of what stays when rows are rewritten and marks are not yet
(`Kept`): rows that were rebound to a second request on the same query may be
dropped there, and for that moment the mark of that request, if it promises no
rows, would count; the marks that follow drop it too.

**ResidentPool** is where a worker may get its detections from without a model of
its own: `Proxy.ground_batch` (`Begin`, `Loop`, `Read`, `Scanned`, `Send`,
`NoMore`, `Expire`) reads the ready files one by one, tries the services it found
and leaves out those that failed it; the handler (`Refuse`, `Materialize`,
`Answer`, `AnswerShort`, `Fail`) compares settings, writes the images, evicts old
ones and answers, or ends the process. `Tear` is a process that dies while it
writes an image, `Replaced` an owner that stops, returns or serves other settings
(external: only its ready file and its answers are in this repository).

### 2.8 QwenPool, ServiceGate

`_reserve_endpoint`, the request, the release and the two loops around them of
`qwen38_client.py`: at most `MaxPosts` = 3 transport attempts, each with another
service if there is one, and `MaxAttempts` answers, each asked for anew. A ticket
is kept during the wait after a transport error and given back before the wait
after a 5xx. The owner of a GPU, who drains a service under the lock and takes it
down when no ticket is left, is outside this repository and modelled from the
comment at lines 72-73. Whether there is a pool of services and whether a gate
guards it are environment variables of the program, here the variables `pooled`
and `gated`, chosen at the start. A ticket expires 60 s after the timeout of the
request it is for, and expiry is not modelled: requests are taken to end before.
(The timeout bounds the connection and each silence of the server, which is the
whole request for a server that answers in one piece.)

`ServiceGate` says what owners rely on: nobody enters a closed service, and it is
taken down after the last client has left.

### 2.9 StageCheckpoint

One stage of the legacy route: `checkpointed`, `archive_and_replace` with
pruning, `_parallel_write` with its pool. A row holds the input it was made from,
the prompt it was asked with and the signature it was stamped with; prompts are
read twice, to sign and to ask, and may be edited in between. `context` is the text
of the prompt with configuration and model, one of `Contexts`, and an edit may put
back an earlier one. Then the code takes a row for current that was asked with
another prompt: signed under A, edited to B, read, edited back to A (finding 7).
`torn` records the pairs of such runs, and `RowsAreTrue` says that this is the only
way: a current row was made from the present input, and with the present prompt or
in a run whose prompt changed between its two readings. Keys of records are unique, so the file is a function. After a fatal
answer the pool finishes what is running and drops it, in one step. Inputs are
edited between runs only.

### 2.10 RouteBStages, RouteBRefine

`RouteBStages` has the nine stages from proposals to verified expressions, each
with what it reads, what makes a row of it current, and what it keeps, with
images edited between stages and passes cut off anywhere. Detections are
constants of the picture (`Found`, `SizePass`, `Same`).

`RouteBRefine` has the rest: rewriting refused expressions in rounds, their
location and verification, and the final selection, as `run_pipeline.sh` does it
in six stages with probes or as the stage `refine` does it in one process; the
variable `managed` says which. A first verification and the verifier's prompt may
change between two passes, the prompt also back to an earlier one. That a final
needs a verification with the present prompt holds only when managed: the single
stage verifies again only when a draft is pending. The bound of its loop,
`range(max_rounds + 1)`, never cuts it off.

### 2.11 RouteBRegions

The stage `aggregate`, which turns detections into instances. The operators are
`regions/consensus.py` and `regions/route_b.py` on boxes that are intervals:
deduplication per grounder (`Deduplicated`), union-find over matches (`Merged`,
`Grouped`), rank and representative of a cluster (`ClusterKey`, `Representative`),
instances of an entity (`Instances`) and the row of an image (`Aggregated`). Means
and ratios are in thousandths, rounded down. Around them is the cache of
`route_b_aggregate_cache.py`: `Hit` or `Compute` for each image in any order, and
`Publish`, which replaces the three files one after the other; `Interrupt` may
come between any two of these, `Damage` and `EditEvidence`, which may bring back earlier evidence, between two
processes.
`Audit` is `evaluate_expression_reground`. All masks of an image show the same
tight box. The reference definition, `Connected`, has no algorithm: the records
that every set closed under matching contains.

### 2.12 RouteBTargets

Which records are about the same object. `compare` is `Rule` (what words, boxes
and categories settle), the decision on file (`Verdict`) and the question to the
model (`AskModel`). A walk goes through records best first: the best one that is left
has its `Turn`, and is compared with those kept before it, its `Opponents`, in the
order of `Sooner` (`PassOver`, `Drop`, `Keep`); sets and an order say this, where the
code has sorted lists.

Two stages walk. `bbox_verify` walks the alignments (`phase` "align"), and those it
keeps are verified (`BoxesVerified`): `onFile` are the records whose verification is
on file at the end, the stages between being collapsed into this step and every
record accepted. `finalize` walks the alignments as well, but only to list the
duplicates among the rejected rows; its records are those on file, whatever that
walk has kept (`Aligned`), and it walks these ("final"), writes the two outputs and
lets the runner validate the delivery ("validate"). So after the prompt of the
comparison was edited and finalize alone was run, a target can be among the
delivered ones and among the duplicate alignments; `DeliveredAreDistinct` says that
the duplicate alignments are what is not on file only when the file was found in
the present context (`basis`).

`Probe` begins a stage as the runner does. The probe of `bbox_verify` is complete
when the rows are those of the records it keeps (`BoxesProbed`), otherwise the stage
is run with a server. That of `finalize` ends in a run without one when every
comparison has its decision (`Probed`) and with one when some has not
(`Undecided`). The overlap of two boxes is one of three values: exact, suspect or
apart. Edits fall between two processes or two phases, and may undo each other.

### 2.13 How they fit together

RoleSearch, RoleObjects and RolePhrases are the content of one image's state:
each takes what the one before delivers as its environment. RolePipeline runs
them for many images and treats their state as a version number; what it shows
(saves are whole, never lost, in lock step) is what lets the others take a save
as one step. PipelineRunner runs stages of RolePipeline or of the legacy route
and treats each as done or not; what it relies on (a stage that returned is on
disk, its probe is right) is what RolePipeline and StageCheckpoint show. QwenPool
is below every Qwen stage: that each call ends (`CallsEnd`) is why the fairness
of the modules above it is justified. RamCheckpoint's task directory is whatever
the others write; GrounderCache's `LoseNode` is its restore. StageCheckpoint is
the protocol inside each stage of RouteBStages and RouteBRefine; RouteBRegions is
the stage `aggregate` of the former, and RouteBTargets delivers what the latter
has selected. A worker of GrounderCache sees of ResidentPool only that a call
returns or raises.

RoleDiscovery composes RoleScene and RoleSearch in sequence, and the four
refinements (SearchBudget, LockStep, SnapshotStore, ServiceGate) say what the
rest of the system relies on. Four `MC` modules hold two components that share no
variable: RoleDiscovery and RoleObjects, GrounderCache and ResidentPool,
RouteBStages and RouteBRefine, RouteBTargets and RouteBRegions. There the first
state chooses which of the two moves, and the other stays in one initial state.
That loses nothing: no action of one reads a variable of the other, so every
reachable state of either appears, beside a fixed state of the other.

## 3 The runs

Each row is a `.cfg`; bounds are its constants. (v) marks a run whose property is
what a document, a comment or an assertion says and TLC refutes: section 5. Every
property of a passing run has at least one mutant in `PROJECT.json`, a plausible
mistake in the code that TLC finds with that property in that run; a property
with several parts has one for each part that matters.

| run | shows | instance, and why it is enough |
|---|---|---|
| `search` | slots are never shared, given back or exceeded (SlotsInv); a finished search and every locator left their boxes, and EGM evidence becomes hints (NothingIsLost); a sweep passes no category over and, without a crash, spends one slot per category (SweepsAreFair); SearchBudget (BudgetSpec); an interrupted inventory is one that was not interrupted (InventoryIsUninterrupted) | 2 categories, as fairness is between categories; 2 places with a budget of 2, so that hints compete for slots and run out; 2 locators, both of one category and one of them of the other, so that a category has a second one and an answer is shared; discovery, one sweep, one reground; 2 crashes, so that a stage may be cut off, resumed and cut off again. Before it 2 pages of up to 2 proposals, of 2 queries, with or without hints, and a crash: pages that repeat a category, add one or are empty |
| | a candidate is in at most one object and none is pending at the end, objects are audited, and distinct unless one took another box after they were compared (ObjectsInv); objects only improve (ObjectsOnlyImprove) | any 3 of 7 detections: two categories, two models, two overlapping boxes, a box that is too small, a box seen again in a part; 3 objects are what the divergence in `DistinctUnlessMoved` needs; verification twice, a crash |
| `phrases` | a verified phrase has its evidence, and every peer was compared (Certified); what is delivered is up to date with what is delivered beside it, distinct and complete (DeliveryInv); a verdict is only withdrawn for a cause (VerdictsHold) | 2 objects, 2 texts, 2 looks, 2 boxes: collisions, late objects and stale peers need two of each; drafts that are good or lack a cue; answers that leave out the peer or compare another object; one rewrite round and the final drain; a crash |
| `pipeline` | no state is lost or torn on disk (NoLostUpdate, WholeOnDisk), complete stays complete, LockStep (LockStepSpec) | 3 images on 2 threads, so that one waits in the queue while two save; 3 stages; a selection that grows between calls in any order; an exception and a crash |
| `runner` | one model on the GPU, stages in order, processes are only forgotten in one window, the script succeeds in the end (Completes) | the whole legacy plan with its two drain rounds and the finalize that is always run; 2 faults anywhere, any number of restarts |
| `signal` (v) | "A termination signal stops active work" | all 23 calls of the role plan, 1 fault |
| `checkpoint` | restore's checks never fail and stamp and store agree (SnapshotInv), SnapshotStore (StoreSpec), a new owner gets to run, from an empty directory (Recovers) | 2 files, 3 writes, 3 commits (a chain of three, or bundles abandoned between), 2 of lost nodes, dead owners and dead restores, so that one may hit the recovery from the other |
| `grounders` | a mark stands for whole rows, and no box reaches a query or settings it was not found with (CacheInv); resuming keeps work (ResumeKeepsWork) | 2 grounders, 3 requests that are renamed or whose image is replaced, two of them on one query after it, 2 model settings, batches of 2, 4 inferences, a crash, node loss or removed mask |
| | results of a resident service are whole and of the task's settings (CallsAreRight), a call gives up only for cause (GivesUpForCause), a bad request kills each endpoint once (PoisonIsBounded) | 2 tasks and 2 services, of either settings; a batch that is larger than the image cache, so that what it needs is old; 2 calls, the second of which meets what the first left; 2 failures, deaths or changes of owner |
| `qwen` | tickets match use, nobody is at a released service, retries go elsewhere and giving up comes last (PoolInv); ServiceGate (GateSpec), every call ends (CallsEnd) | a thread in each of 2 processes, 2 services of which one is the fallback, every kind of reply, with and without pool and gate, 2 of drain, death, crash |
| `stage` | rows are what their stamps say unless the prompt was edited between its two readings, what is replaced is in the archive, a returned stage is complete (StageInv); unchanged rows stay, a stage that is started again becomes complete | 2 records, 2 workers, 2 prompts, 2 edits, so that one undoes the other, a history of 1 so that it is pruned, a fault |
| `route` | accepted expressions passed all gates and have their text, and a whole pass is current (PassInv); rows of other images stay (UnrelatedKept) | 2 images, one edit, a proposal or none, a found target that is the proposed one, a target that shrinks, refusals, invalid answers, a fault |
| | what is final goes back to the first verification on file, and nothing is left to revise (RefineInv) | 2 expressions, both ways to run it, 2 rounds, 2 edits of first verification or prompt, so that one undoes the other, a fault |
| `targets` | no decision is missing after a probe that found none missing (DecisionsSuffice); what is delivered is distinct and everything on file, and what is rejected lost to something stronger (DeliveredAreDistinct); another pass verifies and delivers the same, also after an edit that was undone (DeliveryIsStable) | 3 records, the least for sameness that is not transitive, two of which may have one text, with any overlaps; queries are equal, or all boxes nearly identical, the case in which they matter; the final records rank in another order than the alignments; a cap of 2; 2 of edits and crashes, 2 prompts |
| | the published aggregate is that of the present evidence (AggregateIsCurrent); instances are the supported chains of matches (ConsensusIsExact) | 2 images on a line of 12, 7 detections in sets that form chains whose ends do not meet, near repeats and a second instance; support of 1 or 2, a mask or none, an edit, a crash or a damaged cache file |
| `validated` (v) | "assert not ... same_object" of the final validation | `targets` with categories that may differ from their queries |

What is a conjunct of the `...Inv` of a module includes its type invariant, except
in the four modules whose type invariant is a theorem (section 4).

In `phrases` a draft is good or lacks its cue (`Shapes`): the other shapes differ
in which check stops them, and the theorems of section 4 hold for any set of
shapes. `Workers`, `NumFiles`, `BatchSize` and the other sizes are named in the
`.cfg` next to their values.

Deadlock is checked where the system runs to an end that has a stuttering step
(`Done`) or can always be invoked again. Where `CHECK_DEADLOCK FALSE` is set the
system really stops: a script that has succeeded, calls that have all been made,
or bounds on writes, runs, detections and edits that are used up.

Symmetry is used for places, queries, texts, looks, bases, categories and prompts
of targets, tasks and services of the resident pool, which the code only compares or takes in
any order; not with liveness. The order of categories, objects and images is code order, so
they are numbers.

**Fairness.** Liveness is stated where something may retry, wait or be restarted
for ever; the other modules are loops over finite lists, and say nothing of it.
PipelineRunner: the script, the processes it starts and the supervisor go on;
faults are bounded. RamCheckpoint: a new owner goes on with its restore,
and is given an empty directory when one is refused.
QwenPool: threads go on; the lock needs weak fairness only, since calls are few,
while `flock` itself promises no order. StageCheckpoint: the worker goes on, since
every call of Qwen ends (`CallsEnd`), and a stage whose probe says that it is not
complete is run again; fatal errors are bounded like crashes.

## 4 What is proved

The runs check small instances. The theorems below hold for every value of the
constants that satisfies the assumptions in the modules: sizes are naturals,
sentinels differ from values, and for PipelineRunner that between a stage of
another model and the stop before it there are only such stages
(`StopsAssumption`, which is what lines 131-162 of the script have). Bounds on
crashes, writes and faults are constants like any other, so they are arbitrary.

| module | theorem | property |
|---|---|---|
| RoleDetectionProofs | TypeCorrect, SlotsSafe, FindingsAreKept, SweepsTakeTurns, ImplementsBudget (RoleSearch); ObjectsAreSound, ConfirmedObjectsStay (RoleObjects) | TypeOK, SlotsInv, NothingIsLost, SweepsAreFair, BudgetSpec; ObjectsInv, ObjectsOnlyImprove |
| RolePhrasesProofs | TypeCorrect, OnlyCertified, DeliveryIsUpToDate, DeliveryIsDistinct, DeliveryIsComplete, DeliveryHolds, VerdictsAreKept | TypeOK, Certified, DeliveredUpToDate, DeliveredDistinct, DeliveredComplete, DeliveryInv, VerdictsHold |
| RolePipelineProofs | TypeCorrect, FileIsWhole, ReturnIsDurable, ValidationSucceeds, CompletionLasts, NoUpdateIsLost, ExportsAreFinal, ImplementsLockStep | TypeOK, WholeOnDisk, ReturnedIsDurable, ValidationHolds, CompleteStaysComplete, NoLostUpdate, ExportsOnlyFinal, LockStepSpec |
| PipelineRunnerProofs | TypeCorrect, GpuIsExclusive, OrderIsKept, ServerIsFirst, NormalExitLeavesNothing, ForgottenOnlyInWindow | TypeOK, GpuExclusive, StagesInOrder, ServerFirst, NormalExitIsClean, ForgetsOnlyInWindow |
| CheckpointProofs | SnapshotsAreSound, ImplementsSnapshotStore (RamCheckpoint); StagesAreSound, UnchangedRowsStay (StageCheckpoint) | SnapshotInv, StoreSpec; StageInv, UnchangedKept |
| GrounderProofs | CachesAreSound, ResumedWorkIsKept (GrounderCache); CallsReturnRightResults, PoisonStaysBounded, CallsGiveUpForCause (ResidentPool) | CacheInv, ResumeKeepsWork; CallsAreRight, PoisonIsBounded, GivesUpForCause |
| QwenPoolProofs | PoolIsInStep, ImplementsServiceGate | PoolInv, GateSpec |
| RouteBProofs | PassesAreSound, UnrelatedRowsAreKept (RouteBStages); RefinementIsSound (RouteBRefine); PublishedIsCurrent (RouteBRegions); PairsAreDecided, DeliveryIsDistinct, DeliveryRepeats (RouteBTargets) | PassInv, UnrelatedKept; RefineInv; AggregateIsCurrent; DecisionsSuffice, DeliveredAreDistinct, DeliveryIsStable |

Each proof module has an inductive invariant, checked by TLC before it was
proved, a lemma per action that it is kept, with a step per conjunct, and the
theorems as consequences.

- **RoleSearch.** `SlotsInv` alone is not inductive: that a reservation is not
  made twice depends on the cursor. `PhaseInv` ties the cursor to the stage and,
  between the steps of a search, to a running hint. `Next` then maps to a step of
  SearchBudget: `Reserve` grants, `MarkLocal` finishes, the others stutter.
  `NothingIsLost` needs what holds between the saves: `FoundInv` says in addition
  that an answer whose mark is due has its boxes recorded (else a crash and a
  resume could mark a search that lost them), that the boxes of a locator are recorded
  before the next locator is asked, and that until discovery is over all
  SAM candidates are boxes of full-image answers, so that "matched by a candidate"
  means what it says. The rest of it follows from what accumulates
  (`AnswersStay`, `HintsFollow`). `SweepsAreFair` needs `FairInv`: the categories a
  sweep has passed are provided for, and before the first crash a category that
  has taken its slot and is still ahead is the one being searched.
- **RoleObjects.** `BooksInv` states the counting of `EachInOneObject` as sets that
  are disjoint and cover what was decided, and bounds the version of a box by the
  number of detections. `UnderWay` carries the loop over objects: while `next` is
  not 0 the candidate is the first in line (and no other is, `FirstIsOne`), its own
  box was verified, and no object before `next` has its extent. From it comes that
  a new object differs from all, that is `DistinctUnlessMoved`, and that a
  duplicate was audited. `LastOnesDone` rests on the shape of the plan
  (`PlanEnds`): after the last verification comes only a stage that adds nothing.
- **RolePhrases.** `SoundInv` says of each phrase which evidence its status
  implies, whatever the stage: `Certified` follows. That an approval has compared every
  peer is about any number of pages in any order: one that would have left out a peer
  gives another verdict on its page, and the verdicts of all pages have to agree
  (`ApprovalIsCovered`). The other three are about the
  end and need what each stage has done so far: `FreshInv` (objects the review has
  visited have current verdicts), `DescribedInv` (those describe has visited have
  a phrase), `DistinctInv` and `ClosedInv` (after the first and the second loop of
  finalize). They hold because nothing is added or changed after the last review,
  which is what the order of the schedule is for. `VerdictsHold` needs `HistoryInv`:
  the history is as long as the revision says, and a rewriting stage has read the
  text in every box its first loop has passed.
- **RolePipeline.** `ThreadInv` relates, for each position of a worker, its copy,
  the dictionary, what it is writing and the file; `MemoryOK` is the half that
  makes a concurrent save harmless: every entry of the dictionary is on disk, is
  about to be, or is newer than the file. `LockInv` is the mutual exclusion of
  writers, `FilesInv` relates exports to the phase. `CompleteStaysComplete` is
  inductive with them, and `NoLostUpdate`, `ExportsOnlyFinal` and the refinement
  of LockStep are consequences for steps.
- **PipelineRunner.** `PidInv` says when a variable of the script names the
  process, `PlaceInv` where each command can be, `QuietInv` that the server is
  gone before a stage of another model, `OrderInv` and `ReadyInv` what lies behind
  a stage. `ForgetsOnlyInWindow` is exact: it names the only two commands at
  which a signal leaves a process behind, and the run `signal` shows that it does.

- **RamCheckpoint.** `ChainOK` keeps the bundles of the published chain out of reach
  of the commit in progress, `StampOK` says that a stamp never runs ahead of what is
  published and, when it is not behind, lists what the chain replays to; `PriorOK`
  and `TarballOK` follow a commit, and hold although the files change under it: a
  file that looks as it did at the start was no other one in between, because
  versions are new each time. `RestoreOK` says what has been replayed, which begins at nothing: what a dead owner or
  a dead restore has left in the directory is never replayed upon, as `BeginRestore`
  refuses it. The lemmas
  about `Replay` (one bundle more, one step of a restore) are for chains of any
  length, and none needs induction, since `Replay` asks for the last bundle that
  touches a file. `Publish` then maps to a save of SnapshotStore, a node loss to
  its loss, the last step of a restore to its recovery (`Live`, `Saved`).
- **QwenPool.** `ThreadOK` is per thread: what it knows of its request, that the
  ready services it has seen stay ready while it has the lock, that it has the lock
  exactly between two positions, and that it has a ticket exactly while it uses the
  service, which then is not released. `OthersKeep` shows once that a step of one
  thread leaves this to the others. With the gate every failure excludes a service
  that was not excluded before, so that their number is that of the failures
  (`Cardinality(excluded[t]) = posts[t]`): hence nobody gives up early.

- **GrounderCache.** `FilesOK` is what is true of the three files of a grounder
  whenever a process dies: the rows of an id are all those of one inference
  (`OneInference`), and where an id has a mark and a query they are results of that
  query under the settings of the mark (`Matches`). It says nothing of the number of
  rows: a mark whose rows were lost or rewritten promises another number, or none,
  and an inference that found nothing has no rows, so that a mark of 0 is right by
  itself (`ResultIsWhole`). That the rows keep matching the old requests while they
  carry the new ids is where `NoAlias` is needed (`SameQuery`). `MarkOK`, `WorkOK` and
  `BatchOK` follow an invocation through a grounder, `DoneOK` the grounders behind it;
  the snapshot satisfies `FilesOK` too, so a node loss is no case of its own. For
  `ResumeKeepsWork` what is cached is first shown to depend on the files alone
  (`CachedByFiles`); then only the rewrite of the rows and that of the marks
  are not of the kind that drops nothing (`CacheStays`).

- **ResidentPool.** `CallsAreRight` says in each service that the image cache has
  only whole files (`CacheOK`), and that a job that is about to infer has the
  settings of its task and whole files of all images of its call (`RequestOK`), which
  eviction must not break although a batch may be larger than the cache. `PoisonIsBounded` counts deaths of processes at a request;
  what keeps the count at one is in three places. `ExclusionOK` says that a
  service that failed the call is neither tried again nor a candidate, `JobOK`
  that a process is at a request of the present call only before its first death,
  and that this call waits for it or has given it up. Calls are numbered, so that
  a job that outlives its call is not taken for one of the next. `ScanOK` and
  `SteadyOK` say what a scan has seen of services that were compatible
  throughout, from which `GivesUpForCause` follows. The proofs
  rest on `PoolAssumption`, which the run `grounders` evaluates.

- **StageCheckpoint.** `RowOK` is about every row on file, current or not: it was made
  from the record its signature names, and with the prompt that it names or in a run
  that is in `torn`. `EnterBody` records the run before any row of it is written, and
  edits leave the rows and `torn` alone, so that it does not matter which prompt is
  there in the end. `ReplacingOK` follows what a run
  keeps: from the replacement on every row on file has the signature of the run, and
  that is why nothing more than "no record is pending" has to hold when it returns.
  `ArchiveOK` adds that no two copies in the archive are equal: the copy just made
  is then one file, and pruning all others to one less than the limit keeps it
  (`SurvivorsHold`, which rests on two lemmas about finite sets of numbers).

- **RouteBStages.** `PassInv` speaks of the end of a pass; what makes it true is
  collected on the way. `RowsDerived` says that an accepted row is made from what
  its signature names, whenever that was. `PassOK` says that the stages behind the
  present one have nothing left to ask and, if nothing was edited since the pass
  began, that each of their rows is what would be made now (`Justified`): a stage at
  work only adds to its own file, which no stage behind it reads (`InputsLocal`,
  `SignatureLocal`). At the end, the chain of rows under an accepted expression is
  then one of present rows, which is `AcceptedPassedAllGates`. For `UnrelatedKept`
  the dangerous step is `BeginStage`, which drops what is no longer current;
  `KeptOK` says that there is nothing to drop of an image that was never edited,
  because all that a stage reads for an image is of that image, and a later stage
  has rows of it only once the earlier ones were settled. An answer names what it is
  about (`AnswersAssumption`).
- **RouteBRefine.** `NothingLeft` is about two generations of revisions, so the
  invariant counts the complete ones: below `Generations` every weak attempt has
  its revision (`GenerationsOK`), and what still waits for its verification is not
  older (`UnverifiedOK`). That rests on revisions being numbered without a gap and
  written once (`RevisionsOK`), and on `CurrentOK`: a verification that is dropped
  because the prompt changed makes its revision wait again before the next
  generation is counted. `CleanedOK` and `VerificationsOK` bridge the crash between
  the two writes of the clean-up. `Steady` is exact: a managed pass that began with
  stale revisions may use up one of its two generations (finding 3). That every
  target has a last attempt uses the well-founded order of the naturals
  (`LatestExists`). Stating this for every `MaxRounds` showed that `NothingLeft`
  needs `MaxRounds <= 2` when managed: `run_pipeline.sh` has two drain rounds, and
  with a larger `max_refinement_rounds` a third generation would stay undone.
- **RouteBRegions.** `CacheIsTrue`: a cache file that is whole holds what its own
  signature aggregates to, so a hit is right whatever happened before.
  `ResultsAreFresh` and `PublishedSoFar` carry this through the three replacements;
  evidence changes between processes only. None of it depends on what
  `Aggregated` computes, and the proof does not open it.
- **RouteBTargets.** `Complete` says when a walk over some records may keep what it
  kept: those are pairwise different, and each of the others met, as the first that
  is not different, a stronger one that was kept. Two complete walks keep the same
  (`CompleteIsOne`: look at the best record only one of them keeps), so what a pass
  delivers is a function of the verdicts and of the records on file. Edits may bring an
  earlier prompt back, so this is said for every context (`CompleteIn`): as answers
  are never taken back (`VerdictInStays`), the walks that `basis` and `made` name stay
  complete (`MadeOK`), and `DeliveryIsStable` follows. `FoundOK` is the walk in progress, complete for the records
  gone through so far. `ReplayOK` is about the run without a server: there is a
  complete walk, that of the probe, of which it is at some place, and so every
  comparison it comes to has an answer on file (`RepeatedWalk`). A pair that no
  walk comes to is never decided, which is why `DecisionsSuffice` is not a
  matter of all pairs being decided: the two runs must walk alike. The validation
  compares pairs that the last walk told apart, by the same signatures if
  categories agree (`ValidationIsFinal`).

The theorems rest on the named assumptions of the modules, which the runs evaluate.

Only model-checked: liveness and whatever rests on fairness (the prover has no
rules for ENABLED); the module without theorems, RoleScene; and
what needs induction over data: `InventoryIsUninterrupted`, which compares
with an inventory that is defined by recursion over its pages, and `ConsensusIsExact`,
which is about the folds of RouteBRegions.

## 5 Findings

Places where the code does something else than a document or comment beside it
says. The first and the sixth have runs, `signal` and `validated`; the others were
met while modelling, and the model does what the code does.

1. **A signal can leave a process running** (`signal`). bash may run the trap
   between `setsid ... &` and the assignment of `$!` (`run_pipeline.sh` lines
   49-50, 67-68). README.md line 134: "A termination signal stops active work and
   exits with status 75". The proved `ForgetsOnlyInWindow` says that these are
   the only two places.
2. **A sweep may spend two slots of a category.** `role_engine.py:173` says "One
   slot per category per sweep." `recover` starts at the first category when its
   stage is run again after a crash, and a category whose hint was already done
   gets its next slot. The total budget holds. `SweepsAreFair` states the sentence
   for images that no crash has interrupted.
3. **A probe looks at revisions that a run would remove.** `route_b_caption.py:206`
   computes but does not write the filtered revisions under `--check-only`, and
   then looks at the unfiltered ones; the probe exits 0 although the stage has
   work (`docs/ROUTE_B_DISCOVERY.md:89`: "0=complete, 3=pending"). One of the two
   managed rounds is lost. `NothingLeft` exempts this case.
4. **The latest revision replaces an accepted one.** `route_b_stages.py:1303`
   takes the highest revision, accepted or not, while `docs/PIPELINES.md:43` says
   "`finalize`: retain the latest accepted revision". It takes a changed prompt,
   under which an earlier revision is accepted.
5. **Two objects may end with one extent.** A candidate is compared with objects
   up to the first that is the same, and that object may take its box
   (`role_engine.py:157`) without comparison with later objects. The code calls
   two such objects one when it compares them (lines 109-111), and
   `docs/ROLE_GROUNDING.md:95` says that duplicate boxes are no new instances. It
   takes a model that contradicts itself; `DistinctUnlessMoved` is what holds.
6. **The final validation may fail on what the stage has delivered**
   (`validated`). `final_expression_record` (`route_b_stages.py:1162`) keeps the
   category of a record and drops its entity and `category_query`; `target`
   (`target_dedup.py:32`) then compares by another category than the stage did.
   Two objects that the model told apart, because their queries differ and their
   boxes nearly coincide, are one object by rule, and
   `assert not deduplicator.compare(first, second)["same_object"]`
   (`run_pipeline.sh:223`) fails. It takes an entity whose category is not its
   query; otherwise `DecisionsSuffice` shows that the validation passes.
7. **A row may be current that was asked with another prompt.** "Keep only outputs
   matching exact semantic inputs and current prompts/config", says
   `route_b_checkpoint.py:107`. `checkpointed` reads the prompt to sign with (line
   131) and the stage reads it again to ask with. When it is edited between the two
   and edited back later, the rows of that run carry the signature of the prompt
   that is there again, and were asked with the other one. `RowsAreTrue` says that
   nothing else makes a row lie: its pair of prompts is in `torn`.

## 6 What is not modelled

- **Models and their adapters** (`grounding/{egm,sam31,rex,groundingdino}.py`,
  `models/region_ocr.py`, `role_backend.py`): every answer they can give is an
  input of the modules that ask.
- **Pure functions** of geometry, schemas, configuration, provenance, images,
  priority and coverage (`utils/`, `schema.py`, `regions/proposal_*.py`): which
  values they let through is part of the actions that use them.
- **Owners of GPUs**, of a Qwen service and of a resident one, are scripts outside
  the repository; what they may do is external in QwenPool and ResidentPool.
- **Pictures of Route B** (`regions/route_b_artifacts.py`): drawn on demand from
  records that RouteBRegions has, and read by nobody but the model.
- **Repair candidates, `target_scope` and the language check** of Route B: they
  change which question is asked or which answer counts as invalid, and both are
  inputs of RouteBStages.
- **Output and set-up** (`visualization/route_b_review.py`, the scripts other than
  `run_pipeline.sh`): no state that the pipeline reads back.

Abstractions that a reader should know of, beyond those of section 2:

- RamCheckpoint takes a write to change size or mtime; the granularity of mtime
  is not modelled.
- GrounderCache has no torn line (an append is one write, and a crash is one of
  the process, not of the machine), leaves out phrases that differ in case only,
  the import of a legacy run (`cache.py` lines 86-101), and says nothing of a
  resume whose mask files were removed (`ResumeKeepsWork`).
- StageCheckpoint has no summary file; the final rewrites of entities and
  drafts keep their rows; with neither `--resume` nor `--overwrite` and no
  record, an old file is left as it is, which `ReturnIsComplete` exempts.
- RouteBStages leaves duplicate alignments to RouteBTargets. A smaller
  selection of images drops the rows of the others, which is a hazard on the list
  and not a property.
- QwenPool leaves out the branch at lines 308-310, which nothing reaches.
- ResidentPool has the images of a request, not the proxy's own cache of their
  hashes; the order in which services are tried, which follows flags that their
  owners write, is any order.
- RouteBRegions has boxes on a line: areas are lengths, and reading order is from
  left to right. Rounding of ratios cannot tie what the code tells apart except
  in the rank of clusters, which no property depends on.
- A candidate of RouteBStages is a box, while the code also puts a digest of the
  picture into the names of its crops (`route_b_artifacts.py` lines 26-33), which
  enter signatures. So the code asks again about a box that a new picture has at the
  same place, where the model keeps the row. In the run `route` the two versions of
  a picture have different boxes.
- RolePhrases takes every other object for a peer, as `competitors` does up to
  `nearest_peers` (8) of them, and QwenPool takes no ticket to expire under its request.
- RouteBTargets takes every record to be accepted and the stages between its two walks
  to come to their end, has edits between phases and not inside one, and takes the
  geometry of a pair to be one of three cases, with any combination over the pairs.

## 7 Plan

The order is by importance: first what every default run depends on, then what
protects its files, then the legacy route, then what is left.

Done in this order: RoleSearch with SearchBudget, RolePhrases, RolePipeline with
LockStep, PipelineRunner, each with proofs; RamCheckpoint with SnapshotStore,
GrounderCache, QwenPool with ServiceGate; StageCheckpoint, RouteBStages,
RouteBRefine; RoleObjects; RoleScene and RoleDiscovery; RouteBTargets;
ResidentPool, with proofs; RouteBRegions. Then the proofs of RamCheckpoint, QwenPool,
RoleObjects, StageCheckpoint and GrounderCache, those of `NothingIsLost`,
`SweepsAreFair`, `VerdictsHold` and `CallsAreRight`, and last those of RouteBStages,
RouteBRefine, RouteBRegions and RouteBTargets.

Left to model: StageCheckpoint with selections of images that change between
runs, and edits inside a phase in RouteBTargets.

Left to prove: nothing but what the prover cannot reach (end of section 4).
