# A TLA+ verification of AstraIndexator

AstraIndexator turns documents into searchable vectors. Producers put indexation
jobs into PostgreSQL; worker processes claim a job under a lease, acquire, parse,
OCR, normalise and split its document into a prepared artifact, and deliver the
logical blocks of that artifact to AstraVector, a separate service, in a session
of gRPC calls (Start, Append, Finalize, Activate). What survives a
crash is PostgreSQL, the object store and the files of a workspace.

This project models the parts of that system in which the order of things decides
whether it is correct (the job queue with its leases, acquisition, the prepared
artifacts, the delivery protocol, abort) and the algorithms between download and
delivery (format checks, OCR, normalisation, sentences, fragments, batches).
Everything is translated from the Python source (`src/src/astra_indexator/`);
`PROJECT.json` maps every definition to its lines.

## 1. Inventory

| Component | State | Operations | Hard behaviour | What makes it correct |
|---|---|---|---|---|
| Job queue and leases (`coordinator.py`, `repository.py`) | rows of `indexation_job`, `processing_attempt` | create, claim, heartbeat, stage, complete, retry, fail | several processes, crashes, expired leases, transaction clocks that lag | one mutator per job; a ledger that agrees with the row; terminal is final; every job ends |
| Failure policy (`retry_policy.py`, `delivery_execution.py`, `policy.py`) | none | classify, back off, decide | a reply that may have been lost is not a failure | ambiguous calls are not repeated blindly; budgets are exact |
| Worker runtime (`runtime/`) | the token in memory | claim loop, turn, shutdown | a crash anywhere in a turn | a turn ends; a stale turn changes nothing |
| Delivery coordinator (`astravector_delivery_coordinator.py`, `durable_append_delivery.py`, `persistence/delivery.py`) | `delivery_checkpoint`, `delivery_batch` | compatibility, session, prepare, append, accept, final hash, zone | lost, late and repeated calls; change of owner between any two steps | what is ACCEPTED was delivered; resumption continues exactly; evidence is never rewritten |
| Finalize, readiness, activation runners | status columns of the checkpoint | finalize, observe, poll, activate | ambiguous Finalize, a server that makes no progress | COMPLETED means searchable; bounded loops |
| Abort reconciliation | none | abort, observe | races Finalize | an abort is reported only if it happened |
| AstraVector (external) | sessions, batches, vector state | Start, Append, Finalize, status, Activate | its calls are the unreliable ones | assumed, see 2.3 |
| Prepared artifacts | object store, checkpoint row | publish, install, load, resume, replay | crash between parts and manifest, two owners, lineage | a checkpoint refers to a complete artifact of this intent; what is replayed was verified |
| Acquisition | workspace on disk, source columns | HEAD, download, validate, record, clean up, scavenge | limits, partial downloads, a source that changes, a scavenger beside the owners | a partial file is never an input; one hash per job; limits hold |
| Format checks | none | signatures, container, RTF, text | limits and characters across chunks | exactly sound files are admitted |
| OCR pipeline | results, budgets, cache, scratch files; a worker process | decide, render, recognise, reconcile, merge | a worker that times out, answers late or dies | text is credited to its image; an unread image is told; the call ends |
| Normalisation | none | text of elements, page furniture | passes that disturb each other | representation changes, meaning does not |
| Logical splitter, sentences | none | units, groups, merges, fragments; the sentence scan | guards met exactly, cuts inside tokens and tables | all text once, in order, within the guards, under unique ids |
| Batch planner, block validation, hashes | none | map, validate, order, partition, hash | limits met exactly, cycles | every block in exactly one batch, in order, within limits; only trees pass |
| Parsers | none | libraries' object trees to elements | in the libraries | not modelled |
| Object storage, configuration, domain objects, migrations | | | pure I/O, value objects | not a subject for this project |

The components interact in one direction: the worker loop claims through the
queue, obtains a payload (from a prepared artifact, or by acquiring and preparing
the source), and calls the coordinator, which uses the delivery tables and
AstraVector and ends the turn through the queue or the failure handler. The
repository has the services for acquisition, preparation and resume but no
orchestrator that calls them one after the other; `Preparation` composes them in
the order the documents give. Two processes meet only in PostgreSQL (row locks, the fence), in the object store
(content-addressed objects) and in AstraVector (one session per document version).

## 2. Modules

| Module | Models |
|---|---|
| `JobLease` | the durable queue: producers, workers, leases, attempts, retries |
| `JobLeaseProofs` | its inductive invariant and theorems |
| `FailurePolicy` | the classifiers, as operators |
| `Delivery` | a delivery turn on top of `JobLease`, the delivery tables and AstraVector |
| `DeliveryProofs` | that `Delivery` implements `JobLease`, its inductive invariant and theorems |
| `JobLifecycle` | abstract: the status a producer sees; implemented by `JobLease` |
| `Preparation` | resume, acquire, prepare, publish and install on top of `JobLease` |
| `ReplayPointer` | abstract: a job points at a completely published artifact; implemented by `Preparation` |
| `PreparationProofs` | that `Preparation` implements `JobLease` and `ReplayPointer`, its inductive invariant and theorems |
| `Acquisition` | download, validation, checkpoint, workspace and scavenger on top of `JobLease` |
| `AcquisitionProofs` | that `Acquisition` implements `JobLease`, its inductive invariant and theorems |
| `Abort` | `AbortReconciliationRunner` against Finalize, expiry and late requests |
| `AbortProofs` | its inductive invariant and theorems |
| `SourceFormat` | `_validate` and `extended_formats.py` |
| `Ocr` | one `process()` call and the isolated recognition worker |
| `OcrProofs` | its inductive invariant and theorems |
| `Normalization` | `TextNormalizationService` |
| `Sentence` | the scan of `_split_unicode` |
| `Splitter` | `LogicalSplitter` |
| `BatchPlan` | fragments to blocks, validation of the tree, the batch planner |
| `StageProofs` | the inductive invariants and theorems of `SourceFormat`, `Sentence`, `Splitter` and `BatchPlan` |
| `DataInduction` | induction over numbers and what recursive definitions compute, for the proofs about the pipeline modules |
| `MCJobLease`, `MCDelivery`, `MCPreparation`, `MCAcquisition`, `MCAbort` | instances for TLC |
| `PipelineInputs`, `NoValue`, `MCPipeline` | the inputs, the shared `Null` and the instance of the six pipeline modules |

Definitions named `X_Something` before a definition `X` are deliberate mutations
of it: each shows that some property notices a plausible bug in that code. They
are not part of any specification.

### 2.1 JobLease

`job[j]` is a row of `indexation_job`, `attempt[j]` the rows of
`processing_attempt` in order of `attempt_number`, `token[w]` the `LeaseToken` a
process holds in memory, `txAge[w]` the age of its open transaction.

*Time.* PostgreSQL's `now()` is the start of the transaction. A transaction that
waits for a row lock judges the lease by a time that has passed. The model keeps
times relative to the present, so `lease_until - now()` is `leaseLeft + txAge`;
`Tick` moves the present. Times in the past are kept down to `Floor`, below which
no transaction can tell them apart.

*Transactions* have a begin (`BeginTx`, which fixes `now()`) and a commit, which
is the action itself: rows are locked `FOR UPDATE`, so what a transaction reads and
writes after it has the lock is atomic. `SKIP LOCKED` lets a claim pass over a row
whose owner may be holding the lock (`MayBeLocked`).

*Actions.* `CreateOrGet`, `ClaimNext`/`ClaimNothing` (`claim_next`), `AssertOwned`
(`assert_owned`), `Heartbeat`, `AdvanceStage`, `Complete`, `ScheduleRetry`,
`DeadLetter`, `FailPermanently`, `Reconcile` (`handle`), `Abandon`
(`LeaseLostError`), `Crash`. `RequestCancel` stands for an operator: the code reads
`cancel_requested` and never sets it. `Heartbeat` is part of the coordinator but has
no caller in the runtime. A repeated `producer_request_id` returns the existing row
and is a stutter. The audit rows of `job_event`, which nothing reads, and the
timestamps and texts of errors are left out.

### 2.2 FailurePolicy

`ClassifyGrpcFailure`, `ShouldReconcileFinalize`, `ClassifyException`, `Classify`
and `Readiness` are the functions of the same names. A server message is
abstracted to the marker the classifiers search for. `Readiness` assumes the
evidence is consistent; the counter checks that raise
`VectorReadinessIntegrityError` are not modelled.

### 2.3 Delivery

A process is at a label `pc[w]` of the program of `deliver` and its runners; every
transaction and every call is one step (plus the begin of the transaction). The
labels in order:

    idle -> load -> compat -> session -> [stageStart -> windowStart -> start -> bind]
         -> stageAppend -> rebind -> (prepare -> windowAppend -> append -> accept)*
         -> finalHash -> stageFinalize -> windowFinalize -> finalize
         -> [observe -> record -> finalize | observe]
         -> vectorStatus -> zone -> stageReadiness -> stageActivate
         -> (ready -> pollReady)* -> ownActivate -> activate -> [activeStatus | ownActive]
         -> (waitOwn -> pollActive -> waitRecord)* -> complete -> idle

An exception leads to `failed`, where `HandleFailure` decides by `Classify`. At any
label a fenced transaction may find its lease gone (`LoseLease`) and the process
may die (`Die`). `record`, `ready` and `waitRecord` write the observed status in a
transaction without a fence, as the code does.

`cp[j]` is `delivery_checkpoint` and `rows[j]` `delivery_batch`; hashes are
abstract values, `Content[w][i]` being the hash of batch `i` in the plan of process
`w` and `Compat[w]` its compatibility fingerprint. Processes may disagree on both,
as they do when a new version of the code resumes an old delivery. The final hash
of a plan stands for the plan, so two plans have the same one exactly if they are
equal. Plans differ in length too (`PlanLength`): `is_last_batch` is in no hash and
nothing looks for rows beyond the plan at hand, so a plan that is the beginning of the
one delivered before passes every batch as ALREADY_ACCEPTED. It then meets the final
hash of the longer one, if that was persisted, and fails on it (the conflict branch of
`PersistFinalHash`), or else asks to finalize a session that holds more than its own
batches. `checked[w]` is a history variable: the last lease window check has not been
used by a call yet. Error texts and counters of the checkpoint are left out. The
branches that raise `DeliverySequenceError` are not shown because `HistoryFits` says
they cannot be taken.

*AstraVector* is external. The model assumes what the client relies on: Start is
idempotent per document version and source, Append by index and hash, Activate by
state; Finalize is taken once per session. That the server hashes
the blocks it holds when it is asked to finalize is what
`docs/M8.2.0-REAL-ASTRAVECTOR-CONTRACT-AUDIT.md:220` says; the client cannot see whether
it refuses another hash, so that is a constant: with `HashIsChecked` it always does, without it may or may not. What it
decides is how much the properties promise of a plan that is shorter than the delivered
one: `FinalizedIsOnePlan` and `CompletedIsSearchable` always say that the plan is in the
session as a whole and that no batch is of another plan, but that nothing lies beyond it
only if the server compares. An active vector may be reported as ACTIVE or as a
READY_TO_ACTIVATE document that is ACTIVE and searchable (`Reports`). A call may be refused, its request
lost, its reply lost, or its request executed after the caller gave up (`late`).
`FinishFinalize` and `SyncVectors` are the server's own progress, which may fail
and is never assumed to happen. Sessions that the server expires or aborts, and
states the client does not know, are not modelled here: a retry that meets one is
refused like any other call.

### 2.4 Preparation and ReplayPointer

A turn before delivery, on top of `JobLease`, has the labels

    idle -> resume -> deliver -> idle
            resume -> acquire -> record -> prepare
                   -> (fence -> probe -> put)* -> install -> resume

and `failed`, where the worker fails the job for good (`_execute_claimed` reports
`PERMANENT_INPUT` for whatever is raised before there is a payload). Everything
between `session.begin` and commit is one step, everything between two transactions
is not: the lease is asked for before each object and the object put afterwards, by
a process that may have lost it since. Artifacts are addressed by content, so an
artifact *is* what its id hashes (document, source, compatibility, output); `store`
holds its parts and its manifest, each absent, good or bad. The producer may replace
the source at any time (`Overwrite`), the store may damage an object (`Damage`), and
a put that fails may have written. Parsing to splitting is one choice of an output,
the delivery turn another, by its possible ends.

`ReplayPointer` is the promise without store, leases and crashes: a job points at
nothing or at an artifact all of whose objects have been written. The mapping takes
`published` from `store` (an object that is bad now was written once) and `pointer`
from the checkpoint.

### 2.5 Acquisition and SourceFormat

`Acquisition` has the labels `head -> open -> stream* -> validate -> record -> use`.
A content stands for its bytes and etag, and is streamed in chunks; the
announced size may be missing, the stream may end early, grow past the limits or be
another object than the one HEAD saw, and the deadline may end it anywhere. What is
hashed is what was read: `Digest(c, n)` is that of the first `n` chunks of `c`, so two
downloads that are cut at the same place have one digest. A chunk is counted and written,
and then (`enforce`) the directory is measured, which lacks up to `BufferBytes` chunks
that are still in the buffer; closing the file writes them out, and nothing measures
again. An exception closes the file first and unlinks it afterwards (`unlink`). A
workspace belongs to a job and a generation. The scavenger first asks the database
(`ScavengeJudge`) and deletes later (`ScavengeDelete`); nothing locks in between. A
caller is assumed to pass the hash of the job row as the expected one, which the
service offers and no code of the repository does yet: `HashIsStable` rests on it. In
`Preparation` the caller may leave it out.

`SourceFormat` is `_validate`: signature, then containers entry by entry, RTF byte by
byte, text chunk by chunk, images by their header. A byte is its class.

### 2.6 Abort

Callers of `abort()` against one session that another process may finalize and the
server may expire. A call is answered, fails with the request applied, pending or
lost, and with any code; the query may fail. The step that records a status comes
after the query, with anything in between. The checkpoint's session does not change
while they run.

### 2.7 The pipeline modules

`Ocr` is one `process()` call: for every candidate the policy, the deadline, the
budgets, the render, the cache and the recognition, then reconciliation with the
native text and the merge. The recognition worker is a process of its own behind two
queues; it may start, answer, answer with an invalid output, raise, hang or die at
any time, and the service stops it when a wait times out. Texts are sequences of
characters with blanks between words, since the comparison with the native text looks
for substrings first and for words then; boxes are left out (see 3.3).

`Normalization`, `Sentence`, `Splitter` and `BatchPlan` are algorithms with one step
per iteration of the loop that decides (element, character run, unit or group,
block). Characters are classes, tokens are their word counts and the lengths of their
grapheme clusters, block texts their sizes. The properties compare the result with an independent description of
it: the text with nothing but the removable characters taken away, the greedy
partition, the trees.

`MCPipeline` puts the six side by side. A behaviour is one call of one stage; they
share no state, so one run covers all of them, and the variables of the stages that are
not called stay at rest. `Normalization` comes in as an instance, the five stages that
theorems are about with their own names.

## 3. What is checked

### 3.1 Runs that pass

| Run | Instance | States | Shows |
|---|---|---|---|
| `queue` | 3 jobs, of which a behaviour submits two: two for one version (budgets 2 and 1), or one of them and one of higher priority; 2 processes with one worker id, lease of 1 tick, transactions up to 1 tick old, jitter | 163 thousand | the queue's invariants and action properties; the active-version index is enough; every job ends, unless its last attempt is lost; the queue implements `JobLifecycle` |
| `delivery_replay` | 3 processes, 3 batches, 1 late call; one of three stories: a job with 2 attempts is resumed by a plan that is the beginning of the first, or by one that agrees on the first batch only, or a second job for the version follows one that ended, with a plan that differs likewise | 646 thousand | ledger, truthfulness of ACCEPTED, no mixed document, COMPLETED means searchable, evidence is never rewritten, refinement of `JobLease` |
| `delivery_liveness` | 1 job, 2 attempts, 2 batches, processes with different fingerprints (each may also restart and take over from itself), no late calls | 100 thousand | every turn ends |
| `preparation_replay` | 1 job, 2 attempts, 2 pipelines, 2 contents, 1 part and the manifest, 1 damaged object | 243 thousand | the payload is the verified artifact of the job's own lineage; the pointer is fenced; every turn ends; refinement of `JobLease` and `ReplayPointer` |
| `acquisition_owners` | 1 job, 2 attempts, contents of 2 and 5 chunks under a budget of 2 and a source limit of 4, a buffer of 1 chunk | 1.19 million | partial files are inputs only where nothing tells them apart, the workspace is bounded, the hash is stable |
| `abort_race` | 3 calls, one of them for another session, 3 attempts, 2 polls | 118 thousand | a verdict is true and stays true, so does a recorded end, every call ends |
| `pipeline_stages` | the inputs of `PipelineInputs` | 411 thousand | the stages are faithful to their input and within their limits |

*Bounds.* Two processes are enough for every hazard of the list: a stale owner and
a current one. Budget 2 gives a first owner, a reclaim or a retry, and exhaustion.
A lease of 1 tick with transactions of age up to 1 has all orders of expiry,
lagging judgement and renewal. Two batches distinguish first, next and last; with three,
two plans agree on the first and mix in the others, and a plan of two is the beginning of
a longer one of which a batch has been accepted, or not yet. One late call is enough for
a call of an old owner to arrive in a new turn. The stories of `delivery_replay`
(`StoryNext` in `MCDelivery`) only say which jobs are submitted together and which
processes take part, and which of two alike begins; within a story every interleaving
is explored. In
`delivery_replay` AstraVector need not compare final hashes, in `delivery_liveness` it does. An
artifact of one part and the manifest has a first, a last and a crash between them.
A content at the limit and one beyond it meet both sides of every comparison. Two
callers of abort race each other, the third has a foreign session. `MaxTxAge` is 0
outside the queue runs and `acquisition_scavenger`, where the lag has been dealt with by
the queue. The budget of a workspace and the limit of a source lie far enough apart for
the buffer and the last chunk to pass the one and not the other. The source is replaced
where that can be noticed, before HEAD and between HEAD and GET (`OwnersNext` in
`MCAcquisition`). The limits of the pipeline stages are
scaled down with their inputs: every text of 3 to 6 characters over the classes a
rule can tell apart, files of up to 5 or 6 bytes read in chunks of 2, documents of up to
3 elements around the guards with tokens of several characters a cluster, block graphs of up to 5 nodes with any parents.
`Symmetry` permutes the processes in safety runs whose constants treat them alike;
the liveness runs use none.

*Fairness.* The queue assumes that time passes, that worker loops poll, and that a
turn which can end again and again ends (strong fairness of `EndTurn`): a turn
makes a bounded number of transactions, because batches, Finalize attempts and
polls are bounded. `delivery_liveness` checks exactly that on the detailed model,
from weak fairness of the process's own next step alone, without assuming that
time passes or that AstraVector makes progress. `preparation_replay` assumes the same
of a process (its next step, or the `LeaseLostError` of a fenced transaction whose
lease is gone), `abort_race` of each call, `pipeline_stages` of the OCR service and of
the planner, which are sequential code. Nothing is assumed of the recognition
worker, the server, the store or the producers.

*Refinements.* `LifecycleSpec` (`JobLease` implements `JobLifecycle`), `QueueSpec`
(`Delivery` implements `JobLease`), `PreparationKeepsQueue` (`Preparation` implements
`JobLease`) and `PointerSpec` (`Preparation` implements `ReplayPointer`). All four are
proved as well (section 4).

*Mutants.* Every property has at least one; the properties of `pipeline_stages`, which
are conjunctions, have several.

### 3.2 Runs that are violated, and what they say

| Run | Statement of the repository | What the code does |
|---|---|---|
| `queue_exhaustion` | exhaustion ends in durable terminal evidence (`docs/M8.3-DURABLE-DELIVERY.md:69`) | a last attempt without a verdict stays PROCESSING for ever and blocks its document version |
| `delivery_gap` | the contract gap arises when the zone is unavailable locally (`docs/M8.2.6-FINALIZE-COMMIT-QUALIFICATION.md:41`) | the persisted zone is never read, so a retry after Finalize ends in the gap |
| `acquisition_scavenger` | "a live non-expired lease prevents scavenger deletion regardless of directory age" (`docs/M3-SEAWEEDFS-SAFE-ACQUISITION.md:40`) | the directory is deleted after the question, without a lock: a heartbeat whose transaction began before the expiry renews the lease in between, and the workspace of a live lease is gone |
| `pipeline_codes` | protected tokens cover "four-digit codes" before dehyphenation (`docs/M6.1-RAG-CORRECTNESS-HARDENING.md:32`) | the span of a code ends before the hyphen, so with wrap-hyphen evidence "2023-\n2024" becomes "20232024" |
| `preparation_ttl` | a reclaimed worker reuses a compatible artifact (`docs/M8.3.2-M8.3.3-CRASH-RESUME-FULL-QUALIFICATION.md:79`) | a missing TTL is stored as 0 and compared with NULL, so a job without one is never resumed and fails |

### 3.3 Deviations met while modelling that no run shows

Places where a document says something the code does not do. They were seen while
the modules were written; the models have the code's behaviour, and the properties of
the passing runs do not claim what the documents say here.

| Where | The document | The code |
|---|---|---|
| `application/finalize_reconciliation.py:165`, `vector_activation.py:106` | "a mutating RPC is not started when `remaining lease < rpc deadline + safety margin`" (`docs/M8.3-DURABLE-DELIVERY.md:63`) | a repeated Finalize and every Activate have no window check (`MutatingCallsAreWindowed` in `Delivery`) |
| `persistence/delivery.py:202` | "every authoritative delivery mutation is lease-generation fenced" (`docs/M8.3.2-M8.3.3-CRASH-RESUME-FULL-QUALIFICATION.md:72`) | `record_session_status` and `record_vector_status` are not (`CheckpointIsFenced` in `Delivery`) |
| `application/abort_reconciliation.py:126` | ABORTED / INGESTION_SESSION_STATE_CHANGED is among the outcomes that "do not prove whether the remote abort committed" (`docs/M8.2.7-ABORT-CANCELLATION-CONTRACT-QUALIFICATION.md:52`) | the code ABORTED is raised without a status query |
| `splitter/service.py:385` | "Oversized sentences/text are force-split under character and word guards." (`docs/M6.1-RAG-CORRECTNESS-HARDENING.md:38`) | a token without white space with too many words and few characters is not cut, nor is a grapheme cluster beyond the character guard; the document is refused. `OnlyTokensExceed` says these are the only such cases |
| `normalization/service.py:210` | "NFC only" (`docs/M6-NORMALIZATION-LOGICAL-SPLITTER.md:27`) | NFC comes before the removal of soft hyphens and controls, and what they separated stays uncomposed. `TextIsComposed` says that these places, and no others, are uncomposed |
| `normalization/service.py:17` | "prose horizontal whitespace collapse" (`docs/M6-NORMALIZATION-LOGICAL-SPLITTER.md:29`) | a form feed is removed as a control before it could become a blank, and glues two words. `MeaningIsKept` counts it among the removed characters; it compares the words of the text word by word for every other white space |
| `application/durable_append_delivery.py:170` | "A reclaimed worker SHALL regenerate or load the same deterministic batch partitioning/checkpoint mapping before replay." (`docs/TZ-13-reliability-recovery.md:471`) | the runner looks at the batches of its own plan only. The final hash of the longer plan refuses it if it was persisted; otherwise the session, and on a server that does not compare hashes the document, holds more than the plan that COMPLETED it |
| `acquisition/service.py:160`, `workspace.py:52` | "per-attempt workspace budgets are enforced" (`docs/M3-SEAWEEDFS-SAFE-ACQUISITION.md:37`) | after the write, without what is buffered: the directory exceeds the budget by the buffer and one chunk at most, which `WorkspaceIsBounded` says |
| `acquisition/service.py:184` | "partial downloads are never parser input" (`docs/M3-SEAWEEDFS-SAFE-ACQUISITION.md:34`) | where HEAD gives no size, a body that is cut is recorded with the digest of what was read, and a later attempt that is cut alike finds it again; `PartialIsNeverInput` names the cases that exclude it |
| `runtime/composition.py:134` | "production wiring must use a value aligned with the deployed AstraVector configuration" (`docs/M8.2.5-DETERMINISTIC-WIRE-BATCHING-QUALIFICATION.md:84`) | the planner is composed without `max_batch_bytes` |
| `ocr/service.py:111` | "Reuse MUST preserve each occurrence's page/region provenance" (`docs/TZ-06-ocr-pipeline.md:650`) | the page is the occurrence's own, the coordinates are those of the first occurrence |
| `ocr/service.py:131`, `ocr/engine.py:133` | boxes are normalised at the adapter boundary to `normalized-top-left` (`docs/M5-OCR-PIPELINE.md:148`) | the service looks for `normalized-0-1` and divides by width and height again |
| `ocr/service.py:64` | "distinct native and image text both preserved" (`docs/TZ-06-ocr-pipeline.md:942`) | text that contains a native text of its page, such as a page number, is dropped as a duplicate |

### 3.4 Not covered by any check

Properties that depend on AstraVector's honesty beyond the assumptions above;
disk or network behaviour of PostgreSQL; the bytes of hashes.

## 4. What is proved

TLAPS proves the following for every set of jobs, processes, contents, documents and
blocks, every lease length, backoff, age of transactions, limit, number of batches and
so on. The assumptions are `QueueAssumption`, `NullIsNoToken`, `DeliveryAssumption`,
`PreparationAssumption`, `NullIsNoCheckpoint`, `AcquisitionAssumption`,
`NullIsNoWorkspace`, `AbortAssumption`, `PlanAssumption`, `OcrAssumption`,
`FormatAssumption`, `SentenceAssumption` and `SplitAssumption`: numbers are numbers, budgets are positive,
what the code holds in a tuple is a tuple, and `Null` is none of the values it stands
beside. `OcrAssumption` contains `ElementIdsAreValid` (parsers name elements by a hash of
their place, so no two alike), `SentenceAssumption` that an abbreviation of a profile ends
in one full stop only and that the terminals a language adds are sentence ends. `SplitAssumption` asks that the
profile passes `SplitterProfile.validate`, that no sentence, row or token is empty
(which is what splitting at white space yields), and that a token is as long as its
grapheme clusters together. `DeliveryAssumption` says nothing of how the plans of two
processes relate: any lengths, any hashes; `HashIsChecked` may be true or false. TLC evaluates each of them in the run of its module.

*JobLeaseProofs.* The inductive invariant `IInv` is `TypeOK`, `LedgerConsistent`,
`RetryHasBudget`, `OneActiveJobPerVersion` and two facts the named properties
need: `LeaseColumns` (the lease is filled exactly in PROCESSING, the retry time
exactly in RETRY_WAIT, and attempts have been counted exactly in the statuses after
PENDING) and `TokensAreClaims` (a token's attempt is its generation, it is never
newer than the row, and no two processes hold the same generation of a job).
Without the second one a step of a stale owner could not be told from one of the current owner, since
worker ids may coincide. From `IInv` follow `TypeCorrect`, `LedgerIsConsistent`,
`FenceIsExclusive`, `VersionIsExclusive`, `WaitingHasBudget`, and the action
properties `TerminalStaysFinal`, `StaleWorkersChangeNothing` and `ClaimsAreDue`
(a claim judged by a lagging clock is still due by the true one). `LifecycleRefinement`
needs no more than `IInv`: the status and the attempts of a job move only as
`JobLifecycle` allows; a stale owner's step maps to a stutter because the fence refuses it.

*DeliveryProofs.* `QueueRefinement` shows that every step of `Delivery` is a step of
`JobLease` or leaves the queue alone, so that `IInv` and its consequences hold during
deliveries too (`DeliveryIsFenced`). The invariants of the delivery tables follow from
the inductive invariant `DInv`, which has four parts:

- `TurnInv`: for every process, what it has achieved by the label it is at
  (`Progress`: while sending, the server holds every batch of its plan below the
  index; from `finalHash` on it holds all of them and the ledger has reached its end; then
  the final hash is its plan, the session COMPLETED, with nothing else in it where the
  server compares, the vectors ACTIVE) and
  the bounds of its loop counters (`Bounds`);
- `TableInv`: the types of the tables, a hash in every row, and the ledger is a prefix;
- `ServerInv`: a session holds the beginning of one plan (`OnePart`), and all of one
  once it has left ACTIVE (`Closes`); an Append that is still to arrive finds the batches
  before its own and a Finalize its whole plan (`Honest`), and vectors exist only after
  Finalize;
- the facts that link tables and server: what is ACCEPTED was delivered, what is
  COMPLETED rests on the plan of one process (`Done`).

`TurnInv` speaks of every process, not of the owner only: a process whose lease has
gone keeps running until its next fenced transaction, and what it knew must still be
true when its calls arrive. That is why nothing a process has achieved may be undone
by another one, which `TableMono` and `ServerMono` state and every action is shown to
respect. The proof has one lemma per action and state component; `DInv` then yields
`DeliveryTypeCorrect`, `LedgerIsPrefix`, `LedgerIsTruthful`, `NoMixedPlan` and
`CompletionIsTruthful`, and the monotonicity `EvidenceStays`.

`OwnHistoryFits` needs more: it is true of the current owner only (a stale one may
well find rows its program does not expect), so `HInv` adds to `DInv` what the holder
of the row's generation knows of its own rows (`OwnHistory`): its index has not passed
`next_batch_index`, and once it has prepared a batch it is there. Whatever the lengths of
earlier plans, this holds, and it justifies leaving the `DeliverySequenceError` branches
out of `Delivery`. The conflict of the final hash is not among them: it can be reached.

*PreparationProofs.* `PreparationRefinesQueue` is step simulation as for `Delivery`, and
gives `PreparationIsFenced`. `PInv` adds to `IInv` the types, `CheckpointInv` (a checkpoint
repeats the source and the compatibility of its artifact and is no newer than the row),
`Progress` (a process that writes has every object below its index in the store, and at
`install` all of them, lease or no lease) and `Payload` (the current owner that delivers
holds the artifact of its checkpoint, of the job's hash and of its own compatibility).
`Progress` speaks of stale processes too, since an object may be put after the lease is
gone; it is kept because no step takes a written object away. `Payload` speaks of the
current owner only and is kept because checkpoint and hash change under the fence. They
yield `PayloadsAreAuthoritative`, `PointersAreFenced` and `PointerRefinement`.

*AcquisitionProofs.* `AInv` adds to `IInv` what a process has read at its label
(`Download`), what it has on disk (`Files`: what is counted and what the directory shows
differ by the buffer at most, and a file that has passed `enforce` was within the budget
when it was measured), that the current owner still expects the hash of the row
(`Expectation`), and of workspaces how far they exceed the budget (`Bounded`) and that they
belong to a generation that was claimed (`Claimed`, without which a new owner could find a
part file in its directory). From it follow `PartialsAreNeverInput`, `WorkspacesAreBounded`
and `HashesAreStable`. That live workspaces are kept is not among the theorems: it is
false (3.2).

*AbortProofs.* The world moves between the query and the record, so `VerdictIsTrue` and
`RecordedEndIsTrue` need `ReadingsHold`: an end that any caller has read is the end of the
session, now and later. `QueriesFollowCalls` bounds the queries by the Aborts sent, which
gives `AbortCallsAreBounded`; `RecordedEndsAgree` says that a late writer may put an open
status back over an end but never another end.

*OcrProofs.* The answer that `recognize` takes from the queue carries no request id, and is
credited to whichever candidate is being read. `EngineInv` is why that is right: outside
the two waits both queues are empty and the worker holds nothing, and during a wait there
is at most one message or request, of this candidate; the proof rests on `_stop`
forgetting both queues whenever a wait ends without an answer. `ReadInv` says that the
cache holds readings of its own images and a result nothing or what is retained of the
reading of its own image under its own name; `BudgetInv` that what was spent is the sum
over the results; `OutcomeInv` what has become of every candidate that needed reading.
From `OcrInvariance` follow `CreditedRecognition` and `NothingIsSkippedSilently`, and with
`MergeInv` `EnrichedDocument`: what was accepted has ids of its own, since an id is hashed
from candidate, order and text, and the merge lays out every parent's accepted texts behind
it (`IsLayout`), so that each appears once and in the order of its image.

*StageProofs* is about the stages that are loops over their input. Their properties are
stated by counting or quantifying over the whole input, the code runs over it once; each
invariant says of a prefix what the property says of the whole, in the terms of the code's
variables.

`FormatInv`: the total is the sum over the entries read and no two of them have one name;
the depth is the number of unescaped opening brackets less the closing ones, where
"escaped" is an odd number of backslashes before a byte (a count, while the code has one
bit that it flips, and carries from one read to the next); the decoder waits exactly if the
last byte read began a character. `SoundFiles` is the property of the run, in both
directions for RTF and text: nothing unsound is admitted and nothing sound refused.

`SentenceInv`: the sentences told hold every character but white space before `begin`, no
blank line lies between `begin` and the scan, and `begin` relates to the last sentence as
the next sentence must (`EndsBefore`): if it stands right behind it, the sentence ends in
more than a full stop, and if the sentence ends in an abbreviation, a blank line lies
between. The look-around of the code does the rest: where a run of terminals ends in a
single full stop without white space after it, the scan goes on (`GluedPeriod`), so a cut
inside a token must come from something else. That an always-nonterminal abbreviation ends
no sentence needs that the run began at its full stop and not before, which is why
`SentenceAssumption` asks the character before it to be no terminal.

Of the planner, `OnlyTreesPass` quantifies over all sets of blocks that are cut off
from the root, while the code follows one parent chain after the other. `WalkInv` joins
the two: no block whose chain is done lies in such a set, and the chain that is being
followed cannot leave one it started in; conversely the ids of a chain that meets itself
are such a set, so a refused graph is no tree. `PackInv` says of the batches what
`Greedy` says, of the batch being filled that it is within the limits, and that its first
block did not fit into the one before. `BlocksInv` keeps what the mapper made of the
fragments. `PlanIsGreedy` is the property of the run. The proof found the conditions under
which the mapper's output is always accepted (`Uploadable`): ids without white space
around them, none of them the root's, and no more fragments than wire numbers. Ids that
differ only in white space pass the uniqueness test of the mapper and fail that of the
validator.

The splitter cuts on three levels, and each loop has an invariant that sets what it
has gathered beside the text it was told so far: `ForceInv` of the words of a sentence
that is too long, `TextInv` of the sentences of an element, `RowInv` of the rows of a
table, whose chunks follow each other without a gap. Chunks hold what was told token by
token; where a token had to be cut, its grapheme clusters in their order, none of them
split (`Retells`; `GraphemeInv` is the loop over the clusters). What they emit is within the
guards, unless a single token exceeds the word guard without exceeding the one on
characters, and then the call is refused (`OnlyATokenExceeds`).

`SplitInv` carries this to the document. The units made so far tell the elements read so
far, and stand in an order (`Before`: by element, then by continuation) in which no two
are the same piece; the groups that are closed and the one being filled hold them in that
order (`GroupsKeepUnits`), none of the closed ones empty or beyond a guard
(`ClosedGroups`), while they are packed and while small ones are merged. An id is hashed
from the elements of a fragment, its last continuation and its text, so two fragments with
one id would end in the same piece of the same element, which the order forbids. That is
how ids stay unique although texts repeat. The two checks
of the guards that come last, in `flush` and over the finished fragments, never fail: they
are assertions, not cases. `SplitInvariance` is the invariant, `FaithfulFragments` the
property of the run.

*DataInduction.* What `Retained`, `SumOf` and the bytes of a batch are is defined by
recursive functions, and the induction theorems of the library take an operator as a
parameter, which the installed provers cannot instantiate. The lemmas here avoid it: a
predicate is the set of numbers it holds of, induction is the least element of its
complement, and a recursion step is a function, so that the existence of a solution
(`RecursionUpTo`) can be cited. Sums, and sequences joined into one (`FlattenConcat`,
`FlattenPlaces`), are solved here once for all stages.

Only model-checked: the liveness properties `EveryJobSettles`, `TurnEnds`,
`PreparationEnds`, `AbortEnds` and `LoopsEnd`, which are out of the prover's reach; and
`NormalizationKeepsMeaning`. The normaliser is a chain of rewritings of a whole text, each
a fold or a map over its characters that takes a rule as a parameter (`Map(f(_), s)`), and
what such a definition computes for every text and rule is an induction over an
operator, which the provers cannot instantiate. TLC compares it with the reference over
every text of the bound.

## 5. Not modelled, and the plan

*Modelled*: queue, delivery coordinator and runners, abort, prepared artifacts,
acquisition, normalisation. *Partly*: failure policy (counter checks of a vector
status), worker runtime (signals, configuration), AstraVector (external), batch planner
(canonical hashes are byte encodings), gRPC mapper (which blocks have a wire form, not
the fields), OCR (rendering and inference are external choices; box geometry, model
bundles and readiness probes are left out), splitter (the ICU backend, language
detection and context prefixes are left out).

*Not modelled*: the parsers, which turn the object trees of third-party libraries into
elements and keep no state of their own; object storage (a thin HTTP client);
configuration and domain value objects; migrations; the text of errors and logs,
metrics.

What remains, in this order:

1. theorems about `Normalization`, for which its passes would have to be restated one by
   one as recursive functions;
2. session expiry and abort on the server of `Delivery`, with its proofs.
