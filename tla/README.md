# Verification of the Athena workload-context runtime

TLA+ modules, TLC configurations and TLAPS proofs for the parts of Athena that
run unattended and concurrently. The repository is checked out under `src/`, so
its Python package is `src/src/athena_context/`; file names in this document are
relative to that package.

## 1. The system

Athena keeps a governed description of a workload (the Context API and its
store), collects evidence about it, and, through the WC-016 event runtime, turns
a change of health of an approved resource into a signed incident and one
notification. Around that, WC-025 records changes of approved resources as
signed evidence, and WC-027 adds verified guidance to current incidents and
publishes a second feed from them.

| Component | State it keeps | Operations | Talks to |
|---|---|---|---|
| Scheduled signal detector (`eventing/detector.py`) | run lease and one checkpoint per resource (committed health, pending request) in `Wc016DetectorState` | every minute: take the lease, resend what is pending, observe, stage, record first health, send, commit, release | ARM reads; reassessment queue |
| Incident orchestrator (`eventing/orchestrator.py`, `incident_state.py`, `runtime.py`) | none of its own; writes `incident-assets` blobs | one hint per execution: validate, read live health, reconcile with the index, publish, enqueue | reassessment queue, blobs, notification queue |
| Feed heartbeat (same files) | none | every five minutes: observe all resources, re-sign an index that agrees | blobs |
| Incident asset publisher (`azure_adapters.py`) | immutable state, pointer and attestation blobs; `current.json` per incident; `active.json` | create-only uploads, conditional replacement | Blob storage |
| Notification outbox and dispatcher (`eventing/runtime.py`) | one delivery record per notification in `Wc016NotificationState` | reserve, mark dispatching, POST, mark delivered, reset, prune | notification queue, Logic App |
| Change ingestion (`eventing/change_ingestion.py`) | create-only artifacts, handoffs and failure receipts | receive or query, normalize, sign, persist, recover, settle, purge | Event Grid queue, Resource Graph, artifact store |
| Context API (`api/service.py`) | none of its own | create, replace, validate, submit, review, issue a receipt, approve, publish, supersede, each under an idempotency key | Context store |
| Context store (`api/durable.py`, `memory.py`) | one table partition per workload: drafts, versions, receipts, audit chain, state row with its anchor | bootstrap, read and verify, commit one conditional batch | Azure Tables |
| Cohort decisions (`api/cohort_service.py`, `cohort_decision_service.py`) | proposal batches, previews, decision records; selector baselines of drafts | propose, preview a split or merge, approve, apply, reject | Context API and store, evidence, binding engine |
| Demo evaluation (`api/`) | evaluation records | evaluate, approve | Context store |
| Guidance authority (`guidance/`) | one activation row per incident | check the authority, activate, trigger | request queue, v1 feed, trigger queue |
| Enrichment and feed v2 (`enrichment/`) | feed registry, `feed-v2.json` | enrich, put, project, publish, notify, prune | trigger queue, v1 feed, activation, notification queue |
| Monitoring collection (`monitoring_collection.py`) | collection transaction | prepare, execute | ARM, artifacts |
| Operational phases (`operational_phase_runner.py` and its job and operator) | completion chain | run a phase | artifacts |
| Collector start controller (`wc013_collector_controller.py`) | none | compare with the reviewed template, start | Container Apps |
| Manifest, binding, policy and correlation engines | none | pure functions | |
| Evidence client, MCP, agent, gateway, web apps, preflight | none or I/O only | adapters | |

What is hard in the event runtime:

- jobs overlap: the detector starts every minute and may run for three, up to
  four orchestrators and two dispatchers run at once, a heartbeat joins them;
- session locks expire under a running execution, messages come again up to a
  delivery limit or expire, replicas are stopped by a timeout or crash;
- a run of the detector is a sequence of table writes and sends, a publication
  is five uploads and two conditional writes: each can be the last;
- health changes between any two reads, and hints are never evidence;
- duplicate detection, ETags and truncated or repeated clock values decide
  which write or message survives.

And in the rest:

- a Context API transaction reads its partition in pages while other replicas
  commit, and its client may send the command again before it has an answer;
- change records are ingested twice, by executions that differ in their time of
  reception and perhaps in their signing key, into blobs that are written once;
- reviewers decide proposals one by one that were made for one revision of a draft,
  while drafts are seeded from each other, published and rolled back, and no selector
  may enter a manifest except through a decision;
- feed v2 mirrors a v1 index that is replaced every five minutes, and its
  producers look at the v1 feed up to five times on the way to one commit.

`PROJECT.json` lists these hazards at the line where they bite, with the
properties that watch them.

## 2. Modules

### NotificationDelivery

The dispatcher job. `row` is the table of delivery records (state, ETag, whether
the reservation has expired), `status`, `seqNo`, `deliveries` the session queue,
`pc`, `msg`, `etag`, `locked` an execution, and `answers` the history of every
POST. Each action is one call that leaves the process: `Receive`, `Verify`
(or `Reject`, `SourceNotReady`), then `Prune`, `Create`, `Read`, `Reacquire` for
`acquire`, `MarkDispatching`, `Post`, `MarkDelivered`, `ResetForRetry` and
`Conclude` for the settlements. `LoseLock`, `Crash`, `ExpireMessage` and
`ExpireReservation` happen at any time. `MarkDispatchingRepeated` is a write
whose answer was lost and which the table client repeats.
`Answers` has one member for each class of HTTP outcome the code tells apart.

### SignalDetector

Detector executions with the run lease (`lease`), the checkpoints (`ckpt`), what
the queue accepted (`accepted`, with duplicate detection) and explicit time:
`now` in units of which `Minute` make a minute, `ReplicaTimeout`, `LeaseTime`
and `StartDelay`, the longest time from the cron trigger to the read of the
clock. The clock is truncated to the minute as in
`run_scheduled_signal_detector`, and requests are identified by health and that
minute, as the code derives every identifier from them. The loops of
`_detect_signal_requests_with_lease` are the phases resuming, observing,
staging, initializing and sending. `Stop` is a crash or the timeout, `Fail` an
exception, after which `ReleaseLease` still runs.

### IncidentFeed

Orchestrator and heartbeat executions over the blob container: `assets` (the
immutable blobs), `current` (`current.json` of each incident) and `index`
(`active.json`). A worker receives a hint, `Reassess`es live health, reads the
index (`ReadIndex`), and either has nothing to publish (`ReadCurrent` decides
whether the notification has to be repeated) or goes through `Upload`,
`PublishPointer`, `PublishIndex`, `Enqueue`; `Complete` settles. The heartbeat is
`Observe`, `Snapshot`, `Attest`, `Replace`, `Recover`. A download followed by a
write conditional on its ETag is one step: whatever falls in between makes the
write fail, and `Fail` covers that. Health is arbitrary at every read, which
covers every way it can change. `committed` and `verdict` are history.

A signed state is the record of its request, lifecycle and observation time.
Signatures, digests and document fields are abstracted: digests are assumed
injective, so ETags and SHA-256 comparisons are comparisons of contents.
One clock is assumed for all executions; it does not go back.
`reuse_unchanged` of the index builder is left out because no publication of the
orchestrator leaves the entries unchanged.

### ContextMutations and ContextLifecycle

The manifest lifecycle of the Context API. `ContextMutations` gives, for each of
the nine mutations of `api/service.py`, the condition under which its closure does
not raise (`MayCreate`, `MayReplace`, ...) and the context it leaves behind
(`Create`, `Replace`, ...), as functions of the context `c` of one workload:
`drafts`, `published`, `superseded` and the operational-context receipts
`opReceipts`. The checks the service shares are shared here: `Lineage` is
`_ensure_lineage`, `Expected` the optimistic preconditions of every command,
`CurrentCandidate` and `ReceiptBound` the provenance checks of review, approval
and publication. `ContextLifecycle` is the specification: the context changes by
one complete mutation at a time. It is the abstract specification that the table
transactions of `durable.py` are shown to implement (`ContextStore`).

A manifest is its body and whether it carries the audit section the service
writes when it finalizes a candidate; digests are injective. Refusals for the
rights of an actor, the contents of a manifest or the expiry of a receipt have no
effect and are no steps. Clients send commands that quote the draft as it is;
a stale command is refused by `Expected` and changes nothing. Reviews, approvals
and decisions are identified by their revision, as their identifiers contain it.

### ContextStore

The table transactions under several replicas. `part` is the partition: the
models of `ContextLifecycle` as rows, the audit chain (`audit`, `tail`), the
idempotency receipts and the state row with its generation and `anchor`. A replica
(`rep`) enters a transaction with the first page (`Enter`), reads the others from
what is then in the table and verifies the whole (`Load`), finds a receipt
(`Replay`), refuses (`Refuse`), or commits one batch (`Commit`), which the table
applies only if the rows it updates are as they were read and the rows it creates
are new. The mutation itself is the one of `ContextMutations`. Clients (`tries`) send
a command again while an earlier attempt may run, and lose answers; `answer` is the
result the last step gave. `BootstrapRead` and `BootstrapCreate` are two replicas'
first start.

`Lifecycle == INSTANCE ContextLifecycle WITH ctx <- Context(part)` is the refinement
mapping: the context of the abstract specification is the models in the partition.

The anchor's digests are injective, so an anchor is the rows it was computed over.
A command stands for its idempotency key. Page boundaries fall between kinds of
rows, in the order of their row keys: the mixtures that tear one kind apart fail the
same comparison with the anchor. The bootstrap's read of an empty partition is the
only one that matters. A replica has one transaction at a time (its lock). Rows of
selector baselines and cohort decisions are the subject of CohortDecisions.

### ChangeIngestion

Executions (`worker`) of the Event Grid and Resource Graph workers and the
dead-letter purge, over the queue (`queue`, `lock`, `deliveries`) and the create-only
blobs (`artifact`, `handoff`, `receipts`). `Receive` normalizes a whole batch,
`Collect` a window of rows; then, for each record, `RecoverHandoff`,
`RecoverArtifact`, `CreateArtifact`, `CreateHandoff` are the calls of
`persist_change_evidence`, and `CompleteMessage` settles. `Stop` is a crash, a failing
call or the replica timeout between any two. A record stands for its deduplication
key; what tells two normalizations of it apart is the time of reception, the key
version and, for a Resource Graph row, whether its details were complete
(`detailed`), and `Matches` compares what `_validate_recovered_artifact` compares.
Blobs are create-only, so `artifact[r]` has at most one version in the model of the
code and more only in its defective variant.

A queue place tells accepted (all records persisted) from discarded (rejected by
normalization), although both are a completion to the broker.

### EnrichmentFeed

WC-027 composed with the v1 feed. `PublishCurrent`, `PublishIndex` and `Heartbeat`
are the publications of WC-016 as readers see them; `IncidentFeed` has their detail.
The publisher of the guidance authority takes a request through `Authorize`,
`Activate` (second look at the v1 feed, then compare-and-swap of the activation row)
and `Enqueue` (third look, then the trigger). A producer takes the oldest trigger of a
session: `Receive`, `Enrich`, `Write` for the registry row, then `ReadSource`,
`Project`, `Decide`, `Commit`, `Reconcile`, `ConfirmHead` for
`IncidentFeedIndexPublicationService.publish` inside the attempts of
`IncidentEnrichmentFeedPublicationService.publish`, then `Notify` and `Complete`.
`RejectTrigger`, and the branches that settle with "reject", are `ValueError`s, which
dead-letter; those that settle with "abandon" are the errors that give the message
back.

A binding stands for everything derived from its request (authority, enrichment,
pointer, registry row), since these are deterministic and created or found equal. An
index stands for its digest and its ETag. Steps joined because nothing they read in
between decides differently: the coherence check and the registry's admission checks
(`Enrich`), the read-back of the row and the v1 index (`ReadSource`), the read of the
head, the renewed source and the classification (`Decide`), and the publisher's reads
of `current.json` and the index. `published_at` is one unit later than the v1 index a
producer finds. Requests are made for occurrences that have no row yet. Registry
capacity, pruning and the retention of resolved rows, the request queue's delivery
limit and overlapping guidance publishers are left out.

### CohortDecisions

Decisions about proposed cohorts and the selector provenance they leave. `drafts` are
the drafts of one workload with their immutable selector baselines, `batches` the
cached proposal batches, `previews` the stored split and merge candidates, `decisions`
the decision records, whose apply authorization is what later drafts inherit. The
selector checks of `service.py` are operators named for what they compare:
`ProvenanceHolds` (baseline overlaid with the bindings of `Authority`), `Resolves`
(profile overrides of inherited roles, with the capability of a decision),
`BaselineExpected`, `References` and `MaySeed` (what a new draft is measured by),
`InferredHolds`. `CreateDraft`, `ReplaceDraft` and `PublishDraft` accept any manifest a
client can put together from known or proposed selectors (`SentManifests`) that passes
them. `GetProposals`, `Preview`, `Approve`, `ApplyPreview` and `Reject` are the review:
`CurrentDraft` is the rule that every revision since the batch was made by a decision of
that batch, `AppliedRole` how a decision joins those before it, `Overlaps` the
arbitration over all drafts and versions.

One profile without descendants, three forms of atomic selectors and their
conjunctions; `maxMatches`, repeated requests and the expiry of snapshots only refuse
or repeat an answer. Validation to publication is one step (ContextLifecycle has its
detail), and a transaction is atomic (ContextStore).

Each module keeps, in front of the definition concerned, the defective variants
(`Defect: ...`) that the properties are tried against.

## 3. Runs

| Run | Bounds | Shows |
|---|---|---|
| `notification_delivery` | 2 executions, activation and resolution of one incident, 2 deliveries | safety of delivery under every interleaving; every message is settled, under fairness (851 000 states) |
| `notification_effects` | the same notification queued twice | expected violation, finding 1 |
| `signal_detector` | 3 executions, 2 resources, 2 changes of health, minute 2, lease 6, timeout 4 | exclusion, order and no loss (1.7 million states) |
| `signal_detector_delayed` | 1 resource, start delay longer than a minute | expected violation, finding 2 |
| `incident_feed` | 2 incidents, a hint each with 2 deliveries, one of which may fail in every way, 2 workers, 1 heartbeat, 2 clock values, one lost session, one failed upload of the heartbeat | the feed stays consistent, no lost update, no missed notification (2.5 million states) |
| `context_lifecycle` | 3 drafts, 3 versions, 1 body with and without audit section, 2 detours | one lineage, always recoverable, nothing unreviewed published (481 000 states) |
| `context_store` | 2 replicas, 2 drafts, 2 versions, 2 open commands, 2 tries, races at 2 generations | the store implements the lifecycle (172 000 states) |
| `cohort_decisions` | 3 drafts, 3 versions, an own role of 2 resources in 2 scale sets, an inherited role of 2, 3 decisions, 2 batches, previews or edits | every selector stays accounted for (847 000 states) |
| `cohort_rebase` | the same | expected violation, finding 4 |
| `change_ingestion` | 2 executions, 1 message of 2 events, 1 Resource Graph row, 4 clock values, 2 keys, 2 deliveries, 1 failure | nothing lost, torn or stuck (432 000 states) |
| `enrichment_feed` | 2 incidents, up to 3 occurrences, 2 producers, 2 requests, 3 updates of the v1 index, 1 fault | feed v2 mirrors v1 and moves forward (1.1 million states) |
| `enrichment_resolved` | 1 incident that resolves, no fault, fair jobs | expected violation, finding 3 |

Properties of NotificationDelivery: `RepostOnlyAfterRetryable` (a second POST
only after an answer that resets the record), `DispatchLeaseKept`,
`CompletedMeansAccepted`, `OrderedPosting`, `PostRecordsRetained`,
`EventuallySettled`. Of SignalDetector: `RunExclusion`,
`CheckpointNeverConflicts`, `QueueFollowsCheckpoint` (what is committed is what
the queue last accepted), `RequestsAlternate`, `PendingIsStable`. Of
IncidentFeed: `FeedReferencesExist`, `IndexTrailsCurrent`, `FeedMovesForward`,
`HeartbeatAssertsObserved`, `OwnEntryOnly`, `NotificationFollowsPublication`,
`CompletedMeansNotified`, `IndexFollowsReassessment`. Of ContextLifecycle:
`LineageLinear`, `SuccessionRecoverable`, `PublishedWasReviewed`.

Of ContextStore: `PartitionOpens` (what is committed matches its anchor, or the
workload is shut out for good), `SnapshotsConsistent` (no transaction works on a
mixture of two commits: the audit chain it read accounts for the drafts it read and
is a beginning of the one in the table), `AnswersHold` (a result given to a client is
committed, once, and is the same for every attempt) and `ImplementsLifecycle` (the
refinement). Of CohortDecisions: `SelectorsTraceable` (a role of a draft or version is
declared as in the workload's first manifest or as a decision left it, and resolves as at
first or as a decision on the draft or an ancestor made it), `RejectionPermanent`,
`DecisionsAddUp` (what a decision leaves selects each resource once, all that it covers
and nothing that no decision of the batch covers; and exactly what the decisions so far
cover, if each earlier one changed the selectors of the batch), `PriorChangesPreserved`,
which is the last clause without its condition and fails, and `DraftsStayValid` (a draft
whose predecessor is inferred, and the first draft of every version, can always be taken
further). Of
ChangeIngestion: `ExecutionsAgree` (overlapping executions end with
one handoff), `HandoffPinsArtifact` (it pins an existing, fresh and complete
artifact), `SettledIsAccounted` (accepted means persisted, purged means receipted),
`RejectedBatchIsWhole` and, under fairness, `MessagesLeave`. Of EnrichmentFeed:
`FeedMirrorsAuthority` (`feed-v2.json` lists exactly the incidents of the v1 index it
is bound to, each with the binding of that very occurrence), `FeedMovesForward`,
`CompletedMeansNotified`, and `ResolvedDiscoverable`, which fails. `TypeOK` is among the
properties of the runs of NotificationDelivery and ContextLifecycle; in the other modules
it describes the state, and it is proved for SignalDetector, ChangeIngestion, IncidentFeed
and EnrichmentFeed.

Bounds. Two executions suffice for every race on one record, pointer or index,
since each race is between one writer and one other; three detector executions
let one crash, one recover and one go on. Two deliveries give a redelivery and
its exhaustion. In `incident_feed`, `Failing` names the hint that may expire, be
rejected, lose its session or have executions that fail, between any two calls; the
other hint's executions go through and race it for the index, so it can also lose its
index write and be delivered again. `MaxUploadFailures` is the number of attempts of a
heartbeat whose upload may fail. The queue's real limits (10 and 5), the minute, the timeout and
the lease (60, 180, 240 s) are constants scaled down with their ratios kept:
lease = timeout + minute. `MaxTime`, `MaxChanges`, `MaxLockLosses` only bound
the exploration. In the lifecycle, `MaxDetours` bounds by how many mutations all
drafts together exceed the shortest way to the state they are in: three is a
rejection, four a rejection after an approving review. Three drafts let two compete
to succeed the version of the first, and the third version can be a rollback.
`MaxReceipts` is the number a draft needs, so wrong receipts can also leave it
without. The store's run follows two drafts through their whole lives; `Races` names
the generations at which more than one command, try or transaction is open: at the
start, where both drafts are created, and where the first version is published and the
second draft is still under way. Elsewhere one transaction follows another, with
crashes and lost answers. Two generations apart are enough for a torn read, which is a
mixture of two commits. In change ingestion the clock passes the freshness limit of one
record of the batch before that of the other, and passes the lookback. In the
cohort run a rollback needs the third draft and version, a rejection that comes back a
second batch, and decisions that join a batch with a preview; `MaxSteps` counts batches,
previews and edits together. One of the two snapshots misses a resource. In the feed, one
incident is listed from the start, so that its resolution, its return and the other
incident's first publication all fit into three updates of the v1 index; `MaxFaults`
counts crashes, failing calls, lost answers, lost locks and expiries together. Executions are symmetric where no property names one.
Deadlock is not checked: the jobs stop when the work, the executions or the
bounds are used up.

Fairness (`FairSpec`). In `notification_delivery` the platform starts a
job while its queue holds messages (`azure-servicebus` scale rule), and an
execution either goes on or is stopped by its replica timeout. Nothing is
assumed of the webhook's answers or of the locks. In `change_ingestion`, likewise:
the event job is scaled by its queue, the purge runs every minute, a lock that is held
ends after five minutes, an execution goes on; nothing is assumed of the clock, the key
or Event Grid. In `enrichment_resolved` the jobs are polled and go on, an orchestrator
that replaced `current.json` replaces the index, and the operator asks for guidance on
what is current: the violation is one that even this does not prevent.

Assumptions of the passing detector run: an execution reads its clock within
its scheduled minute (`StartDelay` < `Minute`). The delayed run drops it.

Lost sessions. The session lock (PT5M) lasts as long as the replica may run (300 s), so
only a failure of the broker breaks it. With a lost session, TLC shows that an older
observation can be published after a newer one was reconciled, and that a redelivered
hint can enqueue its notification while the index write of the session's new holder is
still open. `NotificationFollowsPublication` and `CompletedMeansNotified` are therefore
stated for as long as no session was lost (`lockLosses = 0`); the other properties of
`incident_feed` hold even then.

## 4. Findings

1. `EffectAtMostOnce` fails: the dispatcher treats 5xx like 408 and 429 and posts
   again, although the guide promises a reset for 408 and 429 only, because the
   side effect may have happened.
2. `QueueFollowsCheckpoint` fails when executions are delayed into one minute:
   two transitions of a flapping resource then share a message identifier, the
   second is dropped as a duplicate and committed nevertheless.
3. `ResolvedDiscoverable` fails: the guidance authority publisher accepts a request
   only for an incident with an active entry in the v1 index, so no row for a resolved
   occurrence can come about; and while the active row stays, the projection refuses
   every later feed-v2 index ("active registry entries require a verified resolved
   successor"), for all incidents, until the incident becomes active again. ADR 0035
   says resolved occurrences remain discoverable after v1 active-index removal.
4. `PriorChangesPreserved` fails: `_selector_only_replacement` takes a role that equals
   the one the batch was made from for one that no decision of the batch has touched. A
   decision can confirm the selectors as they are: the proposal of a second batch for
   what a first batch already made the role select. The next decision of the batch then
   replaces these selectors instead of joining them, so that the role no longer selects
   what was just approved, although apps/context-api/README.md:351-352 says that a
   rebased replacement "preserves every prior disjoint selector change". Decided in the
   other order, both are kept.

Not a contradiction of any stated contract, but visible in ChangeIngestion: a batch
that is redelivered after one of its records has become stale is discarded although
an earlier delivery persisted some of it, so "preventing partial writes" (ADR 0021)
holds within one delivery only. `RejectedBatchIsWhole` states exactly that. In
EnrichmentFeed, a heartbeat between the runtime's read of the v1 index and its
coherence check dead-letters a valid trigger, and so does a v1 index renewed past the
clock skew before the notification.

In CohortDecisions, a further draft of a version is measured by the baseline of the first
one (`_validate_new_draft_selector_baseline` returns before it looks at the predecessor).
When such a draft declares its predecessor, and a decision that materializes an inherited
role in the profile without changing what it selects was published in between, it is
created without that role, and every later replacement, validation and publication of it
is refused. What the README of the Context API promises, that "unsafe inferred creation"
is rejected "before writing a draft that could fail later lifecycle validation", is said of
drafts whose predecessor is inferred, and for all of these `DraftsStayValid` holds; of the
others nothing is promised. For the same reason a further draft may declare an
inherited role as a decision outside its lineage left it, when that is what it resolves to
anyway: `SelectorsTraceable` is exact about the lineage in what a role resolves to, not in
who declared it. Also visible there: two direct approvals of one role from one batch whose
selectors are of one type collide on the fixed selector identifiers, so the second is
refused.

After a rotation of the signing key, every record persisted under the old key fails
validation and ends the collection, so newer rows wait until the old ones leave the
lookback; no document promises progress across a rotation.

Not a contradiction of any stated contract either, but visible in IncidentFeed: when an
index write loses after `current.json` was replaced and health changes back
before the hint is redelivered, `current.json` keeps naming a state that never
was in the index. `CompletedMeansNotified` is therefore stated for the
transition that is still current.

## 5. Proofs

Every theorem holds for all values of the constants that satisfy the named assumptions:
any number of executions, messages, resources, drafts and so on, and any bound, since the
bounds of the runs only strengthen guards.

| Module | Theorems (properties in brackets where the names differ) |
|---|---|
| `NotificationDeliveryProofs` | `TypeCorrect`, `Invariance`, `AtMostOncePosting` (`RepostOnlyAfterRetryable`), `LeaseKept` (`DispatchLeaseKept`), `NeverSilentlyCompleted` (`CompletedMeansAccepted`), `AlwaysOrdered` (`OrderedPosting`), `RecordsRetained` (`PostRecordsRetained`) |
| `SignalDetectorProofs` | `LeaseInvariance`, `DetectorRunExclusion` (`RunExclusion`), `LoopInvariance`, `TypeCorrect`, `CheckpointsNeverConflict`, `PendingAlwaysStable` (`PendingIsStable`); if `StartDelay < Minute`: `QueueInvariance`, `QueueAlwaysFollows` (`QueueFollowsCheckpoint`), `RequestsAlwaysAlternate` |
| `IncidentFeedProofs` | `FeedInvariance`, `NoDanglingReference` (`FeedReferencesExist`), `IndexNotAhead` (`IndexTrailsCurrent`), `FeedNeverGoesBack` (`FeedMovesForward`), `NoLostUpdate` (`OwnEntryOnly`), `IndexAlwaysFollows` (`IndexFollowsReassessment`), `HeartbeatsAssertObserved`, `TypeCorrect`, `SessionInvariance`, `NotificationsFollow` (`NotificationFollowsPublication`), `CompletedAlwaysNotified` |
| `ContextLifecycleProofs` | `LifecycleInvariance`, `LifecycleTypes`, `LineageIsLinear`, `SuccessionNeverStuck` (`SuccessionRecoverable`), `NothingUnreviewedPublished` (`PublishedWasReviewed`) |
| `ContextStoreProofs` | `Invariance`, `PartitionAlwaysOpens`, `SnapshotsAlwaysConsistent`, `AnswersAlwaysHold`, `StoreImplementsLifecycle` (`ImplementsLifecycle`) |
| `ChangeIngestionProofs` | `Invariance`, `TypeCorrect`, `HandoffsPinArtifacts`, `ExecutionsAlwaysAgree`, `MessagesAccounted` (`SettledIsAccounted`); if no record is in two messages: `RejectedBatchesWhole` |
| `EnrichmentFeedProofs` | `Invariance`, `FeedAlwaysMirrors` (`FeedMirrorsAuthority`), `FeedAlwaysForward` (`FeedMovesForward`), `CompletedAlwaysNotified` (`CompletedMeansNotified`), `TypeCorrect` |
| `CohortDecisionsProofs` | `Invariance`, `RejectionsPermanent` (`RejectionPermanent`), `SelectorsAlwaysTraceable`, `DraftsAlwaysValid` (`DraftsStayValid`), `DecisionsAlwaysAddUp` (`DecisionsAddUp`) |

None of the safety properties but `RejectionPermanent` is inductive as it stands. What
follows is the strengthening each needs, and why.

`NotificationDeliveryProofs`. `IInv` adds what an execution knows
at each place: an ETag taken from a reserved row is the row's only while the row
is still reserved or gone (`ClaimsAreReserved`); a worker that posts or has an
answer to record holds the ETag of a dispatching row (`OwnersHoldRow`) and is the
only one of its notification (`OwnersExclusive`); while a row is absent or
reserved, and before a POST, every earlier answer was retryable
(`AnswersFollowRow`); a delivered row follows an accepted POST
(`AcceptedOnRecord`). ETags only grow, so a conditional write that matches is the
first since its read. The proof that a step preserves `IInv` has one lemma for
the steps that write no row and one for each kind of write. Order rests on
`SessionOrder`: an execution that owns its session has the oldest queued message of it.
Retention rests on `RetriesAnswered`: who is about to reset a row has an answer, and by
`AnswersFollowRow` all answers so far were retryable. Assumptions: `MessageAssumption` and `DeliveryCountAssumption`.

`SignalDetectorProofs`. Exclusion: while an execution holds the lease and runs, the lease
row is its own and its expiry is not before the end of its replica timeout. Truncation
loses less than a minute, so this needs `LeaseCoversRun` (`ReplicaTimeout + Minute <=
LeaseTime`, with equality in the deployed configuration) and `Tick`'s guard, which is the
platform's promise to stop a replica. An expired lease therefore belongs to an execution
that is gone. On that rests `LoopInv`: for each of the five loops of a run, what the
holder has loaded, seen, staged and sent, up to the resource it is at, is what the
checkpoints and the queue hold (`LoopOK`), so no conditional write of a holder can meet
a conflict. `QueueInv` adds that executions in progress have different minutes, that no
request bears a minute its execution has not yet staged one in (`MinutesOK`), and that a
pending request reverses the last one queued or is it (`Rows`). Two requests of one
minute share a message identifier, so this needs `StartDelay < Minute`, and the run
`signal_detector_delayed` shows that nothing weaker will do. Other assumptions:
`TimeAssumption`, `ResourceAssumption`.

`IncidentFeedProofs`. The invariant `IInv` adds to the
two state properties what a publisher has done at each place: past `Upload` the
assets of its publication exist (`UploadedBeforePublishing`), past `Attest` a
heartbeat's attestation does (`AttestedBeforeReplacing`), and at its index write
its pointer is in `current.json` or has been overtaken by one that is no older
(`PointerBeforeIndex`). Assets are never removed and pointers never go back
(`Bystanders`), so a step disturbs these only for its own execution; an index
write finds the snapshot it was built from (`IndexWrite`, `HeartbeatWrite`), so
every entry but its own is one the invariant already covers. `HeartbeatsChecked` keeps
that a heartbeat past its comparison has a snapshot that matches what it observed, and
`VerdictInv` that a reassessment has a health to conclude with. All of this holds with any
number of lost sessions. As long as none was lost, `SessionInv` says that an execution at work is alone
with its incident and finds the state as it left it (`SessionsOK`, `Undisturbed`), that a
committed publication was current (`CommittedWasCurrent`), and that `current.json` and the
index entry differ only while a publication is under way or after one that lost its
index write (`FeedInStep`); the two notification properties follow. Losses are only counted up (`LossesGrow`), so a
state without one was reached without one; the condition is needed (section 3). `TypeInv` is for the
types alone, again with any number of lost sessions: a hint whose deliveries are used up
is settled (`QueueOK`), a session has one holder, whose hint is not settled, and what an
execution holds fits where it is (`HoldsOK`, `BeatOK`); so neither the delivery count nor
the three attempts of a heartbeat are exceeded. Assumptions: `ExecutionAssumption` (workers and heartbeats are different
executions), `RequestAssumption`, `AbsenceAssumption`, `DeliveryCountAssumption`.

`ContextLifecycleProofs`. `LineageLinear` is not inductive,
because it does not say that the only active version has no successor that was
superseded in turn. The invariant `Good` adds that the newest published version is
active (`NewestActive`), that only published versions are superseded, that the
draft behind an active version is still in the state published (`ActiveSource`),
and what an approved draft rests on (`ApprovedReviewed`). There is one lemma per
mutation; the five that move a draft no further than review share `WorkStep`.
Assumptions: `VersionAssumption`, `NullAssumption` (the absent draft and the absent
publication are no records) and `ManifestAssumption`.

`ContextStoreProofs`. The state row carries the generation and the anchor, so pages read
at different times verify only if all are of the state row's commit. Hence the invariant
`ReplicasOK`: what a replica holds is the partition as some commit left it, and if its
generation is the table's, it is the table (`Earlier`). The generation grows with every
commit, so a batch that applies was computed from the very rows it changes.
`PartitionOK` keeps that rows which one commit left are verified, their audit chain
accounts for the drafts, and every receipt of a mutation has its event in it
(`ReceiptsAudited`); `CommandsOK` what a client can know when it sends a command; receipts
and audit chains are only extended, so an answer stays true. The refinement has a step for
each mutation: a committed batch is one step of ContextLifecycle and everything else
stutters. The theorems of ContextLifecycleProofs hold of the store by instantiation with
this refinement mapping; there is no separate statement of them, because tlapm does not
use theorems reached through a named instance. Assumptions: `StoreAssumption` and those of
ContextLifecycle.

`ChangeIngestionProofs`. Blobs are create-only, so the artifact that an execution
recovered or created is the only version there will be (`PinIsArtifact`, `BlobsOK`), and
was compared with or made from a fresh and complete normalization (`ItemsNormal`). What a
worker has still to persist and the handoffs there are together cover its message
(`ItemsCover`), so completing it accounts for every record. `RejectedBatchesWhole` needs
that a record found persisted came from the same message, hence the hypothesis
`DistinctBatches`; Event Grid may deliver one event in two messages, and then the other
message explains what is found. Assumptions: `IngestionAssumption`, `SourcesAssumption` (an
event is not a Resource Graph row: the deduplication key includes the source system),
`VersionsAssumption`.

`EnrichmentFeedProofs`. The v1 indexes in use anywhere (the current one, those executions
hold, the one feed v2 is bound to) are versions of one document: ordered by time, and a
later one shows no older occurrence (`SourcesOK`). A candidate shows exactly the entries of
its source (`Mirror`), and may be committed only after its source was seen to be current,
so it cannot be bound to an older index than the head it replaces (`Later`). A producer
that may notify has found a head that is bound to an index from which on no older
occurrence is shown (`Since`). A consequence of the invariant is that every row of the
registry is of an active occurrence (`Known`, `Mirror`): the reason behind finding 3.
The types need `DeliveryOK`: a trigger is queued once, and one that waits, behind another
or in a session nobody holds, has a delivery left. An execution keeps its trigger and its
lock until it settles or loses them (`Keeps`), so only then a session becomes free.
Assumptions: `FeedAssumption` (an incident listed at first has an occurrence; a trigger may
be delivered at least once) and `NoneAssumption`.

`CohortDecisionsProofs`. A rejection is permanent because every decision is arbitrated
against all decisions of the workload. Traceability needs that baselines too hold only
what the first manifest or a decision declares (`Origin`), that the latest published
version is the active one (`ActiveOK`), and that the draft that seeds a baseline while it
is unpublished was touched by no decision, so that what a new draft inherits stems from
its lineage (`TraceOK`).

`DraftsStayValid` needs `ValidInv`: a draft stems from a published version before its own
or from an earlier draft with the same provenance, or else is of the lowest version
(`Roots`); a version is published once (`UniquePublished`); and the baseline and the
decisions of its lineage account for the selectors of a published draft, of the first
draft of a version and of one with an inferred predecessor (`Measured`, `ValidOK`). The bindings of a lineage are a recursive function of the
version. That it is what a walk along the lineage collects (`LineageWalk`), and that a step
takes nothing from it, is shown by least counterexample, which the provers can do without
an induction theorem.

`DecisionsAddUp` needs `AddUpInv`: the selectors of a proposal or a preview select exactly
the resources they are for, of those the batch saw (`Shapes`); a revision of a draft is
made by one decision (`AppliedOnce`); while only the batch changes its draft, the roles
that it has not decided are as it found them (`BatchTraces`); and what the last decision
for a role left is in the draft and partitions what the decisions before it, back to a
replacement, cover (`Sums`). Selector minimisation picks a smallest set of atoms, so roles
and members have to be finite.

Assumptions: `RoleAssumption`, `MemberAssumption` (both with finiteness), `BoundAssumption`.

Only model-checked:

- `EventuallySettled` and `MessagesLeave`: liveness under fairness is out of the prover's
  reach. The expected violations are counterexamples and need no proof.

## 6. Plan

1. `IncidentPipeline`: detector and orchestrator composed, with health that
   settles; whether the index eventually shows the settled health. A hint
   consumed while health is momentarily good may leave nothing to report it.
2. `MonitoringCollection` and `OperationalPhases`: their transaction and chain.
3. Pruning and capacity of the feed registry; profiles with descendants in
   CohortDecisions.

## 7. Not modelled

Parsing and validation of documents, signatures, ARM and metric responses
(abstracted to their verdict), the manifest, policy and correlation engines
(pure functions of one document; the `contracts/` package, by far the largest, is
their data types), user interfaces, infrastructure other than the queue and job
settings the models use. What a modelled component leaves out is said in section 2. The remaining components of section 1 are
planned; `PROJECT.json` gives each its status and reason.
