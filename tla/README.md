# Verification of the rank-and-rent engine

TLA+ models of `src/rank_rent`: the workers, endpoints and stores that run
concurrently, fail and recover, and the computation that turns provider answers
into a score. TLC checks them on small instances; TLAPS proves the safety
properties of the eight concurrent components, and that the public data store
implements its abstract catalog, for every instance. Paths below are relative to
`src/rank_rent/` unless they start with `docs/`, `tests/` or `scripts/`.

## 1. The system

The engine scores local-service markets ("opportunities") with paid search data,
lets reviewers decide on them, builds lead-generation sites for the accepted
ones and routes the leads to local providers. FastAPI processes, scan worker
processes and lead delivery worker processes share one PostgreSQL or SQLite
database. There is no message queue: **tables are the queues**, and row leases
(`worker_id`, `lease_token`, `lease_expires_at`), unique indexes and one advisory
lock are the only mutual exclusion.

| Component | State it keeps | Operations | What is hard | What makes it correct |
|---|---|---|---|---|
| Scan worker (`services/scan_worker.py`, `scan_leases.py`) | `scan_runs`: status, source, retry count, backoff, lease, cancel flag | claim, heartbeat, recover, run, retry or quarantine, cancel | stalled workers that come back, crashes between commits, recovery racing the final transaction | one owner, bounded attempts, no lost scan, fenced old workers |
| Scan pipeline (`services/scanner.py`) | stage, result, the opportunity's state and score | seven stages with lease checks, complete, fail, cancel | long-lived session with stale copies; failure handlers that commit unconditionally; evidence classified twice | only the owner advances; a cancelled scan stays cancelled; only sound full assessments rank |
| Scan API (`main.py`) | the same rows | queue, synchronous scan, cancel, retry, promote, rescore, shortlist | read without lock, write by primary key | synchronous scans never reach the worker |
| Opportunity review (`opportunity_review/`) | opportunity state, owner, version, overrides, batches | transitions, overrides, batches, promotion | every check is an unlocked read | approvals rest on complete evidence, batches on their bound |
| Audit log (`security/audit.py`) | hash chain of events | append | two transactions reading one head | transactions linked one after the other |
| Property workflow (`property_workflow/`) | property versions, domains, assets, configurations, builds, deployments | create to production and back | adapters write files between the gates and the commit | the reviewed build is the released one; one line of releases |
| Lead intake and assignments (`lead_routing/services.py`) | leads, consents, jobs, provider assignments, analytics events | submit, transition, replace, record | de-duplication without a lock, retries of forms and events | one lead per key, stored whole, alerted; one active provider |
| Lead delivery (`lead_routing/worker.py`) | `provider_deliveries`, `routing_attempts` | claim, heartbeat, recover, deliver, retry, fail, alert | provider call of unknown outcome; siblings updated concurrently | one sender, no blind resend, bounded attempts |
| Privacy (`lead_routing/privacy.py`) | erasure of leads, jobs, identities | export, anonymize, retention | erasure between a worker's read and commit | erased data is not sent again |
| Cost controls (`services/cost_controls.py`) | `provider_daily_usage` buckets, `api_calls` | reserve, submit, settle, reconcile, resolve, breakers | crash between network and settlement; late answers | money within the limit, no paid request sent twice, ledger = rows |
| Planning (`planning.py`) | the planned requests of a scan | plan, admit | cached answers that expire before they are used | calls and money stay within the plan |
| DataForSEO client (`integrations/dataforseo/`) | none of its own | `_request`: cache, reserve, send, settle; conversion of payloads | which exceptions are ambiguous | an ambiguous call is unknown, not retried |
| Response cache, blobs, replay (`services/cache.py`, `storage/blobs.py`, `replay.py`) | `raw_api_responses`, one pointer per key, objects | lookup, set, replay, export | object, row and pointer written in steps; order of ids against order of commits | what is served was answered; a row has its object and a pointer |
| Public data store (`public_data/store.py`) | registry file, lock directory, release directories | stage, activate, roll back, snapshot | stale lock broken by two processes, crash between rename and registration | releases immutable, registry consistent |
| Prefilter (`services/market_prefilter.py`) | none | assess a market, shortlist | releases that change while it reads | evidence names the release it came from |
| Scoring, evidence gate, demand, SERP, competitors, providers (`scoring/`, `services/`) | none | computation over the answers | clamps, shares, missing groups, caps | the trace adds up; missing evidence never pays |
| Outcomes (`outcomes/`), calibration, reports, qualification | inserted records | record, report | - | - |
| Security filters, observability, CLI, site generator, seeds | counters, logs, files | thin | - | - |

How they interact: the API inserts `scan_runs`; a worker slot claims one and runs
the pipeline, which assesses the market from public data, plans its calls, and
calls the DataForSEO client, which looks in the response cache, reserves money,
sends and settles under the scan's lease; the pipeline scores the answers and
moves the opportunity through the review table, beside reviewers. An approved
opportunity becomes a property. Leads enter through the API, their jobs are
claimed by delivery slots, which call adapters and update the lead from all its
jobs. Erasure and operators write the same rows at any time.

**Sessions decide what is a step.** `db/base.py` creates sessions with
`expire_on_commit=False`, and SQLAlchemy writes the changed columns of an object
by primary key. So a transaction that only does a conditional `UPDATE`, or reads
under `FOR UPDATE`, is one step in the models; one that reads without a lock and
writes later is two, with what it read kept in between; and an object loaded
earlier in a session keeps its old values (`session.get(..., with_for_update=True)`
locks the row but does not refresh an object that is already loaded). A
long-lived copy is modelled as such where decisions are taken on it: `oppSeen` in
`ScanExecution`, `copy` in `ProviderSpend`.

## 2. The modules

| Module | Models | Composition |
|---|---|---|
| `OpportunityStates` | the review states and the transition table | extended by the three below |
| `ScanExecution` | scan worker, pipeline control, scan API | `MCScanExecution`, `ScanExecutionProofs` |
| `OpportunityReview` | review service, audit chain, promotion, batches, rescoring, with the pipeline's transitions | `MCOpportunityReview`, `OpportunityReviewProofs` |
| `PropertyWorkflow` | property workflow with its providers and the opportunity it started from | `MCPropertyWorkflow`, `PropertyAndStoreProofs` |
| `LeadDelivery` | delivery worker, assignment changes, erasure | `MCLeadDelivery`, `LeadDeliveryProofs` |
| `LeadIntake` | submission, assignments, analytics, erasure | `MCLeadIntake`, `LeadIntakeProofs` |
| `ProviderSpend` | `api_calls`, the daily bucket, the client's call protocol, reconciliation | `MCProviderSpend`, `ProviderSpendProofs` |
| `ResponseCache` | rows, pointers, objects; live lookups, replay, bundles | `MCResponseCache`, `ProviderSpendProofs` |
| `PublicDataStore` | registry, lock, releases, with crashes | implements `ReleaseCatalog`; `MCPublicDataStore`, `PropertyAndStoreProofs` |
| `ReleaseCatalog` | what the store promises its readers (abstract) | instantiated by `PublicDataStore` |
| `ScoringRules` | score, evidence gate, demand, confidence: pure operators | extended by `ScanPlanning` |
| `ScanPlanning` | planned calls, cost, admission: pure operators | extended by `MarketPrefilter` |
| `MarketPrefilter` | assessment of a market, shortlist: pure operators | extended by `MarketAssessment` |
| `MarketAssessment` | a scan from public data to the published score, with changing releases and every answer of the provider | `MCMarketAssessment`, `MarketAssessmentProofs`, `WithheldEvidenceProofs` |
| `*Proofs` | theorems about the modules above (section 6) | extend them and `TLAPS` |
| `MC*` | instances for TLC | the `.cfg` files |

Operators named `Mut...` are mutated forms of the definition that follows them;
nothing in a specification uses them. They are the plausible bugs each property
was tested against (section 4).

### ScanExecution

A scan is a row: `status`, `source` (worker or web request), `cancelRequested`,
`retryCount`, `due` (the backoff has elapsed), `leaseToken`, `leaseExpired`,
`stage`, `sourceScan` (of a retry). Clocks are abstracted to the two Booleans,
which the environment flips exactly where the code compares with the clock. A
process is a worker slot or a synchronous handler, with the label of what it does
next and its locals. Lease tokens are `uuid4` in the code and a per-scan supply
here.

| Action | Code |
|---|---|
| `QueueScan`, `SyncScan` | `api_scan` |
| `LoadCancel`, `CommitCancel` | `api_cancel_scan`: unlocked read, then a write by primary key |
| `LoadRetry`, `CommitRetry` | `api_retry_scan`, `_queue_scan` |
| `HumanTransition` | `OpportunityReviewService.transition` |
| `Recover` | `recover_stale_scans`, one row |
| `CancelQueued`, `Claim` | `claim_next_scan` |
| `StartRun`, `FailWithoutRetry` | `run_scan_by_id`, `_fail_without_retry` |
| `Heartbeat`, `HeartbeatLost` | `_heartbeat_scan` |
| `SetupPipeline`, `SetupFails` | `_prepare_scan_run`, the start of `ScanPipeline.run`, before its `try` block |
| `EnterStage`, `NoticeCancel`, `LeaseLost` | `_set_stage`, `_ensure_not_cancelled`, `_ensure_lease` |
| `FinishPipeline` | the completion transaction with its lease check |
| `CommitCancelled`, `PipelineFails`, `PipelineFailsUnrecorded` | the exception handlers |
| `LoadFinal`, `CommitFinal` | the last transaction of `run_scan_by_id`, decided on an unlocked read |
| `LeaseExpires`, `BackoffElapses`, `Crash` | the environment |

What a stage computes is one Boolean, whether the evidence gate passed. Errors are
retryable or fatal (`is_retryable_error`).

### LeadDelivery

One property with its assignments; a delivery is a (lead, channel) pair.
`attemptLog` is `routing_attempts` with its unique attempt number: a duplicate
makes the commit fail. The two transactions of `run_delivery_by_id` and the
erasure are split at their unlocked reads (`LoadStart`/`CommitStart`,
`LoadFinish`/`CommitFinish`, `LoadErase`/`CommitErase`); `plan` is what a slot
has decided. Recovery is split too (`LoadRecover`/`CommitRecover`): it holds the row
lock of its job until it commits, so others' writes of that row wait (`Locked`), but
it reads the sibling jobs and the lead without one. `Refreshed` is
`_refresh_lead_state`, `Alert` the operator alert sent after the last commit. Adapter
answers are accepted, transient or rejected. History: `overtaken` are the slots that
have decided on a lead whose jobs or status another slot's commit has changed since;
`misjudged` the leads whose status was last written by such a slot, or of which a slot
reopened a settled job.

### ProviderSpend

One row of `api_calls` per planned request, with the columns the decisions
depend on (`status`, `attempt_state`, `reservation_state`, whether the network
was started), and the day's bucket (`spend`, `reserved`, `unreconciled`). A call is
estimated at one unit, so an exposure is a number of calls. `Write`
is SQLAlchemy's flush: columns that differ from the worker's own copy are written.
`Reserve`, `Submit`, `CheckBeforeSend`, `Send`, `CheckAnswer` and `Complete` are the
steps of `_request`: the two lease checks around the awaited request take no lock, so a
lease may be lost after each of them. `ReserveRefused` and `SubmitRefused` are its
failures before the network, `Rejected` an answer that is refused, `StoreFails` a
payload in hand that cannot be stored (settled at what it cost), `Ambiguous` an outcome
nobody knows; `RecoverScan` and `ReconcileAged` are the two uses of
`reconcile_stale_api_call_attempts`; `Resolve` is the operator. The rest is history:
`sends` and `billable` are what was put on the network and what of it may have cost
money, `lost` the paid answers that could not be stored, `trampled` the calls where a
worker without a lease put its refusal over the row of a submitted attempt.

The early return of `finish_provider_call` (already settled) looks at the
worker's own copy, which is always still `reserved` there, so it never fires and
has no counterpart. That is the root of the double settlement in section 5.

### OpportunityReview

A mutation of the review service is three steps: `Load` reads, checks and keeps the
writes it wants; `Enter` takes the advisory lock of the audit log and reads the
head of the chain; `Commit` writes the plan and the event. Nothing locks the
opportunity, so plans may be out of date when written, except where a unique
constraint refuses them (`ReversalTaken`). The pipeline (`ScanStep`) works on the
copy of the opportunity its session loaded. Reviewer identity, notes and tags are
left out; evidence is complete, partial or failed. A synchronous scan audits in a
transaction of its own after the pipeline has committed, with a second event when
the cost was confirmed.

Scans come from four places. `LoadQueueBatch` and `LoadPromote` are reviews, which look
for another active scan; their scans are `reviewed`. `LoadScan` (`api_scan` with
`async_run`) and `LoadRetry` (`api_retry_scan`) queue one through `_queue_scan` without
looking, and commit it (`CommitDirect`) before their audit events; `SyncScan` runs one in
the handler. A scan that fails is committed as `failed` (`FailScan`), and in a later
transaction of its worker it stays so, is queued again or is quarantined (`EndFailed`);
`revived` notes that it was queued again when another scan of the opportunity was active
or about to be queued. A lost scan is recovered by its lease (`LoseScan`), and so is one
whose first transition the table refuses, which happens before the pipeline's failure
handler is there (`RefuseScan`). The check of `api_retry_scan` for an active retry of the
same scan is left out here: it is read without a lock, and `ScanExecution` has it.

Requests overlap freely (`NewRequest` needs only a handler that is free). `contested`
is history: the opportunities and batches about which a request was loaded, or a
synchronous scan begun, while another request or synchronous scan was under way about
them. The workers' scans do not contest anything: what a stale pipeline copy can do is
part of every property.

### PropertyWorkflow

One property. Endpoints whose reads and writes a concurrent request can tear apart
are `Load` and `Commit` steps of a worker thread. `deploy` and `rollback` are four:
gates (`StartDeploy`, `StartRollback`), adapter and reads (`Publish`), provider file
(`WriteFile`), commit. They are `async` handlers that never suspend
in the local adapter, so a process has one in flight. Activating or replacing a provider
reads the assignments (`LoadActivate`, `LoadReplace`), flushes their new statuses, which
takes their row locks and the entry of the partial unique index, and selects the
deployed sites (`FlushChange`), rewrites their files one by one (`RewriteFile`), and
commits (`CommitChange`) or fails with the files as they are (`FailChange`). A build is
its (configuration, environment, domain); `shown` is the provider file of a deployed
build. `crossing` and `suspect` are history: requests that ran beside one another
between their reads and their commits, and builds whose provider file is on its way or
was last written by a request that crossed another one or failed.
The deployment's change of `properties.status` has no version of its own in the
code, and the snapshot is compared without it.

### LeadIntake

A form is its idempotency key, its contact and whether the spam rules block it.
`Submission` goes through replay, rate limit, duplicate check, insert and commit;
the unique key of (property, idempotency key) and the partial index of active
assignments decide between concurrent commits. `WindowPasses` ends the
de-duplication window of a lead, `LimiterForgets` the rate window. `overlapped` and
`forgotten` are history: contacts whose submissions passed the duplicate check
together, and events whose lead was erased.

### ResponseCache

`CacheHit`, `StartCall`, `Answer`, `CallFails` and the steps of `Storing` (put the
object, insert the row, move the pointer, commit) are the life of a request;
`ReplayFromDatabase`, `Export` and `ReplayFromBundle` the readers (a bundle is a set
of row ids, replayed in the order of the ids); `Expires` the
clock; `Harm` damages or removes an object from outside. The two blob backends
differ in what `put` does when the object exists.

### PublicDataStore and ReleaseCatalog

A process makes the lock directory, writes its owner file, reads the registry,
installs (renames) a release, writes the registry and removes the lock; it may die
at each step. `Examine` looks at a lock that has aged, `Break` renames it away later,
whatever is there by then. `usurped` is history: a live process lost its lock in one
of the ways the code leaves open (age and another host, an owner file not yet
written, the gap between look and rename). `ReleaseCatalog` is the promise: install
once, register, activate something registered; after `Break` an older registry may
come back. The mapping is `installed <- dirs`, `registered` and `active` from the
registry file, `broken <- usurped`.

### ScoringRules, ScanPlanning, MarketPrefilter, MarketAssessment

`Score` takes the evidence of a scan to components, steps, penalties, caps and
confidence; `Quality` is the evidence gate, `Demand` the estimate. Numbers are
fixed-point integers: shares in units of 1/10000, trace steps in 1/10000 of a
point, scores in hundredths, so a result may differ from the program's floats by
one hundredth. `log1p` is an integer logarithm table, `SequenceMatcher` the relation
`CloseText`, the haversine distance a given number of kilometres.

`MarketAssessment` runs these over time: `ReadManifest`, `ReadRecords` and
`ReadCounty` are the separate reads of `PublicDataStore.snapshot`, with `Activate`
changing releases between them; `AssessMarket` and `ListMarkets` the prefilter and
the shortlist; `PlanScan` the admission of a plan; `DiscoverKeywords` to
`FetchProviders` the stages, each with one of the provider's answers after the live
client's conversions; then classification, scoring and publication. `made` and
`spent` count calls by endpoint and their cost. The client's refusal of a call that was
not planned (`integrations/dataforseo/live.py:956`) is not a guard of the model:
`PlanCoversCalls` is what shows that it is not needed.

## 3. The runs

Passing runs:

| Run | Instance | Properties |
|---|---|---|
| `ScanSafety` | 2 scans of one opportunity, 2 slots, a synchronous handler, a cancel or retry request, 2 attempts, stalls and crashes | `LeaseExclusive`, `AttemptsBounded`, `OldWorkerCannotAdvance`, `CancelledNeverRunsAgain` |
| `ScanLive` | one well-formed and one malformed scan, 2 fair slots, all faults, a reviewer | `EveryScanSettles` |
| `DeliverySafety` | a lead with 1 or 2 jobs, 2 slots, a crash, stalls past the lease, erasure, provider changes; 2.1 million states | `OneSender`, `AttemptsCounted`, `LeadReflectsDeliveries`, `UnknownNeverResent`, `ErasedNeverRetried` |
| `DeliveryLive` | 2 channels, 1 fair slot, late heartbeats, a crash, erasure | `EveryDeliverySettles` |
| `SpendSafety` | 2 scans with a call each, claimed up to 3 times and once, 2 workers, budget for two calls, crashes, stalls, slow answers, answers that cannot be stored; 1.5 million states | `SpendWithinLimit`, `LedgerMatchesRows`, `CompletedNeverResent` |
| `PropertySafety` | 1 property, 1 domain, production, 2 threads, 2 providers, 3 versions, 3 deployments, provider changes beside each other and beside a deployment, failures between files and commit | `ReleasedWasReviewed`, `OneReleaseLine`, `HistoryComplete`, `ShowsActiveProvider` |
| `ReviewSafety` | 1 opportunity, 2 requests that may overlap, a batch, 2 scans, 5 versions, 2 overrides, 3 audit events; 2.4 million states | `AuditLinear`, `ApprovedIsComplete`, `BatchWithinBound`, `OneActiveScan` |
| `StoreSafety` | 2 processes, 2 versions, 2 contents; 593 021 states | `LockExcludes`, `ReportedStaysRegistered`, `RegistryConsistent`, `ImplementsCatalog` |
| `CacheSafety` | 2 processes, 2 keys, 3 rows, both backends | `ServedIsAnswer`, `RowsReadable`, `BundleAgrees`, `RequestsEnd` |
| `IntakeSafety` | any 3 operations of 2 processes, twin forms, 2 providers at any stage, an analytics event | `RetriesHaveOneEffect`, `DuplicatesOnlyByOverlap`, `StoredWhole` |
| `ScoringSafety` | scans and shortlists of five setups, every combination of a few provider answers from complete to empty and stale, releases that change; 96 551 states | `TraceReconciles`, `StaleArchetypeHarmless`, `WithheldNeverOutranks`, `ConfidenceHonest`, `PlanCoversCalls`, `EvidenceTraceable`, `RankedIsSound` |

Each safety run also checks its module's `TypeOK`, as the first conjunct of the
invariant that relates most of the state (`AttemptsCounted`, `LedgerMatchesRows`,
`HistoryComplete`, `BatchWithinBound`, `RegistryConsistent`, `RowsReadable`,
`StoredWhole`, `TraceReconciles`); for `ScanExecution` it is proved, with
`QueuedHoldsNoLease` and `SynchronousStaysManual` (section 6). The comment above each
property says what it means and where the code relies on it.

One run finds a violation, a disagreement between the code and its documents:

| Run | Shows |
|---|---|
| `ScanCompletes` | With no fault at all a queued scan never completes. The pipeline sets and flushes `completed`, and the final lease check reads that status back in the same transaction, does not find `running`, and raises `ScanLeaseLost`. |

**Exceptions in properties.** Some guarantees hold only while nothing overtakes a live
process, and the code leaves that possible. The properties say so with a history variable
that is set by exactly that event and nothing else: `stalled` in `LeadDelivery` (a working
slot's lease ran out under it), `misjudged` in the same module (a lead's status was
written by a decision others had overtaken), `overtaken` in `ProviderSpend` (recovery
touched a call whose worker is still at it), `lost` and `trampled` in the same module
(above), `usurped` in `PublicDataStore`, `overlapped` in `ResponseCache` and `LeadIntake`,
`suspect` in `PropertyWorkflow` (files on their way, or left by requests that failed or
crossed), `contested` and `revived` in `OpportunityReview`, `torn` in `MarketAssessment`.
Section 5 says what goes wrong then.

**Bounds, and why they are enough.** Two slots, requests or processes are what a
race on a row needs: an old owner and a new one. Two attempts let a scan be retried
and then quarantined. Two stages distinguish "before" and "after" a stage commit
(the code has seven that differ only in what they compute). Two channels are what the
sibling race needs. Three deployments are a release, its successor and the rollback
that displaces it; two scans of an opportunity are an older one and the one that
follows or competes with it; three rows make an id order that differs from the commit order with a
third to refresh. `MaxClaims`, `MaxCrashes`, `MaxLeases`, `MaxSends`, `MaxVersions`,
`MaxEvents`, `MaxOps` and the like cap counters the code leaves unbounded; in
`DeliveryLive` `MaxClaims` is never reached, so it does not cut a fair behaviour
short. In `SpendSafety` the limit covers two requests and the two planned requests may
be sent twice each, so an overspend by one shows; one scan has three leases, because a
request that is sent after its answer was stored takes a refused, a completed and a
stalled attempt. `View` leaves out of a state what an idle worker will not read again. Three
instances bound their states with a constraint `Focus`, which says what is explored
together: in `MCLeadDelivery` a lead with one job meets everything, one with two (for
the sibling race) no erasure and no change of provider but a pause; in
`MCPropertyWorkflow` two edits or reviews at once, one of them beside a deployment, and
two provider changes beside a deployment once edits and reviews are done; in
`MCOpportunityReview` overrides apart from scans and batches, and, once the opportunity
is contested or a failed scan revived, only the scans of batches. The proofs have no such
bound. In `ScoringSafety` the answers are chosen so that each
boundary has an instance on both sides: ranked and not, confidence insufficient to
medium, plan admitted and refused, markets scored and unscored, reads torn and whole.

Deadlock checking is off everywhere: a system with all scans terminal, all jobs
ended and no visitor is at rest, and a scan's assessment ends.

**Fairness** (`ScanLive`, `ScanCompletes`, `DeliveryLive`, `CacheSafety`). Weak
fairness of each slot's next step: `scan_worker_loop` and `lead_delivery_worker_loop`
run until shutdown, and a process that died is restarted by its supervisor (a slot is
idle again after `Crash`). Weak fairness of backoff elapsing and of the expiry of a
lease nobody attends to: these are clocks. In `ResponseCache` weak fairness of a
request that has its answer, and of the end of a provider call, which the client's
timeout guarantees. There is no fairness for stalls, crashes, errors, requests or
reviewers. In ScanExecution every recovered attempt is counted, so liveness survives
unbounded stalls; in LeadDelivery recovery of a merely leased job counts nothing, so a
worker that stalls before every call with a second slot to recover it would re-queue
the job for ever. `EveryDeliverySettles` is therefore claimed for one slot only.

**Refinement.** `ImplementsCatalog` is `ReleaseCatalog!Spec` under the mapping in
`PublicDataStore`: every step of the store is a step of the catalog or leaves it
unchanged. It is checked by `StoreSafety` and proved by `CatalogRefinement`.

## 4. What each property was tested against

Each property of each passing run has a mutant in `PROJECT.json`: a definition of
the model replaced by a plausible bug (the lease check ignores the token, recovery
selects any source, the budget ignores unknown outcomes, a rollback displaces its
target, the audit head is read without the lock, staging deactivates, a
commit never creates a pointer, a lock is removed by age alone, the confidence cap ignores that
demand is an estimate), under which TLC reports the property violated with the run's
own configuration.

## 5. Observed in the models, without a run

These were met while modelling. The model contains each of them, so the runs above
hold in their presence; the documents they contradict are quoted.

- A worker whose lease was taken over still writes `failed` by primary key in the
  failure handler (`services/scanner.py:480`); `docs/workstream_d_operations.md`
  says every stage transition is conditioned on the lease. Stage writes are: see
  `OldWorkerCannotAdvance`.
- A plan blocked by policy is raised before the `try` block (`services/scanner.py:149`),
  and so is a first transition the table refuses (`:156`): the row stays `running` and is
  retried by stale recovery; the same document says policy failures do not retry.
- The failure handler transitions the opportunity from the copy its session loaded
  at the start (`services/scanner.py:487`), which can bring back an archived one;
  `docs/opportunity_review.md`: "Archival is terminal."
- Two retry requests both find no active retry (`main.py:1664`).
- With stalled delivery workers two slots can call the provider for the same job,
  and a job recorded as `outcome_unknown` can still be sent by a slot that had
  already read it (`lead_routing/worker.py:250`, `:606`).
- With two stalls a lease-lost handler writes `failed_before_network` over the
  row of the new owner (`integrations/dataforseo/live.py:686`), after which the
  planned request can be sent again while its first outcome is unknown. A third
  lease may then complete it, and the second worker, whose lease check is behind it,
  still sends: what `trampled` excepts in `CompletedNeverResent`. Without the
  exception TLC finds this in twenty steps.
- A payload that is in hand and cannot be stored (the blob store refuses it, say) is
  settled at its cost, and the row becomes `failed`, which `_planned_call` lets be used
  again (`integrations/dataforseo/live.py:686`, `:704`, `:882`): the next attempt of the
  scan sends and pays the same planned request again. `docs/workstream_d_operations.md:125`
  says of attempts that may have reached the provider that they "permanently consume the
  planned request. They are never resent automatically." `SpendWithinLimit` shows that
  the daily limit holds all the same, and that nothing else is paid for twice (`lost`).
- A waiting process can take the registry lock from a live local process in two ways
  (`public_data/store.py:442`-`:464`): the owner has made the lock directory and not yet
  written its owner file (the lock then counts as nobody's once it is old enough), or the
  stale lock the waiting process looked at was removed and another process holds a new
  one when it is renamed. `docs/public_data.md:88`: "A live local process's lock is not
  stolen; an abandoned lock can be recovered after the stale threshold. Concurrent stages
  and activations therefore preserve all versions and activation history." After that,
  or after a lock held on another host was taken by age, two processes are under the
  lock and a registration can be lost (`usurped` in `LockExcludes` and
  `ReportedStaysRegistered`). Release directories and the consistency of the registry
  survive it (`RegistryConsistent`, `ImplementsCatalog`).
- Two slots that fail the two channels of a lead concurrently each see the other still
  open (`lead_routing/worker.py:520`): the lead stays `routing` and nobody is alerted.
  `docs/lead_routing.md:38`: "After every channel is exhausted,
  `OperatorAlertAdapter.routing_failure()` receives only property, lead, and reason
  identifiers." No stall or crash is needed, only two slots. Recovery locks the job it
  recovers and reads the siblings in the same way (`:168`). A slot that lost its lease
  after reading its job may also write `delivering` over a job that was settled meanwhile
  (`:223`), without a refresh of the lead. Both are what `misjudged` excepts in
  `LeadReflectsDeliveries`; a later refresh that nothing overtakes puts the lead right,
  but after the race of the last two channels there is none.
- A slot that read its job before an erasure writes `delivering` over the cancelled
  row (`lead_routing/worker.py:225`). `docs/data_retention.md:18` says anonymization
  cancels such jobs and "prevents later retries from sending deleted lead data":
  retries are prevented (`ErasedNeverRetried`), the send in flight is not.
- A healthy request slower than the recovery cutoff (30 s; HTTP timeout 45 s) is
  reconciled as unknown and then settled again by its own worker
  (`services/cost_controls.py:206`, `:166`): the row is `completed`, its estimate
  remains unreconciled and cannot be resolved. `docs/workstream_d_operations.md:129`:
  unknown outcomes count "until an operator reconciles the call".
- Two reviewers with the same expected version both pass `_check_version`
  (`opportunity_review/services.py:1220`): the row is not locked and the version is
  not a condition of the update. Two active overrides of one field arise the same way
  (`:330`). So do an approval committed while a synchronous scan or a rescoring takes
  the completeness away that it was granted on, a batch queued twice, and two scans of
  one opportunity for the workers: what `contested` excepts in `OpportunityReview`.
- The failure of a scan is committed (`services/scanner.py:498`) before its worker
  queues it again in another transaction (`services/scan_worker.py:356`). In between no
  scan of the opportunity is active, so a batch or a promotion may queue one, and then
  the failed one comes back beside it: what `revived` excepts in `OneActiveScan`.
- `api_scan` (`main.py:1839`) and `api_retry_scan` (`main.py:1677`) queue a scan of an
  opportunity, and a handler runs one itself (`main.py:1880`), without looking for
  another active one. `OneActiveScan` holds batches and promotions, which do look
  (`opportunity_review/services.py:674`, `main.py:1262`), to it, and counts those scans
  as active.
- A scan whose cost is confirmed writes two audit events in one transaction
  (`main.py:1905`, `:1918`). The sessions do not flush by themselves
  (`db/base.py:75`), so both are linked to the same predecessor: the chain forks
  there, and `AuditLinear` names this one exception. The test of the chain,
  `tests/unit/test_production_readiness.py:189`
  (`second.previous_hash == first.event_hash`), commits between the two.
- Rescoring reads the evidence stored last and records the new score for the scan
  with the highest id (`main.py:1079`), which may be another, unfinished one.
- Two processes that deploy to one environment at the same time both displace the row
  that was newest when they read it (`property_workflow/services.py:712`), so two rows
  stay deployed; within one process the handlers do not interleave.
- Provider files are written before the commit of the request
  (`property_workflow/services.py:990` and `:737`, `property_workflow/api.py:54`). A
  provider change whose commit, or a later one of its writes, fails leaves sites that show
  a provider that is not active. A deployment of a build already deployed removes its
  provider file with the destination (`property_workflow/adapters.py:75`) and, when it
  dies before it has written the new one, leaves the live site without. A provider change
  and a deployment that cross, or two changes one of which shows its active provider
  again, leave the file of whichever wrote last. A later change or deployment repairs the
  file. `docs/adr/0007-property-provider-boundary.md:22` calls provider replacement "a
  routing/presentation configuration operation"; these are the cases in which the two
  parts differ, what `suspect` excepts in `ShowsActiveProvider`.
- Two configuration approvals that overlap leave two approved configurations
  (`property_workflow/services.py:559`); rollback does not pass the production gates
  again (`:747`).
- `configure_call_routing` awaits its adapter between reading the active assignment and
  writing the profile (`lead_routing/services.py:219`): the route may stay at a
  replaced provider. A transition decided on an unlocked read can bring a terminated
  assignment back (`:152`).
- A form retried after its lead was erased creates the lead again, since the key is
  erased too; a late analytics event of an erased lead is counted again.
- The pointer of a cache key moves backwards when two refreshes commit out of order,
  and a collision on its first insert loses a paid answer (`services/cache.py:321`,
  `:326`). `load_response_bundle` does not check that responses are sanitized.
- A missing CPC can raise a score, because the component is then taken at its
  neutral value; `docs/scoring_v2.md:21` speaks of penalties for missing evidence.
- `missing_data_flags` is overwritten by a scan that does not rank
  (`services/scanner.py:325`), so a ranked score can carry the flags of another scan.
- Derived signals of the prefilter (home ownership, housing age, household density)
  keep the embedded value when a release replaces their parts, and the embedded
  provenance when they are computed from one (`services/market_prefilter.py:621`); a
  missing NES or CBP dataset lowers the combined density and may move it into the
  ideal band.
- `additional_calls_required_for_full_scan` says 7 (`services/scanner.py:790`); the
  plans of the two profiles differ by 9 calls with the default settings.
- With national volumes, which are all the live client asks for, no scan reaches high
  confidence (`ConfidenceHonest`).

## 6. What is proved

Eight modules hold proofs. Each theorem is about the specification TLC checks, with
nothing replaced, and holds for every value of the constants that satisfies the named
assumption: any number of scans, slots, requests, processes, keys, versions, any bound
and any set of environment events.

| Module | Theorem | States |
|---|---|---|
| `ScanExecutionProofs` | `TypeCorrect`, `QueuedScansAreFree`, `SynchronousScansStay` | `TypeOK`, `QueuedHoldsNoLease`, `SynchronousStaysManual` |
| | `LeaseIsExclusive`, `AttemptsAreBounded` | `LeaseExclusive`, `AttemptsBounded` |
| | `CancellationSticks`, `OldWorkersAreFenced` | `CancelledNeverRunsAgain`, `OldWorkerCannotAdvance` (action properties) |
| `LeadDeliveryProofs` | `SingleSender`, `AttemptsAccounted` | `OneSender`, `AttemptsCounted` |
| | `NeverResent`, `ErasureStopsRetries` | `UnknownNeverResent`, `ErasedNeverRetried` (action properties) |
| | `LeadStatusRight` | `LeadReflectsDeliveries` |
| `ProviderSpendProofs` | `LedgerSound`, `LimitHolds` | `LedgerMatchesRows`, `SpendWithinLimit` |
| | `AnsweredNeverResent` | `CompletedNeverResent` (action property) |
| | `ServesAnswers`, `RowsAreReadable`, `BundlesAgree` | `ServedIsAnswer`, `RowsReadable`, `BundleAgrees` of `ResponseCache` |
| `LeadIntakeProofs` | `RetriesSafe`, `DuplicatesOverlap`, `LeadsWhole` | `RetriesHaveOneEffect`, `DuplicatesOnlyByOverlap`, `StoredWhole` |
| `PropertyAndStoreProofs` | `HistoryKept`, `ReleasesReviewed`, `SitesShowProvider` | `HistoryComplete`, `ReleasedWasReviewed`, `ShowsActiveProvider` |
| | `ReleaseLine` | `OneReleaseLine`, for one process |
| | `LockExclusion`, `RegistrySoundness`, `ReportsKept` | `LockExcludes`, `RegistryConsistent`, `ReportedStaysRegistered` of `PublicDataStore` |
| | `CatalogRefinement` | `ImplementsCatalog` |
| `OpportunityReviewProofs` | `AuditChain`, `ApprovalsRest`, `WorkersGetOne` | `AuditLinear`, `ApprovedIsComplete`, `OneActiveScan` |
| | `BatchesWithinBound` | `BatchWithinBound` |
| `MarketAssessmentProofs` | `ScanWithinPlan`, `ConfidenceIsHonest` | `PlanCoversCalls`, `ConfidenceHonest` |
| | `EvidenceIsTraceable`, `ArchetypesAreHarmless` | `EvidenceTraceable`, `StaleArchetypeHarmless` |
| | `TracesReconcile` | `TraceReconciles` with its `TypeOK` |
| | `RankingIsSound` | `RankedIsSound` (action property) |
| `WithheldEvidenceProofs` | `WithheldRanksLower` | `WithheldNeverOutranks` |

**Assumptions.** `ScanConstants`, `DeliveryConstants`, `SpendConstants`, `CacheConstants`,
`IntakeConstants`, `BoundsAssumption`, `NoneAssumption`, `StoreConstants`,
`ReviewConstants` and `NoneIsNoRow`, each in the module whose constants it is about and
evaluated by TLC in every run: tables are functions of the right type, bounds are numbers,
the value that stands for NULL is none of the values it stands beside, and the sets that
are counted (`Calls`, `Opps`) are finite. The proofs about the cache are the last part of
`ProviderSpendProofs`, which extends `ResponseCache` as well, and those about the public
data store the last part of `PropertyAndStoreProofs`; so that they can share a module, the
cache and the store name their specifications `CacheSpec` and `StoreSpec`, their
invariants `CacheInv` and `StoreInv`, and so on. `MarketAssessment` states what each
constant is in `SetupConstants`, `ReleaseConstants`, `KeywordConstants`,
`MetricConstants`, `SerpConstants`, `ProviderConstants` and `CompetitorConstants`: the
types of the code's records, that an answer is finite, that counts and prices are not
negative, that a release is of one dataset, that a URL has one domain and `rank_absolute`
one item, and that the fixture calls a page a directory only where the rules know its
domain as one (`mock.py:119`; the live client says "unknown"). One theorem has a
hypothesis besides, because the property fails without it: `OneProcess` for `ReleaseLine`
(two processes displace the same row, section 5).

**The argument** is the same everywhere. No property is inductive alone; `IndInv`
adds what the processes in the middle of an operation hold, one lemma per action or
group of actions shows that its parts survive the step, `Inductive` combines them
(`InductiveInvariant` in `ScanExecutionProofs`), and each theorem follows from it. An
exception (`stalled`, `usurped`, `overtaken` and so on) is a disjunct of the part that
needs it: that part holds until the event, the rest of `IndInv` for ever.

- *ScanExecution.* `RowInv(s)` relates the columns of a row: the token never exceeds
  those issued, a queued row has none, claims are tied to `retryCount`, a row of a web
  request has no lease and no retries. `JobsKeepSource`: a busy slot works on a worker
  row. `RequestsOnRows`: a pending request refers to a row. `TokensFresh`: two busy
  slots on one scan hold different tokens, none larger than those issued. This makes
  leases exclusive: a token identifies its owner for ever.
- *LeadDelivery.* `LeaseInv(d)`: unless the job is stalled, one slot works on it and is
  `Current`, that is, the row is as the slot left it or was cancelled by an erasure, and
  a claimable job has attempts left. `SlotInv`: what a slot has decided, stalled or not.
  `RowInv`: attempts are on record as `1 .. attempts`. `LockInv`:
  a job under recovery is still as recovery read it. `ReflectInv`, for any number of
  slots: a lead that is not misjudged is `Right`, and the decision of a slot that is not
  overtaken `Fits` the jobs and the lead as they are now; every commit that would break
  a sibling's `Fits` makes that slot overtaken (`FitsKept`, `OthersKept`, `CommitFits`).
- *ProviderSpend.* `TokenInv`: tokens are issued once. `CopyInv` and `FreshInv` hold
  even after a worker was overtaken: while an attempt is submitted its
  row stays taken, no other attempt of the call is submitted and no answer is stored,
  unless the row is trampled; hence `AnsweredNeverResent` needs no current lease. `CalmInv`,
  until a worker is overtaken: a worker's copy of its row is the row (`WorkInv`), the three
  state columns of a row agree with each other and with what may have been billed and what
  was lost (`RowsInv`), and the bucket counts the rows by cardinality (`BucketInv`). What
  may have been spent is then at most `spend` and the rows at risk, which the budget check
  keeps within the limit. `CountOne` and `CountUnion` are the counting lemmas.
- *ResponseCache.* `RequestInv`: the answer, object and private row a request holds at
  each step. `RowInv`, `BlobInv`: every row is an answer whose object was put before it,
  and a visible row's key has a pointer. `OrderInv`: while transactions do not overlap,
  the pointer is at the newest visible row, which is what a bundle in id order replays.
- *LeadIntake.* `WorkInv`: what a submission holds at each label, that nobody else
  inserted its lead, and that past the duplicate check its contact is fresh or
  overlapped. `LeadsInv`: one live lead for a key, one in the window for a contact, jobs
  only with the commit. `AnswerInv`, `EventInv`: answers name stored leads, events are
  counted once.
- *PropertyWorkflow.* `HistoryInv` and `JobInv`: a loaded row was current at its version,
  so the unique version number refuses a stale edit. `FlightInv`: a deployment under way
  is of a build that passed the gates. `ReleaseInv`: the same for what it left behind.
  `LineInv`, for one process: a deployment displaces the newest row. `FileInv`, for
  `SitesShowProvider`: at most one assignment is active and a change that locks the rows
  is alone and finds them as it read them (`RowLocks`, `ProviderInv`, `ChangeInv`), a
  deployed site that is not suspect shows the active provider (`SitesInv`), a
  deployment that has not crossed anything carries the active provider (`FreshInv`), and
  a change has its sites to do, or suspect, or crossed.
- *PublicDataStore.* `LockInv`, until a lock is usurped: the lock is that of the one
  process at work, and a process about to remove it on good grounds still sees a dead
  owner. `RegistryInv`: the registry, and every process's copy of it, is `Sound` with
  respect to the directories, and what a process is about to write keeps it so. The
  refinement follows step by step: under the lock a process's copy is the registry, so
  writing it changes one version; after the lock is usurped the catalog allows an older
  registry that is still sound.
- *OpportunityReview.* `HeadInv`: who is between the read of the head and its commit
  holds the lock and the head is still the newest. `SoleInv`: about an uncontested
  opportunity one request at a time is under way. `ApprovalInv`: a plan to approve rests
  on evidence that is still complete, and a plan that lowers the evidence takes the
  approval with it. `QueueInv`: a batch or a promotion plans a scan while none is active,
  and no step but the revival of a failed one makes one active before it commits;
  `AddStep` covers the handlers that add a scan without looking.
  `CopyInv`: a pipeline's copy is in the state its start has written, so what it writes
  is never an approval. `BatchInv`: an uncontested batch has scans only once its row says
  so, one for each of its items, and what is approved covers all its items. `Total` adds
  up costs by counting pairs, so `TotalInto` bounds the sum over the scans by an
  injection into the pairs of the items, without induction.
- *MarketAssessment.* The module first proves what the folds of the model compute. The
  library's induction theorems take an operator, so `SetInduction` and
  `SubsetInduction` are stated with sets; from them come the sums over finite sets
  (`SumStep`, `SumEqual`, `SumPlus`, `SumMono` and others), maxima, ranks (`Ahead` and
  `Ranked` permute a sequence) and rounding. `EvidenceInv` says what the evidence is at
  each stage: metrics of distinct keywords, one snapshot for each query asked, in order.
  `CallsInv` ties `made` and `spent` to the stage, endpoint by endpoint, because the
  plan bounds calls that are made in three different stages and a response counted as
  cached may be gone. `ScoreInv` says that the score is that of the evidence from when it
  is computed on, so what was decided on it can be read off the final state; the
  confidence argument is that no path of the demand estimate avoids a cap. `PublicInv`
  (`ActiveInv`, `ReadingInv`, `AssessedInv`) follows a snapshot through its reads: each
  part is `Faithful` to the release it names, or its dataset is in `torn`. `ToldInv`
  keeps for every competitor the class its page had when it was enriched (`Told`) and
  that classes only move from "unknown" to "local_provider" after that
  (`ClassGrows`): the one archetype that goes stale is scored like the one that
  replaces it. `GradedInv` (`Rivals`, `Quoted`) and `TraceInv` carry `TracesReconcile`:
  each component is shown to stay `Within` its weight, where clamping changes nothing
  (`DemandWithin` to `ProviderWithin`); the steps of competitor weakness round four
  means of which the score rounds the sum (`RoundingsAgree`); and the displaced shares,
  rounded class by class, never use up the allowance for organic clicks (`SharesBelow`),
  so the steps the trace leaves out are exactly those that deduct nothing. For
  `WithheldRanksLower` four of the five cases are easy, since no component grows
  (`GroupWithheld`). Without metrics every query weighs one, up to four times as much
  as before, and two components may rise with that. `Moved` relates the old and the new
  weight of a member to the points it earns; it survives sums (`MovedSum`), and a mean
  whose weights change so moves by a third of its range at most (`MeanMoved`, `Shift`).
  So competitor weakness gains 7.34 points at most (`WeaknessMoved`) and organic clicks
  4.45 (`OrganicMoved`), less than the 13.29 points that the two missing fields cost in
  penalties and completeness (`PairMissing`). The margin is narrow: other weights or
  penalties in `config/scoring.yaml` could break it.

**Only model-checked.**

- Liveness under fairness: `EveryScanSettles`, `EveryDeliverySettles`, `RequestsEnd`.

`OneReleaseLine` beyond one process does not hold.

## 7. Abstractions and limits

- The opportunity read by `transition_system` is atomic with its commit, except for
  the pipeline's long-lived copy, which is modelled.
- Recovery handles one row per transaction; the code handles all stale rows in one, each
  locked. Recovery of deliveries is two steps, with the row locked and the siblings read
  without a lock; that of scans is one, because it reads no scan but the one it has locked.
- `Prepare` is atomic: the unique key on the planned request makes concurrent
  insertions fail.
- A call is estimated at one unit and costs zero or one in `ProviderSpend` (in
  `MarketAssessment` it has its planned price). The rate breakers, kill switches,
  request limits and qualification gates are one event, `breaker`, that may refuse a
  call at any time.
- An answer the client cannot parse is settled at no cost by the code; the model
  takes it, like an error answer, as one the provider does not bill. Were it billed,
  `SpendWithinLimit` would not hold of that money.
- A database failure inside the exception handlers of `_request` is a `Crash` of the
  worker: nothing of the handler is written.
- Calls without a lease (synchronous scans and qualification) are not in
  `ProviderSpend`. One usage day: the bucket does not roll over.
- One property, one dataset and one opportunity at a time: rows of different ones do
  not meet in the code, except through the audit chain and the batch, which are
  modelled.
- A text is the set of its words and a keyword or URL a number in alphabetical order;
  ties in the code's sorts are broken as there.
- `CompetitorSteps` has no step for an archetype adjustment of nearly zero and none for
  the clamp, which `score.py:792` and `:817` add or skip within the tolerance of
  `TraceReconciles`; `Granularity` has no case for markets outside the U.S., which
  `validate_market_against_index` refuses; `MarketSignals` derives the derived signals,
  although a release may state one itself (`market_prefilter.py:618`), which none of the
  default measures does; `Rules`, `Profiles` and `Mappings` are excerpts of their
  configuration files.
- The manual SERP override is never set; fixture scans get the same answers as live
  ones, so their caps are exercised on more than the fixtures' evidence.

## 8. Not modelled

Source adapters of public data, geography and the service catalogue (parsing and
tables), the outcome ledger and its calibration statistics, offline calibration,
qualification and reports, raw JSON walking of provider payloads, rendering of sites
and pages, authentication and request filters, CLI, logs and metrics. The reasons are
listed per component in `PROJECT.json`.

## 9. Plan

Done, with proofs: `ScanExecution`, `LeadDelivery`, `ProviderSpend`, `LeadIntake`,
`OpportunityReview`, `PropertyWorkflow`, `PublicDataStore` with `ReleaseCatalog`,
`ResponseCache`, and the computation of a scan (`ScoringRules`, `ScanPlanning`,
`MarketPrefilter`, `MarketAssessment`). Left, in this order:

1. The outcome ledger: immutable decisions, idempotent ingestion.
2. Call routing around its awaited adapter in `LeadIntake`.
