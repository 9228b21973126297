# A verification development for Quipu

Quipu is an AI-assisted software delivery control plane: a Python backend
(`src/app`) that takes a ticket through planning, architecture, code
generation, testing and deployment with LLM agents, watches what it deployed,
and turns detections into feature reviews or remediations. This directory holds
TLA+ models of its state machines, the TLC runs that check them and TLAPS
proofs about them. Line numbers are those of the commit in `src/`; the exact
correspondence of every definition is the `map` of `PROJECT.json`.

## 1. The system

Everything persistent is in Firestore (or in memory, in tests). An API request
runs on some instance of a Cloud Run service, in one `asyncio` event loop per
instance; a worker process consumes Pub/Sub. Requests share the database and
their instance's disk and process memory, nothing else. Every `await` is a
place where other requests run.

| component | state | operations | talks to |
|---|---|---|---|
| Orchestration service (`orchestration/service.py`) | the workflow document: version, status, stage, artifact ids, retry counts, active decision, actioned resolutions, workspace path | start, /step, /run, /retry, remediate | repositories, agents, decision agent, workspace |
| Transition policy (`transitions.py`, `decisions.py`) | none | `can_transition`, deterministic routing of failures | orchestration |
| SDLC agents (`agents/planning … deployment`) | executions, artifacts; Jira stories, the workspace, Cloud Run | `execute` | LLM, tools, repositories |
| Decision agent (`orchestration/adk`) | none | propose a decision | LLM |
| Repositories (`persistence`) | documents, twice: dictionaries and Firestore | save, create, update, `update_if_version`, queries | Firestore |
| Workspace (`core/repo.py`) | a directory per workflow and instance | clone, clean up | git |
| Feature reviews (`feature_review/service.py`) | review document, its ticket and claimed workflow id | create, approve, reject | Jira, orchestration |
| Resilience (`core/resilience`) | breaker state, per process | call, retry, time out | Jira client, LLM calls |
| Ingestion and worker (`eventing`) | signals; the loop, in-flight tasks, semaphore | pull, ingest, ack, trigger, start, stop | Pub/Sub, detection |
| Detection and action (`detection`, `agents/detecting.py`) | detections, scope locks | aggregate, detect, route | reviews, resolution agent |
| Incident resolution (`agents/incident_resolution.py`) | resolutions | propose a strategy under a safety policy | orchestration |
| Verification (`verification`) | verification records | verify a remediation, mirror its outcome | workflow document, signals |
| Monitoring and adapters (`agents/monitoring.py`, `signals`) | signals, its execution | query metrics and logs, normalise, save once | Cloud Monitoring and Logging |
| Knowledge (`knowledge`) | none | profile, search, rank, limit | Discovery Engine |
| Other tools, API, configuration, UI, demo | none of their own | I/O and presentation | – |

What is hard in it: an LLM call lasts up to a minute and sits between reading a
document and writing it; two requests for one workflow are not serialised by
anything but the version check; a request may die at any await; an instance may
go away with its disk; an agent may fail after its side effect; Pub/Sub
delivers at least once; locks are per process; signals of an old revision keep
arriving after a new one is deployed. `PROJECT.json` lists each hazard at its
line, with the properties about it.

What makes each component correct:

- *Orchestration*: only tested code is deployed, COMPLETED means deployed,
  evidence is recorded once, retries stay within budget, no update is lost, the
  stage follows the policy, a workflow moves on by evidence on record and stays
  stopped unless somebody who knows it stopped goes on, an escalation is
  explained, /run ends.
- *Agents*: a completed execution has the product it claims; nothing is left
  behind that no record accounts for, except by a run that did not complete.
- *Feature reviews*: a decided review stays decided, its ticket is its own, one
  workflow per review, everybody is told the same.
- *Circuit breaker*: opens at its threshold, half-open only with a probe, and
  an open breaker eventually lets a call through.
- *Ingestion*: no acknowledged signal is lost, the copies of one are few, every
  message is settled, and a stop leaves nothing running.
- *Detection and action*: one detection, review and remediation per scope, on
  evidence that exists; every detection is acted on.
- *Verification*: one outcome per deployment, earned by the evidence of its
  revision, mirrored truly; a recurrence is seen unless the query is full.
- *Monitoring*: what is reported is persisted evidence and the status is true.
- *Repositories*: tests that pass in memory mean the same on Firestore.
- *Knowledge*: relevance dominates, and an agent sees what its profile allows.

## 2. The modules

| module | what it is |
|---|---|
| `TransitionPolicy` | the stage order, the retry table, `can_transition`, the deterministic routing of test and deployment failures, the authorisation of remediation strategies |
| `Workflow` | `OrchestrationService` driving one workflow document, with the agents, the workspaces and the failures around it |
| `AgentExecution` | the inside of an agent's `execute`: record, input, product, effects, artifact |
| `FeatureReview` | `FeatureReviewService` and `start_workflow_from_review`: reviews, Jira stories and the workflows claimed for them |
| `CircuitBreaker` | the breaker of the Jira calls, with the retry loop it wraps |
| `SignalDelivery` | abstract: at-least-once delivery, what ingestion promises |
| `SignalIngestion` | broker, worker loop, tasks, stop and crashes; implements `SignalDelivery` |
| `EvidencePolicy` | the evidence checks and the safety policy of the detecting and the resolution agent, as operators |
| `DetectionPipeline` | from a saved signal to a review or a resolution |
| `VerificationPolicy` | the outcome of a verification from its evidence, as operators |
| `RemediationVerification` | `verify_remediation` beside the orchestrator and the arrival of signals |
| `SignalAdapters` | what a notification is normalised to, or refused as |
| `Monitoring` | a run of the monitoring agent beside ingested notifications |
| `Ranking` | sorting and cutting, the orders given as relations; used by the next two |
| `Repositories` | every repository, in memory and on Firestore, side by side |
| `Knowledge` | profile, backends, ranking and limit of the knowledge tool |
| `MC…` | values for the constants of one of these; `MCPlatform` joins `Repositories` and `Knowledge` |
| `WorkflowProofs`, `AgentExecutionProofs`, `FeatureReviewProofs`, `SignalIngestionProofs`, `DetectionPipelineProofs`, `RemediationVerificationProofs`, `MonitoringProofs` | inductive invariants and theorems of the module each is named after |
| `PlatformProofs` | the same for `Ranking`, `Repositories`, `Knowledge` and `CircuitBreaker` |

How they fit: `AgentExecution` is the inside of `StartExecution` …
`FailExecution` of `Workflow`, and of the leftovers its `PartialEffect` allows.
`FeatureReview` ends where `Workflow` begins: the workflow it creates is a
version number that other requests move. `CircuitBreaker` is the inside of one
fault of `FeatureReview`, an attempt that is refused. What
`SignalIngestion` tells the trigger is what `DetectionPipeline` handles, and
`SignalAdapters` says which contents it treats as `Bad` or `Odd`. The steps of
`RemediationVerification` on the workflow document are `MirrorVerification` of
`Workflow`. `Monitoring` shares the signal store with ingestion.
`Repositories` justifies the stores that the others use: a document that is
there or not, replaced under its version.

Operators whose comment begins with "fault" are not part of a specification.
They are plausible bugs of the code, kept beside the definition they would
replace: each property is shown to fail when its fault is put in place.

### Workflow

An executor is an in-flight request. Its locals are `pc[e]` (the await it is
at), `seen[e]` (its copy of the document), `work[e]` (stage, input artifact,
execution, decision) and `left[e]` (steps it may still drive). One action is
the code between two awaits:

| action | code in `app/orchestration/service.py` |
|---|---|
| `Call` | a request for `execute_next_step` or `run_to_completion` |
| `Begin`, `BeginTerminal`, `BeginWithoutAgent` | the first read in `_run_next_step` |
| `Adopt`, `NothingToReconcile` | `_reconcile_stage` |
| `SkipWorkspace`, `ReuseWorkspace`, `CloneWorkspace`, `CloneFails` | `_ensure_workspace`, `clone_repo` |
| `Reread`, `Claim` | the second read and the write of RUNNING |
| `StartExecution`, `FinishExecution`, `FailExecution` | the agents' `_perform` |
| `FailWorkflow`, `AdvanceToNextStage` | the functions of that name |
| `RecordEvidence`, `HandleDecision`, `RecordDecision`, `ExecuteDecision` | `_handle_testing_result`, `_handle_deployment_result`, `handle_decision`, `_execute_decision` |
| `VersionConflict` | `VersionConflictError` out of any write |
| `Abort`, `Restart` | an exception or cancellation at any await; an instance goes away |
| `RetryFailedWorkflow`, `StartRemediation`, `MirrorVerification` | the other writers of the document |

Data is reduced to what the properties tell apart: an execution's position in
`execs` also names its artifact; an artifact keeps its stage, its input, its
verdict and the tree it was made on; a tree is named by the codegen execution
that wrote it (0 is a fresh clone, -1 no directory). `live` is the code artifact
Cloud Run serves. An agent that fails or is cut off may have had its effect or
not (`PartialEffect`).

### AgentExecution

`run` is the agent at work: its step, its input artifact and the product the
model gave it; `executions`, `artifacts`, `stories` and `workspace` (changed
files) are what lasts. Runs follow each other, in any order of agents.

| action | code in `app/agents` |
|---|---|
| `Begin`, `ReadInput` | the capability check and the RUNNING record; the fetch and type check of the input |
| `ThinkInVain` | an LLM call or a validation that fails |
| `Plan`, `CreateStory`, `LoseStory` | `planning.py`: the tasks and one Jira call per task, which may fail or be served without an answer |
| `Design` | `architecture.py`: the design covers every task of the plan |
| `Implement` | `codegen.py`: what `write_file` lets the model write (`Writes`), the difference to the snapshot, the check of the scope |
| `RunTests`, `DeployService` | `testing.py`, `deployment.py` |
| `Save`, `LoseSave`, `Report`, `RecordFailure`, `Abort` | saving the artifact, closing the record, a crash |

### FeatureReview

A request reads a review, works on its copy and writes it under the version it
read; `pc[e]` names the await it is at.

| action | code |
|---|---|
| `FindReview`, `CreateReview` | `create_review`: the lookup; the create under a fresh id |
| `Approve`, `ApproveAgain` | `approve` up to the Jira call; the idempotent return |
| `CreateStory`, `StoryTimesOut`, `JiraDown`, `JiraRefuses` | one attempt of `create_story` in `retry_async`: served; served but not answered in time; 5xx or no connection; 4xx or an open circuit |
| `WriteApproval`, `WriteRejection`, `Outdated`, `ResolveApproval`, `ResolveRejection` | `update_if_version` and the handlers of `VersionConflictError` |
| `Reject`, `RejectAgain` | `reject` |
| `StartClaimed`, `StartUnclaimed`, `LookUp`, `Claim`, `ResolveClaim`, `LookUpTheirs` | `start_workflow_from_review` |
| `MakeWorkflow`, `SetWorkflow` | the two awaits of `FirestoreWorkflowRepository.create` |
| `Crash` | the request dies or is cancelled |

A review is its detection, status, version, ticket and workflow; a story is the
review it was made for; `told` keeps every answer. A request that its first read
refuses changes nothing and has no action.

### CircuitBreaker

`state`, `failures` and `probing` are the attributes of `CircuitBreaker`;
`cooled` says that the recovery window has passed. `Admit` and `AdmitProbe` are
the two ways into `fn()`, `Retry` an attempt of `retry_async` that is tried
again, and `Succeed`, `FailCountably`, `FailPermanently` and `Cancel` the four
ways out of `call`. `probe[c]` is history: the code does not remember which call
is the probe.

### SignalIngestion

The broker is `queue` and `leased`. A worker is `loop[w]`, `batch[w]` (pulled,
not dispatched) and `life[w]` (how far `stop()` is); a slot is a permit of its
semaphore, with the task that holds it.

| action | code in `app/eventing` |
|---|---|
| `Start`, `LoopTop`, `Pull`, `PullNothing`, `Dispatch`, `DropBatch`, `EndBatch` | `worker.py`: `start` and `_run_loop` |
| `Find`, `Save`, `Settle`, `Ack`, `Trigger` | `ingest_one` of `ingestion_service.py`, await by await |
| `Fail` | the call a task is in raises, with its effect or without |
| `Stop`, `StopGather`, `StopDone`, `DeadlineInLoop`, `DeadlineInGather` | `stop()` up to each await; the deadline in `wait_for` |
| `Expire`, `ExpireEarly` | external: a lease runs out |
| `Crash` | the process dies |

An event that was saved by a task that then fails or dies is not told to the
trigger by anything later; the model has that, and promises nothing against it.

### DetectionPipeline

`pc[s]` is the handler of signal `s`; it holds the lock `Key(s)` from `Enter`
to its end. `evidence`, `verdict`, `subject` and `plan` are its locals.

| action | code |
|---|---|
| `Persist`, `Enter` | the save by ingestion; the wait for `_scope_locks[…]` in `process_signal_available` |
| `Count` | `_process_in_scope`: the count of related signals and the threshold |
| `Gather`, `Interpret` | `detecting.py`: what is retrieved; the model's claim cut down to it |
| `Find`, `Save` | the fingerprint lookup; the save of the detection |
| `FindReview`, `CreateReview` | routing a feature opportunity: `create_review` |
| `Diagnose`, `FindPlan`, `SavePlan`, `Unowned` | `incident_resolution.py`: the authorised plan, its fingerprint, the save; no owning workflow |
| `Fail`, `Crash` | a call raises; a process dies with all its handlers |

### RemediationVerification

| action | code in `app/verification/service.py` |
|---|---|
| `Ask`, `Answer`, `Lookup` | `verify_remediation`: the latest DEPLOYMENT artifact, the return of a record that exists |
| `Peek`, `Claim` | the two awaits of `create` |
| `ReadWorkflow`, `Mark`, `Publish` | `_mirror_status_onto_workflow`: read and version-checked write of the mirror |
| `Decide`, `Finish` | the query and the policy; `update_if_version` of the record |
| `Store`, `Deploy`, `Complete` | the surroundings: a signal arrives, the orchestrator deploys and records it |
| `Fail` | a call raises or its request dies |

`raced` is history: deployments whose record two callers both created.

### Monitoring, SignalAdapters

`stage[r]` and `pc[r]` say what a run collects and how far it is; `todo` and
`item` are the loop over the answers, `report`, `observed` and `errors` its
accumulated results. A query returns any allowed answer or fails
(`QueryFails`); `Look` and `Save` are the two awaits of the deduplicated save;
`Receive` and `Ingest` are the worker saving a notification through the same
fingerprint; `Escape` is an error nobody catches (of the store, of an artifact, or of the
adapter on a log entry without `insertId`), or a crash. `SignalAdapters`
maps a notification, a record whose fields may be `Missing`, `Null` or
`Garbled`, to a signal, to `Malformed` (an adapter error) or to `Odd` (any
other exception).

### Repositories, Knowledge

A repository is described by a record of the few things in which the classes
differ (how a document is addressed, what create and update do when there is
one, which lookups there are, which filters); the operations take that record.
Both backends get the same calls, and their answers are compared. `Knowledge`
is one search, from the agent's question to the ranked and cut results.

## 3. The runs

`PROJECT.json` names the properties of each; every one is stated, in words,
above its definition.

| run | question | bounds |
|---|---|---|
| `workflow_quiet` | does one undisturbed /run always end the workflow within its 20 steps, and test the code it judges? | one request, default budgets, all failure classes |
| `workflow_solo` | is only tested code live, is COMPLETED deployed, is an escalation explained, for one request at a time under failures? | 3 requests of 1 or 20 steps, 2 disturbances, 1 manual retry, 1 remediation |
| `workflow_race` | what holds of budgets, evidence, stages, stopped workflows, escalations and moves under any interleaving? | 2 concurrent requests, 3 in all, 2 disturbances, budgets of 1, started at Testing, any proposal, 1 manual retry, 1 remediation |
| `workflow_reclone` | a finding, below | 2 requests, 1 manual retry |
| `agents` | does a completed execution have what it claims, and does only a failed run leave traces? | 4 runs of any agents, 2 tasks, 2 files, 2 failing writes or crashes |
| `review_race` | do decisions stay final and all callers agree, whatever interleaves? | 3 concurrent requests, 6 in all, 2 reviews, 2 attempts, 2 Jira faults, 1 crash |
| `breaker` | do counter and state agree when outcomes come out of order, is a half-open circuit probed, does it recover? | 3 callers, threshold 2, 2 attempts, 8 failures of every kind |
| `ingestion` | does ingestion implement `SignalDelivery`; are copies few, is a stop quiet, is every message settled? | 1 worker, 2 permits, 3 messages (good, refused, poisonous), 3 failures, early redeliveries, stops or crashes |
| `detection` | one of each per scope, on real evidence, nothing forgotten, nobody waiting for ever? | 3 signals, 2 overlapping scopes of one process, 2 claims, 2 proposals, 1 failure or crash |
| `verification` | one outcome per deployment, earned, truly mirrored, a recurrence hidden by a full query only? | 2 callers, 3 calls, 2 deployments (one failed), 4 signals of 2 revisions, of which a query returns 2, 1 failure |
| `monitoring` | is a report evidence, and its status true? | 1 run, 7 notifications of every source of which 1 is received, 2 log entries, 2 failures |
| `platform` | do memory and Firestore answer the same; does ranking respect relevance and the profile? | 3 documents, 2 workflows, versions up to 3; up to 3 chunks of 15 kinds, all 5 kinds of request |

Why the bounds are enough: a race needs two requests, and a third call finds
what the two left behind (the orphan to adopt, the record in progress); every
retry loop is closed once with a budget of 1, and `workflow_quiet` runs the real
budgets; two disturbances allow a failure during the recovery from the first.
Three requests on a review are an approval, a rejection or start it races with,
and one that reads the outcome. With two permits two deliveries of one message
overlap, and a third message keeps the loop waiting for a permit while a stop
comes. Three signals put two in one lock and one in the scope that overlaps it.
A verification has two deployments so that signals of an old revision exist and
the marker can be of another deployment; two newer log errors of the old
revision fill the query and hide the one of the new; a third call meets a record
that two made. Four agent runs are a run, its retry and two successors that build on
either. Two documents with one key, and a third that shares its other fields
with one of them, are what lookups, orders and limits of 1 and 2 tell apart.
The chunks are apart by less and by more than all bonuses together, and one is
of each kind that is dropped, repaired or clamped.

*Deadlock* is checked in `ingestion` (a worker can always run on or be
started) and switched off elsewhere: when all requests are served and the
bounds are used up those models stop, as the system does when nobody calls it.
`breaker` stops for good where a cancelled probe wedges it, which is known
(below) and bounded by `HalfOpenIsProbed`.

*Fairness.*

| specification | assumed | because |
|---|---|---|
| `Workflow!FairSpec` | weak, of each request's `Step` | an `asyncio` task that is not blocked is scheduled, every external call has a timeout; nobody is assumed to send requests |
| `CircuitBreaker!FairSpec` | weak: time passes, somebody asks when a probe is possible, a call that can go on or succeed does | calls have timeouts and bounded attempts; without somebody asking no breaker can probe |
| `SignalIngestion!FairSpec` | weak: leases expire, the loop, the tasks and `stop()` go on; strong: a message that can be pulled again and again is pulled | leases are finite, calls have timeouts, the broker does not pass over a message for ever |
| `DetectionPipeline!FairSpec` | weak, of each handler; strong, of entering a lock | `asyncio.Lock` wakes its waiters first in, first out |

Nothing is assumed of a fault: none is fair. Where liveness is conditional the
property says so: a handler that was killed (`dropped`) is the exception, by
name.

*Notes on what holds only so far.*

- A verification may conclude VERIFIED_RESOLVED although a signal of the
  recurrence is stored: the filter by revision follows the limit of the query (20
  per type by default), so as many newer signals of the old revision hide it. It
  happens in `verification`, and `OnlyTheLimitHides` says it is the only way.
- A stopped workflow may be revived by a request that reads it after it stopped
  and does not look at the status (`MCWorkflowRevive`), or by a decision that is
  already the active one. `ResultsReviveNothing` says these are the only ways
  besides the intended ones: nothing a request does on an older read revives it.
- `MovedOnByEvidence` says that an execution on record backs every move, not that
  it is of the stage that is passed: `MCWorkflowSkip` shows that it need not be.
- `LiveIsTested`, `CompletedIsDeployed` and `EscalationExplained` are of one
  request at a time and of a decision agent that proposes neither CONTINUE nor
  COMPLETE; the first two are false otherwise (`MCWorkflowUntested`,
  `MCWorkflowSkip`). `TestedTree` is of undisturbed requests; it is false after
  one manual retry (`workflow_reclone`).
- With two documents of one key, memory finds the last saved and Firestore the
  first by name; `list_recent` is in the order of each implementation.
  `ReadsAgree` says how far they agree.
- Relevance dominates the ranking up to a spread of 0.20 between authorities,
  and 0.08 for freshness: less far apart, authority wins. No profile in the code
  sets freshness or a least relevance; the run sets both. The Google backend
  does not enforce validity windows, so `AnswerGrounded` asks for them of the
  in-memory one only.
- Two creates of one verification record (`raced`) are not excluded by the code;
  `OneOutcome` and `MirrorIsTrue` are about the others.

### Finding

`workflow_reclone`, `TestedTree`: a workflow that failed in Testing lost its
workspace; the retry tests a fresh clone without the generated code, and may
pass. `PROJECT.json` quotes the text it contradicts.

### Further configurations

Not among the listed runs, since nothing in the code forbids what they show, or
not in so many words. Each ends in a counterexample
(`tlc -config <file> <module>`):

| configuration | refutes | what happens |
|---|---|---|
| `MCWorkflowUntested` | `TestingGate` | CONTINUE is legal from Testing for an LLM decision too: a mixed set of test failures can reach Deployment |
| `MCWorkflowSkip` | `CompletedIsDeployed` | two requests tested the code and both advance; the second CONTINUE completes the workflow without a deployment |
| `MCWorkflowRevive` | `TerminalStable`, a terminal status is left by hand or by a resolution only | the second read in `_run_next_step` is not checked for a terminal status: an ESCALATED workflow is marked RUNNING |
| `MCCircuitBreakerWedged` | `AlwaysProbed` | a probe that is cancelled, or fails with an error that does not count, leaves the breaker refusing every call until the process restarts |
| `MCFeatureReviewTwice` | `OneReviewPerDetection` | two concurrent `create_review` make two reviews |
| `MCFeatureReviewTimeout` | `OneStoryPerReview` | Jira makes the story but answers too late; the retry makes a second |
| `MCSignalIngestionHang` | `StopNeverWaitsForever` | at its deadline `stop()` cancels and waits: while a call that a task is in does not return, neither does `stop()` |
| `MCSignalIngestionPoison` | `MalformedIsDropped` | an adapter that raises something else than an `IngestionError` makes its message come back for ever |
| `MCDetectionPipelineDuplicates` | `OneDetectionPerFingerprint`, `OneResolution` | scopes with and without a service overlap under different locks; two signals of one incident are diagnosed differently and make two remediations (each fails of its own) |
| `MCRemediationVerificationTwice` | `NeverVerifiedTwice` | two calls overlap in `create`; the later sets a decided record back |
| `MCRemediationVerificationStale` | `ResolvedByTheRemediation` | asked too early, the deployment before the remediation is verified and resolves the incident |
| `MCAgentExecutionLeftovers` | `OneStoryPerTask`, `ListsEveryChange` | planning fails after its first story, and the next run makes all again; codegen fails after writing, and the next run takes its files for part of the checkout (each fails of its own: take the first away to see the second) |
| `MCMonitoringFailed` | `FailedMeansEverySource` | one failing source and nothing found is reported as failed |

Known weaknesses of the same kind without a configuration of their own: a crash
between the evidence and the decision makes the next request run a completed
stage again; a crash between Jira's answer and the write leaves a story no
review knows of; two starts of one review create one workflow id, and the second
replaces a document that has moved on; the late failure of an older call
re-opens a half-open circuit under its probe, and a second probe follows.

## 4. The proofs

TLAPS proves them for any values of the constants that satisfy the named
assumptions of the module, that is, for any number of requests, workers,
signals or faults.

`WorkflowProofs`: `Spec` implies `[]IInv`, `[]TypeOK`, `[]RetryBudget`,
`[]EvidenceSound`, and `NothingLost` and `StageMovesLegal`, which are about
steps. None of the invariants is inductive alone. `RetryBudget` needs to know
that the budget checked by `handle_decision` was checked against the document
that `_execute_decision` overwrites; `EvidenceSound` that the artifact a
request is about to append is not in the document yet, although it looked
several awaits ago. Both follow from one fact, `CopyOK`: *the version names the
contents*. A copy that carries the document's version is the document, so what
a request established of its copy (`LocalsOK`) holds of the document in any
write the version check lets through. `OneRunner` says no two requests finish
the same execution. `IInv` is the conjunction; the proof has a lemma per group
of actions.

Four more theorems need to know where a request's knowledge comes from, which
`OriginInv` adds to `IInv`. `Unstopped`: the copy a request acts on was not
terminal when it was read, up to the writes that the version check lets through
only if the document is still that copy; hence `NothingRevives`
(`ResultsReviveNothing`). The reads after which the code does not look at the
status are not in it, and are the exceptions of that property. `Made`: a
request's input is a recorded artifact of the stage before its own, its execution
is of its stage and worked from that input, and what it records or judges is
complete. `Products`: only tests and deployments complete with anything but
success. `Provenance` is part of the invariant; `ProvenanceKept` is its theorem.
`Weighed`: a decision was taken on an execution the document records, is itself
on record, moves on only if that execution succeeded or the decision agent
proposed it where the table leaves it to the agent, and is the active one of
the copy it is executed on. Hence `EscalationsOnRecord` (`EscalationsRecorded`)
and `EvidenceMoves` (`MovedOnByEvidence`). Each step is treated
once for its own request; `WrittenByOthers` and `RunsKept` say that
another's step takes none of it away, since what is recorded only grows and
a finished execution never changes. None of these theorems assumes anything
about overlaps, proposals, failures or retries.

`AgentExecutionProofs`: `[]TypeOK`, `[]CompletedIsDone`,
`[]OnlyFaultsLeaveTraces` and `[]LeftoversAreRetries`. The invariant `AgentInv`
follows a run: its record is open and the last (`RunOpen`), the stories it made
are exactly the keys of its product (`Begun`), which is complete before it is
saved (`Finished`). A closed record keeps naming what was saved (`Closed`),
because what is stored only grows. `FewTraces` counts the open records and the
artifacts no record names, without those of the run at work, against the
faults; `Told` and `ChangesKnown` say where every story and changed file comes
from. That there is a newest artifact at all (`NewestIsIn`) is a lemma over
finite sets.

`FeatureReviewProofs`: `[]TypeOK`, `[]TicketsReal`, `[]AnswersAgree`,
`[]WorkflowsOwned` and `DecisionsFinal`. The invariant `RInv` says that the
version of a review counts what has been done to it (`Life`: created, decided,
started) and that a copy of the current version is the current review. So a
request that read version 1 and may write is deciding a pending review, and one
that read version 2 is starting an approved one; nothing else passes the check.
`OthersOK` shows once, for any step that only adds and only moves versions
forward, that no other request and no earlier answer is disturbed.

`SignalIngestionProofs`: *refinement*, `Spec => SignalDelivery` under the
mapping of `Delivery`. Its invariant `DeliveryInv` says what a task knows at
each await: a task about to acknowledge works on an event that has a copy, one
about to settle on a message that is refused. Then every step is a `Persist`, a
`Release`, a `Tell` or a stutter; a worker that dies releases nothing.
`NothingIsLost` follows. `QuietInv` follows `stop()` through its awaits and
yields `[]StoppedIsQuiet`; `NoWorkAfterStop` is proved of every step.
`FewCopies` needs the stronger `CopiesInv`: copies plus the tasks about to save
one never exceed the permits. A lookup that starts a save found no copy, so only
the tasks already past their lookup can add one.

`DetectionPipelineProofs`: `[]TypeOK`, `[]OnePerScope` and `[]Grounded`, for any
signals, scopes, processes and model answers within the output schema
(`ProposalAssumption`). `PipelineInv` adds to them that one handler is inside a
lock at a time (`Alone`), what its locals rest on (`Knows`), and that what a
handler's lookup did not find is still not there when it saves (`Looked`): only
another handler of the same fingerprint could have saved it, and it would hold
the same lock. Two locks may still guard one fingerprint
(`MCDetectionPipelineDuplicates`); `OnePerScope` therefore compares what was saved
under the same lock.

`RemediationVerificationProofs`: `[]TypeOK`, `[]OneOutcome`,
`[]MirrorIsTrue`, `[]OutcomeIsEarned`, and that a completed record is never
written again unless its create was raced. The record is created by two awaits
and finished by a version-checked third; the invariant `OwnedInv` says that
whoever is between them holds the record alone, or its deployment is in
`raced`, and therefore knows what the record says when it answers or mirrors.
`EarnedInv` carries the evidence a caller decided on, and the policy's
conditions on it, over the awaits until it is written. `NothingElseHides` is
`OnlyTheLimitHides`: what a query left out has `MaxSignals` others before it
(`CollectsUpToTheLimit`), what it returned was healthy, and no other step
reaches an outcome (`Undecided`). It has no hypothesis on how many signals there
are.

`MonitoringProofs`: `[]TypeOK`, `[]ReportIsEvidence` and `[]StatusIsHonest`. The
invariant is one formula per run (`RunInv`): every answer is stored, still to be
looked up, or being saved (`Accounted`); what it reports is stored and answers
something it asked (`Evidenced`); what it stored it reports unless it was lost in
between (`Owned`); the status says what its errors say (`Honest`). `Frame` shows
once that other runs and the worker disturb none of it, since what they add to
the store has another writer. `NamesAssumption` says runs and notifications are
distinct writers.

`PlatformProofs` has four parts. *Ranking*: a sort by an order in which each
element of a finite set has its own place lists every element once (`Ordered`),
because counting who comes before is an injection of the set into as many
places. `SameValues` is what the queries need: two listings of one set by
falling value have the same value at each place, however they break ties. If
the value at place i were higher in one, its first i elements would all be among
the first i - 1 of the other. *Repositories*: `[]SameAnswers` and
`[]ReadsAgree`, for any of the ten pairs of classes, any ids, times and values.
`StoreInv` says that memory's order lists exactly the documents that are there
and that its index names a holder for each key that has one; without it a
deleted or replaced document could stay findable. A sort of the dictionary and
a sort by name are then two listings of the same documents. *Knowledge*:
`[]RelevanceLeads` and `[]AnswerGrounded`, for any corpus, limit and least
relevance (`CorpusAssumption` says what a chunk is). There is one answer to a
request, so the invariant `SearchInv` only says which, and the argument is about
the operators: what a search returns is a listing of the chunks that match, and
a score exceeds another's relevance by the bonuses at most. *Circuit breaker*:
`[]TypeOK`, `[]ClosedBelowThreshold` and `[]FlagIsHalfOpen`, which are inductive
together, and `[]HalfOpenIsProbed`: a half-open circuit has its probe in
flight, unless that probe itself was cancelled or failed permanently.

*Only model-checked*:

- all liveness (`RunEndsWorkflow`, `Recovers`, `EveryMessageSettled`,
  `EveryDetectionActedOn`), which is outside the prover;
- `LiveIsTested`, `CompletedIsDeployed`, `EscalationExplained` and `TestedTree`:
  nothing in the code serialises the requests or restricts the proposals they
  need (section 3), so a theorem would rest on hypotheses the code does not
  keep. What holds without them is what is proved above.

## 5. Not modelled

- *Control plane API*: routes translate HTTP to the calls that are actions here
  and errors to status codes.
- *Configuration, observability*: settings are constants; logging and metrics
  have no effect on behaviour.
- *Tools* other than the knowledge tool: shell, file and HTTP calls offered to a
  model; what they leave behind is in `AgentExecution` and `Workflow`.
- *Prompts, LLM output, serialization of fields, pagination cursors*: the model
  of an LLM is an arbitrary answer within its schema, of a document its fields
  that matter.
- *Agent registry, ADK adapters, `with_timeout`*: a read-only table and wrappers
  without state.
- `normalize_cloud_run_deployment`: nothing in `src/app` calls it.
- *Legacy pipeline, demo harness, web interface, tests and scripts*: not part of
  the running system, or presentation.

## 6. Plan

Every module of the original plan is there, except an abstract versioned store:
the facts it was meant to carry (a copy of the current version is the document)
are proved in the modules that write under a version. What is left:

1. `LiveIsTested` and `EscalationExplained` under overlaps: which overlaps do harm
   and which do not. The version check alone does not decide it: a request that
   loses the race leaves its completed execution behind, and `_reconcile_stage`
   may adopt a test run of code that has been replaced since.
2. `TestedTree` after manual retries of a workflow that failed outside Testing;
   after one that failed in Testing it is false (`workflow_reclone`).
