# TLA+ verification of YOMA

YOMA is a local assistant service (Python, FastAPI, SQLite) and, beside it, an
"office" control server that collects operational events, reasons about them
and plans, approves and carries out actions.  This directory holds TLA+ models
of the parts of that code where order, concurrency, failure and time decide
whether it is right, the TLC configurations that check them, and theorems
about them checked by TLAPS.

Source paths below are relative to the repository root (`src/yoma/...`);
`PROJECT.json` prefixes them with `src/`.

## 1. Inventory

### 1.1 Local API (`src/yoma/app.py`, entry point `yoma.app`)

Synchronous endpoints run in the thread pool of the HTTP server, so any two
requests interleave.  State lives in one SQLite file, in three in-memory
tables of `create_app` and in the user's approved workspace directories.
Each `connection_scope` opens a connection of its own; a SELECT is a
transaction of its own, a write transaction starts at the first
INSERT/UPDATE/DELETE and ends at `commit()`.  Every check-then-write in a
handler is therefore two transactions, and every audit record a further one.

| Component | State | Operations | What must hold |
|---|---|---|---|
| Agent runs (`app.py` 1163-1461, `agent.py`, `tool_execution.py`) | `agent_runs`, `agent_steps`, `pending_agent_arguments`, files | create, approve, cancel, execute | no effect before approval; nothing overwritten; completed means done; cancelled means no new step; audit ahead of effect |
| Conversations (`app.py` 925-1010, `context.py`, `provider.py`) | `conversations`, `messages` | create, list, post message, delete | limits; user and assistant messages pair up; no message in a deleted conversation |
| Memory (`app.py` 1035-1161, `memory.py`) | `memories` | create, update, search, delete | per-user limit; only consented, valid candidates |
| Workspace roots and documents (`workspace.py`, `documents.py`, `document_index.py`, `retrieval.py`) | `workspace_roots`, `documents`, `document_index`, `document_fts` | approve/remove root, scan, ingest, search | index describes files of approved roots only; no stale root id |
| Integrations and OAuth (`integrations.py`, `google_*.py`) | in-memory OAuth states, `integration_connections`, `yoma_integrations` | connect, callback, disconnect, use capability | one-time state; egress policy |
| Credential vault (`credential_vault.py`) | encrypted file | put, get, delete | read-modify-write of one file |
| Users, sessions, roles (`security.py`, `config.py`) | `users`, tokens | login, require_tool | authentication, RBAC |
| Voice runtime (`runtime.py`, `voice/*`) | one RLock-guarded state | start, stop, listen cycle | legal transitions |

### 1.2 Control server (`src/yoma/office/control_server/windows_service`)

One process: Windows service shell, `ControlServerRuntime` (secure agent,
embedded runtime, uvicorn thread), `YomaEmbeddedRuntime` (license, persisted
state, scheduler), `AdapterCollectionScheduler` (background thread),
`AdapterRuntimeManager` (connect/collect with retries), event bus,
`TrialSubscriptionManager`, integration runtime.

| Component | State | Operations | What must hold |
|---|---|---|---|
| Collection scheduler (`office/adapters/scheduler.py`) | stop event, thread reference, counters | start, stop, enable, run_once, cycle | one loop at a time; counters agree with what was delivered; stop stops |
| Adapter runtime (`office/adapters/runtime.py`) | adapters, connection state, last results | register, collect, collect_all | bounded retries; one failing adapter does not stop the others |
| Embedded runtime (`office/runtime.py`, `runtime_state.py`) | lifecycle state, persisted state | start, stop, restart after a crash | recovery flagged after an unclean end; no collection without a license |
| Trial/subscription (`office/licensing/*`) | persisted subscription | ensure, refresh, activate, renew, suspend | a trial is granted once; expiry |
| Organization state (`office/central_server.py`, `organization_*.py`) | snapshot and event tables, bus subscribers | reconcile users/systems, subscribe, replay, restart | the events lead to the snapshot; subscribers agree with the table |
| Integration runtime (`office/integration/*`) | registry, configuration, connection | register, configure, enable, connect, collect, restore | persisted and live state agree |
| License activation (`office/licensing/{runtime,activation,persistence,enforcement,entitlements,hardening}.py`) | activation in memory, one file | activate, deactivate, reset, check, assess | memory and file agree; the assessment never contradicts the check |

### 1.3 Office libraries (`src/yoma/office/*`)

Mostly synchronous classes used by tests and composed by callers.  Those with
state of their own have long legal call sequences that no unit test
enumerates; those without derive one conclusion from another, and go wrong
where two of them conclude differently from the same input.

| Component | State | Operations | What must hold |
|---|---|---|---|
| Planning and its evaluation (`action_planning`, `action_simulation`, `what_if_intelligence`, `policy_constraints`) | none | plan, simulate, compare, constrain | preference follows evidence; what is blocked stays blocked |
| Pipeline to the queue (`unified_control_*`, `control_orchestration`, `execution_scheduling`, `human_approval_queue`, `action_approval`) | five caches | analyze, orchestrate, schedule, approve, complete, clear | queue, schedule and caches agree; decisions last |
| Order and rollback (`dependency_aware_execution`, `cross_system_coordination`, `multi_action_execution`, `transaction_rollback`) | none | order, coordinate, roll back | topological; no circle is ordered; compensation in reverse |
| Execution (`execution_policy`, `approval_execution_bridge`, `action_execution`, `execution_audit`, `execution_observation`, `execution_reconciliation`) | records, traces, observations | enforce, execute, audit, observe, reconcile | once, approved, traced, judged truthfully |
| Governed actions (`governance/*`, `actions/gateway`) | policies, audit | evaluate, execute | every effect between its audit records |
| Control intelligence (`control_intelligence`, `closed_loop_observation`, `outcome_learning`, `execution_reliability`, `orchestration_intelligence`) | last result | approve, observe, learn, grade | nothing forgotten silently; grades follow the counts |
| Synchronization (`cloud_sync`, `offline_connectivity`, `distributed_event_collection`) | queue, buffer, seen ids | prepare, acknowledge, fail, collect, clear | the buffer mirrors the queue |
| Distributed nodes (`distributed_*`, `service_host`) | trust, requests, host, runtime | register, submit, decide, start, stop | a decision lasts; a status is true |
| Identity mapping (`identity_mapping`) | two caches and a table per mapper | map, look up, restart | one identity per external one |
| Operational history (`operational_*`, `operations/*`, `historical_intelligence`) | three tables | save, correlate, range, clear | clearing takes no row's evidence away before the row |
| Security layer (`security/*`) | blocks, windows, workflows, users, tokens, credentials | decide, block, contain, analyze, enroll, provision | engines that decide alike agree; a block is kept |
| Workforce (`services/*`, `adapters/manager`) | none, an adapter | sessions, hours, scores, devices | sessions disjoint; alerts have a reason |
| Predictions and decisions (`predictive_*`, `*_forecast`, `decision_*`, `*_fusion`) | last results | analyze | one scope, one answer; stronger first |
| Background intelligence (`intelligence/background_*`) | seen ids and keys of seven stages | start, process, stop, reset | the stages agree; each context is reported once |
| Organization analysis (`intelligence/organization_*`) | the graph and its staleness | refresh, validate, analyze | what the graph drops is reported; analyses agree |
| IT edition (`it/*`) | none | analyze portfolios | cycles, impact and shortfall are real |

### 1.4 What is hard here

* Check-then-write over separate SQLite transactions in concurrent workers.
* State in memory (pending arguments, OAuth states) next to state on disk.
* Audit, events and counters written after the change they report.
* A stop with a timeout while a cycle is still running.
* Restart with partly written or corrupt files; a clock that goes backwards.
* Retries after a partial success; messages queued offline and replayed.
* Caches of several engines about one plan, filled and cleared apart.
* Two or three places that hold one fact (memory, file, adapter, queue, buffer)
  when a call between their changes raises.
* Conclusions joined by an id or a scope that is not unique.

## 2. Plan

The order is by how much depends on a component and how hard it is to test.

| # | Modules | Abstract specification | Theorems | Status |
|---|---|---|---|---|
| 1 | `AgentRuns`, `ActionGovernance` | `ActionGovernance` | every safety property, the refinement | done |
| 2 | `CollectionScheduler` | | types, lifecycle, `cycle_count`, `events_collected` | done |
| 3 | `TrialSubscription` | | every invariant | done |
| 4 | `EmbeddedRuntime`, which extends `CollectionScheduler` | | recovery, stored state, license, what is shown | done |
| 5 | `OrganizationState` | a log of which the snapshot and every subscriber are the last entries | every invariant | done |
| 6 | `Conversations`, `UserMemories`, `WorkspaceDocuments`, `AssistantCredentials` | | every invariant and action property; liveness is checked | done |
| 7 | `ActionPlans`, `ControlPipeline`, `ExecutionHealth`, `ActionExecution`, `GovernedActions`, `ControlIntelligence` | | every invariant and action property | done |
| 8 | `LicenseActivation`, `IntegrationLifecycle`, `IdentityProviders`, `OfflineSync`, `DistributedNode`, `ControlPlane`, `HostDefense`, `AccessDecisions`; `OperationalHistory`, `Workforce` | | every invariant and action property | done |
| 9 | `Predictions`, `DecisionFusion`, `BackgroundIntelligence`, `OrganizationGraph`, `ReportingStructure`, `ITEdition` | reference definitions (least sets, paths) inside the properties | every invariant and action property | done |

The project keeps to about a dozen runs, each a system of parts: modules that share
no state are explored by one run, whose initial state selects the part, and
their properties are grouped by what they are about.  Every module is written
to be proved about: no `RECURSIVE` operator, constants with named assumptions,
one action per operation, invariants in named parts.  The `MC*` modules hold
what TLC needs: functions over model values, symmetry, the selection of a part,
and the groups of properties.

## 3. Modules and the code

Below, "history" variables record what happened for the properties to speak
of; no guard reads them, except those that count faults against a bound.

### 3.1 `AgentRuns` (with `ActionGovernance`)

`app.py` 1163-1461 with `agent.py`, `tool_execution.py`, `audit.py` and the
tables of `db.py`.  A worker serves one request at a time; `pc[t]` is where it
is, `req[t]` the run it is about.  An action is one SQLite transaction, one
file-system call or one change of `pending_agent_arguments`.

| Variable | Code |
|---|---|
| `status`, `approvalRequired`, `cancelRequested` | columns of `agent_runs` |
| `stepStatus` | `agent_steps.status` of the plan's only step |
| `audit` | rows of `audit_events`, as pairs of run and event |
| `pending` | keys of `pending_agent_arguments` |
| `creator`, `whole` | the file system below the approved roots: who created a path, whether all of its content is there |

`CreateCheck`/`CreateInsert`, `ApproveCheck`/`ApproveUpdate`,
`CancelCheck`/`CancelUpdate`/`CancelClear` and `ExecuteCheck`/`ExecuteStart`
are the four handlers: the SELECT and its guards, then the write.
`LoopCheck` ... `Clear` follow `execute_agent` through one step: cancellation
check, step start, arguments, tool (`ToolCheck`, `ToolCreate`, `ToolFill`),
verification, completion.  `Log` is every `audit.record()`.  `DatabaseBusy`,
`ClearRaises` and `Crash` are the faults: a locked database, an iteration over
a dictionary another worker resizes, the end of the process.

`ActionGovernance` is what the agent promises without workers, transactions or
failures; `AgentRuns` implements it with `opened` the stored runs that need no
approval and `shown` the completed ones.

Abstractions: plans of one step (a plan of several reuses the same loop body);
the content of a file is complete or not; roles, argument checks and paths that
a tool refuses are one nondeterministic refusal.

### 3.2 `CollectionScheduler`

`office/adapters/scheduler.py`, the cycle of `adapters/runtime.py`, the list of
`registry.py` and the delivery of `operations/bus.py`.  Threads are callers of
`start`, `stop`, `set_enabled`, `run_once` and the loop threads `start` makes.

| Variable | Code |
|---|---|
| `enabled`, `event`, `ref` | the flag, `_stop_event`, `_thread` |
| `call[c]` | the line of `start`/`stop` the caller is at |
| `loop[l]` | life of a thread: unused, made, started, dead |
| `cycle[w]` | a cycle under way: adapters left, the current one, its tries, events got |
| `cycles`, `events` | `_cycle_count`, `_events_collected` |
| `registered` | names in the registry |
| `begun`, `raises`, `published`, `lost`, `orphans` | history |

A step is what another thread can observe: one read or write of the event or of
the reference, one adapter call, one section under the lock.  The join of
`stop` may time out at any moment; the adapters of a cycle come in any order;
an adapter that is not there any more raises in `require`; a handler may raise
in the middle of a delivery.  The two reads of `_thread` on line 190 are one
step.  The per-adapter statistics, written in the same locked section as the
counters, are left out.

### 3.3 `EmbeddedRuntime`

`office/runtime.py` with `runtime_state.py`.  It EXTENDS `CollectionScheduler`:
`EnterScheduler` and `EnterStop` call its `Start` and `StopSet`, the scheduler's
own steps go on in `Background`, and `SchedulerStarted`/`SchedulerStopped` take
up where the call returns or raises.  `rpc[c]` is the line of the runtime's
`start`/`stop`.  No lock is held there, so the test of `_running`, each write of
`_running`, of `_license_blocked` and of `_runtime_state` is a step of its own
(`RuntimeStart`, `MarkRunning`, `SetBlocked`, the `Show...` steps), and every
`save()` is one that succeeds or fails, inside or outside of the try as in the
code.  Two calls may therefore cross, and leave a runtime that runs and shows
"stopped"; `overlapped` is a history of that, and `RunningIsShown` says what holds
whatever overlapping calls left: one call alone mends it.  `LicenseChanges` is the trial manager seen
from here (3.4), `Crash` the end of the process and the start of the next one,
which has `stored` only.  Not modelled: a runtime built without persistence,
`set_enabled` while embedded, `collect_events` of the runtime, and what a
restored integration contains.

### 3.4 `TrialSubscription`

`licensing/trial_subscription.py`, `trial_persistence.py`, the control server's
opening (`windows_service/runtime.py` 71-81) and the license derived from the
subscription.  `sub` is the manager's subscription, `file` what `load()` would
return (`NoSub` when absent or unreadable), `clock` the machine's day.
`Open(d)` is a start of the server configured as deployment `d` (another
deployment may have used the file before), `Refresh`, `Activate`, `Renew`,
`Suspend` the operations with their save, which may raise after memory has
changed; `Close` is a stop or a crash, `ClockMoves` lets time pass or sets the
clock back, `FileLost` removes or damages the file while no process runs.
`granted`, `unpaid` and `due` are history.  Days stand for timestamps:
only comparisons with the end and additions of whole days occur.

### 3.5 `OrganizationState`

`office/central_server.py` (`reconcile_users`, `reconcile_systems`,
`replay_events` and the constructor's restore), `organization_events.py`,
`organization_event_persistence.py`, `organization_event_bus.py`,
`organization_state.py`.

| Variable | Code |
|---|---|
| `mem` | `_user_state`, `_system_state` |
| `stored` | the snapshot tables |
| `log` | the event table in the order of ids |
| `job` | the reconciliation under way and what is left of its list |
| `subs`, `view` | the bus's subscriptions, what each handler was last told |
| `caught`, `unheard`, `suspect`, `unsaved` | history |

`Begin` starts a reconciliation; each `Compare(e, v)` takes one record of the
list (or one id that is gone): unchanged, save of the event raises, or
announced, that is stored and published, where a handler may raise.  The list
is drawn record by record, so TLC explores every list, with an id named once or
twice.  `Commit` replaces and saves the snapshot.  `Inserted`/`Ignored` are
`INSERT OR IGNORE` on the unique key of type, entity and timestamp: equal
timestamps, from a coarse clock or one set back, are a choice.  `Replay`
publishes the table, to the end or to a handler that raises; `Restart` loads the
tables.  The order of ids is any order; a handler that raises counts as told,
since it was called.  Not modelled: the in-memory event store beside the table,
the configuration and connection flags, an adapter without its persistences.

### 3.6 The stores of the assistant

`MCAssistant` explores them one at a time.  A request is a sequence of SQLite
transactions and of what it does between them; each is an action.

| Module | Code | State | Actions |
|---|---|---|---|
| `Conversations` | `app.py` 874-1015, `context.py`, `provider.py` | `conv`, `msgs` the tables; `asking[r]`, `question[r]` where a request is and the history and answer it holds | `Ask` selects the conversation; `AskStep` counts, inserts the question, reads the history, asks the provider, counts again, inserts the answer; `CreateConversation`, `DeleteConversation` |
| `UserMemories` | `app.py` 1035-1161 and 806-830, `memory.py`, `context.py` | `memory` the table, `edit[w]` the row and the changes of a request | `CreateCount`, `CreateInsert`, `UpdateSelect`, `UpdateWrite`, `Delete`, time |
| `WorkspaceDocuments` | `app.py` 727, 1463-1629, `document_index.py`, `retrieval.py`, `workspace.py` | `roots`, `docs`, `index` the tables, `file` and `dirs` the disk | `AddRoot`, `RemoveSelect`/`RemoveDelete`, `IngestSelect`/`Extract`/`Store`, `SearchSelect`/`ReadSelect`, then `LookUp` and `CheckFile` of each hit and `Serve`, changes on the disk |
| `AssistantCredentials` | `app.py` 549-660; `credential_vault.py` | `pending` the states of the process; `vault`, `temp` two files, `copy[w]` the document an operation has read | `ConnectIntegration`, `IntegrationCallback`, `DisconnectIntegration`, restart; `VaultRead`, `VaultWrite`, `VaultReplace`, a crash |

An id of a new message, memory or conversation is random and never used again;
a root's id is, as SQLite gives it, the number after the largest in the table,
which a removal makes free.  Texts are lengths or versions.  A search looks every
hit up again and checks its file, each in a step of its own, and serves what passed
in the end (`passed`); a retrieval goes on with the rows it had, and a read is a
search with its only hit looked up.

* `ConversationsKept`: a conversation exceeds its limit by fewer messages than
  requests are under way (`OvershootBounded`); a deleted one is empty; a
  question without an answer was answered with an error; what is handed to the
  provider lies before the question and within its bound.
* `StoresKept`: the memories exceed their limit by fewer than there are
  workers, and what enters a prompt fits; the index says what the table says, a
  document has its root, and an ingestion nobody disturbed stores what it read;
  a callback is accepted once and for a state that was issued to that user and
  has not expired; a stored credential is lost only when another operation
  held an older copy of the file.
* `RequestSteps`: an update changes the fields it names only; what a search, a
  retrieval or a read returns is approved at that moment, although it was looked
  up and checked earlier, between steps that remove roots and give their ids away:
  the foreign key of the documents is what keeps the root; a removal takes away the root it
  saw, or one that was given its id afterwards.
* `RequestsEnd`: every question that was accepted is answered or refused.

### 3.7 From a decision to its execution

`MCActions`, again one part at a time.

| Module | Code (`office/`) | State | Actions |
|---|---|---|---|
| `ActionPlans`, its first part | `action_planning`, `action_simulation`, `what_if_intelligence`, `policy_constraints` | what each alternative of a decision is planned from, the constraints | a fact is gained; a constraint comes |
| `ActionPlans`, its second part | `dependency_aware_execution`, `cross_system_coordination`, `multi_action_execution`, `transaction_rollback` | any dependency graph over three actions, foreign ids among their dependencies and targets, on two systems, with ids in any order (`IdRank`); what is committed and undone | `Commit`, `PlanRollback`, `Compensate` |
| `ControlPipeline` | `unified_control_runtime`, `unified_control_orchestration`, `control_orchestration`, `decision_dependencies`, `execution_scheduling`, `human_approval_queue`, `action_approval` | the caches of the five engines, the request under way, the last result | `Analyze` with `Orchestrate` for each plan, `Clear`, `Decide`, `Ready`, `Cancel`, `Complete` |
| `ExecutionHealth` | `orchestration_intelligence`; `execution_reliability` | the facts an orchestration is graded from; how the executions of a kind of action ended | they change one by one |
| `ActionExecution` | `execution_policy`, `approval_execution_bridge`, `action_execution`, `execution_audit`, `execution_observation`, `execution_reconciliation`, `execution_intelligence_runtime` | workflow, constraints, executor, records, traces, observations, verdicts | `ExecuteStart`/`ExecuteEnd`/`ExecuteInterrupted` around an executor that may call back, `Audit`, `AnalyzeExecution`, `AnalyzeObservation` |
| `GovernedActions` | `governance/*`, `actions/gateway` | policies, the audit in memory or in rows | `Evaluate`, `AuditAuthorized`, `AuditDenied`, `GatewayExecute`, `AuditResult`, `GovRestart`; a write of the persistent audit and an executor may raise, also past `except Exception` (`Interrupted`) |
| `ControlIntelligence` | `control_intelligence`, `closed_loop_observation`, `outcome_learning` | the result each reviewer holds, the last one kept | `AnalyzeDecision`, `ApprovePlan`, `ObserveOutcome`, `Learn` |

* `PlansAgree`: urgency is outweighed by evidence, confidence or reach only; an
  order is found exactly for the graphs without a circle and without a missing
  dependency, and it is topological; what the analysis blocks is the greatest
  set each member of which depends on another of it (the reference definition);
  systems follow their actions; while a plan is rolled back nothing in effect
  depends on what is compensated.
* `PipelineKept`: a plan with dependencies of its targets is never queued,
  however often it is tried; queue and schedule agree through every cache; the
  last result is complete; nothing is completed before its time; a plan
  without remarks is healthy, and exactly an approved one cannot be analyzed.
* `ExecutionsKept`: a gateway runs an action once, also when its executor calls
  the gateway again; it was approved and not banned when it began; a trace
  tells how it ended; a verdict of success rests on one; no two verdicts
  contradict each other; an effect lies between its audit records, and the
  persistent audit has an end for every authorization but those that an exception
  of the audit, one that is no `Exception`, or a restart interrupted; an excellent kind of action has few flaws; a lesson is of what
  was approved and observed.
* `ActionSteps`: gaining a fact never turns the preference away from its
  alternative, a blocked one is not freed by what it gains, what a human
  decided stands, a decision never raises a risk, one more success never lowers
  a level, and the runtime forgets an approval only when it is handed a result
  that was not the last one.

### 3.8 The platform

`MCPlatform`, one part at a time, the trial of 3.4 among them.

| Module | Code (`office/`) | State | Faults |
|---|---|---|---|
| `LicenseActivation` | `licensing/{runtime,activation,persistence,enforcement,entitlements,hardening,license_model,license_validation}` | activation in memory, the file, the day | a save that raises, a damaged file, restarts |
| `IntegrationLifecycle` | `integration/{runtime,model,persistence,registry,bridge,collector}`, `adapters/runtime` | the integration, its adapter, its row | any call of the adapter, any save, the end of the process |
| `IdentityProviders`: mappings | `identity_mapping`, `identity/*` | two caches per mapper, the shared table | a save that fails, a race of two mappers, restarts |
| `OperationalHistory` | `operational_*_persistence`, `operations/*`, `operational_timeline`, `historical_intelligence` | the three tables, a clearing under way; `loose`, a history of what was saved without its evidence | rows saved in any order and during a clearing; the process ends between two tables |
| `OfflineSync` | `cloud_sync`, `offline_connectivity`, `distributed_event_collection` | queue, buffer, seen events | failed and repeated synchronizations, malformed events |
| `DistributedNode` | `distributed_*`, `service_host` | trust, requests and results, node, host, runtime | every save of start and stop, an expired license |
| `ControlPlane` | `security/organization_control_plane` | organizations, users with managers, rules, tokens, nodes | managers that do not exist or form a circle |
| `HostDefense` | `security/{adaptive_defense,containment,host_runtime}`; `request_guard`; `operations_runtime` and what it composes | scores, blocks, restriction; the sliding window; events and workflow of an incident | |
| `AccessDecisions` | `security/{core,runtime,identity_runtime,zero_trust,unified_policy,unified_runtime,enforcement_boundary,fail_safe}` | what holds of one request (whether its review was waived included) and of the host | conditions come and go |
| `IdentityProviders`: provisioning | `security/provisioning` | progress in memory, two files | a write that fails between the two, restarts |
| `Workforce` | `services/{attendance,work_session,workforce,attendance_discovery}`, `adapters/manager` | attendance events and employees handed in, in any order; ports and devices | |

`PlatformInit` starts one part, `PlatformNext` leaves the others alone; an
unexplored part has one initial state.  The times a limiter keeps for a key are
a set of numbered requests, so that two requests of one moment stay two.

* `TrialSafe`, `PaidTimeKept` (3.4).
* `IntegrationsKept`: a license's memory and file agree unless a save failed or
  the process ended, and the hardening assessment is of the license that is
  active; a row says what a restart needs, an adapter is connected exactly when
  its integration says so while nothing has raised, and a disabled one never
  is; an identity stands for one external one; the wizard shows no step that the
  process does not have.
* `HistoryKept`: the tables take any row, its evidence stored or not, so what is
  stated is of the clearing: it leaves no situation without its signals and no signal
  without its event, wherever it ends, but for rows saved without their evidence or
  while it was under way; a correlation partitions the signals by user, and a
  situation none of whose rows is such leads to all of its events; a range of the table is that of the timeline up to
  the offset its bounds are written with; patterns connect what they should.
* `NodesGoverned`: the buffer mirrors the queue up to `clear_failed()`, what is
  shown for sending is open, an envelope handed out has its record; nothing is
  approved that was not eligible; node and host agree, and both agree with the
  embedded runtime but in the states `StatusIsTrue` names (a start that ended with an
  expired license, a stop that raised at its first save), which the code reaches;
  nothing executes a plan here; the chain of managers ends, for any hierarchy, with everyone
  above or with an error.
* `HostDefended`: a source at the threshold was blocked; no window of any
  position exceeds the limit, and a refusal means a full one; what waits for a
  human was detected; two engines that share no code do not contradict each
  other, a restricted host is denied, and nothing is allowed without an
  authorization, nor without an approval unless the caller waived the review.
* `WorkforceMeasured`: sessions of one employee are disjoint whatever the order
  of the events, sizes of departments add up, a department at risk has a member
  at risk; every device is found once, with its serial port.
* `PlatformSteps`: a file of an earlier process is changed by an activation or a
  reset only, a repeated activation keeps its day, a restored integration is
  frozen, what a mapper answers is stable, no attempt is forgotten, a human's
  decision lasts, nodes multiply only under a valid token, a signal never
  shortens a block, an event never lowers a severity, losing a condition never
  helps, provisioning is not taken back, closed sessions stand, a port stays
  with its device, and (3.9) only situations of one instant make an analysis
  raise.

### 3.9 What the platform concludes

The part `"analysis"` of `MCPlatform`; `topic` selects one.
These modules are functions of what they are given and of what they remember;
the state is the input, which grows step by step, and the memory.

| Module | Code (`office/`) | State |
|---|---|---|
| `Predictions` | `baseline_trend`, `historical_pattern`, `predictive_signal`, `risk_forecast`, `recurrence_prediction`, `workload_forecast`, `predictive_situation`, `prediction_explainability`, `predictive_decision_context`, `predictive_intelligence_runtime` | situations recorded per scope and day, the last result |
| `DecisionFusion` | `current_historical_decision_fusion`, `predictive_decision_fusion`, `decision_priority`, `decision_evidence_graph`, `decision_explanation`, `decision_intelligence_runtime` | the last result with its ranking and explanations |
| `BackgroundIntelligence` | `intelligence/background_*` | what each of the seven stages has seen |
| `OrganizationGraph` | `intelligence/organization_{runtime,graph,validator}` | the lists of organizations, locations, departments, teams, employees |
| `ReportingStructure` | `intelligence/organization_{relationships,capacity,workload,workload_risk,dependency,coverage}`, `organizational_intelligence_runtime` | managers and workloads |
| `ITEdition` | `it/it_{dependencies,workload_capacity,risk_escalation,tickets,devops,edition_runtime}` | one portfolio and the capacities |

Probabilities and scores are integers (of 10000), the code's are rounded
decimals; ids are numbers, as the code orders them.  `evidence_level` of a
prediction is always "strong" in this runtime: every explanation is given more
factors than the threshold.  What the code sorts, filters or searches for is
written by what it finds: the place of an element of a sorted list is past all
those ahead of it (`Sorted`, stable as Python's sort), the entry kept of an id
listed twice is that of its greatest place (`Entry`, `CapacityOf`), and of
several equally good matches any may be the first (`FirstOfBest`).  The walks
(`Climb`, `PathsFrom`, `Above`) take as many steps as there are members or nodes.

* `PredictionsBacked`: the situations of one scope are answered alike, although
  their forecasts are joined by scope; a high priority has a recurrence behind
  it.  In the background: a context holds the latest observations however the
  batches are cut, the stages have seen the same, a context is reported once
  and for events observed in it.
* `DecisionsGrounded`: a decision depends on the contexts of its own scope
  only; a prediction never makes it less urgent; what is stronger in every
  respect is ranked first; an id is explained once, with evidence of its own.
* `OrganizationUnderstood`: whatever the graph drops is reported, and where
  nothing is reported the path of an employee is what the entry says; depth
  equals the length of the chain (defined without a walk), analyses that answer
  agree.
* `ITUnderstood`: the cycles found are simple closed paths, each told once, and
  leave out no dependency inside a cycle; the impact is the transitive closure;
  a shortfall is somebody's; one risk is on top; critical attention is drawn
  wherever one of its reasons holds.

## 4. Runs

| Run | Instance | What it shows |
|---|---|---|
| `agent_races` | 2 workers, a write and a mkdir of one path | effects governed, completed means done, two action properties and the refinement, in every interleaving |
| `agent_faults` | 2 workers, 1 write, 2 faults | the inductive invariant with faults; cancellations drain, running runs settle |
| `agent_terminal` | 2 workers, 1 write | a finding (6.1) |
| `scheduler` | 1 caller, 2 loops, 1 adapter, 1 retry, 2 cycles, batches of 0-2 | lifecycle, counters, stop and survival |
| `runtime_one` | 1 caller, 2 loops, 2 faults, 1 crash | recovery, stored state, license, stop gets through |
| `runtime_two` | 2 callers, 2 loops, 1 fault | calls that overlap: what they leave, one call alone mends |
| `runtime_failed_start` | 1 caller, 1 loop, 1 fault | a finding (6.2) |
| `organization` | 1 user, 1 system, 3 states, 2 subscribers, 2 stored events | snapshot, table, adapter and subscribers agree |
| `assistant` | see below | 3.6 |
| `actions` | see below | 3.7 |
| `platform` | see below | 3.4, 3.8, 3.9 |
| `background_patterns` | 3 events of 3 types, 2 cycles | a finding (6.3) |

Why the bounds are enough to be of interest:

* Agent runs: each race in the code is between two handlers of one run or of
  two runs with one target; two workers and two runs hold all of them.  Faults
  strike at most twice, so that a fault can hit the handling of another one.
* Scheduler: two loop threads let a stop time out and a later start make a
  second loop beside the first; two cycles let the two collect at the same
  time; one retry separates `<` from `<=`; batches of two let a handler raise
  with something delivered and something kept back.  When the loop identities
  or the cycles are used up, a `start` or a loop waits for ever, while calls of
  `stop` and the registry go on; `SurvivesFailures` is therefore stated up to
  `MaxCycles`.
* Runtime: two callers are the fewest that overlap; adapters are left out
  (`Adapters = {}`), their behaviour is the scheduler's run; what the runtime does depends only on whether the scheduler
  lives, raises or times out.
* Trial: two deployments, a payment shorter and one longer than the trial; days
  enough for a trial to end, be renewed, and end again; a failed save.
* Organization: two active states and an inactive one give every type of event,
  and an update between two active states; one entity per kind suffices for
  properties that speak of one entity, and the theorems are for any number.  Two
  stored events hold an add and a removal, or an ignored third; the first
  subscriber takes everything, the second users only.
* Assistant: two requests, the smallest number that races; a conversation of two
  messages and a history of two, so that both limits are reached; questions
  that fit the prompt and that do not; two paths and one file, so that an id of
  a root is used again for another user; two writers of one credential.
* Actions: three actions are the fewest with a circle and something outside of
  it; two plans and two times fill every cache twice; one plan suffices for an
  execution, whose record is by plan; twelve executions are where every
  threshold of the reliability rates lies; two reviewers for one result.
* Platform: two of everything that can disagree, and the fewest steps that let
  each end come twice: three identities for two mappers and two names, three
  users for a circle of managers, three signals for a threshold that is met
  exactly, three attendance events for a session and what disturbs it.  Every
  clock reaches past the lifetimes measured with it.
* Analyses: four members (a chain of three and one outside), entries with every
  kind of reference and one listed twice (`MCEntries`), contexts that match by a
  shorter name, an alias, or not (`MCHistorical`, `MCPredictive`), ids that run
  against time (`MCIdRank`), three nodes with cycles of two and of three.  The
  thresholds of the background stages are those of the code.

`CHECK_DEADLOCK FALSE` appears where everything bounded is used up in the end:
run ids and their runs, the requests of the assistant, plans that are decided
and executed once, histories and clocks.

Symmetry is used where the properties are invariants or action properties and
never with liveness.

## 5. Fairness

* `AgentRuns!FairSpec`: weak fairness of each worker's `Step`.  A worker thread
  that has accepted a request is scheduled until it answers; SQLite and the
  file system return.  No client has to send a request, and no fault has to
  happen.
* `CollectionScheduler!SchedFairSpec`: weak fairness of every loop thread and of
  a call under way.  Adapters and handlers return (with a result or an error)
  and the wait of the loop ends after its interval.  Nobody has to call.
* `EmbeddedRuntime!FairSpec`: the same for `start` and `stop` of the runtime and
  the scheduler inside it.
* `MCAssistant!AssistantSpec`: weak fairness of each request under way; the
  provider answers or fails.  Nobody has to ask.
* The other modules have no liveness: every operation is a call somebody
  may or may not make, and what has begun ends within one step or by its caller.

## 6. Findings

1. `agent_terminal`: `app.py:1301` and `1376` refuse what is "already terminal",
   but the UPDATE statements name the run only, so a handler that checked
   before a run finished writes over its terminal status.  The properties that
   hold all the same (no step after a drained cancellation, completed means
   done) rest on `cancellation_requested` and on the exclusive creation of files.
2. `runtime_failed_start`: when the last save of `start()` fails the scheduler
   is running; the handler marks the runtime failed and leaves the loop, and
   `stop()` then returns early.
3. `background_patterns`: the pattern stage marks a context as processed when it
   first sees it, before any threshold is tested
   (`intelligence/background_pattern.py` 188-190).  A context that collects its
   observations over several cycles is never recognized, although the module
   says it recognizes repeated patterns; only a single batch that brings enough
   events of one context is.

Read in the code, not claimed by any text of it, and kept as the code has it:

* an activated subscription never expires in `can_run_yoma()`, while its license
  is invalid from the last day on; the tests ask for exactly that answer, and
  `LicenseAgrees` is stated for the other three states
* the parallel creations that exceed the run limit by the workers in flight
  (`LimitHolds` gives the bound)
* a step that failed in one execution and completed in another keeps the last
  status
* an approval whose audit record is lost is still an approval
* a cycle whose delivery raises is counted twice
* a loop whose join timed out is forgotten, and wakes up to further cycles when
  `start()` clears the event
* an adapter that vanishes loses the whole cycle's events
* a list that names an id twice, last as it was before, sends an UPDATED event
  that the snapshot does not follow
* a stop whose last save failed is taken for a clean end
* a damaged `subscription.json` reads as no file, and the next start grants a
  new trial (`OneTrial` and `EndHolds` are about a file that stays readable)
* a vault used by two writers loses what was stored between the read and the
  rename of the other
* `complete()` of a schedule asks for no approval of its queue item
* an orchestration with dependencies of its targets can never be scheduled
* an approved queue item makes the analysis of its orchestration raise
* a blocked attempt takes the place of the audit trace of a later execution
* a source whose score stays above the threshold is allowed again when its
  block ends
* an enrollment token enrolls until it expires
* two situations of one instant make the whole predictive analysis raise
* of two decisions of one signal the last one is explained
* the top risk of the IT edition need not be one that it recommends to
  escalate, and its "downstream" impact counts the nodes upstream
* a reconciliation publishes events about users and systems, while the
  organization runtime listens for organizations, locations, departments, teams
  and employees: nothing in the repository makes it stale.

## 7. Proofs

All theorems hold for every value of the constants allowed by the assumptions.

* **Agent runs** (`AgentRunsProofs`).  None of the safety properties is
  inductive: that an effect was approved needs to know where every worker is.
  `IInv` adds that: an id being inserted belongs to one worker (`InsertInv`),
  requests are about stored runs (`StoredInv`), a run in execution needs no
  approval and never will (`ApprovedInv`), the audit records behind each place
  are there (`LoggedInv`), what a worker past its tool knows of the effect
  (`WorkInv`), what a created path says of its run (`CreatorInv`), what
  completion says (`CompletedInv`).  `Invariance` proves it, and from it
  `ApprovalGate`, `AuditAhead`, `CompletionTruthful`, the action properties
  `CreationIsFinal` and `CancellationHolds`, and `Implementation`, that every
  step is one of `ActionGovernance` or a stutter.  `PendingDropped` has an
  invariant of its own (`PendingInv`: pending content of a finished run has a
  worker about to drop it), and so has `LimitHolds` (`LimitInv`: runs stored and
  being inserted, together).  `RunsBounded` is proved without a run: the
  smallest instance that says anything needs three runs.
* **Scheduler** (`EmbeddedRuntimeProofs`).  Types and `CycleCount` hold for
  any number of callers: cycles counted, plus threads inside a cycle not yet
  counted, is cycles begun plus deliveries that raised; the cardinality lemmas
  `Enter`, `Leave` and `Stay` say how the set of threads inside moves.
  `EventCount` does the same for the events those threads hold: that a sum over
  a finite set exists and may be split at any member is proved from the function
  the sum is made of (`SumExists`, `SumSplits`), by induction on the number of
  members.  The lifecycle theorems hold for one caller (`OneCaller`, as the
  hypothesis of the invariant since it speaks of a constant): `SchedInv` says
  which loops can live and whose the reference is at each line of `start` and
  `stop`.
* **Runtime** (`EmbeddedRuntimeProofs`).  `SchedulerStep` shows that every step
  but a crash is a step of the scheduler or leaves it alone, so `SchedInv`
  carries over; `PointInv` ties the runtime's line to the scheduler's, to what
  is marked running and to what is stored.  The five properties of one caller
  follow.  `RunningAlwaysShown` holds for any number of callers: as long as no call
  overlapped another since the last rest, its invariant (`ShownInv`) says that one
  caller at most is inside, and by its line what is marked, shown and stored.
* **Trial** (`ServicesProofs`).  `TrialInv`: the file follows every
  grant and every stored end (`EndKept`), and while no save has failed memory
  equals the file and reaches what was paid.
* **Organization** (`OrganizationStateProofs`).  `OrgInv` relates, for every
  entity, the last event in the table to the snapshot being built (`Announced`)
  and to what each subscriber that has heard everything was told (`Heard`).
  That a set of places in the log has a greatest one is carried as an
  invariant of the state (`LastPlaces`), which an event more preserves.

* **Assistant** (`AssistantProofs`).  `ConvInv` says of every request, by its
  place, what it has stored and that the history it holds is older than its
  question (`RequestInv`); the messages beyond a limit are counted by the
  requests still between count and insert.  `MemInv` does the same for
  memories; that a context fits is proved through the function `FoldLeft` is
  made of, which is unfolded place by place (`SumFold`, `KeepFold`).  `DocInv`
  ties the index and the documents to the roots and follows removals and
  ingestions through their transactions (`HoldsInv`: what a request read, and
  that the id it saw belongs to the root it saw or to one added later; `GatherInv`:
  every hit found and every one that passed still has its document, and with it,
  by the foreign key, the root it was found under).
  `OAuthInv` ties every pending state to the grant it was issued by, `VaultInv`
  the copies of the vault's document and the temporary file to what must not be
  lost.  `ConversationsAreKept` and `StoresAreKept` are the groups of 3.6,
  `RequestsAreHonest` its action properties.
* **Decisions to executions** (`ActionsProofs`).  `PlansAlwaysAgree` holds for
  any dependency graph over any number of actions, whatever the order of their ids
  and with foreign dependencies and targets: the rounds of ready actions grow
  and stop, what they do not reach is the greatest set each member of which
  depends on another of it, and numbering actions by round gives the order
  (`RoundsAlwaysGrow`, `CirclesAreNotReached`, `OrderExists`).  `OrderInv` says
  that what is committed is a beginning of that order, a rollback the reverse of
  what was committed, and what is undone a beginning of the rollback.  `PipeInv`
  relates the caches of the engines, the queue and the schedule; `ExecInv` has
  one part for each plan's execution (`ExecutionInv`: its record, how often its
  executor ran, its trace and what was observed of it) and one for its verdict
  (`VerdictInv`); `GovInv` counts audit rows against effects and against the
  executions that were interrupted; `RelInv` counts
  executions by outcome, `HealthInv` types the facts of an orchestration and
  `EvalInv` those of a decision; `ControlInv` says that what a reviewer holds
  was approved and observed (`IsEarned`).  `PipelineIsKept`, `ExecutionsAreKept`
  and `ActionsDoNoHarm` follow.
* **Platform** (`PlatformProofs`).  `PlatformInv` is the conjunction of what is
  inductive in each part: `LicenseInv`; `IntegrationInv` (an adapter held is
  registered, one that is not has no connection and no configuration);
  `MappingInv` (there is a function from the identities issued to the external
  identities they were drawn for, and table, caches and saves under way agree
  with it); `ProvisioningInv`; `SyncInv` (the buffer mirrors the queue, what is
  synced was acknowledged); `NodeInv`; `PlaneInv`; `DefenseInv`; `LimiterInv` (a
  request the limiter has forgotten has left its window); `OperationsInv`;
  `AccessInv`; `HistoryInv` (what is in a table without its evidence is loose, and
  while a clearing is under way the tables it has come past hold nothing else).  A part that is not explored stands still in an initial state
  that satisfies its invariant, so all hold together.  That the walk up a
  hierarchy ends is proved for any number of users: a chain does not repeat a
  user (`Walked`), so after as many steps as there are users it has ended
  (`ChainHasEnded`).  `IntegrationsAreKept`, `HistoryIsKept`,
  `NodesAreGoverned`, `HostIsDefended`, `WorkforceIsMeasured`, `PredictionsAreBacked`,
  `OrganizationIsUnderstood`, `DecisionsAreGrounded` and `ITIsUnderstood`
  state groups of 3.8 and 3.9, `PlatformStepsKept` is `PlatformSteps`, and
  `StepsDoNoHarm` says the same of every step, whatever part takes it.
* **Services** (`ServicesProofs`, which `PlatformProofs` extends).  A sum over a
  finite set exists, may be split at any member, grows with its weights and is
  bounded by them (`SumExists`, `SumSplits`, `SumGrows`, `SumAtMost`); a fold
  over a list goes through a run of states, one step an entry (`FoldRuns`), and
  two runs that meet the same entries agree (`RunsAgree`).  From these:
  * *Workforce.*  `WalkIsSound`, by induction over the events of an instant and
    then over the instants: at every point of the walk the sessions closed are
    in order, end before the open one began, and begin and end at events handed
    in; so for every list of events (`SessionsAlwaysDisjoint`).
    `WalkOfAppend`: an event later than the others is walked last, whence
    `ClosedSessionsStand`.  `AverageIsBacked`: were every score of a department
    below 70, so would be the rounded average of the scores (`SumAtMost`,
    `RoundedBelow`).
  * *Devices.*  `TakeIs` says what one more device does to the candidates (no
    two become one device, those with a serial port stay), `FoundIsSound`,
    `SerialAreSerial` and `WindowsKeep` carry it over the lists.
  * *Predictions.*  `PredictionInv`: the last result is the answer about some
    history within the bound.  Trends and scores follow from sums over days
    (`OverDaysGrows`), so more situations never lower a confidence
    (`SurerWithMore`), and no score is high without a recurrence
    (`AlarmsNeedRecurrence`).  Nothing but an interval of zero is refused
    (`RefusedIs`): every score the code adds up stays within one, the evidence
    of an explanation at exactly one when all six factors count (`StrengthIs`),
    windows end after they start (`WindowsAreForward`), and the interval is zero
    just where a scope has two situations and one day (`SpanIs`,
    `IntervalIs`); hence `OnlyInstantsFail`.
  * *Background cycles.*  `BackgroundInv`: an event is observed once between
    resets, a context that was reported has been seen, and what it keeps are the
    latest of its observations.  Forgetting before or after one more observation
    leaves the same (`KeepLatestOnce`), which is why the cut of the batches does
    not matter.
* **Conclusions** (`IntelligenceProofs`, which `PlatformProofs` extends).  These
  modules conclude from lists, so the inductive invariants only say what is
  listed (`GraphInv`, `StructureTypeOK`, `FusionInv`, `ITInv`), and the work is
  in the operators.  A step repeated goes through a run of states (`IterRuns`),
  as a fold does.
  * *Reporting structure.*  `DepthAlwaysExact`: a climb that passes no member
    twice is as long as the chain above (`ClimbIs`, `WalkPassesSuperiors`), and
    one that comes back to a member says so (`WalkMeetsItself`).
    `AnalysesAlwaysAgree`: the spans and workloads of the managers add up to
    those of the members they manage (`SumOfParts`).
    `HighAlwaysRare`: were more than half of the members at twice the average, their
    work would exceed the total (`SumAtLeast`).
  * *Organization graph.*  `DroppedReported`: a reference of an entry that is no
    edge of the graph has an issue that names both; `PathsAgree`: without an
    issue, each relationship of a node is the reference of its entry.
  * *Decisions.*  A sort finds for every place exactly one element
    (`PlacesAre`, `SortedIs`), whatever the order it sorts by.  The fused
    priority is at least that of the context alone (`AloneIsLower`), whence
    `NeverLowers`; a decision more urgent and no weaker in any other respect scores higher
    (`TotalGrows`), and the id breaks ties only, whence `StrongerFirst`; of the decisions with
    one id the last is explained (`ExplainIs`), with a score that the ranking
    gives to that id (`ExplainedRight`).
  * *IT edition.*  `Reaches` quantifies over closed sets and the code walks, so
    the two are brought together by paths: who is reached is reached by a path
    that passes no node twice (`ReachesByPath`, by the set of all nodes such
    paths end in, which is closed), and a path leads only to what is reached
    (`PathReaches`).  A cycle written from its least node is the same circle
    (`CircleIs`, `FromLeastIs`, `TurnedIs`), so that `CyclesExact` follows.
    `ReachesIsAbove` does the same for the levels of the upstream search, which
    stand still after as many steps as there are nodes.  `HoursCompare` walks
    the list of capacities and counts the work of a member at the last of its
    entries; `OneIsOnTop` takes the risk that outranks the most.

Induction over the natural numbers is done through the least counterexample
(lemma `Induction`), which needs no theorem with an operator parameter.

Some properties of the runs are groups of the invariants proved:
`EffectsAreGoverned`, `SchedulerIsKept`, `RuntimeIsKept` and `TrialIsSafe`
state the groups.

The assumptions on the constants are of three kinds, all evaluated by the runs:
a marker for "nothing" is not one of the values (`NoRow`, `NoActivation`,
`NoIntegration`, `NoRecord`, `NotGoverned`, `Unmapped`, `NoCredentials`,
`NoAnalysis`), as `None` is not in Python; sets that the code holds in memory
are finite; limits and bounds are natural numbers, and where the code writes a
number (a threshold, a window) the assumption is what the code's number
satisfies.

Model-checked only, and why:

* liveness (`RunningSettles`, `CancelDrains`, `StopEndsLoops`,
  `SurvivesFailures`, `StopCompletes`, `RequestsEnd`): the prover has neither
  fairness nor `ENABLED`.

Every other property of a passing run is stated by a theorem.

## 8. Not modelled

`PROJECT.json` lists each component with its reason.

* Device and network I/O: voice and audio, the assistant's provider and tools,
  the probing of ports, the providers of identities, the Google clients beyond
  their authorization, the HTTP surface, the Windows service shell and
  installers.
* Login, signed cookies and settings (`security.py`, `config.py`): one request
  each, no protocol of several steps.
* Assessors that grade a description and change nothing: deployment, release
  and upgrade checks, and those analyses under `office/intelligence` and
  `office/it` that count over one list.
* Texts, wording and layout everywhere; the bytes of the vault's encryption.
