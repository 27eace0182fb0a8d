# A TLA+ model of ModelIntegrator

ModelIntegrator is a control plane for locally hosted language models: one
*controller* (HTTP API, SQLite store, services) and one *agent* per node that
polls the controller for work. This directory models the program in
`src/src/` with TLA+, checks the models with TLC on small instances and proves
the main safety results with TLAPS for every value of the constants.

All paths below are relative to `src/src/` unless they start with `src/`.

## 1. The system

| component | code | state it keeps | operations |
|---|---|---|---|
| task service | `pkg/service/task_service.go` | none of its own: the rows of table `tasks`, one goroutine per runtime task | create a runtime task, create an agent task, execute, await, take a report |
| SQLite store | `pkg/store/sqlite/store.go` | tables of tasks, models, nodes, agents, instances, test runs; one connection | upsert, get, list, claim |
| agent | `cmd/agent/main.go` | the task at hand (in memory only), the llmfit process | register, heartbeat, poll, execute, report |
| runtime object service | `pkg/service/runtime_object_service.go` | runtime instances (memory or store), `reconcileMu` | sync from model, reconcile once / one / summary, take an agent observation |
| model service | `pkg/service/model_service.go` | model registry, `nodeActionMap`, `refreshMu` | load, unload, start, stop, refresh, projection from an instance |
| scheduler | `pkg/scheduler/scheduler.go` | policy per model, running model per exclusion group | CanRun, MarkRunning, MarkStopped |
| agent registry | `pkg/service/agent_service.go` | agents in memory and in the store | register, heartbeat, report capabilities, list with computed status |
| node service | `pkg/service/node_service.go` | node registry and stored nodes | list with health checks, take an agent observation |
| test runs | `pkg/service/test_run_service.go` | rows of test runs, one goroutine per run | create and start, run a scenario |
| runtime templates | `pkg/service/runtime_template_service.go` | template registry | validate, register, list |
| adapters | `pkg/adapter/lmstudio`, `pkg/adapter/dockerctl` | LM Studio: a cached model list | list, load, unload, start, stop, status |
| managed llmfit | `pkg/fit/managed_serve.go` | the child process, its health counters | start, stop, supervise, restart |
| API | `pkg/api` | none | one handler per route |
| start-up | `cmd/controller`, `pkg/config`, `pkg/preflight`, `pkg/capability` | none | read configuration, wire the services |

How they interact:

- A client posts a runtime task. The task service asks the runtime object
  service to reconcile the instance and refuses a start that its gating
  forbids; otherwise it writes a row and starts a goroutine.
- The goroutine delegates start, stop and refresh to the agent of the node when
  that agent is preferred and online: it writes an agent task and polls its
  row. Otherwise, and when the delegation fails or 40 s are over, it calls the
  model service, which calls an adapter.
- The agent polls, claims the oldest pending task of its id, reports "running",
  executes, and reports the result. Each report rewrites the row and passes the
  observation on to node, model and instance services.
- A background loop reconciles all instances; another one refreshes the models.
  Both write the same records as the requests above.

What is hard: two sides that share rows without a version or a guard on the
status; calls that are abandoned by their client but still served; a claim
whose answer is lost; executors that exist only in memory; whole-record writes
of data read earlier; locks that protect one caller but not the other. The
`hazards` of `PROJECT.json` list each of these with its line.

What makes each component correct:

- *tasks*: work is executed at most once, a recorded success is earned, a
  terminal row is final, an unfinished task has an owner or a fault to blame,
  and tasks end.
- *instances*: no start is let through while another instance occupies the same
  exclusive resource; plans and observations are not lost; a deferred start is
  not deferred for ever by one that is itself deferred.
- *models and scheduler*: one action at a time on a node; two models of one
  exclusion group run together only if something other than an action caused it;
  registry, store and scheduler come back to what the containers are.
- *agent registry*: what an agent reported is kept in memory and in the store, a
  silent agent is not shown online, and one that calls is online again and again.
- *agent tasks on the node*: a success was true while the task ran, a verdict is
  the sum of its checks, a port verdict has a cause, and every task returns.
- *managed llmfit*: one process at most, none after Stop, and it comes back.
- *node service*: a report is not lost to a listing that began after it; registry
  and store come to say what a listing finds.
- *test runs*: each ends; the binding a run borrows is given back and nothing is
  started through it.
- *templates*: what is listed is valid, and a generated binding resolves.
- *LM Studio cache*: cache, registry and table do not stay behind the server, nor
  forget what they knew but to an older copy.

## 2. Modules

| module | stands for | status |
|---|---|---|
| `TaskLedger` | abstract: what the task table promises to readers | done |
| `TaskProtocol` | tasks, executors, agent loop, report handlers, store | done |
| `MCTaskProtocol` | instances of it for TLC (symmetry of agents) | done |
| `TaskProtocolProofs` | its theorems | done |
| `RuntimeGating` | one reconcile, observation or sync as functions of rows: target action, conflicts, gating, plan, readiness, drift | done |
| `RuntimeReconcile` | who reads and writes the rows: the loop, callers, reports, actions of the model service | done |
| `MCRuntimeReconcile` | instances of it for TLC (rivals of one kind, rivals on one port) | done |
| `RuntimeReconcileProofs` | its theorems | done |
| `Scheduler` | the running model of each exclusion group, as functions of one map | done |
| `ModelLifecycle` | container models: actions with lock, scheduler and adapter, refresh, scan, projection, start-up | done |
| `MCModelLifecycle` | instances of it for TLC | done |
| `ModelLifecycleProofs` | its theorems | done |
| `NodeContext` | what an agent reads out of a task's payload, and the verdict of a precheck, as functions | done |
| `NodeTasks` | what the agent does on its node for each type of task (extends `NodeContext`) | done |
| `MCNodeTasks` | the tasks TLC hands out | done |
| `NodeTasksProofs` | theorems about `NodeTasks` | done |
| `ManagedServe` | the llmfit process: start, supervision, restart, Stop | done |
| `ManagedServeProofs` | its theorems | done |
| `AgentRegistry` | agents in memory and in the store, and the agent's calls | done |
| `AgentRegistryProofs` | its theorems | done |
| `NodeService` | one node in memory and in the store: listings, reports, start-up | done |
| `TestRuns` | the scenarios, two runs at a time | done |
| `TestRunsProofs` | its theorems | done |
| `LMStudioCache` | the adapter's cached list, and all who write a listed model into registry and table | done |
| `RuntimeTemplates` | templates, their manifests, the bindings of a model | done |
| `MCTemplates` | the templates, uploads and bindings TLC uses | done |
| `MCServices` | the seven parts above as one specification for TLC | done |
| `ServicesProofs` | theorems about the parts, as theorems of `MCServices` | done |
| `TextTime` | text order of the stored timestamps, a pure function | not written |
| a composition | gating at creation with the later start of `TaskProtocol` | not written |

`MCServices` INSTANCEs the modules of the parts that share no state. A behaviour
chooses one of its `Parts` at the start, moves that one and leaves the others in
an initial state; the reachable states are the disjoint union of the parts' own,
and each property is that of its module. A liveness property is stated under the
fairness of the part it is about. Three of the parts are instances of the modules
with their theorems, and `MCNodeTasks` extends `NodeTasksProofs`: so `ServicesProofs`
can use them.

Abstract specifications worth stating: the ledger (done); for `AgentRegistry` a
register with atomic updates that memory and store both implement. Every invariant
and every action property that a passing run checks is the subject of a theorem of
section 7; what is left to TLC alone is liveness.

The project asks twelve questions, one run each:

| run | module | expects |
|---|---|---|
| `safety`, `live`, `fallback` | `MCTaskProtocol` | pass, pass, a counterexample |
| `settle`, `admission`, `deferral`, `sync` | `MCRuntimeReconcile` | pass, then counterexamples |
| `exclusion`, `record`, `refresh` | `MCModelLifecycle` | pass, pass, a counterexample |
| `nodes`, `controller` | `MCServices` | pass, pass |

## 3. `TaskProtocol`

### State

| variable | code |
|---|---|
| `tasks[t]` | the row: `type`, `assigned_agent_id`, `status`, `progress`, and of `detail` only `execution_path` (`path`; agent tasks have none and keep the initial value) |
| `nextID` | the clock behind `newTaskID`; ids grow, as `created_at` does |
| `pc`, `sub`, `outcome` | the goroutine `executeRuntimeTask`: where it is, the id of its sub-task, what it will write last |
| `apc`, `atask`, `aresult` | `pollAndExecuteTask` of agent `a`: where it is, the task in its local variable, the result |
| `requests` | calls of `ReportAgentTask`: `sent`, or `read` with the row the handler holds (`seen`) |
| `runs`, `calls` | history: executions by agents, calls of the model service |
| `hit`, `aFaults`, `cFaults` | history: tasks touched by a fault; fault budgets |

### Actions

| action | code |
|---|---|
| `CreateRuntimeTask`, `CreateAgentNodeTask` | the functions of those names; the row and, for the first, the goroutine |
| `ExecDispatch`, `ExecBegin` | the first two `patchTask` calls of `executeRuntimeTask` |
| `ExecSkipAgent`, `ExecDelegate`, `ExecDelegateFails` | the three ways out of the first part of `tryExecuteRuntimeTaskViaAgent` |
| `ExecAwaitDone`, `ExecAwaitTimeout` | `AwaitTask` returning a terminal row or its limit |
| `ExecFallback` | the patch that records the fallback |
| `ExecDirect`, `ExecRestartStop`, `ExecRestartPatch` | the calls of the model service, restart being stop, patch, start |
| `ExecFinish` | the last patch, or `failTask` |
| `AgentPoll`, `AgentPollLost` | `ClaimPendingTaskForAgent` with its answer received or lost; one transaction on the only connection, hence one step |
| `AgentReportRunning`, `AgentExecute`, `AgentReportFinal` | the rest of the agent's loop; a report is sent here and served below |
| `AgentGivesUp`, `AgentCrash` | the client's 10 s limit or a failed call; the process gone |
| `HandlerRead`, `HandlerWrite`, `HandlerDrop` | `ReportAgentTask`: the read, the whole-row upsert with the answer, or a call that is never served |
| `ControllerCrash` | stop and start on the same database; nothing is resumed |

A failed upsert is a second outcome of `PatchTask`, as in the code: it is
logged and the goroutine goes on. Time is abstracted: a limit may expire
whenever the code waits. What the model service answers, whether an agent is
online or preferred and whether an input resolves are arbitrary choices.

### Runs

All runs instantiate `MCTaskProtocol`. `MaxTasks` bounds the rows,
`MaxAgentFaults` and `MaxControllerFaults` the faults; every behaviour ends when
the rows are used up, so deadlock is not checked.

| run | instance | shows |
|---|---|---|
| `safety` | 2 agents, 3 tasks, restart + refresh + node tasks, 1 fault per side | `TypeOK`, `AtMostOneRun`, `SuccessIsEarned`, `StuckOnlyByFault`, `TerminalIsFinal`, and that the table implements `TaskLedger` |
| `live` | 1 agent, 3 tasks, start + node tasks, 1 fault per side, fair | `RuntimeTasksEnd` (goroutines fair), `AgentTasksEnd` (agents and handlers fair too) |
| `fallback` | 1 agent, 2 tasks, no fault | a counterexample to `FallbackExcludesAgent` |

Why the bounds are enough for what they show: a delegation takes two rows, so
three rows let a refresh open its sub-task and its snapshot, or a delegated
task compete with a node task for the same agent. Two agents let a report
arrive from an agent that does not own the task. One fault of an agent lets it
abandon a report that is still served later, lose a claim, or crash with a
report in flight. The safety results that are proved below do not depend on any
bound.

Symmetry of agents is used only in the run `safety`, which checks invariants and
properties of single steps.

Fairness: `ExecutorFairness` is weak fairness of each goroutine's next step; Go
schedules goroutines, and the ticker and the timer of `AwaitTask` fire.
`AgentFairness` adds that every agent keeps polling (the ticker of its loop)
and that the server answers calls (`net/http` runs each handler). Nothing
obliges a fault to happen or not to happen, and a client need not ask anything.

### The divergence found

`FallbackExcludesAgent` states what `src/doc/LOG.md` says of the fallback: it is
for a sub-task that is unavailable or has failed, so the controller and the
agent do not both act. The code (`task_service.go:427`) falls back on every
error of `AwaitTask`, its 40 s limit included, and leaves the sub-task
claimable; the counterexample has no fault: the wait expires, the controller
calls the model service, and the agent then claims and executes the sub-task.

## 4. `RuntimeGating` and `RuntimeReconcile`

### State

| variable | code |
|---|---|
| `rows[i]` | the row of instance `i` in table `runtime_instances` (or the map without a store): desired and observed state, readiness, drift reason, precheck gating, gating status, last lifecycle plan |
| `models[i]` | the desired state in the model record the instance belongs to |
| `mutex` | `reconcileMu` |
| `list` | the slice `RunInstanceReconcileOnce` works through |
| `pc`, `kind`, `item`, `copy`, `owed`, `wish` | a thread's place, what it was called for, its instance, the row in its local variable, the release targets it has still to write, the desired state in its local copy of the model |

`RuntimeGating` is pure: every decision of `reconcileRuntimeInstanceInternal`
and its helpers is an operator on rows. Instances are numbered in the order of
their ids, in which `ListRuntimeInstances` returns them. `NodeOf`, `KindOf`,
`PortsOf` and `Misbound` say what their manifests and bindings resolve to.

Abstractions of the data: drift reasons are grouped by how later steps treat
them (only `desired=...` is ever cleared, the others differ by name only);
reasons, messages and the conflict summary explain a decision and are left out,
so that precheck status "failed" and precheck gating are one Boolean, as the
code sets and tests them together; the agent's signals (offline, stale) are an
arbitrary choice of `Signals`; each model has one instance, as the bootstrap
creates them, so `duplicate_model_instance` cannot occur.

### Actions

| action | code |
|---|---|
| `Call` | a request arrives: a task start (or restart), stop or refresh, a direct action, the background refresh of a model, a report that names its instance, a `GET` of the summary |
| `ReportWrite` | `ApplyAgentTaskObservation` after its read: facts, clamp, drift, whole-row write; then it reconciles |
| `Acquire`, `PassBegin` | `ReconcileRuntimeInstance` and `RunInstanceReconcileOnce` taking `reconcileMu` and reading one row, or all |
| `Evaluate` | `reconcileRuntimeInstanceInternal` with the fresh list for its conflict check |
| `Release` | one target of `applyReleasePlanToTargets` |
| `ReconcileEnd`, `PassNext`, `PassEnd` | the copy written back and projected onto the model; the next item of the old list, or the mutex given up |
| `SummaryEnd` | the summary returned without a write of its own row |
| `ActionBegin`, `ActionResult` | `executeAction`: desired state stored first, its copy of the model stored again with the adapter's result and with the status after it; `NodeIsFree` is the node lock |
| `RefreshBegin`, `ActionResult` | `RefreshRuntimeStatus` and the background refresh: no node lock, one store |
| `SyncRead`, `SyncWrite` | `SyncModelRuntimeObjects`, which every store of a model causes: the existing row read, merged and written back whole, without the mutex |
| `ActionEnd` | refused, delegated to the agent, failed in the adapter, or done |

A row and its projection are written in one step, and so are the read and the
write of one release plan; every other read and write of a row are separate
steps. Store writes do not fail here. The stop that precedes the start of a
restart, and the additional store of an unload that stops first, are left out:
both repeat steps the model has.

### Runs

All instantiate `MCRuntimeReconcile` with instances on one node; `MaxCalls`
bounds the calls, the loop runs for ever. Two instances are what a conflict
takes, and the list order makes them different; `settle` has three, so that one
of them is at once in the way of a rival of its kind and of a rival on its port.
Clients may rest, so deadlock is not checked. In `settle` every reconcile may
find the agent offline or the observation stale, whatever the one before found,
and the instances start in three mixtures in which the slot is contested: all
want it, one has it, or one has it and only one of the others wants it. The three
counterexamples need no such signal, so their runs leave it out.

| run | instance | shows |
|---|---|---|
| `settle` | 3 instances, two of one kind and two on one port, 1 call (action, start, report with a failed precheck among them, refresh, summary), any signals, fair | `TypeOK`, `GatedIsExplained`, `PlanMatchesGating`, `PlansSettle` |
| `admission` | one kind, 2 callers, 3 starts | a counterexample to `AdmissionExcludesRivals` |
| `deferral` | one kind, both wanted and stopped, the loop alone, fair | a counterexample to `DeferralsEnd` |
| `sync` | a background refresh and a report | a counterexample to `SyncKeepsFacts` |

`PlansSettle` is the promise of the planner once callers rest: whatever calls,
lost writes and release plans came before, the loop brings every row to the plan
its stored state calls for. Without a condition on the agent it says that a
running or unwanted instance keeps no load, that a taken slot, a failed precheck
or a forbidden binding is never granted, and that an instance whose rivals are
neither running nor wanted is granted or blocked, never left deferred. Which of
the two it is follows what the loop finds out about the agent (`SignalsSettle`,
for each instance by itself): granted once it keeps finding the agent online and
the instance observed within the last two minutes, blocked once it keeps finding
one of the two amiss. The code counts a wanted instance that was never observed as
stale at once and any other one two minutes after its last report, so with nobody
reporting it is the second case that comes. With two rivals that are both wanted
nothing is promised about who gets the slot (see `deferral`).

Fairness: strong fairness of a caller's taking the mutex (`Acquire`), because
`sync.Mutex` hands the lock to a waiter that has starved for a millisecond, while
the loop takes it again and again; weak fairness of every other step of a thread
that is under way, and of the loop, whose ticker fires for ever. The calls are
finite, so weak fairness is enough for the loop's own turn at the mutex. No call
is obliged to come.

### The divergences found

- `AdmissionExcludesRivals`: the gating is evaluated at task creation and
  `desired=running` is stored later by the task's goroutine. In between only the
  plan load/planned occupies the slot, and the next pass of the loop replaces it
  by none, since desired is still stopped. A second start then passes.
- `DeferralsEnd`: a deferred plan counts as occupying the slot, so two wanted and
  stopped instances of one kind defer each other in every pass. The theorem
  `DeferralsNeverEnd` (section 7) shows that it is so in any topology.
- `SyncKeepsFacts`: a sync that read before a report and writes after it undoes
  what the agent reported.

Two more habits of the code show in the model without a document that promises
otherwise: a pass that writes an unload plan to the rival of a deferred instance
may overwrite it when it comes to that rival with its older list, and drift
reasons other than `desired=...` are never cleared.

## 5. `Scheduler` and `ModelLifecycle`

### State

| variable | code |
|---|---|
| `container[m]` | the container of model `m` at the engine: none (`stopped`), there (`loaded`), `running` |
| `memory`, `stored` | `State` of the model in the registry and in table `models` |
| `observed` | `ObservedState` of the model's runtime instance |
| `running` | `runningByGroup` of the scheduler |
| `busy` | `nodeActionMap` |
| `pc`, `op`, `item`, `copy`, `seen` | a thread's place, its operation and model, the state in its local copy of the model, the container state it was told |
| `blamed` | history: the groups that something other than an action has disturbed |

Of a model only the state is kept. Its desired state and the rest of its instance
are in `RuntimeReconcile`. `busy` as a model state is treated like `running` by
the code and left out; "error" is never stored by it. Groups come from the
configuration and span nodes; `GroupOf` and `NodeOf` are constants.

### Actions

| action | code |
|---|---|
| `Begin` | a request, or the next item of a loop: the operation reads what it will work with (registry, row, or instance) |
| `ActionLocks`, `ActionFindsBusy` | `tryLockNodeAction`, after the model was read |
| `ActionAdmit`, `ActionRefuse` | the checks of `executeAction`: template, adapter, state, `CanRun` |
| `ActionPrestop` | the stop that precedes the unload of a running model |
| `ActionCall`, `ActionCallFails`, `ActionOverlooks` | the adapter: done; failed after some of its requests; an inspection failed, so the container is taken for missing |
| `Mark` | `MarkRunning` or `MarkStopped`, and the state in the local copy |
| `QueryAnswered`, `QueryOverlooks`, `QueryFails` | `GetStatus` in `reconcileContainerModel`, of an action or a refresh |
| `Store` | registry and store written with the whole local copy |
| `View`, `Scan`, `Save` | `GetModel` and `ListModels` (they cache the row), `refreshLocalModels`, `SyncRegistryToStore` |
| `RowWrite`, `ReportReconciles`, `Project` | a report of the agent, the reconcile of an instance, `ApplyRuntimeInstanceProjection` |
| `Outside` | a container changes without the controller: it exits, an agent or a user starts, stops or removes it |
| `ControllerRestart` | a new process on the same database: `SetStore`, an empty scheduler, no locks |

A task that is delegated to an agent starts its container without passing
`executeAction`; it is a case of `Outside`. The adapter returns every failure as
an unsuccessful result and never as an error, so a failed action still stores
its copy and queries the status; `ActionCallFails` does so. The registry and the
store are written one after the other in the code and in one step here. A loop
takes its models one at a time; its list is read per model, not per pass.

### Runs

All instantiate `MCModelLifecycle` with models of one group on one node.
`MaxCalls` bounds what clients ask, `MaxOutside` the restarts, failed
inspections and changes from outside; the loops run for ever. Clients may rest,
so deadlock is not checked.

| run | instance | shows |
|---|---|---|
| `exclusion` | 2 models, 2 clients, 3 calls of any action, refresh, report, reconcile or read, 1 disturbance | `TypeOK`, `OneActionPerNode`, `OverlapHasCause` |
| `record` | 1 model, 1 client, 2 calls (start, read, report), both loops, 1 disturbance, fair | `RecordSettles` |
| `refresh` | 1 model, 1 start, both loops, no disturbance, fair | a counterexample to `RecordFollowsRuntime` |

Two models on one node are what the node lock and the scheduler are about, and
a second client meets the lock. Three calls let an operation overlap two others.
Two starts on two nodes need two locks and are covered by the proof, which
counts the race of their checks among the causes (`Rushes`). Models and clients
are symmetric in `exclusion`, which checks invariants only.

`OverlapHasCause` does not say that two models of a group never run together:
in this code they do, after a restart, a stale status, a failed start that took
effect, or two starts on two nodes. It says that these are all the causes.
`RecordSettles` needs the instance to hold what its container is, because
without an agent's report nothing else corrects it (see below).

Fairness: each loop's ticker fires for ever and each pass comes to every model
(strong fairness of its `Begin`, as the same goroutine also scans and saves);
steps under way go on; a status that is asked for again and again is answered
at last (strong fairness of `QueryAnswered` for each model). Clients are owed
nothing.

### The divergence found

`RecordFollowsRuntime` states what `src/doc/LOG.md` says of the refresh: the
model's state is what its container is. The reconcile loop also writes that
state, from the instance's observed state, which a direct start does not change:
after one start both loops write the record in turn, and the scheduler with it.

## 6. The parts around tasks and models

### `NodeContext` and `NodeTasks`

`pc`, `task`, `report` are where `executeAgentTask` is, what it executes and what
it has found; `container`, `foreign`, `files`, `hung` and `transport` are the
node: its one container, the ports other processes hold, the paths that exist,
whether the docker daemon answers, and whether docker is reached by its CLI or by
its API. `was` remembers what the node has been since the task began. A payload
is two layers of fields, as the controller writes it, and `Resolved` is
`resolveAgentTaskContext`: texts from the top level first, flags from the nested
one first, and the result written back to both.

A task is one action per probe (`CheckModelPath`, `CheckMounts`, ...,
`CheckPorts`, `Finish` of the precheck, one each of the other types), and between
two of them the node may change: the container is moved by the controller's own
adapter or dies, files and ports come and go, docker hangs. A docker call may
fail, or be given up, with or without its effect.

| property | says |
|---|---|
| `SuccessWasTrue` | what a successful task reports was true of the node at a moment of its execution |
| `VerdictIsSum` | a precheck gates exactly if there is a reason, in whatever order failures and warnings came |
| `PortVerdictHasCause` | a port conflict is due to another process or to one of five named ways in which the runtime is mistaken for one; a port held all the time is found |
| `NodeTasksReturn` | a task ends, unless a docker command hangs: the CLI is run without a limit |

### `ManagedServe`

`pc` has the two goroutines `main` and `super`; `managed`, `cancelled`, `cmd`,
`fresh`, `healthy`, `fails` are the fields of the manager and the process a start
has in hand; `proc` the processes, `told` and `orphans` those told to stop and
those whose agent has gone. `Boot`, `ReadContext`, `Exec`, `Install` are the steps
of `Start` and `startProcess` between which the lock is free; `Supervise`,
`NeedRestart`, `Kill`, `GraceEnds` of the supervisor and its restart; `StopBegins`
and `Cancel` of `Stop`, which main and the supervisor both call; `Watch` of the
goroutine that waits for a process.

Two assumptions about time: a killer that a cancelled context starts acts within
the 2 s of grace, and what is told to stop is gone when the grace ends, as it is
killed then. `OneProcess`: at most one process has not been told to stop.
`CleanStop`: when main leaves, everything it started has been told to stop. It
excepts the moment the supervisor is inside its own `Stop` or has a process it has
not recorded (`SuperBusy`): the second caller of `Stop` returns at once without
waiting, so the agent can be gone before the first has killed the process.
`src/doc/LOG.md:661` says that the agent stops the process at shutdown; a signal
during registration also ends the agent by `os.Exit`, without `Stop`.
`ServiceReturns`: under supervision the service is healthy again after every
crash, hang and failed start. Fairness: goroutines are scheduled, processes that
are killed end, a start neither misses its deadline for ever (strong fairness of
`Load`) nor waits beyond it.

### `AgentRegistry`

`memory` and `stored` are the row of one agent; `call[c]` what the controller does
for a call, with the row it has read; `phase`, `able`, `awaits` the agent, which
registers, reports, and then sends heartbeats from the loop that also runs tasks;
`contact` the age of its last call; `list` a reader that writes the rows it has
read from the store back into memory. `HeartbeatReads` and `HeartbeatWrites` are
two critical sections, `Saves` comes after the lock is given up, and a call that
the agent gives up after 10 s goes on here. An awaited call is given up before the
TTL of 45 s is over; the model assumes this order of the two limits.

`StoredIsKnown`, `OnlineIsRecent`, `ReportKept` and `SeenOnline` are the
properties. `ReportKept` excepts rows that were read before a report and written
after it (`overtaken`): this does happen, and the agent does not report again.
`SeenOnline` says that an agent is online again and again whatever fails; in
between a long task may show it offline. Fairness: the agent is started again,
calls and tasks end, and its select loop is not for ever taken by tasks (strong
fairness of `Call`; Go's `select` chooses at random).

### `NodeService`

`registry` is the node in memory, `row` the one in the store. A node is copied,
but its runtimes are a slice that copies share: `arrays[a]` are the arrays, and a
copy refers to one. `held[t]` is the copy of a call, `answers[l]` what a listing
has found. `Begin`, `Read`, `Probe` (one per runtime), `Apply` and `Save` are the
steps of `ListNodes` between its blocking calls; `Observe`, `Record`, `Save` those
of `ApplyAgentTaskObservation`. In-memory work between two blocking calls is one
step; the read of a slice that another goroutine writes is taken to see a whole
value. `Boot` is `SyncRegistryToStore`, `Crash` the end of the process.

`ReportStays`: what a report noted stays in memory and, once saved, in the store,
unless a call that had read the node before it writes it back, or a start has the
node in its configuration. Both happen: a listing keeps its copy through all its
probes, and a configured node always has metadata, so `mergeNode` prefers it to
what the store kept and `SyncRegistryToStore` writes it back. `NodesCatchUp`:
with the answers constant, registry and store come to say what a listing finds.
Nodes are listed when a client asks; the property assumes that one asks again and
again. One listing and one report, two runtimes or none to check, one change and
one failed read or write: two of either overlap in the same ways, and two
million states were not worth the third actor.

### `TestRuns`

`record`, `at`, `scenario`, `failing`, `saved` are a run and its goroutine, `task`
its task, `binding`, `gated`, `ready` the instance it works on, `late` the
prechecks nobody waits for. A phase is a scenario, a step one call of the
services. The gating scenario changes the binding and puts back what it read, in a
deferred function. `Edit` is the operator, `Crash` the controller.

`SuccessIsWhole`: a success has no failed step behind it, the restore included.
`BindingComesBack`: the binding is the operator's when no run has it, unless two
such runs overlapped, the operator changed it meanwhile, or the restore failed or
was lost. `NoStrayStart`: a run that was alone never has its start accepted.
`RunsEnd`: every run is recorded as ended although tasks may never end, because
each wait has a limit. Two runs of the full, the local and the gating scenario and
one fault are what an overlap takes.

### `LMStudioCache`

`server` and `dialect` are the truth; plain lists do not say whether a model is
loaded. `cache`, `registry` and `row` are what the adapter, the model registry and
table `models` hold of one model, as if it were the only one. Five threads work on
them: the cache loop (`loop`), the refresh after an action (`async`), the model
service's refresh (`list`), an action (`action`) and a request that does not reach
the server (`request`: a GET, or an agent's report). The first four ask the server
and then store the answer as the cache, in any order. Who writes the registry has a
copy (`copy`) of the whole model it read before:

- `executeAction` writes it with the desired state before it calls the adapter and
  again afterwards, also when the call has failed (`ActionBegin`, `Put`, `Post`);
- `ListModels` and `GetModel` merge the row over it and put that back, which may
  bring back a model that is not listed any more (`RequestBegin`, `Look`);
- the refresh replaces the models of the backend by the list (`Merge`, `Replace`)
  and then writes the registry into the rows (`Sync`, `Save`);
- `SetStore` loads the rows when the controller starts (`Restart`).

The write of the registry (`Put`) and of the row (`Save`) are two steps, as they are
in the code. `behind` is history: the copies, the row among them, that are older than
the registry's last change.

`UnknownKeepsKnown`: a known state becomes unknown only where such an older copy is
written, or an older row loaded. A refresh of a plain list that was not overtaken, a
failed action that was not, a GET of a row that has been saved: none of them loses
it. `CatchesUp`: once the server is left alone and no more requests come, the cache
is what it lists, and registry and row follow, whatever older answers and copies were
still to be stored, as the loop and the refresh go on; `src/doc/LOG.md:968` describes
this cache. A row outlives its model, since rows are only upserted: each later GET of
the models brings the removed model back until the next refresh. That is why requests
are finite here.

One dialect that says the state and the plain one are checked; others differ in the
field. Actions of one node exclude each other, so there is one at a time; what an
action read before it had the lock of its node is left out here (`ModelLifecycle` has
it), as are failing store writes. LM Studio takes a start for a load, so a running
model counts as loaded. No runtime instance exists for its models
(`SyncModelRuntimeObjects` skips them), so no projection writes them.

### `RuntimeTemplates`

`listed` are the templates in memory, `rows` the manifests and `bindings` the
bindings of one model in the store. A template is a record of what validation and
compatibility look at: whether image and its alias are set, which of the two port
lists are, its kinds and capabilities, its manifest. `Normal` is what
`ValidateTemplate` makes of it, `Valid` whether it has no errors (the rules of
single fields are the flag `sound`). `Manifested` is `GetTemplateManifest`, which
stores the manifest of a template the first time it is asked for; `SyncModel` is
`ensureBindingForModel`. Reads of the store do not fail here.

`ListedIsValid`: what is listed passes again and is not changed by it.
`BoundResolves`: a generated binding names a listed template and a stored
manifest of it, through failed writes and restarts, unless an upload has mixed the
template up with another (`claimed`): its manifest bore the id, or was said to be for
the template, of another. `Synced` is `SyncTemplateManifests`, a recursion over the
templates in their order. `VerdictFollows`: the binding that counts
is judged by the template as it is now, once models are synced again. Five
requests are enough for an upload, its binding, a restart and an upload anew.

### Runs

| run | parts | properties |
|---|---|---|
| `nodes` | `NodeTasks`, `ManagedServe`, `LMStudioCache`, `NodeService` | `NodeSideTypeOK`, `SuccessWasTrue`, `VerdictIsSum`, `PortVerdictHasCause`, `NodeTasksReturn`, `OneProcess`, `CleanStop`, `ServiceReturns`, `UnknownKeepsKnown`, `CatchesUp`, `ReportStays`, `NodesCatchUp` |
| `controller` | `AgentRegistry`, `TestRuns`, `RuntimeTemplates` | `ControllerTypeOK`, `StoredIsKnown`, `OnlineIsRecent`, `ReportKept`, `SeenOnline`, `SuccessIsWhole`, `BindingComesBack`, `NoStrayStart`, `RunsEnd`, `ListedIsValid`, `BoundResolves`, `VerdictFollows` |

The bounds are those of the parts: `MaxChanges` changes of the node, `MaxTurns` turns of
LM Studio (two changes at the server, actions, requests or restarts),
`MaxCrashes` processes that die or hang, `MaxAgents` new agents, `MaxFaults` failed
writes, lost calls, crashes and edits, `MaxRequests` and `MaxWriteFaults` for the
templates. Three processes let a restart overlap one that is left behind; two
calls let one the agent has given up overlap its successor. One value of `Caps`
besides none is enough for what fails there: something reported, or nothing; that
it is the latest is proved for any capabilities. LM Studio has the
model loaded and speaks the plain dialect at first, and the model is not in the
table or stored as stopped: a known state is met by a list that does not say it, and
two turns let an action and a request, or a GET and a refresh, overlap. Nothing obliges
clients or faults to come, so deadlock is not checked.

## 7. What is proved

Every theorem holds for all values of the constants that its hypotheses admit; the
hypotheses are named in each section. What the proofs of the node service found out
about its model: `Arrays` had one array too few when two listings overlap, since the
registry and every call may each refer to another one, and `Free` then chose from
nothing. No run had two listings, so none showed it.

### The task protocol

`TaskProtocolProofs` proves, from the three assumptions of `TaskProtocol`
(`NoAgentIsNone`, `BoundsAreNat`, `RequestsAreKnown`, which only say that the
constants are of the right kind) and from nothing else:

| theorem | statement |
|---|---|
| `TypeCorrect` | `Spec => []TypeOK` |
| `RunAtMostOnce` | `Spec => []AtMostOneRun` |
| `SuccessBacked` | `Spec => []SuccessIsEarned` |
| `UnfinishedIsOwned` | `Spec => []StuckOnlyByFault` |
| `TerminalRowsStay` | `Spec => TerminalIsFinal` |
| `ImplementsLedger` | `Spec => LedgerSpec` |

The argument. `AtMostOneRun` is not inductive: that `runs[t]` is still 0 when an
agent executes depends on where every agent, every report and the row are. The
inductive invariant `IInv` adds

- `RowsOK`: rows at and above `nextID` are empty, those below are not; a row
  that is pending or dispatched has not been run; a terminal agent row has;
- `HoldersOK`: the task an agent holds is its own, has the status its place in
  the loop implies, and no two agents hold the same task;
- `ReportsOK`: a report in flight, even one whose sender is gone, is for a row
  in the status that precedes it, and the row a handler has read is still the
  row in the table, so its whole-row write loses nothing;
- `OneReportPerTask`: no two reports of one task are in flight, which is why
  that read stays current;
- `ExecsOK`: a goroutine's row is its own, not terminal, and its sub-task is an
  agent row; what it is about to write is already earned.

One lemma per action (`...Keeps`) shows that the action preserves `IInv` and
maps to a step of the ledger or a stutter; `NextKeeps` puts them together, and
`Invariance` is `Spec => []IInv`. `TerminalIsFinal` and `LedgerSpec` follow step
by step from `IInv`: that a report never meets a terminal row is `ReportsOK`.

`StuckOnlyByFault` needs a second invariant on top of `IInv`, `OwnedInv`: a row
that is not terminal and was hit by no fault has its goroutine, is still to be
claimed, or is held by an agent (`Explained`), and an agent that waits for an
answer has its report in flight (`WaiterHeard`). The
second is what the first lacks at the step at which an answer arrives.

Only model-checked: both liveness properties, since liveness under fairness is
beyond the prover.

### The reconcile

`RuntimeReconcileProofs` proves, from `NumInstancesIsPositive`,
`ThreadsAreDistinct` and `InputsAreKnown` (the constants are of the right kind):

| theorem | statement |
|---|---|
| `ReconcileTypes` | `Spec => []TypeOK` |
| `GatedStaysExplained` | `Spec => []GatedIsExplained` |
| `PlansMatchGating` | `Spec => []PlanMatchesGating` |
| `ReconcileIsStable` | a reconcile repeated with the same other rows, request and signals changes nothing |
| `DeferralsNeverEnd` | `IInv /\ BothWait(i, j) /\ [][PassStep]_vars => []NeitherGoes(i, j)` for sole rivals `i`, `j` |

Neither `GatedIsExplained` nor `PlanMatchesGating` is inductive: a row is replaced by copies of any age. The
inductive invariant says the same of every copy there is (`CopiesOK`: the table,
the loop's list, each thread's copy), so a write of an old copy is harmless. What
is left are facts about one row: that `Reconciled`, `Observed`, `Synced` and a
release plan keep a sound row sound (`...Sound`), for any rival rows, trigger and
signals. One lemma per action (`...Keeps`) adds the frame. The theorems hold for
any number of instances and callers, any topology, and whoever holds the mutex.

`ReconcileIsStable` is about the operator `Reconciled` alone: it reads readiness and
drift from the row that it then overwrites, and yet what it has written leads to the
same result.

`DeferralsNeverEnd` is the general form of what the run `deferral` shows in one
topology, where `BothWait(1, 2)` holds after the first pass. `i` and `j` are the only
two of their kind on their node, both are due, and one is deferred when the loop is idle; from then on,
with only the loop at work, neither runs or is granted its start, whatever else the
topology has. The invariant (`Deadlocked`) follows the loop through its pass
(`Places`): the deferral of `j` keeps `i` from going until the row of `i` is written,
which defers `i`, and that keeps `j` from going until its row is written.

Only model-checked: `PlansSettle`, a liveness property.

### The models

`ModelLifecycleProofs` proves, from `GroupsAreDistinct`, `EveryModelHasPolicy` and
`LifecycleInputs` (the constants are of the right kind):

| theorem | statement |
|---|---|
| `LifecycleTypes` | `Spec => []TypeOK` |
| `OneActionAtATime` | `Spec => []OneActionPerNode` |
| `GroupsExclude` | `Spec => []OverlapHasCause` |

Two running containers of one group are the end of a race that begins at the
scheduler, so the invariant says of every group that is not blamed
(`Exclusive`): whatever runs is known to the scheduler, or a start is about to
tell it; a start past its check is alone, and nothing else of its group runs.
`CanRun` establishes this when a start is admitted: a rival that runs is known
(then the start is refused), or its start is on its way to the mark, on the same
node (excluded by the lock, `LockOK`) or on another (blamed). `PlacesOK` ties a
thread's place to its operation. One lemma per action (`...Keeps`), or one for
all that leave containers and scheduler alone (`QuietSteps`), with a common
frame (`GroupsUndisturbed`). The theorems hold for any number of models, groups,
nodes and clients, for two nodes as well as for one.

Only model-checked: `RecordSettles`, a liveness property.

### What the agent does on its node

`NodeTasksProofs` proves, for any tasks, ports, files, mount points and number of
changes of the node:

| theorem | statement |
|---|---|
| `TypesHold` | `Spec => []TypeOK` |
| `ReportsAreTrue` | `Spec => []SuccessWasTrue` |
| `VerdictsAddUp` | `Spec => []VerdictIsSum` |
| `PortVerdictsHaveCauses` | `Spec => []PortVerdictHasCause` |
| `TasksAdvance` | `Spec => [][Advances]_vars` |

The assumptions are the named ones of `NodeTasks` and `NodeContext`. All but one say
of what kind a constant is; `LiteralsAreTexts` says that the literals of the model
are strings, which no backend knows by itself.

A result is true because of what was seen on the way, so the invariant `NInv` says
at each place what has been seen by then: that the history has the present in it
(`PresentSeen`), which types of task come by a place (`PlaceOK`), that the verdict
is the sum so far (`SumOK`), that the paths checked so far have existed unless
something already blocks (`PathsOK`), and what the inspection has found out of the
container before the ports are looked at (`PortsOK`). One lemma per stage shows that
it adds its reason and nothing else; a change of the node only adds to the history
(`Grows`).

`TasksAdvance` is the safety half of `NodeTasksReturn`: each step of the agent lowers
`StepsLeft`, at most eleven, and a change of the node leaves the task where it is. What
remains for fairness is that the steps are taken.

### The managed process

`ManagedServeProofs` proves, for any number of processes, crashes and agents:

| theorem | statement |
|---|---|
| `ServeTypes` | `Spec => []TypeOK` |
| `OneAtATime` | `Spec => []OneProcess` |
| `EndsAreClean` | `Spec => CleanStop` |

`OneProcess` alone is not inductive. `ProcsOK` says which process it is: the one
installed, or the one a start has in hand, and that whoever is about to start
another has told the installed one to stop. That only one goroutine is ever about to
is `PlacesOK`, which lists where main and the supervisor can be at the same time.
`StopIsClean` says that a Stop that is over has left nothing, which is what
`CleanStop` takes at the last step of main.

### The agent registry

`AgentRegistryProofs` proves, for any calls and failures:

| theorem | statement |
|---|---|
| `RegistryTypes` | `Spec => []TypeOK` |
| `StoredStaysKnown` | `Spec => []StoredIsKnown` |
| `OnlineMeansRecent` | `Spec => []OnlineIsRecent` |
| `ReportsAreKept` | `Spec => []ReportKept` |

A save writes the database after its call has given up the lock, and a list writes
memory with what it read earlier. `IInv` therefore says in addition that memory
knows the agent as long as a save is outstanding, and that a list carries a known
row. A restart forgets a row that was never saved, and ends the calls that were
about to save it. `Beats`: no row and no call, however old the copy, claims a beat
younger than the agent's latest call. `Asked`: what the agent awaits is what it asks
for in its phase. `MarkedOrKept`: once the report is in memory, every call and
every list that carries other capabilities has been marked stale, so that whichever
of them writes sets `overtaken`; the same of the database once the report is
answered.

### Test runs

`TestRunsProofs` proves, for any number of runs and faults, and for whichever of the
scenarios are asked for:

| theorem | statement |
|---|---|
| `RunTypes` | `Spec => []TypeOK` |
| `BindingIsReturned` | `Spec => []BindingComesBack` |
| `SuccessHasNoFailure` | `Spec => []SuccessIsWhole` |
| `AloneStartsNothing` | `Spec => []NoStrayStart` |

The invariant says of every run that it is at a step of its scenario and recorded as
running (`Placed`), that its task belongs to that step (`Tasked`), that after an
error only the restore is left (`Failed`), and that a run that is alone has no other
beside it, so that what its precheck has blocked is still blocked at its start
(`Lonely`); and of the binding that every run that has it in its hands would put
back what the operator wants (`BindingOK`).

### The parts as they are checked

The modules above are about the parts. The runs check `MCServices`, so
`ServicesProofs` shows that each of its behaviours is one of every part
(`TasksMove`, `AgentsMove`, `ServeMoves`, ...: the part moves or stays in an initial
state) and states the theorems for it: `TaskReportsHold`, `StoredAgentsAreKnown`,
`OnlineAgentsAreRecent`, `AgentReportsAreKept`, `ServiceIsOneProcess`,
`ServiceStopsCleanly`, `BindingsComeBack`, `SuccessesAreWhole` and `NoStartIsStray`.
Their hypotheses (`AgentsOK`, `ServeOK`, `TestsOK`) are that the bounds are numbers,
that a sign for nothing is none of the things, that there is something to report, and
that only scenarios there are can be asked for.

The theorems about the three remaining parts are proved there as well:

| theorem | statement |
|---|---|
| `KnownStaysKnown` | `StudioBounded` implies `ServicesSpec => UnknownKeepsKnown` |
| `ReportsStay` | `NodesOK` implies `ServicesSpec => []ReportStays` |
| `ListedAreValid` | `TemplatesOK` implies `ServicesSpec => []ListedIsValid` |
| `BindingsResolve` | `TemplatesOK` implies `ServicesSpec => []BoundResolves` |
| `NodeSideTypes` | `ServeOK`, `StudioBounded`, `NodesOK`, `NodesFinite` imply `ServicesSpec => []NodeSideTypeOK` |
| `ControllerTypes` | `AgentsOK`, `TestsOK`, `TemplatesOK`, `TemplatesBounded` imply `ServicesSpec => []ControllerTypeOK` |

- *LM Studio.* For any dialects; `StudioBounded` says that the bound is a number. `StudioOK` says what
  each place of a thread has in hand: an answer to store is a list, never an error.
  `CopiesMatch` says what `behind` is for: a row that is not behind is the
  registry's state, and so is a copy (`Matches`), but that an action brings back a
  known state and the refresh nothing unknown where the registry knows better. So
  whoever turns known into unknown has a copy that is behind. `CopiesStillMatch` goes through the writers.
- *Nodes.* For any number of listings and reports; a sign for no node is no node, and
  a listing is no report (`NodesOK`). `NodesInv` says of every call under way that
  its copy has all the reports that count, but those recorded since it has read
  (`CallOK`), and that one that has found no node in memory has missed every report
  that counts. So whoever writes, takes back exactly what it has missed. For the
  types the listings and reports are finitely many (`NodesFinite`): `FreeIsArray`
  counts the arrays that the registry and the calls refer to, which are fewer than
  there are.
- *Templates.* `NormalStays`: the validation of any valid template, whatever its
  fields hold, leaves a valid one that another validation does not change. The
  fields that are filled from one another make this more than a restatement: with the
  kinds filled before the capabilities it is false (a mutant of the run).
  `TemplatesOK` assumes that the sign for none is neither a manifest nor a template,
  `TemplatesBounded` that the bounds are numbers.
- *Bindings.* `BoundResolves` is not inductive: whether a manifest that is asked for
  is the template's own depends on the rows and on what is listed. `TemplatesInv`
  adds that a manifest, listed or stored, names nothing but the template it belongs
  to, or templates that have been mixed up (`NamesOK`, `StoredOK`); that what is
  given out as the manifest of a template is stored and its own (`ServesOK`); and
  that the provided templates are listed while the controller runs. Rows only grow
  (`Keeps`), so a binding goes on to resolve. `TakenIs` shows this for one manifest
  that is asked for, `SyncedIs` for all of them at a start. That is an induction over
  the templates: the provers cannot instantiate the theorems of induction, so it
  is by contradiction, from a least template after which the rows would be
  wrong (`LeastExists`, that the numbers are well-founded). `RowsAreSynced`
  shows in the same way that the recursion has a solution.

The theorems about templates are about the provided templates, uploads, operators'
bindings and order of `MCTemplates`, for any bounds. Of these the proof of
`BindingsResolve` uses only named facts: an upload is a template whose manifest is
complete and names known ids (`UploadsAreTemplates`, `UploadsBringManifests`), a
provided template is normal and brings its own manifest (`ProvidedAreNormal`,
`ProvidedBring`), an operator's binding is well-formed and not generated
(`OperatorsAreBindings`), no id is empty (`NoIdIsEmpty`), and the template of the
model is one of the ids.

### What is only model-checked in section 6

The liveness properties `NodeTasksReturn`, `ServiceReturns`, `SeenOnline`,
`NodesCatchUp`, `RunsEnd`, `CatchesUp` and `VerdictFollows`: liveness under fairness
is beyond the provers. Of the first of them `TasksAdvance` proves what is not about
fairness.

## 8. What is not modelled

Within the task protocol: the gating of a start (`RuntimeReconcile` has it; a
refused start writes no row), and the observations a report passes to other
services (`NodeService` and `RuntimeReconcile` have them). What the agent does on
the node is one step here; `NodeTasks` has its steps. Ids are distinct in the model; the code takes them
from a nanosecond clock and two equal readings would collide. The claim takes
the oldest pending row by id; the code compares `created_at` as text.
Configuration, start-up, logging and the web console keep no state of interest.

Within the reconcile: bindings, manifests and templates (`RuntimeTemplates` has them;
here they are given), reports of tasks that name no instance (they go through
the model service), failing store writes, and what the agent and the adapter do
between two observations. `RuntimeReconcile` and `TaskProtocol` are not
composed: a start of the first is the creation and the direct call of the second.

Within the models: the LM Studio backend (module `LMStudioCache`),
failing store writes, the second way of an agent's report to a model (reports
that name no instance), readiness and messages, models that disappear from the
model directory, and container templates. `container` is the truth that
`RuntimeReconcile` abstracts to the answers of its `ActionResult`; the two modules
share no variable.

Within the parts of section 6: the contents of resource snapshots and the parsing
of command output; the capability fields of a node, which every listing computes
anew; more than one agent, node or model; the rules of single template fields; and
what the parts do to each other, as `NodeTasks`, `AgentRegistry` and `NodeService`
take the calls of their neighbours as arbitrary. Reading configuration, GPU
preflight and capability detection happen once, before anything runs; the health
endpoint, logger, version and the web console keep no state.
