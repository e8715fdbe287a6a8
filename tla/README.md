# Hermes Agent Platform: specifications, model checking, proofs

This directory specifies the parts of the platform in which several processes,
coroutines or requests meet. Three of them share rows and are the core: the life
of an agent task (API, Redis queue, worker processes, recovery), the life of a
multi-agent run (submission, reconciliation, reviews, cancellation), the
versions of an Agent (creation, promotion, publication, rollback, console).
Around them are the services a task needs while it runs: the capability gateway,
the runtimes (DeepSeek, Pi, the plugin of Hermes) and their capability clients,
the model gateway, the memory of a session, database connections with the MCP
service behind them, the registry of models, public calls, and the capability
bindings of a draft. The modules are checked by TLC on small instances; the
safety properties they check are proved by TLAPS as well, each for any number of
the tasks, nodes, consumers, attempts, faults, versions, requests, calls or clients
it is about (section 4).

`PROJECT.json` maps every definition to the lines it models and lists the
components, the runs, the hazards, the findings and the theorems.

## 1. The system

| Part | State it keeps | Operations that change it | Talks to |
|---|---|---|---|
| Task and execution API (`api/orchestration.py`, `api/executions.py`) | rows `agent_tasks`, `agent_sessions`, `execution_logs` | submit, cancel, retry, stop | queue, runtimes |
| Task queue (`task_queue.py`) | one Redis sorted set of task ids | enqueue (NX), pop, remove | Redis |
| Agent worker (`worker.py`) | per consumer: the task in hand | dequeue, claim, run, retry, fail, cancel; recovery of stale tasks at start and every 30 s at most | queue, database, runtimes |
| Execution (`api/agents.py`) | session and execution rows, trace steps, artifacts | prepare, complete, fail, cancel | runtimes, memory, storage |
| Orchestrator (`orchestrator.py`, `orchestrator_worker.py`) | `workflow_runs`, status of waiting tasks | submit a run, reconcile a run, poll | database, queue |
| Multi-agent API (`api/multi_agent.py`) | the same rows | review a node, cancel a run, edit teams and workflows | orchestrator |
| Agent versions and publication (`repositories/production.py`, `api/production.py`, `api/publications.py`) | `agents`, `agent_versions`, `agent_publications`, schema and API versions | create, edit, transition, publish, roll back, suspend | database, health probes |
| Console (`api/console.py`, `api/capabilities.py`) | the draft of an Agent, its capability bindings | edit, test, publish the draft | versions and publication |
| API clients, rate limit, audit (same files) | keys, Redis window counters, audit rows | authenticate, count, record, rotate | Redis |
| Capability gateway (`services/mcp-gateway`) | `capability_invocations`, revoked tokens, result cache | authorise, count, call, finish, audit | providers, Redis |
| DeepSeek runtime (`services/deepseek-runtime`) | runs, a semaphore, sessions, remembered stops, owners of workspaces | run, stop, evict | a child process per run |
| Pi runtime (`services/pi-runtime`) | a gate with a queue, records of runs, sessions, remembered stops | execute, stop, forget | the engine in the same process |
| Hermes plugin (`services/hermes-runtime`) | the tools of all runs in one registry, with counts | register, attach, call, unregister | Hermes |
| Capability clients (in all three runtimes) | one token per run, renewed | call, renew, close | capability gateway |
| Model gateway (`model_gateway.py`) | a semaphore and a counter | complete, open a stream, relay | upstream models |
| Agent memory (`memory/store.py`, `api/memory.py`) | the turns of a session | load, append, clear, migrate | Redis or PostgreSQL |
| Database connections (`database_connections.py`, `api/database_connections.py`) | revisions, scopes, catalogue, credential of a database | change, disable, rotate, discover, scope | database service |
| Database service (`services/postgres-mcp`) | pools per revision and credential | authorise, connect, query, invalidate | the databases |
| Model registrations (`api/model_registrations.py`) | models, their default and health | create, change, test, delete | Agents |
| Capability registry (`api/capabilities.py`, `capabilities/resolver.py`) | contracts, implementations, connector health, bindings of drafts | test, publish, bind, resolve, freeze | versions |
| Message bus, schema versions, knowledge service, skills, workspaces, storage, source recall, trace queries, frontend | messages, files, documents | mostly single-row or single-actor operations; not modelled | |

A task owns three rows with a status each. The API commits them and then
enqueues the id; a consumer pops the id, claims the task under a row lock,
awaits a runtime for minutes, and writes the outcome in one or two further
transactions; `_recover` looks for tasks whose claim is older than
`TASK_STALE_SECONDS` and enqueues everything that is still queued. A run of
several agents is a root task (the manager) and one task per node; the
orchestrator process polls the active runs and moves their waiting tasks to
`pending`, from where the workers take over.

### What is hard here

* every coroutine reads rows, awaits something, and writes rows: what it read
  may be stale, and SQLAlchemy writes only the columns that differ from what was
  loaded;
* the database and Redis share no transaction, so a crash or a lost reply
  leaves one without the other;
* leases expire by time, while runs may take longer than the lease;
* stop and cancel race with the end of a run, and a stop may overtake the run it
  names: each runtime remembers it for a while;
* permits, counters and pools have to be given back on every path out of a
  coroutine, exceptions and disconnected clients included;
* lists and registries are read, changed and written back while others do the
  same;
* what is tested (an endpoint, a credential, a model, a contract) may be another
  thing by the time the result is stored;
* runs are submitted one commit at a time while the poll already sees them.

The complete list, each hazard at its line with the properties that would catch
it, is `hazards` in `PROJECT.json`.

## 2. Modules

| Module | What it is |
|---|---|
| `TaskStatus` | abstract: the status diagram promised for a task |
| `ExecutionRun` | one execution, from the request to the last row about it, with the stops that cut in |
| `TaskLifecycle` | API, queue, worker processes and recovery; shown to implement `TaskStatus` when nothing worse than crashes happens |
| `TaskLifecycleProofs` | theorems about `TaskLifecycle` |
| `MCTaskLifecycle` | instances for TLC, with symmetry |
| `Orchestration` | one multi-agent run over the tasks that `TaskLifecycle` specifies |
| `OrchestrationProofs` | theorems about `Orchestration` |
| `MCOrchestration` | instances for TLC |
| `AgentVersions` | one Agent, its versions and its publication, with requests that overlap |
| `AgentVersionsProofs` | theorems about `AgentVersions` |
| `MCAgentVersions` | instances for TLC, with symmetry |
| `QuotaGate` | abstract: calls enter while there is room, and leave |
| `CapabilityGateway` | one invocation of a capability from its token to its answer, with others at the same time; shown to implement `QuotaGate` |
| `CapabilityGatewayProofs` | theorems about `CapabilityGateway` |
| `MCCapabilityGateway` | the instance for TLC |
| `RuntimeService` | the DeepSeek runtime service and the child process of a run |
| `RuntimeServiceProofs` | theorems about `RuntimeService` |
| `PiService` | the Pi runtime service with its gate and its engine |
| `PiServiceProofs` | theorems about `PiService` |
| `HermesTools` | the tools of Hermes runs in their common registry |
| `CapabilityClients` | the token of a run and its calls, in each of the three runtimes |
| `ModelGateway` | permits, retries and streams of the model gateway; shown to implement `QuotaGate` |
| `ModelGatewayProofs` | theorems about `ModelGateway` |
| `AgentMemory` | the turns of one session, in Redis or PostgreSQL |
| `DatabaseConnections` | the registry of one database and the service that queries it |
| `ModelRegistry` | models, their default and health, and the Agents that name them |
| `PublicCalls` | public calls of one Agent: keys, rate limit, execution, audit |
| `CapabilityRegistry` | contracts, implementations, bindings of a draft, the resolver, the release |
| `MCRuntimes` | `RuntimeService`, `PiService`, `ModelGateway` and `CapabilityGateway` under fairness, on small instances in one state space |
| `Services` | `AgentMemory`, `CapabilityClients`, `HermesTools`, `ExecutionRun`, `PublicCalls`, `ModelRegistry`, `DatabaseConnections` and `CapabilityRegistry` beside each other: constants and variables for each, its assumption, and the names of its properties |
| `ServicesProofs` | theorems about the components of `Services` |
| `MCServices` | `PiService` and the components of `Services`, on small instances in one state space |

Operators whose name ends in `Bug` are variants of the operator after them, with
a mistake somebody could make in that code; no specification uses them.

### TaskLifecycle

One step is one database transaction, one Redis command or one answer of a
runtime. Variables: the status of the three rows (`task`, `sess`, `exec`),
`attempt`, whether the lease ran out (`expired`), the queue, the submitting and
the stopping request of each task, and per consumer its place (`pc`) and task
(`cur`). Places of a consumer:

| `pc` | code |
|---|---|
| `idle`, `popped` | `_consume` before and after `dequeue` |
| `running` | `_execute` between the claim and the answer of the runtime |
| `completing` | `_complete_execution` after it read the execution, before the artifacts are stored |
| `aborting` | `_fail_execution` after it read the execution |
| `finishing` | between the commit of the execution and the commit of the task |
| `failing`, `cancelling` | the exception handler of `_execute` |
| `requeue` | between the commit of `retrying` and the enqueue |

A recovery (`rec`) is split where others may act: the stale tasks are read
without a lock (`RecoverScan`), written (`RecoverCommit`), the queued ones
listed (`RecoverList`) and enqueued one at a time.

Two details of the code decide results and are modelled as they are. In
`_execute`, `refresh(task, ["session"])` does not reload the status, so the test
for `cancelled` before the success is written never holds: `FinishTask` writes
`succeeded` unconditionally. In `_complete_execution`, a failed upload leads to
`_fail_execution` inside the transaction that already holds the pending success,
so that it cannot see a cancellation: `ArtifactFailed` overwrites it.

The environment is a set of kinds of trouble (`Faults`) with a bound
(`MaxFaults`): crashes of workers and of the API process, Redis errors whose
command was or was not applied, requests to stop, and slow runs.

Left out: contents (inputs, outputs, errors, traces), priorities (any queued
task may be popped, so the results hold for every order), `worker_id` (never
read), result messages on the bus. The database is assumed to work: a failing
transaction would be rolled back and reported like `RunRaised`.

### ExecutionRun

What `TaskLifecycle` calls a run is taken apart here, for an execution that belongs to
no task. One step is one transaction, one Redis command or one answer of a service:
`at` is the stage the run is in, in the order of `_prepare_agent_execution`,
`execute_agent_sync` or `stream_prepared_agent`, and `_complete_execution`; `steps` is
the status of the row each stage leaves, opened and closed in two transactions. Then
`cleaning` and `closing` are `_fail_execution` and `_cancel_execution`, which write the
two statuses, read the rows that are running, and close them. `stop[r]` is one request
to `stop_execution`: it reads the execution (`asked`), tells the runtime, revokes the
token it read the name of (`revoking`), finds the rows that are running and closes
them. No row is locked, and a status is written only where it differs from what was
read (`seen`).

Visible in it, beside what the properties state:

* a stop that reads the details before `RecordDetails` finds no token to revoke, and
  when the run then ends in `_fail_execution` nobody else revokes it, although
  `docs/postgresql-mcp-deployment.md:163` lists the revocation after a stop;
* with two stops that overlap, execution and session may end with different
  statuses: the exception in `VerdictsAgree`;
* the rows in which Pi reports what it began (`pi-engine.mjs:86-90`) stay `running` after
  a success, because nothing reports their end under the same name
  (`runtime/events.py:25-39`, `agents.py:1461-1492`): the exception in
  `NothingLeftRunning`;
* an exception of another class in `_complete_execution` is caught by nobody and leaves
  the execution `running` (`raised`), a Redis error while a stop revokes leaves the rows;
* a stream that loses its client after the commit of the success turns it into `failed`.

### Orchestration

Task 0 is the root, tasks 1..`size` are the nodes; the dependency graph and the
nodes that need approval are chosen by `Init` among all that
`validate_workflow_dag` accepts. A team is a workflow without dependencies and
approvals (`"team"` in `Envs` allows no other run). The
workers appear as the moves `TaskLifecycle` allows (`Claim`, `Refuse`, `Retry`,
`Succeed`, `Fail`); the endpoints as `CancelTask`, `StopTask`, `Review`,
`CancelRunCheck` and `CancelRunCommit`.

`reconcile_run` has two transactions. `Load` takes the statuses into the
identity map of the session (`snap`); `Apply` (or `ChildFailed`,
`DependencyMissing`, `RootMissing`) is the first commit; `Refresh` reads the run
again, while the second query of the tasks returns the objects already loaded;
`FinishReview`, `ReleaseManager` and `FinishRun` are the second commit. What a
commit writes is the difference from what was loaded (`WriteRun`, `WriteTasks`).

`Envs` lists the environments (what may happen to one and the same run), so that each run asks one question;
`MaxRestarts` bounds how often something is broken off.

### AgentVersions

One request of the management API or of the console is a chain of steps: it
loads the Agent, then perhaps a version, decides on what it has loaded, and
commits. `req[r]` is where it stands (`at`) and what it has loaded; an endpoint
is an `Ask...` action (guard and first load), its further loads (`Load`) and its
transactions (`Write`). `Abandon` is every way to end without a commit: a refused
check, an exception, a process that dies.

| `at` | code |
|---|---|
| `insert`, `snapshot`, `status` | a version is about to be created, edited, promoted |
| `lifecycle`, `configure`, `disable` | the row of the Agent is about to be written |
| `target`, `lock`, `locked` | publish and rollback: before the version is loaded, before and after `_lock_agent_publication_and_version` |
| `edit`, `draft`, `candidate` | console: before the Agent is written, before the draft is looked up, before it is promoted |

What decides the results is what a lock does not do: the rows are locked by
queries of their identifiers, the objects loaded before keep their values, and a
column is written only when it differs from the value loaded (`Flush`). The
history variable `raced` says that a request has written after another one
committed since it loaded; `CurrentIsPublished` and
`ReleasesFrozen` hold until then. What
happens after a race, seen by dropping `~raced` from them:

* a rollback that loads the Agent, waits for a publication to commit, and then
  loads the version this publication deprecated, publishes that version but
  does not write `current_version_id`, because the value equals the one loaded
  (the comment at `production.py:995` promises the contrary): `CurrentIsPublished`
  fails, although `OnePublished` holds;
* a promotion decided before a publication makes the published version a draft;
* a publication decided before an archival brings the Agent back.

Also visible while reading, and outside the model: `PUT .../publication` with
`published` on a live Agent whose publication row is disabled answers 200 and
changes nothing (`publications.py:85`); the console editor writes the row of a
published Agent, which `agents.py:647` declares immutable; publishing a format-2
version writes the version row before the Agent is locked, contrary to the "one
stable order" of `_lock_agent_publication_and_version`, so that two requests can
wait for each other until the database ends one (`Abandon`).

Left out: schema and API versions, `agent_publications.status`, deletion,
descriptions and timestamps. A configuration is one value. The capability
bindings of a draft, and what becomes of them when it is released, are in
`CapabilityRegistry`.

### CapabilityGateway

One step of a call is one Redis command, one statement or transaction that
others can see, or one answer of the provider. `pc[c]`:

| `pc` | code (`invoke_capability`) |
|---|---|
| `new`, `verified`, `authorized` | before `_ensure_not_revoked`, before and after `_authorized_execution` |
| `locking`, `half`, `locked`, `counted` | the transaction: before the first lock, between the locks, before and after `_enforce_quota` |
| `admitted`, `calling`, `waiting`, `replied` | before `_cache_get`, before and during an attempt, before the output is validated |
| `finishing`, `tracing` | before `_finish`, before `_trace` |
| `failing`, `timedOut` | the exception handlers |

`row[c]` is its row of `capability_invocations`, with the binding and the
connector it refers to (`keys`): a call refused before they are loaded has a row
without them, which counts against no quota. `recent` are the rows younger than a
minute. `running` and `revoked` are what `stop_execution` does to the execution
and to its token, in two steps; nothing connects them to a call that is already
authorised. `hurt` is history: which calls died or met a database error.

Visible in the model, none of them contrary to a promise of the repository:

* a call whose task is cancelled or whose process dies leaves its row `PENDING`
  (`except Exception` does not catch a cancellation), and the row takes up
  concurrency for ever: nothing collects such rows;
* refused calls count against the quotas of the minute and of the execution;
* when `_trace` fails after `_finish`, the handler turns `SUCCEEDED` into
  `FAILED`, although the provider did its work;
* a call authorised before a stop still reaches its provider
  (`capability_gateway.py:219`);
* with `max_retries` above 2 a call that times out three times leaves the loop
  without an exception and fails the assertion after it: `INTERNAL_ERROR`, not
  `TIMEOUT`.

Left out: policies on arguments and their scope, contents, latencies,
`resolve_capabilities` (reads only), and the tools of the older MCP endpoint
(`server.py:107-330`), which have no quota and no record. Renewal of tokens is in
`CapabilityClients`. All calls of a binding have the same arguments, so those
through one connector share a cache entry (`_cache_key`). The two counts of `_enforce_quota` are
one step. When a quota of 0 is configured, `or` makes it the default
(`capability_gateway.py:533-535`): the constants are positive (a negative one would refuse every call).

### RuntimeService

`RuntimeManager` is one asyncio process, so a step is what lies between two
awaits that really wait. `place[r]` is where a request is in `run`:

| `place` | code (`deepseek_runtime_service/server.py`, `harness.py`) |
|---|---|
| `new`, `known` | before and after the session was looked up |
| `queued` | registered, awaiting the semaphore |
| `owner`, `assigning` | before and in `_assign_workspace_owner` / `_execution_uid`, the one await under the lock of the manager |
| `spawning` | `create_subprocess_exec` |
| `initialize`, `prompt`, `turn` | awaiting the child |
| `idle`, `collecting` | the turn is over; artifacts are collected |
| `leaving`, `closed` | the `finally` of the run: child closed, permit given back |
| `lost` | the `finally` was cut short |

`stopped[r]` is `ActiveRun.cancelled` together with where the first stop found
the run; `cancelled` is what its `HarnessProcess` knows. A stop that finds no run
is remembered (`pendingStops`) for thirty seconds. `sessions` is the table of
sessions in order of use; `loaded` says which requests still have theirs in it,
because eviction takes the oldest, used or not. `owner` and `unused` are the
files of the workspaces and what `_assign_workspace_owner` found. A world
(`world`) fixes what is asked of the service, how many permits and user ids it
has, and which requests are streams.

When the client of a stream leaves (`left`), the generator stops the run and then
awaits it; this `gather` (`server.py:558`) is cancelled with the generator and cancels
the run wherever it awaits: before it is registered (`CancelEntry`), in its body
(`CancelBody`), and in its `finally` (`CancelFinally`). In the last case
`process.close()` gives up and neither `gate.release()` nor `runs.pop()` follows, or, when
the lock of the manager is awaited, only the latter is missing: the run is `lost`, its
permit or at least its execution and session taken for good. A run that is cancelled
while a thread assigns the owner of its workspace releases the lock, and the thread goes
on (`AssignLate`, `adrift`).

Two more facts of the code that the properties have to state: a stop between the last
test of `cancelled` and the publication of the process (`server.py:294`) is lost,
and a stop that comes after the run ended cancels its retry (`server.py:366`).

### PiService

The same service in JavaScript, with another design: an explicit gate
(`inUse`, `line`) that hands a permit over to the first in line, a record per
execution (`record`, `status`) which stays for a minute after the run and answers
a retry, an `AbortController` per run (`aborted`), and a client that may leave a
stream (`gone`). Its event loop makes `Finish` and the start of the next in line
one step. `halted` and `asked` are history: where the first stop found a request,
and which executions have a stop that still counts.

### HermesTools, CapabilityClients

`HermesTools` is the plugin that puts the tools of each run into the one registry
of Hermes: `count` is `_ALIASES`, `claim` the two dictionaries of `_BINDINGS` (by
run and by session). Everything happens under one lock, so a step is one call.
Visible in it: a registration that fails half-way discounts the aliases it has not
counted yet (`platform_capabilities.py:135-142`), so that another run's tool may
disappear (`spoiled`); and a call of an ended run falls through to the run that
has its session now.

`CapabilityClients` is one run and its token, which ages (`fresh`, `due`,
`expired`), in each of the three clients: DeepSeek renews in a loop and cancels
everything on close, Pi joins the renewal under way, Hermes renews before a call
and in a thread. A call and a renewal carry the token that was presented (`carried`,
`renewal.with`), and the gateway renews that one, whatever the client holds by then; Pi
and Hermes store the answer without looking whether they were closed. So a renewal or a
call that is in flight when the client is closed brings a token back (`crossing`), and
after a renewal a call may still be sent with it. Pi's
client is never closed when an exception comes before the `try` of `pi-engine.mjs`;
that path is not modelled.

### ModelGateway

`at[c]` is where a call is (`queued`, `sending`, `sent`, `pausing` for an answer at
once; `opening`, `failing`, `ready`, `relaying` for a stream), `permits` who holds a
permit, `capacity` the counter of the semaphore, `active` `app.state.model_active`,
`open` what is open at the provider. `broken` is history: calls that ended on a path
without a release (`model_gateway.py:197`, `215-216`, `225-230`); a stream closed
outside the `try` leaves no audit row either.

### AgentMemory

`append_turn` reads the list, appends, cuts and writes it back; one command is one
step, so two turns of a session may overlap, and then one is lost (`overlap`). Both
providers, the migration of the legacy key, and the deletion by the API are there.

### DatabaseConnections

An administrator's operation (`job`) reads the registry, has the database service
test or discover, and writes in one transaction; a change of the endpoint makes a
new revision (`InsertRevision`, after which the scopes are selected) and carries these
scopes forward when it commits (`UpdateEndpoint`); a scope that another request committed in
between stays on the old revision (`Missed`). A new credential starts an epoch, both
invalidate the pools. A query is authorised with a revision and an epoch, waits for
a pool of that pair, connects and executes; `TARGET_POOLS` has one pool per revision.
The histories `crossed`, `excused`, `disturbed` and `late` name what an overlapping
operation may spoil. Visible: a query that comes late with an old credential closes
the newer pool (`server.py:499`), and the health of a connection never becomes
"offline" through a failing test (`api/database_connections.py:188`).

### ModelRegistry

A request of a client (`demand`) holds what it has read; creation, change, default,
test and deletion write later, while the partial unique index and the CHECK
of `model_registrations` are guards of the commit. There are two ways to choose a
default: `set_default` (`SetDefault`) writes all rows, a PATCH (`PatchDefault`) the other
rows and this one only if it was read as false. `checked` is history: the version
of the configuration a health status is about; `overtaken` are the requests that another
one changed something under, `forgiven` the models they wrote. Visible in it:

* of two PATCHes that overlap, the one that has read its model as the default may leave
  no default at all (`repositories/model_registrations.py:160-174`);
* the console's editor and a rollback write the model of an Agent without a look at the
  registry (`WriteModel`; `api/console.py:399-401`, `repositories/production.py:1057`), so an Agent may
  name a model that is not registered, with nothing overlapping; creation and
  configuration by the API do look (`BindAgent`).

`RegistryComplete` is therefore about steps: which request may take the default away or
leave an Agent without a registered model.

### PublicCalls

A call arrives with a key, is authenticated in one query (or its client is looked up
to say why not), counted in the window of its minute, runs the Agent, and is recorded
with its counters in one transaction before it is answered; a stream is answered
first and recorded last, perhaps twice. At the same time administrators change the
client, its binding and its keys, and a rotation revokes and issues keys in one
transaction (`turn`).

### CapabilityRegistry

The draft of an Agent with its bindings and its snapshot. `work[r]` is a request that has
read the status of the draft (and, for a publication, the tools that were resolved) and
writes later; `raced` is history. `Ready` and `Tools` are the resolver, `NeedMet` the
requirements of a skill. The snapshot has a format: the editors bring one of format 1 to
format 2 first (`FindLegacy`, `Migrate`), `update_agent_version` replaces it by any the
client sends (`UpdateAgentVersion`), the console's editor builds it anew
(`UpdateAgentEditorSection`). A snapshot of format 1 knows no capabilities: the resolver
takes it as ready without tools (`resolver.py:101-108`) and the API publishes it without
resolving anything (`production.py:193`), whatever the version is bound to;
`ReleaseSound` is about versions published in format 2. Visible in it, none contrary to a
promise:

* a requirement of a skill is satisfied by an equal alias of another capability
  (`resolver.py:292-326`);
* a binding without a pin changes its implementation when a better one is created,
  in a release too; a pin may name an implementation of another contract
  (`api/capabilities.py:583`, `resolver.py:346`);
* to put the same single binding again fails on the unique alias, because the new row
  is flushed before the old one is deleted (`api/capabilities.py:575-596`);
* the console's test of a draft writes `testing` without looking, also over a version
  that was published meanwhile (`console.py:687`), which takes it out of service: nothing is
  released then, and `ReleaseSound` promises nothing until it is published again;
* the test of a contract may overwrite its publication (`api/capabilities.py:170`), a
  snapshot may be replaced while the version is published: both are `raced`;
* a test of an old revision of a connector writes the health of the instance.

### Services, MCServices and MCRuntimes

`Services` is an instance of each of its eight components, over constants and variables
of its own; `Nil` stands for the `None` of all of them. It adds nothing but the names:
`RateBound == Public!RateBound`, so that the runs and the theorems speak of one formula.

`MCServices` and `MCRuntimes` put components on one state space: `part`, fixed by `Init`,
says which of them moves, all others stay where they begin. They share no state in the
model (what one asks of another is an input or an outcome there), so every behaviour
is a behaviour of one component, and a property of a component is violated here
exactly when it is violated alone. It is a sum, not a composition.

## 3. Runs

| Run | Instance | What it shows |
|---|---|---|
| `LifecycleCrash` | 2 tasks, 1 process, 2 consumers, 2 attempts, 1 crash | The three rows of a task agree whenever nobody is at work on it; every change of a status is an edge of the documented diagram and settled statuses are final (refinement of `TaskStatus`), wherever the crash falls. Two tasks, because a recovery writes all of them in one transaction. |
| `LifecycleLive` | 1 task, 1 process, 2 consumers, 2 attempts, 2 faults of crash, lost, stop; fair | One consumer at a time executes a task, at most `max_attempts` times; every submitted task reaches a terminal status and stays there. Two faults cover a second crash during the recovery from the first, and a Redis error during a recovery. |
| `LifecycleSlow` | 1 task, 2 processes, slow runs, 1 crash | When runs outlive the lease and there is a second process, a task may be executed twice and attempted more often than `max_attempts`; each process can grant one attempt too many, not more. |
| `LifecycleStopUniform` | violation | `docs/phase5-pi-runtime-deployment.md:68-69` says that a stop marks Execution, Session and Task cancelled. `stop_execution` tests the execution, awaits the runtime and then writes execution and session without reading again, but the task only if it is not settled: in the trace the worker fails all three rows meanwhile (`VersionUnavailable`), and the stop leaves a failed task with a cancelled execution. (A task whose run ends meanwhile may also be written `succeeded` over the stop, by `FinishTask`; a repair has to close both.) |
| `RunLive` | every workflow of at most 2 nodes, 2 restarts of the orchestrator, tasks cancelled or stopped, or the run cancelled; fair | The manager starts after all nodes succeeded; a run fails only because a task failed and succeeds only when all tasks did; every run without a cancelled task gets an outcome; a failed node fails the run and the root; a cancelled run leaves no task waiting for ever, whatever raced with the cancellation. |
| `RunEarly` | every workflow of at most 3 nodes; polls, workers and reviewers act while the run is being submitted, and the submission may end half-way | No node starts before everything it depends on succeeded. Three nodes, so that chains, forks and joins occur. |
| `RunAbort` | violation, runs of a team | `docs/phase5-multi-agent-orchestration.md:70` says of a team run that the manager follows after all workers succeeded. When the workspace of the second member cannot be created, the submission ends with one; it succeeds, and the poll releases the manager, because the children it finds are all succeeded. |
| `Versions` | 2 versions, 2 configurations, 2 requests in flight | At most one version is published, whatever overlaps. Until two requests have raced (`raced`), the published version is the one the Agent runs, public calls are enabled exactly for active Agents that have been published, and what was once published is never edited. Two versions are what a publication and a rollback need to change places, two requests what a race needs; a third of either adds no new kind of conflict, and all three properties are proved for any number. |
| `VersionsArchived` | violation, one request in flight | `api/agents.py:645` and `docs/phase4-production-agent-runtime.md:21` say that an archived Agent is immutable. The editor of the console writes its configuration, and the publish button of the console makes it active again: neither tests the status. |
| `Gateway` | 3 calls of one execution and one binding that allows it 2, two of them through one connector; one retry; 1 death or database error | Call quotas of bindings and connectors hold; what is recorded agrees with what was answered; the refinement of `QuotaGate`. Three calls, because a call competes for its binding with one and for its connector with another; limits of 1 and 2 make both the last free place and the first refusal happen, and the second call through a connector may be answered from the cache. |
| `Services` | see below | The safety properties of the services and of one execution, listed below; the assumptions of the proofs on constants hold for these instances. |
| `Runtimes` | DeepSeek and the model gateway: see below; Pi: 3 requests, 1 permit, 1 stop; 2 capability calls of one binding that may follow each other but not overlap, 1 death or database error; fair | The safety properties of DeepSeek's service and the model gateway. A stop that meets a run ends it and its child and frees its permit and session, unless it was lost (`StopsEnd`); permits of the model gateway come back and every capability call is over some day (`CallsEnd`). |

The two ask of each component what follows, `Runtimes` of the first two and `Services` of
the others; the instance is as small as its hazards allow.

| Component | Instance | Properties |
|---|---|---|
| `RuntimeService` | 2 runs: a retry (1 permit), one session (2 permits), apart with 1 and with 2 permits, 1 or 2 user ids; but for the session the first is a stream whose client may leave; room for 1 session; 1 stop | `Isolation`: children alive together are within `max_concurrency`, of different executions and sessions, and share a user only in one workspace, unless a thread is adrift. `StopsAccounted`: a stopped run does not complete, but for the stops that come too late or are lost; a stop cancels one run at most |
| `ModelGateway` | 3 calls, 2 of them streams, 1 permit, 1 retry | `PermitsAccounted`, `ImplementsGate` |
| `PiService` | 3 requests of 2 executions, one of them a retry, one a stream; 1 permit, room for 1 session and 1 remembered stop; 2 stops | `GateExact`, `RunOnce`, `StopExact`: the gate counts, no execution runs twice while its record lives, nothing is cancelled without a cause and nothing stopped completes |
| `AgentMemory` | 2 turns, room for 2, a legacy list of 3, 4 writes, both providers | `HistoryIsLog`: what is loaded is the end of what was appended |
| `DatabaseConnections` | 2 administrators, or 1 and 2 queries, or a database without pools; 2 scopes, 2 revisions, 2 credentials | `RegistryCoherent`, `PoolsFollow` |
| `ModelRegistry` | 2 models, 1 Agent, 2 clients, three menus of operations, 1 change | `HealthCurrent`, `RegistryComplete` |
| `PublicCalls` | 2 calls over two minutes, or while the client changes, or 1 call with keys revoked and rotated; 3 keys; limits of 1 and 2 | `AuditAgrees`, `RateBound`, `KeysExact` |
| `CapabilityRegistry` | 2 contracts and 2 implementations, 2 requests, 3 sets of bindings, a snapshot of either format | `ReleaseSound` |
| `HermesTools` | 4 runs: two of a session, one with three aliases, one of them Hermes's own | `ToolsCounted` |
| `CapabilityClients` | 2 calls, each of the three runtimes | `NoLateCall` |
| `ExecutionRun` | 1 execution, synchronous or streamed, 1 user who may ask to stop it | `VerdictsAgree`: execution and session have one status. `NothingLeftRunning`: a run that is over leaves no row running |

Two of a kind are what an overlap needs; a third request in `PiService` and
`ModelGateway` is there so that somebody waits in line while a permit changes hands.
One stop is enough to be between any two steps of the run; `VerdictsAgree` says nothing of more
(what two of them can do is the exception it states). The type invariants of the components are parts of the inductive invariants that are proved.

`CHECK_DEADLOCK FALSE` stands where the system really stops: a run is over once
it and its tasks are settled. `AgentVersions` never stops (requests may always be
abandoned), so its runs check deadlock. `CapabilityGateway` stops when all calls are
over; that no call is stuck before is `CallsEnd`. The services stop when all of
their finitely many requests are over; that requests are over is `StopsEnd` and
`CallsEnd` for those who wait for each other.

Three things TLC shows outside the listed runs, by changing `Envs` in
a configuration (with `MaxNodes = 2`), and worth knowing:

* `Envs = {{"overlap"}}`: a review that reconciles a run while the poll does breaks
  `ManagerAfterAll`, `OutcomeForCause` and `FailurePropagates`: a stale
  `Apply` revives a node that was settled in between. `RunSettles` still holds, and so
  does `DependencyOrder` up to three nodes; with four, two of them reviews, the node that is
  revived may have released another before.
* `Envs = {{"early"}}`: a poll during the submission breaks `ManagerAfterAll`,
  `OutcomeForCause` and `FailurePropagates` (a node whose dependency has no row yet fails the run).
* `Envs = {{"cancelRun"}}`: a claimed task may run in a cancelled run, and a
  reconciliation that loaded the run before may write it `running` again.

### Fairness

`TaskLifecycle`: requests end; consumers, recoveries and time go on; the
container is restarted (`restart: unless-stopped`, `docker-compose.yml:158-161`).
Weak fairness is enough, because each of these steps stays enabled until it is
taken; whatever a consumer does with its task is one fair action
(`ExecuteStep`), so that no particular outcome of a run is assumed. Nobody has to submit, cancel
or stop anything. Faults are finite (`MaxFaults`), as any liveness claim needs.

`Orchestration`: the submission goes on, the poll never stops, queued tasks are
claimed and claimed ones settle. The latter is strong fairness, justified by
`EveryTaskSettles`: retries may disable a settling step for a while, attempts
bound them. Reviews are assumed to be decided.

`CapabilityGateway`: a call that has been received goes on, because its event loop
runs, the database answers and timeouts bound the wait for a provider. Weak
fairness of all received calls together is enough, no call and no outcome is favoured, and
no call has to be made: calls are finite, so whoever waits for a lock finds it free
for good some day.

`RuntimeService`, `PiService`, `ModelGateway`: weak fairness of what a service owes
its requests (`Obliged`, `ModelObliged`), of all of them together: while it owes something,
some such step is taken some day, nobody is served first. The event loop goes on; the queue and every
wait for a child or a provider has a timeout; a child that was signalled dies. Agents
and providers may otherwise take for ever: no answer of theirs is assumed, except that
Pi's engine returns once its signal is aborted.

## 4. Proofs

`TaskLifecycleProofs` proves, for all values of the constants:

* `TypeCorrect`: `Spec => []TypeOK`, no assumption but those on constants;
* `LeaseIsExclusive`: `SingleExecution` and `AttemptBound`, assuming
  `OneProcess` (two processes are the same; `docker-compose.yml` starts one
  `agent-worker` under a fixed container name) and `RunsEndInTime` (`"slow"` is not among
  the faults). `LifecycleSlow` shows that neither can be dropped;
* `CrashesKeepThePromise`: `TaskLifecycle` implements `TaskStatus!SafeSpec`,
  assuming `OneProcess` and `Undisturbed` (no trouble but crashes). A Redis
  error or a stop breaks it: the handlers of both write over settled rows;
* `RowsAgree`: `Spec => []StatusAgreement`, under the same two assumptions;
* `OverrunIsBounded`: `Spec => []AttemptOverrun`, for any kinds of trouble and any finite
  number of processes: where `LeaseIsExclusive` does not hold, this is what is left.

The argument. `SingleExecution` is not inductive: it needs to know that a task
somebody executes is not queued (`Lease`), that its lease has not run out, and
that no recovery holds a verdict on it that is older than the claim. The last is
where one process matters: its recovery is over before a consumer can pop what
it enqueued, and a verdict exists only for a task that nobody executes. The
inductive invariant, `Safe`, is `SingleExecution`, `AttemptBound` and `Lease` (on
top of `TypeOK`); one step per action shows that it is preserved.
`CrashesKeepThePromise` adds `Calm`: what a consumer or a verdict is about to
write is an edge of the diagram from where the task is now. `StatusAgreement` speaks
of tasks nobody is at work on; `Agree` says what the three rows are at every moment
between (an outcome is written to session and execution before it is written to the
task), which is inductive on top of `Calm`. `AttemptOverrun` needs a budget: the attempts
made, one for a task that is queued, and one for each process that holds a verdict to queue
it again (`Grants`) are together at most `MaxAttempts` and one per process (`Budget`). Each
step leaves it alone, finds the attempts below the limit, claims the task, or spends a grant
(`Spends`). TLC checked `Fresh` and `Budget` on the instance of `LifecycleSlow`.

`AgentVersionsProofs` proves, assuming of the constants only that `None` is
none of the values:

* `VersionsTypeCorrect`: `Spec => []TypeOK`;
* `PublishIsExclusive`: `Spec => []OnePublished`, for any number of versions and
  of requests in flight.

The argument. `OnePublished` alone is not inductive: a publication deprecates the
set of versions that were published when it took the locks (`old`), so nothing
may become published between that moment and the commit. `Locks` says so: the
holder of the locks is the one request at `locked`, and its `old` is what is
published now, without its own version. Unlocked writes never publish
(`WriteVersionQuiet`), and they wait for rows that are locked, so they do not
withdraw a version of `old` either. `Typed` adds to the types what a request
carries at the place it is at. One lemma per kind of step (`AskStep`, `LoadStep`,
`VersionWriteStep`, `InsertStep`, `AgentWriteStep`, `PublishStep`, `AbandonStep`)
shows that `Inv` is preserved.

It adds, for any number of versions and requests:

* `CurrentStaysPublished`: `Spec => []CurrentIsPublished`;
* `ReleasesStayFrozen`: `Spec => ReleasesFrozen`.

The argument: until requests race, what a request has loaded and will write by is
what is stored (`Holds`), because `fresh` is taken from every other request by a
commit, and a commit by a request that is not fresh sets `raced`. With that (`Fresh`)
each write is one a sequential program would make.

`CapabilityGatewayProofs` proves, for any calls, quotas and trouble:

* `GatewayTypeCorrect`: `Spec => []TypeOK`, with at most three attempts;
* `ConcurrencyIsBounded`: `Spec => []ConcurrencyBound`;
* `GatewayRefinesGate`: `Spec => ImplementsGate`.

The assumptions on the constants are that there are finitely many calls, none of
them `None`, and that the quotas are natural numbers above 0. The
argument: `ConcurrencyBound` is not inductive, because the row is inserted
after the rows were counted. `Room` says that what a call has counted stays true
until it is admitted, and `Locks` why: whoever counts holds the locks of all it
uses, so another call that is about to be admitted uses nothing of the same. Four
lemmas cover all steps: `OutsideStep` (a call that goes on elsewhere and admits
nobody), `LockStep`, `CountStep`, `AdmitStep`. Each shows as well that the step
is one of `QuotaGate` or none, so the refinement comes from the same invariant.

It adds, under the same assumptions:

* `CallsAreBounded`: `Spec => []CallsBound`;
* `AuditIsComplete`: `Spec => []AuditTrail`.

The quotas on calls count rows, which for them stay counted; what is bounded are
calls that reach the provider. `Book` connects the two (what a call has sent, what it
knows, what its row and its answer say at each place), `CallRoom` is `Room` for these
counts, `CallQuotas` the bounds. A call counts with everybody who is `Entered`, so
the last place is given away under the locks once.

`ModelGatewayProofs` proves, for any number of calls and permits:

* `ModelTypeCorrect`: the counters never go below zero;
* `PermitsAreAccounted`: `ModelSpec => []PermitsAccounted`;
* `GatewayKeepsGate`: `ModelSpec => ImplementsGate`.

The argument: `Places` ties who holds a permit and who is connected to where a call
is; with `Counted` both counters follow from the set of permits.

`PiServiceProofs` proves, for any requests, executions, sessions, limits and stops:

* `PiTypeCorrect`: sessions and remembered stops stay within `MaxSessions`;
* `GateIsExact`: `Spec => []GateExact`;
* `RunsStartOnce`: `Spec => []RunOnce`;
* `StopsAreExact`: `Spec => StopExact`.

The assumptions are that requests are finitely many and that there is room for one
session (`config.mjs:39`). The argument: the queue holds those who wait, each once
(`Line`, with lemmas about lists that `Drop`, `Append` and `Tail` keep distinct), and
`inUse` is the number of those who work (`Room`). `Records` says that a record names
the run that waits or works, so nobody else of its execution is started while it lives.
`Stops` and `Causes` carry the reason of a cancellation from the stop to the answer:
a remembered stop is for an execution without a record; a run that is aborted was asked
to stop or lost its client. `StopExact` is about steps, so every lemma proves `Inv'`
together with `Caused`.

`OrchestrationProofs` proves, for workflows of any size that `validate_workflow_dag`
accepts:

* `OrchestrationTypeCorrect`: `Spec => []TypeOK`, whatever the environment does;
* `NodesFollowDependencies`: `DependencyOrder`, where `Serial` holds: reconciliations do
  not overlap and the run is not cancelled;
* `ManagerFollowsNodes`, `OutcomeIsCaused`: `ManagerAfterAll` and `OutcomeForCause`, where
  in addition `Whole` holds: the run is reconciled after it was submitted as a whole.

Neither can be dropped, as the observations after the table of runs and `RunAbort`
show. The argument: what remains true of a loaded snapshot while the workers go on
(`Snapshots`): the final statuses of nodes, and until the first commit that a waiting node
waits. The loop over the children (`Pass`, a recursive function over the nodes) does no
more than release nodes whose dependencies succeeded in the snapshot or cancel them
(`Advances`); since induction is out of the prover's reach, `PassAdvances` looks at the
least round that did more, with the well-foundedness of the natural numbers from the
library.

`RuntimeServiceProofs` proves, for any requests, stops and capacity:

* `ChildrenAreIsolated`: `Spec => []Isolation`;
* `StopsAreAccounted`: `Spec => []StopsAccounted`.

Both hold also for streams whose clients leave. It assumes that requests are finitely many, that `None` is no user and that the worlds have
the form they are read in (`RuntimeAssumption`). The argument: a child lives only while its request has a permit
(`Seated`), registered requests differ in execution and session (`Apart`), and what the
thread found unused stays unused, because nobody else is between `owner` and `spawning`
and no thread is adrift (`Ownership`); a run that is lost keeps its permit and its
registration, so the bound of `max_concurrency` stays good. `Halted` says from where a stop lets a request go on; every request a stop
met, and a stop that is remembered, were one call of `stop` each (`Accounted`).

`ServicesProofs` has one section per component of `Services`. Each theorem rests on what
its component assumes of its constants (`MemoryAssumption`, `TokensAssumption` and so on:
`None` is none of the values, bounds are natural numbers, counted sets are finite), and
TLC evaluates these assumptions in the run `Services`.

| Theorem | Property | What makes it inductive |
|---|---|---|
| `HistoryIsTheLog` | `HistoryIsLog` | `MemoryInv`: who has read and is not `stale` has read what is stored; with lemmas about cutting lists (cut and append, or append and cut) |
| `TokensAreDropped`, `DeepSeekIsNeverLate` | `NoLateCall` | `ClientInv`: a client closed with nothing under way has no token, and no call or renewal that carries one; closed during a call, it has no other call that could send what the answer brings |
| `ToolsAreCounted` | `ToolsCounted` | `HermesInv`: a count is the cardinality of the registered users of an alias; who registers adds one to each, who leaves takes one off |
| `VerdictsDoAgree` | `VerdictsAgree` | `Story`: the status of an execution by the place of its run, and by the stops that have written |
| `NothingIsLeftRunning`, `SuccessesAreWhole` | `NothingLeftRunning`, `SuccessIsWhole` | `Rows`: at each stage the one row that may be open, those before it that are closed, and what a clean-up has found |
| `KeysAreExact` | `KeysExact` | `BarredInv`, `RotationInv`: where a call with a revoked key can be; a rotation under way has all active keys in hand, and there is one |
| `RatesAreBounded` | `RateBound` | `RateInv`: the counter of a window that lasts is at least the number of calls that passed in it, and one of them has a limit as high |
| `AuditDoesAgree` | `AuditAgrees` | `Told`, `Tallied`: what a caller was told by the stage of its call; the counters are cardinalities of sets of audit rows |
| `HealthIsCurrent`, `RegistryStaysComplete` | `HealthCurrent`, `RegistryComplete` | `UpToDate`: what a client read still holds unless it was overtaken, the default a PATCH read included; `Current`: the same of a health status; `RegistryComplete` is about steps, and follows from `UpToDate` before the step |
| `RegistryIsCoherent` | `RegistryCoherent` | `Reads`: an operation that was not crossed has read the endpoint and the credential in use |
| `PoolsDoFollow` | `PoolsFollow` | `PoolsInv`: if one query under way was not disturbed, all have the credential in use; pools and queries have revisions up to the current one |
| `ReleasesAreSound` | `ReleaseSound` | `ReleaseInv`: until something races, a publication carries the format there is, what it has resolved in format 2 is faithful to the bindings there are, and who replaces bindings has read a draft in development |

`SuccessIsWhole` and the stronger statement for DeepSeek have no run of their own.

What remains model-checked only:

* liveness (`EveryTaskSettles`, `RunSettles`, `FailurePropagates`, `CancelDrains`,
  `StopsEnd`, `CallsEnd`): liveness under fairness and `ENABLED` are beyond the prover;
* that the table of sessions of `RuntimeService` stays within its bound, a conjunct of its
  `TypeOK`: an eviction selects from a list (`SelectSeq`), and how long what is left is only
  induction over data tells;
* the type invariants of the components of `ServicesProofs`, beyond the parts the
  inductive invariants contain.

## 5. Not modelled, and the plan

In this order:

1. Schema and API versions (`api/schema_versions.py`) and the publication row join
   `AgentVersions`, with "what is callable is what was published" as property, and a
   violation run for the race of rollback and publication (comment at
   `production.py:995`).
2. The runtime of `TaskLifecycle`, whose answers are free today, is replaced by
   `RuntimeService` or `PiService`: a worker that retries an execution whose runtime
   still has the record of the first attempt, or a stop of it, is where they meet.
3. `CapabilityClients` and `CapabilityGateway` composed: a token revoked by
   `stop_execution` against a renewal in flight.
4. Refinements: `ExecutionRun` implements what `TaskLifecycle` assumes of a run (one
   outcome for execution and session, an execution that settles), and the remaining
   conjuncts of the type invariants as theorems.
5. Pure decisions against a reference definition on bounded inputs: priority and order
   of `task_queue.py`, the ranges of versions of the resolver, the delegation tree of
   teams, the SQL policy.

Also visible in the code and stated by no property: a child task that is cancelled leaves its
run running for ever, because `reconcile_run` waits for it (`orchestrator.py:254`), which
is why `RunSettles` excludes runs with a cancelled task; the legacy tools of Pi
(`loadMcpTools`) and of the older MCP endpoint have neither quota nor record.

The rest of the components is listed with the reason in `PROJECT.json`: pure I/O
(workspaces, storage, message bus, source recall), textual decisions (skills, knowledge
service, SQL policy), and reading (trace queries, frontend).
