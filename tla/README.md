# FuzeAgent: TLA+ models, model checking and proofs

This directory holds a formal model of FuzeAgent, an orchestrator for AI agents
written in Python: which behaviours of the code are modelled, which properties
TLC checks on small instances, and which of them TLAPS proves for every
instance. Paths such as `runtime.py:426` are relative to the component's
directory in the repository; where none is named it is `services/orchestrator/`.

## 1. The system

| Component | Source | State it keeps | Module |
|---|---|---|---|
| App builds | `app_builds/` | a row per build session; a task per session; one delivery task | `BuildRecords` ... `AppBuilds`, `SandboxDeployer` |
| A2A adapter | `agent-templates/a2a/`, `sync/driver.py` | task snapshots; background threads and streams; sessions at the provider | `A2ATasks` |
| Shared A2A server, hand-offs | `agent-templates/a2a/server.py`, `orchestration/handoff_mcp/` | one event loop for all tenants | `SharedServer` |
| Incident claims | `loki_incident_coordinator.py`, `incident_remediation_dispatcher.py` | claims as log lines in Loki | `IncidentClaims` |
| Task execution engine | `task_execution_engine.py` | execution contexts in memory, task rows | `TaskExecution` |
| Git workflow | `git_workflow_manager.py` | a workspace, branches, pull requests | `GitWorkflow` |
| File operations | `file_operations_engine.py` | batches with pre-images and backups | `FileOperations` |
| Docker sandboxes | `sandbox_manager.py` | a container, a row and an entry each | `Sandboxes` |
| Pod sandboxes | `kubernetes_sandbox_driver.py`, `image_registry_router.py` | Pod, Secret, NetworkPolicy, an entry | `PodSandboxes` |
| Agent relay | `image_registry_router.py`, `session-relay.mjs` | sockets of pods and browsers | `PodRelay` |
| Migrations | `migration_manager.py` | the ledger of applied versions | `Migrations` |
| Memory-enabled agents | `agent_manager.py`, `agent-process/autonomous_agent_with_memory.py` | containers, entries, task rows | `AgentTasks` |
| Agent memory | `agent-process/agent_memory_manager.py` | a buffer, rows, counts of expertise | `AgentMemory` |
| Agent sessions | `agent_lifecycle_router.py` | agents and sessions in memory; sockets; event queues | `AgentSessions` |
| Websockets | `websocket_manager.py`, `main.py` | connections, subscriptions | `WebSockets` |
| Brain store | `brain_store.py` | rows, vectors and a copy in memory | `BrainStore` |
| Documents and their index | `knowledge_manager.py`, `rag_integration.py`, `main.py` | files, metadata files, rows, chunks | `Documents` |
| Goal tracking | `goal_tracking_service.py`, `goals_management_service.py` | goals, milestones, a connection pool | `Goals` |
| Conversations and plans | `goal_conversation_service.py`, `milestone_task_engine.py` | conversation rows, milestones, two pools | `GoalConversations` |
| Everything else | | | section 6 |

How they interact: a person or an agent assigns a task; the execution engine
takes it (`TaskExecution`) with a sandbox, a repository and file operations
around it, or a memory-enabled agent in a container polls for it (`AgentTasks`,
`AgentMemory`). People talk to agents over sockets (`AgentSessions`, `PodRelay`,
`WebSockets`). Agents hand goals over to each other by A2A (`A2ATasks`,
`SharedServer`), elect who remediates an incident through a log
(`IncidentClaims`), and look things up in documents and brains. FuzeFront asks
for app builds over HTTP (`AppBuilds`). Every orchestrator migrates the database
when it starts (`Migrations`).

Apart from app builds, where runners, cancellers and the delivery loop share the
rows of one table, these parts share no state that any of their decisions reads:
each has its own tables, dictionaries and external system. They are therefore
modelled by modules of their own and, for checking, put side by side (section 3).

What is hard in this code is nearly everywhere the same. It is asyncio code, so
whatever is read before an `await` may be stale after it; what matters happens in
two systems (a row and a container, a file and an index, a record and a remote
session) that are changed one after the other, with an error path that may fail
itself; loops poll by status and rely on somebody having left the right status;
connections of a pool are taken while others are held; and listeners come and go
between two sends of one broadcast. `PROJECT.json` lists these hazards at their
lines, each with the properties about it.

### How the parts of an app build interact

FuzeFront asks for an app build over HTTP. `accept` stores a row and starts a
runner task (an asyncio task). The runner climbs a ladder of steps: announce
`building`, build, announce `deploying`, deploy, register the application at
FuzeFront's app registry under a free slug, announce `deployed`. Each step
reads the row, does one thing and writes the row. Announcing a state means to
write the state and to append a callback to the row's outbox in one update. A
single delivery task posts each session's callbacks to FuzeFront, in order and
with backoff. `cancel` writes the row, kills the runner and tells the deployer.
When the process restarts, `start` lists the unfinished sessions and runs each
again from what its row says.

The pieces share nothing but the rows, the task table and FuzeFront's registry.
Hard behaviours:

- **interleaving**: runner, canceller and delivery loop act on the same row and
  hold values read before an await;
- **crash and restart**: the process may stop between any two awaits; the row
  must tell the next process what was done, in particular whether a
  registration was attempted;
- **lost messages**: the answer of a register POST may be lost, or its sender
  killed, and the request may still land, late;
- **contention**: other sessions and other owners register the same slugs;
- **partial failure**: a store operation may raise anywhere, also in the error
  path and in `start`;
- **order and retry**: callbacks are retried and may be settled by a
  cancellation or a halt while they are on their way;
- **limits**: `list_active` and `list_pending_outbox` return at most 500 rows.

What makes the component correct: a finished step is not redone; a session ends
once and its end is final; its application is registered at one slug, which its
row names; what FuzeFront is told is the session's history, in order; a
cancelled session is quiet; nobody is forgotten; every session ends and every
callback is settled.

## 2. Modules

### App builds

| Module | Models | Extends |
|---|---|---|
| `BuildRecords` | `models.py`: statuses, `can_transition`, the record, the outbox operations | |
| `BuildStore` | `store.py`: the table, atomic operations, limited listings, faults; the process stopping and starting | `BuildRecords` |
| `BuildRunner` | `runtime.py` except delivery: accept, enqueue, the runner's ladder, registration, cancel, resume; FuzeFront's registry | `BuildStore` |
| `SandboxDeployer` | `sandbox_deployer.py` under the runner: what the default deployer answers, and the pods it spawns | `BuildRunner` |
| `CallbackDelivery` | `runtime.py`: `_delivery_loop`, `deliver_due`, `_deliver_session`, `classify_callback` | `BuildStore` |
| `DeliveryAlone` | the loop with runners abstracted to arbitrary writers of the rows | `CallbackDelivery` |
| `AppBuilds` | `BuildRuntime` as a whole: runners and loop over the same rows, with fairness | `BuildRunner`, `CallbackDelivery` |
| `BuildContract` | the abstract promise to FuzeFront (docs/app-builds.md, "State machine and callbacks") | |
| `BuildRecordsProofs`, `BuildRunnerProofs`, `CallbackDeliveryProofs`, `AppBuildsProofs` | lemmas about records; the inductive invariants of runners and loop; the two together and the refinement | the module they prove about |

| Variable | Code |
|---|---|
| `rec[b]` | the row of session `b` (`BuildRecord`); `absent` is no row |
| `up`, `crashes` | the orchestrator process runs; its stops so far |
| `storeFaults` | store operations that raised so far |
| `runner[b]` | the task of `b`: the program point it will run next (`pc`), where it goes on when `_persist` has read the row back (`next`), the row as last read (`seen`), the locals `slug`, `resumed`, the attempts in `_registry` (`tries`), the position in `candidate_slugs` (`cand`), the error being handled (`code`) |
| `accepting` | requests between `create_if_absent` and `enqueue` |
| `canceller[b]` | where the `cancel` call of `b` stands |
| `registry[s]`, `wire` | FuzeFront's owner of slug `s`; register POSTs whose sender no longer waits |
| `loop`, `posted[b]` | the delivery task; the last callback posted for `b` |
| `stage[b]`, `pods[b]` | how far `build()` of the default deployer is; the pods it spawned |

An action is what the code runs between two awaits. Everything a task keeps
across an await is in its record and is lost when the process stops. `_persist`
is two actions, the atomic update (operator `Persist`) and the `get` after it
(`ReadBack`), because a cancellation can commit between them. A runner's `pc` is
named after the step it stands before, so `pc = "post"` means that the POST is
about to be sent or under way.

### The other parts

Each of these modules is one component as the table of section 1 names it. They
are written alike: dictionaries of the process, rows and external systems are
variables of their own; a call that gives way is a record of where it stands and
what it has read; one action is what runs until the next await; what an external
system may answer is a disjunct, and faults, restarts and cancellations are
counted by a variable with a bound.

| Module | Actors | Left to the environment |
|---|---|---|
| `A2ATasks` | the loop with unary calls, a thread per stream and per background run, the provider's session | posts that cannot be sent or reach an ended session, dropped streams, a human who resolves a pause |
| `SharedServer` | calls that hold the loop or do not, hand-offs from the agents they run, polls | when a session's turn ends |
| `IncidentClaims` | dispatches, one claimant per channel, Loki, a clock | failing or slow posts and queries |
| `TaskExecution` | callers that start and cancel, the worker, the monitor, two cleanups | updates that raise |
| `GitWorkflow` | executions of one task, their cleanup | commands that fail, commits by others, cancellations |
| `FileOperations` | batches: propose, reject, apply, roll back | writes that raise before or after they have emptied the file, failing restores, edits by others |
| `Sandboxes` | creations, destroyers (callers and the cleanup loop), the process | updates and removals that raise, restarts |
| `PodSandboxes` | spawns, terminations, listings, the cluster's deadline | failing creations and deletions |
| `PodRelay` | handlers of pod sockets, which may register under a second id, browsers, chat messages | connections lost without notice, browsers that leave |
| `Migrations` | processes that migrate up and down | failing statements |
| `AgentTasks` | deployments, stops, assignments, the loop in the container and its coroutines | dying containers, failing requests |
| `AgentMemory` | coroutines that store memories and outcomes, the periodic flush | refused batches, lost answers |
| `AgentSessions` | prompts, terminations, sockets, event streams | dead sockets, restarts |
| `WebSockets` | connections and their endpoints, updates, the sweep | clients that close or vanish |
| `BrainStore` | the seeding, calls that create, update, delete, add a document, index chunks; the counts that built-in and created brains come with (`Given`) | what the database refuses, restarts |
| `Documents` | uploads, updates, reads, deletions, indexings, searches | statements, writes and removals that raise, the process killed between two of them |
| `Goals` | dashboards, assessments, reports, records, manual updates, milestones, one pool | statements that raise |
| `GoalConversations` | creations, messages, analyses, plans, two pools | statements that raise, the deletion of the goal |

`PlatformParts`, `AgentParts` and `TalkParts` declare the constants and the
variables of several parts next to each other and instantiate their modules, so
that what is checked and what is proved of a part is one statement:

- `PlatformParts`: sandboxes, migrations, pods, sessions, documents and the
  repository; extended by `MCPlatform` and `PlatformProofs`;
- `AgentParts`: the relay, the sockets, the memory and the loop of tasks; extended by
  `MCAgentRuntime` and `AgentProofs`, both with `BrainStore`;
- `TalkParts`: the conversations about a goal; extended by `MCSchedules` and
  `PlatformProofs`.

The invariants are then properties of these instances: `TheDocuments` has all the
scopes and documents there are, `Upwards` has images that may lack versions and
nobody who migrates down, `TheRepository` executions one after the other. Where a run
is to look at less than all of that at once, its module narrows it: `OneDocument`,
`OneScope`, `OneContainer`, `OneTask`, `NoTask`, `TheTalk`, `TheRow`, `ThePlans`, and
the actions `Chats` and `Ends`, take some of the actors of the instance or fewer faults.

`Documents` takes the indexing of a whole scope to work: the process is started as
`app.main:app` with `PYTHONPATH=/app` (`entrypoint.sh:131-135`), so that both the
imports that name the package and the relative ones resolve.
`A2ATasksProofs` and `IncidentClaimsProofs` hold the proofs about their modules.

`Goals` and `GoalConversations` write a call as a script, a sequence of named
steps each of which ends at an await; a step acts only if its call has reached
it, so that one action per step stands for all calls that contain it.

### Abstractions

- Payloads, manifests, URLs, texts, prompts and embeddings are left out or are
  model values. An artifact and a deployment result are flags; an integration is
  its type and its set of keys, because the registry's rules look at those.
- `nextAttemptAt` is a flag `due` that turns true when the clock moves
  (`BackoffEnds`); ages and deadlines elsewhere are such flags too. Only
  `IncidentClaims` has a clock, because leases, delays and the jitter are
  compared with each other.
- An analysis finds fewer action items here than the ten at which the code cuts them
  off (`goal_conversation_service.py:1014`).
- The order `created_at` of listings is abstracted: a limited listing returns
  any rows of the right number.
- The error codes `registry_auth_failed` and `manifest_rejected` are merged into
  `registry_rejected`, which the code reaches in the same way.
- A store operation of app builds either takes effect or raises. A commit whose
  answer is lost is modelled where it matters (`AgentMemory`).
- A wake-up of the delivery loop that `_wake.clear()` loses only delays the
  next pass until the poll timeout, so the loop is modelled as always able to
  begin a pass.
- One replica of the orchestrator, as it is deployed (`replicas: 1`), except in
  `Migrations`; a request handler that is torn down by its client's disconnect is
  not modelled.

## 3. What TLC checks

Twelve runs. Nine must pass.

| Run | Instance | Question |
|---|---|---|
| `runner_one` | one session, two slugs, two crashes, two store faults, one lost answer, two registry attempts | Is the application traceable, a step ever refused, a cancelled session quiet, a session orphaned? |
| `runner_two` | two sessions that share their first slug, each with a second of its own, one crash | Does a session report only a slug it owns, and `slug_unavailable` only if every candidate is taken? |
| `delivery_two` | two sessions, up to two callbacks each, two attempts, one crash, one store fault, `ListLimit = 1` | Are callbacks posted in order, and does a settled one stay settled? |
| `builds` | runners and loop together, one session, one slug, one crash, under `FairSpec` | Does the whole implement `BuildContract`; does every session end and every callback settle? |
| `a2a_tasks` | two tasks, one of them short of a scope, two threads, two tool uses, two asks, one reply, one fault of three kinds, a human who helps | Do the fields of a snapshot agree, is CANCELED archived, is WORKING at work? |
| `claims` | two dispatches of two channels; lease 3, window 4, delay 1, jitter 2, six ticks | Is there one remediator at a time? |
| `platform` | thirteen turns (below) | Do records say what containers, schema, cluster, files, documents and branches are; are followers told? |
| `agent_runtime` | seven turns | Do rows tell what happened, and is nothing forgotten that was accepted or announced? |
| `schedules` | fifteen turns, each under its own fairness | Does what was begun end? |

### Turns

The parts in `MCPlatform`, `MCAgentRuntime` and `MCSchedules` share no state. A
product of them would multiply states without showing anything: a property of one
part is decided by that part's variables alone. So the variable `turn`, chosen
at the start, says which part moves; the others keep their initial values. The
properties of such a module apply to the instance of the turn where one is
named, and otherwise to all of them.

| Turn | Run | Instance |
|---|---|---|
| engine | `platform` | two executions, two updates that raise |
| engine | `schedules` | two executions, one cancellation, one update that raises |
| boxes | `platform`, `schedules` | two sandboxes (one in `schedules`), a caller and the cleanup loop that destroy them, two faults and a restart |
| upwards | `platform` | two processes migrate up, one with an image that lacks the last version, two faults |
| both ways | `platform` | one migrates up while another migrates down |
| cluster, poor cluster | `platform` | two pods, two requests; creations that may fail in the second |
| files | `platform` | a batch that modifies, creates and deletes, and an approved one that modifies, patches and moves the same files; a fault, which may leave the file that was being written torn, a foreign edit |
| chat, ending | `platform` | a session with a socket, a stream and a prompt, and a restart; one that is terminated twice |
| documents, scope | `platform` | a document in a scope of each kind, three requests, a fault or a kill; two documents of one agent |
| repository, cancelled | `platform` | two executions after each other, two faults; one that is cancelled |
| tasks, copies, deployments | `agent_runtime` | two tasks in one container that may be stopped or die; one task in two containers, with updates that fail; two containers, two stoppers, two failing requests and a crash, without tasks |
| memory | `agent_runtime` | two coroutines and the periodic flush, a buffer of two, three memories, a refused batch and a lost answer |
| relay | `agent_runtime` | two sockets that come with the default id or another, a message, a browser, two lost connections |
| relay, crowd, queue | `schedules` | one agent and one lost connection: a message and a pod that connects twice; a message and two browsers; two messages of one browser |
| sockets | `agent_runtime`, `schedules` | two connections that follow a feed or everything, an update, clients that vanish |
| brains | `agent_runtime` | two calls of any kinds on two brains, one of them built in, a refusal and a restart |
| claims | `schedules` | one dispatch of two channels; posts and queries that fail or are slow |
| server, server alone | `schedules` | three calls of agents that hand over to their own server and do not wait; calls that wait without such hand-overs |
| boards, reports, changes | `schedules` | a dashboard beside an assessment; a record and a report beside the periodic assessment; a record, a manual update and a milestone; four connections |
| talk, row, plans | `schedules` | a conversation that is created and written to twice; one that is analysed and listed while its goal may be deleted; plans of two months; two or three connections |

### Properties

App builds:

- `RegistryTraceable`: every application FuzeFront holds for a session is at the
  slug its row names or at one its row gave up. It needs the slug to be stored
  before the POST, and a retired slug to be remembered, across crashes between
  any two of these.
- `OneAppUnlessLost`: restarts alone do not register a second copy. It needs
  `register_attempted` to be stored before the POST.
- `OwnAppUnlessRestarted`: a registered session owns the slug it reports. It
  needs `resumed` to be read before the attempt is marked.
- `AdvanceNeverRefused`: `IllegalTransition` is never raised for a live session,
  whatever a resumed runner starts from.
- `CancelledIsQuiet`: once `cancel` has answered no task works for the session.
- `NoOrphan`: while the store answers and the limit is not reached, an active
  session has a task or is about to get one.
- `SlugUnavailableIsTrue`: the error is told only if it is so.
- `PostedInOrder`, `SettledStays`: the delivery loop against writers of its rows.
- `ImplementsContract`: refinement of `BuildContract` with `status`, the
  statuses in the outbox as `announced`, and `posted` as `reported`.
- `EverySessionEnds`, `CallbacksSettle`: liveness.

A2A and claims:

- `SnapshotAgrees`: state, pending tool use and archive flag of a snapshot
  belong together, whoever stored last.
- `CanceledIsArchived`: CANCELED is told only of an archived session.
- `WorkingIsInFlight`: a task that says WORKING has somebody at work.
- `OneHandler`: two winners never hold the incident at once, when every claim is
  in Loki before its claimant looks again.

Platform:

- `RunningIsRunning`: a row says running only for a container that runs.
- `LedgerIsSchema`, `ReportedIsDone`: a version is in the schema exactly once if
  the ledger says so; `migrate_up` returns only when everything up to its target is
  recorded; a termination that succeeds leaves nothing of the pod.
- `RunsWithParts`: a pod runs only with its Secret and its NetworkPolicy.
- `UndoneIsUndone`: a failed application leaves the files as they were, but for
  the one file whose writing raised, and a rollback leaves them as they were where
  nobody else edited them.
- `FollowersHearAll`: a stream gets the whole reply, in order and once, whatever
  sockets fail; a termination reaches every socket and stream that was there.
- `CatalogueIsTrue`: a scope lists what was uploaded and not deleted, with every
  update that was accepted, and with its content unless a deletion of it has
  stopped on its way.
- `DefaultIsUntouched`: the work of an execution never gets on the default
  branch.

Agent runtime:

- `StatusIsHistory`: what the task table says happened in a container.
- `UpIsTrackedUnlessMet`: when nobody deploys or stops, a container that runs is
  tracked, unless a later one took its entry, it was entered while another was
  being stopped, or a request for it failed.
- `KeptUnlessMet`: a memory is in the buffer or in the table, unless it came while
  a batch was being written. `CountsUnlessMet`: no outcome is counted twice, and
  one whose update met no other is counted.
- `NamedEntriesLive`: an entry of the relay, other than under the default id, is of
  a handler that reads and goes by that id.
- `WatchersAreTold`: an update reaches every client that follows all along.
- `CountedIsStored`: beyond what it was given, a brain counts no document that is
  not stored.

Schedules (liveness, but for the last):

- `EveryExecutionEnds`, `ActiveExpires`, `EveryIncidentHandled`, `CallsReturn`,
  `EveryPromptAnswered`, `GoneIsForgotten`, `CallsEnd`;
- `KeptUnlessOverlapped`: what was written into a list of a conversation stays,
  unless another call overlapped it or newer messages fill the history.

### Bounds

Constants called `Max...` bound the environment's faults, restarts, cancellations
and edits, `Reports` the statuses the writers of `DeliveryAlone` announce,
`MaxTime` the clock of `IncidentClaims`, `MaxCopies` how often a task is started,
`MaxMemories` the memories stored. Where a number belongs to the code it is a
constant too and is small here: `ListLimit` is 1 for 500, `PoolSize` 2 to 4 for
`max_size`, `Limit` 2 for `max_conversation_messages`, `Capacity` 2 for
`MAX_CONCURRENT_TASKS`. What is compared with them is as small, so that each
limit is reached.

One session with two slugs is enough for a retry after a conflict, a retirement
and a resumption at every program point (two crashes: a resumed runner is itself
interrupted). Two sessions are enough for one to take a slug between the other's
probe and POST. Two callbacks and two attempts are enough for an order, a retry
and an exhaustion. Elsewhere two actors of each kind are enough for one of them
to act between any two steps of the other; a third is there where the hazard
needs it (an update, a deletion and an indexing of one document). The claims run
for longer than one lease, so that a second dispatch finds a claim that has
expired.

`CHECK_DEADLOCK FALSE` is stated in every run because each of the systems comes
to rest: the actors of an instance are finite in number and end. What must not
come to rest early is said by the liveness properties.

### Fairness

`FairSpec` of `AppBuilds` assumes weak fairness of what the program schedules: an
asyncio task that is ready runs, the delivery loop wakes at its poll timeout, the
clock reaches a backoff's end, a stopped pod is started again by Kubernetes. The
deployer and FuzeFront answer or time out (the client sets timeouts). Never
forced: accepting, cancelling, faults, lost answers, other owners. The run
`builds` has no store faults, because a fault in `_fail` or in `start` leaves
the session active with no task until the next restart (section 4), and no lost
answers, which only consume an attempt.

The other modules state `Fairness` in the same way: a coroutine that has begun
goes on, a loop that polls comes round, an awaited system answers or raises. What
a person, a peer or a fault does is never forced. Strong fairness is assumed in
three places. A waiter for a connection of a pool (`Goals`) is served in turn
by asyncpg, although others take connections in between. The cleanup loop of the
sandboxes comes to every expired entry, although its attempts may raise
(`Expire`); faults are finite in number. A pod that has a prompt answers it if it
is connected again and again (`PodAnswers` of `PodRelay`).

## 4. Disagreements of code and documentation

### With a run

Three runs each check one property that a comment or document states, and TLC
refutes it by what the code does.

- **`default_deployer`** (`IntegrationAccepted` of `SandboxDeployer`). `deployer.py:38`
  says that `deploy` returns the "FuzeFront manifest ``integration`` block for
  the deployed app". `KubernetesSandboxDeployer`, which `start_app_builds` wires by
  default (`__init__.py:53`), returns the type `microfrontend` with keys of its own
  (`sandbox_deployer.py:126`). `validate_integration` (`slug.py:58-67`) allows
  neither, so with the default deployer every build ends `failed` with
  `manifest_invalid`, after the log has said that the deployment is complete.
- **`a2a_approval`** (`AllowedWasApproved` of `A2ATasks`). `adapter.py:77`: "A caller may
  allow a paused always_ask tool call ONLY with an explicit affirmative."
  `_continue` confirms whatever tool use the snapshot names when the reply arrives
  (`adapter.py:407`): the second of two replies to one pause allows the tool use of
  the next.
- **`claims_unseen`** (`OneHandler` of `IncidentClaims`, with slow posts).
  `incident_remediation_dispatcher.py:8` promises that "exactly one agent executes
  remediation". A claimant waits 350 ms after its own post
  (`loki_incident_coordinator.py:233`), while a post may take 5 seconds (`:91`): an
  earlier claim that lands later is not seen, and both win.

### Without a run

The modules also state the properties below, which the code does not meet. They
were refuted by TLC in the same way; the constants that show it are given where
they differ from those of the runs.

**App builds** (`BuildRunner`, `CallbackDelivery`, `SandboxDeployer`)

| Property | What is said | What the code does |
|---|---|---|
| `ResumedConflictIsOwn` | `runtime.py:427`: after a resume a 409 means "our own earlier POST landed before the restart" | the attempt is stored before the POST is sent; if the process stops between, another owner may take the slug, and the session reports an application that is not its own |
| `RetiredSlugIsForeign` | `docs/app-builds.md:85-86`: a 409 moves to another slug before anything is registered | a POST whose answer was lost is retried in the same call (`runtime.py:373`); the 409 is the session's own, the slug is retired and a second application is registered |
| `NobodyForgotten` | `docs/app-builds.md:69-70`: a restart resumes unfinished sessions | `start` swallows a failing `list_active` (`runtime.py:121`) and does not list again; the listing is limited to 500 rows (`store.py:158`) |
| `HaltIsSilence` | `runtime.py:82`: halt means "stop reporting this session" | `callbacks_halted` is written and never read: later states are posted |
| `CancelIsSilence` | `tests/test_app_builds.py:1004`: "a cancelled session reports nothing further" | a callback read before the cancellation is posted after it (`runtime.py:504`) |
| `OnePodEach` (one crash) | `deployer.py:10`: an implementation must be idempotent on the session | a build that is invoked again spawns another pod |
| `NothingIsFaked` | `docs/app-builds.md:80`: "no deploy is ever faked" | a failing spawn is logged and the build answers success; it never looks at its pod |

`docs/app-builds.md:77-79` also still calls `NotConfiguredDeployer` the default.
`cancel` of the default deployer does nothing, so the pod of a cancelled build runs
to its deadline; the entry point is that of the base slug, which two sessions of
one name share, whatever slug is registered.

**A2A** (`A2ATasks`, `SharedServer`)

| Property | What is said | What the code does |
|---|---|---|
| `TerminalIsFinal` | `state-mapping.md:75`: CANCELED is "Terminal." | a run that `CancelTask` overtook stores what it came back with (`adapter.py:347`) |
| `CanceledIsArchived` (`"refused"` in `Faults`) | `state-mapping.md:146`: CANCELED is reported "only once archival is confirmed" | the driver swallows a refused archive (`driver.py:41`) |
| `WorkingIsInFlight` (`"refused"`) | `state-mapping.md:77`: WORKING is "not a resting state" | `SystemExit` of an HTTP error passes `except Exception` of the background run (`adapter.py:368`) |
| `InterruptedIsKnown` | `state-mapping.md:132`: "Polling until terminal, or subscribing, is always safe." | the AUTH_REQUIRED task of a missing scope has an id that is never stored (`adapter.py:302`) |
| `PollsDecideNothing` | `handoff_mcp/server.py:89`: "a Task the caller polls via ask_agent" | asking about a paused task is a reply, which denies the tool use (`:131`) |
| `PollingSees` | `state-mapping.md:128`: a task may leave INPUT_REQUIRED "with no client input at all" | `get_task` returns the last snapshot, and nobody runs the session that a human resumed (`adapter.py:424`) |
| `PollsAnswered` (`Calls` {c1, c2}, `Peers` {c2}, both modes) | `state-mapping.md:132`, as above | a call that waits holds the event loop, and its agent may call the same server without a timeout: the loop waits for itself (`server.py:118`) |

**Incident claims and execution** (`IncidentClaims`, `TaskExecution`)

| Property | What is said | What the code does |
|---|---|---|
| `NamedOwnerHandles` | `incident_remediation_dispatcher.py:8-10`: the issue "is already being handled by <owner>" | the owner named is that of any running claim, which may lose the second query itself (`loki_incident_coordinator.py:206`) |
| `ReportedIsHandled` | `incident_remediation_dispatcher.py:9` | the second query does not pass over expired claims (`:247`): until Loki forgets it, an expired claim wins and nobody remediates |
| `EndedIsRecorded` (one cancellation) | `task_execution_engine.py:242`: "Check database for completed/failed tasks" | an update still awaited when the cancellation is recorded overwrites it (`:308`) |
| `CleanupIsOwn` (two starts, one cancellation) | `:1053`: "Clean up completed executions" | the scheduled cleanup pops by task id and takes the new execution (`:971`) |
| `AnalysisIsContinued` | `:393`: "Continue based on last completed step" | the worker picks PENDING and EXECUTING only (`:333`); an analysed task waits 50 hours for the monitor |

**Sandboxes, pods, migrations** (`Sandboxes`, `PodSandboxes`, `PodRelay`, `Migrations`)

| Property | What is said | What the code does |
|---|---|---|
| `NoOrphan` (a crash, or a fault) | `sandbox_manager.py:73-74`: "Automatic cleanup" | a start loads running and paused rows only (`:501`); the error path leaves the container (`:208`) |
| `DestroyedStays` | `:219-221`: a sandbox that is gone is a warning | the `del` of a second destroyer raises and its error path overwrites `destroyed` (`:262`) |
| `NoGap` (with `DownTargets`) | `docs/database-migrations.md:9`: "Safely revert changes when needed" | the list to roll back is read once and passes over versions without a file (`migration_manager.py:252`) |
| `RunsWithParts` (`Faults` {"create"}) | `kubernetes_sandbox_driver.py:80`: "attached secrets, network policy" | a failing creation is logged and the pod is made (`:254`) |
| `TerminatedIsGone` (`Faults` {"delete"}) | `image_registry_router.py:603`: "cleaned up by supervisor" | failing deletions are logged, and the answer is True (`:600`) |
| `SecretsAreEphemeral` | `kubernetes_sandbox_driver.py:82`: "ephemeral K8s Secret" | the deadline ends the pod; the Secret has no owner and stays (`:339`) |
| `TerminatedStays` | `image_registry_router.py:486`: "Sync with live Kubernetes pods" | a listing read before an await revives an entry that was terminated meanwhile (`:491`) |
| `EveryPodListed` | `:5`: "Live Sandboxes monitoring and lifecycle" | the pod that a chat message spawns is entered nowhere (`:1133`) |
| `NoDeadEntry` | `:1152`: "Check if a live pod WebSocket relay is connected" | a pod that registers under another id has two entries (`:963`), and its handler deletes the last one only (`:999`) |
| `ConnectedIsReached` | as above | the handler of an old connection deletes the entry of the new one (`:999`) |

**Agents** (`AgentTasks`, `AgentMemory`, `AgentSessions`, `WebSockets`)

| Property | What is said | What the code does |
|---|---|---|
| `AcceptedIsPicked` (one crash) | `agent_manager.py:632`: "agent will pick it up automatically" | nothing removes the entry of a container that died (`:596`) |
| `WithinCapacity` | `autonomous_agent_with_memory.py:292`: "if we have capacity" | a task still pending at the next poll is started again and its entry replaced (`:308`) |
| `UpIsTracked` | `agent_manager.py:58`: "Track active memory-enabled agent containers" | a stop deletes whatever entry is there after its await (`:716`) |
| `KeptOrStored` | `agent_memory_manager.py:120`: "persistent memory stored in centralized database" | `clear()` after the await drops what was appended meanwhile (`:549`) |
| `ComesToStore` (`MaxLost` 1) | as above | a batch whose answer was lost stays in the buffer and refuses every later one by its keys (`:552`) |
| `CountsOutcomes` | `:555`: "Update agent expertise based on task outcome" | the count is read before an await and written after it (`:600`) |
| `TerminatedIsDeserted` | the answer of a termination | nobody looks whether the session is over: who comes while sockets are being closed follows a terminated session (`agent_lifecycle_router.py:793`, `:820`) |
| `EndedIsRecorded` of `AgentSessions` | the row of a session | a termination does not wait for the insert, and either statement may be refused (`:615`, `:986`) |
| `CreatedIsListed` | the answer of a creation | agents are listed from memory only; the insert lacks `team_id` and is refused, so a restart forgets them (`:437`) |
| `BroadcastsEnd` | `websocket_manager.py:274`: "Broadcast an update to relevant connections" | a socket that comes or goes changes the dictionary that the broadcast iterates (`:279`) |
| `OpenIsRegistered` | the registration of an open connection | five minutes without a ping end it, whatever else the client sends, and its socket stays open (`websocket_manager.py:352`) |

**Files, knowledge, repository** (`FileOperations`, `BrainStore`, `Documents`, `GitWorkflow`)

| Property | What the code does instead |
|---|---|
| `FailedIsUndone` | the file whose writing raised stays torn, because its operation has no `applied_at` yet (`file_operations_engine.py:460`, `:484`); without a backup there is no rollback (a batch of creations cannot be undone), a move stays, a creation over a file removes it (`:597`) |
| `RejectedStaysOut` | a rejected batch stays pending and may be approved (`:195`) |
| `ClaimedIsStored` | built-in brains are stored with a `document_count` of 12, 28 or 34 and no documents, and a creation takes its count from the request (`brain_store.py:309`, `:508`) |
| `DeletedIsGone` | an update under way, a restart and a refused deletion each bring a deleted brain back (`brain_store.py:597`); its chunks are never deleted |
| `UpdatesAreKept`, `VectorsAreChunks` | each update writes every column from what it read (`:577`); a chunk that is written again is counted again (`:903`) |
| `ListedHasContent` | a deletion removes the content before the metadata, and may raise or be killed between them (`knowledge_manager.py:631`) |
| `DeletedIsNotFound`, `FoundIsOwn` | an index entry is never removed, and an indexing may end after the deletion (`rag_integration.py:390`); documents of all organizations and teams go to one brain (`:121`) |
| `OneRowEach`, `ReindexedIsIndexed`, `DeletedWasThere`, `RefusedUpdateKeeps` | each indexing adds a row; what the store reports is not looked at; a deletion of nothing answers success (`main.py:4668`); an update truncates the file before it may be refused (`knowledge_manager.py:671`) |
| `PullRequestHasWork`, `CleanedIsUsable` (two executions, a fault) | nobody looks whether the push was refused; a cleanup gives up at the first command that fails and leaves a workspace the next execution cannot use |
| `DefaultIsUntouched` (one cancellation, or `Overlapping`) | the cleanup checks the default branch out under a commit that goes on |

**Goals and conversations** (`Goals`, `GoalConversations`)

| Property | What the code does instead |
|---|---|
| `TrackedIsProgress` | a record compares with a progress that was read before (`goal_tracking_service.py:222`); a milestone resets progress that was set by hand |
| `CallsEnd` (as many nested calls as connections) | calls that each hold a connection and wait for another wait for ever; with `max_size` 8, four dashboards at once |
| `AnsweredIsKept` | a list is read, extended and written back by two calls at once; a message to a conversation that is not there is answered as added |
| `StartsWithStarter`, `OneActionEach`, `OneMilestoneEach` | the row of a conversation is there before its first message; a repeated call, or one that failed in the middle, inserts again, and nothing of a month is in one transaction |

Some calls of these parts cannot succeed at all. The models take them as calls
that raise at that step: `conduct_progress_review` passes a parameter too many,
`generate_goal_execution_plan` passes a string for a date, the weekly and
cross-functional plans call methods that do not exist, and the report of a goal
raises.

## 5. What is proved

TLAPS checks these theorems for any sets of sessions, tasks, pods, processes and
connections, and for any bounds. There is one row per theorem that a reader
should know of; the lemmas they rest on are in the same modules, those about
records and the delivery loop in `BuildRecordsProofs` and
`CallbackDeliveryProofs`.

| Theorem | Module | Statement |
|---|---|---|
| `RunnerInvariant` | `BuildRunnerProofs` | `RunnerSpec => []RunnerInv` |
| `RunnerTypes` | `BuildRunnerProofs` | `RunnerSpec => []TypeOK` |
| `ApplicationsAreTraceable` | `BuildRunnerProofs` | `RunnerSpec => []RegistryTraceable` |
| `AdvanceIsNeverRefused` | `BuildRunnerProofs` | `RunnerSpec => []AdvanceNeverRefused` |
| `StepsAreNotRedone` | `BuildRunnerProofs` | `RunnerSpec => []FinishedStepsNotRedone` |
| `EndsAreFinal` | `BuildRunnerProofs` | `RunnerSpec => TerminalIsFinal` |
| `CancelledStaysQuiet` | `BuildRunnerProofs` | `RunnerSpec => []CancelledIsQuiet` |
| `UnavailableIsTrue` | `BuildRunnerProofs` | `RunnerSpec => []SlugUnavailableIsTrue` |
| `NoSessionIsOrphaned` | `BuildRunnerProofs` | `RunnerSpec => []NoOrphan`, for a finite set of sessions |
| `OneApplicationEach` | `BuildRunnerProofs` | `RunnerSpec => []OneAppUnlessLost` |
| `OwnApplication` | `BuildRunnerProofs` | `RunnerSpec => []OwnAppUnlessRestarted` |
| `DefaultNeverDeploys` | `BuildRunnerProofs` | `DeployedSpec => []NothingIsDeployed` |
| `AppTypes` | `AppBuildsProofs` | `Spec => []AppBuildsTypeOK` |
| `BuildsImplementContract` | `AppBuildsProofs` | `Spec => ImplementsContract`, the refinement of `BuildContract` |
| `RunnersUnharmed`, `EndsStayFinal` | `AppBuildsProofs` | the runners' properties, of `Spec` |
| `CallbacksPostedInOrder` | `AppBuildsProofs` | `Spec => []PostedInOrder` |
| `CancellationSettlesCallbacks` | `AppBuildsProofs` | `Spec => []CancelledOwesNothing` |
| `AttemptsAreBounded` | `AppBuildsProofs` | `Spec => []AttemptsBounded` |
| `SettledCallbacksStay` | `AppBuildsProofs` | `Spec => SettledStays` |
| `ReportsAreMonotonic` | `AppBuildsProofs` | `Spec => ReportsNeverGoBack` |
| `SnapshotsAgree` | `A2ATasksProofs` | `SnapshotAgrees` always |
| `CancellationIsArchived` | `A2ATasksProofs` | `CanceledIsArchived` always, if `"refused"` is not in `Faults` |
| `OneHandlerAtATime` | `IncidentClaimsProofs` | `OneHandler` always, if `Faults` is empty |
| `WorkingHasItsRun` | `A2ATasksProofs` | `WorkingIsInFlight` always, if `"refused"` is not in `Faults` |
| `RowsSayRunning` | `PlatformProofs` | `RunningIsRunning` of `Sandboxes` |
| `LedgerTellsSchema` | `PlatformProofs` | `LedgerIsSchema` of `Migrations` |
| `PodsRunWithParts` | `PlatformProofs` | `RunsWithParts` of `PodSandboxes`, for pods of launches and chats on a cluster that serves |
| `DoneIsDone` | `PlatformProofs` | `ReportedIsDone`: of `Migrations` where nobody migrates down, of `PodSandboxes` where creations may fail |
| `ListedIsTrue` | `PlatformProofs` | `CatalogueIsTrue` of `Documents` |
| `DefaultStaysClean` | `PlatformProofs` | `DefaultIsUntouched` of `GitWorkflow`, for executions one after the other, none cancelled |
| `EverybodyHears` | `PlatformProofs` | `FollowersHearAll` of `AgentSessions` |
| `WrittenStays` | `PlatformProofs` | `KeptUnlessOverlapped` of `GoalConversations` |
| `UndoneStaysUndone` | `PlatformProofs` | `UndoneIsUndone` of `FileOperations`, if `"rescue"` is not in `Faults` |
| `RelayNamesTheLiving` | `AgentProofs` | `NamedEntriesLive` of `PodRelay` |
| `SkillsAreCounted` | `AgentProofs` | `CountsUnlessMet` of `AgentMemory` |
| `MemoriesAreKept` | `AgentProofs` | `KeptUnlessMet` of `AgentMemory` |
| `FollowersAreTold` | `AgentProofs` | `WatchersAreTold` of `WebSockets` |
| `TableIsHistory` | `AgentProofs` | `StatusIsHistory` of `AgentTasks`, for a finite set of tasks |
| `WhatRunsIsTracked` | `AgentProofs` | `UpIsTrackedUnlessMet` of `AgentTasks`, if `"none"` is not a container |
| `DocumentsAreCounted` | `AgentProofs` | `CountedIsStored` of `BrainStore` and the types always |

Assumptions. `NoSlugAssumption`, `StoreAssumption`, `RunnerAssumption`,
`DeliveryAssumption`, `BrainAssumption`, `SandboxAssumption`, `MigrationsAssumption`,
`SocketsAssumption`, `SessionsAssumption`, `GitAssumption`, `FilesAssumption` and
`TalksAssumption` say
that the constants have their types and that `NoSlug`, `Foreign`, `Unowned`, the
upstream and the like are not confused with others; TLC evaluates them in the runs.
Some theorems are about part of the instances, as their rows say: what happens in
the others is told in section 4.

Every safety invariant and every action property that a passing run checks is a
theorem.

**The runners.** None of the properties is inductive. That an application is at
the slug the row names is kept by a POST only if the slug the *task* holds is
the one the *row* holds, and by a late POST only if the requests on the wire are
for named slugs. That a step is not redone depends on what a task *read*
agreeing with what is *stored* now. The inductive invariant `RunnerInv` is
`TypeOK` and, for each session, `SessionInv`, the conjunction of

- `AbsentInv`: a session without a row has no task and no enqueue to come;
- `ResultsInv`: which results each status implies;
- `StoredInv`, `StatusInv`, `SlugInv`: what holds at each program point (the
  operator `Standing` counts a read-back as the step after it): the results
  stored so far, the status unless someone has ended the session, and, from the
  choice of a slug to the answer of its POST, that task and row hold the same
  slug;
- `TraceInv`: every application and every request on the wire is at a slug the
  row names.

There is one lemma per action. Steps of one session leave the others alone
(`OtherSession`, `FromFrame`); steps that go through `_persist` are reduced to
the row they write and the point they read back at (`PersistInv`); steps that
move only the task, to the invariant at the new point (`TaskMoveInv`).

**The loop.** `DeliveryInv` says what the loop holds (`HeldInv`) and that every
outbox is sound (`OutboxSound`): the last posted callback is not after any
pending one, a cancelled session has none pending, attempts are counted and
bounded, and only posted callbacks have any. The first is what makes a loop that
lost its place post in order: what is pending was never passed over. The writers
of the rows enter only as `RowMoves` (append a callback to a session that is not
cancelled, supersede all, or leave the outbox alone).

**The whole.** `AppBuildsProofs` shows that every step of runners, cancellers
and restarts is a `RowMoves` of every row (`SessionStepRows`), and every step of
the loop changes nothing a runner decides from (`DeliveryStepRows`,
`SettlesKeepsSession`). Hence `AppInv`, the conjunction of the two invariants,
is inductive. The refinement of `BuildContract` follows from it: `StatusInv`
gives that a move goes one step along the contract's walk, `OutboxSound` that a
report is not before the last.

**More about the runners.** The other properties need facts of their own, each kept by
one more invariant on top of `RunnerInv`. `QuietInv`: a canceller at work has
cancelled the row; once it is past the kill, a task of a cancelled row has not
begun or is about to fail. `TakenInv`: a slug that a task has passed over
has an owner, and owners never give a slug up. `RunnerHolds`: an active session
has a task or is about to get one as long as the store answers; a start with no
more rows than `ListLimit` gives each active one a task. `OneInv`: as long as no
answer was lost, an application or a request of a session is at the slug its row
names, whose row tells of the attempt, and a task that knows of no earlier attempt
has neither. `OwnInv`: until the first restart, a slug is chosen by a task that
knows it to be new, and who records a registration owns the slug.

**The default deployer.** `BareInv`: no row has a deployment result, no task stands
where it would store one, and FuzeFront has no application of the session and no
request for one. It is kept because the integration that the deployer returns is
refused (`IntegrationIsRefused`).

**A2A.** `SnapshotAgrees` is inductive with the types: whatever a step stores
is made from an outcome in one place, so that its parts agree. For
`CanceledIsArchived`, `ArchiveInv` says that the loop has the task's session
archived before it stores CANCELED, unless the provider may refuse; an archived
session stays so.

**Claims.** Claimants are ranked by when they took their time (`Ranked`). A claim
is in Loki at most `Delay` after that, and nobody looks again before the jitter is
over (`Posted`). So whoever looks again finds every claim that ranks before its
own, and wins only if those have stood down or are past their lease (`WonBefore`).

That a task that says WORKING has a run under way is inductive once "under way" is
said well (`FlightInv`): a worker reads the stream of the session, or the loop is
about to store CANCELED, or nobody has got to the session yet and the thread that
was started for it is about to post the prompt. Whoever takes a session from
another reads its stream, and a run that ends stores a status that is not WORKING.

**Brains.** A call that is about to count a document has stored it, unless the brain
was deleted (`StoredOrRemoved`); a deletion takes the row before the documents
(`RowGoesFirst`), and a deleted brain has no row unless it was inserted again
(`RemovedHasNoRow`). A brain that has no row and never lost one is known, to the
process and to whoever has read it, with no more than it was given
(`GivenAtFirst`): so whoever inserts it inserts no other count.

**Platform.** `RowsSayRunning` needs a sandbox under creation to be
nobody else's (`BoxNew`), the update to running to follow the start (`BoxRan`), and a
removal to follow the update to destroying (`BoxMarked`). `LedgerTellsSchema`
rests on the transaction that writes schema and ledger together, and on the
primary key, which refuses a version the second time. `PodsRunWithParts`: the
parts are made before the pod (`PartsFirst`), and a deletion takes the pod first
(`PodFirst`). `DoneIsDone` is two arguments: whoever migrates up has, of the
versions up to its target, recorded or still to do all that its image holds
(`UpwardInv`), where "to do" is a set from which the least is taken; and an answered
termination has deleted, one after the other, the parts that a spawn may have made,
none of which is made again (`GoneInv`).

`ListedIsTrue` (`DocInv`): metadata are whole only with every accepted update, no
deletion, and the content unless a deletion has stopped after removing it
(`WholeIsTrue`); an upload that was refused is nowhere, one that was accepted is there
until it is deleted, a deletion of it stops or an update fails in it
(`UploadsAreKept`), and of one that the process was killed in nothing is said; and an
upload has its identifier for itself (`MintedOnce`).

`DefaultStaysClean` (`GitInv`): one execution works at a time and no cleanup goes on
beside it (`OneWorks`); from the creation of its branch to its last commit the head
is not the default branch, in whatever state an earlier execution left the
workspace (`OnItsBranch`); and the default branch, here and at the remote, has no
commit of an execution (`Clean`).

`EverybodyHears` (`FollowInv`) joins the two ends of a broadcast. A dispatch has
put into the queue of every stream that is open since it began just what it has
broadcast so far, in order and once (`ReplySoFar`), whatever others put there in
between (`OtherIsHeard`). The open streams of a session are those of its queues
(`OpenIsQueued`), a socket that a broadcast drops is gone (`DeadIsGone`), and one
that came in time is subscribed while it is connected (`EarlyIsSubscribed`). So
what a termination finds is what it has to close and to tell (`EndSoFar`).

`WrittenStays` (`TalkInv`): what a call wrote, and nobody overlapped, is in the row
and also in what every other call has read that is about to write the same list
(`WrittenIsKept`). That second half is what the property needs to survive a write
back: a call that had read before is one that overlaps, and makes the writer `met`.
A message is as far from the end of the history as it has newer ones (`InRow`), so
that cutting off the oldest (`TheEndStays`) takes none that is not full of newer
ones. That a message is there once follows from each call writing once, at one step of
its script (`TalkScripts`).

**Agents.** `SkillsAreCounted` (`SkillInv`): what a writer has read is at most what had
happened and at least what was counted alone since, because two writers under way
have met. `RelayNamesTheLiving` (`RelayInv`): a handler goes by the id of its agent or
by the default one, and the entry it goes by is cleared when it ends.
`FollowersAreTold`: a registered connection is in the dictionary and in the index
of all it follows (`Entered`), and for every client an update is for, the update
has reached it or is still on its way to it (`OnItsWay`). `TableIsHistory`: no
coroutine goes back (`RunsGoOn`), and a status is written by one that is where the
status says (`SaysWhatIs`). `MemoriesAreKept` (`BufferInv`): while a batch is being
written the buffer holds what is in it and what came since, also when two flush at
once. `WhatRunsIsTracked` (`DeployedInv`): apart from containers that were disturbed,
what runs is being deployed or tracked, a stop is of the container that is tracked,
and it forgets the entry only when what it stopped is gone.

**Files.** `UndoneStaysUndone` has to show that what a batch does and what its
rollback undoes are the same paths. After as many operations as could be performed, a
path is as it was or one of these operations is reverted on it (`ChangedIsUndone`):
an operation that can be performed on a path without a backup finds there what an
earlier one made. Of the operations that are reverted on a path the earliest has the
last word, and leaves what was there at first (`RestoredByRollback`), also when
operations of an earlier application are reverted with them. For a rollback,
`FileInv` keeps of every applied batch that its backups are those of the workspace it
was applied to, and that what it does not restore is still as it was there, but for
what others have written (`Restorable`). The course of a batch is a recursive function;
that it exists, and what holds all along it, is shown by a least counterexample
(`Course`). The proof is about an emergency rollback that does not raise: the code
only logs one that does (`file_operations_engine.py:601`), and the files stay as they
are then. A write that raises leaves at most the file it was writing torn (`TornIsNamed`),
and the rollback takes back all that was done before it (`FailedIsTakenBack`).

**Only model-checked.** Liveness under fairness (`EverySessionEnds`,
`CallbacksSettle` and the temporal properties of `MCSchedules`) and `ENABLED`; and
what a recursive definition computes for every input. These are out of the prover's
reach here.

## 6. Not modelled

Of the modelled components:

- **App builds**: the HTTP router with its authentication and flags, request
  validation and fingerprints, the manifest builder. They keep no state of their
  own.
- **A2A**: cards, the authorization rules, the parsing of parts; the relay chain,
  target resolution, the client cache and the memory tools of the hand-off
  server.
- **Execution engine**: questions to a human in the steps after the analysis,
  which the worker never reaches; the assignment of tasks to queues.
- **Pods**: logs and commands, the registry of templates, image listings and
  `kaniko_builder.py`.
- **Agents**: queries of the memory, its hourly cleanup, the prompts to the
  model.
- **Goals, conversations, brains**: what is computed from rows once they are read
  (risks, trends, recommendations, texts), searches, chats.

Left out altogether, with the reason:

| Part | Why |
|---|---|
| `multi_agent_coordinator.py`, `a2a_protocol.py` | `initiate_coordination` begins with `DatabaseManager.get_task`, which `database.py` does not define; it always raises, and nothing else leads to the other operations |
| `container_manager.py` | creating and inspecting a container raises at `dict(config.get("Env"))`; it imports a second instance of the websocket manager that has no connections |
| `claude_sdk_manager.py`, `claude_code_wrapper.py` | `store_message` is given a dictionary where it takes arguments; unreachable in the running orchestrator |
| `services/hierarchy_API/main.py`, `database.py` | each request is one SQL statement or a few on a connection of its own, or a fixed answer; what is hard about them is the database's. Two remarks: `create_organization` passes a dictionary for a `jsonb` column and always answers 500; `create_goal` inserts a goal and its milestones without a transaction, so that a refused milestone leaves a goal that was answered as failed |
| knowledge services (`knowledge_*`, `task_knowledge_extractor.py`, `team_knowledge_manager.py`, `organization_rag_manager.py`, `context_enhancement_service.py`) | writing an embedding passes a list for a vector column and raises; `knowledge_notification_service.py` is never called |
| `escalation_engine.py` | one dictionary; each operation writes one entry |
| `kafka_pipeline.py`, `chat_memory_promoter.py`, `agent_persona_service.py` | dispatch in the process; used by tests |
| `pricing_billing_service.py`, `auth.py`, `coordination_endpoints.py`, `cross_product_coordinator.py`, `main_with_hierarchy.py` | not wired into the application |
| `mcp_integration.py`, `mcp-servers/` | read-only tools, and a proxy that keeps no state |
| agent-template providers, sync, worker, contracts | adapters to vendors' APIs, one-shot scripts, schemas |
| user interfaces, images, CI, deployment, governance scripts | presentation and configuration |

By lines, what the modules map is about 15 % of the repository's implementation:
nearly all of the code that changes state over several steps. The rest reads,
formats, computes from what it has read, or changes one row.

## 7. What is left

1. Proofs about larger instances than the properties name, as far as they hold:
   `RunsWithParts` on a cluster that fails in other ways. Properties that a module states and no run checks (`TaskExecution`,
   `SharedServer`) are candidates too.
2. An abstract task lifecycle for `A2ATasks`, which the code would have to be
   changed to implement (`TerminalIsFinal`, section 4).
3. If the multi-agent coordinator or the container manager is repaired: a module
   each. Their hazards are polling loops, and containers changed beside rows.
4. Larger instances of the parts in `platform` and `agent_runtime`, each in a run
   of its own.
