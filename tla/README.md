# TLA+ verification of the Axi Agent Platform

This directory models the parts of the platform whose correctness depends on
the order in which several actors take their steps, checks them with TLC on
small instances, and proves some of the properties with TLAPS for every
instance.

| Module | Models | Checked by | Proofs |
| --- | --- | --- | --- |
| `CompletionGate` | `lib/completion-gate.mjs` | through `AxiTodoLedger` | `AxiTodoLedgerProofs` |
| `AxiTodoLedger` | task ledger, daemon ticks, users | `MCAxiTodoLedger`, `ledger_*.cfg` | `AxiTodoLedgerProofs`, `AxiTodoLeaseProofs` |
| `DesktopBridge` | Swift store and web view copies, beside the ledger | `MCDesktopBridge`, `desktop_copies.cfg` | `DesktopBridgeProofs` |
| `StoreLock` | lock file, read, atomic write | `store_*.cfg` | `StoreLockProofs` |
| `AtomicStore` | what `TaskStore.mutate` promises | as a property of `StoreLock` | `StoreLockProofs` |
| `PostgresStore` | the ledger's operations as PostgreSQL transactions | `MCPostgresStore`, `postgres_*.cfg` | `PostgresStoreProofs` |
| `ClaimBoard` | what claiming a task promises | as a property of `AxiTodoLedger` and of `PostgresStore` | `AxiTodoLedgerProofs`, `PostgresStoreProofs` |
| `BoundedRun` | workstation API, capability broker, event sink, MCP call | `MCBoundedRun`, `bounded_runs.cfg` | `BoundedRunProofs` |
| `AgentTransport` | WebSocket broker and agent runners | `MCAgentTransport`, `agent_transport.cfg` | `AgentTransportProofs` |
| `RemoteBridge` | jobs, app sessions and connections of the Codex bridge | `MCRemoteBridge`, `remote_bridge.cfg` | `RemoteBridgeProofs` |

`PROJECT.json` lists the components, runs, the source lines of every
definition, the mutants that show each property can fail, the findings and the
hazards.

## 1. Inventory

### 1.1 axi-todo (`tools/axi-todo`)

A task ledger in one JSON file, `tasks.json`, and the processes that work on it.

- **Store** (`lib/store.mjs`, `lib/schema.mjs`). State: tasks with status,
  attempts, dates, resource keys, groups, verification; audit reviews, summaries,
  memory cards. Operations: add, update, delete, claim, complete, fail, mark
  doubted, reconcile stale running tasks, list completed tasks, record audit
  reviews. Each is `mutate`: lock file, read, compute, write a temporary file,
  rename, remove the lock file.
- **Daemon** (`lib/daemon.mjs`, `lib/codex-runner.mjs`). A tick (`runOnce`)
  reconciles, rechecks completed tasks by running their verify commands, claims a
  task, awaits a Codex run, and completes or fails the task. Ticks are started by
  a timer whatever the previous one is doing (daemon.mjs:69).
- **Completion gate** (`lib/completion-gate.mjs`, copied in
  `Sources/AxiTodoKit/AxiTodoGate.swift`): whether a finished run completes its
  task or holds it for audit.
- **Users**: the CLI and the MCP server, through the store.
- **Desktop app** (`Sources/AxiTodoKit`, `Sources/AxiTodoDesktop`): a second
  implementation of the store, on the same files, and a web view that edits
  copies of tasks.
- **Maintenance tools** (`bin/axi-todo-sync-pg-to-json.mjs`,
  `bin/axi-todo-recheck-completed.mjs`): read and write `tasks.json` without
  the lock.
- **PostgreSQL store** (`lib/postgres-store.mjs`, `migrations/`): the same
  operations as transactions over rows. A claim locks every row in the order of
  priority, a reconciliation the running rows, the others one row; a review is
  inserted under a foreign key.
- **Planner and MCP server** (`lib/planner.mjs`, `lib/mcp-server.mjs`): split
  goals into tasks, and offer the store's operations as tools.

Hard behaviours: overlapping ticks; state read before an await and used after it
(the claimed task's contract, the list of completed tasks); users patching and
deleting under a run; ticks that die; retries and stale reclaim racing a slow
run; dates that decide at their boundary; two implementations of one gate.
Correct means: running tasks never conflict over resources or exceed their
lane; a task marked running was claimed and is taken back if its runner dies;
tasks complete only through the gate; cancelled tasks stay so; ready tasks settle;
the file never loses an update that was acknowledged.

### 1.2 Backend (`backend/app`)

- **Workstation API** (`api/workstation.py`): two endpoints that run one tool
  for an authorized request and report its life to the workflow.
- **Task routing guard** (`core/task_routing.py`): signed route, digest, expiry,
  step budget.
- **Capability broker** (`core/capability_broker.py`,
  `core/governance_runtime.py`): one-shot capabilities in a process-wide broker;
  also effect proposals, revocation, idempotency keys.
- **MCP client** (`core/axi_agent_mcp_client.py`): issues and consumes a
  capability, then starts a subprocess and awaits its answer.
- **Lifecycle events** (`core/workflow_event_client.py`): three HTTP calls.
- **Governance guard** (`core/governance_guard.py`): evaluates a plan, issuing
  capabilities as it goes. No code outside the tests builds one.
- **Task scheduler** (`core/task_scheduler.py`, `core/task_route_ledger.py`):
  queue, workers, pause, resume, stop.
- **Agents, swarm, isolation** (`core/agent_manager.py`,
  `core/swarm_orchestrator.py`, `core/code_isolation_manager.py`): agent
  instances, sub-agents, git worktrees.
- **Memory, strategy, tools, database**: tables, dictionaries and forwarding.

Hard behaviours: worker threads at a shared broker whose ids depend on the action
alone; a lazily built global; three remote calls that can fail after taking
effect; a subprocess that may hang; restarts; runs sent again by the workflow.
Correct means: a capability is good for one call; nothing runs unannounced; the
workflow is told the truth and told the end; every run ends.

### 1.3 Infrastructure (`infra`)

- **axi-agent-mcp**: MCP server. `workflow/engine.ts` runs built-in workflows one
  step after the other; `concurrency/file-lock.ts` and `agents/scheduler.ts` are
  not reached by its handlers; the rest is tools, skills and model access.
- **axi-agent-transport**: a WebSocket broker (`orchestrator.js`) that maps agent ids
  to connections and forwards messages, and runners (`agent-runner.js`), one per
  terminal pane, that register, queue while they are disconnected, and reconnect
  with a growing delay and a limit on attempts.
- **codex-remote-bridge**: a reconnecting client that runs jobs for a server. A job
  is a Codex child process, under up to three accounts in turn or in a session
  of the Codex app under that session's lock file. The state is a map from job ids to
  abort controllers, the connection, the lock files and the children.

Hard behaviours: messages dropped while a connection is down; each end learning of a
break in its own time; ids registered twice; results that find their connection gone;
lock files and children that outlive their process; failures between two bookkeeping
steps. Correct means: what is heard is in order and once; a connected runner
is reachable; retries end; one child per app session; every running job can be
cancelled, and no more run than allowed; a result is lost only with its connection.

### 1.4 User interfaces (`frontend`, `apps/desktop-glass-ui`)

Rendering and calls of the backend.

### 1.5 How the parts interact

The CLI, the MCP server, the daemon and the desktop app share `tasks.json` and
its lock file and nothing else. The daemon calls Codex as a child process. The
workflow calls the backend over HTTP and is called back with events. The
backend calls axi-agent-mcp as one subprocess per call. The bridge and the transport
stand alone.

## 2. The models

### 2.1 `CompletionGate` and `AxiTodoLedger`

| Variable | Code |
| --- | --- |
| `now` | `Date.now()`, in units up to `Horizon` |
| `tasks` | `state.tasks`; status `"absent"` before `addTask`, `"deleted"` after `deleteTask` |
| `ticks` | the locals of each running `runOnce`: phase, the rechecks it still has to make, the task it claimed, when, and the copy of its gate fields |
| `reviewed` | tasks with an entry in `auditReviews` |
| `verdicts` | `recordAuditReview` calls between their two mutations |

A task also carries `reclaims`, which the code does not keep: how often
`reconcileStaleRunning` has taken it back (`Reclaimed`), a history for
`AttemptsWithinLimit`. `AddTask` takes an id that is not in the file, as `randomUUID` draws
it.

A store mutation is one step, because `StoreLock` shows that it is. A tick is many:

- `StartTick` is `reconcileStaleRunning`; `ListCompleted` reads the completed
  tasks; each `Recheck` awaits a verify command and then marks one task;
  `Claim` is `claimNextTask`; then the run goes on while everybody else acts, until
  `CompleteTask` or `FailTask`; `AppendAuditReview` is the second mutation
  that `completeTask` makes for a held task. `TickDies` is a
  crash in any phase.
- The users' actions are `AddTask`, `UpdateTask`, `DeleteTask`,
  `RecordAuditReview` and `ApplyVerdict` (again two mutations).
- A run's result is one of `RunResults`: passed, failed or absent verification,
  evidence or none. The gate judges it on the contract and verify command
  as they were when the task was claimed.

Abstractions. A contract, a command, a key and a group are model values. A prompt
is left out, and a verification is dated when it ends: `checkedAt` is taken at the
start of the command, less than one clock unit earlier. `dueAt` cleared is
the current time. A group is the first of `parallelGroup`, `agentCategory`
and `agentRole` that is set. A worktree key never equals a directory's. Left out because
nothing above depends on them: `completedAt`, `executionStatus`, lifecycle and
reminders of personal tasks, summaries, memory cards, history, log lines.

### 2.2 `DesktopBridge`

Extends the ledger with the desktop app: `copies` is what the web view last read
of each task, `dirty` the edits its user has made to a copy. `Refresh` re-reads;
`Edit` changes a copy; `Save` replaces the task in the file by the copy, through
the Swift `saveTask` and its gate; `MarkDoubted`, `Submit` and `DesktopDelete` are
the other bridge calls. The Swift task type has fewer fields than the JavaScript
one, and `SwiftView` is what passes through it. The response of a call updates
the web view in the same step; personal tasks are left to the Node side; titles and
prompts are edits that change nothing the properties see.

### 2.3 `StoreLock` and `AtomicStore`

`StoreLock` takes `TaskStore.mutate` apart: open the lock file exclusively or
retry until the time is up, write the pid, read, compute or throw, replace the
file, remove the lock file. A process may die between any two of these and leaves the
lock file behind; each file operation may fail. The content of the file
is the set of calls whose effect it includes. `Syncers` are the two maintenance
tools.

`AtomicStore` is what callers rely on: a call takes effect in one step or not at
all, and one that returns normally has. The refinement mapping is the identity
on the file and the returned calls; the calls in progress are those of the clients
that are not idle.

### 2.4 `BoundedRun`

`pc` follows each request of `api/workstation.py` from `received` to its HTTP
status, or `lost` in a restart. `enabled` says whether an event sink is configured: without
one, which is the default (config.py:46-49), `publish` returns silently; a restart may change
it. `sink` is what the workflow has accepted:
a set, since the ids of events are hashes of their content. A subprocess that is down is
reported as an event of type `failed` with an error code. The thread's steps are those of
`AxiAgentMcpClient`: `Obtain` and `Build` are the two halves of
`get_runtime_broker`, `Issue` puts a capability under the action's id,
`Lookup`, `Grant` and `Spend` are what `consume` does to find a capability, to look at its
uses and to count its own, `Answer`, `TimeOut` and
`Break` the outcomes of the subprocess.

A capability is named by the request that issued it and a broker by the request
whose thread built it. Nothing locks the look and the count against each other, and
the threads are `asyncio.to_thread`'s: two calls can be made with one capability, which is a
finding (capability_broker.py:226) and what `SpentIsRefused` leaves open. Signature checks are
the choice between
`Authorize` and `Refuse`; the guard is built for each request, so its
budget never refuses. The expiry of a capability after half a minute is a
fault. The request schema (schemas/workstation.py:43) admits only tools that are allowed, so
the client's refusal of a tool that is not read-only cannot be reached from here. Revocation and
idempotency keys do not occur on these paths.

### 2.5 `PostgresStore` and `ClaimBoard`

| Variable | Code |
| --- | --- |
| `rows` | the committed table `tasks`: status, attempts, and as a history `late`: the row was inserted while a claim was being made |
| `reviewed` | tasks with a row in `audit_reviews` |
| `listed` | tasks a recheck has seen completed |
| `run` | the task whose executor each process awaits |
| `tx` | the transaction of each process: the call, the rows it has found and not locked yet, the rows it has locked, for update or in share mode |

`Begin` takes the statement's snapshot, `Lock` one row at a time in the statement's
order, and the rest of the call is one step: nobody else changes a locked row, so what a
call reads of its rows is what they hold when it commits. That is where the model
is smaller than the database, and why it is enough: READ COMMITTED re-reads a row
after waiting for it. `Throw` rolls back; `Fails` is a statement that fails or a
process that dies at any point; `AbortDeadlock` is the victim of a circle.
`AddTask` is an upsert with the status its
caller gives: the row of an id that is there is replaced once nobody has it locked; an inserted row
is in no snapshot taken before. `updateTask` may be given any status. Dates are left out,
so any running row may be stale, also one a patch made running without a start.
Inserting a review locks the task's row in share mode first, which is how two reviews
of one task come to wait for each other. The completion gate's decision is an input,
for `CompletionGate` models it.

`ClaimBoard` is the promise: a task becomes running alone, and only while it shares no
key with a running task, and what it locks stays as it is while it runs. Both stores are
shown to implement it. For the ledger the refinement maps its set to the tasks
marked running and its keys to `EffectiveKeys`. For PostgreSQL it maps the set to the rows
marked running that are not `late`: of a row inserted while a claim waits for its locks the
promise is broken (`postgres_late_insert`), of all others it is kept even then. A task's keys
are constant there.

The migrations are not modelled: the tables are taken to have the columns the
statements name (see the finding about migration 004 for what they really have).

### 2.6 `AgentTransport`

`agents` is the broker's map, `known` the connections whose handler has its
`agentId` set. A connection has an end at the broker (`serv`) and one at the runner
(`sock`) and a sequence of frames each way. `Cut` breaks it: what is under way is
lost, and `Closed` and `Lost` are the two close events, each in its own time.
A runner's end that closes orderly leaves its frames to be read. `Kept` is the bounded
queue; `Say` sends or queues the messages of one response together, as the code
does. `Stop`, `Closes`, `Crash` and `Restart` are the broker's
signals and `start.js`. `Breakable` bounds the connections that break by themselves. `contested`
records the ids for which the broker has known two
connections at a time: those are the ones the close handler may unmap wrongly
(section 5).

### 2.7 `RemoteBridge`

A run is one `job.start` message; `JobOf` is the id it carries, `SessionOf` the app
session it asks for. The code between two awaits is one step: `StartRuns` takes the
lock and spawns the child, `Settles` is the child's exit with the lock's removal, the
result and the entry's deletion, which follow it without another event in between. `Aborted`
ends runs at once and leaves their children `killed` until they exit.
`StartLeaks` and the second disjunct of `StartFails` are the two places where a disk
failure leaves an entry or a lock file behind. `Crash` loses the process and keeps lock
files and children. `via` is the connection a job came on: its result is sent
there or nowhere.

## 3. Runs

| Run | States | Question |
| --- | --- | --- |
| `ledger_overlap` | 625 k | Three tasks over shared keys and a lane of one, two overlapping ticks that may die, leases of no length, users requeueing: is the set of running tasks always admissible, and is every step one of the abstract board? |
| `ledger_users` | 98 k | A verified and strictly audited task, two ticks that run and recheck it, users who complete, cancel, requeue, blank, delete and judge: does every path to completed pass the gate? |
| `ledger_progress` | 118 k | Two ticks die until time 2, runs end within the lease, a task has one attempt: does the ledger tell the truth about live runs and attempts, does every ready task settle, and every abandoned one return? |
| `desktop_copies` | 770 k | The web view edits copies while a daemon runs: is completion still gated, and are tasks still claimed and reclaimed? |
| `store_lock` | 226 k | Three clients, two calls each, deaths and failures at every step: is the store atomic, and does every call end? |
| `bounded_runs` | 19 k | A task sent twice, so that two threads run one action, faults, restarts, with and without a sink: are spent capabilities refused, calls announced, reports true, and does every run end? |
| `postgres_store` | 199 k | Two processes, three tasks of which one is added, replaced, deleted and added again, calls that lock rows in different orders and fail: are claims exclusive but for late rows, do reviews keep their task, and does every call end? |
| `agent_transport` | 154 k | A main agent and a worker that reconnects and says three messages, a queue of two, one retry, kills and restarts: order, the broker's map, reachability, the end of retries |
| `remote_bridge` | 4 879 k | Four jobs, two in one session, two at a time, two connections, two starts, disk failures: sessions, cancellation, the limit, results |
| `ledger_direct` | violation | a user completes a task that declares an evidence contract and was never run |
| `store_unlocked_sync` | violation | a maintenance tool loses an acknowledged update |
| `postgres_late_insert` | violation | a task added and claimed while another claim waits for its locks is overlooked by it |

Every property of a passing run has a mutant: a small change of one modelled
definition, such as a dropped guard or an off-by-one, under which TLC finds that property
violated.

### Bounds

- *Two ticks*: every hazard of overlap is between two (who claims while another
  executes, who requeues what another runs). *Two or three tasks*: a resource conflict
  needs two; a conflict through a third key or a full lane needs three.
- *`Horizon`* of 2 to 4 units, with leases and intervals of 0 to 2: long enough for a
  lease to run out, a retry to become due and a recheck to fall due again, and to
  take the boundary case of each comparison. `ClaimBound` and `DeathsUntil` bound
  the attempts and the deaths; `ledger_progress` sets `ClaimBound` out of reach,
  so that no bound can end a task's life there.
- *The cap* is the same for both members of the lane in `ledger_overlap`. Members that declare
  different caps are left to the theorem `GroupsStayWithinCap`.
- `ExecLimit` and `RecheckLimit` are what a run assumes of the duration of an
  execution and of a verify command. `ledger_progress` sets them below the lease, for its two
  properties of live runs hold only there; with an `ExecLimit` above the lease TLC
  finds two executors in one directory (section 5). The other ledger runs let runs outlast
  the lease or patches hit them.
- *Three clients with two calls* let one wait while a second works and a third dies,
  and let a dead client's successor meet its lock. `MaxRetries` of 1 distinguishes waiting
  from giving up.
- *Two requests for one action* share an id: one thread replaces, spends or misses the
  other's capability, both build a broker, and a second broker follows a restart. A third
  request (more than four million states) adds no order of two threads.
- *PostgreSQL*: a circle of waiting transactions needs two, and the interesting
  locks are a claim's on all rows against a reconciliation's on two running ones, and a
  call's on one. Three tasks: two of one directory, and a third that shares a lane with one of
  them. The task users touch is also the one they add, before,
  during and after claims; another waits for a task to complete (`DepsOf`). `ClaimBound`
  is one claim per task. Patches to running are left to the theorems' assumption and to
  section 5.
- *Transport*: a runner that reconnects needs two connections, so that the old one's close
  can come after the new one's register; a queue of two keeps a
  response of two messages whole and overflows with the third message, which may also
  be said after the reconnection, behind the two that were queued; one connection breaks by
  itself (`Breakable`), the others when the broker goes; a limit of one retry is exceeded
  by the second.
- *Bridge*: four jobs for two places, two of them in one session; a second connection for
  results that miss the first; a second start for what a kill leaves behind.

`CHECK_DEADLOCK` is off throughout: the clock stops at its horizon, clients
make a bounded number of calls, and requests end.

### Fairness

- The ledger: the clock advances and every tick goes on, weakly fair.
  daemon.mjs:63-76 starts a tick every five minutes, and launchd restarts
  the process (`KeepAlive`, bin/axi-todo-launchd.mjs:66). Nothing is assumed of users.
  `ledger_progress` lets ticks die only up to `DeathsUntil`: a daemon that
  dies for ever serves nobody.
- The store: a client that is alive takes its next step. One that dies
  takes none.
- Bounded runs: the coroutine and its thread go on; HTTP calls have a timeout and
  so has the read of the subprocess's output (axi_agent_mcp_client.py:332-371). There is no
  fairness for the subprocess: `Answer` may never happen, and `EveryRunEnds`
  holds through `TimeOut`.
- PostgreSQL: a transaction whose locks are held finishes, the database grants a
  row in the end to whoever waits for it (strong fairness: the row is not
  free all the time, but waiters queue), and it detects deadlocks. Callers need not
  call.
- Transport: processes handle their events and back-off timers fire. Connections
  need not break, and a broker need not be started again.
- The bridge has only safety properties.

## 4. Proofs

All obligations of the proof modules are discharged by SMT, Zenon and the
temporal backend. The theorems hold for all constants that satisfy the named
assumptions of the modules and those stated with each theorem.

### `AxiTodoLedgerProofs`

The assumptions on the inputs (`TimeAssumption`, `InputAssumption`,
`MarkAssumption`) say that constants have their types, that `taskSort` is a strict
order and that marks differ from values.

- `MirrorAgrees`: the gate copied into Swift decides as the one in JavaScript.
- `TypeCorrect`: `TypeOK`, by itself inductive; the lemmas about `Assign`,
  `CompletedWith` and the gate carry it through each action.
- `RunningKeysStayDisjoint`: `RunningKeysDisjoint`, if neither a patch nor a new task is
  running from the start (`OnlyClaimsStart`) and patches leave the keys and directories of
  tasks alone (`LocksFixed`). `Claim` then is the only step that adds to the running set,
  and it tests the keys of every running task under the lock. The common lemma
  `StartsByClaim` says so: after a step that is no claim, what runs ran before, since the same
  claim, and with the same keys and in the same lane where users let those alone.
- `LedgerImplementsBoard`: `ImplementsClaimBoard`, from the same. Adding a task declares its
  keys, a claim is the board's claim, and everything else that is written to the tasks
  releases those that no longer run: `LocksStay` says that it leaves all keys alone.
- `GroupsStayWithinCap`: `GroupWithinCap`, for finitely many tasks, from
  `OnlyClaimsStart` and `LanesFixed`. It is not inductive:
  which member allowed the last claim is forgotten. `NarrowAreFew` is: among the
  running members of a group, those whose limit is at most n never number more
  than n.
- `CompletionsAreGated`: `CompletionIsGated`, which says of every completion that no gate was
  passed over: a declared verify command has passed, no evidence is known to be missing or to be of
  another contract, and a run that completes its task has given evidence for the task's contract. It
  does not say that a completed task was ever run: that is `CompletionHasEvidence`, and
  `ledger_direct` refutes it. It holds if no task is created completed, no patch
  changes a contract (`ContractsStay`) and a patch that completes a task changes nothing else
  that the gate reads (`BareCompletions`). The gate of a run judges the contract the task had when
  claimed, so the invariant is `ContractKept`: while a tick executes, that is
  still the task's contract. The verify command and the audit level may change under a run:
  `completeTask` asks the gate about the task's own. Without the assumptions the
  property fails: a contract changed during a run is not looked at when the run ends, and
  a patch is judged by the task as it was before.
- `CompletedTasksAreVerified`: `CompletedIsVerified`, if new tasks come without a
  verification, none is created completed, and patches leave the verify command and the domain
  alone (`CommandsStay`). A completion is not the only step that could break it: a recheck
  replaces the verification of a task that is completed already, by the result of a command
  listed earlier. The invariant says that the command of a run (`CommandKept`) and of a
  listed check (`ChecksFaithful`) is still the
  task's, and `AllVerified`, that a verification that passed is one of the task's command,
  completed or not: a task may be requeued and completed again by a patch.

### `AxiTodoLeaseProofs`

For any durations, verify commands, patches and deaths. Nothing in the code keeps a run
within its lease or a user's patch from a task under execution, so the theorems about live runs name
these two as what may go wrong, and show that nothing else does:

- `LiveRunsKeepTheirTask`: `LiveRunIsRunning` in every behaviour in which `NoLeaseIsOverrun` (nobody
  has been executing for longer than the lease, counted from the start of its tick) and every
  step keeps `LiveRunsAreLeftAlone` (no patch of the status or blank title, no failed review and no
  recheck hits a task under execution). The last is needed even within the lease: of two
  ticks that have listed the same completed task, one may see its command fail and claim it again,
  and the other's recheck then completes it under that run. The invariant `LiveOnce` adds that the
  task is running since that tick claimed it and that nobody else executes it. Claims, reclaims,
  results, deletions and deaths of other ticks keep it.
- `LiveRunsStayDisjoint`: `LiveRunsDisjoint`, from this and `RunningKeysStayDisjoint`
  (`OnlyClaimsStart`, `LocksFixed`).
- `AttemptsStayWithinLimit`: `AttemptsWithinLimit`, that a task is tried at most `maxAttempts` times
  and once more for each time it was taken back, whatever overlaps, overruns and dies, if new
  tasks have not been tried (`NewTasksUntried`) and patches neither requeue nor change `maxAttempts`
  (`LimitsStay`). Neither claiming nor reclaiming looks at the attempts, so the invariant
  `AllCounted` says why they need not: a pending task has an attempt left, counting those that
  were given back.

### `StoreLockProofs`

- `TypeCorrect` for all constants.
- `LockHasOneHolder`: `OneHolder`, for any number of clients and whatever the `Syncers` do: they
  do not touch the lock file. The invariant says that at most one client is past the lock, and
  that the file exists while one is.
- `NoLostUpdate` (`ReturnedIsKept`) and `Refinement` (`Spec => AtomicStore!Spec`) if there
  are no `Syncers`. Then in addition the copy of the one that has read equals the file, and a
  call that returned is in the file. With a syncer the property is violated, and
  `store_unlocked_sync` shows how.

### `DesktopBridgeProofs`

About `DesktopSpec`: the ledger and its ticks with the app writing over them, for any
edits. Most of what holds of the ledger alone does not survive the app (section 5); what
follows does.

- `DesktopTypeCorrect`: `TypeOK`, and copies are tasks.
- `SavedRunsWereClaimed`: `RunningWasClaimed`, from `OnlyClaimsStart` and the same of the
  edits (`EditsStartNothing`). A save may put a task back to running long after its run has ended;
  the invariant adds `CopiesStamped`, that a copy that shows a task running has the start and
  the attempt of the claim before it.
- `SavedCompletionsAreGated`: `CompletionIsGated`, from the assumptions of `CompletionsAreGated`
  and `EditsKeepContracts`. A save is judged by Swift's gate on the copy, which is also what
  it writes, so the copy may be old. What an old copy could break is a later completion by
  a run; the invariant adds `CopiesKept`, that a copy is of a task that was created and
  declares the same contract. Edits of the verify command, of the level and of the status are
  allowed.

The two proofs reuse the steps of the ledger's own (`ClaimedStep`, `GateStep`,
`ContractStep`); `DesktopStepCases` reduces the calls of the app to what they write.

### `BoundedRunProofs`

`RequestAssumption` types the constants and makes the requests finitely many.

- `TypeCorrect` rests on `Equipped`: a thread has a broker when it uses one.
- `SpentCapabilitiesAreRefused`: `SpentIsRefused`, that a capability some call was made with is not
  granted again. `Spent` says that every dispatched call has a capability whose use is counted.
  That a capability is good for one call is more than the code does: two threads may both
  have looked before either counts.
- `NoCallIsSilent`: `CallsAreAnnounced`, where a sink is configured. `Announced` says that
  every request past its start has it in the sink; the sink only grows, and only a restart, which
  ends all requests, changes the configuration.
- `ReportsAreTrue`: `EventsMatchAnswers`. `Answered` says that a request in `answered` was
  called and has
  its answer, and answers are not revised.
- `NothingStaleIsFound`: `Ranked` and `Held`: ranks of issues are bounded by
  their number, so what is found under an id is at least as new as what the
  thread put there, as long as it is the same broker.

### `RemoteBridgeProofs`

`BridgeAssumption` types the constants and makes the runs finitely many.

- `TypeCorrect`.
- `SessionsStayExclusive`: `SessionExclusive` alone is not inductive. The invariant
  says that each child nobody has told to stop has its run's name in its session's lock file,
  and that only such a run removes the file; a crash keeps both.
- `RunsStayCancellable` and `ConcurrencyStaysKept` assume that no two jobs have one id
  (`JobsAreOwn`). The runs in progress then map one to one into the entries, and
  `AtLimit` counts those. With a repeated id the second entry replaces the first, whose
  run escapes cancellation and, when it ends, removes the other's entry.
- `ResultsAreNotLost`: every settled run's result was put on the wire unless its
  connection was gone, and the wire only loses what a closed connection takes with it.

### `PostgresStoreProofs`

`PgAssumption` types the constants.

- `PgTypeCorrect`, with `CallsNameTasks`: which calls have a task of their own.
- `ReviewedTasksStay`: `ReviewsHaveTasks`. The invariant `LocksHeld` says that locks and
  reviews are of rows that are there, and that nobody holds a row for update that another
  holds in any mode. A deletion then waits for a review that is being inserted, and
  finds it.
- `ClaimsKeepKeysApart`: `SharersAreLate`, that of two running tasks with a common key one was
  inserted while a claim was being made, and `PostgresImplementsBoard`: every step is a step of
  `ClaimBoard`, for the rows that were not, or a stutter. Additions at any time included; both
  assume
  that nobody adds a task as running or patches one to running (`"running"` in neither
  `NewStatuses` nor `Patches`), and rest on `ClaimsSeeAll`: every row that is not late is one the
  claim has locked or still will. That late rows must be excepted is what
  `postgres_late_insert` shows.

### `AgentTransportProofs`

`TransportAssumption` types the constants.

- `TransportTypeCorrect`: queues and attempts within their limits included. It needs
  `RunningMayRetry`: an attempt beyond the limit ends the process in the same step.
- `HeardStaysInOrder`: `HeardInOrder`, over any breaks, overflowing queues, kills and restarts.
  What a runner has heard says nothing of what is still under way, so the invariant
  `OrderInv` follows a message all the way: the messages of one sender in the
  sender's queue, in the frames up, in those down and in what was heard stand in the order in
  which they were sent, and each is in one place (`OneLine`, `FramesInPlace`); frames are
  on a connection that had been opened, and a runner with an open connection has an
  empty queue (`FramesOnLine`), which is why nothing overtakes the queue. Sending, queueing,
  flushing, forwarding, hearing and losing each keep it. Lemmas about
  positions in appended, shortened and joined sequences (`AppendNumbers`, `TailNumbers`,
  `ConcatNumbers`) stand in for the induction that is out of reach.
- `MapStaysTrue`: `MapFollowsConnections`, over any breaks, kills and restarts, with
  `KnownAreServed`: what has registered has not been closed at the broker, and a broker
  that is down has no connections.

### Only model-checked

Liveness (`ReadySettles`, `StaleRunReclaimed`, `EveryCallEnds` of both stores, `EveryRunEnds`,
`RunnerBecomesReachable`, `RetriesEnd`), which is beyond the prover. Every other property of
every passing run, invariants, action properties and refinements, is also a theorem. Each
holds under the assumptions named with it; a run longer than the lease and a patch to running
(section 5) show that these are needed.

## 5. Findings

`PROJECT.json` has each with the line of code and the line it disagrees with. Three
have a run that violates a property; of the others, those of the ledger, the
desktop and the bounded runs were found with the models and can be seen in them (a run longer
than the lease: `ExecLimit` above `RunningTimeout`; a task patched to running, an undone
cancellation, a lost dependency, a capability spent twice, a started run whose end is not reported:
no property excludes them), and the rest
follow from reading. Further
behaviours of the ledger seen while modelling, for which the documentation
promises nothing definite: a patch that completes a task and changes its
contract is judged by the old contract; dependents of a deleted completed task never become
ready; a crash between `completeTask` and its audit record leaves a held
task without one; a task whose run kills the daemon is tried for ever, since only
failures are compared with `maxAttempts`; a lock file left by a dead process
stops every later call; Swift's `saveTask` puts an old copy back over what happened
since, so that under `DesktopSpec` `LiveRunIsRunning` fails
even within the lease.

## 6. Not modelled

| Part | Why |
| --- | --- |
| Personal tasks (snooze, complete, reopen, reminders) | no interaction with the daemon; each call is two transactions, which the finding at postgres-store.mjs:145 describes |
| Record collections of the stores (runs, events, summaries, memory cards) | append-only; nothing in the repository but tests calls them |
| Planner, MCP server | the planner is a pure function; the server's tools are the users' actions |
| Memory search, verification log, web UI | pure functions and append-only records |
| Governance guard, rest of the broker | used by tests only |
| Task scheduler, route ledger | the API's scheduler is never started, and a bounded task has lost its credential before it is queued: nothing executes |
| Agents, swarm, code isolation | every endpoint that would reach them answers 409 |
| Workflow engine | custom definitions do not parse into steps, no built-in one has a fallback, and the report of every run throws: what can be reached is a loop |
| File locks, agent scheduler, dynamic agents of axi-agent-mcp | not called, or simulated |
| Account login and switch commands of the bridge | single calls of another program |
| Memory, strategy, tool registry, other endpoints | records and forwarding |
| Frontend, glass UI | rendering |

## 7. Plan

Done, most important first: the ledger with its gate, the store under it, the
desktop beside it, the bounded runs of the backend, the remote bridge, the
PostgreSQL store, the agent transport.

What would be worth adding next: the lifecycle and reminders of personal tasks on the
Node and the Swift side, each shown to implement one abstract lifecycle; the ledger's
operations as the common abstraction of both stores, beyond what `ClaimBoard` says of
claims; and, once the code reaches them, the governance guard over the
whole broker, the task scheduler and the worktrees.
