--------------------------- MODULE AxiTodoLedger ----------------------------
(***************************************************************************)
(* The JSON task ledger of tools/axi-todo and the daemon ticks that work   *)
(* on it.  Every store operation runs under the store's file lock and      *)
(* replaces tasks.json atomically (module StoreLock), so here a mutation   *)
(* is one step.  What is not atomic is a tick (lib/daemon.mjs, runOnce):   *)
(* between its store calls it awaits verify commands and a Codex run, and  *)
(* meanwhile other ticks, the CLI, the MCP server and users go on.         *)
(*                                                                         *)
(* Time is counted in whole units up to Horizon; every date in the future  *)
(* of the horizon is the horizon.                                          *)
(*                                                                         *)
(* Two history fields of a task count what the code keeps only in prose:   *)
(* `reclaims', how often reconcileStaleRunning has taken it back (the      *)
(* requeued_stale_running entries of its history, the last hundred of      *)
(* which are stored), and the command of its verification.                 *)
(***************************************************************************)
EXTENDS Integers, FiniteSets, CompletionGate

CONSTANTS
    Tasks,            \* task ids
    Ticks,            \* activations of runOnce that may overlap
    Keys,             \* resource keys, working directories and worktree keys
    Groups,           \* parallel groups
    Rank,             \* position of each task in taskSort order
    Templates,        \* the tasks addTask may be given, for each id
    Patches,          \* the patches updateTask may be given
    Verdicts,         \* the verdicts recordAuditReview may be given
    Deletable,        \* tasks users may delete
    Blank,            \* a patch value that clears an optional field
    RunningTimeout,   \* DEFAULT_RUNNING_TIMEOUT_MS
    RecheckInterval,  \* DEFAULT_COMPLETED_RECHECK_MS
    RetryDelay,       \* retryDelayMs
    RecheckLimit,     \* longest time a tick may spend before it claims
    ExecLimit,        \* longest time an execution may take
    DeathsUntil,      \* bound on deaths: a tick may be cut short before this time
    Horizon,          \* bound on the clock
    ClaimBound        \* bound on the attempts of a task

VARIABLES
    now,        \* the clock
    tasks,      \* the tasks of tasks.json
    ticks,      \* the local state of each tick
    reviewed,   \* tasks with a record in auditReviews
    verdicts    \* tasks whose recorded verdict still awaits its updateTask

ASSUME TimeAssumption ==
    /\ Horizon \in Nat /\ ClaimBound \in Nat /\ DeathsUntil \in Nat
    /\ RunningTimeout \in Nat /\ RecheckInterval \in Nat /\ RetryDelay \in Nat
    /\ RecheckLimit \in Nat /\ ExecLimit \in Nat

vars == <<now, tasks, ticks, reviewed, verdicts>>

Time == 0..Horizon

Later(d) == IF now + d > Horizon THEN Horizon ELSE now + d

-----------------------------------------------------------------------------
(* Tasks                                                                   *)

Statuses == {"pending", "running", "waiting", "awaiting_audit", "completed",
             "failed", "blocked", "cancelled"}

\* An id that was never created, and an id deleteTask has removed.
NotInFile == {"absent", "deleted"}

Verification ==
    [status: {Unset, "passed", "failed"}, checkedAt: Time, command: Opt(Commands)]

Task == [domain: {"agent", "personal"},
         status: Statuses \cup NotInFile,
         attempts: Nat,
         maxAttempts: Nat \ {0},
         reclaims: Nat,
         dueAt: Time,
         startedAt: Opt(Time),
         cwd: Keys,
         keys: SUBSET Keys,
         worktree: SUBSET Keys,
         deps: SUBSET Tasks,
         group: Opt(Groups),
         groupLimit: Opt(Nat),
         verifyCommand: Opt(Commands),
         contract: Opt(Contracts),
         contractSeen: Opt(Contracts),
         evidenceMissing: BOOLEAN,
         level: AuditLevels,
         verification: Verification]

\* A patch: Unset leaves a field alone, Blank clears an optional one.
Patch == [title: {Unset, Blank},
          domain: Opt({"agent", "personal"}),
          status: Opt(Statuses),
          maxAttempts: Opt(Nat \ {0}),
          dueAt: Opt(Time),
          cwd: Opt(Keys),
          keys: Opt(SUBSET Keys),
          worktree: Opt(SUBSET Keys),
          deps: Opt(SUBSET Tasks),
          group: Opt(Groups) \cup {Blank},
          groupLimit: Opt(Nat) \cup {Blank},
          verifyCommand: Opt(Commands) \cup {Blank},
          contract: Opt(Contracts) \cup {Blank},
          contractSeen: Opt(Contracts) \cup {Blank},
          evidenceMissing: Opt(BOOLEAN),
          level: Opt(AuditLevels)]

NoPatch == [title |-> Unset, domain |-> Unset, status |-> Unset, maxAttempts |-> Unset, dueAt |-> Unset,
            cwd |-> Unset, keys |-> Unset, worktree |-> Unset, deps |-> Unset,
            group |-> Unset, groupLimit |-> Unset, verifyCommand |-> Unset,
            contract |-> Unset, contractSeen |-> Unset, evidenceMissing |-> Unset,
            level |-> Unset]

ASSUME InputAssumption ==
    /\ Rank \in [Tasks -> Nat]
    /\ \A t, u \in Tasks : Rank[t] = Rank[u] => t = u
    /\ \A t \in Tasks : \A task \in Templates[t] : task \in Task /\ task.status \in Statuses
    /\ Patches \subseteq Patch
    /\ Verdicts \subseteq {"pass", "fail"}
    /\ Deletable \subseteq Tasks
    /\ Keys # {}

\* The two marks are told apart from each other and from every value of a field.
ASSUME MarkAssumption ==
    /\ Unset # Blank
    /\ {Unset, Blank} \cap (Tasks \cup Keys \cup Groups \cup Commands \cup Contracts
                            \cup Statuses \cup {"passed"}) = {}
    /\ {Unset, Blank} \cap Time = {}

StatusPatch(s) == [NoPatch EXCEPT !.status = s]

Patched(new, old) == IF new = Unset THEN old ELSE IF new = Blank THEN Unset ELSE new

\* Object.assign(task, patch)
Assign(task, p) ==
    [domain |-> OrElse(p.domain, task.domain),
     status |-> OrElse(p.status, task.status),
     attempts |-> task.attempts,
     maxAttempts |-> OrElse(p.maxAttempts, task.maxAttempts),
     reclaims |-> task.reclaims,
     dueAt |-> OrElse(p.dueAt, task.dueAt),
     startedAt |-> task.startedAt,
     cwd |-> OrElse(p.cwd, task.cwd),
     keys |-> OrElse(p.keys, task.keys),
     worktree |-> OrElse(p.worktree, task.worktree),
     deps |-> OrElse(p.deps, task.deps),
     group |-> Patched(p.group, task.group),
     groupLimit |-> Patched(p.groupLimit, task.groupLimit),
     verifyCommand |-> Patched(p.verifyCommand, task.verifyCommand),
     contract |-> Patched(p.contract, task.contract),
     contractSeen |-> Patched(p.contractSeen, task.contractSeen),
     evidenceMissing |-> OrElse(p.evidenceMissing, task.evidenceMissing),
     level |-> OrElse(p.level, task.level),
     verification |-> task.verification]

InFile(t) == tasks[t].status \notin NotInFile

\* Mutant: the last attempt is counted as if one were left.
CanRetryOnceMore(task) == task.attempts <= task.maxAttempts

CanRetry(task) == task.attempts < task.maxAttempts

\* Mutant: the execution status of a waiting task, where its status belongs.
QueuedOrFailed(task) == IF CanRetry(task) THEN "queued" ELSE "failed"

\* Where a failed run or a failed verification sends a task.
RetryStatus(task) == IF CanRetry(task) THEN "pending" ELSE "failed"

-----------------------------------------------------------------------------
(* Scheduling: which task the next claim takes                             *)

CompletedIds == {t \in Tasks : tasks[t].status = "completed"}

\* Mutant: a failed task goes on holding its keys.
UnfinishedIds == {t \in Tasks : tasks[t].status \in {"running", "failed"}}

RunningIds == {t \in Tasks : tasks[t].status = "running"}

EffectiveKeys(task) ==
    (IF task.keys = {} THEN {task.cwd} ELSE task.keys) \cup task.worktree

\* Mutant: the working directory of a task without keys is not locked.
DeclaredRunningKeys == UNION {tasks[t].keys : t \in RunningIds}

RunningKeys == UNION {EffectiveKeys(tasks[t]) : t \in RunningIds}

Ready(t, at) ==
    /\ tasks[t].status = "pending"
    /\ tasks[t].domain = "agent"
    /\ tasks[t].dueAt <= at
    /\ tasks[t].deps \subseteq CompletedIds

RunningInGroup(g) == {t \in RunningIds : tasks[t].group = g}

\* Mutant: the cap is exceeded by one.
GroupOverfull(task) ==
    /\ task.group # Unset
    /\ task.groupLimit # Unset
    /\ Cardinality(RunningInGroup(task.group)) > task.groupLimit

GroupFull(task) ==
    /\ task.group # Unset
    /\ task.groupLimit # Unset
    /\ Cardinality(RunningInGroup(task.group)) >= task.groupLimit

Schedulable(at) ==
    {t \in Tasks : /\ Ready(t, at)
                   /\ EffectiveKeys(tasks[t]) \cap RunningKeys = {}
                   /\ ~GroupFull(tasks[t])}

IsFirst(t, S) == t \in S /\ \A u \in S : Rank[t] <= Rank[u]

-----------------------------------------------------------------------------
(* Ticks                                                                   *)

Snapshot == [verifyCommand: Opt(Commands), contract: Opt(Contracts), level: AuditLevels]

NoSnapshot == [verifyCommand |-> Unset, contract |-> Unset, level |-> "none"]

Phases == {"idle", "list", "recheck", "exec", "audit"}

\* A task recheckCompletedTasks has listed, and the verify command it read.
Check == [id: Tasks, command: Commands]

Tick == [phase: Phases,
         at: Time,               \* the `now' runOnce took when it started
         began: Time,            \* when the claim was made
         todo: SUBSET Check,     \* completed tasks still to be rechecked
         task: Opt(Tasks),       \* the claimed task
         snapshot: Snapshot]     \* its fields as they were when claimed

IdleTick == [phase |-> "idle", at |-> 0, began |-> 0, todo |-> {}, task |-> Unset,
             snapshot |-> NoSnapshot]

Executing(w, t) == ticks[w].phase = "exec" /\ ticks[w].task = t

\* What executeTaskWithCodex may return for a task claimed as `snap'.
RunResults(snap, at) ==
    {[success |-> s, contract |-> snap.contract, contractSeen |-> Unset,
      level |-> snap.level, evidenceMissing |-> m, verification |-> v] :
        s \in BOOLEAN, m \in BOOLEAN,
        v \in {Unset} \cup [status: {"passed", "failed"}, checkedAt: {at},
                            command: {snap.verifyCommand}]}

\* codex exited non-zero, or there is nothing to verify, or the verification decided.
PossibleResult(r, snap) ==
    \/ ~r.success /\ r.verification = Unset
    \/ r.success /\ r.verification = Unset /\ snap.verifyCommand = Unset
    \/ /\ snap.verifyCommand # Unset
       /\ r.verification # Unset
       /\ r.success <=> r.verification.status = "passed"

-----------------------------------------------------------------------------
(* Store operations used by users, the CLI and the MCP server              *)

\* An id is new: createTask draws a UUID.  (It takes an id the input gives without looking
\* for it in the file; two records under one id are not modelled.)
AddTask(t, template) ==
    /\ tasks[t].status = "absent"
    /\ tasks' = [tasks EXCEPT ![t] = template]
    /\ UNCHANGED <<now, ticks, reviewed, verdicts>>

\* Mutant: a completing patch does not pass through the gate.
UngatedUpdate(task, p) == Assign(task, p)

\* The patch as updateTask applies it: a completion the gate holds becomes
\* awaiting_audit, and leaves its mark on the task before the assignment.
GatedUpdate(task, p) ==
    IF /\ p.status = "completed"
       /\ GateHolds(task, OnlyVerification(task.verification))
    THEN Assign([task EXCEPT !.evidenceMissing = TRUE,
                             !.contractSeen = OrElse(task.contract, @)],
                [p EXCEPT !.status = "awaiting_audit"])
    ELSE Assign(task, p)

\* mutate writes what normalizeState keeps: a task left without title is not kept.
Normalized(task, p) == IF p.title = Blank THEN [task EXCEPT !.status = "deleted"] ELSE task

UpdateTask(t, p) ==
    /\ InFile(t)
    /\ tasks' = [tasks EXCEPT ![t] = Normalized(GatedUpdate(@, p), p)]
    /\ UNCHANGED <<now, ticks, reviewed, verdicts>>

DeleteTask(t) ==
    /\ InFile(t)
    /\ tasks[t].status # "running"
    /\ tasks' = [tasks EXCEPT ![t].status = "deleted"]
    /\ UNCHANGED <<now, ticks, reviewed, verdicts>>

\* recordAuditReview appends the record in one mutation ...
RecordAuditReview(t, verdict) ==
    /\ tasks[t].status # "absent"
    /\ reviewed' = reviewed \cup {t}
    /\ verdicts' = IF verdict = "pass" THEN verdicts ELSE verdicts \cup {t}
    /\ UNCHANGED <<now, tasks, ticks>>

\* ... and sends the task back to the audit lane in a second one, if the task is still there.
ApplyVerdict(t) ==
    /\ t \in verdicts
    /\ verdicts' = verdicts \ {t}
    /\ tasks' = IF InFile(t)
                THEN [tasks EXCEPT ![t] = GatedUpdate(@, StatusPatch("awaiting_audit"))]
                ELSE tasks
    /\ UNCHANGED <<now, ticks, reviewed>>

-----------------------------------------------------------------------------
(* The steps of a tick (lib/daemon.mjs, runOnce)                           *)

\* Mutant: a run that is just as old as the timeout is stale.
IsStaleAtLimit(task, at) ==
    /\ task.status = "running"
    /\ task.startedAt # Unset
    /\ at - task.startedAt >= RunningTimeout

\* Mutant: a task without attempts left is not taken back.
IsStaleAndRetriable(task, at) ==
    /\ task.status = "running"
    /\ task.startedAt # Unset
    /\ at - task.startedAt > RunningTimeout
    /\ CanRetry(task)

IsStale(task, at) ==
    /\ task.status = "running"
    /\ task.startedAt # Unset
    /\ at - task.startedAt > RunningTimeout

Reclaimed(task) == [task EXCEPT !.status = "pending", !.reclaims = @ + 1]

\* runOnce takes the time and calls reconcileStaleRunning.
StartTick(w) ==
    /\ ticks[w].phase = "idle"
    /\ tasks' = [t \in Tasks |->
                    IF IsStale(tasks[t], now) THEN Reclaimed(tasks[t]) ELSE tasks[t]]
    /\ ticks' = [ticks EXCEPT ![w] = [IdleTick EXCEPT !.phase = "list", !.at = now]]
    /\ UNCHANGED <<now, reviewed, verdicts>>

ShouldRecheck(task, at) ==
    \/ task.verification.status = Unset
    \/ at - task.verification.checkedAt >= RecheckInterval

\* recheckCompletedTasks reads the completed tasks without the lock.
ListCompleted(w) ==
    /\ ticks[w].phase = "list"
    /\ ticks' = [ticks EXCEPT
                    ![w].phase = "recheck",
                    ![w].todo = {c \in Check :
                                    /\ c.id \in CompletedIds
                                    /\ c.command = tasks[c.id].verifyCommand
                                    /\ ShouldRecheck(tasks[c.id], ticks[w].at)}]
    /\ UNCHANGED <<now, tasks, reviewed, verdicts>>

MarkedWith(task, v) ==
    LET marked == [task EXCEPT !.verification = v]
    IN  IF v.status = "failed"
        THEN [marked EXCEPT !.status = RetryStatus(task)]
        ELSE IF GateHolds(task, OnlyVerification(v))
        THEN [marked EXCEPT !.status = "awaiting_audit", !.evidenceMissing = TRUE]
        ELSE [marked EXCEPT !.status = "completed"]

\* The verify command of a listed task has exited: markVerificationResult.  It throws,
\* and ends the tick, when the task is gone.
Recheck(w, c, verdict) ==
    /\ ticks[w].phase = "recheck"
    /\ c \in ticks[w].todo
    /\ IsFirst(c.id, {d.id : d \in ticks[w].todo})
    /\ IF InFile(c.id)
       THEN /\ tasks' = [tasks EXCEPT ![c.id] =
                            MarkedWith(@, [status |-> verdict, checkedAt |-> now,
                                           command |-> c.command])]
            /\ ticks' = [ticks EXCEPT ![w].todo = @ \ {c}]
       ELSE /\ ticks' = [ticks EXCEPT ![w] = IdleTick]
            /\ UNCHANGED tasks
    /\ UNCHANGED <<now, reviewed, verdicts>>

Claimed(task, at) ==
    [task EXCEPT !.status = "running", !.attempts = @ + 1, !.startedAt = at]

\* claimNextTask, with the time the tick started at.
Claim(w, t) ==
    /\ ticks[w].phase = "recheck"
    /\ ticks[w].todo = {}
    /\ IsFirst(t, Schedulable(ticks[w].at))
    /\ tasks[t].attempts < ClaimBound
    /\ tasks' = [tasks EXCEPT ![t] = Claimed(@, ticks[w].at)]
    /\ ticks' = [ticks EXCEPT
                    ![w].phase = "exec",
                    ![w].began = now,
                    ![w].task = t,
                    ![w].snapshot = [verifyCommand |-> tasks[t].verifyCommand,
                                     contract |-> tasks[t].contract,
                                     level |-> tasks[t].level]]
    /\ UNCHANGED <<now, reviewed, verdicts>>

NothingToClaim(w) ==
    /\ ticks[w].phase = "recheck"
    /\ ticks[w].todo = {}
    /\ Schedulable(ticks[w].at) = {}
    /\ ticks' = [ticks EXCEPT ![w] = IdleTick]
    /\ UNCHANGED <<now, tasks, reviewed, verdicts>>

\* Mutant: the gate's decision is recorded, but does not hold the task.
CompletedAnyway(task, r) ==
    [task EXCEPT !.status = "completed",
                 !.evidenceMissing = GateHolds(task, r),
                 !.contractSeen = OrElse(r.contract, @),
                 !.verification = OrElse(r.verification, @)]

CompletedWith(task, r) ==
    LET held == GateHolds(task, r)
    IN  [task EXCEPT !.status = IF held THEN "awaiting_audit" ELSE "completed",
                     !.evidenceMissing = held,
                     !.contractSeen = OrElse(r.contract, @),
                     !.verification = OrElse(r.verification, @)]

\* What is left of the tick when completeTask's mutation is done.
AuditIfHeld(t, held) == IF held THEN [IdleTick EXCEPT !.phase = "audit", !.task = t] ELSE IdleTick

\* completeTask; a held task gets its audit review in a second mutation.
CompleteTask(w, t, r) ==
    /\ Executing(w, t)
    /\ r.success
    /\ InFile(t)
    /\ tasks' = [tasks EXCEPT ![t] = CompletedWith(@, r)]
    /\ ticks' = [ticks EXCEPT ![w] = AuditIfHeld(t, GateHolds(tasks[t], r))]
    /\ UNCHANGED <<now, reviewed, verdicts>>

FailedWith(task, r) ==
    [task EXCEPT !.status = RetryStatus(task),
                 !.dueAt = IF CanRetry(task) /\ RetryDelay > 0 THEN Later(RetryDelay) ELSE @,
                 !.verification = OrElse(r.verification, @)]

FailTask(w, t, r) ==
    /\ Executing(w, t)
    /\ ~r.success
    /\ InFile(t)
    /\ tasks' = [tasks EXCEPT ![t] = FailedWith(@, r)]
    /\ ticks' = [ticks EXCEPT ![w] = IdleTick]
    /\ UNCHANGED <<now, reviewed, verdicts>>

\* completeTask and failTask throw when the task is gone.
ResultOfDeletedTask(w, t) ==
    /\ Executing(w, t)
    /\ ~InFile(t)
    /\ ticks' = [ticks EXCEPT ![w] = IdleTick]
    /\ UNCHANGED <<now, tasks, reviewed, verdicts>>

AppendAuditReview(w) ==
    /\ ticks[w].phase = "audit"
    /\ reviewed' = reviewed \cup {ticks[w].task}
    /\ ticks' = [ticks EXCEPT ![w] = IdleTick]
    /\ UNCHANGED <<now, tasks, verdicts>>

\* The process dies, or a store call throws (lock timeout, disk full): no step
\* of the tick already taken is undone.
TickDies(w) ==
    /\ now < DeathsUntil
    /\ ticks[w].phase # "idle"
    /\ ticks' = [ticks EXCEPT ![w] = IdleTick]
    /\ UNCHANGED <<now, tasks, reviewed, verdicts>>

-----------------------------------------------------------------------------

\* Verify commands and Codex runs are killed when their time is up, so a tick
\* cannot stay in one phase for longer than its limit.
WithinLimits(w) ==
    /\ ticks[w].phase \in {"list", "recheck"} => now - ticks[w].at < RecheckLimit
    /\ ticks[w].phase = "exec" => now - ticks[w].began < ExecLimit

AdvanceTime ==
    /\ now < Horizon
    /\ \A w \in Ticks : WithinLimits(w)
    /\ now' = now + 1
    /\ UNCHANGED <<tasks, ticks, reviewed, verdicts>>

BlankTask ==
    [domain |-> "agent", status |-> "absent", attempts |-> 0, maxAttempts |-> 3, reclaims |-> 0,
     dueAt |-> 0, startedAt |-> Unset, cwd |-> CHOOSE k \in Keys : TRUE, keys |-> {},
     worktree |-> {}, deps |-> {}, group |-> Unset, groupLimit |-> Unset,
     verifyCommand |-> Unset, contract |-> Unset, contractSeen |-> Unset,
     evidenceMissing |-> FALSE, level |-> "none", verification |-> NoVerification]

Init ==
    /\ now = 0
    /\ tasks = [t \in Tasks |-> BlankTask]
    /\ ticks = [w \in Ticks |-> IdleTick]
    /\ reviewed = {}
    /\ verdicts = {}

UserStep(t) ==
    \/ \E template \in Templates[t] : AddTask(t, template)
    \/ \E p \in Patches : UpdateTask(t, p)
    \/ t \in Deletable /\ DeleteTask(t)
    \/ \E verdict \in Verdicts : RecordAuditReview(t, verdict)
    \/ ApplyVerdict(t)

FinishRun(w, t) ==
    \/ \E r \in RunResults(ticks[w].snapshot, now) :
          /\ PossibleResult(r, ticks[w].snapshot)
          /\ CompleteTask(w, t, r) \/ FailTask(w, t, r)
    \/ ResultOfDeletedTask(w, t)

TickStep(w) ==
    \/ StartTick(w)
    \/ ListCompleted(w)
    \/ \E c \in ticks[w].todo, verdict \in {"passed", "failed"} : Recheck(w, c, verdict)
    \/ \E t \in Tasks : Claim(w, t)
    \/ NothingToClaim(w)
    \/ \E t \in Tasks : FinishRun(w, t)
    \/ AppendAuditReview(w)

Next ==
    \/ \E t \in Tasks : UserStep(t)
    \/ \E w \in Ticks : TickStep(w) \/ TickDies(w)
    \/ AdvanceTime

Spec == Init /\ [][Next]_vars

(***************************************************************************)
(* A tick that has started runs on, and a new one starts: the daemon has a *)
(* five minute timer, and launchd keeps the process alive.  The clock      *)
(* advances.  Nothing is assumed of users.                                 *)
(***************************************************************************)
Fairness ==
    /\ WF_vars(AdvanceTime)
    /\ \A w \in Ticks : WF_vars(TickStep(w))

FairSpec == Spec /\ Fairness

-----------------------------------------------------------------------------
(* Properties                                                              *)

\* Every task, tick and record of the ledger is well formed, and a tick that executes
\* or audits has a task.
TypeOK ==
    /\ now \in Time
    /\ tasks \in [Tasks -> Task]
    /\ ticks \in [Ticks -> Tick]
    /\ \A w \in Ticks : ticks[w].phase \in {"exec", "audit"} => ticks[w].task \in Tasks
    /\ reviewed \subseteq Tasks
    /\ verdicts \subseteq Tasks

\* No two tasks marked running share a resource key: claimNextTask decides under
\* the lock, on the keys of every running task, whichever tick claimed it.
RunningKeysDisjoint ==
    \A t, u \in RunningIds :
        t # u => EffectiveKeys(tasks[t]) \cap EffectiveKeys(tasks[u]) = {}

\* A parallel group never holds more running tasks than the largest cap its
\* running members declare.
GroupWithinCap ==
    \A t \in RunningIds :
        \/ tasks[t].group = Unset
        \/ \E u \in RunningInGroup(tasks[t].group) :
              \/ tasks[u].groupLimit = Unset
              \/ Cardinality(RunningInGroup(tasks[t].group)) <= tasks[u].groupLimit

\* A running task was claimed: it has a start time, which is what lets
\* reconcileStaleRunning ever take it back, and a counted attempt.  A claim sees to both;
\* the app, which saves whole records, has to bring them back (module DesktopBridge).
RunningWasClaimed ==
    \A t \in RunningIds : tasks[t].startedAt # Unset /\ tasks[t].attempts > 0

\* The task a tick executes is the one the ledger shows running, since that tick
\* claimed it: nobody requeues, finishes or reclaims it under the executor.
LiveRunIsRunning ==
    \A w \in Ticks, t \in Tasks :
        Executing(w, t) => tasks[t].status = "running" /\ tasks[t].startedAt = ticks[w].at

\* Two executors never work at once on tasks that share a resource key.
LiveRunsDisjoint ==
    \A w, x \in Ticks, t, u \in Tasks :
        w # x /\ Executing(w, t) /\ Executing(x, u) =>
            EffectiveKeys(tasks[t]) \cap EffectiveKeys(tasks[u]) = {}

\* A task is tried maxAttempts times, and once more for each time reconcileStaleRunning took
\* it back from a tick that died or overran its lease: neither the claim nor the reclaim
\* compares the two numbers, only a run or a recheck that failed does (canRetry).
AttemptsWithinLimit ==
    \A t \in Tasks : tasks[t].attempts <= tasks[t].maxAttempts + tasks[t].reclaims

\* A completed task with a verify command was verified with that command.
CompletedIsVerified ==
    \A t \in CompletedIds :
        tasks[t].domain = "agent" /\ tasks[t].verifyCommand # Unset =>
            /\ tasks[t].verification.status = "passed"
            /\ tasks[t].verification.command = tasks[t].verifyCommand

Completes(t) ==
    /\ tasks[t].status # "completed"
    /\ tasks'[t].status = "completed"
    /\ tasks'[t].domain = "agent"

\* The step ends an execution of t.
EndsRun(t) == \E w \in Ticks : Executing(w, t) /\ ~Executing(w, t)'

NeedsEvidence(task) == RequiresEvidence(task.contract, task.level)

\* The contract a runner last enforced is the one the task declares, and was met.
HasEvidence(task) == ~task.evidenceMissing /\ task.contractSeen = task.contract

\* No path to completed - a run, a recheck, a user's patch, a saved copy - passes the gate
\* where it should hold: a task with a verify command is verified, evidence is not known to
\* be missing or to be of another contract, and what a run completes has its evidence.
\* (Of a task no run has worked on the gate knows nothing: CompletionHasEvidence.)
CompletionIsGated ==
    [][\A t \in Tasks : Completes(t) =>
          /\ tasks'[t].verifyCommand # Unset => tasks'[t].verification.status = "passed"
          /\ NeedsEvidence(tasks'[t]) =>
                /\ ~tasks'[t].evidenceMissing
                /\ tasks'[t].contractSeen \in {Unset, tasks'[t].contract}
                /\ EndsRun(t) => HasEvidence(tasks'[t])]_vars

\* Whoever completes a task that declares an evidence contract, a run has produced the
\* evidence (schema.mjs:149-153, store.mjs:86-91).  It does not hold: updateTask completes
\* a task that was never run, because nothing is recorded to be missing.
CompletionHasEvidence ==
    [][\A t \in Tasks :
          Completes(t) /\ NeedsEvidence(tasks'[t]) => HasEvidence(tasks'[t])]_vars

\* A pending task that waits for no other is, in the end, completed, failed, held
\* for audit or taken out of the queue by a user.
ReadySettles ==
    \A t \in Tasks :
        (tasks[t].status = "pending" /\ tasks[t].domain = "agent" /\ tasks[t].deps = {})
            ~> (tasks[t].status \notin {"pending", "running"})

\* A task left running by a tick that died is taken back by a later one.
StaleRunReclaimed ==
    \A t \in Tasks :
        ( /\ tasks[t].status = "running"
          /\ tasks[t].startedAt # Unset
          /\ Horizon - tasks[t].startedAt > RunningTimeout )
            ~> (tasks[t].status # "running")

Board == INSTANCE ClaimBoard
         WITH running <- RunningIds, keys <- [t \in Tasks |-> EffectiveKeys(tasks[t])]

\* Tasks become running one at a time, each while no running task holds a key of its, and
\* what a task locks stays as it is while it runs: claimNextTask chooses in one mutation.
ImplementsClaimBoard == Board!Spec
=============================================================================
