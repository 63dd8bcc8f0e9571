------------------------- MODULE AxiTodoLeaseProofs -------------------------
(***************************************************************************)
(* Proofs about AxiTodoLedger: what protects a task whose executor is at   *)
(* work, and how often a task may be tried, for any tasks, ticks and       *)
(* durations, though ticks overlap and die.                                *)
(***************************************************************************)
EXTENDS AxiTodoLedgerProofs

\* No executor is at work for longer than the lease, counted from the start of its tick.
NoLeaseIsOverrun ==
    \A w \in Ticks, t \in Tasks : Executing(w, t) => now - ticks[w].at <= RunningTimeout

\* The step sets the status of a task whatever it is doing: a user's patch does, or one
\* that blanks its title; a review that failed; a recheck that listed it as completed.
Disturbs(t) ==
    \/ \E p \in Patches : (p.status # Unset \/ p.title = Blank) /\ UpdateTask(t, p)
    \/ ApplyVerdict(t)
    \/ \E w \in Ticks : \E c \in ticks[w].todo, verdict \in {"passed", "failed"} :
          c.id = t /\ Recheck(w, c, verdict)

LiveRunsAreLeftAlone == \A w \in Ticks, t \in Tasks : Executing(w, t) => ~Disturbs(t)

-----------------------------------------------------------------------------
(* What a step does to tasks and ticks                                     *)

\* What a run leaves of its task and its tick.
LEMMA FinishRunCases ==
  ASSUME TypeOK, NEW w \in Ticks, NEW t \in Tasks, FinishRun(w, t)
  PROVE  /\ Executing(w, t) /\ ticks'[w].phase # "exec"
         /\ \A u \in Tasks \ {t} : tasks'[u] = tasks[u]
         /\ tasks'[t].attempts = tasks[t].attempts
         /\ tasks'[t].maxAttempts = tasks[t].maxAttempts
         /\ tasks'[t].reclaims = tasks[t].reclaims
         /\ tasks'[t].status = "pending" => CanRetry(tasks[t]) \/ tasks'[t] = tasks[t]
<1>0. tasks[t] \in Task /\ IdleTick.phase # "exec"
  BY IdleTickType DEF TypeOK
<1>1. ASSUME NEW r
      PROVE  LET new == CompletedWith(tasks[t], r) IN
             /\ new.attempts = tasks[t].attempts /\ new.maxAttempts = tasks[t].maxAttempts
             /\ new.reclaims = tasks[t].reclaims /\ new.status # "pending"
  BY <1>0 DEF CompletedWith, Task
<1>2. ASSUME NEW r
      PROVE  LET new == FailedWith(tasks[t], r) IN
             /\ new.attempts = tasks[t].attempts /\ new.maxAttempts = tasks[t].maxAttempts
             /\ new.reclaims = tasks[t].reclaims
             /\ new.status = "pending" => CanRetry(tasks[t])
  BY <1>0 DEF FailedWith, RetryStatus, Task
<1>3. ASSUME NEW held
      PROVE  AuditIfHeld(t, held).phase # "exec"
  BY DEF AuditIfHeld, IdleTick
<1>4. CASE \E r \in RunResults(ticks[w].snapshot, now) : CompleteTask(w, t, r)
  <2>1. PICK r \in RunResults(ticks[w].snapshot, now) : CompleteTask(w, t, r)
    BY <1>4
  <2>2. /\ tasks'[t] = CompletedWith(tasks[t], r)
        /\ \A u \in Tasks \ {t} : tasks'[u] = tasks[u]
        /\ ticks'[w] = AuditIfHeld(t, GateHolds(tasks[t], r)) /\ Executing(w, t)
    BY <2>1 DEF CompleteTask, TypeOK
  <2> QED
    BY <1>1, <1>3, <2>2
<1>5. CASE \E r \in RunResults(ticks[w].snapshot, now) : FailTask(w, t, r)
  <2>1. PICK r \in RunResults(ticks[w].snapshot, now) : FailTask(w, t, r)
    BY <1>5
  <2>2. /\ tasks'[t] = FailedWith(tasks[t], r)
        /\ \A u \in Tasks \ {t} : tasks'[u] = tasks[u]
        /\ ticks'[w] = IdleTick /\ Executing(w, t)
    BY <2>1 DEF FailTask, TypeOK
  <2> QED
    BY <1>0, <1>2, <2>2
<1>6. CASE ResultOfDeletedTask(w, t)
  BY <1>0, <1>6 DEF ResultOfDeletedTask, TypeOK
<1> QED
  BY <1>4, <1>5, <1>6 DEF FinishRun

LEMMA ClaimFields ==
  ASSUME TypeOK, NEW w \in Ticks, NEW t \in Tasks, Claim(w, t)
  PROVE  /\ tasks[t].status = "pending"
         /\ \A u \in Tasks \ {t} : tasks'[u] = tasks[u]
         /\ tasks'[t].status = "running" /\ tasks'[t].startedAt = ticks[w].at
         /\ tasks'[t].attempts = tasks[t].attempts + 1
         /\ tasks'[t].maxAttempts = tasks[t].maxAttempts
         /\ tasks'[t].reclaims = tasks[t].reclaims
         /\ ticks'[w].phase = "exec" /\ ticks'[w].task = t /\ ticks'[w].at = ticks[w].at
<1>1. tasks[t].status = "pending"
  BY DEF Claim, IsFirst, Schedulable, Ready
<1>2. ticks'[w].phase = "exec" /\ ticks'[w].task = t /\ ticks'[w].at = ticks[w].at
  BY DEF Claim, TypeOK, Tick
<1> QED
  BY <1>1, <1>2 DEF Claim, Claimed, TypeOK, Task

\* What users do to one task leaves the others, and the ticks, as they are.
LEMMA UserStepOfOne ==
  ASSUME TypeOK, NEW t \in Tasks, UserStep(t)
  PROVE  ticks' = ticks /\ \A u \in Tasks \ {t} : tasks'[u] = tasks[u]
BY DEF TypeOK, UserStep, AddTask, UpdateTask, DeleteTask, RecordAuditReview, ApplyVerdict

\* A recheck concerns its own task only, and leaves its tick without an execution.
LEMMA RecheckOfOne ==
  ASSUME TypeOK, NEW w \in Ticks, NEW c \in ticks[w].todo, NEW verdict \in {"passed", "failed"},
         Recheck(w, c, verdict)
  PROVE  /\ c.id \in Tasks /\ ticks'[w].phase # "exec"
         /\ \A u \in Tasks \ {c.id} : tasks'[u] = tasks[u]
<1>1. ticks[w] \in Tick /\ c.id \in Tasks /\ IdleTick.phase # "exec"
  BY IdleTickType DEF TypeOK, Tick, Check
<1>2. CASE ticks' = [ticks EXCEPT ![w] = IdleTick]
  BY <1>1, <1>2 DEF Recheck, TypeOK
<1>3. CASE ticks' = [ticks EXCEPT ![w].todo = @ \ {c}]
  BY <1>1, <1>3 DEF Recheck, TypeOK, Tick
<1> QED
  BY <1>2, <1>3 DEF Recheck

-----------------------------------------------------------------------------
(* The executor's task                                                     *)

\* What a tick executes is running since that tick claimed it, and nobody else executes it.
LiveOnce ==
    \A w \in Ticks, t \in Tasks : Executing(w, t) =>
        /\ tasks[t].status = "running" /\ tasks[t].startedAt = ticks[w].at
        /\ \A x \in Ticks : Executing(x, t) => x = w

LEMMA LiveUserStep ==
  ASSUME TypeOK, LiveOnce, LiveRunsAreLeftAlone, NEW t \in Tasks, UserStep(t)
  PROVE  LiveOnce'
<1>1. ticks' = ticks /\ \A u \in Tasks \ {t} : tasks'[u] = tasks[u]
  BY UserStepOfOne
<1>2. ASSUME NEW w \in Ticks, Executing(w, t)
      PROVE  tasks'[t].status = "running" /\ tasks'[t].startedAt = tasks[t].startedAt
  <2>1. tasks[t].status = "running" /\ ~Disturbs(t)
    BY <1>2 DEF LiveOnce, LiveRunsAreLeftAlone
  <2>2. ASSUME NEW p \in Patches, UpdateTask(t, p)
        PROVE  tasks'[t].status = "running" /\ tasks'[t].startedAt = tasks[t].startedAt
    <3>1. p.status = Unset /\ p.title # Blank
      BY <2>1, <2>2 DEF Disturbs
    <3>2. tasks'[t] = Assign(tasks[t], p)
      BY <2>2, <3>1, MarkAssumption DEF UpdateTask, GatedUpdate, Normalized, Statuses, TypeOK
    <3> QED
      BY <2>1, <3>1, <3>2 DEF Assign, OrElse
  <2>3. CASE ApplyVerdict(t)
    BY <2>1, <2>3 DEF Disturbs
  <2>4. CASE \/ \E template \in Templates[t] : AddTask(t, template)
             \/ DeleteTask(t)
             \/ \E verdict \in Verdicts : RecordAuditReview(t, verdict)
    BY <2>1, <2>4 DEF AddTask, DeleteTask, RecordAuditReview
  <2> QED
    BY <2>2, <2>3, <2>4 DEF UserStep
<1> QED
  BY <1>1, <1>2 DEF LiveOnce, Executing

LEMMA LiveTickStep ==
  ASSUME TypeOK, LiveOnce, NoLeaseIsOverrun, LiveRunsAreLeftAlone,
         NEW w \in Ticks, TickStep(w) \/ TickDies(w)
  PROVE  LiveOnce'
<1>0. \A x \in Ticks \ {w} : ticks'[x] = ticks[x]
  BY OtherTicksStay
\* The step starts no execution, and leaves alone what others execute.
<1>1. ASSUME ticks'[w].phase # "exec",
             \A t \in Tasks : (\E x \in Ticks \ {w} : Executing(x, t)) => tasks'[t] = tasks[t]
      PROVE  LiveOnce'
  BY <1>0, <1>1 DEF LiveOnce, Executing
<1>2. CASE StartTick(w)
  <2>1. ticks'[w].phase # "exec"
    BY <1>2 DEF StartTick, IdleTick, TypeOK
  <2>2. \A t \in Tasks : (\E x \in Ticks : Executing(x, t)) => ~IsStale(tasks[t], now)
    BY TimeAssumption DEF NoLeaseIsOverrun, LiveOnce, IsStale, TypeOK, Tick, Time
  <2>3. \A t \in Tasks : (\E x \in Ticks : Executing(x, t)) => tasks'[t] = tasks[t]
    BY <1>2, <2>2 DEF StartTick
  <2> QED
    BY <1>1, <2>1, <2>3
<1>3. CASE \E c \in ticks[w].todo, verdict \in {"passed", "failed"} : Recheck(w, c, verdict)
  <2>1. PICK c \in ticks[w].todo, verdict \in {"passed", "failed"} : Recheck(w, c, verdict)
    BY <1>3
  <2>2. /\ c.id \in Tasks /\ ticks'[w].phase # "exec"
        /\ \A u \in Tasks \ {c.id} : tasks'[u] = tasks[u]
    BY <2>1, RecheckOfOne
  <2>3. \A x \in Ticks : ~Executing(x, c.id)
    BY <2>1, <2>2 DEF LiveRunsAreLeftAlone, Disturbs
  <2>4. \A t \in Tasks : (\E x \in Ticks \ {w} : Executing(x, t)) => tasks'[t] = tasks[t]
    BY <2>2, <2>3
  <2> QED
    BY <1>1, <2>2, <2>4
<1>4. CASE ListCompleted(w)
  <2>1. ticks'[w].phase # "exec" /\ tasks' = tasks
    BY <1>4 DEF ListCompleted, TypeOK, Tick
  <2> QED
    BY <1>1, <2>1
<1>5. ASSUME NEW t \in Tasks, Claim(w, t)
      PROVE  LiveOnce'
  <2>1. \A x \in Ticks : ~Executing(x, t)
    BY <1>5, ClaimFields DEF LiveOnce
  <2> QED
    BY <1>0, <1>5, <2>1, ClaimFields DEF LiveOnce, Executing
<1>6. ASSUME NEW t \in Tasks, FinishRun(w, t)
      PROVE  LiveOnce'
  <2>1. /\ Executing(w, t) /\ ticks'[w].phase # "exec"
        /\ \A u \in Tasks \ {t} : tasks'[u] = tasks[u]
    BY <1>6, FinishRunCases
  <2>2. \A x \in Ticks \ {w} : ~Executing(x, t)
    BY <2>1 DEF LiveOnce
  <2>3. \A u \in Tasks : (\E x \in Ticks \ {w} : Executing(x, u)) => tasks'[u] = tasks[u]
    BY <2>1, <2>2
  <2> QED
    BY <1>1, <2>1, <2>3
<1>7. CASE NothingToClaim(w) \/ AppendAuditReview(w) \/ TickDies(w)
  <2>1. ticks'[w].phase # "exec" /\ tasks' = tasks
    BY <1>7 DEF NothingToClaim, AppendAuditReview, TickDies, IdleTick, TypeOK
  <2> QED
    BY <1>1, <2>1
<1> QED
  BY <1>2, <1>3, <1>4, <1>5, <1>6, <1>7 DEF TickStep

LEMMA LiveStep ==
  ASSUME TypeOK, LiveOnce, NoLeaseIsOverrun, [LiveRunsAreLeftAlone]_vars, [Next]_vars
  PROVE  LiveOnce'
<1>1. CASE UNCHANGED vars
  BY <1>1 DEF vars, LiveOnce, Executing
<1>2. CASE AdvanceTime
  BY <1>2 DEF AdvanceTime, LiveOnce, Executing
<1> QED
  BY <1>1, <1>2, LiveUserStep, LiveTickStep DEF Next

LEMMA LiveInvariant ==
  Spec /\ []NoLeaseIsOverrun /\ [][LiveRunsAreLeftAlone]_vars => []LiveOnce
<1>1. Init => LiveOnce
  BY DEF LiveOnce, Executing, Init, IdleTick
<1>2. TypeOK /\ LiveOnce /\ NoLeaseIsOverrun /\ [LiveRunsAreLeftAlone]_vars /\ [Next]_vars
        => LiveOnce'
  BY LiveStep
<1> QED
  BY <1>1, <1>2, TypeCorrect, PTL DEF Spec

\* A live run loses its task in two ways only: it overran its lease, or a user, a failed
\* review or a recheck set the task's status.  While neither happens, no claim, reclaim,
\* result, deletion or death, of however many ticks, takes the task from its executor.
THEOREM LiveRunsKeepTheirTask ==
  Spec /\ []NoLeaseIsOverrun /\ [][LiveRunsAreLeftAlone]_vars => []LiveRunIsRunning
<1>1. LiveOnce => LiveRunIsRunning
  BY DEF LiveOnce, LiveRunIsRunning
<1> QED
  BY <1>1, LiveInvariant, PTL

\* Nor do two executors then ever work on tasks that share a key.
THEOREM LiveRunsStayDisjoint ==
  ASSUME OnlyClaimsStart, LocksFixed
  PROVE  Spec /\ []NoLeaseIsOverrun /\ [][LiveRunsAreLeftAlone]_vars => []LiveRunsDisjoint
<1>1. LiveOnce /\ RunningKeysDisjoint => LiveRunsDisjoint
  BY DEF LiveOnce, RunningKeysDisjoint, RunningIds, LiveRunsDisjoint
<1> QED
  BY <1>1, LiveInvariant, RunningKeysStayDisjoint, PTL

-----------------------------------------------------------------------------
(* Attempts                                                                *)

\* A new task may be tried at least once.
NewTasksUntried ==
    \A t \in Tasks : \A task \in Templates[t] : task.attempts < task.maxAttempts

\* Users do not change how often a task may be tried, and grant it no further attempt.
LimitsStay == \A p \in Patches : p.maxAttempts = Unset /\ p.status # "pending"

\* A task in the queue has an attempt left, its maxAttempts or the one a reclaim gave it.
Counted(task) ==
    /\ task.attempts <= task.maxAttempts + task.reclaims
    /\ task.status = "pending" => task.attempts < task.maxAttempts + task.reclaims

AllCounted == \A t \in Tasks : Counted(tasks[t])

SameCounts(new, old) ==
    /\ new.attempts = old.attempts /\ new.maxAttempts = old.maxAttempts
    /\ new.reclaims = old.reclaims

\* A record with the counts of another that was counted is counted, if it waits in the
\* queue only where the other did, or could be tried again.
LEMMA CountedAgain ==
  ASSUME NEW old \in Task, Counted(old), NEW new, SameCounts(new, old),
         new.status = "pending" => old.status = "pending" \/ CanRetry(old)
  PROVE  Counted(new)
BY DEF Counted, SameCounts, CanRetry, Task

LEMMA UpdateCounted ==
  ASSUME NEW task \in Task, Counted(task), NEW p \in Patch, p.maxAttempts = Unset,
         p.status # "pending"
  PROVE  Counted(Normalized(GatedUpdate(task, p), p))
<1> DEFINE held == [task EXCEPT !.evidenceMissing = TRUE,
                                !.contractSeen = OrElse(task.contract, @)]
           q == [p EXCEPT !.status = "awaiting_audit"]
           new == GatedUpdate(task, p)
<1>1. SameCounts(Assign(held, q), task) /\ Assign(held, q).status = "awaiting_audit"
  BY MarkAssumption DEF Assign, OrElse, SameCounts, Task, Patch, Statuses
<1>2. /\ SameCounts(Assign(task, p), task)
      /\ Assign(task, p).status = "pending" => task.status = "pending"
  BY DEF Assign, OrElse, SameCounts
<1>3. SameCounts(new, task) /\ (new.status = "pending" => task.status = "pending")
  BY <1>1, <1>2 DEF GatedUpdate
<1>4. new \in Task
  BY GatedUpdateType
<1> HIDE DEF new
<1>5. LET last == Normalized(new, p) IN
      SameCounts(last, task) /\ (last.status = "pending" => task.status = "pending")
  BY <1>3, <1>4 DEF Normalized, SameCounts, Task
<1> QED
  BY <1>5, CountedAgain DEF new

LEMMA CountedUserStep ==
  ASSUME TypeOK, AllCounted, NewTasksUntried, LimitsStay, NEW t \in Tasks, UserStep(t)
  PROVE  AllCounted'
<1>0. tasks[t] \in Task /\ Counted(tasks[t])
  BY DEF TypeOK, AllCounted
<1>1. \A u \in Tasks \ {t} : tasks'[u] = tasks[u]
  BY UserStepOfOne
<1>2. ASSUME NEW template \in Templates[t], AddTask(t, template)
      PROVE  Counted(tasks'[t])
  <2>1. template \in Task /\ template.attempts < template.maxAttempts
    BY InputAssumption DEF NewTasksUntried
  <2>2. tasks'[t] = template
    BY <1>2 DEF AddTask, TypeOK
  <2> QED
    BY <2>1, <2>2 DEF Counted, Task
<1>3. ASSUME NEW p \in Patches, UpdateTask(t, p)
      PROVE  Counted(tasks'[t])
  <2>1. p \in Patch /\ p.maxAttempts = Unset /\ p.status # "pending"
    BY InputAssumption DEF LimitsStay
  <2>2. tasks'[t] = Normalized(GatedUpdate(tasks[t], p), p)
    BY <1>3 DEF UpdateTask, TypeOK
  <2> QED
    BY <1>0, <2>1, <2>2, UpdateCounted
<1>4. ASSUME DeleteTask(t)
      PROVE  Counted(tasks'[t])
  <2>1. tasks'[t] = [tasks[t] EXCEPT !.status = "deleted"]
    BY <1>4 DEF DeleteTask, TypeOK
  <2>2. SameCounts(tasks'[t], tasks[t]) /\ tasks'[t].status = "deleted"
    BY <1>0, <2>1 DEF SameCounts, Task
  <2> QED
    BY <1>0, <2>2, CountedAgain
<1>5. ASSUME \E verdict \in Verdicts : RecordAuditReview(t, verdict)
      PROVE  Counted(tasks'[t])
  BY <1>0, <1>5 DEF RecordAuditReview
<1>6. ASSUME ApplyVerdict(t)
      PROVE  Counted(tasks'[t])
  <2> DEFINE p == StatusPatch("awaiting_audit")
             new == GatedUpdate(tasks[t], p)
  <2>1. p.maxAttempts = Unset /\ p.status = "awaiting_audit"
    BY DEF StatusPatch, NoPatch
  <2>2. SameCounts(new, tasks[t]) /\ new.status = "awaiting_audit"
    BY <2>1, MarkAssumption DEF GatedUpdate, Assign, OrElse, SameCounts, Statuses
  <2>3. tasks'[t] = new \/ tasks'[t] = tasks[t]
    BY <1>6 DEF ApplyVerdict, TypeOK
  <2> HIDE DEF new
  <2> QED
    BY <1>0, <2>2, <2>3, CountedAgain
<1> QED
  BY <1>1, <1>2, <1>3, <1>4, <1>5, <1>6 DEF UserStep, AllCounted

LEMMA CountedTickStep ==
  ASSUME TypeOK, AllCounted, NEW w \in Ticks, TickStep(w) \/ TickDies(w)
  PROVE  AllCounted'
<1>0. \A t \in Tasks : tasks[t] \in Task /\ Counted(tasks[t])
  BY DEF TypeOK, AllCounted
<1>1. ASSUME NEW t \in Tasks, \A u \in Tasks \ {t} : tasks'[u] = tasks[u], Counted(tasks'[t])
      PROVE  AllCounted'
  BY <1>0, <1>1 DEF AllCounted
<1>2. CASE StartTick(w)
  <2>1. ASSUME NEW t \in Tasks
        PROVE  Counted(Reclaimed(tasks[t]))
    BY <1>0, ReclaimedType DEF Counted, Task
  <2> QED
    BY <1>0, <1>2, <2>1 DEF StartTick, AllCounted
<1>3. CASE \E c \in ticks[w].todo, verdict \in {"passed", "failed"} : Recheck(w, c, verdict)
  <2>1. PICK c \in ticks[w].todo, verdict \in {"passed", "failed"} : Recheck(w, c, verdict)
    BY <1>3
  <2> DEFINE v == [status |-> verdict, checkedAt |-> now, command |-> c.command]
             new == MarkedWith(tasks[c.id], v)
  <2>2. c.id \in Tasks /\ \A u \in Tasks \ {c.id} : tasks'[u] = tasks[u]
    BY <2>1, RecheckOfOne
  <2>3. tasks'[c.id] = new \/ tasks'[c.id] = tasks[c.id]
    BY <2>1, <2>2 DEF Recheck, TypeOK
  <2>4. SameCounts(new, tasks[c.id]) /\ (new.status = "pending" => CanRetry(tasks[c.id]))
    BY <1>0, <2>2 DEF MarkedWith, RetryStatus, SameCounts, Task
  <2> HIDE DEF new
  <2> QED
    BY <1>0, <1>1, <2>2, <2>3, <2>4, CountedAgain
<1>4. ASSUME NEW t \in Tasks, Claim(w, t)
      PROVE  AllCounted'
  <2>1. Counted(tasks'[t])
    BY <1>0, <1>4, ClaimFields DEF Counted, Task
  <2> QED
    BY <1>1, <1>4, <2>1, ClaimFields
<1>5. ASSUME NEW t \in Tasks, FinishRun(w, t)
      PROVE  AllCounted'
  <2>1. /\ \A u \in Tasks \ {t} : tasks'[u] = tasks[u]
        /\ SameCounts(tasks'[t], tasks[t])
        /\ tasks'[t].status = "pending" => CanRetry(tasks[t]) \/ tasks'[t] = tasks[t]
    BY <1>5, FinishRunCases DEF SameCounts
  <2>2. Counted(tasks'[t])
    BY <1>0, <2>1, CountedAgain
  <2> QED
    BY <1>1, <2>1, <2>2
<1>6. CASE ListCompleted(w) \/ NothingToClaim(w) \/ AppendAuditReview(w) \/ TickDies(w)
  BY <1>0, <1>6 DEF ListCompleted, NothingToClaim, AppendAuditReview, TickDies, AllCounted
<1> QED
  BY <1>2, <1>3, <1>4, <1>5, <1>6 DEF TickStep

\* However ticks overlap, overrun their leases and die, a task is tried maxAttempts times
\* and once more for each time it was taken back, although neither the claim nor the
\* reclaim compares the numbers; provided users neither requeue it nor change its limit.
THEOREM AttemptsStayWithinLimit ==
  ASSUME NewTasksUntried, LimitsStay
  PROVE  Spec => []AttemptsWithinLimit
<1>1. Init => AllCounted
  BY DEF Init, BlankTask, AllCounted, Counted
<1>2. TypeOK /\ AllCounted /\ [Next]_vars => AllCounted'
  <2>1. ASSUME AllCounted, AdvanceTime \/ UNCHANGED vars
        PROVE  AllCounted'
    BY <2>1 DEF AdvanceTime, vars, AllCounted
  <2> QED
    BY <2>1, CountedUserStep, CountedTickStep DEF Next
<1>3. AllCounted => AttemptsWithinLimit
  BY DEF AllCounted, Counted, AttemptsWithinLimit
<1> QED
  BY <1>1, <1>2, <1>3, TypeCorrect, PTL DEF Spec
=============================================================================
