------------------------ MODULE AxiTodoLedgerProofs -------------------------
(***************************************************************************)
(* Proofs about AxiTodoLedger, for any tasks, ticks, patches and limits.   *)
(***************************************************************************)
EXTENDS AxiTodoLedger, FiniteSetTheorems, TLAPS

-----------------------------------------------------------------------------
(* The two completion gates                                                *)

\* The desktop bridge's gate holds exactly the tasks that the store's gate holds
\* when it judges a task on the fields the ledger has of it.
THEOREM MirrorAgrees ==
  ASSUME NEW task \in Task
  PROVE  SwiftGateHolds(task) <=> GateHolds(task, OnlyVerification(task.verification))
BY MarkAssumption DEF SwiftGateHolds, GateHolds, OnlyVerification, VerificationHolds,
   RequiresEvidence, OrElse, Task, Verification, Opt, AuditLevels

-----------------------------------------------------------------------------
(* Types                                                                   *)

LEMMA PatchFields ==
  ASSUME NEW S, NEW new \in Opt(S) \cup {Blank}, NEW old \in Opt(S)
  PROVE  Patched(new, old) \in Opt(S)
BY MarkAssumption DEF Patched, Opt

LEMMA OrElseType ==
  ASSUME NEW S, NEW a \in Opt(S), NEW b \in S
  PROVE  OrElse(a, b) \in S
BY DEF OrElse, Opt

LEMMA AssignType ==
  ASSUME NEW task \in Task, NEW p \in Patch
  PROVE  Assign(task, p) \in Task
<1>1. /\ OrElse(p.domain, task.domain) \in {"agent", "personal"}
      /\ OrElse(p.status, task.status) \in Statuses \cup NotInFile
      /\ OrElse(p.maxAttempts, task.maxAttempts) \in Nat \ {0}
      /\ OrElse(p.dueAt, task.dueAt) \in Time
      /\ OrElse(p.cwd, task.cwd) \in Keys
      /\ OrElse(p.keys, task.keys) \in SUBSET Keys
      /\ OrElse(p.worktree, task.worktree) \in SUBSET Keys
      /\ OrElse(p.deps, task.deps) \in SUBSET Tasks
      /\ OrElse(p.evidenceMissing, task.evidenceMissing) \in BOOLEAN
      /\ OrElse(p.level, task.level) \in AuditLevels
  BY DEF OrElse, Opt, Task, Patch
<1>2. /\ Patched(p.group, task.group) \in Opt(Groups)
      /\ Patched(p.groupLimit, task.groupLimit) \in Opt(Nat)
      /\ Patched(p.verifyCommand, task.verifyCommand) \in Opt(Commands)
      /\ Patched(p.contract, task.contract) \in Opt(Contracts)
      /\ Patched(p.contractSeen, task.contractSeen) \in Opt(Contracts)
  BY PatchFields DEF Task, Patch
<1>3. /\ task.attempts \in Nat /\ task.startedAt \in Opt(Time)
      /\ task.verification \in Verification
  BY DEF Task
<1> QED
  BY <1>1, <1>2, <1>3 DEF Assign, Task

LEMMA GatedUpdateType ==
  ASSUME NEW task \in Task, NEW p \in Patch
  PROVE  GatedUpdate(task, p) \in Task
<1>1. [p EXCEPT !.status = "awaiting_audit"] \in Patch
  BY DEF Patch, Opt, Statuses
<1>2. OrElse(task.contract, task.contractSeen) \in Opt(Contracts)
  BY DEF Task, OrElse, Opt
<1>3. [task EXCEPT !.evidenceMissing = TRUE,
                   !.contractSeen = OrElse(task.contract, @)] \in Task
  BY <1>2 DEF Task
<1> QED
  BY <1>1, <1>3, AssignType DEF GatedUpdate

LEMMA NormalizedType ==
  ASSUME NEW task \in Task, NEW p \in Patch
  PROVE  Normalized(task, p) \in Task
BY DEF Normalized, Task, NotInFile

LEMMA LaterType == now \in Time => Later(RetryDelay) \in Time
BY TimeAssumption DEF Later, Time

\* A verification as a run or a recheck reports it.
Verdict == [status: {"passed", "failed"}, checkedAt: Time, command: Opt(Commands)]

LEMMA MarkedType ==
  ASSUME NEW task \in Task, NEW v \in Verdict
  PROVE  MarkedWith(task, v) \in Task
<1>1. v \in Verification
  BY DEF Verdict, Verification
<1>2. RetryStatus(task) \in Statuses
  BY DEF RetryStatus, Statuses
<1> DEFINE marked == [task EXCEPT !.verification = v]
<1>3. marked \in Task
  BY <1>1 DEF Task
<1>4. /\ \A s \in Statuses : [marked EXCEPT !.status = s] \in Task
      /\ [marked EXCEPT !.status = "awaiting_audit", !.evidenceMissing = TRUE] \in Task
  BY <1>3 DEF Task, Statuses
<1> HIDE DEF marked
<1>5. "completed" \in Statuses
  BY DEF Statuses
<1> QED
  BY <1>2, <1>4, <1>5 DEF MarkedWith, marked

LEMMA ClaimedType ==
  ASSUME NEW task \in Task, NEW at \in Time
  PROVE  Claimed(task, at) \in Task
<1>1. task.attempts + 1 \in Nat
  BY DEF Task
<1>2. "running" \in Statuses /\ at \in Opt(Time)
  BY DEF Statuses, Opt
<1> QED
  BY <1>1, <1>2 DEF Claimed, Task

\* What a run returns for a task claimed with these fields.
LEMMA ResultFields ==
  ASSUME NEW snap \in Snapshot, NEW at \in Time, NEW r \in RunResults(snap, at)
  PROVE  /\ r.contract = snap.contract /\ r.contractSeen = Unset /\ r.level = snap.level
         /\ r.success \in BOOLEAN /\ r.evidenceMissing \in BOOLEAN
         /\ r.verification \in {Unset} \cup Verdict
BY DEF RunResults, Snapshot, Verdict

LEMMA CompletedType ==
  ASSUME NEW task \in Task, NEW snap \in Snapshot, NEW at \in Time,
         NEW r \in RunResults(snap, at)
  PROVE  CompletedWith(task, r) \in Task
<1>1. /\ GateHolds(task, r) \in BOOLEAN
  BY DEF GateHolds
<1>2. OrElse(r.contract, task.contractSeen) \in Opt(Contracts)
  BY ResultFields DEF OrElse, Task, Snapshot, Opt
<1>3. OrElse(r.verification, task.verification) \in Verification
  BY ResultFields DEF OrElse, Task, Verdict, Verification
<1>4. (IF GateHolds(task, r) THEN "awaiting_audit" ELSE "completed") \in Statuses
  BY DEF Statuses
<1> HIDE DEF GateHolds
<1> QED
  BY <1>1, <1>2, <1>3, <1>4 DEF CompletedWith, Task

LEMMA FailedType ==
  ASSUME NEW task \in Task, NEW snap \in Snapshot, NEW at \in Time, now \in Time,
         NEW r \in RunResults(snap, at)
  PROVE  FailedWith(task, r) \in Task
<1>1. RetryStatus(task) \in Statuses
  BY DEF RetryStatus, Statuses
<1>2. Later(RetryDelay) \in Time
  BY LaterType
<1>3. OrElse(r.verification, task.verification) \in Verification
  BY ResultFields DEF OrElse, Task, Verdict, Verification
<1> QED
  BY <1>1, <1>2, <1>3 DEF FailedWith, Task

\* A task that is taken back is pending, and nothing else about it changes but the count.
LEMMA ReclaimedType ==
  ASSUME NEW task \in Task
  PROVE  LET new == Reclaimed(task) IN
         /\ new \in Task /\ new.status = "pending" /\ new.reclaims = task.reclaims + 1
         /\ \A f \in {"domain", "attempts", "maxAttempts", "startedAt", "cwd", "keys",
                        "worktree", "group", "groupLimit", "verifyCommand", "contract",
                        "contractSeen", "evidenceMissing", "level", "verification"} :
               new[f] = task[f]
<1>1. task.reclaims + 1 \in Nat
  BY DEF Task
<1>2. Reclaimed(task) \in Task
  BY <1>1 DEF Reclaimed, Task, Statuses
<1> QED
  BY <1>2 DEF Reclaimed, Task

LEMMA IdleTickType == IdleTick \in Tick /\ IdleTick.phase = "idle"
BY TimeAssumption DEF IdleTick, Tick, NoSnapshot, Snapshot, Phases, Opt, AuditLevels, Time

LEMMA TypeInit == Init => TypeOK
<1> SUFFICES ASSUME Init PROVE TypeOK
  OBVIOUS
<1>1. 0 \in Time
  BY TimeAssumption DEF Time
<1>2. (CHOOSE k \in Keys : TRUE) \in Keys
  BY InputAssumption
<1>3. NoVerification \in Verification
  BY <1>1 DEF NoVerification, Verification, Opt
<1>4. BlankTask \in Task
  BY <1>1, <1>2, <1>3 DEF BlankTask, Task, NotInFile, Opt, AuditLevels
<1>5. IdleTick \in Tick /\ IdleTick.phase = "idle"
  BY IdleTickType
<1> QED
  BY <1>1, <1>4, <1>5 DEF Init, TypeOK

LEMMA UserStepType ==
  ASSUME TypeOK, NEW t \in Tasks, UserStep(t)
  PROVE  TypeOK'
<1> USE DEF TypeOK
<1>1. CASE \E template \in Templates[t] : AddTask(t, template)
  BY <1>1, InputAssumption DEF AddTask
<1>2. CASE \E p \in Patches : UpdateTask(t, p)
  <2>1. PICK p \in Patches : UpdateTask(t, p)
    BY <1>2
  <2>2. Normalized(GatedUpdate(tasks[t], p), p) \in Task
    BY InputAssumption, GatedUpdateType, NormalizedType
  <2> QED
    BY <2>1, <2>2 DEF UpdateTask
<1>3. CASE DeleteTask(t)
  <2>1. [tasks[t] EXCEPT !.status = "deleted"] \in Task
    BY DEF Task, NotInFile
  <2> QED
    BY <1>3, <2>1 DEF DeleteTask
<1>4. CASE \E verdict \in Verdicts : RecordAuditReview(t, verdict)
  BY <1>4 DEF RecordAuditReview
<1>5. CASE ApplyVerdict(t)
  <2>1. StatusPatch("awaiting_audit") \in Patch
    BY DEF StatusPatch, NoPatch, Patch, Opt, Statuses
  <2>2. GatedUpdate(tasks[t], StatusPatch("awaiting_audit")) \in Task
    BY <2>1, GatedUpdateType
  <2> QED
    BY <1>5, <2>2 DEF ApplyVerdict
<1> QED
  BY <1>1, <1>2, <1>3, <1>4, <1>5 DEF UserStep


\* What TypeOK says of one tick.
GoodTick(k) == k \in Tick /\ (k.phase \in {"exec", "audit"} => k.task \in Tasks)

LEMMA TicksType ==
  ASSUME TypeOK, NEW w \in Ticks, NEW k, GoodTick(k), ticks' = [ticks EXCEPT ![w] = k]
  PROVE  /\ ticks' \in [Ticks -> Tick]
         /\ \A x \in Ticks : ticks'[x].phase \in {"exec", "audit"} => ticks'[x].task \in Tasks
BY DEF TypeOK, GoodTick

LEMMA IdleIsGood == GoodTick(IdleTick)
BY IdleTickType DEF GoodTick

LEMMA FinishRunType ==
  ASSUME TypeOK, NEW w \in Ticks, NEW t \in Tasks, FinishRun(w, t)
  PROVE  TypeOK'
<1>1. ticks[w].snapshot \in Snapshot /\ tasks[t] \in Task /\ now \in Time
  BY DEF Tick, TypeOK
<1>2. CASE \E r \in RunResults(ticks[w].snapshot, now) : CompleteTask(w, t, r) \/ FailTask(w, t, r)
  <2>1. PICK r \in RunResults(ticks[w].snapshot, now) : CompleteTask(w, t, r) \/ FailTask(w, t, r)
    BY <1>2
  <2>2. CompletedWith(tasks[t], r) \in Task /\ FailedWith(tasks[t], r) \in Task
    BY <1>1, CompletedType, FailedType
  <2>3. GoodTick(AuditIfHeld(t, GateHolds(tasks[t], r)))
    <3>1. GoodTick([IdleTick EXCEPT !.phase = "audit", !.task = t])
      BY IdleTickType DEF GoodTick, Tick, Phases, Opt
    <3> QED
      BY IdleIsGood, <3>1 DEF AuditIfHeld
  <2>4. CASE CompleteTask(w, t, r)
    <3>1. ticks' = [ticks EXCEPT ![w] = AuditIfHeld(t, GateHolds(tasks[t], r))]
      BY <2>4 DEF CompleteTask
    <3>2. tasks' = [tasks EXCEPT ![t] = CompletedWith(tasks[t], r)]
      BY <2>4 DEF CompleteTask
    <3>3. UNCHANGED <<now, reviewed, verdicts>>
      BY <2>4 DEF CompleteTask
    <3> QED
      BY <3>1, <3>2, <3>3, <2>2, <2>3, TicksType DEF TypeOK
  <2>5. CASE FailTask(w, t, r)
    <3>1. /\ ticks' = [ticks EXCEPT ![w] = IdleTick]
          /\ tasks' = [tasks EXCEPT ![t] = FailedWith(tasks[t], r)]
          /\ UNCHANGED <<now, reviewed, verdicts>>
      BY <2>5 DEF FailTask
    <3> QED
      BY <3>1, <2>2, IdleIsGood, TicksType DEF TypeOK
  <2> QED
    BY <2>1, <2>4, <2>5
<1>3. CASE ResultOfDeletedTask(w, t)
  BY <1>3, IdleIsGood, TicksType DEF ResultOfDeletedTask, TypeOK
<1> QED
  BY <1>2, <1>3 DEF FinishRun

LEMMA TickStepType ==
  ASSUME TypeOK, NEW w \in Ticks, TickStep(w) \/ TickDies(w)
  PROVE  TypeOK'
<1>1. GoodTick(ticks[w])
  BY DEF TypeOK, GoodTick
<1>2. CASE StartTick(w)
  <2>1. \A t \in Tasks : Reclaimed(tasks[t]) \in Task
    BY ReclaimedType DEF TypeOK
  <2>2. GoodTick([IdleTick EXCEPT !.phase = "list", !.at = now])
    BY IdleTickType DEF Tick, Phases, TypeOK, GoodTick
  <2>3. tasks' \in [Tasks -> Task]
    BY <1>2, <2>1 DEF StartTick, TypeOK
  <2> QED
    BY <1>2, <2>2, <2>3, TicksType DEF StartTick, TypeOK
<1>3. CASE ListCompleted(w)
  <2> DEFINE todo == {c \in Check : /\ c.id \in CompletedIds
                                    /\ c.command = tasks[c.id].verifyCommand
                                    /\ ShouldRecheck(tasks[c.id], ticks[w].at)}
  <2>1. todo \in SUBSET Check
    OBVIOUS
  <2>2. ticks' = [ticks EXCEPT ![w].phase = "recheck", ![w].todo = todo]
    BY <1>3 DEF ListCompleted
  <2> HIDE DEF todo
  <2>3. GoodTick([ticks[w] EXCEPT !.phase = "recheck", !.todo = todo])
    BY <1>1, <2>1 DEF Tick, Phases, GoodTick
  <2>4. ticks' = [ticks EXCEPT ![w] = [ticks[w] EXCEPT !.phase = "recheck", !.todo = todo]]
    BY <2>2 DEF TypeOK
  <2> QED
    BY <1>3, <2>3, <2>4, TicksType DEF ListCompleted, TypeOK
<1>4. CASE \E c \in ticks[w].todo, verdict \in {"passed", "failed"} : Recheck(w, c, verdict)
  <2>1. PICK c \in ticks[w].todo, verdict \in {"passed", "failed"} : Recheck(w, c, verdict)
    BY <1>4
  <2>2. c \in Check /\ c.id \in Tasks
    BY <1>1 DEF Tick, Check, GoodTick
  <2> DEFINE v == [status |-> verdict, checkedAt |-> now, command |-> c.command]
  <2>3. v \in Verdict
    BY <2>2 DEF Verdict, Check, Opt, TypeOK
  <2>4. CASE InFile(c.id)
    <3>1. /\ tasks' = [tasks EXCEPT ![c.id] = MarkedWith(tasks[c.id], v)]
          /\ ticks' = [ticks EXCEPT ![w].todo = ticks[w].todo \ {c}]
          /\ UNCHANGED <<now, reviewed, verdicts>>
      BY <2>1, <2>4 DEF Recheck
    <3> HIDE DEF v
    <3>2. MarkedWith(tasks[c.id], v) \in Task
      BY <2>2, <2>3, MarkedType DEF TypeOK
    <3>3. GoodTick([ticks[w] EXCEPT !.todo = ticks[w].todo \ {c}])
      BY <1>1 DEF GoodTick, Tick
    <3>4. ticks' = [ticks EXCEPT ![w] = [ticks[w] EXCEPT !.todo = ticks[w].todo \ {c}]]
      BY <3>1 DEF TypeOK
    <3>5. tasks' \in [Tasks -> Task]
      BY <2>2, <3>1, <3>2 DEF TypeOK
    <3> QED
      BY <3>1, <3>3, <3>4, <3>5, TicksType DEF TypeOK
  <2>5. CASE ~InFile(c.id)
    <3>1. ticks' = [ticks EXCEPT ![w] = IdleTick] /\ UNCHANGED <<now, tasks, reviewed, verdicts>>
      BY <2>1, <2>5 DEF Recheck
    <3> QED
      BY <3>1, IdleIsGood, TicksType DEF TypeOK
  <2> QED
    BY <2>4, <2>5
<1>5. CASE \E t \in Tasks : Claim(w, t)
  <2>1. PICK t \in Tasks : Claim(w, t)
    BY <1>5
  <2> DEFINE snap == [verifyCommand |-> tasks[t].verifyCommand,
                      contract |-> tasks[t].contract, level |-> tasks[t].level]
  <2>2. snap \in Snapshot
    BY DEF Snapshot, Task, TypeOK
  <2>3. /\ tasks' = [tasks EXCEPT ![t] = Claimed(tasks[t], ticks[w].at)]
        /\ ticks' = [ticks EXCEPT ![w].phase = "exec", ![w].began = now, ![w].task = t,
                                  ![w].snapshot = snap]
        /\ UNCHANGED <<now, reviewed, verdicts>>
    BY <2>1 DEF Claim
  <2> HIDE DEF snap
  <2> DEFINE k == [ticks[w] EXCEPT !.phase = "exec", !.began = now, !.task = t,
                                   !.snapshot = snap]
  <2>4. GoodTick(k)
    BY <1>1, <2>2 DEF Tick, Phases, Opt, GoodTick, TypeOK
  <2>5. ticks' = [ticks EXCEPT ![w] = k]
    BY <2>3 DEF TypeOK
  <2> HIDE DEF k
  <2>6. Claimed(tasks[t], ticks[w].at) \in Task
    BY <1>1, ClaimedType DEF Tick, GoodTick, TypeOK
  <2>7. tasks' \in [Tasks -> Task]
    BY <2>3, <2>6 DEF TypeOK
  <2> QED
    BY <2>3, <2>4, <2>5, <2>7, TicksType DEF TypeOK
<1>6. CASE NothingToClaim(w)
  BY <1>6, IdleIsGood, TicksType DEF NothingToClaim, TypeOK
<1>7. CASE \E t \in Tasks : FinishRun(w, t)
  BY <1>7, FinishRunType
<1>8. CASE AppendAuditReview(w)
  <2>1. ticks[w].task \in Tasks
    BY <1>8 DEF AppendAuditReview, TypeOK
  <2> QED
    BY <1>8, <2>1, IdleIsGood, TicksType DEF AppendAuditReview, TypeOK
<1>9. CASE TickDies(w)
  BY <1>9, IdleIsGood, TicksType DEF TickDies, TypeOK
<1> QED
  BY <1>2, <1>3, <1>4, <1>5, <1>6, <1>7, <1>8, <1>9 DEF TickStep

LEMMA TypeNext == TypeOK /\ [Next]_vars => TypeOK'
<1> SUFFICES ASSUME TypeOK, [Next]_vars PROVE TypeOK'
  OBVIOUS
<1>1. CASE \E t \in Tasks : UserStep(t)
  BY <1>1, UserStepType
<1>2. CASE \E w \in Ticks : TickStep(w) \/ TickDies(w)
  BY <1>2, TickStepType
<1>3. CASE AdvanceTime
  BY <1>3, TimeAssumption DEF AdvanceTime, TypeOK, Time
<1>4. CASE UNCHANGED vars
  BY <1>4 DEF vars, TypeOK
<1> QED
  BY <1>1, <1>2, <1>3, <1>4 DEF Next

\* Whatever users, ticks and dying ticks do to it, the ledger stays well formed, and a
\* tick in the middle of a run or of an audit knows the task it works on.
THEOREM TypeCorrect == Spec => []TypeOK
BY TypeInit, TypeNext, PTL DEF Spec

-----------------------------------------------------------------------------
(* What runs at once                                                       *)

\* Users do not set a task running.
OnlyClaimsStart ==
    /\ \A t \in Tasks : \A task \in Templates[t] : task.status # "running"
    /\ \A p \in Patches : p.status # "running"

\* Users do not change what a task locks once they have created it ...
LocksFixed == \A p \in Patches : p.cwd = Unset /\ p.keys = Unset /\ p.worktree = Unset

\* ... nor the lane it is in.
LanesFixed == \A p \in Patches : p.group = Unset /\ p.groupLimit = Unset

SameLocks(new, old) == new.cwd = old.cwd /\ new.keys = old.keys /\ new.worktree = old.worktree

SameClaim(new, old) ==
    /\ new.startedAt = old.startedAt /\ new.attempts = old.attempts
    /\ LocksFixed => SameLocks(new, old)
    /\ LanesFixed => new.group = old.group /\ new.groupLimit = old.groupLimit

\* What runs after the step ran before it, since the same claim, and with the same keys
\* and in the same lane when users leave those alone.
NothingStarts ==
    \A t \in Tasks :
        tasks'[t].status = "running" =>
            tasks[t].status = "running" /\ SameClaim(tasks'[t], tasks[t])

LEMMA UserStartsNothing ==
  ASSUME TypeOK, OnlyClaimsStart, NEW t \in Tasks, UserStep(t)
  PROVE  NothingStarts
<1>1. CASE \E template \in Templates[t] : AddTask(t, template)
  BY <1>1 DEF AddTask, OnlyClaimsStart, NothingStarts, SameClaim, SameLocks, TypeOK
<1>2. ASSUME NEW p \in Patch, p.status # "running",
             LocksFixed => p.cwd = Unset /\ p.keys = Unset /\ p.worktree = Unset,
             LanesFixed => p.group = Unset /\ p.groupLimit = Unset
      PROVE  LET new == GatedUpdate(tasks[t], p)
             IN  new.status = "running" => tasks[t].status = "running" /\ SameClaim(new, tasks[t])
  <2> DEFINE held == [tasks[t] EXCEPT !.evidenceMissing = TRUE,
                                      !.contractSeen = OrElse(tasks[t].contract, @)]
             q == [p EXCEPT !.status = "awaiting_audit"]
  <2>1. tasks[t] \in Task
    BY DEF TypeOK
  <2>2. Assign(held, q).status = "awaiting_audit"
    BY MarkAssumption DEF Assign, OrElse, Patch, Statuses
  <2>3. /\ Assign(tasks[t], p).status \in {p.status, tasks[t].status}
        /\ SameClaim(Assign(tasks[t], p), tasks[t])
    BY <1>2, <2>1 DEF Assign, OrElse, Patched, SameClaim, SameLocks
  <2> QED
    BY <1>2, <2>2, <2>3 DEF GatedUpdate
<1>3. CASE \E p \in Patches : UpdateTask(t, p)
  <2>1. PICK p \in Patches : UpdateTask(t, p)
    BY <1>3
  <2> DEFINE new == GatedUpdate(tasks[t], p)
  <2>2. p \in Patch /\ (new.status = "running" => tasks[t].status = "running" /\ SameClaim(new, tasks[t]))
    BY <1>2, InputAssumption DEF OnlyClaimsStart, LocksFixed, LanesFixed
  <2>3. new \in Task
    BY <2>2, GatedUpdateType DEF TypeOK
  <2>4. tasks' = [tasks EXCEPT ![t] = Normalized(new, p)]
    BY <2>1 DEF UpdateTask
  <2> HIDE DEF new
  <2>5. Normalized(new, p).status = "running" => Normalized(new, p) = new
    BY <2>3 DEF Normalized, Task
  <2> QED
    BY <2>2, <2>4, <2>5 DEF NothingStarts, SameClaim, SameLocks, TypeOK
<1>4. CASE DeleteTask(t)
  BY <1>4 DEF DeleteTask, NothingStarts, SameClaim, SameLocks, TypeOK, Task
<1>5. CASE \E verdict \in Verdicts : RecordAuditReview(t, verdict)
  BY <1>5 DEF RecordAuditReview, NothingStarts, SameClaim, SameLocks
<1>6. CASE ApplyVerdict(t)
  <2> DEFINE new == GatedUpdate(tasks[t], StatusPatch("awaiting_audit"))
  <2>1. new.status = "running" => tasks[t].status = "running" /\ SameClaim(new, tasks[t])
    <3>1. StatusPatch("awaiting_audit") \in Patch
      BY DEF StatusPatch, NoPatch, Patch, Opt, Statuses
    <3> QED
      BY <1>2, <3>1 DEF StatusPatch, NoPatch
  <2>2. \/ tasks' = [tasks EXCEPT ![t] = new]
        \/ tasks' = tasks
    BY <1>6 DEF ApplyVerdict
  <2> HIDE DEF new
  <2> QED
    BY <2>1, <2>2 DEF NothingStarts, SameClaim, SameLocks, TypeOK
<1> QED
  BY <1>1, <1>3, <1>4, <1>5, <1>6 DEF UserStep

LEMMA TickStartsNothing ==
  ASSUME TypeOK, NEW w \in Ticks, TickStep(w) \/ TickDies(w), ~ \E t \in Tasks : Claim(w, t)
  PROVE  NothingStarts
<1> USE DEF NothingStarts, SameClaim, SameLocks
<1>1. CASE StartTick(w)
  BY <1>1, ReclaimedType DEF StartTick, TypeOK
<1>2. CASE \E c \in ticks[w].todo, verdict \in {"passed", "failed"} : Recheck(w, c, verdict)
  <2>1. PICK c \in ticks[w].todo, verdict \in {"passed", "failed"} : Recheck(w, c, verdict)
    BY <1>2
  <2> DEFINE v == [status |-> verdict, checkedAt |-> now, command |-> c.command]
             new == MarkedWith(tasks[c.id], v)
  <2>2. tasks' = [tasks EXCEPT ![c.id] = new] \/ tasks' = tasks
    BY <2>1 DEF Recheck
  <2>3. c.id \in Tasks
    BY DEF TypeOK, Tick, Check
  <2>4. new.status # "running"
    BY <2>3 DEF MarkedWith, RetryStatus, TypeOK, Task
  <2> HIDE DEF new
  <2> QED
    BY <2>2, <2>4 DEF TypeOK
<1>3. CASE \E t \in Tasks : FinishRun(w, t)
  <2>1. PICK t \in Tasks : FinishRun(w, t)
    BY <1>3
  <2>2. ASSUME NEW r \in RunResults(ticks[w].snapshot, now), CompleteTask(w, t, r)
        PROVE  NothingStarts
    <3>1. CompletedWith(tasks[t], r).status # "running"
      BY DEF CompletedWith, TypeOK, Task
    <3> QED
      BY <2>2, <3>1 DEF CompleteTask, TypeOK
  <2>3. ASSUME NEW r \in RunResults(ticks[w].snapshot, now), FailTask(w, t, r)
        PROVE  NothingStarts
    <3>1. FailedWith(tasks[t], r).status # "running"
      BY DEF FailedWith, RetryStatus, TypeOK, Task
    <3> QED
      BY <2>3, <3>1 DEF FailTask, TypeOK
  <2> QED
    BY <2>1, <2>2, <2>3 DEF FinishRun, ResultOfDeletedTask
<1>4. CASE ListCompleted(w) \/ NothingToClaim(w) \/ AppendAuditReview(w) \/ TickDies(w)
  BY <1>4 DEF ListCompleted, NothingToClaim, AppendAuditReview, TickDies
<1> QED
  BY <1>1, <1>2, <1>3, <1>4 DEF TickStep

\* Only a claim starts a task.
LEMMA StartsByClaim ==
  ASSUME TypeOK, OnlyClaimsStart, [Next]_vars
  PROVE  NothingStarts \/ \E w \in Ticks, t \in Tasks : Claim(w, t)
<1>1. CASE AdvanceTime \/ UNCHANGED vars
  BY <1>1 DEF AdvanceTime, vars, NothingStarts, SameClaim, SameLocks
<1> QED
  BY <1>1, UserStartsNothing, TickStartsNothing DEF Next

\* claimNextTask never starts a task whose keys another running task holds: no two
\* running tasks share a key, however ticks overlap, die and take runs back.
THEOREM RunningKeysStayDisjoint ==
  ASSUME OnlyClaimsStart, LocksFixed
  PROVE  Spec => []RunningKeysDisjoint
<1>1. Init => RunningKeysDisjoint
  BY DEF Init, BlankTask, RunningKeysDisjoint, RunningIds
<1>2. TypeOK /\ RunningKeysDisjoint /\ [Next]_vars => RunningKeysDisjoint'
  <2> SUFFICES ASSUME TypeOK, RunningKeysDisjoint, [Next]_vars PROVE RunningKeysDisjoint'
    OBVIOUS
  <2>1. CASE NothingStarts
    BY <2>1 DEF NothingStarts, SameClaim, SameLocks, RunningKeysDisjoint, RunningIds, EffectiveKeys
  <2>2. CASE \E w \in Ticks, t \in Tasks : Claim(w, t)
    <3>1. PICK w \in Ticks, t \in Tasks : Claim(w, t)
      BY <2>2
    <3>2. EffectiveKeys(tasks[t]) \cap RunningKeys = {}
      BY <3>1 DEF Claim, IsFirst, Schedulable
    <3>3. \A u \in Tasks : u # t => tasks'[u] = tasks[u]
      BY <3>1 DEF Claim, TypeOK
    <3>4. EffectiveKeys(tasks'[t]) = EffectiveKeys(tasks[t])
      BY <3>1 DEF Claim, Claimed, EffectiveKeys, TypeOK, Task
    <3>5. \A u \in RunningIds : EffectiveKeys(tasks[t]) \cap EffectiveKeys(tasks[u]) = {}
      BY <3>2 DEF RunningKeys
    <3> HIDE DEF EffectiveKeys
    <3>6. \A u \in RunningIds' : u = t \/ u \in RunningIds
      BY <3>3 DEF RunningIds
    <3>7. \A u, v \in RunningIds' : u # v => EffectiveKeys(tasks'[u]) \cap EffectiveKeys(tasks'[v]) = {}
      <4> SUFFICES ASSUME NEW u \in RunningIds', NEW v \in RunningIds', u # v
                   PROVE  EffectiveKeys(tasks'[u]) \cap EffectiveKeys(tasks'[v]) = {}
        OBVIOUS
      <4>1. u \in Tasks /\ v \in Tasks
        BY DEF RunningIds
      <4>2. CASE u = t
        BY <3>3, <3>4, <3>5, <3>6, <4>1, <4>2
      <4>3. CASE v = t
        BY <3>3, <3>4, <3>5, <3>6, <4>1, <4>3
      <4>4. CASE u # t /\ v # t
        BY <3>3, <3>6, <4>1, <4>4 DEF RunningKeysDisjoint
      <4> QED
        BY <4>2, <4>3, <4>4
    <3> QED
      BY <3>7 DEF RunningKeysDisjoint
  <2> QED
    BY <2>1, <2>2, StartsByClaim
<1> QED
  BY <1>1, <1>2, TypeCorrect, PTL DEF Spec

\* What a task locks changes only when it is added.
LocksStay == \A t \in Tasks : SameLocks(tasks'[t], tasks[t])

LEMMA LocksStayButOne ==
  ASSUME TypeOK, NEW t \in Tasks, NEW new, tasks' = [tasks EXCEPT ![t] = new],
         SameLocks(new, tasks[t])
  PROVE  LocksStay
BY DEF LocksStay, SameLocks, TypeOK

LEMMA UpdateKeepsLocks ==
  ASSUME NEW task \in Task, NEW p \in Patch, p.cwd = Unset /\ p.keys = Unset /\ p.worktree = Unset
  PROVE  SameLocks(GatedUpdate(task, p), task)
<1>1. \A k, q :
         q.cwd = Unset /\ q.keys = Unset /\ q.worktree = Unset => SameLocks(Assign(k, q), k)
  BY DEF Assign, OrElse, SameLocks
<1> DEFINE held == [task EXCEPT !.evidenceMissing = TRUE,
                                !.contractSeen = OrElse(task.contract, @)]
           q == [p EXCEPT !.status = "awaiting_audit"]
<1>2. SameLocks(held, task)
  BY DEF Task, SameLocks
<1>3. q.cwd = Unset /\ q.keys = Unset /\ q.worktree = Unset
  BY DEF Patch
<1>4. GatedUpdate(task, p) \in {Assign(held, q), Assign(task, p)}
  BY DEF GatedUpdate
<1> HIDE DEF held, q
<1> QED
  BY <1>1, <1>2, <1>3, <1>4 DEF SameLocks

LEMMA UserKeepsLocks ==
  ASSUME TypeOK, LocksFixed, NEW t \in Tasks, UserStep(t),
         ~ \E template \in Templates[t] : AddTask(t, template)
  PROVE  LocksStay
<1>1. tasks[t] \in Task
  BY DEF TypeOK
<1>2. CASE tasks' = tasks
  BY <1>2 DEF LocksStay, SameLocks
<1>3. ASSUME NEW p \in Patches, UpdateTask(t, p)
      PROVE  LocksStay
  <2> DEFINE new == GatedUpdate(tasks[t], p)
  <2>1. p \in Patch /\ SameLocks(new, tasks[t]) /\ new \in Task
    BY <1>1, InputAssumption, UpdateKeepsLocks, GatedUpdateType DEF LocksFixed
  <2>2. tasks' = [tasks EXCEPT ![t] = Normalized(new, p)]
    BY <1>3 DEF UpdateTask
  <2> HIDE DEF new
  <2>3. SameLocks(Normalized(new, p), tasks[t])
    BY <2>1 DEF Normalized, SameLocks, Task
  <2> QED
    BY <2>2, <2>3, LocksStayButOne
<1>4. CASE DeleteTask(t)
  <2>1. tasks' = [tasks EXCEPT ![t] = [tasks[t] EXCEPT !.status = "deleted"]]
    BY <1>4 DEF DeleteTask
  <2>2. SameLocks([tasks[t] EXCEPT !.status = "deleted"], tasks[t])
    BY <1>1 DEF SameLocks, Task
  <2> QED
    BY <2>1, <2>2, LocksStayButOne
<1>5. CASE ApplyVerdict(t)
  <2> DEFINE new == GatedUpdate(tasks[t], StatusPatch("awaiting_audit"))
  <2>1. SameLocks(new, tasks[t])
    <3>1. StatusPatch("awaiting_audit") \in Patch
      BY DEF StatusPatch, NoPatch, Patch, Opt, Statuses
    <3> QED
      BY <1>1, <3>1, UpdateKeepsLocks DEF StatusPatch, NoPatch
  <2>2. tasks' = [tasks EXCEPT ![t] = new] \/ tasks' = tasks
    BY <1>5 DEF ApplyVerdict
  <2> HIDE DEF new
  <2> QED
    BY <1>2, <2>1, <2>2, LocksStayButOne
<1> QED
  BY <1>2, <1>3, <1>4, <1>5 DEF UserStep, RecordAuditReview

LEMMA TickKeepsLocks ==
  ASSUME TypeOK, NEW w \in Ticks, TickStep(w) \/ TickDies(w)
  PROVE  LocksStay
<1>1. CASE StartTick(w)
  BY <1>1, ReclaimedType DEF StartTick, TypeOK, LocksStay, SameLocks
<1>2. CASE tasks' = tasks
  BY <1>2 DEF LocksStay, SameLocks
<1>3. ASSUME NEW c \in ticks[w].todo, NEW verdict \in {"passed", "failed"}, Recheck(w, c, verdict)
      PROVE  LocksStay
  <2> DEFINE v == [status |-> verdict, checkedAt |-> now, command |-> c.command]
             new == MarkedWith(tasks[c.id], v)
  <2>1. tasks' = [tasks EXCEPT ![c.id] = new] \/ tasks' = tasks
    BY <1>3 DEF Recheck
  <2>2. c.id \in Tasks
    BY DEF TypeOK, Tick, Check
  <2>3. SameLocks(new, tasks[c.id])
    BY <2>2 DEF MarkedWith, SameLocks, TypeOK, Task
  <2> HIDE DEF new
  <2> QED
    BY <1>2, <2>1, <2>2, <2>3, LocksStayButOne
<1>4. ASSUME NEW t \in Tasks, Claim(w, t)
      PROVE  LocksStay
  <2>1. tasks' = [tasks EXCEPT ![t] = Claimed(tasks[t], ticks[w].at)]
    BY <1>4 DEF Claim
  <2>2. SameLocks(Claimed(tasks[t], ticks[w].at), tasks[t])
    BY DEF Claimed, SameLocks, TypeOK, Task
  <2> QED
    BY <2>1, <2>2, LocksStayButOne
<1>5. ASSUME NEW t \in Tasks, NEW r, CompleteTask(w, t, r)
      PROVE  LocksStay
  <2>1. tasks' = [tasks EXCEPT ![t] = CompletedWith(tasks[t], r)]
    BY <1>5 DEF CompleteTask
  <2>2. SameLocks(CompletedWith(tasks[t], r), tasks[t])
    BY DEF CompletedWith, SameLocks, TypeOK, Task
  <2> QED
    BY <2>1, <2>2, LocksStayButOne
<1>6. ASSUME NEW t \in Tasks, NEW r, FailTask(w, t, r)
      PROVE  LocksStay
  <2>1. tasks' = [tasks EXCEPT ![t] = FailedWith(tasks[t], r)]
    BY <1>6 DEF FailTask
  <2>2. SameLocks(FailedWith(tasks[t], r), tasks[t])
    BY DEF FailedWith, SameLocks, TypeOK, Task
  <2> QED
    BY <2>1, <2>2, LocksStayButOne
<1>7. ASSUME ListCompleted(w) \/ NothingToClaim(w) \/ AppendAuditReview(w) \/ TickDies(w)
             \/ \E t \in Tasks : ResultOfDeletedTask(w, t)
      PROVE  tasks' = tasks
  BY <1>7 DEF ListCompleted, NothingToClaim, AppendAuditReview, TickDies, ResultOfDeletedTask
<1> QED
  BY <1>1, <1>2, <1>3, <1>4, <1>5, <1>6, <1>7 DEF TickStep, FinishRun

\* The ledger implements the board: a claim is the board's claim, a task that is added
\* declares what it locks, and whatever else a step does to the tasks that run, it
\* releases them.
THEOREM LedgerImplementsBoard ==
  ASSUME OnlyClaimsStart, LocksFixed
  PROVE  Spec => ImplementsClaimBoard
<1>1. Init => Board!Init
  BY DEF Init, BlankTask, Board!Init, RunningIds
<1>2. TypeOK /\ [Next]_vars => [Board!Next]_(Board!vars)
  <2> SUFFICES ASSUME TypeOK, [Next]_vars
               PROVE  Board!Next
    OBVIOUS
  <2> DEFINE Locks == [t \in Tasks |-> EffectiveKeys(tasks[t])]
  <2>1. ASSUME NEW t \in Tasks, NEW template \in Templates[t], AddTask(t, template)
        PROVE  Board!Declare(t)
    <3>1. \A u \in Tasks : u # t => tasks'[u] = tasks[u]
      BY <2>1 DEF AddTask, TypeOK
    <3>2. tasks'[t] = template /\ template.status # "running" /\ tasks[t].status = "absent"
      BY <2>1 DEF AddTask, TypeOK, OnlyClaimsStart
    <3>3. RunningIds' = RunningIds /\ t \notin RunningIds
      BY <3>1, <3>2 DEF RunningIds
    <3>4. \A u \in Tasks \ {t} : Locks'[u] = Locks[u]
      BY <3>1
    <3> QED
      BY <3>3, <3>4 DEF Board!Declare
  <2>2. ASSUME LocksStay
        PROVE  Locks' = Locks
    <3>1. \A u \in Tasks : EffectiveKeys(tasks'[u]) = EffectiveKeys(tasks[u])
      BY <2>2 DEF LocksStay, SameLocks, EffectiveKeys
    <3> QED
      BY <3>1
  <2>3. ASSUME NEW w \in Ticks, NEW t \in Tasks, Claim(w, t)
        PROVE  Board!Claim(t)
    <3>1. /\ tasks[t].status = "pending" /\ EffectiveKeys(tasks[t]) \cap RunningKeys = {}
          /\ tasks' = [tasks EXCEPT ![t] = Claimed(tasks[t], ticks[w].at)]
      BY <2>3 DEF Claim, IsFirst, Schedulable, Ready
    <3>2. Locks' = Locks
      BY <2>2, <2>3, TickKeepsLocks DEF TickStep
    <3>3. RunningIds' = RunningIds \cup {t} /\ t \notin RunningIds
      BY <3>1 DEF RunningIds, Claimed, TypeOK, Task
    <3>4. \A u \in RunningIds : Locks[t] \cap Locks[u] = {}
      <4> SUFFICES ASSUME NEW u \in RunningIds
                   PROVE  EffectiveKeys(tasks[t]) \cap EffectiveKeys(tasks[u]) = {}
        BY DEF RunningIds
      <4>1. EffectiveKeys(tasks[u]) \subseteq RunningKeys
        BY DEF RunningKeys
      <4> QED
        BY <3>1, <4>1
    <3> QED
      BY <3>2, <3>3, <3>4 DEF Board!Claim
  <2>4. ASSUME NothingStarts, LocksStay
        PROVE  Board!Release(RunningIds \ RunningIds')
    <3>1. RunningIds' \subseteq RunningIds
      BY <2>4 DEF NothingStarts, RunningIds
    <3> QED
      BY <2>2, <2>4, <3>1 DEF Board!Release
  <2>5. CASE LocksStay
    BY <2>3, <2>4, <2>5, StartsByClaim DEF Board!Next
  <2>6. ASSUME AdvanceTime \/ UNCHANGED vars
        PROVE  LocksStay
    BY <2>6 DEF AdvanceTime, vars, LocksStay, SameLocks
  <2> QED
    BY <2>1, <2>5, <2>6, UserKeepsLocks, TickKeepsLocks DEF Next, Board!Next
<1> QED
  BY <1>1, <1>2, TypeCorrect, PTL DEF Spec, ImplementsClaimBoard, Board!Spec

\* A claim leaves its mark on the task, and nothing else sets a task running.
LEMMA ClaimedStep ==
  ASSUME TypeOK, RunningWasClaimed, OnlyClaimsStart, [Next]_vars
  PROVE  RunningWasClaimed'
<1>1. CASE NothingStarts
  BY <1>1 DEF NothingStarts, SameClaim, RunningWasClaimed, RunningIds
<1>2. CASE \E w \in Ticks, t \in Tasks : Claim(w, t)
  <2>1. PICK w \in Ticks, t \in Tasks : Claim(w, t)
    BY <1>2
  <2>2. tasks' = [tasks EXCEPT ![t] = Claimed(tasks[t], ticks[w].at)]
    BY <2>1 DEF Claim
  <2>3. ticks[w].at # Unset /\ tasks[t].attempts + 1 > 0
    BY MarkAssumption, TimeAssumption DEF TypeOK, Tick, Task, Time
  <2>4. /\ Claimed(tasks[t], ticks[w].at).startedAt # Unset
        /\ Claimed(tasks[t], ticks[w].at).attempts > 0
    BY <2>3 DEF Claimed, TypeOK, Task
  <2> QED
    BY <2>2, <2>4 DEF RunningWasClaimed, RunningIds, TypeOK
<1> QED
  BY <1>1, <1>2, StartsByClaim

\* The running tasks of a group that declare a cap of at most k, and the invariant that
\* makes the caps survive the end of any of the runs: there are at most k of them.
Narrow(g, k) ==
    {t \in RunningInGroup(g) : tasks[t].groupLimit # Unset /\ tasks[t].groupLimit <= k}

NarrowAreFew == \A g \in Groups, k \in Nat : Cardinality(Narrow(g, k)) <= k

LEMMA CardinalityBelow ==
  ASSUME IsFiniteSet(Tasks), NEW S \in SUBSET Tasks, NEW T \in SUBSET Tasks, S \subseteq T
  PROVE  /\ IsFiniteSet(T)
         /\ Cardinality(S) \in Nat /\ Cardinality(T) \in Nat
         /\ Cardinality(S) <= Cardinality(T)
BY FS_Subset, FS_CardinalityType

LEMMA FewMeansWithinCap ==
  ASSUME IsFiniteSet(Tasks), TypeOK, NarrowAreFew
  PROVE  GroupWithinCap
<1> SUFFICES ASSUME NEW t \in RunningIds, tasks[t].group # Unset,
                    \A u \in RunningInGroup(tasks[t].group) :
                        /\ tasks[u].groupLimit # Unset
                        /\ ~(Cardinality(RunningInGroup(tasks[t].group)) <= tasks[u].groupLimit)
             PROVE  FALSE
  BY DEF GroupWithinCap
<1> DEFINE g == tasks[t].group
           n == Cardinality(RunningInGroup(g))
<1>1. t \in RunningInGroup(g) /\ g \in Groups
  BY DEF RunningInGroup, RunningIds, TypeOK, Task, Opt
<1>2. RunningInGroup(g) \subseteq Tasks /\ {t} \subseteq RunningInGroup(g)
  BY <1>1 DEF RunningInGroup, RunningIds
<1>3. n \in Nat /\ n >= 1
  <2>1. Cardinality({t}) = 1
    BY FS_Singleton
  <2> QED
    BY <1>2, <2>1, CardinalityBelow
<1>4. \A u \in RunningInGroup(g) : tasks[u].groupLimit \in Nat
  BY <1>2 DEF TypeOK, Task, Opt
<1>5. Narrow(g, n - 1) = RunningInGroup(g)
  BY <1>3, <1>4 DEF Narrow
<1> QED
  BY <1>1, <1>3, <1>5 DEF NarrowAreFew

LEMMA NarrowStep ==
  ASSUME IsFiniteSet(Tasks), OnlyClaimsStart, LanesFixed, TypeOK, NarrowAreFew, [Next]_vars
  PROVE  NarrowAreFew'
<1>1. CASE NothingStarts
  <2> SUFFICES ASSUME NEW g \in Groups, NEW k \in Nat PROVE Cardinality(Narrow(g, k)') <= k
    BY DEF NarrowAreFew
  <2>1. Narrow(g, k)' \subseteq Narrow(g, k) /\ Narrow(g, k) \subseteq Tasks
    BY <1>1 DEF NothingStarts, SameClaim, Narrow, RunningInGroup, RunningIds
  <2> QED
    BY <2>1, CardinalityBelow DEF NarrowAreFew
<1>2. CASE \E w \in Ticks, t \in Tasks : Claim(w, t)
  <2>1. PICK w \in Ticks, t \in Tasks : Claim(w, t)
    BY <1>2
  <2>2. ~GroupFull(tasks[t]) /\ tasks[t].status = "pending"
    BY <2>1 DEF Claim, IsFirst, Schedulable, Ready
  <2>3. \A u \in Tasks : u # t => tasks'[u] = tasks[u]
    BY <2>1 DEF Claim, TypeOK
  <2>4. tasks'[t].group = tasks[t].group /\ tasks'[t].groupLimit = tasks[t].groupLimit
    BY <2>1 DEF Claim, Claimed, TypeOK, Task
  <2> SUFFICES ASSUME NEW g \in Groups, NEW k \in Nat PROVE Cardinality(Narrow(g, k)') <= k
    BY DEF NarrowAreFew
  <2>5. Narrow(g, k)' \subseteq Narrow(g, k) \cup {t} /\ Narrow(g, k) \subseteq Tasks
    BY <2>3 DEF Narrow, RunningInGroup, RunningIds
  <2>6. CASE t \in Narrow(g, k)'
    <3>1. /\ tasks[t].group = g /\ tasks[t].groupLimit # Unset
          /\ tasks[t].groupLimit \in Nat /\ tasks[t].groupLimit <= k
      BY <2>4, <2>6 DEF Narrow, RunningInGroup, TypeOK, Task, Opt
    <3>2. RunningInGroup(g) \subseteq Tasks /\ Narrow(g, k) \subseteq RunningInGroup(g)
      BY DEF Narrow, RunningInGroup, RunningIds
    <3>3. Cardinality(Narrow(g, k)) \in Nat /\ Cardinality(Narrow(g, k)) < k
      <4>1. g # Unset
        BY MarkAssumption
      <4>2. /\ Cardinality(RunningInGroup(g)) \in Nat
            /\ Cardinality(Narrow(g, k)) \in Nat
            /\ Cardinality(Narrow(g, k)) <= Cardinality(RunningInGroup(g))
        BY <3>2, CardinalityBelow
      <4>3. ~(Cardinality(RunningInGroup(g)) >= tasks[t].groupLimit)
        BY <2>2, <3>1, <4>1 DEF GroupFull
      <4> QED
        BY <3>1, <4>2, <4>3
    <3>4. t \notin Narrow(g, k) /\ IsFiniteSet(Narrow(g, k))
      BY <2>2, <3>2, CardinalityBelow DEF Narrow, RunningInGroup, RunningIds
    <3>5. Cardinality(Narrow(g, k) \cup {t}) = Cardinality(Narrow(g, k)) + 1
      BY <3>4, FS_AddElement
    <3>6. Cardinality(Narrow(g, k)') <= Cardinality(Narrow(g, k) \cup {t})
      BY <2>5, CardinalityBelow
    <3>7. Cardinality(Narrow(g, k)') \in Nat
      BY <2>5, CardinalityBelow
    <3> QED
      BY <3>3, <3>5, <3>6, <3>7
  <2>7. CASE t \notin Narrow(g, k)'
    BY <2>5, <2>7, CardinalityBelow DEF NarrowAreFew
  <2> QED
    BY <2>6, <2>7
<1> QED
  BY <1>1, <1>2, StartsByClaim

\* The running tasks of a group never outnumber the largest cap among them, though the
\* claim only looks at the cap of the task it starts, and members with wide caps may
\* finish before those with narrow ones.
THEOREM GroupsStayWithinCap ==
  ASSUME IsFiniteSet(Tasks), OnlyClaimsStart, LanesFixed
  PROVE  Spec => []GroupWithinCap
<1>1. Init => NarrowAreFew
  <2> SUFFICES ASSUME Init, NEW g \in Groups, NEW k \in Nat PROVE Cardinality(Narrow(g, k)) <= k
    BY DEF NarrowAreFew
  <2>1. Narrow(g, k) = {}
    BY DEF Init, BlankTask, Narrow, RunningInGroup, RunningIds
  <2> QED
    BY <2>1, FS_EmptySet
<1>2. TypeOK /\ NarrowAreFew /\ [Next]_vars => NarrowAreFew'
  BY NarrowStep
<1>3. TypeOK /\ NarrowAreFew => GroupWithinCap
  BY FewMeansWithinCap
<1> QED
  BY <1>1, <1>2, <1>3, TypeCorrect, PTL DEF Spec

-----------------------------------------------------------------------------
(* What a completion stands for                                            *)

\* Users create no task as completed.
NewTasksOpen ==
    \A t \in Tasks : \A task \in Templates[t] : task.status # "completed"

\* A patch that completes a task does nothing else to what the gate judges: updateTask
\* asks the gate about the task as it was.
BareCompletions ==
    \A p \in Patches : p.status = "completed" =>
        /\ p.domain = Unset /\ p.verifyCommand = Unset
        /\ p.contractSeen = Unset /\ p.evidenceMissing = Unset /\ p.level = Unset

\* Users do not change the evidence contract of a task once they have created it.
ContractsStay == \A p \in Patches : p.contract = Unset

\* Nor the command it is verified with, nor whether it needs one.
CommandsStay == \A p \in Patches : p.verifyCommand = Unset /\ p.domain = Unset

\* A run reports for the contract its task had when claimed, and so it still has it.
ContractKept ==
    \A w \in Ticks, t \in Tasks : Executing(w, t) =>
        tasks[t].status # "absent" /\ ticks[w].snapshot.contract = tasks[t].contract

\* The same of the command a run verifies its task with.
CommandKept ==
    \A w \in Ticks, t \in Tasks : Executing(w, t) =>
        tasks[t].status # "absent" /\ ticks[w].snapshot.verifyCommand = tasks[t].verifyCommand

SameGate(new, old) ==
    /\ new.domain = old.domain /\ new.verifyCommand = old.verifyCommand
    /\ new.contract = old.contract /\ new.level = old.level

\* What users let alone in every task, a step leaves alone in this one.
SameFields(new, old) ==
    /\ ContractsStay => new.contract = old.contract
    /\ CommandsStay => new.verifyCommand = old.verifyCommand /\ new.domain = old.domain

\* What CompletionIsGated asks of a completed task, whoever has completed it.
Vouched(task) ==
    task.domain = "agent" =>
        /\ task.verifyCommand # Unset => task.verification.status = "passed"
        /\ RequiresEvidence(task.contract, task.level) =>
              ~task.evidenceMissing /\ task.contractSeen \in {Unset, task.contract}

LEMMA UpdateKeepsFields ==
  ASSUME NEW task \in Task, NEW p \in Patch
  PROVE  LET new == GatedUpdate(task, p)
         IN  /\ p.contract = Unset => new.contract = task.contract
             /\ p.verifyCommand = Unset => new.verifyCommand = task.verifyCommand
             /\ p.domain = Unset => new.domain = task.domain
<1> DEFINE held == [task EXCEPT !.evidenceMissing = TRUE,
                                !.contractSeen = OrElse(task.contract, @)]
           q == [p EXCEPT !.status = "awaiting_audit"]
<1>1. /\ p.contract = Unset => Assign(held, q).contract = task.contract
      /\ p.verifyCommand = Unset => Assign(held, q).verifyCommand = task.verifyCommand
      /\ p.domain = Unset => Assign(held, q).domain = task.domain
  BY DEF Assign, OrElse, Patched, Task, Patch
<1>2. /\ p.contract = Unset => Assign(task, p).contract = task.contract
      /\ p.verifyCommand = Unset => Assign(task, p).verifyCommand = task.verifyCommand
      /\ p.domain = Unset => Assign(task, p).domain = task.domain
  BY DEF Assign, OrElse, Patched
<1> QED
  BY <1>1, <1>2 DEF GatedUpdate

LEMMA UpdateIsGated ==
  ASSUME NEW task \in Task, NEW p \in Patch, p.contract = Unset,
         p.status = "completed" =>
            /\ p.domain = Unset /\ p.verifyCommand = Unset
            /\ p.contractSeen = Unset /\ p.evidenceMissing = Unset /\ p.level = Unset,
         task.status # "completed", GatedUpdate(task, p).status = "completed"
  PROVE  Vouched(GatedUpdate(task, p))
<1> DEFINE held == [task EXCEPT !.evidenceMissing = TRUE,
                                !.contractSeen = OrElse(task.contract, @)]
           q == [p EXCEPT !.status = "awaiting_audit"]
<1>1. Assign(held, q).status = "awaiting_audit"
  BY MarkAssumption DEF Assign, OrElse, Patch, Statuses
<1>2. /\ ~(p.status = "completed" /\ GateHolds(task, OnlyVerification(task.verification)))
      /\ GatedUpdate(task, p) = Assign(task, p)
  BY <1>1 DEF GatedUpdate
<1>3. p.status = "completed"
  BY <1>2 DEF Assign, OrElse
<1>4. ~GateHolds(task, OnlyVerification(task.verification))
  BY <1>2, <1>3
<1>5. Vouched(task)
  BY <1>4 DEF GateHolds, OnlyVerification, VerificationHolds, RequiresEvidence, OrElse,
     Vouched, Task, Verification
<1>6. /\ SameGate(Assign(task, p), task)
      /\ Assign(task, p).verification = task.verification
      /\ Assign(task, p).evidenceMissing = task.evidenceMissing
      /\ Assign(task, p).contractSeen = task.contractSeen
  BY <1>3 DEF Assign, OrElse, Patched, SameGate
<1> QED
  BY <1>2, <1>5, <1>6 DEF Vouched, SameGate

LEMMA RecheckIsGated ==
  ASSUME NEW task \in Task, NEW v \in Verdict
  PROVE  /\ SameGate(MarkedWith(task, v), task)
         /\ MarkedWith(task, v).status \in {"pending", "failed", "awaiting_audit", "completed"}
         /\ MarkedWith(task, v).status = "completed" => Vouched(MarkedWith(task, v))
<1> DEFINE marked == [task EXCEPT !.verification = v]
<1>2. CASE v.status = "failed"
  BY <1>2 DEF MarkedWith, RetryStatus, SameGate, Task
<1>3. CASE v.status # "failed" /\ GateHolds(task, OnlyVerification(v))
  BY <1>3 DEF MarkedWith, SameGate, Task
<1>4. CASE v.status # "failed" /\ ~GateHolds(task, OnlyVerification(v))
  <2>1. MarkedWith(task, v) = [marked EXCEPT !.status = "completed"]
    BY <1>4 DEF MarkedWith
  <2>2. v.status = "passed"
    BY <1>4 DEF Verdict
  <2>4. task.domain = "agent" /\ RequiresEvidence(task.contract, task.level) =>
            ~task.evidenceMissing /\ task.contractSeen \in {Unset, task.contract}
    BY <1>4 DEF GateHolds, OnlyVerification, OrElse, RequiresEvidence, Task
  <2> QED
    BY <2>1, <2>2, <2>4 DEF Vouched, SameGate, Task
<1> QED
  BY <1>2, <1>3, <1>4

LEMMA RunIsGated ==
  ASSUME NEW task \in Task, NEW snap \in Snapshot, NEW at \in Time,
         NEW r \in RunResults(snap, at), snap.contract = task.contract,
         CompletedWith(task, r).status = "completed"
  PROVE  Vouched(CompletedWith(task, r))
<1>1. ~GateHolds(task, r)
  BY DEF CompletedWith, Task
<1>2. /\ CompletedWith(task, r).evidenceMissing = FALSE
      /\ CompletedWith(task, r).contractSeen = OrElse(r.contract, task.contractSeen)
      /\ CompletedWith(task, r).verification = OrElse(r.verification, task.verification)
      /\ SameGate(CompletedWith(task, r), task)
  BY <1>1 DEF CompletedWith, Task, SameGate
<1>3. r.contract = task.contract
  BY ResultFields
<1>4. OrElse(r.verification, task.verification) \in Verification
  BY ResultFields DEF OrElse, Task, Verdict, Verification
<1>5. task.domain = "agent" /\ task.verifyCommand # Unset =>
          OrElse(r.verification, task.verification).status = "passed"
  BY <1>1, <1>4 DEF GateHolds, VerificationHolds, Verification
<1> QED
  BY <1>2, <1>3, <1>5 DEF Vouched, SameGate, OrElse, RequiresEvidence

\* A task that exists goes on existing, in the file or deleted, with those fields.
FieldsStay ==
    \A t \in Tasks : tasks[t].status # "absent" =>
        tasks'[t].status # "absent" /\ SameFields(tasks'[t], tasks[t])

\* The step completes only tasks that it vouches for.
GatedStep ==
    \A t \in Tasks :
        tasks[t].status # "completed" /\ tasks'[t].status = "completed" => Vouched(tasks'[t])

LEMMA FieldsOfOne ==
  ASSUME TypeOK, NEW t \in Tasks, NEW new, tasks' = [tasks EXCEPT ![t] = new],
         tasks[t].status # "absent" => new.status # "absent" /\ SameFields(new, tasks[t])
  PROVE  FieldsStay
BY DEF FieldsStay, TypeOK, SameFields

LEMMA GatedStepOfOne ==
  ASSUME TypeOK, NEW t \in Tasks, NEW new, tasks' = [tasks EXCEPT ![t] = new],
         tasks[t].status # "completed" /\ new.status = "completed" => Vouched(new)
  PROVE  GatedStep
BY DEF GatedStep, TypeOK

LEMMA NothingWritten ==
  ASSUME UNCHANGED tasks
  PROVE  FieldsStay /\ GatedStep
BY DEF FieldsStay, GatedStep, SameFields

LEMMA SameGateFields ==
  ASSUME NEW new, NEW old, SameGate(new, old)
  PROVE  SameFields(new, old)
BY DEF SameGate, SameFields

LEMMA UserKeepsFields ==
  ASSUME TypeOK, NEW t \in Tasks, UserStep(t)
  PROVE  FieldsStay
<1>0. tasks[t] \in Task
  BY DEF TypeOK
<1>1. CASE \E template \in Templates[t] : AddTask(t, template)
  BY <1>1, FieldsOfOne DEF AddTask
<1>2. ASSUME NEW p \in Patch, p \in Patches \/ p = StatusPatch("awaiting_audit")
      PROVE  LET new == GatedUpdate(tasks[t], p)
             IN  new \in Task /\ (tasks[t].status # "absent" =>
                                    new.status # "absent" /\ SameFields(new, tasks[t]))
  <2>1. /\ ContractsStay => p.contract = Unset
        /\ CommandsStay => p.verifyCommand = Unset /\ p.domain = Unset
    BY <1>2 DEF ContractsStay, CommandsStay, StatusPatch, NoPatch
  <2>2. tasks[t].status # "absent" => GatedUpdate(tasks[t], p).status # "absent"
    BY <1>0, <1>2, MarkAssumption DEF GatedUpdate, Assign, OrElse, Patch, Statuses, Opt
  <2>3. SameFields(GatedUpdate(tasks[t], p), tasks[t])
    BY <1>0, <2>1, UpdateKeepsFields DEF SameFields
  <2> QED
    BY <1>0, <2>2, <2>3, GatedUpdateType
<1>3. CASE \E p \in Patches : UpdateTask(t, p)
  <2>1. PICK p \in Patches : UpdateTask(t, p)
    BY <1>3
  <2> DEFINE new == GatedUpdate(tasks[t], p)
  <2>2. new \in Task /\ (tasks[t].status # "absent" =>
                            new.status # "absent" /\ SameFields(new, tasks[t]))
    BY <1>2, InputAssumption
  <2>3. tasks' = [tasks EXCEPT ![t] = Normalized(new, p)]
    BY <2>1 DEF UpdateTask
  <2> HIDE DEF new
  <2>4. Normalized(new, p) = new \/ (/\ Normalized(new, p).status = "deleted"
                                     /\ SameGate(Normalized(new, p), new))
    BY <2>2 DEF Normalized, Task, SameGate
  <2>5. tasks[t].status # "absent" =>
            Normalized(new, p).status # "absent" /\ SameFields(Normalized(new, p), tasks[t])
    BY <2>2, <2>4 DEF SameGate, SameFields
  <2> QED
    BY <2>3, <2>5, FieldsOfOne
<1>4. CASE DeleteTask(t)
  <2>1. tasks' = [tasks EXCEPT ![t] = [tasks[t] EXCEPT !.status = "deleted"]]
    BY <1>4 DEF DeleteTask, TypeOK
  <2>2. SameGate([tasks[t] EXCEPT !.status = "deleted"], tasks[t])
    BY <1>0 DEF SameGate, Task
  <2>3. [tasks[t] EXCEPT !.status = "deleted"].status = "deleted"
    BY <1>0 DEF Task
  <2> QED
    BY <2>1, <2>2, <2>3, SameGateFields, FieldsOfOne
<1>5. CASE \E verdict \in Verdicts : RecordAuditReview(t, verdict)
  BY <1>5, NothingWritten DEF RecordAuditReview
<1>6. CASE ApplyVerdict(t)
  <2> DEFINE p == StatusPatch("awaiting_audit")
             new == GatedUpdate(tasks[t], p)
  <2>1. p \in Patch
    BY DEF StatusPatch, NoPatch, Patch, Opt, Statuses
  <2>2. tasks[t].status # "absent" => new.status # "absent" /\ SameFields(new, tasks[t])
    BY <1>2, <2>1
  <2>3. tasks' = [tasks EXCEPT ![t] = new] \/ tasks' = tasks
    BY <1>6 DEF ApplyVerdict
  <2> HIDE DEF new
  <2> QED
    BY <2>2, <2>3, FieldsOfOne, NothingWritten
<1> QED
  BY <1>1, <1>3, <1>4, <1>5, <1>6 DEF UserStep

LEMMA UserGatedStep ==
  ASSUME TypeOK, NewTasksOpen, BareCompletions, ContractsStay, NEW t \in Tasks, UserStep(t)
  PROVE  GatedStep
<1>0. tasks[t] \in Task
  BY DEF TypeOK
<1>1. CASE \E template \in Templates[t] : AddTask(t, template)
  BY <1>1, GatedStepOfOne DEF AddTask, NewTasksOpen
<1>2. CASE \E p \in Patches : UpdateTask(t, p)
  <2>1. PICK p \in Patches : UpdateTask(t, p)
    BY <1>2
  <2>2. /\ p \in Patch /\ p.contract = Unset
        /\ p.status = "completed" =>
              /\ p.domain = Unset /\ p.verifyCommand = Unset
              /\ p.contractSeen = Unset /\ p.evidenceMissing = Unset /\ p.level = Unset
    BY InputAssumption DEF BareCompletions, ContractsStay
  <2> DEFINE new == GatedUpdate(tasks[t], p)
  <2>3. new \in Task
    BY <1>0, <2>2, GatedUpdateType
  <2>4. tasks[t].status # "completed" /\ new.status = "completed" => Vouched(new)
    BY <1>0, <2>2, UpdateIsGated
  <2>5. tasks' = [tasks EXCEPT ![t] = Normalized(new, p)]
    BY <2>1 DEF UpdateTask
  <2> HIDE DEF new
  <2>6. Normalized(new, p) = new \/ Normalized(new, p).status = "deleted"
    BY <2>3 DEF Normalized, Task
  <2> QED
    BY <2>4, <2>5, <2>6, GatedStepOfOne
<1>3. CASE DeleteTask(t)
  <2>1. tasks' = [tasks EXCEPT ![t] = [tasks[t] EXCEPT !.status = "deleted"]]
    BY <1>3 DEF DeleteTask, TypeOK
  <2>2. [tasks[t] EXCEPT !.status = "deleted"].status = "deleted"
    BY <1>0 DEF Task
  <2> QED
    BY <2>1, <2>2, GatedStepOfOne
<1>4. CASE \E verdict \in Verdicts : RecordAuditReview(t, verdict)
  BY <1>4, NothingWritten DEF RecordAuditReview
<1>5. CASE ApplyVerdict(t)
  <2> DEFINE new == GatedUpdate(tasks[t], StatusPatch("awaiting_audit"))
  <2>1. StatusPatch("awaiting_audit").status = "awaiting_audit"
    BY DEF StatusPatch, NoPatch
  <2>2. new.status = "awaiting_audit"
    BY <2>1, MarkAssumption DEF GatedUpdate, Assign, OrElse, Statuses
  <2>3. tasks' = [tasks EXCEPT ![t] = new] \/ tasks' = tasks
    BY <1>5 DEF ApplyVerdict
  <2> HIDE DEF new
  <2> QED
    BY <2>2, <2>3, GatedStepOfOne, NothingWritten
<1> QED
  BY <1>1, <1>2, <1>3, <1>4, <1>5 DEF UserStep

LEMMA TickGateStep ==
  ASSUME TypeOK, NEW w \in Ticks, TickStep(w) \/ TickDies(w)
  PROVE  FieldsStay /\ (ContractKept => GatedStep)
<1>0. ticks[w] \in Tick /\ now \in Time
  BY DEF TypeOK
<1> DEFINE Written(t, new) ==
       /\ tasks' = [tasks EXCEPT ![t] = new]
       /\ SameGate(new, tasks[t]) /\ new.status # "absent"
<1>1. ASSUME NEW t \in Tasks, NEW new, Written(t, new),
             ContractKept /\ new.status = "completed" => Vouched(new)
      PROVE  FieldsStay /\ (ContractKept => GatedStep)
  BY <1>1, SameGateFields, FieldsOfOne, GatedStepOfOne
<1>2. CASE StartTick(w)
  BY <1>2, ReclaimedType DEF StartTick, FieldsStay, GatedStep, SameFields, TypeOK
<1>3. CASE \E c \in ticks[w].todo, verdict \in {"passed", "failed"} : Recheck(w, c, verdict)
  <2>1. PICK c \in ticks[w].todo, verdict \in {"passed", "failed"} : Recheck(w, c, verdict)
    BY <1>3
  <2> DEFINE v == [status |-> verdict, checkedAt |-> now, command |-> c.command]
             new == MarkedWith(tasks[c.id], v)
  <2>2. c.id \in Tasks /\ v \in Verdict
    BY <1>0 DEF Tick, Check, Verdict, Opt
  <2>3. tasks' = [tasks EXCEPT ![c.id] = new] \/ tasks' = tasks
    BY <2>1 DEF Recheck
  <2>4. /\ SameGate(new, tasks[c.id]) /\ new.status # "absent"
        /\ new.status = "completed" => Vouched(new)
    <3> HIDE DEF v
    <3> QED
      BY <2>2, RecheckIsGated DEF TypeOK
  <2> HIDE DEF new
  <2> QED
    BY <1>1, <2>2, <2>3, <2>4, NothingWritten
<1>4. CASE \E t \in Tasks : Claim(w, t)
  <2>1. PICK t \in Tasks : Claim(w, t)
    BY <1>4
  <2> DEFINE new == Claimed(tasks[t], ticks[w].at)
  <2>2. tasks' = [tasks EXCEPT ![t] = new]
    BY <2>1 DEF Claim
  <2>3. SameGate(new, tasks[t]) /\ new.status = "running"
    BY DEF Claimed, SameGate, TypeOK, Task
  <2> HIDE DEF new
  <2> QED
    BY <1>1, <2>2, <2>3
<1>5. CASE \E t \in Tasks : FinishRun(w, t)
  <2>1. PICK t \in Tasks : FinishRun(w, t)
    BY <1>5
  <2>2. tasks[t] \in Task /\ ticks[w].snapshot \in Snapshot
    BY <1>0 DEF TypeOK, Tick
  <2>3. ASSUME NEW r \in RunResults(ticks[w].snapshot, now), CompleteTask(w, t, r)
        PROVE  FieldsStay /\ (ContractKept => GatedStep)
    <3> DEFINE new == CompletedWith(tasks[t], r)
    <3>1. tasks' = [tasks EXCEPT ![t] = new]
      BY <2>3 DEF CompleteTask
    <3>2. SameGate(new, tasks[t]) /\ new.status # "absent"
      BY <2>2 DEF CompletedWith, SameGate, Task
    <3>3. ContractKept => ticks[w].snapshot.contract = tasks[t].contract
      BY <2>3 DEF CompleteTask, ContractKept
    <3>4. ContractKept /\ new.status = "completed" => Vouched(new)
      BY <1>0, <2>2, <3>3, RunIsGated
    <3> HIDE DEF new
    <3> QED
      BY <1>1, <3>1, <3>2, <3>4
  <2>4. ASSUME NEW r \in RunResults(ticks[w].snapshot, now), FailTask(w, t, r)
        PROVE  FieldsStay /\ (ContractKept => GatedStep)
    <3> DEFINE new == FailedWith(tasks[t], r)
    <3>1. tasks' = [tasks EXCEPT ![t] = new]
      BY <2>4 DEF FailTask
    <3>2. SameGate(new, tasks[t]) /\ new.status \in {"pending", "failed"}
      BY <2>2 DEF FailedWith, RetryStatus, SameGate, Task
    <3> HIDE DEF new
    <3> QED
      BY <1>1, <3>1, <3>2
  <2>5. CASE ResultOfDeletedTask(w, t)
    BY <2>5, NothingWritten DEF ResultOfDeletedTask
  <2> QED
    BY <2>1, <2>3, <2>4, <2>5 DEF FinishRun
<1>6. CASE ListCompleted(w) \/ NothingToClaim(w) \/ AppendAuditReview(w) \/ TickDies(w)
  BY <1>6, NothingWritten DEF ListCompleted, NothingToClaim, AppendAuditReview, TickDies
<1> QED
  BY <1>2, <1>3, <1>4, <1>5, <1>6 DEF TickStep

LEMMA OtherTicksStay ==
  ASSUME TypeOK, NEW w \in Ticks, TickStep(w) \/ TickDies(w)
  PROVE  \A x \in Ticks \ {w} : ticks'[x] = ticks[x]
<1> USE DEF TypeOK
<1>1. CASE \E t \in Tasks : FinishRun(w, t)
  BY <1>1 DEF FinishRun, CompleteTask, FailTask, ResultOfDeletedTask
<1>2. CASE \E c \in ticks[w].todo, verdict \in {"passed", "failed"} : Recheck(w, c, verdict)
  BY <1>2 DEF Recheck
<1>3. CASE \/ StartTick(w) \/ ListCompleted(w) \/ (\E t \in Tasks : Claim(w, t))
           \/ NothingToClaim(w) \/ AppendAuditReview(w) \/ TickDies(w)
  BY <1>3 DEF StartTick, ListCompleted, Claim, NothingToClaim, AppendAuditReview, TickDies
<1> QED
  BY <1>1, <1>2, <1>3 DEF TickStep

\* The runs that are on after a step were on before it, with the same snapshot.
RunsKept ==
    \A x \in Ticks, u \in Tasks :
        (Executing(x, u))' => Executing(x, u) /\ ticks'[x].snapshot = ticks[x].snapshot

LEMMA TickKeepsRuns ==
  ASSUME TypeOK, NEW w \in Ticks, TickStep(w) \/ TickDies(w), ~ \E t \in Tasks : Claim(w, t)
  PROVE  RunsKept
<1>1. ASSUME NEW k, ticks' = [ticks EXCEPT ![w] = k], k.phase # "exec"
      PROVE  RunsKept
  BY <1>1 DEF RunsKept, Executing, TypeOK
<1>2. IdleTick.phase # "exec" /\ ticks[w] \in Tick
  BY IdleTickType DEF TypeOK
<1>3. CASE StartTick(w)
  <2>1. [IdleTick EXCEPT !.phase = "list", !.at = now].phase = "list"
    BY DEF IdleTick
  <2> QED
    BY <1>1, <1>3, <2>1 DEF StartTick
<1>4. CASE ListCompleted(w)
  BY <1>2, <1>4 DEF ListCompleted, RunsKept, Executing, TypeOK, Tick
<1>5. CASE \E c \in ticks[w].todo, verdict \in {"passed", "failed"} : Recheck(w, c, verdict)
  <2>1. PICK c \in ticks[w].todo, verdict \in {"passed", "failed"} : Recheck(w, c, verdict)
    BY <1>5
  <2>2. ticks[w].phase = "recheck"
    BY <2>1 DEF Recheck
  <2>3. \/ ticks' = [ticks EXCEPT ![w] = IdleTick]
        \/ ticks' = [ticks EXCEPT ![w].todo = @ \ {c}]
    BY <2>1 DEF Recheck
  <2>4. CASE ticks' = [ticks EXCEPT ![w].todo = @ \ {c}]
    BY <1>2, <2>2, <2>4 DEF RunsKept, Executing, TypeOK, Tick
  <2> QED
    BY <1>1, <1>2, <2>3, <2>4
<1>6. CASE \E t \in Tasks : FinishRun(w, t)
  <2>1. \A t \in Tasks, held \in BOOLEAN : AuditIfHeld(t, held).phase # "exec"
    BY DEF AuditIfHeld, IdleTick
  <2>2. PICK t \in Tasks : FinishRun(w, t)
    BY <1>6
  <2>3. ASSUME NEW r \in RunResults(ticks[w].snapshot, now), CompleteTask(w, t, r)
        PROVE  RunsKept
    <3>1. GateHolds(tasks[t], r) \in BOOLEAN
      BY DEF GateHolds
    <3> QED
      BY <1>1, <2>1, <2>3, <3>1 DEF CompleteTask
  <2> QED
    BY <1>1, <1>2, <2>2, <2>3 DEF FinishRun, FailTask, ResultOfDeletedTask
<1>7. CASE NothingToClaim(w) \/ AppendAuditReview(w) \/ TickDies(w)
  BY <1>1, <1>2, <1>7 DEF NothingToClaim, AppendAuditReview, TickDies
<1> QED
  BY <1>3, <1>4, <1>5, <1>6, <1>7 DEF TickStep

\* A run that is on after a step was on before it, or has just been claimed.
LEMMA RunsStep ==
  ASSUME TypeOK, [Next]_vars
  PROVE  \/ RunsKept
         \/ \E w \in Ticks, t \in Tasks : Claim(w, t)
<1>1. CASE \E t \in Tasks : UserStep(t)
  BY <1>1 DEF UserStep, AddTask, UpdateTask, DeleteTask, RecordAuditReview, ApplyVerdict,
     RunsKept, Executing
<1>2. CASE AdvanceTime \/ UNCHANGED vars
  BY <1>2 DEF AdvanceTime, vars, RunsKept, Executing
<1> QED
  BY <1>1, <1>2, TickKeepsRuns DEF Next

\* What a claim leaves behind: the task as it was, in the tick's snapshot.
LEMMA ClaimTakesSnapshot ==
  ASSUME TypeOK, NEW w \in Ticks, NEW t \in Tasks, Claim(w, t)
  PROVE  /\ ticks'[w].task = t /\ tasks[t].status # "absent"
         /\ ticks'[w].snapshot.verifyCommand = tasks[t].verifyCommand
         /\ ticks'[w].snapshot.contract = tasks[t].contract
         /\ \A x \in Ticks : x # w => ticks'[x] = ticks[x]
<1>1. tasks[t].status # "absent"
  BY DEF Claim, IsFirst, Schedulable, Ready
<1> QED
  BY <1>1 DEF Claim, TypeOK, Tick

LEMMA NextKeepsFields ==
  ASSUME TypeOK, [Next]_vars
  PROVE  FieldsStay
<1>1. CASE AdvanceTime \/ UNCHANGED vars
  BY <1>1, NothingWritten DEF AdvanceTime, vars
<1> QED
  BY <1>1, UserKeepsFields, TickGateStep DEF Next

LEMMA GateStep ==
  ASSUME TypeOK, ContractKept, NewTasksOpen, BareCompletions, ContractsStay, [Next]_vars
  PROVE  GatedStep
<1>1. CASE AdvanceTime \/ UNCHANGED vars
  BY <1>1, NothingWritten DEF AdvanceTime, vars
<1> QED
  BY <1>1, UserGatedStep, TickGateStep DEF Next

\* What a run completes has the evidence its contract asks for.
RunsLeaveEvidence ==
    \A t \in Tasks :
        Completes(t) /\ EndsRun(t) /\ NeedsEvidence(tasks'[t]) =>
            tasks'[t].contractSeen = tasks'[t].contract

LEMMA EvidenceStep ==
  ASSUME TypeOK, ContractKept, [Next]_vars
  PROVE  RunsLeaveEvidence
<1> SUFFICES ASSUME NEW t \in Tasks, Completes(t), NeedsEvidence(tasks'[t]),
                    NEW w \in Ticks, Executing(w, t), ~Executing(w, t)'
             PROVE  tasks'[t].contractSeen = tasks'[t].contract
  BY DEF RunsLeaveEvidence, EndsRun
<1>1. /\ tasks[t] \in Task /\ ticks[w].snapshot \in Snapshot /\ now \in Time
      /\ ticks[w].snapshot.contract = tasks[t].contract
  BY DEF TypeOK, Tick, ContractKept
<1>2. TickStep(w) \/ TickDies(w)
  <2>1. CASE (\E u \in Tasks : UserStep(u)) \/ AdvanceTime \/ UNCHANGED vars
    BY <2>1 DEF UserStep, AddTask, UpdateTask, DeleteTask, RecordAuditReview, ApplyVerdict,
       AdvanceTime, vars, Executing
  <2> QED
    BY <2>1, OtherTicksStay DEF Next, Executing
<1>3. \E u \in Tasks : FinishRun(w, u)
  <2>1. ticks[w].phase = "exec" /\ tasks' # tasks
    BY DEF Executing, Completes
  <2> QED
    BY <1>2, <2>1 DEF TickStep, StartTick, ListCompleted, Recheck, Claim, NothingToClaim,
       AppendAuditReview, TickDies
<1>4. PICK u \in Tasks : FinishRun(w, u)
  BY <1>3
<1>5. PICK r \in RunResults(ticks[w].snapshot, now) :
         CompleteTask(w, u, r) \/ FailTask(w, u, r)
  BY <1>4 DEF FinishRun, ResultOfDeletedTask, Completes
<1>6. u = t
  BY <1>5 DEF CompleteTask, FailTask, Executing
<1>7. CASE CompleteTask(w, t, r)
  <2>1. tasks'[t] = CompletedWith(tasks[t], r)
    BY <1>7 DEF CompleteTask, TypeOK
  <2>2. r.contract = tasks[t].contract
    BY <1>1, ResultFields
  <2>3. /\ CompletedWith(tasks[t], r).contractSeen = OrElse(r.contract, tasks[t].contractSeen)
        /\ CompletedWith(tasks[t], r).contract = tasks[t].contract
    BY <1>1 DEF CompletedWith, Task
  <2>4. tasks'[t].contract # Unset
    BY DEF NeedsEvidence, RequiresEvidence
  <2> QED
    BY <2>1, <2>2, <2>3, <2>4 DEF OrElse
<1>8. CASE FailTask(w, t, r)
  <2>1. tasks'[t] = FailedWith(tasks[t], r)
    BY <1>8 DEF FailTask, TypeOK
  <2>2. FailedWith(tasks[t], r).status \in {"pending", "failed"}
    BY <1>1 DEF FailedWith, RetryStatus, Task
  <2> QED
    BY <2>1, <2>2 DEF Completes
<1> QED
  BY <1>5, <1>6, <1>7, <1>8

LEMMA CompletionStep ==
  ASSUME GatedStep, RunsLeaveEvidence
  PROVE  \A t \in Tasks : Completes(t) =>
          /\ tasks'[t].verifyCommand # Unset => tasks'[t].verification.status = "passed"
          /\ NeedsEvidence(tasks'[t]) =>
                /\ ~tasks'[t].evidenceMissing
                /\ tasks'[t].contractSeen \in {Unset, tasks'[t].contract}
                /\ EndsRun(t) => HasEvidence(tasks'[t])
BY DEF GatedStep, RunsLeaveEvidence, Completes, Vouched, NeedsEvidence, HasEvidence

LEMMA ContractStep ==
  ASSUME TypeOK, ContractKept, ContractsStay, [Next]_vars
  PROVE  ContractKept'
<1>1. FieldsStay
  BY NextKeepsFields
<1>2. CASE RunsKept
  BY <1>1, <1>2 DEF RunsKept, FieldsStay, SameFields, ContractKept
<1>3. ASSUME NEW w \in Ticks, NEW t \in Tasks, Claim(w, t)
      PROVE  ContractKept'
  BY <1>1, <1>3, ClaimTakesSnapshot DEF FieldsStay, SameFields, ContractKept, Executing
<1> QED
  BY <1>2, <1>3, RunsStep

LEMMA CommandStep ==
  ASSUME TypeOK, CommandKept, CommandsStay, [Next]_vars
  PROVE  CommandKept'
<1>1. FieldsStay
  BY NextKeepsFields
<1>2. CASE RunsKept
  BY <1>1, <1>2 DEF RunsKept, FieldsStay, SameFields, CommandKept
<1>3. ASSUME NEW w \in Ticks, NEW t \in Tasks, Claim(w, t)
      PROVE  CommandKept'
  BY <1>1, <1>3, ClaimTakesSnapshot DEF FieldsStay, SameFields, CommandKept, Executing
<1> QED
  BY <1>2, <1>3, RunsStep

\* A run, a recheck or a user's patch completes a task only past the gate: verified when
\* it declares a verify command, without evidence known to be missing, and, where a run
\* completes it, with evidence for the contract it declares.
THEOREM CompletionsAreGated ==
  ASSUME NewTasksOpen, BareCompletions, ContractsStay
  PROVE  Spec => CompletionIsGated
<1>1. Init => ContractKept
  BY DEF Init, ContractKept, Executing, IdleTick
<1>2. TypeOK /\ ContractKept /\ [Next]_vars => ContractKept'
  BY ContractStep
<1>3. TypeOK /\ ContractKept /\ [Next]_vars =>
        [\A t \in Tasks : Completes(t) =>
          /\ tasks'[t].verifyCommand # Unset => tasks'[t].verification.status = "passed"
          /\ NeedsEvidence(tasks'[t]) =>
                /\ ~tasks'[t].evidenceMissing
                /\ tasks'[t].contractSeen \in {Unset, tasks'[t].contract}
                /\ EndsRun(t) => HasEvidence(tasks'[t])]_vars
  BY GateStep, EvidenceStep, CompletionStep
<1> QED
  BY <1>1, <1>2, <1>3, TypeCorrect, PTL DEF Spec, CompletionIsGated

-----------------------------------------------------------------------------
(* What a completed task was verified with                                 *)

\* New tasks come without a verification.
NewTasksUnverified ==
    \A t \in Tasks : \A task \in Templates[t] : task.verification.status = Unset

\* A verification that passed is one by the task's own command, and a completed task has it.
Verified(task) ==
    /\ task.verification.status = "passed" => task.verification.command = task.verifyCommand
    /\ task.status = "completed" /\ task.domain = "agent" /\ task.verifyCommand # Unset =>
          task.verification.status = "passed"

AllVerified == \A t \in Tasks : Verified(tasks[t])

\* A recheck runs the command that its task still has.
ChecksFaithful ==
    \A w \in Ticks : \A c \in ticks[w].todo :
        tasks[c.id].status # "absent" /\ c.command = tasks[c.id].verifyCommand

LEMMA UpdateVerified ==
  ASSUME NEW task \in Task, NEW p \in Patch, Verified(task),
         p.domain = Unset /\ p.verifyCommand = Unset
  PROVE  Verified(GatedUpdate(task, p))
<1> DEFINE held == [task EXCEPT !.evidenceMissing = TRUE,
                                !.contractSeen = OrElse(task.contract, @)]
           q == [p EXCEPT !.status = "awaiting_audit"]
<1>1. CASE p.status = "completed" /\ GateHolds(task, OnlyVerification(task.verification))
  <2>1. /\ Assign(held, q).status = "awaiting_audit"
        /\ Assign(held, q).verification = task.verification
        /\ Assign(held, q).verifyCommand = task.verifyCommand
    BY <1>1, MarkAssumption DEF Assign, OrElse, Patched, Patch, Statuses, Task
  <2> QED
    BY <1>1, <2>1 DEF GatedUpdate, Verified
<1>2. CASE ~(p.status = "completed" /\ GateHolds(task, OnlyVerification(task.verification)))
  <2>1. GatedUpdate(task, p) = Assign(task, p)
    BY <1>2 DEF GatedUpdate
  <2>2. /\ Assign(task, p).verification = task.verification
        /\ Assign(task, p).verifyCommand = task.verifyCommand
        /\ Assign(task, p).domain = task.domain
        /\ Assign(task, p).status \in {p.status, task.status}
    BY DEF Assign, OrElse, Patched
  <2>3. p.status = "completed" /\ task.domain = "agent" /\ task.verifyCommand # Unset =>
            task.verification.status = "passed"
    BY <1>2 DEF GateHolds, OnlyVerification, VerificationHolds, OrElse, Task, Verification
  <2> QED
    BY <2>1, <2>2, <2>3 DEF Verified
<1> QED
  BY <1>1, <1>2

LEMMA RecheckVerified ==
  ASSUME NEW task \in Task, NEW v \in Verdict, v.command = task.verifyCommand
  PROVE  Verified(MarkedWith(task, v))
<1>1. MarkedWith(task, v).verification = v
  BY DEF MarkedWith, Task
<1>2. SameGate(MarkedWith(task, v), task)
  BY RecheckIsGated
<1>3. MarkedWith(task, v).status = "completed" => v.status = "passed"
  BY DEF MarkedWith, RetryStatus, Verdict, Task
<1> QED
  BY <1>1, <1>2, <1>3 DEF Verified, SameGate

LEMMA RunVerified ==
  ASSUME NEW task \in Task, NEW snap \in Snapshot, NEW at \in Time,
         NEW r \in RunResults(snap, at), PossibleResult(r, snap),
         snap.verifyCommand = task.verifyCommand, Verified(task)
  PROVE  /\ r.success => Verified(CompletedWith(task, r))
         /\ Verified(FailedWith(task, r))
<1>1. r.verification # Unset =>
          r.verification.command = task.verifyCommand /\ r.verification.status \in {"passed", "failed"}
  BY DEF RunResults
<1>2. /\ CompletedWith(task, r).verification = OrElse(r.verification, task.verification)
      /\ CompletedWith(task, r).verifyCommand = task.verifyCommand
      /\ FailedWith(task, r).verification = OrElse(r.verification, task.verification)
      /\ FailedWith(task, r).verifyCommand = task.verifyCommand
      /\ FailedWith(task, r).status \in {"pending", "failed"}
  BY DEF CompletedWith, FailedWith, RetryStatus, Task
<1>3. r.success /\ task.verifyCommand # Unset =>
          r.verification # Unset /\ r.verification.status = "passed"
  BY DEF PossibleResult
<1> QED
  BY <1>1, <1>2, <1>3 DEF Verified, OrElse

LEMMA VerifiedOfOne ==
  ASSUME TypeOK, AllVerified, NEW t \in Tasks, NEW new, tasks' = [tasks EXCEPT ![t] = new],
         Verified(new)
  PROVE  AllVerified'
BY DEF AllVerified, TypeOK, Verified

LEMMA UserStepVerified ==
  ASSUME TypeOK, NewTasksOpen, CommandsStay, NewTasksUnverified, AllVerified, NEW t \in Tasks, UserStep(t)
  PROVE  AllVerified'
<1>0. tasks[t] \in Task /\ Verified(tasks[t])
  BY DEF TypeOK, AllVerified
<1>1. CASE \E template \in Templates[t] : AddTask(t, template)
  <2>1. PICK template \in Templates[t] : AddTask(t, template)
    BY <1>1
  <2>2. Verified(template)
    BY MarkAssumption DEF NewTasksOpen, NewTasksUnverified, Verified
  <2> QED
    BY <2>1, <2>2, VerifiedOfOne DEF AddTask
<1>2. CASE \E p \in Patches : UpdateTask(t, p)
  <2>1. PICK p \in Patches : UpdateTask(t, p)
    BY <1>2
  <2>2. p \in Patch
    BY InputAssumption
  <2> DEFINE new == GatedUpdate(tasks[t], p)
  <2>3. new \in Task /\ Verified(new)
    BY <1>0, <2>2, GatedUpdateType, UpdateVerified DEF CommandsStay
  <2>4. tasks' = [tasks EXCEPT ![t] = Normalized(new, p)]
    BY <2>1 DEF UpdateTask
  <2> HIDE DEF new
  <2>5. Verified(Normalized(new, p))
    BY <2>3 DEF Normalized, Verified, Task
  <2> QED
    BY <2>4, <2>5, VerifiedOfOne
<1>3. CASE DeleteTask(t)
  <2>1. tasks' = [tasks EXCEPT ![t] = [tasks[t] EXCEPT !.status = "deleted"]]
    BY <1>3 DEF DeleteTask, TypeOK
  <2>2. Verified([tasks[t] EXCEPT !.status = "deleted"])
    BY <1>0 DEF Verified, Task
  <2> QED
    BY <2>1, <2>2, VerifiedOfOne
<1>4. CASE \E verdict \in Verdicts : RecordAuditReview(t, verdict)
  BY <1>4 DEF RecordAuditReview, AllVerified
<1>5. CASE ApplyVerdict(t)
  <2> DEFINE p == StatusPatch("awaiting_audit")
             new == GatedUpdate(tasks[t], p)
  <2>1. p \in Patch /\ p.domain = Unset /\ p.verifyCommand = Unset
    BY DEF StatusPatch, NoPatch, Patch, Opt, Statuses
  <2>2. tasks' = [tasks EXCEPT ![t] = new] \/ tasks' = tasks
    BY <1>5 DEF ApplyVerdict
  <2> HIDE DEF p
  <2>3. Verified(new)
    BY <1>0, <2>1, UpdateVerified
  <2> HIDE DEF new
  <2> QED
    BY <2>2, <2>3, VerifiedOfOne DEF AllVerified
<1> QED
  BY <1>1, <1>2, <1>3, <1>4, <1>5 DEF UserStep

LEMMA TickStepVerified ==
  ASSUME TypeOK, CommandKept, ChecksFaithful, AllVerified,
         NEW w \in Ticks, TickStep(w) \/ TickDies(w)
  PROVE  AllVerified'
<1>0. ticks[w] \in Tick /\ now \in Time
  BY DEF TypeOK
<1>1. CASE StartTick(w)
  BY <1>1, ReclaimedType DEF StartTick, AllVerified, Verified, TypeOK
<1>2. CASE \E c \in ticks[w].todo, verdict \in {"passed", "failed"} : Recheck(w, c, verdict)
  <2>1. PICK c \in ticks[w].todo, verdict \in {"passed", "failed"} : Recheck(w, c, verdict)
    BY <1>2
  <2> DEFINE v == [status |-> verdict, checkedAt |-> now, command |-> c.command]
             new == MarkedWith(tasks[c.id], v)
  <2>2. c.id \in Tasks /\ v \in Verdict
    BY <1>0 DEF Tick, Check, Verdict, Opt
  <2>3. v.command = tasks[c.id].verifyCommand
    BY DEF ChecksFaithful
  <2>4. tasks' = [tasks EXCEPT ![c.id] = new] \/ tasks' = tasks
    BY <2>1 DEF Recheck
  <2> HIDE DEF v
  <2>5. Verified(new)
    BY <2>2, <2>3, RecheckVerified DEF TypeOK
  <2> HIDE DEF new
  <2> QED
    BY <2>2, <2>4, <2>5, VerifiedOfOne DEF AllVerified
<1>3. CASE \E t \in Tasks : Claim(w, t)
  <2>1. PICK t \in Tasks : Claim(w, t)
    BY <1>3
  <2> DEFINE new == Claimed(tasks[t], ticks[w].at)
  <2>2. tasks' = [tasks EXCEPT ![t] = new]
    BY <2>1 DEF Claim
  <2>3. Verified(new)
    BY DEF Claimed, AllVerified, Verified, TypeOK, Task
  <2> HIDE DEF new
  <2> QED
    BY <2>2, <2>3, VerifiedOfOne
<1>4. CASE \E t \in Tasks : FinishRun(w, t)
  <2>1. PICK t \in Tasks : FinishRun(w, t)
    BY <1>4
  <2>2. tasks[t] \in Task /\ ticks[w].snapshot \in Snapshot /\ Verified(tasks[t])
    BY <1>0 DEF TypeOK, Tick, AllVerified
  <2>3. ASSUME NEW r \in RunResults(ticks[w].snapshot, now),
               PossibleResult(r, ticks[w].snapshot),
               CompleteTask(w, t, r) \/ FailTask(w, t, r)
        PROVE  AllVerified'
    <3>1. ticks[w].snapshot.verifyCommand = tasks[t].verifyCommand
      BY <2>3 DEF CompleteTask, FailTask, CommandKept
    <3>2. /\ r.success => Verified(CompletedWith(tasks[t], r))
          /\ Verified(FailedWith(tasks[t], r))
      BY <1>0, <2>2, <2>3, <3>1, RunVerified
    <3>3. \/ r.success /\ tasks' = [tasks EXCEPT ![t] = CompletedWith(tasks[t], r)]
          \/ tasks' = [tasks EXCEPT ![t] = FailedWith(tasks[t], r)]
      BY <2>3 DEF CompleteTask, FailTask
    <3> QED
      BY <3>2, <3>3, VerifiedOfOne
  <2>4. CASE ResultOfDeletedTask(w, t)
    BY <2>4 DEF ResultOfDeletedTask, AllVerified
  <2> QED
    BY <2>1, <2>3, <2>4 DEF FinishRun
<1>5. CASE ListCompleted(w) \/ NothingToClaim(w) \/ AppendAuditReview(w) \/ TickDies(w)
  BY <1>5 DEF ListCompleted, NothingToClaim, AppendAuditReview, TickDies, AllVerified
<1> QED
  BY <1>1, <1>2, <1>3, <1>4, <1>5 DEF TickStep

\* The checks that are still to be made after a step were so before it, unless they have
\* just been listed.
LEMMA ChecksStep ==
  ASSUME TypeOK, FieldsStay, CommandsStay, ChecksFaithful, [Next]_vars
  PROVE  ChecksFaithful'
<1>0. \A w \in Ticks : ticks[w] \in Tick
  BY DEF TypeOK
<1>1. ASSUME \A w \in Ticks : ticks'[w].todo \subseteq ticks[w].todo
      PROVE  ChecksFaithful'
  <2>1. \A w \in Ticks : \A c \in ticks[w].todo : c.id \in Tasks
    BY <1>0 DEF Tick, Check
  <2> QED
    BY <1>1, <2>1 DEF ChecksFaithful, FieldsStay, SameFields
<1>2. ASSUME NEW w \in Ticks, NEW k, ticks' = [ticks EXCEPT ![w] = k],
             k.todo \subseteq ticks[w].todo
      PROVE  ChecksFaithful'
  BY <1>1, <1>2 DEF TypeOK
<1>3. \A w \in Ticks : IdleTick.todo \subseteq ticks[w].todo
  BY DEF IdleTick
<1>4. CASE \E t \in Tasks : UserStep(t)
  BY <1>1, <1>4 DEF UserStep, AddTask, UpdateTask, DeleteTask, RecordAuditReview, ApplyVerdict
<1>5. CASE AdvanceTime \/ UNCHANGED vars
  BY <1>1, <1>5 DEF AdvanceTime, vars
<1>6. ASSUME NEW w \in Ticks, StartTick(w)
      PROVE  ChecksFaithful'
  <2>1. [IdleTick EXCEPT !.phase = "list", !.at = now].todo = {}
    BY DEF IdleTick
  <2> QED
    BY <1>2, <1>6, <2>1 DEF StartTick
<1>7. ASSUME NEW w \in Ticks, ListCompleted(w)
      PROVE  ChecksFaithful'
  <2>1. \A x \in Ticks \ {w} : ticks'[x] = ticks[x]
    BY <1>7 DEF ListCompleted, TypeOK
  <2>2. \A c \in ticks'[w].todo :
            c \in Check /\ c.id \in CompletedIds /\ c.command = tasks[c.id].verifyCommand
    BY <1>0, <1>7 DEF ListCompleted, TypeOK, Tick
  <2>3. tasks' = tasks
    BY <1>7 DEF ListCompleted
  <2> QED
    BY <2>1, <2>2, <2>3 DEF ChecksFaithful, CompletedIds
<1>8. ASSUME NEW w \in Ticks, NEW c \in ticks[w].todo, NEW verdict, Recheck(w, c, verdict)
      PROVE  ChecksFaithful'
  <2>1. \/ ticks' = [ticks EXCEPT ![w] = IdleTick]
        \/ ticks' = [ticks EXCEPT ![w] = [ticks[w] EXCEPT !.todo = ticks[w].todo \ {c}]]
    BY <1>8 DEF Recheck, TypeOK
  <2>2. [ticks[w] EXCEPT !.todo = ticks[w].todo \ {c}].todo \subseteq ticks[w].todo
    BY <1>0 DEF Tick
  <2> QED
    BY <1>2, <1>3, <2>1, <2>2
<1>9. ASSUME NEW w \in Ticks, NEW t \in Tasks, Claim(w, t)
      PROVE  ChecksFaithful'
  <2>1. /\ ticks'[w].todo = ticks[w].todo
        /\ \A x \in Ticks \ {w} : ticks'[x] = ticks[x]
    BY <1>0, <1>9 DEF Claim, TypeOK, Tick
  <2> QED
    BY <1>1, <2>1
<1>10. ASSUME NEW w \in Ticks, NEW t \in Tasks, FinishRun(w, t)
       PROVE  ChecksFaithful'
  <2>1. [IdleTick EXCEPT !.phase = "audit", !.task = t].todo = {}
    BY DEF IdleTick
  <2>2. PICK k \in {IdleTick, [IdleTick EXCEPT !.phase = "audit", !.task = t]} :
            ticks' = [ticks EXCEPT ![w] = k]
    BY <1>10 DEF FinishRun, CompleteTask, FailTask, ResultOfDeletedTask, AuditIfHeld
  <2> QED
    BY <1>2, <1>3, <2>1, <2>2
<1>11. ASSUME NEW w \in Ticks, NothingToClaim(w) \/ AppendAuditReview(w) \/ TickDies(w)
       PROVE  ChecksFaithful'
  BY <1>2, <1>3, <1>11 DEF NothingToClaim, AppendAuditReview, TickDies
<1> QED
  BY <1>4, <1>5, <1>6, <1>7, <1>8, <1>9, <1>10, <1>11 DEF Next, TickStep

\* Whoever completed it, and whatever was patched, requeued, rechecked or cut short since,
\* a completed task has passed its own verify command.
THEOREM CompletedTasksAreVerified ==
  ASSUME NewTasksOpen, CommandsStay, NewTasksUnverified
  PROVE  Spec => []CompletedIsVerified
<1> DEFINE IInv == CommandKept /\ ChecksFaithful /\ AllVerified
<1>1. Init => IInv
  <2>1. Init => CommandKept /\ ChecksFaithful
    BY DEF Init, CommandKept, ChecksFaithful, Executing, IdleTick
  <2>2. Init => AllVerified
    BY MarkAssumption DEF Init, BlankTask, NoVerification, AllVerified, Verified
  <2> QED
    BY <2>1, <2>2
<1>2. TypeOK /\ IInv /\ [Next]_vars => IInv'
  <2> SUFFICES ASSUME TypeOK, IInv, [Next]_vars PROVE IInv'
    OBVIOUS
  <2>1. FieldsStay /\ CommandKept'
    BY NextKeepsFields, CommandStep
  <2>2. ChecksFaithful'
    BY <2>1, ChecksStep
  <2>3. CASE AdvanceTime \/ UNCHANGED vars
    BY <2>1, <2>2, <2>3 DEF AdvanceTime, vars, AllVerified
  <2> QED
    BY <2>1, <2>2, <2>3, UserStepVerified, TickStepVerified DEF Next
<1>3. IInv => CompletedIsVerified
  BY DEF AllVerified, Verified, CompletedIsVerified, CompletedIds
<1> QED
  BY <1>1, <1>2, <1>3, TypeCorrect, PTL DEF Spec
=============================================================================
