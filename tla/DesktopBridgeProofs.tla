------------------------- MODULE DesktopBridgeProofs -------------------------
(***************************************************************************)
(* Proofs about DesktopBridge: what the ledger keeps although the desktop  *)
(* app writes copies over it that may be old, for any tasks, ticks,        *)
(* patches and edits.                                                      *)
(***************************************************************************)
EXTENDS DesktopBridge, AxiTodoLedgerProofs

-----------------------------------------------------------------------------
(* Types                                                                   *)

\* The ledger is well formed, and a copy is a task.
DesktopTypeOK ==
    /\ TypeOK
    /\ copies \in [Tasks -> Task \cup {Unset}]
    /\ dirty \subseteq Tasks

LEMMA SwiftViewType ==
  ASSUME NEW task \in Task
  PROVE  SwiftView(task) \in Task
<1>1. (IF task.status = "waiting" THEN "pending" ELSE task.status) \in Statuses \cup NotInFile
  BY DEF Task, Statuses
<1>2. Unset \in Opt(Groups) /\ Unset \in Opt(Nat)
  BY DEF Opt
<1> QED
  BY <1>1, <1>2 DEF SwiftView, Task

LEMMA SwiftStatusType ==
  ASSUME NEW task \in Task, NEW status \in Statuses \cup NotInFile
  PROVE  SwiftStatus(task, status) \in Task
<1>1. OrElse(task.contract, task.contractSeen) \in Opt(Contracts)
  BY DEF Task, OrElse, Opt
<1>2. HeldBySwift(task) \in Task
  BY <1>1 DEF HeldBySwift, Task, Statuses
<1>3. [task EXCEPT !.status = status] \in Task
  BY DEF Task
<1> QED
  BY <1>2, <1>3 DEF SwiftStatus

LEMMA SwiftMutateType ==
  ASSUME TypeOK, NEW t \in Tasks, NEW task \in Task, SwiftMutate(t, task)
  PROVE  TypeOK'
<1>1. tasks' \in [Tasks -> Task]
  BY SwiftViewType DEF SwiftMutate, TypeOK
<1> QED
  BY <1>1 DEF SwiftMutate, TypeOK

\* The app has written `task' as t's record, and copied it or dropped its copy.
DesktopWrote(t, task) ==
    /\ SwiftMutate(t, task)
    /\ copies' = [copies EXCEPT ![t] = task] \/ copies' = [copies EXCEPT ![t] = Unset]

\* The record a save makes of the copy.
Saved(t) == SwiftStatus(copies[t], copies[t].status)

\* The calls of the app, by what they write.
LEMMA DesktopStepCases ==
  ASSUME DesktopTypeOK, NEW t \in Tasks, DesktopStep(t)
  PROVE  /\ dirty' \subseteq Tasks
         /\ \/ UNCHANGED <<vars, copies>>
            \/ /\ copies[t] # Unset /\ UNCHANGED vars
               /\ \E edit \in Edits : copies' = [copies EXCEPT ![t] = Assign(copies[t], edit)]
            \/ copies[t] # Unset /\ InFile(t) /\ DesktopWrote(t, Saved(t))
            \/ InFile(t) /\ DesktopWrote(t, SwiftStatus(SwiftView(tasks[t]), "blocked"))
            \/ /\ tasks[t].status = "absent"
               /\ \E template \in Templates[t] :
                     template.status = "pending" /\ DesktopWrote(t, template)
            \/ /\ copies' = [copies EXCEPT ![t] = Unset]
               /\ InFile(t) /\ SwiftMutate(t, [tasks[t] EXCEPT !.status = "deleted"])
<1>1. ASSUME NEW edit \in Edits, Edit(t, edit)
      PROVE  /\ copies[t] # Unset /\ UNCHANGED vars /\ dirty' \subseteq Tasks
             /\ copies' = [copies EXCEPT ![t] = Assign(copies[t], edit)]
  BY <1>1 DEF Edit, DesktopTypeOK
<1>2. CASE Save(t)
  BY <1>2 DEF Save, Saved, DesktopWrote, DesktopTypeOK
<1>3. CASE MarkDoubted(t)
  BY <1>3 DEF MarkDoubted, DesktopWrote, DesktopTypeOK
<1>4. ASSUME NEW template \in Templates[t], Submit(t, template)
      PROVE  /\ tasks[t].status = "absent" /\ template.status = "pending"
             /\ DesktopWrote(t, template) /\ dirty' \subseteq Tasks
  BY <1>4 DEF Submit, DesktopWrote, DesktopTypeOK
<1>5. CASE DesktopDelete(t)
  BY <1>5 DEF DesktopDelete, DesktopTypeOK
<1> QED
  BY <1>1, <1>2, <1>3, <1>4, <1>5 DEF DesktopStep

\* A step that writes `task' in place of t's record, if it is one, keeps the types.
LEMMA WroteType ==
  ASSUME DesktopTypeOK, NEW t \in Tasks, NEW task \in Task, DesktopWrote(t, task),
         dirty' \subseteq Tasks
  PROVE  DesktopTypeOK'
<1>1. TypeOK'
  BY SwiftMutateType DEF DesktopTypeOK, DesktopWrote
<1> QED
  BY <1>1 DEF DesktopTypeOK, DesktopWrote

LEMMA UnchangedType ==
  ASSUME TypeOK, UNCHANGED vars
  PROVE  TypeOK'
BY DEF vars, TypeOK

LEMMA DesktopTypeStep ==
  ASSUME DesktopTypeOK, [DesktopNext]_desktopVars
  PROVE  DesktopTypeOK'
<1> USE DEF DesktopTypeOK
<1>1. CASE Next /\ UNCHANGED <<copies, dirty>>
  BY <1>1, TypeNext
<1>2. CASE Refresh
  <2>1. TypeOK' /\ UNCHANGED dirty
    BY <1>2, UnchangedType DEF Refresh
  <2>2. \A t \in Tasks : SwiftView(tasks[t]) \in Task
    BY SwiftViewType DEF TypeOK
  <2> QED
    BY <1>2, <2>1, <2>2 DEF Refresh
<1>3. ASSUME NEW t \in Tasks, DesktopStep(t)
      PROVE  DesktopTypeOK'
  <2>0. tasks[t] \in Task /\ (copies[t] # Unset => copies[t] \in Task) /\ dirty' \subseteq Tasks
    BY <1>3, DesktopStepCases DEF TypeOK
  <2>1. CASE UNCHANGED <<vars, copies>>
    BY <2>0, <2>1, UnchangedType
  <2>2. ASSUME NEW edit \in Edits, copies[t] # Unset, UNCHANGED vars,
               copies' = [copies EXCEPT ![t] = Assign(copies[t], edit)]
        PROVE  DesktopTypeOK'
    <3>1. Assign(copies[t], edit) \in Task
      BY <2>0, <2>2, AssignType, EditAssumption
    <3> QED
      BY <2>0, <2>2, <3>1, UnchangedType
  <2>3. ASSUME copies[t] # Unset, DesktopWrote(t, Saved(t))
        PROVE  DesktopTypeOK'
    <3>1. copies[t].status \in Statuses \cup NotInFile
      BY <2>0, <2>3 DEF Task
    <3>2. Saved(t) \in Task
      BY <2>0, <2>3, <3>1, SwiftStatusType DEF Saved
    <3> QED
      BY <2>0, <2>3, <3>2, WroteType
  <2>4. ASSUME DesktopWrote(t, SwiftStatus(SwiftView(tasks[t]), "blocked"))
        PROVE  DesktopTypeOK'
    <3>1. SwiftStatus(SwiftView(tasks[t]), "blocked") \in Task
      BY <2>0, SwiftViewType, SwiftStatusType DEF Statuses
    <3> QED
      BY <2>0, <2>4, <3>1, WroteType
  <2>5. ASSUME NEW template \in Templates[t], DesktopWrote(t, template)
        PROVE  DesktopTypeOK'
    BY <2>0, <2>5, InputAssumption, WroteType
  <2>6. ASSUME copies' = [copies EXCEPT ![t] = Unset],
               SwiftMutate(t, [tasks[t] EXCEPT !.status = "deleted"])
        PROVE  DesktopTypeOK'
    <3>1. [tasks[t] EXCEPT !.status = "deleted"] \in Task
      BY <2>0 DEF Task, NotInFile
    <3> QED
      BY <2>0, <2>6, <3>1, SwiftMutateType
  <2> QED
    BY <1>3, <2>1, <2>2, <2>3, <2>4, <2>5, <2>6, DesktopStepCases
<1>4. CASE UNCHANGED desktopVars
  BY <1>4, UnchangedType DEF desktopVars
<1> QED
  BY <1>1, <1>2, <1>3, <1>4 DEF DesktopNext

\* Whatever the app saves, doubts, submits or deletes between the steps of the ticks, the
\* ledger stays well formed, and so do the copies the web view will save next.
THEOREM DesktopTypeCorrect == DesktopSpec => []DesktopTypeOK
<1>1. DesktopInit => DesktopTypeOK
  BY TypeInit DEF DesktopInit, DesktopTypeOK
<1> QED
  BY <1>1, DesktopTypeStep, PTL DEF DesktopSpec

-----------------------------------------------------------------------------
(* A run keeps its start                                                   *)

\* Nor does the editor set a task running.
EditsStartNothing == \A edit \in Edits : edit.status # "running"

\* Running, and not without the start of a run.
Stamped(task) ==
    task.status = "running" => task.startedAt # Unset /\ task.attempts > 0

CopiesStamped == \A t \in Tasks : copies[t] # Unset => Stamped(copies[t])

LEMMA StampedRecords == RunningWasClaimed <=> \A t \in Tasks : Stamped(tasks[t])
BY DEF RunningWasClaimed, RunningIds, Stamped

LEMMA SwiftViewStamped ==
  ASSUME NEW task \in Task, Stamped(task)
  PROVE  Stamped(SwiftView(task))
BY DEF Stamped, SwiftView, Task

LEMMA SwiftStatusStamped ==
  ASSUME NEW task \in Task, NEW status, status = "running" => Stamped(task) /\ task.status = "running"
  PROVE  Stamped(SwiftStatus(task, status))
<1>1. HeldBySwift(task).status = "awaiting_audit"
  BY DEF HeldBySwift, Task
<1> QED
  BY <1>1 DEF SwiftStatus, Stamped, Task

LEMMA WroteStamped ==
  ASSUME DesktopTypeOK, RunningWasClaimed, CopiesStamped, NEW t \in Tasks,
         NEW task \in Task, Stamped(task), DesktopWrote(t, task)
  PROVE  RunningWasClaimed' /\ CopiesStamped'
<1>1. \A u \in Tasks : Stamped(tasks'[u])
  BY SwiftViewStamped, StampedRecords DEF DesktopWrote, SwiftMutate, DesktopTypeOK, TypeOK
<1>2. RunningWasClaimed'
  BY <1>1 DEF RunningWasClaimed, RunningIds, Stamped
<1>3. \A u \in Tasks : copies'[u] \in {task, Unset, copies[u]}
  BY DEF DesktopWrote, DesktopTypeOK
<1> QED
  BY <1>2, <1>3 DEF CopiesStamped

LEMMA StampedStep ==
  ASSUME DesktopTypeOK, RunningWasClaimed, CopiesStamped, OnlyClaimsStart, EditsStartNothing,
         [DesktopNext]_desktopVars
  PROVE  RunningWasClaimed' /\ CopiesStamped'
<1>0. TypeOK /\ \A t \in Tasks : tasks[t] \in Task /\ Stamped(tasks[t])
  BY StampedRecords DEF DesktopTypeOK, TypeOK
<1>1. ASSUME UNCHANGED vars
      PROVE  RunningWasClaimed'
  BY <1>1 DEF vars, RunningWasClaimed, RunningIds
<1>2. CASE Next /\ UNCHANGED <<copies, dirty>>
  BY <1>0, <1>2, ClaimedStep DEF CopiesStamped
<1>3. CASE Refresh
  <2>1. \A t \in Tasks : Stamped(SwiftView(tasks[t]))
    BY <1>0, SwiftViewStamped
  <2> QED
    BY <1>1, <1>3, <2>1 DEF Refresh, CopiesStamped
<1>4. ASSUME NEW t \in Tasks, DesktopStep(t)
      PROVE  RunningWasClaimed' /\ CopiesStamped'
  <2>0. copies[t] # Unset => copies[t] \in Task /\ Stamped(copies[t])
    BY DEF DesktopTypeOK, CopiesStamped
  <2>1. CASE UNCHANGED <<vars, copies>>
    BY <1>1, <2>1 DEF CopiesStamped
  <2>2. ASSUME NEW edit \in Edits, copies[t] # Unset, UNCHANGED vars,
               copies' = [copies EXCEPT ![t] = Assign(copies[t], edit)]
        PROVE  RunningWasClaimed' /\ CopiesStamped'
    <3>1. Stamped(Assign(copies[t], edit))
      BY <2>0, <2>2 DEF Assign, OrElse, Stamped, EditsStartNothing
    <3> QED
      BY <1>1, <2>2, <3>1 DEF CopiesStamped, DesktopTypeOK
  <2>3. ASSUME copies[t] # Unset, DesktopWrote(t, Saved(t))
        PROVE  RunningWasClaimed' /\ CopiesStamped'
    <3>1. Stamped(Saved(t))
      BY <2>0, <2>3, SwiftStatusStamped DEF Saved
    <3>2. Saved(t) \in Task
      BY <2>0, <2>3, SwiftStatusType DEF Saved, Task
    <3> QED
      BY <2>3, <3>1, <3>2, WroteStamped
  <2>4. ASSUME DesktopWrote(t, SwiftStatus(SwiftView(tasks[t]), "blocked"))
        PROVE  RunningWasClaimed' /\ CopiesStamped'
    <3>1. SwiftView(tasks[t]) \in Task /\ "blocked" \in Statuses
      BY <1>0, SwiftViewType DEF Statuses
    <3> QED
      BY <2>4, <3>1, SwiftStatusType, SwiftStatusStamped, WroteStamped
  <2>5. ASSUME NEW template \in Templates[t], template.status = "pending",
               DesktopWrote(t, template)
        PROVE  RunningWasClaimed' /\ CopiesStamped'
    BY <2>5, InputAssumption, WroteStamped DEF Stamped
  <2>6. ASSUME copies' = [copies EXCEPT ![t] = Unset],
               SwiftMutate(t, [tasks[t] EXCEPT !.status = "deleted"])
        PROVE  RunningWasClaimed' /\ CopiesStamped'
    <3>1. /\ [tasks[t] EXCEPT !.status = "deleted"] \in Task
          /\ Stamped([tasks[t] EXCEPT !.status = "deleted"])
      BY <1>0 DEF Task, NotInFile, Stamped
    <3> QED
      BY <2>6, <3>1, WroteStamped DEF DesktopWrote
  <2> QED
    BY <1>4, <2>1, <2>2, <2>3, <2>4, <2>5, <2>6, DesktopStepCases
<1>5. CASE UNCHANGED desktopVars
  BY <1>1, <1>5 DEF desktopVars, CopiesStamped
<1> QED
  BY <1>2, <1>3, <1>4, <1>5 DEF DesktopNext

\* A copy that is saved, however old it is, may put a task back to running, but never to
\* running without a start: the Swift model has the fields of a claim, and a copy that
\* shows the task running was taken after the claim.
THEOREM SavedRunsWereClaimed ==
  ASSUME OnlyClaimsStart, EditsStartNothing
  PROVE  DesktopSpec => []RunningWasClaimed
<1>1. DesktopInit => RunningWasClaimed /\ CopiesStamped
  BY DEF DesktopInit, Init, BlankTask, RunningWasClaimed, RunningIds, CopiesStamped
<1> QED
  BY <1>1, StampedStep, DesktopTypeCorrect, PTL DEF DesktopSpec

-----------------------------------------------------------------------------
(* The app completes nothing past the gate                                 *)

\* Nor does the editor change the contract of a task.
EditsKeepContracts == \A edit \in Edits : edit.contract = Unset

\* A copy is one of a task that was created, and declares the contract the task declares.
CopiesKept ==
    \A t \in Tasks : copies[t] # Unset =>
        /\ copies[t].status # "absent" /\ tasks[t].status # "absent"
        /\ copies[t].contract = tasks[t].contract

\* No record loses the contract it was created with.
RecordsKept ==
    \A t \in Tasks : tasks[t].status # "absent" =>
        tasks'[t].status # "absent" /\ tasks'[t].contract = tasks[t].contract

LEMMA SwiftViewKeeps ==
  ASSUME NEW task \in Task
  PROVE  LET view == SwiftView(task) IN
         /\ view.contract = task.contract
         /\ view.status = "absent" <=> task.status = "absent"
         /\ view.status = "completed" <=> task.status = "completed"
BY DEF SwiftView, Task

\* Whatever status the Swift store is asked to set, its mirror of the gate answers for it.
LEMMA SwiftStatusKeeps ==
  ASSUME NEW task \in Task, NEW status \in Statuses \cup NotInFile, status # "absent"
  PROVE  LET new == SwiftStatus(task, status) IN
         /\ new.contract = task.contract /\ new.status # "absent"
         /\ new.status = "completed" => Vouched(new)
<1>1. HeldBySwift(task).status = "awaiting_audit" /\ HeldBySwift(task).contract = task.contract
  BY DEF HeldBySwift, Task
<1> DEFINE new == [task EXCEPT !.status = status]
<1>2. new.status = status /\ new.contract = task.contract /\ SameGate(new, task)
  BY DEF Task, SameGate
<1>3. ~SwiftGateHolds(task) => Vouched(new)
  BY DEF SwiftGateHolds, Vouched, RequiresEvidence, Task, Verification
<1> HIDE DEF new
<1> QED
  BY <1>1, <1>2, <1>3 DEF SwiftStatus, new

\* A record that is written over t's, with its contract or where t had none, leaves the
\* contracts of all, and completes no other task.
LEMMA WroteKeeps ==
  ASSUME DesktopTypeOK, CopiesKept, NEW t \in Tasks, NEW task \in Task, task.status # "absent",
         tasks[t].status # "absent" => task.contract = tasks[t].contract,
         task.status = "completed" => Vouched(task), DesktopWrote(t, task)
  PROVE  RecordsKept /\ GatedStep /\ CopiesKept'
<1>1. \A u \in Tasks \ {t} :
         /\ tasks'[u].contract = tasks[u].contract
         /\ tasks'[u].status = "absent" <=> tasks[u].status = "absent"
         /\ tasks'[u].status = "completed" <=> tasks[u].status = "completed"
  <2> SUFFICES ASSUME NEW u \in Tasks \ {t}
               PROVE  /\ tasks'[u].contract = tasks[u].contract
                      /\ tasks'[u].status = "absent" <=> tasks[u].status = "absent"
                      /\ tasks'[u].status = "completed" <=> tasks[u].status = "completed"
    OBVIOUS
  <2>1. tasks'[u] = SwiftView(tasks[u]) /\ tasks[u] \in Task
    BY DEF DesktopWrote, SwiftMutate, DesktopTypeOK, TypeOK
  <2> QED
    BY <2>1, SwiftViewKeeps
<1>2. tasks'[t] = task
  BY DEF DesktopWrote, SwiftMutate
<1>3. RecordsKept /\ GatedStep
  BY <1>1, <1>2 DEF RecordsKept, GatedStep
<1>4. copies'[t] \in {task, Unset} /\ \A u \in Tasks \ {t} : copies'[u] = copies[u]
  BY DEF DesktopWrote, DesktopTypeOK
<1> QED
  BY <1>1, <1>2, <1>3, <1>4 DEF CopiesKept

LEMMA DesktopGateStep ==
  ASSUME DesktopTypeOK, ContractKept, CopiesKept, NewTasksOpen, BareCompletions,
         ContractsStay, EditsKeepContracts, [DesktopNext]_desktopVars
  PROVE  GatedStep /\ ContractKept' /\ CopiesKept'
<1>0. TypeOK /\ \A t \in Tasks : tasks[t] \in Task
  BY DEF DesktopTypeOK, TypeOK
\* The app leaves the ticks alone.
<1>1. ASSUME UNCHANGED ticks, RecordsKept
      PROVE  ContractKept'
  BY <1>1 DEF ContractKept, RecordsKept, Executing
<1>2. ASSUME UNCHANGED vars
      PROVE  GatedStep /\ RecordsKept /\ ContractKept'
  BY <1>1, <1>2 DEF vars, GatedStep, RecordsKept
<1>3. CASE Next /\ UNCHANGED <<copies, dirty>>
  <2>1. GatedStep /\ ContractKept' /\ FieldsStay
    BY <1>0, <1>3, GateStep, ContractStep, NextKeepsFields
  <2> QED
    BY <1>3, <2>1 DEF FieldsStay, SameFields, CopiesKept
<1>4. CASE Refresh
  <2>1. \A t \in Tasks : InFile(t) =>
            /\ SwiftView(tasks[t]).contract = tasks[t].contract
            /\ tasks[t].status # "absent" /\ SwiftView(tasks[t]).status # "absent"
    BY <1>0, SwiftViewKeeps DEF InFile, NotInFile
  <2>2. UNCHANGED tasks
    BY <1>4 DEF Refresh, vars
  <2>3. CopiesKept'
    BY <1>4, <2>1, <2>2 DEF Refresh, CopiesKept
  <2> QED
    BY <1>2, <1>4, <2>3 DEF Refresh
<1>5. ASSUME NEW t \in Tasks, DesktopStep(t)
      PROVE  GatedStep /\ ContractKept' /\ CopiesKept'
  <2>0. copies[t] # Unset => copies[t] \in Task
    BY DEF DesktopTypeOK
  <2>1. CASE UNCHANGED <<vars, copies>>
    BY <1>2, <2>1 DEF vars, CopiesKept
  <2>2. ASSUME NEW edit \in Edits, copies[t] # Unset, UNCHANGED vars,
               copies' = [copies EXCEPT ![t] = Assign(copies[t], edit)]
        PROVE  GatedStep /\ ContractKept' /\ CopiesKept'
    <3>1. Assign(copies[t], edit).contract = copies[t].contract
      BY <2>2 DEF Assign, Patched, EditsKeepContracts
    <3>2. Assign(copies[t], edit).status # "absent"
      BY <2>2, EditAssumption DEF Assign, OrElse, Patch, Opt, Statuses, CopiesKept
    <3>3. CopiesKept'
      BY <2>2, <3>1, <3>2 DEF vars, CopiesKept, DesktopTypeOK
    <3> QED
      BY <1>2, <2>2, <3>3
  <2>3. ASSUME NEW task \in Task, task.status # "absent",
               tasks[t].status # "absent" => task.contract = tasks[t].contract,
               task.status = "completed" => Vouched(task), DesktopWrote(t, task)
        PROVE  GatedStep /\ ContractKept' /\ CopiesKept'
    BY <1>1, <2>3, WroteKeeps DEF DesktopWrote, SwiftMutate
  <2>4. ASSUME copies[t] # Unset, DesktopWrote(t, Saved(t))
        PROVE  GatedStep /\ ContractKept' /\ CopiesKept'
    <3>1. /\ copies[t] \in Task /\ copies[t].status \in Statuses \cup NotInFile
          /\ copies[t].status # "absent" /\ copies[t].contract = tasks[t].contract
      BY <2>0, <2>4 DEF Task, CopiesKept
    <3>2. /\ Saved(t) \in Task /\ Saved(t).contract = tasks[t].contract
          /\ Saved(t).status # "absent" /\ (Saved(t).status = "completed" => Vouched(Saved(t)))
      BY <3>1, SwiftStatusType, SwiftStatusKeeps DEF Saved
    <3> QED
      BY <2>3, <2>4, <3>2
  <2>5. ASSUME DesktopWrote(t, SwiftStatus(SwiftView(tasks[t]), "blocked"))
        PROVE  GatedStep /\ ContractKept' /\ CopiesKept'
    <3>1. /\ SwiftView(tasks[t]) \in Task /\ "blocked" \in Statuses
          /\ SwiftView(tasks[t]).contract = tasks[t].contract
      BY <1>0, SwiftViewType, SwiftViewKeeps DEF Statuses
    <3> DEFINE task == SwiftStatus(SwiftView(tasks[t]), "blocked")
    <3>2. /\ task \in Task /\ task.contract = tasks[t].contract
          /\ task.status # "absent" /\ (task.status = "completed" => Vouched(task))
      BY <3>1, SwiftStatusType, SwiftStatusKeeps
    <3> HIDE DEF task
    <3> QED
      BY <2>3, <2>5, <3>2 DEF task
  <2>6. ASSUME NEW template \in Templates[t], template.status = "pending",
               tasks[t].status = "absent", DesktopWrote(t, template)
        PROVE  GatedStep /\ ContractKept' /\ CopiesKept'
    BY <2>3, <2>6, InputAssumption
  <2>7. ASSUME InFile(t), copies' = [copies EXCEPT ![t] = Unset],
               SwiftMutate(t, [tasks[t] EXCEPT !.status = "deleted"])
        PROVE  GatedStep /\ ContractKept' /\ CopiesKept'
    <3> DEFINE task == [tasks[t] EXCEPT !.status = "deleted"]
    <3>1. task \in Task /\ task.status = "deleted" /\ task.contract = tasks[t].contract
      BY <1>0 DEF Task, NotInFile
    <3> HIDE DEF task
    <3> QED
      BY <2>3, <2>7, <3>1 DEF task, DesktopWrote
  <2> QED
    BY <1>5, <2>1, <2>2, <2>4, <2>5, <2>6, <2>7, DesktopStepCases
<1>6. CASE UNCHANGED desktopVars
  BY <1>2, <1>6 DEF desktopVars, vars, CopiesKept
<1> QED
  BY <1>3, <1>4, <1>5, <1>6 DEF DesktopNext

\* The app ends no run.
LEMMA DesktopEvidenceStep ==
  ASSUME DesktopTypeOK, ContractKept, [DesktopNext]_desktopVars
  PROVE  RunsLeaveEvidence
<1>1. CASE UNCHANGED ticks
  BY <1>1 DEF RunsLeaveEvidence, EndsRun, Executing
<1>2. CASE Next
  BY <1>2, EvidenceStep DEF DesktopTypeOK
<1>3. CASE (\E t \in Tasks : DesktopStep(t)) \/ Refresh \/ UNCHANGED desktopVars
  <2>1. UNCHANGED ticks
    BY <1>3 DEF DesktopStep, Edit, Save, MarkDoubted, Submit, DesktopDelete, Refresh,
       SwiftMutate, desktopVars, vars
  <2> QED
    BY <1>1, <2>1
<1> QED
  BY <1>2, <1>3 DEF DesktopNext

\* No path through the app or the daemon completes a task past the gate: what a save
\* completes has what the gate asks for, in the copy that replaces the record, and a run
\* that completes a task reports for the contract the task still declares.
THEOREM SavedCompletionsAreGated ==
  ASSUME NewTasksOpen, BareCompletions, ContractsStay, EditsKeepContracts
  PROVE  DesktopSpec => CompletionIsGated
<1>1. DesktopInit => ContractKept /\ CopiesKept
  BY DEF DesktopInit, Init, IdleTick, ContractKept, Executing, CopiesKept
<1>2. DesktopTypeOK /\ ContractKept /\ CopiesKept /\ [DesktopNext]_desktopVars =>
        ContractKept' /\ CopiesKept'
  BY DesktopGateStep
<1>3. DesktopTypeOK /\ ContractKept /\ CopiesKept /\ [DesktopNext]_desktopVars =>
        [\A t \in Tasks : Completes(t) =>
          /\ tasks'[t].verifyCommand # Unset => tasks'[t].verification.status = "passed"
          /\ NeedsEvidence(tasks'[t]) =>
                /\ ~tasks'[t].evidenceMissing
                /\ tasks'[t].contractSeen \in {Unset, tasks'[t].contract}
                /\ EndsRun(t) => HasEvidence(tasks'[t])]_vars
  BY DesktopGateStep, DesktopEvidenceStep, CompletionStep
<1> QED
  BY <1>1, <1>2, <1>3, DesktopTypeCorrect, PTL DEF DesktopSpec, CompletionIsGated
=============================================================================
