---------------------------- MODULE DesktopBridge ---------------------------
(***************************************************************************)
(* The desktop app beside the ledger: the web view keeps a copy of every   *)
(* task it listed (useTaskLedger.tsx), edits the copy, and half a second   *)
(* later hands the whole copy to the Swift store (AxiTodoStore.swift),     *)
(* which replaces the stored record by it.  Every mutation of the Swift    *)
(* store decodes and encodes all of tasks.json with the fields of its own  *)
(* model (AxiTodoModels.swift), which are fewer than the Node store's.     *)
(*                                                                         *)
(* The ledger, its ticks and its other users go on as in AxiTodoLedger.    *)
(***************************************************************************)
EXTENDS AxiTodoLedger

CONSTANTS
    Edits       \* the patches the editor may apply to a copy

VARIABLES
    copies,     \* the web view's copy of each task, Unset where it has none
    dirty       \* tasks whose edited copy waits for its save timer

desktopVars == <<vars, copies, dirty>>

ASSUME EditAssumption == Edits \subseteq Patch

-----------------------------------------------------------------------------
(* What the Swift model keeps                                              *)

\* Mutant: the start of a run is not part of the Swift model either.
SwiftViewUnstarted(task) ==
    [task EXCEPT !.status = IF @ = "waiting" THEN "pending" ELSE @,
                 !.startedAt = Unset,
                 !.keys = {}, !.worktree = {}, !.deps = {},
                 !.group = Unset, !.groupLimit = Unset]

\* A task decoded into AxiTodoTask and encoded again: it loses its dependencies, its
\* resource and worktree keys and its lane, and a status Swift does not know is pending.
SwiftView(task) ==
    [task EXCEPT !.status = IF @ = "waiting" THEN "pending" ELSE @,
                 !.keys = {}, !.worktree = {}, !.deps = {},
                 !.group = Unset, !.groupLimit = Unset]

\* One mutation of the Swift store that leaves `task' as t's record.  AxiTodoState has
\* no auditReviews either.
SwiftMutate(t, task) ==
    /\ tasks' = [u \in Tasks |-> IF u = t THEN task ELSE SwiftView(tasks[u])]
    /\ reviewed' = {}
    /\ UNCHANGED <<now, ticks, verdicts>>

HeldBySwift(task) ==
    [task EXCEPT !.status = "awaiting_audit",
                 !.evidenceMissing = TRUE,
                 !.contractSeen = OrElse(task.contract, @)]

\* Mutant: the gate is asked about nothing but the evidence.
SwiftStatusUnverified(task, status) ==
    IF status = "completed" /\ SwiftGateHolds([task EXCEPT !.verifyCommand = Unset])
    THEN HeldBySwift(task)
    ELSE [task EXCEPT !.status = status]

\* Both ways the Swift store sets a status pass through its mirror of the gate.
SwiftStatus(task, status) ==
    IF status = "completed" /\ SwiftGateHolds(task) THEN HeldBySwift(task)
    ELSE [task EXCEPT !.status = status]

-----------------------------------------------------------------------------
(* The app's calls                                                         *)

\* refresh: the web view lists all tasks.
Refresh ==
    /\ copies' = [t \in Tasks |-> IF InFile(t) THEN SwiftView(tasks[t]) ELSE Unset]
    /\ UNCHANGED <<vars, dirty>>

\* patchTask: the editor changes its copy and (re)starts the save timer.
Edit(t, edit) ==
    /\ copies[t] # Unset
    /\ copies' = [copies EXCEPT ![t] = Assign(@, edit)]
    /\ dirty' = dirty \cup {t}
    /\ UNCHANGED vars

\* saveNow: the timer has fired.  The call throws when the task is gone.
Save(t) ==
    /\ t \in dirty
    /\ dirty' = dirty \ {t}
    /\ IF copies[t] # Unset /\ InFile(t)
       THEN LET saved == SwiftStatus(copies[t], copies[t].status)
            IN  /\ SwiftMutate(t, saved)
                /\ copies' = [copies EXCEPT ![t] = saved]
       ELSE UNCHANGED <<vars, copies>>

\* markDoubted: offered where the copy is completed, applied to the record as it is.
MarkDoubted(t) ==
    /\ copies[t] # Unset /\ copies[t].status = "completed"
    /\ InFile(t)
    /\ LET doubted == SwiftStatus(SwiftView(tasks[t]), "blocked")
       IN  /\ SwiftMutate(t, doubted)
           /\ copies' = [copies EXCEPT ![t] = doubted]
    /\ UNCHANGED dirty

\* submitDraftTask: createTask with what the draft has.
Submit(t, template) ==
    /\ tasks[t].status = "absent"
    /\ template = SwiftView(template)
    /\ template.status = "pending" /\ template.contract = Unset /\ template.level = "none"
    /\ SwiftMutate(t, template)
    /\ copies' = [copies EXCEPT ![t] = template]
    /\ UNCHANGED dirty

DesktopDelete(t) ==
    /\ copies[t] # Unset /\ copies[t].status # "running"
    /\ InFile(t) /\ tasks[t].status # "running"
    /\ SwiftMutate(t, [tasks[t] EXCEPT !.status = "deleted"])
    /\ copies' = [copies EXCEPT ![t] = Unset]
    /\ UNCHANGED dirty

-----------------------------------------------------------------------------

DesktopInit ==
    /\ Init
    /\ copies = [t \in Tasks |-> Unset]
    /\ dirty = {}

DesktopStep(t) ==
    \/ \E edit \in Edits : Edit(t, edit)
    \/ Save(t)
    \/ MarkDoubted(t)
    \/ \E template \in Templates[t] : Submit(t, template)
    \/ t \in Deletable /\ DesktopDelete(t)

DesktopNext ==
    \/ Next /\ UNCHANGED <<copies, dirty>>
    \/ Refresh
    \/ \E t \in Tasks : DesktopStep(t)

DesktopSpec == DesktopInit /\ [][DesktopNext]_desktopVars
=============================================================================
