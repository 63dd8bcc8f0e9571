---------------------------- MODULE PostgresStore ----------------------------
(***************************************************************************)
(* The task store of tools/axi-todo on PostgreSQL: the operations of       *)
(* lib/postgres-store.mjs, each a transaction that locks the rows it works *)
(* on and commits or rolls back, under READ COMMITTED.                     *)
(*                                                                         *)
(* A statement that locks rows finds them in a snapshot and then locks     *)
(* them one at a time, in its order, each in the version it has by then.   *)
(* A row that was inserted after the snapshot is not seen.  Inserting a    *)
(* row that refers to a task locks the task's row in share mode.  When     *)
(* transactions wait for each other in a circle, the database rolls one    *)
(* back.  Nothing but its holder changes a locked row, so a transaction    *)
(* reads the rows it has locked when it commits.                           *)
(*                                                                         *)
(* The tables are taken to have the columns that the statements name; what *)
(* the migrations make of them is told in README.md.                       *)
(*                                                                         *)
(* Dates are left out: any pending task may not be due yet, and any        *)
(* running task may be stale (one that a patch made running has a start    *)
(* only if the patch gives it one, or if it was claimed before).  The      *)
(* completion gate is module CompletionGate; here its decision is an       *)
(* input.                                                                  *)
(***************************************************************************)
EXTENDS Naturals, FiniteSets

CONSTANTS
    Tasks,
    Clients,        \* processes that call the store, one call at a time each
    CallsOf,        \* the calls each client makes
    Touched,        \* tasks users call the store about
    Initially,      \* tasks that are there from the start
    Added,          \* ids that tasks are added with: new ones, or given by the caller
    Rank,           \* position of each task in `order by priority desc, created_at'
    KeysOf,         \* effectiveResourceKeys of each task
    DepsOf,         \* dependsOn
    GroupOf,        \* effectiveParallelGroup, or None
    CapOf,          \* maxParallelGroup: 0 for none
    MaxAttempts,
    Patches,        \* statuses updateTask may be given
    NewStatuses,    \* statuses addTask may be given
    ClaimBound,     \* bound on the attempts of a task
    None

\* TASK_STATUSES
Statuses == {"pending", "running", "waiting", "awaiting_audit", "completed", "failed",
             "blocked", "cancelled"}

ASSUME PgAssumption ==
    /\ Touched \subseteq Tasks /\ Initially \subseteq Tasks /\ Added \subseteq Tasks
    /\ Rank \in [Tasks -> Nat]
    /\ \A t, u \in Tasks : Rank[t] = Rank[u] => t = u
    /\ DepsOf \in [Tasks -> SUBSET Tasks]
    /\ CapOf \in [Tasks -> Nat]
    /\ MaxAttempts \in Nat \ {0} /\ ClaimBound \in Nat
    /\ Patches \subseteq Statuses /\ NewStatuses \subseteq Statuses
    /\ None \notin Tasks

VARIABLES
    rows,       \* the table tasks, as committed
    reviewed,   \* tasks with a row in audit_reviews
    listed,     \* tasks, of those touched, that a recheck has seen completed
    run,        \* the task each client executes, or None
    tx          \* the transaction of each client

vars == <<rows, reviewed, listed, run, tx>>

Row == [status : Statuses \cup {"absent"},
        attempts : Nat,
        late : BOOLEAN]     \* history: the row was inserted while a claim was being made

NoRow == [status |-> "absent", attempts |-> 0, late |-> FALSE]

Ops == {"claim", "reconcile", "update", "delete", "complete", "fail", "mark", "audit",
        "pass"}

Tx == [op : Ops \cup {"none"},
       task : Tasks \cup {None},    \* the task the call is about
       todo : SUBSET Tasks,         \* rows found and not locked yet
       has : SUBSET Tasks,          \* rows locked for update
       shares : SUBSET Tasks]       \* rows locked in share mode

NoTx == [op |-> "none", task |-> None, todo |-> {}, has |-> {}, shares |-> {}]

Stored == {t \in Tasks : rows[t].status # "absent"}

WithStatus(s) == {t \in Tasks : rows[t].status = s}

Active(op) == \E c \in Clients : tx[c].op = op

-----------------------------------------------------------------------------
(* Transactions                                                            *)

Begin(c, op, t, found) ==
    /\ op \in CallsOf[c]
    /\ tx[c].op = "none"
    /\ tx' = [tx EXCEPT ![c] = [NoTx EXCEPT !.op = op, !.task = t, !.todo = found]]
    /\ UNCHANGED <<rows, reviewed, listed>>

\* The rows the call may lock next: a claim locks in the order of its statement,
\* reconcileStaleRunning in no order.
NextRows(c) ==
    {t \in tx[c].todo : tx[c].op = "claim" => \A u \in tx[c].todo : Rank[t] <= Rank[u]}

\* recordAuditReview inserts the review before it locks the task.
ForShare(c) == tx[c].op \in {"audit", "pass"} /\ tx[c].shares = {}

BlockedBy(c, t, d) ==
    /\ d # c
    /\ \/ t \in tx[d].has
       \/ t \in tx[d].shares /\ ~ForShare(c)

Shared(c, t) ==
    [tx[c] EXCEPT !.shares = {t}, !.todo = IF tx[c].op = "pass" THEN {} ELSE {t}]

\* A row that was deleted meanwhile is passed over.
Locked(c, t) == [tx[c] EXCEPT !.todo = @ \ {t}, !.has = @ \cup ({t} \cap Stored)]

Lock(c, t) ==
    /\ t \in NextRows(c)
    /\ \A d \in Clients : ~BlockedBy(c, t, d)
    /\ ForShare(c) => t \in Stored
    /\ tx' = [tx EXCEPT ![c] = IF ForShare(c) THEN Shared(c, t) ELSE Locked(c, t)]
    /\ UNCHANGED <<rows, reviewed, listed, run>>

\* Mutant: a call that throws gives its connection back without a rollback.
LeftOpen(c) == [tx[c] EXCEPT !.op = "none", !.todo = {}]

RolledBack(c) == NoTx

Throw(c) ==
    /\ tx' = [tx EXCEPT ![c] = RolledBack(c)]
    /\ run' = [run EXCEPT ![c] = None]
    /\ UNCHANGED <<rows, reviewed, listed>>

\* deadlock_detected
Deadlocked(c) ==
    \E S \in SUBSET Clients :
        /\ c \in S
        /\ \A d \in S : /\ tx[d].todo # {}
                       /\ \A t \in NextRows(d) : \E e \in S : BlockedBy(d, t, e)

AbortDeadlock(c) ==
    /\ Deadlocked(c)
    /\ Throw(c)

\* A statement fails, or the process dies: the database rolls back.
Fails(c) ==
    /\ tx[c].op # "none" \/ run[c] # None
    /\ Throw(c)

Ready(c, op) ==
    /\ tx[c].op = op
    /\ tx[c].todo = {}

\* getTaskForUpdate: unknown task.
Unknown(c) ==
    /\ \E op \in Ops \ {"claim", "reconcile", "pass"} : Ready(c, op)
    /\ tx[c].has = {}
    /\ Throw(c)

\* The review of a task that is not there violates its foreign key.
NoSuchParent(c) ==
    /\ ForShare(c)
    /\ tx[c].todo \cap Stored = {}
    /\ Throw(c)

Commit(c) == tx' = [tx EXCEPT ![c] = NoTx]

-----------------------------------------------------------------------------
(* Claims                                                                  *)

\* Mutant: the scan is limited to pending tasks.
BeginClaimOfPending(c) ==
    /\ run[c] = None
    /\ Begin(c, "claim", None, WithStatus("pending"))
    /\ UNCHANGED run

BeginClaim(c) ==
    /\ run[c] = None
    /\ Begin(c, "claim", None, Stored)
    /\ UNCHANGED run

Seen(c) == tx[c].has

RunningSeen(c) == Seen(c) \cap WithStatus("running")

GroupFull(c, t) ==
    /\ GroupOf[t] # None
    /\ CapOf[t] # 0
    /\ Cardinality({u \in RunningSeen(c) : GroupOf[u] = GroupOf[t]}) >= CapOf[t]

\* Mutant: only the keys of tasks of the same lane are looked at.
KeysFreeInLane(c, t) ==
    \A u \in RunningSeen(c) : GroupOf[u] = GroupOf[t] => KeysOf[t] \cap KeysOf[u] = {}

KeysFree(c, t) == \A u \in RunningSeen(c) : KeysOf[t] \cap KeysOf[u] = {}

\* selectSchedulableTasks, for the tasks that are due.
Schedulable(c, due) ==
    {t \in Seen(c) \cap WithStatus("pending") \cap due :
        /\ DepsOf[t] \subseteq Seen(c) \cap WithStatus("completed")
        /\ KeysFree(c, t)
        /\ ~GroupFull(c, t)}

Claim(c, t, due) ==
    /\ Ready(c, "claim")
    /\ t \in Schedulable(c, due)
    /\ \A u \in Schedulable(c, due) : Rank[t] <= Rank[u]
    /\ rows[t].attempts < ClaimBound
    /\ rows' = [rows EXCEPT ![t].status = "running", ![t].attempts = @ + 1]
    /\ run' = [run EXCEPT ![c] = t]
    /\ Commit(c)
    /\ UNCHANGED <<reviewed, listed>>

NothingToClaim(c, due) ==
    /\ Ready(c, "claim")
    /\ \A t \in Schedulable(c, due) : rows[t].attempts >= ClaimBound
    /\ Commit(c)
    /\ UNCHANGED <<rows, reviewed, listed, run>>

BeginReconcile(c) ==
    /\ run[c] = None
    /\ Begin(c, "reconcile", None, WithStatus("running"))
    /\ UNCHANGED run

\* A row that is not running any more when it is locked does not satisfy the query.
Reconcile(c, stale) ==
    /\ Ready(c, "reconcile")
    /\ rows' = [t \in Tasks |->
                   IF t \in RunningSeen(c) \cap stale
                   THEN [rows[t] EXCEPT !.status = "pending"]
                   ELSE rows[t]]
    /\ Commit(c)
    /\ UNCHANGED <<reviewed, listed, run>>

-----------------------------------------------------------------------------
(* Calls on one task                                                       *)

BeginCall(c, op, t) ==
    /\ run[c] = None
    /\ op = "mark" => t \in listed
    /\ Begin(c, op, t, {t})
    /\ UNCHANGED run

\* The executor has ended.
BeginEnd(c, op) ==
    /\ run[c] # None
    /\ Begin(c, op, run[c], {run[c]})
    /\ run' = [run EXCEPT ![c] = None]

Applies(c, op) == Ready(c, op) /\ tx[c].has = {tx[c].task} /\ tx[c].task # None

SetStatus(c, s) == rows' = [rows EXCEPT ![tx[c].task].status = s]

Remove(c) == rows' = [rows EXCEPT ![tx[c].task] = NoRow]

CanRetry(t) == rows[t].attempts < MaxAttempts

\* Mutant: the name of the event, where the status belongs.
HeldAsEvent(held) == IF held THEN "audit_waiting" ELSE "completed"

Held(held) == IF held THEN "awaiting_audit" ELSE "completed"

Update(c, patch, held) ==
    /\ Applies(c, "update")
    /\ SetStatus(c, IF patch = "completed" THEN Held(held) ELSE patch)
    /\ Commit(c)
    /\ UNCHANGED <<reviewed, listed, run>>

\* Mutant: a task with reviews is deleted from under them.
DeleteCascades(c) ==
    /\ Applies(c, "delete")
    /\ rows[tx[c].task].status # "running"
    /\ Remove(c)
    /\ Commit(c)
    /\ UNCHANGED <<reviewed, listed, run>>

\* A running task is protected, and so is one that reviews refer to.
Delete(c) ==
    /\ Applies(c, "delete")
    /\ IF rows[tx[c].task].status = "running" \/ tx[c].task \in reviewed
       THEN Throw(c)
       ELSE /\ Remove(c)
            /\ Commit(c)
            /\ UNCHANGED <<reviewed, listed, run>>

Complete(c, held) ==
    /\ Applies(c, "complete")
    /\ SetStatus(c, Held(held))
    /\ reviewed' = IF held THEN reviewed \cup {tx[c].task} ELSE reviewed
    /\ Commit(c)
    /\ UNCHANGED <<listed, run>>

Fail(c) ==
    /\ Applies(c, "fail")
    /\ SetStatus(c, IF CanRetry(tx[c].task) THEN "pending" ELSE "failed")
    /\ Commit(c)
    /\ UNCHANGED <<reviewed, listed, run>>

Mark(c, passed, held) ==
    /\ Applies(c, "mark")
    /\ SetStatus(c, IF passed THEN Held(held)
                    ELSE IF CanRetry(tx[c].task) THEN "pending" ELSE "failed")
    /\ Commit(c)
    /\ UNCHANGED <<reviewed, listed, run>>

\* recordAuditReview with a verdict that is not "pass".
Audit(c) ==
    /\ Applies(c, "audit")
    /\ SetStatus(c, "awaiting_audit")
    /\ reviewed' = reviewed \cup {tx[c].task}
    /\ Commit(c)
    /\ UNCHANGED <<listed, run>>

\* recordAuditReview with "pass": the review alone.
Pass(c) ==
    /\ Ready(c, "pass") /\ ~ForShare(c)
    /\ reviewed' = reviewed \cup {tx[c].task}
    /\ Commit(c)
    /\ UNCHANGED <<rows, listed, run>>

\* addTask upserts on a connection of its own.  The row of a task of that id is replaced,
\* once nobody has it locked; a row that is inserted is in no snapshot taken before.
AddTask(t, status) ==
    /\ \A c \in Clients : t \notin tx[c].has
    /\ rows' = [rows EXCEPT ![t] = [status |-> status, attempts |-> 0,
                                   late |-> IF t \in Stored THEN @.late ELSE Active("claim")]]
    /\ tx' = IF t \in Stored THEN tx
             ELSE [c \in Clients |-> [tx[c] EXCEPT !.todo = @ \ {t}]]
    /\ UNCHANGED <<reviewed, listed, run>>

\* recheckCompletedTasks lists the completed tasks, and runs their verify commands.
ListCompleted ==
    /\ listed' = listed \cup (WithStatus("completed") \cap Touched)
    /\ UNCHANGED <<rows, reviewed, run, tx>>

-----------------------------------------------------------------------------

Init ==
    /\ rows = [t \in Tasks |-> IF t \in Initially THEN [NoRow EXCEPT !.status = "pending"]
                             ELSE NoRow]
    /\ reviewed = {}
    /\ listed = {}
    /\ run = [c \in Clients |-> None]
    /\ tx = [c \in Clients |-> NoTx]

Call(c) ==
    \/ BeginClaim(c)
    \/ BeginReconcile(c)
    \/ \E op \in {"update", "delete", "mark", "audit", "pass"}, t \in Touched : BeginCall(c, op, t)
    \/ \E op \in {"complete", "fail"} : BeginEnd(c, op)

Locks(c) == \E t \in Tasks : Lock(c, t)

Finish(c) ==
    \/ \E due \in SUBSET Tasks :
          (\E t \in Tasks : Claim(c, t, due)) \/ NothingToClaim(c, due)
    \/ \E stale \in SUBSET Tasks : Reconcile(c, stale)
    \/ \E held \in BOOLEAN :
          \/ \E patch \in Patches : Update(c, patch, held)
          \/ Complete(c, held)
          \/ \E passed \in BOOLEAN : Mark(c, passed, held)
    \/ Delete(c) \/ Fail(c) \/ Audit(c) \/ Pass(c)
    \/ Unknown(c) \/ NoSuchParent(c)

Next ==
    \/ \E c \in Clients : Call(c) \/ Locks(c) \/ Finish(c) \/ AbortDeadlock(c) \/ Fails(c)
    \/ \E t \in Added, status \in NewStatuses : AddTask(t, status)
    \/ ListCompleted

Spec == Init /\ [][Next]_vars

(***************************************************************************)
(* A transaction goes on, those that wait for a row get it in turn, and    *)
(* the database looks for deadlocks.  Nobody need call, and no executor    *)
(* need end.                                                               *)
(***************************************************************************)
Fairness ==
    \A c \in Clients :
        /\ WF_vars(Finish(c))
        /\ SF_vars(Locks(c))
        /\ WF_vars(AbortDeadlock(c))

FairSpec == Spec /\ Fairness

-----------------------------------------------------------------------------
(* Properties                                                              *)

\* The rows and the transactions are well formed.
PgTypeOK ==
    /\ rows \in [Tasks -> Row]
    /\ reviewed \subseteq Tasks /\ listed \subseteq Tasks
    /\ run \in [Clients -> Tasks \cup {None}]
    /\ tx \in [Clients -> Tx]

Running == WithStatus("running")

\* No two running tasks share a key.
RunningKeysDisjoint == \A t, u \in Running : t # u => KeysOf[t] \cap KeysOf[u] = {}

\* Running tasks share a key only if one of them was inserted while a claim was waiting for
\* its row locks, out of that claim's snapshot; whatever else happens while a claim locks
\* row after row, it looks at the keys of all that is running.
SharersAreLate ==
    \A t, u \in Running :
        t # u /\ KeysOf[t] \cap KeysOf[u] # {} => rows[t].late \/ rows[u].late

\* The running tasks that every claim has seen.
Early == {t \in Running : ~rows[t].late}

Board == INSTANCE ClaimBoard WITH running <- Early, keys <- KeysOf

\* However claims, reconciliations and calls on single tasks lock their rows, the ledger
\* keeps what a claim promises for the tasks that were not inserted during a claim.
ImplementsClaimBoard == Board!Spec

\* No audit review is left of a task that is gone, nor an uncommitted one.
ReviewsHaveTasks ==
    /\ reviewed \subseteq Stored
    /\ \A c \in Clients : tx[c].shares \subseteq Stored

\* Every call of the store returns or throws, though claims and reconciliations lock rows
\* in different orders and two reviews of a task each wait for the other's.
EveryCallEnds == \A c \in Clients : (tx[c].op # "none") ~> (tx[c].op = "none")
=============================================================================
