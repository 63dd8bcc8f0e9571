------------------------ MODULE PostgresStoreProofs -------------------------
(***************************************************************************)
(* Proofs about PostgresStore, for any tasks, clients, calls and failures. *)
(***************************************************************************)
EXTENDS PostgresStore, TLAPS

-----------------------------------------------------------------------------
(* Type correctness                                                        *)

LEMMA NoTxIsTx == NoTx \in Tx
  BY DEF NoTx, Tx, Ops

LEMMA BegunIsTx ==
    ASSUME NEW op \in Ops, NEW t \in Tasks \cup {None}, NEW found \in SUBSET Tasks
    PROVE  [NoTx EXCEPT !.op = op, !.task = t, !.todo = found] \in Tx
  BY DEF NoTx, Tx

LEMMA BeginType ==
    ASSUME PgTypeOK, NEW c \in Clients, NEW op \in Ops, NEW t \in Tasks \cup {None},
           NEW found \in SUBSET Tasks, Begin(c, op, t, found)
    PROVE  tx' \in [Clients -> Tx]
  BY BegunIsTx DEF Begin, PgTypeOK

LEMMA LockType ==
    ASSUME PgTypeOK, NEW c \in Clients, NEW t \in Tasks, Lock(c, t)
    PROVE  tx' \in [Clients -> Tx]
  <1>1. tx[c] \in Tx
    BY DEF PgTypeOK
  <1>2. Shared(c, t) \in Tx
    BY <1>1 DEF Shared, Tx
  <1>3. Locked(c, t) \in Tx
    BY <1>1 DEF Locked, Tx, Stored
  <1> QED
    BY <1>2, <1>3 DEF Lock, PgTypeOK

LEMMA EndedType ==
    ASSUME PgTypeOK, NEW c \in Clients, tx' = [tx EXCEPT ![c] = NoTx]
    PROVE  tx' \in [Clients -> Tx]
  BY NoTxIsTx DEF PgTypeOK

LEMMA AppliesTask ==
    ASSUME PgTypeOK, NEW c \in Clients, NEW op, Applies(c, op)
    PROVE  tx[c].task \in Tasks
  BY DEF Applies, PgTypeOK, Tx

LEMMA SetStatusType ==
    ASSUME PgTypeOK, NEW c \in Clients, tx[c].task \in Tasks,
           NEW s \in Statuses, SetStatus(c, s)
    PROVE  rows' \in [Tasks -> Row]
  <1>1. rows[tx[c].task] \in Row
    BY DEF PgTypeOK
  <1>2. [rows[tx[c].task] EXCEPT !.status = s] \in Row
    BY <1>1 DEF Row
  <1> QED
    BY <1>2 DEF SetStatus, PgTypeOK

LEMMA RemoveType ==
    ASSUME PgTypeOK, NEW c \in Clients, Remove(c)
    PROVE  rows' \in [Tasks -> Row]
  BY DEF Remove, NoRow, Row, PgTypeOK

LEMMA ThrowType ==
    ASSUME PgTypeOK, NEW c \in Clients, Throw(c)
    PROVE  PgTypeOK'
  BY EndedType DEF Throw, RolledBack, PgTypeOK

LEMMA CallType ==
    ASSUME PgTypeOK, NEW c \in Clients, Call(c)
    PROVE  PgTypeOK'
  <1>1. CASE BeginClaim(c)
    <2>1. tx' \in [Clients -> Tx]
      BY <1>1, BeginType DEF BeginClaim, Ops, Stored
    <2> QED
      BY <1>1, <2>1 DEF BeginClaim, Begin, PgTypeOK
  <1>2. CASE BeginReconcile(c)
    <2>1. tx' \in [Clients -> Tx]
      <3>1. "reconcile" \in Ops /\ WithStatus("running") \in SUBSET Tasks
        BY DEF Ops, WithStatus
      <3> QED
        BY <1>2, <3>1, BeginType DEF BeginReconcile
    <2> QED
      BY <1>2, <2>1 DEF BeginReconcile, Begin, PgTypeOK
  <1>3. ASSUME NEW op \in {"update", "delete", "mark", "audit", "pass"}, NEW t \in Touched,
               BeginCall(c, op, t)
        PROVE  PgTypeOK'
    <2>1. t \in Tasks /\ op \in Ops
      BY PgAssumption DEF Ops
    <2>2. tx' \in [Clients -> Tx]
      BY <1>3, <2>1, BeginType DEF BeginCall
    <2> QED
      BY <1>3, <2>2 DEF BeginCall, Begin, PgTypeOK
  <1>4. ASSUME NEW op \in {"complete", "fail"}, BeginEnd(c, op)
        PROVE  PgTypeOK'
    <2>1. run[c] \in Tasks /\ op \in Ops
      BY <1>4 DEF BeginEnd, PgTypeOK, Ops
    <2>2. tx' \in [Clients -> Tx]
      BY <1>4, <2>1, BeginType DEF BeginEnd
    <2> QED
      BY <1>4, <2>2 DEF BeginEnd, Begin, PgTypeOK
  <1> QED
    BY <1>1, <1>2, <1>3, <1>4 DEF Call

\* A call on a task names one, and a review that passes shares the task it has found.
CallsNameTasks ==
    \A c \in Clients :
        /\ tx[c].op \notin {"none", "claim", "reconcile"} => tx[c].task \in Tasks
        /\ tx[c].op = "pass" => /\ tx[c].todo \cup tx[c].shares \subseteq {tx[c].task}
                                /\ tx[c].todo = {} \/ tx[c].shares = {}

LEMMA FinishType ==
    ASSUME PgTypeOK, CallsNameTasks, NEW c \in Clients, Finish(c)
    PROVE  PgTypeOK'
  <1> USE EndedType DEF Commit
  <1>1. ASSUME NEW t \in Tasks, NEW due, Claim(c, t, due)
        PROVE  PgTypeOK'
    <2>1. rows' \in [Tasks -> Row]
      BY <1>1 DEF Claim, PgTypeOK, Row, Statuses
    <2> QED
      BY <1>1, <2>1 DEF Claim, PgTypeOK
  <1>2. ASSUME NEW due, NothingToClaim(c, due)
        PROVE  PgTypeOK'
    BY <1>2 DEF NothingToClaim, PgTypeOK
  <1>3. ASSUME NEW stale, Reconcile(c, stale)
        PROVE  PgTypeOK'
    <2>1. rows' \in [Tasks -> Row]
      BY <1>3 DEF Reconcile, PgTypeOK, Row, Statuses
    <2> QED
      BY <1>3, <2>1 DEF Reconcile, PgTypeOK
  <1>4. ASSUME NEW held \in BOOLEAN, NEW patch \in Patches, Update(c, patch, held)
        PROVE  PgTypeOK'
    <2>1. (IF patch = "completed" THEN Held(held) ELSE patch) \in Statuses
      BY PgAssumption DEF Held, Statuses
    <2>2. rows' \in [Tasks -> Row]
      BY <1>4, <2>1, AppliesTask, SetStatusType DEF Update
    <2> QED
      BY <1>4, <2>2 DEF Update, PgTypeOK
  <1>5. ASSUME NEW held \in BOOLEAN, Complete(c, held)
        PROVE  PgTypeOK'
    <2>1. rows' \in [Tasks -> Row]
      BY <1>5, AppliesTask, SetStatusType DEF Complete, Held, Statuses
    <2> QED
      BY <1>5, <2>1, AppliesTask DEF Complete, PgTypeOK
  <1>6. ASSUME NEW held \in BOOLEAN, NEW passed \in BOOLEAN, Mark(c, passed, held)
        PROVE  PgTypeOK'
    <2>1. (IF passed THEN Held(held)
           ELSE IF CanRetry(tx[c].task) THEN "pending" ELSE "failed") \in Statuses
      BY DEF Held, Statuses
    <2>2. rows' \in [Tasks -> Row]
      BY <1>6, <2>1, AppliesTask, SetStatusType DEF Mark
    <2> QED
      BY <1>6, <2>2 DEF Mark, PgTypeOK
  <1>7. CASE Delete(c)
    <2>1. CASE Throw(c)
      BY <2>1, ThrowType
    <2>2. CASE Remove(c) /\ Commit(c) /\ UNCHANGED <<reviewed, listed, run>>
      <3>1. rows' \in [Tasks -> Row]
        BY <2>2, RemoveType
      <3> QED
        BY <2>2, <3>1 DEF PgTypeOK
    <2> QED
      BY <1>7, <2>1, <2>2 DEF Delete
  <1>8. CASE Fail(c)
    <2>1. (IF CanRetry(tx[c].task) THEN "pending" ELSE "failed") \in Statuses
      BY DEF Statuses
    <2>2. rows' \in [Tasks -> Row]
      BY <1>8, <2>1, AppliesTask, SetStatusType DEF Fail
    <2> QED
      BY <1>8, <2>2 DEF Fail, PgTypeOK
  <1>9. CASE Audit(c)
    <2>1. rows' \in [Tasks -> Row]
      BY <1>9, AppliesTask, SetStatusType DEF Audit, Statuses
    <2> QED
      BY <1>9, <2>1, AppliesTask DEF Audit, PgTypeOK
  <1>10. CASE Pass(c)
    <2>1. tx[c].task \in Tasks
      BY <1>10 DEF Pass, Ready, CallsNameTasks
    <2> QED
      BY <1>10, <2>1 DEF Pass, PgTypeOK
  <1>11. CASE Unknown(c) \/ NoSuchParent(c)
    BY <1>11, ThrowType DEF Unknown, NoSuchParent
  <1> QED
    BY <1>1, <1>2, <1>3, <1>4, <1>5, <1>6, <1>7, <1>8, <1>9, <1>10, <1>11 DEF Finish

LEMMA AddTaskType ==
    ASSUME PgTypeOK, NEW t, NEW status, AddTask(t, status)
    PROVE  tx' \in [Clients -> Tx]
  <1>1. ASSUME NEW c \in Clients
        PROVE  [tx[c] EXCEPT !.todo = @ \ {t}] \in Tx
    BY DEF PgTypeOK, Tx
  <1>2. [c \in Clients |-> [tx[c] EXCEPT !.todo = @ \ {t}]] \in [Clients -> Tx]
    BY <1>1
  <1> QED
    BY <1>2 DEF AddTask, PgTypeOK

LEMMA TypeStep ==
    ASSUME PgTypeOK, CallsNameTasks, [Next]_vars
    PROVE  PgTypeOK'
  <1>1. ASSUME NEW c \in Clients, NEW t \in Tasks, Lock(c, t)
        PROVE  PgTypeOK'
    BY <1>1, LockType DEF Lock, PgTypeOK
  <1>2. ASSUME NEW c \in Clients, AbortDeadlock(c) \/ Fails(c)
        PROVE  PgTypeOK'
    BY <1>2, ThrowType DEF AbortDeadlock, Fails
  <1>3. ASSUME NEW t \in Added, NEW status \in NewStatuses, AddTask(t, status)
        PROVE  PgTypeOK'
    <2>1. t \in Tasks /\ status \in Statuses
      BY PgAssumption
    <2>2. rows' \in [Tasks -> Row]
      BY <1>3, <2>1 DEF AddTask, Active, PgTypeOK, Row
    <2>3. tx' \in [Clients -> Tx]
      BY <1>3, AddTaskType
    <2> QED
      BY <1>3, <2>2, <2>3 DEF AddTask, PgTypeOK
  <1>4. CASE ListCompleted
    BY <1>4 DEF ListCompleted, WithStatus, PgTypeOK
  <1>5. CASE UNCHANGED vars
    BY <1>5 DEF vars, PgTypeOK
  <1> QED
    BY <1>1, <1>2, <1>3, <1>4, <1>5, CallType, FinishType DEF Next, Locks

LEMMA CallStepTasks ==
    ASSUME PgTypeOK, CallsNameTasks, NEW c \in Clients, Call(c)
    PROVE  CallsNameTasks'
  <1>1. CASE BeginClaim(c)
    BY <1>1 DEF BeginClaim, Begin, CallsNameTasks, PgTypeOK, Tx
  <1>2. CASE BeginReconcile(c)
    BY <1>2 DEF BeginReconcile, Begin, CallsNameTasks, PgTypeOK, Tx
  <1>3. ASSUME NEW op \in {"update", "delete", "mark", "audit", "pass"}, NEW t \in Touched,
               BeginCall(c, op, t)
        PROVE  CallsNameTasks'
    BY <1>3, PgAssumption DEF BeginCall, Begin, NoTx, CallsNameTasks, PgTypeOK, Tx
  <1>4. ASSUME NEW op \in {"complete", "fail"}, BeginEnd(c, op)
        PROVE  CallsNameTasks'
    BY <1>4 DEF BeginEnd, Begin, NoTx, CallsNameTasks, PgTypeOK, Tx
  <1> QED
    BY <1>1, <1>2, <1>3, <1>4 DEF Call

LEMMA LockStepTasks ==
    ASSUME PgTypeOK, CallsNameTasks, NEW c \in Clients, NEW t \in Tasks, Lock(c, t)
    PROVE  CallsNameTasks'
  <1>1. CASE ForShare(c)
    <2>1. tx' = [tx EXCEPT ![c] = Shared(c, t)] /\ t \in tx[c].todo
      BY <1>1 DEF Lock, NextRows
    <2>2. tx[c].op = "pass" => t = tx[c].task
      BY <1>1, <2>1 DEF CallsNameTasks
    <2> QED
      BY <2>1, <2>2 DEF Shared, CallsNameTasks, PgTypeOK, Tx
  <1>2. CASE ~ForShare(c)
    <2>1. tx' = [tx EXCEPT ![c] = Locked(c, t)] /\ t \in tx[c].todo
      BY <1>2 DEF Lock, NextRows
    <2>2. tx[c].op # "pass"
      BY <1>2, <2>1 DEF ForShare, CallsNameTasks
    <2> QED
      BY <2>1, <2>2 DEF Locked, CallsNameTasks, PgTypeOK, Tx
  <1> QED
    BY <1>1, <1>2

-----------------------------------------------------------------------------
(* What a step does to the rows that are stored                            *)

\* The transaction of c ends.  Only a task it has locked can be gone then, and none that
\* a review refers to.
Closes(c) ==
    /\ tx' = [tx EXCEPT ![c] = NoTx]
    /\ Stored' \subseteq Stored
    /\ Stored \ Stored' \subseteq tx[c].has
    /\ reviewed' \subseteq Stored'

\* Reviews and locks are of tasks that are there; a row locked for update is locked by
\* nobody else.
LocksHeld ==
    /\ reviewed \subseteq Stored
    /\ \A c \in Clients : tx[c].has \cup tx[c].shares \subseteq Stored
    /\ \A c, d \in Clients : c # d => tx[c].has \cap (tx[d].has \cup tx[d].shares) = {}

LEMMA SetStatusStored ==
    ASSUME PgTypeOK, NEW c \in Clients, tx[c].task \in Stored, NEW s \in Statuses,
           SetStatus(c, s)
    PROVE  Stored' = Stored
  BY DEF SetStatus, Stored, Statuses, PgTypeOK, Row

LEMMA RemoveStored ==
    ASSUME PgTypeOK, NEW c \in Clients, tx[c].task \in Stored, Remove(c)
    PROVE  Stored' = Stored \ {tx[c].task}
  BY DEF Remove, NoRow, Stored, PgTypeOK, Row

LEMMA ThrowCloses ==
    ASSUME LocksHeld, NEW c \in Clients, Throw(c)
    PROVE  Closes(c)
  BY DEF Throw, RolledBack, Closes, Stored, LocksHeld

LEMMA FinishCloses ==
    ASSUME PgTypeOK, CallsNameTasks, LocksHeld, NEW c \in Clients, Finish(c)
    PROVE  Closes(c)
  <1> USE DEF Commit
  <1>a. ASSUME NEW op, Applies(c, op)
        PROVE  tx[c].task \in Stored /\ tx[c].has = {tx[c].task}
    BY <1>a DEF Applies, LocksHeld
  <1>b. ASSUME Stored' = Stored, reviewed' \subseteq Stored, Commit(c)
        PROVE  Closes(c)
    BY <1>b DEF Closes
  <1>c. reviewed \subseteq Stored
    BY DEF LocksHeld
  <1>1. ASSUME NEW t \in Tasks, NEW due, Claim(c, t, due)
        PROVE  Closes(c)
    <2>1. Stored' = Stored
      BY <1>1 DEF Claim, Schedulable, WithStatus, Stored, PgTypeOK
    <2> QED
      BY <1>1, <1>b, <1>c, <2>1 DEF Claim
  <1>2. ASSUME NEW due, NothingToClaim(c, due)
        PROVE  Closes(c)
    BY <1>2, <1>b, <1>c DEF NothingToClaim, Stored
  <1>3. ASSUME NEW stale, Reconcile(c, stale)
        PROVE  Closes(c)
    <2>1. Stored' = Stored
      BY <1>3 DEF Reconcile, RunningSeen, Seen, WithStatus, Stored, PgTypeOK, Row
    <2> QED
      BY <1>3, <1>b, <1>c, <2>1 DEF Reconcile
  <1>4. ASSUME NEW held \in BOOLEAN, NEW patch \in Patches, Update(c, patch, held)
        PROVE  Closes(c)
    <2>1. (IF patch = "completed" THEN Held(held) ELSE patch) \in Statuses
      BY PgAssumption DEF Held, Statuses
    <2>2. Stored' = Stored
      BY <1>4, <1>a, <2>1, SetStatusStored DEF Update
    <2> QED
      BY <1>4, <1>b, <1>c, <2>2 DEF Update
  <1>5. ASSUME NEW held \in BOOLEAN, Complete(c, held)
        PROVE  Closes(c)
    <2>1. Stored' = Stored
      BY <1>5, <1>a, SetStatusStored DEF Complete, Held, Statuses
    <2> QED
      BY <1>5, <1>a, <1>b, <1>c, <2>1 DEF Complete
  <1>6. ASSUME NEW held \in BOOLEAN, NEW passed \in BOOLEAN, Mark(c, passed, held)
        PROVE  Closes(c)
    <2>1. (IF passed THEN Held(held)
           ELSE IF CanRetry(tx[c].task) THEN "pending" ELSE "failed") \in Statuses
      BY DEF Held, Statuses
    <2>2. Stored' = Stored
      BY <1>6, <1>a, <2>1, SetStatusStored DEF Mark
    <2> QED
      BY <1>6, <1>b, <1>c, <2>2 DEF Mark
  <1>7. CASE Delete(c)
    <2>1. CASE Throw(c)
      BY <2>1, ThrowCloses
    <2>2. CASE /\ tx[c].task \notin reviewed
               /\ Remove(c)
               /\ Commit(c)
               /\ UNCHANGED <<reviewed, listed, run>>
      <3>1. tx[c].task \in Stored /\ tx[c].has = {tx[c].task}
        BY <1>7, <1>a DEF Delete
      <3>2. Stored' = Stored \ {tx[c].task}
        BY <2>2, <3>1, RemoveStored
      <3> QED
        BY <1>c, <2>2, <3>1, <3>2 DEF Closes
    <2> QED
      BY <1>7, <2>1, <2>2 DEF Delete
  <1>8. CASE Fail(c)
    <2>1. (IF CanRetry(tx[c].task) THEN "pending" ELSE "failed") \in Statuses
      BY DEF Statuses
    <2>2. Stored' = Stored
      BY <1>8, <1>a, <2>1, SetStatusStored DEF Fail
    <2> QED
      BY <1>8, <1>b, <1>c, <2>2 DEF Fail
  <1>9. CASE Audit(c)
    <2>1. Stored' = Stored
      BY <1>9, <1>a, SetStatusStored DEF Audit, Statuses
    <2> QED
      BY <1>9, <1>a, <1>b, <1>c, <2>1 DEF Audit
  <1>10. CASE Pass(c)
    <2>1. tx[c].shares = {tx[c].task}
      BY <1>10 DEF Pass, Ready, ForShare, CallsNameTasks
    <2>2. tx[c].task \in Stored
      BY <2>1 DEF LocksHeld
    <2>3. Stored' = Stored
      BY <1>10 DEF Pass, Stored
    <2> QED
      BY <1>10, <1>b, <1>c, <2>2, <2>3 DEF Pass
  <1>11. CASE Unknown(c) \/ NoSuchParent(c)
    BY <1>11, ThrowCloses DEF Unknown, NoSuchParent
  <1> QED
    BY <1>1, <1>2, <1>3, <1>4, <1>5, <1>6, <1>7, <1>8, <1>9, <1>10, <1>11 DEF Finish

LEMMA ClosesKeeps ==
    ASSUME PgTypeOK, CallsNameTasks, LocksHeld, NEW c \in Clients, Closes(c)
    PROVE  CallsNameTasks' /\ LocksHeld'
  <1>1. /\ tx'[c] = NoTx
        /\ \A d \in Clients \ {c} : tx'[d] = tx[d]
    BY DEF Closes, PgTypeOK
  <1>2. CallsNameTasks'
    BY <1>1 DEF NoTx, CallsNameTasks
  <1>3. \A d \in Clients : tx'[d].has \cup tx'[d].shares \subseteq Stored'
    <2> TAKE d \in Clients
    <2>1. CASE d = c
      BY <1>1, <2>1 DEF NoTx
    <2>2. CASE d # c
      BY <1>1, <2>2 DEF Closes, LocksHeld
    <2> QED
      BY <2>1, <2>2
  <1>4. \A d, e \in Clients : d # e => tx'[d].has \cap (tx'[e].has \cup tx'[e].shares) = {}
    BY <1>1 DEF NoTx, LocksHeld
  <1> QED
    BY <1>2, <1>3, <1>4 DEF Closes, LocksHeld

LEMMA CallStepLocks ==
    ASSUME PgTypeOK, LocksHeld, NEW c \in Clients, Call(c)
    PROVE  LocksHeld'
  <1>1. PICK op, t, found : Begin(c, op, t, found)
    BY DEF Call, BeginClaim, BeginReconcile, BeginCall, BeginEnd
  <1>2. /\ tx'[c].has = {} /\ tx'[c].shares = {}
        /\ \A d \in Clients \ {c} : tx'[d] = tx[d]
    BY <1>1 DEF Begin, NoTx, PgTypeOK
  <1>3. Stored' = Stored /\ reviewed' = reviewed
    BY <1>1 DEF Begin, Stored
  <1> QED
    BY <1>2, <1>3 DEF LocksHeld

LEMMA LockStepLocks ==
    ASSUME PgTypeOK, LocksHeld, NEW c \in Clients, NEW t \in Tasks, Lock(c, t)
    PROVE  LocksHeld'
  <1>1. Stored' = Stored /\ reviewed' = reviewed
    BY DEF Lock, Stored
  <1>2. \A d \in Clients \ {c} : tx'[d] = tx[d]
    BY DEF Lock, PgTypeOK
  <1>3. \A d \in Clients \ {c} : t \notin tx[d].has
    BY DEF Lock, BlockedBy
  <1>4. CASE ForShare(c)
    <2>1. tx'[c].has = tx[c].has /\ tx'[c].shares = {t} /\ t \in Stored
      BY <1>4 DEF Lock, Shared, PgTypeOK, Tx
    <2> QED
      BY <1>1, <1>2, <1>3, <2>1 DEF LocksHeld
  <1>5. CASE ~ForShare(c)
    <2>1. tx'[c].has = tx[c].has \cup ({t} \cap Stored) /\ tx'[c].shares = tx[c].shares
      BY <1>5 DEF Lock, Locked, PgTypeOK, Tx
    <2>2. \A d \in Clients \ {c} : t \notin tx[d].shares
      BY <1>5 DEF Lock, BlockedBy
    <2> QED
      BY <1>1, <1>2, <1>3, <2>1, <2>2 DEF LocksHeld
  <1> QED
    BY <1>4, <1>5

LEMMA AddTaskStored ==
    ASSUME PgTypeOK, NEW t \in Added, NEW status \in NewStatuses, AddTask(t, status)
    PROVE  Stored' = Stored \cup {t}
  <1>1. t \in Tasks /\ status # "absent"
    BY PgAssumption DEF Statuses
  <1> QED
    BY <1>1 DEF AddTask, Stored, PgTypeOK, Row

\* Inserting a row takes it out of what is still to be locked; nothing else changes.
LEMMA AddTaskTx ==
    ASSUME PgTypeOK, NEW t, NEW status, AddTask(t, status), NEW c \in Clients
    PROVE  /\ tx'[c].op = tx[c].op /\ tx'[c].task = tx[c].task
           /\ tx'[c].has = tx[c].has /\ tx'[c].shares = tx[c].shares
           /\ tx'[c].todo \subseteq tx[c].todo
           /\ tx[c].todo \ tx'[c].todo \subseteq {t} \ Stored
  <1>1. CASE t \in Stored
    BY <1>1 DEF AddTask
  <1>2. CASE t \notin Stored
    BY <1>2 DEF AddTask, PgTypeOK, Tx
  <1> QED
    BY <1>1, <1>2

-----------------------------------------------------------------------------
(* The invariant                                                           *)

PgInv == PgTypeOK /\ CallsNameTasks /\ LocksHeld

LEMMA PgInvInit ==
    ASSUME Init
    PROVE  PgInv
  <1>1. PgTypeOK
    BY NoTxIsTx, PgAssumption DEF Init, NoRow, PgTypeOK, Row, Statuses
  <1>2. CallsNameTasks /\ LocksHeld
    BY DEF Init, NoTx, CallsNameTasks, LocksHeld
  <1> QED
    BY <1>1, <1>2 DEF PgInv

LEMMA PgInvStep ==
    ASSUME PgInv, [Next]_vars
    PROVE  PgInv'
  <1> USE DEF PgInv
  <1>1. PgTypeOK'
    BY TypeStep
  <1>2. ASSUME NEW c \in Clients, Call(c)
        PROVE  PgInv'
    BY <1>1, <1>2, CallStepTasks, CallStepLocks
  <1>3. ASSUME NEW c \in Clients, Locks(c)
        PROVE  PgInv'
    BY <1>1, <1>3, LockStepTasks, LockStepLocks DEF Locks
  <1>4. ASSUME NEW c \in Clients, Finish(c) \/ AbortDeadlock(c) \/ Fails(c)
        PROVE  PgInv'
    <2>1. Closes(c)
      BY <1>4, FinishCloses, ThrowCloses DEF AbortDeadlock, Fails
    <2> QED
      BY <1>1, <2>1, ClosesKeeps
  <1>5. ASSUME NEW t \in Added, NEW status \in NewStatuses, AddTask(t, status)
        PROVE  PgInv'
    <2>1. Stored \subseteq Stored'
      BY <1>5, AddTaskStored
    <2>2. \A c \in Clients : /\ tx'[c].op = tx[c].op /\ tx'[c].task = tx[c].task
                              /\ tx'[c].has = tx[c].has /\ tx'[c].shares = tx[c].shares
                              /\ tx'[c].todo \subseteq tx[c].todo
      BY <1>5, AddTaskTx
    <2>3. CallsNameTasks'
      BY <2>2 DEF CallsNameTasks
    <2>4. LocksHeld'
      BY <1>5, <2>1, <2>2 DEF AddTask, LocksHeld
    <2> QED
      BY <1>1, <2>3, <2>4
  <1>6. CASE ListCompleted \/ UNCHANGED vars
    BY <1>1, <1>6 DEF ListCompleted, vars, CallsNameTasks, LocksHeld, Stored
  <1> QED
    BY <1>2, <1>3, <1>4, <1>5, <1>6 DEF Next

LEMMA PgInvariant == Spec => []PgInv
  BY PgInvInit, PgInvStep, PTL DEF Spec

\* The store keeps its rows and its transactions well formed.
THEOREM PgTypeCorrect == Spec => []PgTypeOK
  <1>1. PgInv => PgTypeOK
    BY DEF PgInv
  <1> QED
    BY <1>1, PgInvariant, PTL

\* However calls interleave, deadlock and roll back, an audit review, committed or not,
\* is of a task that is there: deleteTask is refused or waits.
THEOREM ReviewedTasksStay == Spec => []ReviewsHaveTasks
  <1>1. PgInv => ReviewsHaveTasks
    BY DEF PgInv, LocksHeld, ReviewsHaveTasks
  <1> QED
    BY <1>1, PgInvariant, PTL

-----------------------------------------------------------------------------
(* Claims                                                                  *)

\* A claim has found every row but those inserted since: what it has not locked it still
\* will.
ClaimsSeeAll ==
    \A c \in Clients : tx[c].op = "claim" =>
        \A t \in Stored : t \in tx[c].todo \cup tx[c].has \/ rows[t].late

\* No task starts to run, and no row that runs becomes part of a snapshot it was not in.
NobodyStarts ==
    \A t \in Running' : t \in Running /\ rows'[t].late = rows[t].late

\* A row that was inserted late stays so as long as it is there.
LateStays == \A t \in Stored \cap Stored' : rows'[t].late = rows[t].late

LEMMA SetStatusStarts ==
    ASSUME PgTypeOK, NEW c \in Clients, NEW s, s # "running", SetStatus(c, s)
    PROVE  NobodyStarts
  BY DEF SetStatus, NobodyStarts, Running, WithStatus, PgTypeOK, Row

LEMMA UnchangedStarts ==
    ASSUME UNCHANGED rows
    PROVE  NobodyStarts /\ LateStays
  BY DEF NobodyStarts, LateStays, Running, WithStatus

LEMMA FinishStarts ==
    ASSUME "running" \notin Patches, PgTypeOK, NEW c \in Clients, Finish(c)
    PROVE  \/ \E t \in Tasks, due \in SUBSET Tasks : Claim(c, t, due)
           \/ NobodyStarts
  <1>1. ASSUME NEW due, NothingToClaim(c, due)
        PROVE  NobodyStarts
    BY <1>1, UnchangedStarts DEF NothingToClaim
  <1>2. ASSUME NEW stale, Reconcile(c, stale)
        PROVE  NobodyStarts
    BY <1>2 DEF Reconcile, NobodyStarts, Running, WithStatus, PgTypeOK, Row
  <1>3. ASSUME NEW held \in BOOLEAN, NEW patch \in Patches, Update(c, patch, held)
        PROVE  NobodyStarts
    <2>1. (IF patch = "completed" THEN Held(held) ELSE patch) # "running"
      BY DEF Held
    <2> QED
      BY <1>3, <2>1, SetStatusStarts DEF Update
  <1>4. ASSUME NEW held \in BOOLEAN, Complete(c, held)
        PROVE  NobodyStarts
    BY <1>4, SetStatusStarts DEF Complete, Held
  <1>5. ASSUME NEW held \in BOOLEAN, NEW passed \in BOOLEAN, Mark(c, passed, held)
        PROVE  NobodyStarts
    <2>1. (IF passed THEN Held(held)
           ELSE IF CanRetry(tx[c].task) THEN "pending" ELSE "failed") # "running"
      BY DEF Held
    <2> QED
      BY <1>5, <2>1, SetStatusStarts DEF Mark
  <1>6. CASE Delete(c)
    <2>1. CASE UNCHANGED rows
      BY <2>1, UnchangedStarts
    <2>2. CASE Remove(c)
      BY <2>2 DEF Remove, NoRow, NobodyStarts, Running, WithStatus, PgTypeOK
    <2> QED
      BY <1>6, <2>1, <2>2 DEF Delete, Throw
  <1>7. CASE Fail(c)
    <2>1. (IF CanRetry(tx[c].task) THEN "pending" ELSE "failed") # "running"
      OBVIOUS
    <2> QED
      BY <1>7, <2>1, SetStatusStarts DEF Fail
  <1>8. CASE Audit(c)
    BY <1>8, SetStatusStarts DEF Audit
  <1>9. CASE Pass(c) \/ Unknown(c) \/ NoSuchParent(c)
    BY <1>9, UnchangedStarts DEF Pass, Unknown, NoSuchParent, Throw
  <1> QED
    BY <1>1, <1>2, <1>3, <1>4, <1>5, <1>6, <1>7, <1>8, <1>9 DEF Finish

LEMMA StepStarts ==
    ASSUME "running" \notin Patches \cup NewStatuses, PgTypeOK, [Next]_vars
    PROVE  \/ \E c \in Clients, t \in Tasks, due \in SUBSET Tasks : Claim(c, t, due)
           \/ NobodyStarts
  <1>1. ASSUME NEW c \in Clients, Call(c) \/ Locks(c) \/ AbortDeadlock(c) \/ Fails(c)
        PROVE  NobodyStarts
    <2>1. UNCHANGED rows
      BY <1>1 DEF Call, BeginClaim, BeginReconcile, BeginCall, BeginEnd, Begin, Locks, Lock,
                  AbortDeadlock, Fails, Throw
    <2> QED
      BY <2>1, UnchangedStarts
  <1>2. ASSUME NEW t \in Added, NEW status \in NewStatuses, AddTask(t, status)
        PROVE  NobodyStarts
    BY <1>2 DEF AddTask, NobodyStarts, Running, WithStatus, PgTypeOK
  <1>3. CASE ListCompleted \/ UNCHANGED vars
    BY <1>3, UnchangedStarts DEF ListCompleted, vars
  <1> QED
    BY <1>1, <1>2, <1>3, FinishStarts DEF Next

LEMMA FinishLateStays ==
    ASSUME PgTypeOK, NEW c \in Clients, Finish(c) \/ AbortDeadlock(c) \/ Fails(c)
    PROVE  LateStays
  <1>1. ASSUME NEW s, SetStatus(c, s)
        PROVE  LateStays
    BY <1>1 DEF SetStatus, LateStays, Stored, PgTypeOK, Row
  <1>2. CASE Remove(c)
    BY <1>2 DEF Remove, NoRow, LateStays, Stored, PgTypeOK
  <1>3. ASSUME NEW t \in Tasks, NEW due, Claim(c, t, due)
        PROVE  LateStays
    BY <1>3 DEF Claim, LateStays, Stored, PgTypeOK, Row
  <1>4. ASSUME NEW stale, Reconcile(c, stale)
        PROVE  LateStays
    BY <1>4 DEF Reconcile, LateStays, Stored, PgTypeOK, Row
  <1>5. \/ UNCHANGED rows
        \/ \E s : SetStatus(c, s)
        \/ Remove(c)
        \/ \E t \in Tasks, due \in SUBSET Tasks : Claim(c, t, due)
        \/ \E stale \in SUBSET Tasks : Reconcile(c, stale)
    BY DEF Finish, NothingToClaim, Update, Complete, Mark, Delete, Fail, Audit, Pass, Unknown,
           NoSuchParent, Throw, AbortDeadlock, Fails
  <1> QED
    BY <1>1, <1>2, <1>3, <1>4, <1>5, UnchangedStarts

LEMMA ClaimsSeeAllInit ==
    ASSUME Init
    PROVE  ClaimsSeeAll
  BY DEF Init, NoTx, ClaimsSeeAll

LEMMA ClaimsSeeAllStep ==
    ASSUME PgInv, ClaimsSeeAll, [Next]_vars
    PROVE  ClaimsSeeAll'
  <1> USE DEF PgInv
  <1>1. ASSUME NEW c \in Clients, Call(c)
        PROVE  ClaimsSeeAll'
    <2>1. Stored' = Stored /\ UNCHANGED rows
      BY <1>1 DEF Call, BeginClaim, BeginReconcile, BeginCall, BeginEnd, Begin, Stored
    <2>2. \A d \in Clients \ {c} : tx'[d] = tx[d]
      BY <1>1 DEF Call, BeginClaim, BeginReconcile, BeginCall, BeginEnd, Begin, PgTypeOK
    <2>3. tx'[c].op = "claim" => tx'[c].todo = Stored
      BY <1>1 DEF Call, BeginClaim, BeginReconcile, BeginCall, BeginEnd, Begin, NoTx, PgTypeOK
    <2> QED
      BY <2>1, <2>2, <2>3 DEF ClaimsSeeAll
  <1>2. ASSUME NEW c \in Clients, NEW t \in Tasks, Lock(c, t)
        PROVE  ClaimsSeeAll'
    <2>1. /\ Stored' = Stored /\ UNCHANGED rows
          /\ \A d \in Clients \ {c} : tx'[d] = tx[d]
      BY <1>2 DEF Lock, Stored, PgTypeOK
    <2>2. tx'[c].op = tx[c].op
      BY <1>2 DEF Lock, Shared, Locked, PgTypeOK, Tx
    <2>3. tx[c].op = "claim" => tx'[c] = Locked(c, t)
      BY <1>2 DEF Lock, ForShare, PgTypeOK
    <2>4. /\ Locked(c, t).todo = tx[c].todo \ {t}
          /\ Locked(c, t).has = tx[c].has \cup ({t} \cap Stored)
      BY DEF Locked, PgTypeOK, Tx
    <2>5. tx[c].op = "claim" =>
              \A u \in Stored : u \in tx'[c].todo \cup tx'[c].has \/ rows[u].late
      BY <2>3, <2>4 DEF ClaimsSeeAll
    <2> QED
      BY <2>1, <2>2, <2>5 DEF ClaimsSeeAll
  <1>3. ASSUME NEW c \in Clients, Finish(c) \/ AbortDeadlock(c) \/ Fails(c)
        PROVE  ClaimsSeeAll'
    <2>1. Closes(c)
      BY <1>3, FinishCloses, ThrowCloses DEF AbortDeadlock, Fails
    <2>2. tx'[c].op = "none" /\ \A d \in Clients \ {c} : tx'[d] = tx[d]
      BY <2>1 DEF Closes, NoTx, PgTypeOK
    <2>3. LateStays /\ Stored' \subseteq Stored
      BY <1>3, <2>1, FinishLateStays DEF Closes
    <2> QED
      BY <2>2, <2>3 DEF ClaimsSeeAll, LateStays
  <1>4. ASSUME NEW t \in Added, NEW status \in NewStatuses, AddTask(t, status)
        PROVE  ClaimsSeeAll'
    <2> SUFFICES ASSUME NEW c \in Clients, tx'[c].op = "claim", NEW u \in Stored'
                 PROVE  u \in tx'[c].todo \cup tx'[c].has \/ rows'[u].late
      BY DEF ClaimsSeeAll
    <2>1. tx[c].op = "claim"
      BY <1>4, AddTaskTx
    <2>2. u \in Stored => u \in tx'[c].todo \cup tx'[c].has \/ rows[u].late
      BY <1>4, <2>1, AddTaskTx DEF ClaimsSeeAll
    <2>3. u \in Stored => rows'[u].late = rows[u].late
      BY <1>4 DEF AddTask, Stored, PgTypeOK
    <2>4. u \notin Stored => u = t /\ u \in Tasks
      BY <1>4, AddTaskStored, PgAssumption
    <2>5. u \notin Stored => rows'[u].late
      BY <1>4, <2>1, <2>4 DEF AddTask, Active, PgTypeOK
    <2> QED
      BY <2>2, <2>3, <2>5
  <1>5. CASE ListCompleted \/ UNCHANGED vars
    BY <1>5 DEF ListCompleted, vars, Stored, ClaimsSeeAll
  <1> QED
    BY <1>1, <1>2, <1>3, <1>4, <1>5 DEF Next, Locks

\* A claim that commits has locked every row but those inserted since it began, so it has
\* looked at the keys of all others that are running.
LEMMA ClaimIsClear ==
    ASSUME PgInv, ClaimsSeeAll,
           NEW c \in Clients, NEW t \in Tasks, NEW due, Claim(c, t, due)
    PROVE  /\ t \notin Running
           /\ \A u \in Early : KeysOf[t] \cap KeysOf[u] = {}
           /\ Running' = Running \cup {t}
           /\ \A u \in Running' : rows'[u].late = rows[u].late
  <1>1. Early \subseteq RunningSeen(c)
    BY DEF Claim, Ready, ClaimsSeeAll, Seen, Early, Running, RunningSeen, WithStatus, Stored
  <1>2. rows[t].status = "pending" /\ KeysFree(c, t)
    BY DEF Claim, Schedulable, WithStatus
  <1>3. Running' = Running \cup {t} /\ \A u \in Tasks : rows'[u].late = rows[u].late
    BY DEF Claim, Running, WithStatus, PgInv, PgTypeOK, Row
  <1>4. Running' \subseteq Tasks
    BY DEF Running, WithStatus
  <1> QED
    BY <1>1, <1>2, <1>3, <1>4 DEF KeysFree, Running, WithStatus

\* Whatever calls interleave with the claims and whatever rolls back: when two running tasks
\* share a key, one of them was inserted while a claim was being made.  Nobody may add a task
\* as running, or patch it to running, past claimNextTask.
THEOREM ClaimsKeepKeysApart ==
    ASSUME "running" \notin Patches \cup NewStatuses
    PROVE  Spec => []SharersAreLate
  <1> DEFINE IInv == PgInv /\ ClaimsSeeAll /\ SharersAreLate
  <1>1. Init => IInv
    <2>1. Init => Running = {}
      BY DEF Init, NoRow, Running, WithStatus
    <2> QED
      BY <2>1, PgInvInit, ClaimsSeeAllInit DEF SharersAreLate
  <1>2. IInv /\ [Next]_vars => IInv'
    <2> SUFFICES ASSUME IInv, [Next]_vars
                 PROVE  SharersAreLate'
      BY PgInvStep, ClaimsSeeAllStep
    <2>1. CASE NobodyStarts
      BY <2>1 DEF NobodyStarts, SharersAreLate
    <2>2. ASSUME NEW c \in Clients, NEW t \in Tasks, NEW due \in SUBSET Tasks, Claim(c, t, due)
          PROVE  SharersAreLate'
      <3>1. \A u \in Running : KeysOf[t] \cap KeysOf[u] # {} => rows[u].late
        BY <2>2, ClaimIsClear DEF Early
      <3>2. /\ Running' = Running \cup {t}
            /\ \A u \in Running' : rows'[u].late = rows[u].late
        BY <2>2, ClaimIsClear
      <3> QED
        BY <3>1, <3>2 DEF SharersAreLate
    <2> QED
      BY <2>1, <2>2, StepStarts DEF PgInv
  <1>3. IInv => SharersAreLate
    OBVIOUS
  <1> QED
    BY <1>1, <1>2, <1>3, PTL DEF Spec

\* Under the same condition the transactions, lock by lock, implement the board for the tasks
\* that were not inserted during a claim: they become running one at a time, each while its
\* keys are free of the others'.
THEOREM PostgresImplementsBoard ==
    ASSUME "running" \notin Patches \cup NewStatuses
    PROVE  Spec => ImplementsClaimBoard
  <1> DEFINE IInv == PgInv /\ ClaimsSeeAll
  <1>1. Init => IInv /\ Board!Init
    <2>1. Init => Early = {}
      BY DEF Init, NoRow, Early, Running, WithStatus
    <2> QED
      BY <2>1, PgInvInit, ClaimsSeeAllInit DEF Board!Init
  <1>2. IInv /\ [Next]_vars => IInv'
    BY PgInvStep, ClaimsSeeAllStep
  <1>3. IInv /\ [Next]_vars => [Board!Next]_(Board!vars)
    <2> SUFFICES ASSUME IInv, [Next]_vars
                 PROVE  [Board!Next]_(Board!vars)
      OBVIOUS
    <2>1. ASSUME NEW c \in Clients, NEW t \in Tasks, NEW due \in SUBSET Tasks, Claim(c, t, due)
          PROVE  [Board!Next]_(Board!vars)
      <3>1. /\ t \notin Early
            /\ \A u \in Early : KeysOf[t] \cap KeysOf[u] = {}
        BY <2>1, ClaimIsClear DEF Early
      <3>2. Early' = IF rows[t].late THEN Early ELSE Early \cup {t}
        BY <2>1, ClaimIsClear DEF Early
      <3>3. CASE rows[t].late
        BY <3>2, <3>3 DEF Board!vars
      <3>4. CASE ~rows[t].late
        BY <3>1, <3>2, <3>4 DEF Board!Next, Board!Claim
      <3> QED
        BY <3>3, <3>4
    <2>2. CASE NobodyStarts
      <3>1. Early' \subseteq Early
        BY <2>2 DEF NobodyStarts, Early
      <3>2. Board!Release(Early \ Early')
        BY <3>1 DEF Board!Release
      <3> QED
        BY <3>2 DEF Board!Next
    <2> QED
      BY <2>1, <2>2, StepStarts DEF PgInv
  <1> QED
    BY <1>1, <1>2, <1>3, PTL DEF Spec, ImplementsClaimBoard, Board!Spec
=============================================================================
