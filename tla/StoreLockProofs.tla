-------------------------- MODULE StoreLockProofs ---------------------------
(***************************************************************************)
(* Proofs about StoreLock, for any number of clients, calls and retries,   *)
(* with processes dying and file operations failing anywhere.              *)
(***************************************************************************)
EXTENDS StoreLock, TLAPS

\* A process in a call has a call number.
InCall == \A c \in Processes : pc[c] # "idle" => calls[c] > 0

Typed == TypeOK /\ InCall

LEMMA CallInOp == Typed => \A c \in Processes : pc[c] # "idle" => Call(c) \in Op
<1> SUFFICES ASSUME Typed, NEW c \in Processes, pc[c] # "idle" PROVE Call(c) \in Op
  OBVIOUS
<1>1. calls[c] \in 0..MaxCalls /\ calls[c] > 0
  BY DEF Typed, TypeOK, InCall
<1>2. calls[c] \in 1..MaxCalls
  BY <1>1, StoreAssumption
<1> QED
  BY <1>2 DEF Call, Op

LEMMA TypedInit == Init => Typed
<1> SUFFICES ASSUME Init PROVE Typed
  OBVIOUS
<1>1. 0 \in 0..MaxCalls /\ 0 \in 0..MaxRetries
  BY StoreAssumption
<1> QED
  BY <1>1 DEF Init, Typed, TypeOK, InCall, Phases

\* Every step keeps the types, whatever the clients and the syncers do.
LEMMA TypedStep == Typed /\ [Next]_vars => Typed'
<1> SUFFICES ASSUME Typed, [Next]_vars PROVE Typed'
  OBVIOUS
<1>1. \A c \in Processes : pc[c] # "idle" => Call(c) \in Op
  BY CallInOp
<1> USE DEF Typed, TypeOK, InCall, Phases, Goto
<1>2. ASSUME NEW c \in Processes, calls[c] < MaxCalls
      PROVE calls[c] + 1 \in 0..MaxCalls /\ calls[c] + 1 > 0
  <2>1. calls[c] \in 0..MaxCalls
    OBVIOUS
  <2> QED
    BY <1>2, <2>1, StoreAssumption
<1>3. ASSUME NEW c \in Clients, Start(c) PROVE Typed'
  <2>1. 0 \in 0..MaxRetries
    BY StoreAssumption
  <2> QED
    BY <1>2, <1>3, <2>1 DEF Start, Processes
<1>4. ASSUME NEW c \in Clients, Step(c) PROVE Typed'
  <2>1. CASE Open(c) \/ TimeOut(c) \/ WriteOwner(c) \/ OwnerWriteFails(c) \/ Throw(c)
    BY <2>1 DEF Open, TimeOut, WriteOwner, OwnerWriteFails, Throw
  <2>2. CASE Retry(c)
    <3>1. (IF retries[c] < MaxRetries THEN retries[c] + 1 ELSE retries[c]) \in 0..MaxRetries
      <4>1. c \in Processes
        BY DEF Processes
      <4>2. retries[c] \in 0..MaxRetries
        BY <4>1
      <4> QED
        BY <4>2, StoreAssumption
    <3> QED
      BY <2>2, <3>1 DEF Retry
  <2>3. CASE Read(c)
    BY <2>3 DEF Read
  <2>4. CASE Replace(c)
    <3>1. Call(c) \in Op
      BY <1>1, <2>4 DEF Replace, Processes
    <3>2. copy[c] \subseteq Op
      BY DEF Processes
    <3> QED
      BY <2>4, <3>1, <3>2 DEF Replace
  <2>5. CASE Release(c)
    <3>1. Call(c) \in Op
      BY <1>1, <2>5 DEF Release, Processes
    <3> QED
      BY <2>5, <3>1 DEF Release
  <2> QED
    BY <1>4, <2>1, <2>2, <2>3, <2>4, <2>5 DEF Step
<1>5. ASSUME NEW c \in Clients, Die(c) PROVE Typed'
  BY <1>5 DEF Die
<1>6. ASSUME NEW s \in Syncers, SyncRead(s) PROVE Typed'
  BY <1>2, <1>6 DEF SyncRead, Processes
<1>7. ASSUME NEW s \in Syncers, SyncWrite(s) PROVE Typed'
  <2>1. Call(s) \in Op
    BY <1>1, <1>7 DEF SyncWrite, Processes
  <2>2. copy[s] \subseteq Op
    BY DEF Processes
  <2> QED
    BY <1>7, <2>1, <2>2 DEF SyncWrite
<1>8. CASE UNCHANGED vars
  BY <1>8 DEF vars
<1> QED
  BY <1>3, <1>4, <1>5, <1>6, <1>7, <1>8 DEF Next

\* Every variable keeps to its type, for clients and syncers together.
THEOREM TypeCorrect == Spec => []TypeOK
<1>1. Typed => TypeOK
  BY DEF Typed
<1> QED
  BY TypedInit, TypedStep, <1>1, PTL DEF Spec

LEMMA OneHolderStep == ASSUME Typed, OneHolder, [Next]_vars PROVE OneHolder'
<1>1. pc \in [Processes -> Phases] /\ Clients \subseteq Processes
  BY DEF Typed, TypeOK, Processes
<1> USE DEF OneHolder, Holding, Goto
<1>2. ASSUME NEW c \in Clients, Start(c) \/ Die(c) PROVE OneHolder'
  BY <1>1, <1>2 DEF Start, Die
<1>3. ASSUME NEW c \in Clients, Open(c) PROVE OneHolder'
  BY <1>1, <1>3 DEF Open
<1>4. ASSUME NEW c \in Clients, Retry(c) \/ TimeOut(c) \/ OwnerWriteFails(c) PROVE OneHolder'
  BY <1>1, <1>4 DEF Retry, TimeOut, OwnerWriteFails
<1>5. ASSUME NEW c \in Clients, WriteOwner(c) \/ Read(c) \/ Throw(c) \/ Replace(c)
      PROVE OneHolder'
  BY <1>1, <1>5 DEF WriteOwner, Read, Throw, Replace
<1>6. ASSUME NEW c \in Clients, Release(c) PROVE OneHolder'
  BY <1>1, <1>6 DEF Release
<1>7. ASSUME NEW s \in Syncers, SyncRead(s) \/ SyncWrite(s) PROVE OneHolder'
  <2>1. \A c \in Clients : pc'[c] = pc[c]
    BY <1>1, <1>7, StoreAssumption DEF SyncRead, SyncWrite
  <2> QED
    BY <1>7, <2>1 DEF SyncRead, SyncWrite
<1>8. CASE UNCHANGED vars
  BY <1>8 DEF vars
<1> QED
  BY <1>2, <1>3, <1>4, <1>5, <1>6, <1>7, <1>8 DEF Next, Step

\* Whoever dies or fails, and whatever the tools do that bypass the lock, one client at
\* most is inside withFileLock, and the lock file is there as long as it is.
THEOREM LockHasOneHolder == Spec => []OneHolder
<1>1. Init => OneHolder
  BY DEF Init, OneHolder, Holding, Processes
<1>2. Typed /\ OneHolder /\ [Next]_vars => OneHolder'
  BY OneHolderStep
<1> QED
  BY <1>1, <1>2, TypedInit, TypedStep, PTL DEF Spec

-----------------------------------------------------------------------------
(* Without the tools that bypass the lock, the store is atomic. The        *)
(* inductive invariant: the holder is alone, its copy is current, and a    *)
(* call is in the file from its rename on, never before.                   *)

CopyIsCurrent == \A c \in Clients : pc[c] = "read" => copy[c] = file

CommittedOnce ==
    \A c \in Clients : pc[c] # "idle" => (Call(c) \in file <=> pc[c] = "written")

\* The file holds no call of the future.
FileIsPast == \A op \in file : op[2] <= calls[op[1]]

Locked == Typed /\ OneHolder /\ CopyIsCurrent /\ CommittedOnce /\ FileIsPast /\ ReturnedIsKept

LEMMA LockedInit == ASSUME Syncers = {} PROVE Init => Locked
<1> SUFFICES ASSUME Init PROVE Locked
  OBVIOUS
<1>1. Typed
  BY TypedInit
<1>2. \A c \in Clients : pc[c] = "idle"
  BY DEF Init, Processes
<1> QED
  BY <1>1, <1>2 DEF Init, Locked, OneHolder, CopyIsCurrent, CommittedOnce, FileIsPast,
                    ReturnedIsKept, Holding

LEMMA LockedStep == ASSUME Syncers = {} PROVE Locked /\ [Next]_vars => Locked'
<1> SUFFICES ASSUME Locked, [Next]_vars PROVE Locked'
  OBVIOUS
<1>1. Typed'
  BY TypedStep DEF Locked
<1>2. Processes = Clients
  BY DEF Processes
<1> USE DEF Locked, OneHolder, CopyIsCurrent, CommittedOnce, FileIsPast, ReturnedIsKept,
            Holding, Goto, Call
<1>3. /\ pc \in [Clients -> Phases] /\ copy \in [Clients -> SUBSET Op]
      /\ calls \in [Clients -> 0..MaxCalls] /\ file \subseteq Op
  BY <1>2 DEF Typed, TypeOK
<1>4. \A op \in Op : op = <<op[1], op[2]>> /\ op[1] \in Clients /\ op[2] \in Nat
  BY <1>2, StoreAssumption DEF Op
<1>5. \A c \in Clients : calls[c] \in Nat
  BY <1>3, StoreAssumption
<1>6. ASSUME NEW c \in Clients, Start(c) PROVE Locked'
  <2>1. /\ pc' = [pc EXCEPT ![c] = "opening"] /\ calls' = [calls EXCEPT ![c] = @ + 1]
        /\ UNCHANGED <<lockFile, file, copy, returned>>
    BY <1>6 DEF Start
  <2>2. FileIsPast'
    BY <1>3, <1>4, <1>5, <2>1
  <2>3. <<c, calls[c] + 1>> \notin file
    BY <1>5
  <2>4. CommittedOnce'
    BY <1>3, <2>1, <2>3
  <2> QED
    BY <1>1, <1>3, <2>1, <2>2, <2>4
<1>7. ASSUME NEW c \in Clients, Step(c) PROVE Locked'
  <2>1. CASE Open(c)
    BY <1>1, <1>3, <2>1 DEF Open
  <2>2. CASE Retry(c)
    BY <1>1, <2>2 DEF Retry
  <2>3. CASE TimeOut(c)
    BY <1>1, <1>3, <2>3 DEF TimeOut
  <2>4. CASE WriteOwner(c)
    BY <1>1, <1>3, <2>4 DEF WriteOwner
  <2>5. CASE OwnerWriteFails(c)
    BY <1>1, <1>3, <2>5 DEF OwnerWriteFails
  <2>6. CASE Read(c)
    BY <1>1, <1>3, <2>6 DEF Read
  <2>7. CASE Throw(c)
    BY <1>1, <1>3, <2>7 DEF Throw
  <2>8. CASE Replace(c)
    <3>1. /\ pc[c] = "read" /\ pc' = [pc EXCEPT ![c] = "written"]
          /\ UNCHANGED <<lockFile, copy, calls, returned>>
      BY <2>8 DEF Replace
    <3>2. file' = file \cup {<<c, calls[c]>>}
      BY <2>8 DEF Replace
    <3>3. OneHolder' /\ ReturnedIsKept'
      BY <1>3, <3>1, <3>2
    <3>4. CopyIsCurrent'
      BY <1>3, <3>1, <3>2
    <3>5. CommittedOnce'
      BY <1>3, <3>1, <3>2
    <3>6. FileIsPast'
      BY <1>5, <3>1, <3>2
    <3> QED
      BY <1>1, <3>3, <3>4, <3>5, <3>6
  <2>9. CASE Release(c)
    BY <1>1, <1>3, <2>9 DEF Release
  <2> QED
    BY <1>7, <2>1, <2>2, <2>3, <2>4, <2>5, <2>6, <2>7, <2>8, <2>9 DEF Step
<1>8. ASSUME NEW c \in Clients, Die(c) PROVE Locked'
  BY <1>1, <1>3, <1>8 DEF Die
<1>9. CASE UNCHANGED vars
  BY <1>1, <1>9 DEF vars
<1> QED
  BY <1>6, <1>7, <1>8, <1>9 DEF Next

\* Without a tool that bypasses the lock, no call that returned is ever missing
\* from tasks.json.
THEOREM NoLostUpdate == ASSUME Syncers = {} PROVE Spec => []ReturnedIsKept
<1>1. Locked => ReturnedIsKept
  BY DEF Locked
<1>2. Init => Locked
  BY LockedInit
<1>3. Locked /\ [Next]_vars => Locked'
  BY LockedStep
<1> QED
  BY <1>1, <1>2, <1>3, PTL DEF Spec

-----------------------------------------------------------------------------
(* Refinement of AtomicStore                                               *)

InProgress == {<<c, calls[c]>> : c \in {d \in Processes : pc[d] # "idle"}}

LEMMA StaysInProgress ==
  ASSUME Typed, NEW c \in Processes, pc[c] # "idle", UNCHANGED calls,
         NEW phase \in Phases, phase # "idle", Goto(c, phase)
  PROVE  InProgress' = InProgress
<1>1. {d \in Processes : pc'[d] # "idle"} = {d \in Processes : pc[d] # "idle"}
  BY DEF Typed, TypeOK, Goto
<1> QED
  BY <1>1 DEF InProgress

LEMMA LeavesProgress ==
  ASSUME Typed, NEW c \in Processes, pc[c] # "idle", UNCHANGED calls, Goto(c, "idle")
  PROVE  /\ Call(c) \in InProgress
         /\ InProgress' = InProgress \ {Call(c)}
<1>1. {d \in Processes : pc'[d] # "idle"} = {d \in Processes : pc[d] # "idle"} \ {c}
  BY DEF Typed, TypeOK, Goto
<1> QED
  BY <1>1 DEF InProgress, Call

LEMMA EntersProgress ==
  ASSUME Typed, NEW c \in Processes, pc[c] = "idle", Goto(c, "opening"),
         calls' = [calls EXCEPT ![c] = @ + 1]
  PROVE  InProgress' = InProgress \cup {<<c, calls[c] + 1>>}
<1>1. {d \in Processes : pc'[d] # "idle"} = {d \in Processes : pc[d] # "idle"} \cup {c}
  BY DEF Typed, TypeOK, Goto
<1>2. calls'[c] = calls[c] + 1 /\ \A d \in Processes \ {c} : calls'[d] = calls[d]
  BY DEF Typed, TypeOK
<1> QED
  BY <1>1, <1>2 DEF InProgress

\* A step of a locked client is a step of the abstract store, or none.
LEMMA StepRefines ==
  ASSUME Syncers = {}, Locked, NEW c \in Clients, Step(c)
  PROVE  [Atomic!Next]_(Atomic!vars)
<1> USE DEF Phases
<1>1. Typed /\ c \in Processes
  BY DEF Locked, Processes
<1>2. pc[c] # "idle" => Call(c) \in Op
  BY <1>1, CallInOp
<1>3. ASSUME pc[c] # "idle", UNCHANGED <<file, calls, returned>>, Goto(c, "idle")
      PROVE  Atomic!Next
  <2>1. Call(c) \in InProgress /\ InProgress' = InProgress \ {Call(c)}
    BY <1>1, <1>3, LeavesProgress
  <2>2. Atomic!Fail(Call(c))
    BY <1>3, <2>1 DEF Atomic!Fail, InProgress
  <2> QED
    BY <1>2, <1>3, <2>2 DEF Atomic!Next, Atomic!Fail
<1>4. ASSUME NEW phase \in Phases, phase # "idle", pc[c] # "idle", Goto(c, phase),
             UNCHANGED <<file, calls, returned>>
      PROVE  UNCHANGED Atomic!vars
  <2>1. InProgress' = InProgress
    BY <1>1, <1>4, StaysInProgress
  <2> QED
    BY <1>4, <2>1 DEF Atomic!vars, InProgress
<1>5. CASE Open(c)
  BY <1>4, <1>5 DEF Open
<1>6. CASE Retry(c)
  BY <1>6 DEF Retry, Atomic!vars
<1>7. CASE TimeOut(c)
  BY <1>3, <1>7 DEF TimeOut
<1>8. CASE WriteOwner(c)
  BY <1>4, <1>8 DEF WriteOwner
<1>9. CASE OwnerWriteFails(c)
  BY <1>3, <1>9 DEF OwnerWriteFails
<1>10. CASE Read(c)
  BY <1>4, <1>10 DEF Read
<1>11. CASE Throw(c)
  BY <1>4, <1>11 DEF Throw
<1>12. CASE Replace(c)
  <2>1. /\ pc[c] = "read" /\ Goto(c, "written") /\ UNCHANGED <<calls, returned>>
        /\ file' = file \cup {Call(c)} /\ Call(c) \notin file
    BY <1>12 DEF Replace, Locked, CopyIsCurrent, CommittedOnce
  <2>2. InProgress' = InProgress /\ Call(c) \in InProgress
    BY <1>1, <2>1, StaysInProgress DEF InProgress, Call
  <2>3. Atomic!Commit(Call(c))
    BY <2>1, <2>2 DEF Atomic!Commit, InProgress
  <2> QED
    BY <1>2, <2>1, <2>3 DEF Atomic!Next, Atomic!Commit
<1>13. CASE Release(c)
  <2>1. CASE pc[c] = "threw"
    BY <1>3, <1>13, <2>1 DEF Release
  <2>2. CASE pc[c] = "written"
    <3>1. Call(c) \in InProgress /\ InProgress' = InProgress \ {Call(c)}
      BY <1>1, <1>13, <2>2, LeavesProgress DEF Release
    <3>2. Call(c) \in file
      BY <2>2 DEF Locked, CommittedOnce
    <3>3. Atomic!Return(Call(c))
      BY <1>13, <2>2, <3>1, <3>2 DEF Release, Atomic!Return, InProgress
    <3> QED
      BY <1>2, <2>2, <3>3 DEF Atomic!Next, Atomic!Return
  <2> QED
    BY <1>13, <2>1, <2>2 DEF Release
<1> QED
  BY <1>5, <1>6, <1>7, <1>8, <1>9, <1>10, <1>11, <1>12, <1>13 DEF Step

\* The locked store implements the abstract one: the rename is the instant at which
\* a call takes effect, and every other step is a step the abstract store may make.
THEOREM Refinement == ASSUME Syncers = {} PROVE Spec => ImplementsAtomicStore
<1>1. Init => Atomic!Init
  <2> SUFFICES ASSUME Init PROVE Atomic!Init
    OBVIOUS
  <2>1. {d \in Processes : pc[d] # "idle"} = {}
    BY DEF Init
  <2> QED
    BY <2>1 DEF Init, Atomic!Init
<1>2. Locked /\ [Next]_vars => [Atomic!Next]_(Atomic!vars)
  <2> SUFFICES ASSUME Locked, [Next]_vars PROVE [Atomic!Next]_(Atomic!vars)
    OBVIOUS
  <2>1. ASSUME NEW c \in Clients, Start(c) PROVE Atomic!Next
    <3> DEFINE op == <<c, calls[c] + 1>>
    <3>1. Typed /\ c \in Processes /\ calls[c] \in 0..MaxCalls
      BY DEF Locked, Typed, TypeOK, Processes
    <3>2. op \in Op
      BY <2>1, <3>1, StoreAssumption DEF Start, Op
    <3>3. InProgress' = InProgress \cup {op}
      BY <2>1, <3>1, EntersProgress DEF Start
    <3>4. op \notin file
      BY <3>1, StoreAssumption DEF Locked, FileIsPast
    <3>5. op \notin InProgress
      BY <2>1 DEF Start, InProgress
    <3>6. Atomic!Begin(op)
      BY <2>1, <3>3, <3>4, <3>5 DEF Start, Atomic!Begin, InProgress
    <3> QED
      BY <3>2, <3>6 DEF Atomic!Next, Atomic!Begin
  <2>2. ASSUME NEW c \in Clients, Step(c) PROVE [Atomic!Next]_(Atomic!vars)
    BY <2>2, StepRefines
  <2>3. ASSUME NEW c \in Clients, Die(c) PROVE Atomic!Next
    <3>1. Typed /\ c \in Processes
      BY DEF Locked, Processes
    <3>2. Call(c) \in InProgress /\ InProgress' = InProgress \ {Call(c)}
      BY <2>3, <3>1, LeavesProgress DEF Die
    <3>3. Atomic!Fail(Call(c))
      BY <2>3, <3>2 DEF Die, Atomic!Fail, InProgress
    <3> QED
      BY <2>3, <3>1, <3>3, CallInOp DEF Die, Atomic!Next, Atomic!Fail
  <2>4. CASE UNCHANGED vars
    BY <2>4 DEF vars, Atomic!vars
  <2> QED
    BY <2>1, <2>2, <2>3, <2>4 DEF Next
<1>3. Init => Locked
  BY LockedInit
<1>4. Locked /\ [Next]_vars => Locked'
  BY LockedStep
<1> QED
  BY <1>1, <1>2, <1>3, <1>4, PTL DEF Spec, ImplementsAtomicStore, Atomic!Spec
=============================================================================
