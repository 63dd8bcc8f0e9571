----------------------------- MODULE StoreLock ------------------------------
(***************************************************************************)
(* The steps of TaskStore.mutate (lib/store.mjs): take the lock file, read *)
(* tasks.json, compute, replace it atomically, remove the lock file.  The  *)
(* Swift store of the desktop app takes the same steps on the same files.  *)
(* Clients are processes (CLI, MCP server, daemon, desktop app); they may  *)
(* die at any step, and a file operation may fail.                         *)
(*                                                                         *)
(* Syncers are runs of the two maintenance tools that read and write       *)
(* tasks.json without the lock.                                            *)
(*                                                                         *)
(* The n-th call of client c is <<c, n>>, and the contents of tasks.json   *)
(* are the calls whose effect they include.                                *)
(***************************************************************************)
EXTENDS Naturals

CONSTANTS
    Clients,
    Syncers,
    MaxCalls,      \* bound on the calls of each client
    MaxRetries,    \* LOCK_TIMEOUT_MS / LOCK_RETRY_MS
    Faults         \* whether processes may die and file operations may fail

ASSUME StoreAssumption ==
    /\ MaxCalls \in Nat /\ MaxRetries \in Nat
    /\ Faults \in BOOLEAN
    /\ Clients \cap Syncers = {}

VARIABLES
    lockFile,   \* whether tasks.json.lock exists
    file,       \* the contents of tasks.json
    pc,         \* where each client or syncer is
    copy,       \* the state it read
    calls,      \* the number of its calls so far
    retries,    \* how often the call found the lock taken
    returned    \* the calls that returned to their caller

vars == <<lockFile, file, pc, copy, calls, retries, returned>>

Processes == Clients \cup Syncers

Op == Processes \X (1..MaxCalls)

Call(c) == <<c, calls[c]>>

Phases == {"idle", "opening", "opened", "locked", "read", "threw", "written"}

Goto(c, phase) == pc' = [pc EXCEPT ![c] = phase]

-----------------------------------------------------------------------------

Start(c) ==
    /\ pc[c] = "idle"
    /\ calls[c] < MaxCalls
    /\ Goto(c, "opening")
    /\ calls' = [calls EXCEPT ![c] = @ + 1]
    /\ retries' = [retries EXCEPT ![c] = 0]
    /\ UNCHANGED <<lockFile, file, copy, returned>>

\* Mutant: the lock file is opened without the exclusive flag.
OpenShared(c) ==
    /\ pc[c] = "opening"
    /\ lockFile' = TRUE
    /\ Goto(c, "opened")
    /\ UNCHANGED <<file, copy, calls, retries, returned>>

\* fs.open(lockPath, "wx") succeeds.
Open(c) ==
    /\ pc[c] = "opening"
    /\ ~lockFile
    /\ lockFile' = TRUE
    /\ Goto(c, "opened")
    /\ UNCHANGED <<file, copy, calls, retries, returned>>

\* Mutant: a waiting call never gives up.
NeverGivesUp(c) == FALSE

GivesUp(c) == retries[c] >= MaxRetries

\* Mutant: the time a call has waited is never looked at.
RetryForever(c) ==
    /\ pc[c] = "opening"
    /\ lockFile
    /\ retries' = [retries EXCEPT ![c] = @ + 1]
    /\ UNCHANGED <<lockFile, file, pc, copy, calls, returned>>

\* The lock file exists, and the time is not up.
Retry(c) ==
    /\ pc[c] = "opening"
    /\ lockFile
    /\ ~GivesUp(c)
    /\ retries' = [retries EXCEPT ![c] = IF @ < MaxRetries THEN @ + 1 ELSE @]
    /\ UNCHANGED <<lockFile, file, pc, copy, calls, returned>>

\* Mutant: a call whose time is up goes on without the lock.
GoOnUnlocked(c) ==
    /\ pc[c] = "opening"
    /\ lockFile
    /\ GivesUp(c)
    /\ Goto(c, "locked")
    /\ UNCHANGED <<lockFile, file, copy, calls, retries, returned>>

TimeOut(c) ==
    /\ pc[c] = "opening"
    /\ lockFile
    /\ GivesUp(c)
    /\ Goto(c, "idle")
    /\ UNCHANGED <<lockFile, file, copy, calls, retries, returned>>

\* The pid is written into the lock file.
WriteOwner(c) ==
    /\ pc[c] = "opened"
    /\ Goto(c, "locked")
    /\ UNCHANGED <<lockFile, file, copy, calls, retries, returned>>

\* That write fails: the error leaves withFileLock before the try block that
\* would remove the lock file.
OwnerWriteFails(c) ==
    /\ Faults
    /\ pc[c] = "opened"
    /\ Goto(c, "idle")
    /\ UNCHANGED <<lockFile, file, copy, calls, retries, returned>>

Read(c) ==
    /\ pc[c] = "locked"
    /\ copy' = [copy EXCEPT ![c] = file]
    /\ Goto(c, "read")
    /\ UNCHANGED <<lockFile, file, calls, retries, returned>>

\* The mutator throws (an unknown task, a running task to delete), or the
\* temporary file cannot be written.
Throw(c) ==
    /\ pc[c] = "read"
    /\ Goto(c, "threw")
    /\ UNCHANGED <<lockFile, file, copy, calls, retries, returned>>

\* Mutant: the file is replaced by the new record alone.
ReplaceAll(c) ==
    /\ pc[c] = "read"
    /\ file' = {Call(c)}
    /\ Goto(c, "written")
    /\ UNCHANGED <<lockFile, copy, calls, retries, returned>>

\* writeJsonAtomic: rename replaces tasks.json in one step.
Replace(c) ==
    /\ pc[c] = "read"
    /\ file' = copy[c] \cup {Call(c)}
    /\ Goto(c, "written")
    /\ UNCHANGED <<lockFile, copy, calls, retries, returned>>

\* The finally block removes the lock file, or fails to and ignores it.
Release(c) ==
    /\ pc[c] \in {"threw", "written"}
    /\ lockFile' = FALSE \/ (Faults /\ UNCHANGED lockFile)
    /\ returned' = IF pc[c] = "written" THEN returned \cup {Call(c)} ELSE returned
    /\ Goto(c, "idle")
    /\ UNCHANGED <<file, copy, calls, retries>>

\* The process dies; its lock file stays, and a process that starts again has
\* no memory of the call.
Die(c) ==
    /\ Faults
    /\ pc[c] # "idle"
    /\ Goto(c, "idle")
    /\ UNCHANGED <<lockFile, file, copy, calls, retries, returned>>

-----------------------------------------------------------------------------
(* axi-todo-sync-pg-to-json --apply and axi-todo-recheck-completed --apply *)

SyncRead(s) ==
    /\ pc[s] = "idle"
    /\ calls[s] < MaxCalls
    /\ calls' = [calls EXCEPT ![s] = @ + 1]
    /\ copy' = [copy EXCEPT ![s] = file]
    /\ Goto(s, "read")
    /\ UNCHANGED <<lockFile, file, retries, returned>>

SyncWrite(s) ==
    /\ pc[s] = "read"
    /\ file' = copy[s] \cup {Call(s)}
    /\ returned' = returned \cup {Call(s)}
    /\ Goto(s, "idle")
    /\ UNCHANGED <<lockFile, copy, calls, retries>>

-----------------------------------------------------------------------------

Init ==
    /\ lockFile = FALSE
    /\ file = {}
    /\ pc = [c \in Processes |-> "idle"]
    /\ copy = [c \in Processes |-> {}]
    /\ calls = [c \in Processes |-> 0]
    /\ retries = [c \in Processes |-> 0]
    /\ returned = {}

\* What a client does of itself once it has called mutate.
Step(c) ==
    \/ Open(c) \/ Retry(c) \/ TimeOut(c)
    \/ WriteOwner(c) \/ OwnerWriteFails(c)
    \/ Read(c) \/ Throw(c) \/ Replace(c) \/ Release(c)

Next ==
    \/ \E c \in Clients : Start(c) \/ Step(c) \/ Die(c)
    \/ \E s \in Syncers : SyncRead(s) \/ SyncWrite(s)

Spec == Init /\ [][Next]_vars

\* A process that has begun a call goes on with it, unless it dies.
FairSpec == Spec /\ \A c \in Clients : WF_vars(Step(c))

-----------------------------------------------------------------------------

TypeOK ==
    /\ lockFile \in BOOLEAN
    /\ file \subseteq Op
    /\ pc \in [Processes -> Phases]
    /\ copy \in [Processes -> SUBSET Op]
    /\ calls \in [Processes -> 0..MaxCalls]
    /\ retries \in [Processes -> 0..MaxRetries]
    /\ returned \subseteq Op

Holding == {"opened", "locked", "read", "threw", "written"}

\* At most one client is between taking the lock file and removing it, and the
\* file is there as long as it is.
OneHolder ==
    \A c, d \in Clients :
        pc[c] \in Holding => lockFile /\ (pc[d] \in Holding => c = d)

\* No call that returned to its caller is missing from tasks.json: no update is
\* lost to a concurrent one, whoever dies or fails in between.
ReturnedIsKept == returned \subseteq file

Atomic == INSTANCE AtomicStore
    WITH running <- {<<c, calls[c]>> : c \in {d \in Processes : pc[d] # "idle"}}

\* The store is atomic: the locked steps implement the abstract store.
ImplementsAtomicStore == Atomic!Spec

\* Every call comes to an end, even behind a lock file nobody will ever remove.
EveryCallEnds == \A c \in Clients : pc[c] # "idle" ~> pc[c] = "idle"
=============================================================================
