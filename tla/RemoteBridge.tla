---------------------------- MODULE RemoteBridge ----------------------------
(***************************************************************************)
(* The sidecar of infra/codex-remote-bridge: one process that keeps a      *)
(* connection to a server and runs the jobs the server starts, each by a   *)
(* Codex child process, either under up to MaxAccounts managed accounts in *)
(* turn, or in a session of the Codex app under that session's lock file.  *)
(*                                                                         *)
(* The process handles one event at a time.  What follows an event without *)
(* another one in between (promise callbacks, finally blocks) is one step  *)
(* with it: when a child exits or a job is cancelled, the lock file is     *)
(* removed, the result sent and the job forgotten in that step.  A child   *)
(* that was told to stop goes on until it exits.  The process may be       *)
(* killed and started again; lock files and children stay.                 *)
(*                                                                         *)
(* A run is one job.start message.  A lock file is named by the run that   *)
(* made it.                                                                *)
(***************************************************************************)
EXTENDS Naturals, FiniteSets

CONSTANTS
    Runs,
    Jobs,
    JobOf,              \* the job_id of each run's message
    Sessions,           \* Codex app sessions, and directories for new ones
    SessionOf,          \* the session of each run, or Managed
    Managed,            \* runs of this kind use the account pool
    MaxConcurrentJobs,
    MaxAccounts,        \* accounts tried for one job
    MaxLinks,           \* bound on the connections made
    MaxStarts,          \* bound on the starts of the process
    DiskFaults,         \* whether writing to the data directory may fail
    None

ASSUME BridgeAssumption ==
    /\ IsFiniteSet(Runs)
    /\ JobOf \in [Runs -> Jobs]
    /\ SessionOf \in [Runs -> Sessions \cup {Managed}]
    /\ Managed \notin Sessions
    /\ None \notin Runs
    /\ MaxConcurrentJobs \in Nat \ {0}
    /\ MaxAccounts \in Nat \ {0} /\ MaxLinks \in Nat /\ MaxStarts \in Nat
    /\ DiskFaults \in BOOLEAN

VARIABLES
    process,    \* "up", "stopping" after a signal, or "down"
    starts,     \* how often the process was started
    link,       \* state of the connection
    links,      \* how many connections were opened: the number of the latest
    jobs,       \* the Map of abort controllers
    pc,         \* where each run is
    via,        \* the connection each run was started on
    tries,      \* accounts left to each run, the one in use included
    child,      \* the child process of each run
    lock,       \* the lock file of each session: the run that made it, or None
    wire,       \* results on their way to the server
    results     \* results the server has received

runVars == <<jobs, pc, tries, child, lock>>
vars == <<process, starts, link, links, jobs, pc, via, tries, child, lock, wire, results>>

Result == [run : Runs, status : {"succeeded", "failed"}]

Running == {r \in Runs : pc[r] = "running"}

InUse(r) == SessionOf[r] # Managed

-----------------------------------------------------------------------------
(* The connection                                                          *)

\* runBridge goes round: a new connection unless a stop was requested.
Dial ==
    /\ process = "up"
    /\ link = "none"
    /\ links < MaxLinks
    /\ link' = "opening"
    /\ UNCHANGED <<process, starts, links, runVars, via, wire, results>>

Opened ==
    /\ link = "opening"
    /\ link' = "open"
    /\ links' = links + 1
    /\ UNCHANGED <<process, starts, runVars, via, wire, results>>

DialFails ==
    /\ link = "opening"
    /\ link' = "none"
    /\ UNCHANGED <<process, starts, links, runVars, via, wire, results>>

\* The connection breaks, or the guard closes it after a stop request: what is under
\* way is lost.
Closed ==
    /\ link = "open"
    /\ link' = "none"
    /\ wire' = {}
    /\ UNCHANGED <<process, starts, links, runVars, via, results>>

Deliver(m) ==
    /\ m \in wire
    /\ wire' = wire \ {m}
    /\ results' = results \cup {m}
    /\ UNCHANGED <<process, starts, link, links, runVars, via>>

\* Mutant: a bridge that was told to stop sends no results.
SendIfUp(r, c, status) ==
    wire' = IF process = "up" /\ link = "open" /\ links = c
            THEN wire \cup {[run |-> r, status |-> status]}
            ELSE wire

\* sendJson drops what the connection of the run's message cannot take any more.
SendResult(r, c, status) ==
    wire' = IF link = "open" /\ links = c
            THEN wire \cup {[run |-> r, status |-> status]}
            ELSE wire

-----------------------------------------------------------------------------
(* Jobs                                                                    *)

Entries == {j \in Jobs : jobs[j] # None}

\* Mutant: the limit is exceeded by one.
AtLimitOff == Cardinality(Entries) > MaxConcurrentJobs

AtLimit == Cardinality(Entries) >= MaxConcurrentJobs

Arrives(r) ==
    /\ link = "open"
    /\ pc[r] = "new"
    /\ via' = [via EXCEPT ![r] = links]
    /\ UNCHANGED <<process, starts, link, links, results>>

\* startJob: local_concurrency_limit.
StartRefused(r) ==
    /\ AtLimit
    /\ Arrives(r)
    /\ pc' = [pc EXCEPT ![r] = "settled"]
    /\ SendResult(r, links, "failed")
    /\ UNCHANGED <<jobs, tries, child, lock>>

\* Mutant: the map holds the id in place of the controller.
EnteredById(r) == [jobs EXCEPT ![JobOf[r]] = JobOf[r]]

\* jobs.set(jobId, controller), whatever was there
Entered(r) == [jobs EXCEPT ![JobOf[r]] = r]

\* The status file cannot be written: startJob throws between jobs.set and the run.
StartLeaks(r) ==
    /\ DiskFaults
    /\ ~AtLimit
    /\ Arrives(r)
    /\ pc' = [pc EXCEPT ![r] = "leaked"]
    /\ jobs' = Entered(r)
    /\ UNCHANGED <<tries, child, lock, wire>>

\* The run fails before it has a child: no usable account, no such session, a directory
\* that is not allowed, or a lock file that is there.  If the output directory cannot be
\* made, the lock file has been made already and stays.
StartFails(r) ==
    /\ ~AtLimit
    /\ Arrives(r)
    /\ pc' = [pc EXCEPT ![r] = "settled"]
    /\ jobs' = [jobs EXCEPT ![JobOf[r]] = None]
    /\ SendResult(r, links, "failed")
    /\ \/ UNCHANGED lock
       \/ /\ DiskFaults
          /\ InUse(r)
          /\ lock[SessionOf[r]] = None
          /\ lock' = [lock EXCEPT ![SessionOf[r]] = r]
    /\ UNCHANGED <<tries, child>>

\* openSync(lockPath, "wx")
LockFree(r) == InUse(r) => lock[SessionOf[r]] = None

\* Locked where it has a session, the run spawns its (first) child.
StartRuns(r) ==
    /\ ~AtLimit
    /\ Arrives(r)
    /\ LockFree(r)
    /\ pc' = [pc EXCEPT ![r] = "running"]
    /\ jobs' = Entered(r)
    /\ child' = [child EXCEPT ![r] = "alive"]
    /\ IF InUse(r)
       THEN /\ lock' = [lock EXCEPT ![SessionOf[r]] = r]
            /\ UNCHANGED tries
       ELSE /\ \E n \in 1..MaxAccounts : tries' = [tries EXCEPT ![r] = n]
            /\ UNCHANGED lock
    /\ UNCHANGED wire

\* What a set of runs leaves behind when it ends in one step.
Unlocked(R) == [s \in Sessions |-> IF lock[s] \in R THEN None ELSE lock[s]]

\* Mutant: all jobs are forgotten with the one that ended.
ForgottenAll(R) == [j \in Jobs |-> None]

Forgotten(R) == [j \in Jobs |-> IF \E r \in R : JobOf[r] = j THEN None ELSE jobs[j]]

\* The child exits; status is what the run makes of it.  readLastMessage may fail a run
\* whose child succeeded.
Settles(r, status) ==
    /\ process # "down"
    /\ pc[r] = "running"
    /\ pc' = [pc EXCEPT ![r] = "settled"]
    /\ jobs' = Forgotten({r})
    /\ child' = [child EXCEPT ![r] = "none"]
    /\ lock' = Unlocked({r})
    /\ SendResult(r, via[r], status)
    /\ UNCHANGED <<process, starts, link, links, via, tries, results>>

\* shouldRetryCodexAccountFailure: the account is used up, and the next one is tried.
NextAccount(r) ==
    /\ process # "down"
    /\ pc[r] = "running"
    /\ ~InUse(r)
    /\ tries[r] > 1
    /\ tries' = [tries EXCEPT ![r] = @ - 1]
    /\ UNCHANGED <<process, starts, link, links, jobs, pc, via, child, lock, wire, results>>

\* An abort ends the runs that listen for it; their children are told to stop.
Aborted(R) ==
    /\ pc' = [r \in Runs |-> IF r \in R THEN "settled" ELSE pc[r]]
    /\ jobs' = Forgotten(R)
    /\ child' = [r \in Runs |-> IF r \in R THEN "killed" ELSE child[r]]
    /\ lock' = Unlocked(R)
    /\ wire' = wire \cup {m \in Result : /\ m.run \in R
                                         /\ m.status = "failed"
                                         /\ link = "open" /\ links = via[m.run]}

\* job.cancel for a job in the map.
Cancel(j) ==
    /\ link = "open"
    /\ jobs[j] \in Running
    /\ Aborted({jobs[j]})
    /\ UNCHANGED <<process, starts, link, links, via, tries, results>>

\* A killed child exits, or one whose bridge is gone.
ChildEnds(r) ==
    /\ \/ child[r] = "killed"
       \/ child[r] = "alive" /\ pc[r] = "dead"
    /\ child' = [child EXCEPT ![r] = "none"]
    /\ UNCHANGED <<process, starts, link, links, jobs, pc, via, tries, lock, wire, results>>

-----------------------------------------------------------------------------
(* The process                                                             *)

\* SIGTERM or SIGINT.
Stop ==
    /\ process = "up"
    /\ process' = "stopping"
    /\ Aborted({jobs[j] : j \in Entries} \cap Running)
    /\ UNCHANGED <<starts, link, links, via, tries, results>>

\* The event loop is empty: no connection, no run, no child.
Exit ==
    /\ process = "stopping"
    /\ link = "none"
    /\ Running = {}
    /\ \A r \in Runs : child[r] # "killed"
    /\ process' = "down"
    /\ jobs' = [j \in Jobs |-> None]
    /\ UNCHANGED <<starts, link, links, pc, via, tries, child, lock, wire, results>>

\* Mutant: a dying process takes its lock files with it.
LocksSwept == [s \in Sessions |-> None]

\* A dead process leaves its lock files where they are.
LocksLeft == lock

\* The process is killed, or an exception nobody handles ends it.
Crash ==
    /\ process # "down"
    /\ process' = "down"
    /\ link' = "none"
    /\ wire' = {}
    /\ jobs' = [j \in Jobs |-> None]
    /\ pc' = [r \in Runs |-> IF pc[r] \in {"running", "leaked"} THEN "dead" ELSE pc[r]]
    /\ lock' = LocksLeft
    /\ UNCHANGED <<starts, links, via, tries, child, results>>

\* launchd keeps it alive, or a user starts it.
Restart ==
    /\ process = "down"
    /\ starts < MaxStarts
    /\ starts' = starts + 1
    /\ process' = "up"
    /\ UNCHANGED <<link, links, runVars, via, wire, results>>

-----------------------------------------------------------------------------

Init ==
    /\ process = "down"
    /\ starts = 0
    /\ link = "none"
    /\ links = 0
    /\ jobs = [j \in Jobs |-> None]
    /\ pc = [r \in Runs |-> "new"]
    /\ via = [r \in Runs |-> 0]
    /\ tries = [r \in Runs |-> 0]
    /\ child = [r \in Runs |-> "none"]
    /\ lock = [s \in Sessions |-> None]
    /\ wire = {}
    /\ results = {}

Start(r) == StartRefused(r) \/ StartLeaks(r) \/ StartFails(r) \/ StartRuns(r)

Connection == Dial \/ Opened \/ DialFails \/ Closed \/ \E m \in Result : Deliver(m)

Step(r) ==
    \/ \E status \in {"succeeded", "failed"} : Settles(r, status)
    \/ NextAccount(r)
    \/ ChildEnds(r)

Next ==
    \/ Connection
    \/ \E r \in Runs : Start(r) \/ Step(r)
    \/ \E j \in Jobs : Cancel(j)
    \/ Stop \/ Exit \/ Crash \/ Restart

Spec == Init /\ [][Next]_vars

-----------------------------------------------------------------------------
(* Properties                                                              *)

\* The bridge's records are well formed.
BridgeTypeOK ==
    /\ process \in {"up", "stopping", "down"}
    /\ starts \in Nat /\ links \in Nat
    /\ link \in {"none", "opening", "open"}
    /\ jobs \in [Jobs -> Runs \cup {None}]
    /\ pc \in [Runs -> {"new", "running", "leaked", "settled", "dead"}]
    /\ via \in [Runs -> Nat]
    /\ tries \in [Runs -> Nat]
    /\ child \in [Runs -> {"none", "alive", "killed"}]
    /\ lock \in [Sessions -> Runs \cup {None}]
    /\ wire \subseteq Result /\ results \subseteq Result

\* Two children that nobody has told to stop never work in one session of the app, not
\* even when one of them is left over from a bridge that died: its lock file is too.
SessionExclusive ==
    \A r, s \in Runs :
        /\ r # s
        /\ InUse(r)
        /\ SessionOf[r] = SessionOf[s]
        => ~(child[r] = "alive" /\ child[s] = "alive")

\* Where job ids are not used twice, a run in progress is in the map under its id, so
\* that a cancellation or a stop finds it, ...
RunIsCancellable == \A r \in Running : jobs[JobOf[r]] = r

\* ... and there are never more of them than maxConcurrentJobs.
ConcurrencyKept == Cardinality(Running) <= MaxConcurrentJobs

\* The result of a run is under way or has arrived, unless the connection the job came
\* on is closed; and no run has two different results.
ResultNotLost ==
    /\ \A r \in Runs : pc[r] = "settled" =>
          \/ \E m \in wire \cup results : m.run = r
          \/ link # "open"
          \/ links # via[r]
    /\ \A m, n \in wire \cup results : m.run = n.run => m = n
=============================================================================
