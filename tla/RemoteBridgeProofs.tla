------------------------- MODULE RemoteBridgeProofs -------------------------
(***************************************************************************)
(* Proofs about RemoteBridge, for any runs, sessions, limits and faults.   *)
(***************************************************************************)
EXTENDS RemoteBridge, FiniteSetTheorems, TLAPS

-----------------------------------------------------------------------------
(* Type correctness                                                        *)

LEMMA SentIsResult ==
    ASSUME BridgeTypeOK, NEW r \in Runs, NEW c, NEW status \in {"succeeded", "failed"},
           SendResult(r, c, status)
    PROVE  wire' \subseteq Result
  BY DEF SendResult, BridgeTypeOK, Result

LEMMA EnteredType ==
    ASSUME BridgeTypeOK, NEW r \in Runs
    PROVE  Entered(r) \in [Jobs -> Runs \cup {None}]
  BY BridgeAssumption DEF Entered, BridgeTypeOK

LEMMA AbortedTypes ==
    ASSUME BridgeTypeOK, NEW R \in SUBSET Runs, Aborted(R)
    PROVE  /\ pc' \in [Runs -> {"new", "running", "leaked", "settled", "dead"}]
           /\ jobs' \in [Jobs -> Runs \cup {None}]
           /\ child' \in [Runs -> {"none", "alive", "killed"}]
           /\ lock' \in [Sessions -> Runs \cup {None}]
           /\ wire' \subseteq Result
  BY DEF Aborted, Forgotten, Unlocked, BridgeTypeOK, Result

LEMMA TypeInductive ==
    ASSUME BridgeTypeOK, [Next]_vars
    PROVE  BridgeTypeOK'
  <1>1. CASE Connection
    BY <1>1 DEF Connection, Dial, Opened, DialFails, Closed, Deliver, runVars,
                BridgeTypeOK, Result
  <1>2. ASSUME NEW r \in Runs, Start(r)
        PROVE  BridgeTypeOK'
    <2>1. CASE StartRefused(r)
      BY <2>1, SentIsResult DEF StartRefused, Arrives, BridgeTypeOK
    <2>2. CASE StartLeaks(r)
      BY <2>2, EnteredType DEF StartLeaks, Arrives, BridgeTypeOK
    <2>3. CASE StartFails(r)
      <3>1. wire' \subseteq Result
        BY <2>3, SentIsResult DEF StartFails
      <3>2. lock' \in [Sessions -> Runs \cup {None}]
        BY <2>3 DEF StartFails, BridgeTypeOK
      <3> QED
        BY <2>3, <3>1, <3>2 DEF StartFails, Arrives, BridgeTypeOK
    <2>4. CASE StartRuns(r)
      <3>1. jobs' \in [Jobs -> Runs \cup {None}]
        BY <2>4, EnteredType DEF StartRuns
      <3>2. /\ lock' \in [Sessions -> Runs \cup {None}]
            /\ tries' \in [Runs -> Nat]
        BY <2>4, BridgeAssumption DEF StartRuns, InUse, BridgeTypeOK
      <3> QED
        BY <2>4, <3>1, <3>2 DEF StartRuns, Arrives, BridgeTypeOK
    <2> QED
      BY <1>2, <2>1, <2>2, <2>3, <2>4 DEF Start
  <1>3. ASSUME NEW r \in Runs, Step(r)
        PROVE  BridgeTypeOK'
    <2>1. ASSUME NEW status \in {"succeeded", "failed"}, Settles(r, status)
          PROVE  BridgeTypeOK'
      BY <2>1, SentIsResult DEF Settles, Forgotten, Unlocked, BridgeTypeOK
    <2>2. CASE NextAccount(r)
      BY <2>2 DEF NextAccount, BridgeTypeOK
    <2>3. CASE ChildEnds(r)
      BY <2>3 DEF ChildEnds, BridgeTypeOK
    <2> QED
      BY <1>3, <2>1, <2>2, <2>3 DEF Step
  <1>4. ASSUME NEW j \in Jobs, Cancel(j)
        PROVE  BridgeTypeOK'
    <2>1. {jobs[j]} \in SUBSET Runs
      BY <1>4 DEF Cancel, Running
    <2> QED
      BY <1>4, <2>1, AbortedTypes DEF Cancel, BridgeTypeOK
  <1>5. CASE Stop
    <2>1. {jobs[j] : j \in Entries} \cap Running \in SUBSET Runs
      BY DEF Running
    <2> QED
      BY <1>5, <2>1, AbortedTypes DEF Stop, BridgeTypeOK
  <1>6. CASE Exit
    BY <1>6 DEF Exit, BridgeTypeOK
  <1>7. CASE Crash
    BY <1>7 DEF Crash, LocksLeft, BridgeTypeOK
  <1>8. CASE Restart
    BY <1>8 DEF Restart, runVars, BridgeTypeOK
  <1>9. CASE UNCHANGED vars
    BY <1>9 DEF vars, runVars, BridgeTypeOK
  <1> QED
    BY <1>1, <1>2, <1>3, <1>4, <1>5, <1>6, <1>7, <1>8, <1>9 DEF Next

(* Every reachable state of the bridge, of its children, of the lock files and of what *)
(* is under way to the server is well formed.                                          *)
THEOREM TypeCorrect == Spec => []BridgeTypeOK
  <1>1. Init => BridgeTypeOK
    BY DEF Init, BridgeTypeOK
  <1> QED
    BY <1>1, TypeInductive, PTL DEF Spec

-----------------------------------------------------------------------------
(* Sessions                                                                *)

(* A child nobody has told to stop, of this bridge or left over from one that died, is *)
(* covered by the lock file its run made.                                              *)
ChildHoldsLock ==
    \A r \in Runs : child[r] = "alive" /\ InUse(r) => lock[SessionOf[r]] = r

LEMMA ChildHoldsLockInductive ==
    ASSUME BridgeTypeOK, ChildHoldsLock, [Next]_vars
    PROVE  ChildHoldsLock'
  <1> USE DEF ChildHoldsLock, InUse
  <1>1. ASSUME child' = child, lock' = lock
        PROVE  ChildHoldsLock'
    BY <1>1
  <1>2. ASSUME NEW r \in Runs, StartFails(r) \/ StartRuns(r)
        PROVE  ChildHoldsLock'
    <2>1. CASE StartFails(r)
      BY <2>1, BridgeAssumption DEF StartFails, BridgeTypeOK
    <2>2. CASE StartRuns(r)
      BY <2>2, BridgeAssumption DEF StartRuns, LockFree, BridgeTypeOK
    <2> QED
      BY <1>2, <2>1, <2>2
  <1>3. ASSUME NEW r \in Runs, NEW status, Settles(r, status)
        PROVE  ChildHoldsLock'
    BY <1>3, BridgeAssumption DEF Settles, Unlocked, BridgeTypeOK
  <1>4. ASSUME NEW r \in Runs, ChildEnds(r)
        PROVE  ChildHoldsLock'
    BY <1>4 DEF ChildEnds, BridgeTypeOK
  <1>5. ASSUME NEW R, Aborted(R)
        PROVE  ChildHoldsLock'
    BY <1>5, BridgeAssumption DEF Aborted, Unlocked, BridgeTypeOK
  <1> QED
    BY <1>1, <1>2, <1>3, <1>4, <1>5
       DEF Next, Connection, Dial, Opened, DialFails, Closed, Deliver, Start, StartRefused,
           StartLeaks, Arrives, Step, NextAccount, Cancel, Stop, Exit, Crash, LocksLeft,
           Restart, runVars, vars

(* For any runs, cancellations, crashes and restarts: two children that were not told  *)
(* to stop are never at work in one session of the app.                                *)
THEOREM SessionsStayExclusive == Spec => []SessionExclusive
  <1>1. Init => BridgeTypeOK /\ ChildHoldsLock
    BY DEF Init, BridgeTypeOK, ChildHoldsLock
  <1>2. BridgeTypeOK /\ ChildHoldsLock /\ [Next]_vars => (BridgeTypeOK /\ ChildHoldsLock)'
    BY TypeInductive, ChildHoldsLockInductive
  <1>3. BridgeTypeOK /\ ChildHoldsLock => SessionExclusive
    BY DEF ChildHoldsLock, SessionExclusive, InUse
  <1> QED
    BY <1>1, <1>2, <1>3, PTL DEF Spec

-----------------------------------------------------------------------------
(* Cancellation and the limit                                              *)

JobsAreOwn == \A r, s \in Runs : JobOf[r] = JobOf[s] => r = s

(* A step of which the map and the places know nothing disturbs nothing; and the       *)
(* invariant holds when nothing runs.                                                  *)
LEMMA CancellableInductive ==
    ASSUME BridgeTypeOK, JobsAreOwn, RunIsCancellable, [Next]_vars
    PROVE  RunIsCancellable'
  <1> USE DEF RunIsCancellable, Running, JobsAreOwn
  <1>1. ASSUME jobs' = jobs, Running' \subseteq Running
        PROVE  RunIsCancellable'
    BY <1>1
  <1>2. ASSUME NEW r \in Runs, Start(r)
        PROVE  RunIsCancellable'
    <2>1. /\ pc[r] = "new" /\ JobOf[r] \in Jobs
          /\ jobs \in [Jobs -> Runs \cup {None}] /\ DOMAIN pc = Runs
      BY <1>2, BridgeAssumption
         DEF Start, StartRefused, StartLeaks, StartFails, StartRuns, Arrives, BridgeTypeOK
    <2>2. CASE StartRefused(r)
      BY <2>1, <2>2 DEF StartRefused
    <2>3. CASE StartLeaks(r)
      BY <2>1, <2>3, BridgeAssumption DEF StartLeaks, Entered
    <2>4. CASE StartFails(r)
      BY <2>1, <2>4, BridgeAssumption DEF StartFails
    <2>5. CASE StartRuns(r)
      BY <2>1, <2>5, BridgeAssumption DEF StartRuns, Entered
    <2> QED
      BY <1>2, <2>2, <2>3, <2>4, <2>5 DEF Start
  <1>3. ASSUME NEW r \in Runs, NEW status, Settles(r, status)
        PROVE  RunIsCancellable'
    BY <1>3, BridgeAssumption DEF Settles, Forgotten, BridgeTypeOK
  <1>4. ASSUME NEW R, R \subseteq Running, Aborted(R)
        PROVE  RunIsCancellable'
    BY <1>4, BridgeAssumption DEF Aborted, Forgotten, BridgeTypeOK
  <1>5. CASE Exit \/ Crash
    BY <1>5 DEF Exit, Crash
  <1>6. ASSUME NEW j \in Jobs, Cancel(j)
        PROVE  RunIsCancellable'
    BY <1>4, <1>6 DEF Cancel
  <1>7. CASE Stop
    BY <1>4, <1>7 DEF Stop
  <1> QED
    BY <1>1, <1>2, <1>3, <1>5, <1>6, <1>7
       DEF Next, Connection, Dial, Opened, DialFails, Closed, Deliver, Step, NextAccount,
           ChildEnds, Restart, runVars, vars

(* Where job ids are not used twice, a cancellation or a stop finds every run.         *)
THEOREM RunsStayCancellable == ASSUME JobsAreOwn PROVE Spec => []RunIsCancellable
  <1>1. Init => BridgeTypeOK /\ RunIsCancellable
    BY DEF Init, BridgeTypeOK, RunIsCancellable, Running
  <1>2. BridgeTypeOK /\ RunIsCancellable /\ [Next]_vars
        => (BridgeTypeOK /\ RunIsCancellable)'
    BY TypeInductive, CancellableInductive
  <1> QED
    BY <1>1, <1>2, PTL DEF Spec

(* The map never has more entries than the limit, whatever job ids are used.           *)
EntriesKept == IsFiniteSet(Entries) /\ Cardinality(Entries) <= MaxConcurrentJobs

LEMMA FewerEntries ==
    ASSUME EntriesKept, Entries' \subseteq Entries
    PROVE  EntriesKept'
  <1>1. /\ IsFiniteSet(Entries')
        /\ Cardinality(Entries') <= Cardinality(Entries)
    BY FS_Subset DEF EntriesKept
  <1>2. Cardinality(Entries) \in Nat /\ Cardinality(Entries') \in Nat
    BY <1>1, FS_CardinalityType DEF EntriesKept
  <1> QED
    BY <1>1, <1>2, BridgeAssumption DEF EntriesKept

LEMMA OneMoreEntry ==
    ASSUME EntriesKept, ~AtLimit, NEW j, Entries' \subseteq Entries \cup {j}
    PROVE  EntriesKept'
  <1>1. Cardinality(Entries) \in Nat /\ Cardinality(Entries) < MaxConcurrentJobs
    BY FS_CardinalityType, BridgeAssumption DEF EntriesKept, AtLimit
  <1>2. /\ IsFiniteSet(Entries \cup {j})
        /\ Cardinality(Entries \cup {j}) \in Nat
        /\ Cardinality(Entries \cup {j}) <= Cardinality(Entries) + 1
    BY <1>1, FS_AddElement, FS_CardinalityType DEF EntriesKept
  <1>3. /\ IsFiniteSet(Entries')
        /\ Cardinality(Entries') <= Cardinality(Entries \cup {j})
        /\ Cardinality(Entries') \in Nat
    BY <1>2, FS_Subset, FS_CardinalityType
  <1> QED
    BY <1>1, <1>2, <1>3, BridgeAssumption DEF EntriesKept

LEMMA EntriesInductive ==
    ASSUME BridgeTypeOK, EntriesKept, [Next]_vars
    PROVE  EntriesKept'
  <1>1. ASSUME jobs' = jobs
        PROVE  EntriesKept'
    BY <1>1, FewerEntries DEF Entries
  <1>2. ASSUME NEW R, jobs' = Forgotten(R)
        PROVE  EntriesKept'
    BY <1>2, FewerEntries DEF Entries, Forgotten
  <1>3. ASSUME NEW r \in Runs, StartLeaks(r) \/ StartRuns(r)
        PROVE  EntriesKept'
    <2>1. ~AtLimit /\ jobs' = Entered(r)
      BY <1>3 DEF StartLeaks, StartRuns
    <2>2. Entries' \subseteq Entries \cup {JobOf[r]}
      BY <2>1 DEF Entered, Entries, BridgeTypeOK
    <2> QED
      BY <2>1, <2>2, OneMoreEntry
  <1>4. ASSUME NEW r \in Runs, StartFails(r)
        PROVE  EntriesKept'
    BY <1>4, FewerEntries DEF StartFails, Entries, BridgeTypeOK
  <1>5. CASE Exit \/ Crash
    BY <1>5, FewerEntries DEF Exit, Crash, Entries
  <1> QED
    BY <1>1, <1>2, <1>3, <1>4, <1>5
       DEF Next, Connection, Dial, Opened, DialFails, Closed, Deliver, Start, StartRefused,
           Step, Settles, NextAccount, ChildEnds, Cancel, Stop, Aborted, Restart, runVars,
           vars

LEMMA RunningWithinEntries ==
    ASSUME BridgeTypeOK, JobsAreOwn, RunIsCancellable, EntriesKept
    PROVE  ConcurrencyKept
  <1> DEFINE f == [r \in Running |-> JobOf[r]]
  <1>1. f \in Injection(Running, Entries)
    BY BridgeAssumption
       DEF Injection, IsInjective, Running, Entries, JobsAreOwn, RunIsCancellable
  <1>2. IsFiniteSet(Running) /\ Cardinality(Running) <= Cardinality(Entries)
    BY <1>1, FS_Injection DEF EntriesKept
  <1>3. Cardinality(Running) \in Nat /\ Cardinality(Entries) \in Nat
    BY <1>2, FS_CardinalityType DEF EntriesKept
  <1> QED
    BY <1>2, <1>3, BridgeAssumption DEF EntriesKept, ConcurrencyKept

(* Where job ids are not used twice, no more runs are ever in progress than the        *)
(* configuration allows; with an id used twice there may be.                           *)
THEOREM ConcurrencyStaysKept == ASSUME JobsAreOwn PROVE Spec => []ConcurrencyKept
  <1>1. Init => BridgeTypeOK /\ EntriesKept
    <2>1. ASSUME Init
          PROVE  EntriesKept
      <3>1. Entries = {}
        BY <2>1 DEF Init, Entries
      <3> QED
        BY <3>1, FS_EmptySet, BridgeAssumption DEF EntriesKept
    <2> QED
      BY <2>1 DEF Init, BridgeTypeOK
  <1>2. BridgeTypeOK /\ EntriesKept /\ [Next]_vars => (BridgeTypeOK /\ EntriesKept)'
    BY TypeInductive, EntriesInductive
  <1>3. BridgeTypeOK /\ EntriesKept /\ RunIsCancellable => ConcurrencyKept
    BY RunningWithinEntries
  <1>4. Spec => []RunIsCancellable
    BY RunsStayCancellable
  <1> QED
    BY <1>1, <1>2, <1>3, <1>4, PTL DEF Spec

-----------------------------------------------------------------------------
(* Results                                                                 *)

(* Only settled runs have results, and no run came on a connection yet to be made.     *)
ResultInv ==
    /\ ResultNotLost
    /\ \A m \in wire \cup results : pc[m.run] = "settled"
    /\ \A r \in Runs : via[r] <= links

(* A set of runs that settle in one step, each sending its failure, or one of them     *)
(* sending what it was given.                                                          *)
LEMMA SettlingKeepsResults ==
    ASSUME BridgeTypeOK, ResultInv, NEW R, R \subseteq Runs,
           NEW status \in {"succeeded", "failed"},
           \A r \in R : pc[r] # "settled",
           pc' = [r \in Runs |-> IF r \in R THEN "settled" ELSE pc[r]],
           link' = link, links' = links, results' = results,
           via' \in [Runs -> Nat],
           \A r \in Runs : via'[r] = IF r \in R THEN via'[r] ELSE via[r],
           \A r \in Runs : via'[r] <= links,
           wire' = wire \cup {m \in Result : /\ m.run \in R
                                            /\ m.status = status
                                            /\ link = "open" /\ links = via'[m.run]}
    PROVE  ResultInv'
  <1> DEFINE sent == {m \in Result : /\ m.run \in R
                                     /\ m.status = status
                                     /\ link = "open" /\ links = via'[m.run]}
  <1>1. \A m \in wire \cup results : m \in Result /\ pc[m.run] = "settled" /\ m.run \notin R
    BY DEF ResultInv, BridgeTypeOK, Result
  <1>2. \A m \in sent : m \in Result /\ m.run \in R /\ m.status = status
    OBVIOUS
  <1>3. \A m, n \in Result : m.run = n.run /\ m.status = n.status => m = n
    BY DEF Result
  <1>4. (wire \cup results)' = (wire \cup results) \cup sent
    OBVIOUS
  <1>5. \A m, n \in (wire \cup results)' : m.run = n.run => m = n
    <2> SUFFICES ASSUME NEW m \in (wire \cup results)', NEW n \in (wire \cup results)',
                        m.run = n.run
                 PROVE  m = n
      OBVIOUS
    <2>1. CASE m \in sent
      <3>1. n \in sent
        BY <1>1, <1>2, <1>4, <2>1
      <3> HIDE DEF sent
      <3> QED
        BY <1>2, <1>3, <2>1, <3>1
    <2>2. CASE m \notin sent
      <3>1. m \in wire \cup results /\ n \in wire \cup results
        BY <1>1, <1>2, <1>4, <2>2
      <3> QED
        BY <3>1 DEF ResultInv, ResultNotLost
    <2> QED
      BY <2>1, <2>2
  <1>6. \A m \in (wire \cup results)' : pc'[m.run] = "settled"
    <2> HIDE DEF sent
    <2> QED
      BY <1>1, <1>2, <1>4 DEF Result
  <1>7. ASSUME NEW r \in Runs, pc'[r] = "settled", link' = "open", links' = via'[r]
        PROVE  \E m \in (wire \cup results)' : m.run = r
    <2>1. CASE r \in R
      <3> DEFINE mine == [run |-> r, status |-> status]
      <3>1. mine \in Result /\ mine.run = r /\ mine.status = status
        BY DEF Result
      <3>2. mine \in sent
        BY <1>7, <2>1, <3>1
      <3> HIDE DEF mine, sent
      <3> QED
        BY <1>4, <3>1, <3>2
    <2>2. CASE r \notin R
      <3>1. pc[r] = "settled" /\ via[r] = links
        BY <1>7, <2>2
      <3> QED
        BY <1>4, <1>7, <3>1 DEF ResultInv, ResultNotLost
    <2> QED
      BY <2>1, <2>2
  <1> QED
    BY <1>5, <1>6, <1>7 DEF ResultInv, ResultNotLost

(* What sendJson puts on the wire, as the set the lemma above speaks of.               *)
LEMMA SentAsSet ==
    ASSUME NEW r \in Runs, NEW c, NEW status \in {"succeeded", "failed"},
           NEW f, f[r] = c, SendResult(r, c, status)
    PROVE  wire' = wire \cup {m \in Result : /\ m.run \in {r}
                                            /\ m.status = status
                                            /\ link = "open" /\ links = f[m.run]}
  <1> DEFINE mine == [run |-> r, status |-> status]
             sent == {m \in Result : /\ m.run \in {r}
                                     /\ m.status = status
                                     /\ link = "open" /\ links = f[m.run]}
  <1>1. mine \in Result /\ mine.run = r /\ mine.status = status
    BY DEF Result
  <1>2. \A m \in Result : m.run = r /\ m.status = status => m = mine
    BY DEF Result
  <1>3. sent = IF link = "open" /\ links = c THEN {mine} ELSE {}
    <2> HIDE DEF mine
    <2> QED
      BY <1>1, <1>2
  <1> QED
    BY <1>3 DEF SendResult

LEMMA ResultInductive ==
    ASSUME BridgeTypeOK, ResultInv, [Next]_vars
    PROVE  ResultInv'
  <1> USE DEF ResultInv, ResultNotLost, BridgeTypeOK
  <1>1. CASE Connection
    <2>1. CASE Dial \/ DialFails \/ Opened
      BY <1>1, <2>1 DEF Dial, DialFails, Opened, runVars
    <2>2. CASE Closed
      BY <2>2 DEF Closed, runVars
    <2>3. ASSUME NEW m \in Result, Deliver(m)
          PROVE  ResultInv'
      BY <2>3 DEF Deliver, runVars
    <2> QED
      BY <1>1, <2>1, <2>2, <2>3 DEF Connection
  <1>2. ASSUME NEW r \in Runs, Start(r)
        PROVE  ResultInv'
    <2>1. /\ pc[r] = "new" /\ link = "open" /\ link' = link /\ links' = links
          /\ via' = [via EXCEPT ![r] = links] /\ results' = results
      BY <1>2 DEF Start, StartRefused, StartLeaks, StartFails, StartRuns, Arrives
    <2>2. CASE StartRefused(r) \/ StartFails(r)
      <3>1. /\ SendResult(r, links, "failed") /\ via'[r] = links
            /\ pc' = [s \in Runs |-> IF s \in {r} THEN "settled" ELSE pc[s]]
        BY <2>1, <2>2 DEF StartRefused, StartFails
      <3>2. wire' = wire \cup {m \in Result : /\ m.run \in {r}
                                             /\ m.status = "failed"
                                             /\ link = "open" /\ links = via'[m.run]}
        BY <3>1, SentAsSet
      <3>3. /\ via' \in [Runs -> Nat]
            /\ \A s \in Runs : via'[s] = IF s \in {r} THEN via'[s] ELSE via[s]
            /\ \A s \in Runs : via'[s] <= links
            /\ \A s \in {r} : pc[s] # "settled"
        BY <2>1
      <3>4. {r} \subseteq Runs /\ "failed" \in {"succeeded", "failed"}
        OBVIOUS
      <3> HIDE DEF ResultInv, ResultNotLost, BridgeTypeOK
      <3> QED
        BY <2>1, <3>1, <3>2, <3>3, <3>4, SettlingKeepsResults
    <2>3. CASE StartLeaks(r)
      BY <2>1, <2>3 DEF StartLeaks, Result
    <2>4. CASE StartRuns(r)
      BY <2>1, <2>4 DEF StartRuns, Result
    <2> QED
      BY <1>2, <2>2, <2>3, <2>4 DEF Start
  <1>3. ASSUME NEW r \in Runs, NEW status \in {"succeeded", "failed"}, Settles(r, status)
        PROVE  ResultInv'
    <2>1. /\ pc[r] = "running" /\ UNCHANGED <<link, links, via, results>>
          /\ pc' = [s \in Runs |-> IF s \in {r} THEN "settled" ELSE pc[s]]
          /\ SendResult(r, via[r], status)
      BY <1>3 DEF Settles
    <2>2. wire' = wire \cup {m \in Result : /\ m.run \in {r}
                                           /\ m.status = status
                                           /\ link = "open" /\ links = via'[m.run]}
      BY <2>1, SentAsSet
    <2>3. \A s \in {r} : pc[s] # "settled"
      BY <2>1
    <2> QED
      BY <2>1, <2>2, <2>3, SettlingKeepsResults
  <1>4. ASSUME NEW r \in Runs, NextAccount(r) \/ ChildEnds(r)
        PROVE  ResultInv'
    BY <1>4 DEF NextAccount, ChildEnds
  <1>5. ASSUME NEW R, R \subseteq Running, Aborted(R),
               UNCHANGED <<link, links, via, results>>
        PROVE  ResultInv'
    <2>1. /\ R \subseteq Runs
          /\ \A r \in R : pc[r] # "settled"
      BY <1>5 DEF Running
    <2> QED
      BY <1>5, <2>1, SettlingKeepsResults DEF Aborted
  <1>6. ASSUME NEW j \in Jobs, Cancel(j)
        PROVE  ResultInv'
    BY <1>5, <1>6 DEF Cancel
  <1>7. CASE Stop
    BY <1>5, <1>7 DEF Stop
  <1>8. CASE Exit \/ Restart \/ UNCHANGED vars
    BY <1>8 DEF Exit, Restart, runVars, vars
  <1>9. CASE Crash
    BY <1>9 DEF Crash, Result
  <1> QED
    BY <1>1, <1>2, <1>3, <1>4, <1>6, <1>7, <1>8, <1>9 DEF Next, Step

(* A run that settled has one result, and it is with the server or under way, unless   *)
(* the connection the job came on is gone.                                             *)
THEOREM ResultsAreNotLost == Spec => []ResultNotLost
  <1>1. Init => BridgeTypeOK /\ ResultInv
    BY DEF Init, BridgeTypeOK, ResultInv, ResultNotLost
  <1>2. BridgeTypeOK /\ ResultInv /\ [Next]_vars => (BridgeTypeOK /\ ResultInv)'
    BY TypeInductive, ResultInductive
  <1>3. ResultInv => ResultNotLost
    BY DEF ResultInv
  <1> QED
    BY <1>1, <1>2, <1>3, PTL DEF Spec
=============================================================================
