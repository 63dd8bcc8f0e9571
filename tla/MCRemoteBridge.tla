--------------------------- MODULE MCRemoteBridge ---------------------------
(* Instances of RemoteBridge for TLC.                                      *)
EXTENDS RemoteBridge

CONSTANTS r1, r2, r3, r4, s1, j1, j2, j3, j4

\* Every job.start has a job_id of its own.
OwnJobs == [r \in Runs |-> IF r = r1 THEN j1 ELSE IF r = r2 THEN j2 ELSE IF r = r3 THEN j3 ELSE j4]

\* r1 and r2 go to the same session, the others to the account pool.
TwoInSession == [r \in Runs |-> IF r \in {r1, r2} THEN s1 ELSE Managed]
=============================================================================
