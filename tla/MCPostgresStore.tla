-------------------------- MODULE MCPostgresStore ---------------------------
(* Instances of PostgresStore for TLC.                                     *)
EXTENDS PostgresStore

CONSTANTS t1, t2, t3, k1, k2, g1, c1, c2

\* A daemon, and a process that serves users and runs tasks too.
CallsDef ==
    [c \in Clients |->
        IF c = c1 THEN {"claim", "reconcile", "complete", "audit"}
        ELSE {"claim", "fail", "mark", "update", "delete", "audit", "pass"}]

RankDef == [t \in Tasks |-> IF t = t1 THEN 1 ELSE IF t = t2 THEN 2 ELSE 3]

\* t1 and t2 work in one directory, t3 in another.
KeysDef == [t \in Tasks |-> IF t = t3 THEN {k2} ELSE {k1}]

\* t3 comes after t1.
DepsDef == [t \in Tasks |-> IF t = t3 THEN {t1} ELSE {}]

\* t1 and t3 share a lane.
GroupDef == [t \in Tasks |-> IF t = t2 THEN None ELSE g1]

\* Only t3 minds how many of its lane are running.
CapDef == [t \in Tasks |-> IF t = t3 THEN 2 ELSE 0]
=============================================================================
