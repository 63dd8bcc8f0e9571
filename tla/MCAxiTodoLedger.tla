-------------------------- MODULE MCAxiTodoLedger ---------------------------
(* Instances of AxiTodoLedger for TLC: the tasks users create, and the     *)
(* patches they apply, in each run.                                        *)
EXTENDS AxiTodoLedger

CONSTANTS t1, t2, t3, k1, k2, k3, g1, c1, v1

\* taskSort takes t1 first.
RankDef == [t \in Tasks |-> IF t = t1 THEN 1 ELSE IF t = t2 THEN 2 ELSE 3]

Pending == [BlankTask EXCEPT !.status = "pending", !.maxAttempts = 2, !.cwd = k1]

\* One working directory; t1 is tried once and not verified, t2 is held for audit or not.
LastChanceTemplates ==
    [t \in Tasks |-> {IF t = t1 THEN [Pending EXCEPT !.maxAttempts = 1]
                      ELSE [Pending EXCEPT !.contract = c1, !.level = "standard"]}]

\* t1 works in k1; t2 names k1 as its resource and has the worktree key k3; t3 waits for t2,
\* has that worktree too, and shares t1's lane.  A worktree's key is never a directory's.
WorktreeTemplates ==
    [t \in Tasks |-> {[Pending EXCEPT !.cwd = IF t = t1 THEN k1 ELSE k2,
                                      !.keys = IF t = t2 THEN {k1} ELSE {},
                                      !.worktree = IF t = t1 THEN {} ELSE {k3},
                                      !.deps = IF t = t3 THEN {t2} ELSE {},
                                      !.group = IF t = t2 THEN Unset ELSE g1,
                                      !.groupLimit = IF t = t2 THEN Unset ELSE 1]}]

\* Strictly audited, and verified.
AuditedTemplates ==
    [t \in Tasks |-> {[Pending EXCEPT !.verifyCommand = v1, !.contract = c1,
                                      !.level = "strict"]}]

\* Audited, not verified.
EvidenceTemplates ==
    [t \in Tasks |-> {[Pending EXCEPT !.contract = c1, !.level = "standard"]}]

NoPatches == {}

\* What the desktop's and the MCP server's users do to a task's status.
StatusPatches == {StatusPatch("pending"), StatusPatch("completed"), StatusPatch("cancelled")}

\* The same, and a patch that blanks a title.
UserPatches == StatusPatches \cup {[NoPatch EXCEPT !.title = Blank]}

\* A task is done by hand, or put back.
HandPatches == {StatusPatch("pending"), StatusPatch("completed")}
=============================================================================
