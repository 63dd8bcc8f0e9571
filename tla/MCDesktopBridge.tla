-------------------------- MODULE MCDesktopBridge ---------------------------
(* Instances of DesktopBridge for TLC.                                     *)
EXTENDS DesktopBridge

CONSTANTS t1, t2, k1, g1, c1, v1

\* taskSort takes t1 first.
RankDef == [t \in Tasks |-> IF t = t1 THEN 1 ELSE 2]

Pending == [BlankTask EXCEPT !.status = "pending", !.maxAttempts = 2]

\* A task may be held for its evidence, or one the app itself submits.
MixedTemplates ==
    [t \in Tasks |-> {Pending, [Pending EXCEPT !.contract = c1, !.level = "standard"]}]

\* Another title, and a verify command.
EditsDef == {NoPatch, [NoPatch EXCEPT !.verifyCommand = v1]}

RequeuePatches == {StatusPatch("pending")}
=============================================================================
