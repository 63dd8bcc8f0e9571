---------------------------- MODULE MCBoundedRun ----------------------------
(* Instances of BoundedRun for TLC.                                        *)
EXTENDS BoundedRun

CONSTANTS r1, r2, j1, a1

\* The workflow sends a task twice, with the same tool and arguments.
TaskDef == [r \in Requests |-> j1]

ActionDef == [r \in Requests |-> a1]
=============================================================================
