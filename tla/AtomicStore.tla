---------------------------- MODULE AtomicStore -----------------------------
(***************************************************************************)
(* What the task store promises its callers (lib/store.mjs, mutate): a     *)
(* call in progress takes effect at most once, at one instant, on top of   *)
(* everything that took effect before; a call that returned has taken      *)
(* effect; a call that is over has no effect afterwards; nothing that took *)
(* effect is ever undone.                                                  *)
(***************************************************************************)
CONSTANT Op          \* the calls of mutate

VARIABLES
    file,       \* the calls whose effect tasks.json holds
    running,    \* the calls in progress
    returned    \* the calls that returned to their caller

vars == <<file, running, returned>>

Init == file = {} /\ running = {} /\ returned = {}

Begin(op) ==
    /\ op \notin running \cup file
    /\ running' = running \cup {op}
    /\ UNCHANGED <<file, returned>>

Commit(op) ==
    /\ op \in running \ file
    /\ file' = file \cup {op}
    /\ UNCHANGED <<running, returned>>

Return(op) ==
    /\ op \in running \cap file
    /\ running' = running \ {op}
    /\ returned' = returned \cup {op}
    /\ UNCHANGED file

\* The call throws, or its process dies: its effect may be there or not.
Fail(op) ==
    /\ op \in running
    /\ running' = running \ {op}
    /\ UNCHANGED <<file, returned>>

Next == \E op \in Op : Begin(op) \/ Commit(op) \/ Return(op) \/ Fail(op)

Spec == Init /\ [][Next]_vars
=============================================================================
