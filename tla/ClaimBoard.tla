----------------------------- MODULE ClaimBoard -----------------------------
(***************************************************************************)
(* What claiming a task promises, whichever store keeps the ledger: tasks  *)
(* become running one at a time, each while it shares no key with a task   *)
(* that is running, and what a task locks does not change while it runs.   *)
(***************************************************************************)
EXTENDS FiniteSets

CONSTANT Tasks

VARIABLES
    running,    \* the tasks marked running
    keys        \* what each task locks while it runs

vars == <<running, keys>>

Init == running = {}

Claim(t) ==
    /\ t \notin running
    /\ \A u \in running : keys[t] \cap keys[u] = {}
    /\ running' = running \cup {t}
    /\ UNCHANGED keys

\* Finished, failed, taken back or requeued.
Release(R) ==
    /\ running' = running \ R
    /\ UNCHANGED keys

Declare(t) ==
    /\ t \notin running
    /\ \A u \in Tasks \ {t} : keys'[u] = keys[u]
    /\ UNCHANGED running

Next ==
    \/ \E t \in Tasks : Claim(t) \/ Declare(t)
    \/ \E R \in SUBSET running : Release(R)

Spec == Init /\ [][Next]_vars
=============================================================================
