--------------------------- MODULE CompletionGate ---------------------------
(***************************************************************************)
(* The completion gate of the axi-todo ledger: may a task be marked        *)
(* completed, or must it be held in awaiting_audit?  The gate is written   *)
(* twice in the repository, in lib/completion-gate.mjs for the Node store  *)
(* and in AxiTodoGate.swift for the desktop bridge.                        *)
(*                                                                         *)
(* An optional JavaScript field is modelled as a value of Opt(S), where    *)
(* Unset stands for undefined and for the blank string.                    *)
(***************************************************************************)

CONSTANTS
    Contracts,   \* evidence contracts a task may declare
    Commands,    \* verify commands a task may declare
    Unset        \* JavaScript's undefined

Opt(S) == S \cup {Unset}

AuditLevels == {"none", "standard", "strict"}

(***************************************************************************)
(* A verification record as the ledger stores it.  `command' is a history  *)
(* field, not stored by the code: the verify command whose exit status the *)
(* record reports.                                                         *)
(***************************************************************************)
NoVerification == [status |-> Unset, checkedAt |-> 0, command |-> Unset]

OrElse(a, b) == IF a # Unset THEN a ELSE b

-----------------------------------------------------------------------------
(* lib/completion-gate.mjs: evaluateCompletion(task, result)               *)

RequiresEvidence(contract, level) ==
    contract # Unset /\ level \in {"standard", "strict"}

\* A declared verify command without a verification, or with a failed one.
VerificationHolds(task, verification) ==
    /\ task.verifyCommand # Unset
    /\ verification.status \in {Unset, "failed"}

\* The gate's decision: TRUE when the task must be held in awaiting_audit.
\* Every field of `result' may be Unset; the task's own value then applies.
GateHolds(task, result) ==
    LET contract == OrElse(result.contract, task.contract)
        seen     == OrElse(result.contractSeen, task.contractSeen)
        level    == OrElse(result.level, task.level)
        missing  == OrElse(result.evidenceMissing, task.evidenceMissing)
    IN  /\ task.domain # "personal"
        /\ \/ VerificationHolds(task, OrElse(result.verification, task.verification))
           \/ /\ RequiresEvidence(contract, level)
              /\ (seen # Unset /\ seen # contract) \/ missing

\* The result a caller passes when it only supplies a verification.
OnlyVerification(v) ==
    [contract |-> Unset, contractSeen |-> Unset, level |-> Unset,
     evidenceMissing |-> Unset, verification |-> v]

-----------------------------------------------------------------------------
(* AxiTodoGate.swift: evaluateAxiTodoCompletion(task:)                     *)

SwiftGateHolds(task) ==
    /\ task.domain # "personal"
    /\ \/ /\ task.verifyCommand # Unset
          /\ task.verification.status = Unset \/ task.verification.status = "failed"
       \/ /\ task.contract # Unset
          /\ task.level = "standard" \/ task.level = "strict"
          /\ \/ task.contractSeen # Unset /\ task.contractSeen # task.contract
             \/ task.evidenceMissing
=============================================================================
