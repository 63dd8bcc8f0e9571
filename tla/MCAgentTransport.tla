-------------------------- MODULE MCAgentTransport --------------------------
(* Instances of AgentTransport for TLC.                                    *)
EXTENDS AgentTransport

CONSTANTS main, worker, rm, rw, ma, wa, wb

IdDef == [r \in Runners |-> IF r = rm THEN main ELSE worker]

OwnerDef == [c \in Conns |-> IF c = ma THEN rm ELSE rw]

\* A worker's response goes to the main agent, alone or after the broadcast it asks for.
ResponsesDef ==
    [i \in Ids |-> IF i = main THEN {<<worker>>, <<All>>} ELSE {<<main>>, <<All, main>>}]

\* Only the worker responds, with as many messages as overflow its queue, or with two that
\* are queued and one that follows when it has connected again.
SayDef == [r \in Runners |-> IF r = rw THEN 3 ELSE 0]
=============================================================================
