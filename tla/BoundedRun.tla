----------------------------- MODULE BoundedRun -----------------------------
(***************************************************************************)
(* Bounded Agent runs of the workstation API (api/workstation.py): each    *)
(* request is authorized, announced to the workflow's event sink, run in a *)
(* worker thread (asyncio.to_thread) and reported to the sink.  The thread *)
(* issues itself a capability at the process-wide CapabilityBroker and     *)
(* spends it (axi_agent_mcp_client.py); the capability's id depends on the *)
(* tool and its arguments alone, so equal actions share an id.             *)
(*                                                                         *)
(* A capability is named by the request that issued it, and a broker by    *)
(* the request whose thread built it.  The requests' routes and signatures *)
(* are abstracted to whether the guard accepts them; a guard is built for  *)
(* each request, so its step budget never refuses one.  The request schema *)
(* admits no tool but the two that are allowed (schemas/workstation.py:43) *)
(* and the default manifest lists both, so no run is refused for its tool. *)
(***************************************************************************)
EXTENDS FiniteSets, Integers

CONSTANTS
    Requests,
    AgentTasks,
    Actions,    \* pairs of a tool and its arguments
    TaskOf,     \* the agentTaskId of each request
    ActionOf,   \* the action of each request
    Faults,     \* the requests whose sink, thread or subprocess may fail
    Restarts,   \* whether the process may die and start again
    Unset

ASSUME RequestAssumption ==
    /\ IsFiniteSet(Requests)
    /\ TaskOf \in [Requests -> AgentTasks]
    /\ ActionOf \in [Requests -> Actions]
    /\ Faults \subseteq Requests
    /\ Restarts \in BOOLEAN
    /\ Unset \notin Requests \cup {"passed", "rejected", "agent_mcp_unavailable"}

VARIABLES
    pc,         \* where each request is; an HTTP status where it has ended
    enabled,    \* whether an event sink is configured; without one publish does nothing
    sink,       \* the lifecycle events the sink has accepted
    broker,     \* the global _runtime_broker
    caps,       \* _caps of each broker: the capability under each id
    uses,       \* uses of each capability
    issuedAt,   \* issued_at of each capability, as its rank; 0 if not issued
    home,       \* the broker each request issued its capability in
    desk,       \* the broker each request's thread obtained last
    found,      \* the capability each request's thread looked up
    called,     \* requests whose MCP call was dispatched
    answer      \* what the MCP call of each request gave

brokerVars == <<broker, caps, uses, issuedAt, home, desk, found>>
callVars == <<called, answer>>
vars == <<pc, enabled, sink, brokerVars, callVars>>

Opt(S) == S \cup {Unset}

Ends == {"200", "409", "500", "503", "lost"}
Inside == {"authorized", "started", "building", "issuing", "issued", "seeking",
           "holding", "granted", "calling", "answered", "down"}

Ended(r) == pc[r] \in Ends

Events == [task : AgentTasks, type : {"started", "completed", "failed"},
           errorCode : Opt({"agent_mcp_unavailable"})]

EventOf(r, type) == [task |-> TaskOf[r], type |-> type, errorCode |-> Unset]

Goto(r, where) == pc' = [pc EXCEPT ![r] = where]

-----------------------------------------------------------------------------
(* The request's coroutine                                                 *)

\* authorize_bounded_run accepts the route and its credential, or does not.
Authorize(r) ==
    /\ pc[r] = "received"
    /\ Goto(r, "authorized")
    /\ UNCHANGED <<enabled, sink, brokerVars, callVars>>

Refuse(r) ==
    /\ pc[r] = "received"
    /\ Goto(r, "409")
    /\ UNCHANGED <<enabled, sink, brokerVars, callVars>>

\* Without a sink, publish returns.  With one it raises whether the sink has taken the
\* event or not: a time-out, or the trace sink's refusal, comes after it has.
Publish(r, event, accepted, refused) ==
    /\ \/ ~enabled /\ sink' = sink /\ Goto(r, accepted)
       \/ enabled /\ sink' = sink \cup {event} /\ Goto(r, accepted)
       \/ /\ enabled
          /\ r \in Faults
          /\ sink' \in {sink, sink \cup {event}}
          /\ Goto(r, refused)
    /\ UNCHANGED <<enabled, brokerVars, callVars>>

\* Mutant: a lost announcement does not stop the run.
PublishStartedAnyway(r) ==
    pc[r] = "authorized" /\ Publish(r, EventOf(r, "started"), "started", "started")

PublishStarted(r) ==
    pc[r] = "authorized" /\ Publish(r, EventOf(r, "started"), "started", "503")

\* Mutant: any answer of the tool is a success.
AnswerIsSuccess(r) == answer[r] # Unset

Passed(r) == answer[r] = "passed"

\* After the try: a refusal of the sink is not caught.
PublishEnd(r) ==
    /\ pc[r] = "answered"
    /\ Publish(r, EventOf(r, IF Passed(r) THEN "completed" ELSE "failed"), "200", "500")

\* In the handler of AxiAgentMcpClientError.
PublishDown(r) ==
    /\ pc[r] = "down"
    /\ Publish(r, [EventOf(r, "failed") EXCEPT !.errorCode = "agent_mcp_unavailable"],
               "503", "500")

-----------------------------------------------------------------------------
(* Its thread                                                              *)

\* get_runtime_broker, called once to issue and once to consume.
Obtain(r) ==
    /\ pc[r] \in {"started", "issued"}
    /\ IF broker = Unset
       THEN Goto(r, "building") /\ UNCHANGED desk
       ELSE /\ desk' = [desk EXCEPT ![r] = broker]
            /\ Goto(r, IF pc[r] = "started" THEN "issuing" ELSE "seeking")
    /\ UNCHANGED <<enabled, sink, broker, caps, uses, issuedAt, home, found, callVars>>

\* The broker is assigned without looking again whether there is one, and then returned
\* as the global then is.
Build(r) ==
    /\ pc[r] = "building"
    /\ broker' = r
    /\ Goto(r, "started")
    /\ UNCHANGED <<enabled, sink, caps, uses, issuedAt, home, desk, found, callVars>>

Issued == {r \in Requests : issuedAt[r] # 0}

\* Mutant: an id that was issued before keeps its capability.
IssuedOnce(b, action, r) ==
    [caps EXCEPT ![b][action] = IF @ = Unset THEN r ELSE @]

\* _caps[capability_id] = cap: a new capability takes the place of an earlier one.
IssuedIn(b, action, r) == [caps EXCEPT ![b][action] = r]

Issue(r) ==
    /\ pc[r] = "issuing"
    /\ caps' = IssuedIn(desk[r], ActionOf[r], r)
    /\ issuedAt' = [issuedAt EXCEPT ![r] = Cardinality(Issued) + 1]
    /\ home' = [home EXCEPT ![r] = desk[r]]
    /\ Goto(r, "issued")
    /\ UNCHANGED <<enabled, sink, broker, uses, desk, found, callVars>>

\* consume finds the capability under the id.
Lookup(r) ==
    /\ pc[r] = "seeking"
    /\ found' = [found EXCEPT ![r] = caps[desk[r]][ActionOf[r]]]
    /\ Goto(r, IF found'[r] = Unset THEN "500" ELSE "holding")
    /\ UNCHANGED <<enabled, sink, broker, caps, uses, issuedAt, home, desk, callVars>>

\* Mutant: the check is off by one.
ExhaustedLate(cap) == uses[cap] > 1

Exhausted(cap) == uses[cap] >= 1

\* consume looks at the uses, and then counts its own: nothing locks the two, and the
\* interpreter may change threads at the jump between them.
Grant(r) ==
    /\ pc[r] = "holding"
    /\ ~Exhausted(found[r])
    /\ Goto(r, "granted")
    /\ UNCHANGED <<enabled, sink, brokerVars, callVars>>

Spend(r) ==
    /\ pc[r] = "granted"
    /\ uses' = [uses EXCEPT ![found[r]] = @ + 1]
    /\ called' = called \cup {r}
    /\ Goto(r, "calling")
    /\ UNCHANGED <<enabled, sink, broker, caps, issuedAt, home, desk, found, answer>>

\* The exceptions of consume are no AxiAgentMcpClientError, and nothing catches them.
FailToConsume(r) ==
    /\ pc[r] = "holding"
    /\ Exhausted(found[r]) \/ r \in Faults    \* a fault: half a minute has passed
    /\ Goto(r, "500")
    /\ UNCHANGED <<enabled, sink, brokerVars, callVars>>

\* Mutant: an error response is taken for an answer.
AnswerUnchecked(r) ==
    /\ pc[r] = "calling"
    /\ \E a \in {"passed", "rejected", "error"} : answer' = [answer EXCEPT ![r] = a]
    /\ Goto(r, "answered")
    /\ UNCHANGED <<enabled, sink, brokerVars, called>>

\* The MCP subprocess answers.
Answer(r) ==
    /\ pc[r] = "calling"
    /\ \E a \in {"passed", "rejected"} : answer' = [answer EXCEPT ![r] = a]
    /\ Goto(r, "answered")
    /\ UNCHANGED <<enabled, sink, brokerVars, called>>

\* Mutant: a read without a timeout can only reject what it has read.
NeverTimeOut(r) ==
    /\ pc[r] = "calling" /\ answer[r] # Unset
    /\ Goto(r, "down")
    /\ UNCHANGED <<enabled, sink, brokerVars, callVars>>

\* _readline_with_timeout, a closed pipe or an error response: AxiAgentMcpClientError.
TimeOut(r) ==
    /\ pc[r] = "calling"
    /\ Goto(r, "down")
    /\ UNCHANGED <<enabled, sink, brokerVars, callVars>>

\* The subprocess cannot be started or written to, or does not die: another exception.
Break(r) ==
    /\ pc[r] = "calling" /\ r \in Faults
    /\ Goto(r, "500")
    /\ UNCHANGED <<enabled, sink, brokerVars, callVars>>

\* The process dies with its requests and its broker, and is started again, with another
\* configuration perhaps.
Restart ==
    /\ Restarts
    /\ pc' = [r \in Requests |-> IF pc[r] \in Inside THEN "lost" ELSE pc[r]]
    /\ broker' = Unset
    /\ enabled' \in BOOLEAN
    /\ UNCHANGED <<sink, caps, uses, issuedAt, home, desk, found, callVars>>

-----------------------------------------------------------------------------

Init ==
    /\ pc = [r \in Requests |-> "received"]
    /\ enabled \in BOOLEAN
    /\ sink = {}
    /\ broker = Unset
    /\ caps = [b \in Requests |-> [a \in Actions |-> Unset]]
    /\ uses = [r \in Requests |-> 0]
    /\ issuedAt = [r \in Requests |-> 0]
    /\ home = [r \in Requests |-> Unset]
    /\ desk = [r \in Requests |-> Unset]
    /\ found = [r \in Requests |-> Unset]
    /\ called = {}
    /\ answer = [r \in Requests |-> Unset]

\* What a request that was authorized does by itself.
Advance(r) ==
    \/ PublishStarted(r) \/ PublishEnd(r) \/ PublishDown(r)
    \/ Obtain(r) \/ Build(r) \/ Issue(r) \/ Lookup(r)
    \/ Grant(r) \/ Spend(r) \/ FailToConsume(r) \/ TimeOut(r)

Next ==
    \/ \E r \in Requests :
          Authorize(r) \/ Refuse(r) \/ Advance(r) \/ Answer(r) \/ Break(r)
    \/ Restart

\* Coroutines and threads go on, and every wait but the one for the MCP subprocess ends.
Spec == Init /\ [][Next]_vars /\ \A r \in Requests : WF_vars(Advance(r))

-----------------------------------------------------------------------------
(* Properties                                                              *)

TypeOK ==
    /\ pc \in [Requests -> {"received"} \cup Inside \cup Ends]
    /\ enabled \in BOOLEAN
    /\ sink \subseteq Events
    /\ broker \in Opt(Requests)
    /\ caps \in [Requests -> [Actions -> Opt(Requests)]]
    /\ uses \in [Requests -> Nat]
    /\ issuedAt \in [Requests -> Nat]
    /\ home \in [Requests -> Opt(Requests)]
    /\ desk \in [Requests -> Opt(Requests)]
    /\ found \in [Requests -> Opt(Requests)]
    /\ called \subseteq Requests
    /\ answer \in [Requests -> {Unset, "passed", "rejected"}]

\* A capability a call was made with is granted to no other thread, though equal actions
\* share the id it is found under.  (Threads that looked at its uses before the first of
\* them counted its own do share it: capability_broker.py:226-230 is not atomic.)
SpentIsRefused ==
    [][\A r \in Requests :
          pc[r] = "holding" /\ pc'[r] = "granted" =>
              \A q \in called : found[q] # found[r]]_vars

\* A thread that comes back to the broker it issued in finds its own capability or a
\* newer one, never what an earlier run has spent: a repeated action is not refused
\* for having been done before.
LookupIsFresh ==
    \A r \in Requests :
        found[r] # Unset /\ desk[r] = home[r] => issuedAt[found[r]] >= issuedAt[r]

\* Where a sink is configured, a tool runs only after the sink has accepted the run's start.
CallsAreAnnounced ==
    \A r \in Requests : enabled /\ pc[r] = "calling" => EventOf(r, "started") \in sink

\* What the sink was told a tool gave for a task is what a call for that task gave; a
\* failure with an error code tells of no answer.
EventsMatchAnswers ==
    \A e \in sink : e.type \in {"completed", "failed"} /\ e.errorCode = Unset =>
        \E r \in called :
            /\ TaskOf[r] = e.task
            /\ answer[r] = IF e.type = "completed" THEN "passed" ELSE "rejected"

\* Every authorized request ends, even when the MCP subprocess never answers.
EveryRunEnds ==
    \A r \in Requests : pc[r] = "authorized" ~> Ended(r)
=============================================================================
