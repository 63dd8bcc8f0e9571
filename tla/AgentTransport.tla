--------------------------- MODULE AgentTransport ---------------------------
(***************************************************************************)
(* infra/axi-agent-transport: the broker (orchestrator.js) and the runners *)
(* (agent-runner.js), one process per terminal pane, that register with it *)
(* under an agent id and exchange messages through it.                     *)
(*                                                                         *)
(* A connection carries frames in order both ways.  When it breaks, what   *)
(* is under way is lost and each end learns of it in its own time; when a  *)
(* runner closes it or exits, the broker still reads what was sent.        *)
(* Nothing keeps two runners from having one id: start.js opens a pane for *)
(* every id, while runners of an earlier start may still be reconnecting.  *)
(*                                                                         *)
(* Notices that agents joined or left, and streamed output, are only       *)
(* printed or dropped: they are left out.                                  *)
(***************************************************************************)
EXTENDS Naturals, Sequences

CONSTANTS
    Ids,                \* agent ids
    All,                \* the address of a broadcast
    Runners,            \* runner processes
    IdOf,               \* the id each was started with
    Conns,              \* connections, used again once both ends are done with them
    OwnerOf,            \* the runner that dials each connection
    Responses,          \* where the messages of one response may go, by id
    WsQueueMax,         \* WS_QUEUE_MAX
    WsReconnectMaxAttempts,
    SayBound,           \* bound on the messages each runner sends
    Breakable,          \* bound on breaks: the connections that may break by themselves
    None

ASSUME TransportAssumption ==
    /\ IdOf \in [Runners -> Ids]
    /\ OwnerOf \in [Conns -> Runners]
    /\ Responses \in [Ids -> SUBSET Seq(Ids \cup {All})]
    /\ WsQueueMax \in Nat \ {0} /\ WsReconnectMaxAttempts \in Nat
    /\ SayBound \in [Runners -> Nat]
    /\ Breakable \subseteq Conns
    /\ None \notin Conns /\ All \notin Ids

VARIABLES
    orch,       \* the broker process
    agents,     \* its map from ids to connections
    known,      \* connections that have registered (their agentId is set)
    contested,  \* ids this broker has known two connections of at a time (history)
    serv,       \* the broker's end of each connection
    sock,       \* the runner's end
    up,         \* frames on the way to the broker
    down,       \* frames on the way to the runner
    proc,       \* the runner processes
    due,        \* runners for which connectOrchestrator is due
    attempts,   \* wsReconnectAttempts
    queue,      \* wsQueue
    said,       \* how many messages each runner has sent
    heard       \* the number of the last message each runner took from each other

broker == <<orch, agents, known, contested, serv>>
runner == <<proc, due, attempts, queue, said, heard>>
vars == <<broker, sock, up, down, runner>>

Frame == [kind : {"register", "message", "close", "shutdown"},
          from : Runners \cup {None}, n : Nat, to : Ids \cup {All, None}]

Plain(kind, r) == [kind |-> kind, from |-> r, n |-> 0, to |-> None]

Id(c) == IdOf[OwnerOf[c]]

Listening == orch = "up"

-----------------------------------------------------------------------------
(* Runners                                                                 *)

Start(r) ==
    /\ proc[r] = "off"
    /\ proc' = [proc EXCEPT ![r] = "running"]
    /\ due' = due \cup {r}
    /\ UNCHANGED <<broker, sock, up, down, attempts, queue, said, heard>>

\* connectOrchestrator, at the start and when the back-off has passed, which a shutdown
\* does not stop.
Dial(c) ==
    /\ OwnerOf[c] \in due
    /\ due' = due \ {OwnerOf[c]}
    /\ serv[c] = "none"
    /\ sock' = [sock EXCEPT ![c] = "dialling"]
    /\ UNCHANGED <<broker, up, down, proc, attempts, queue, said, heard>>

\* Mutant: a runner that connects again does not register again.
HelloOnce(r) == IF said[r] = 0 THEN <<Plain("register", r)>> ELSE << >>

Hello(r) == <<Plain("register", r)>>

\* Mutant: what is sent on opening stays in the queue.
StaysQueued(r) == queue[r]

\* wsQueue.splice(0)
LeftQueued(r) == << >>

\* Registers, then sends what has been queued.
Open(c) ==
    LET r == OwnerOf[c] IN
    /\ sock[c] = "dialling"
    /\ Listening
    /\ sock' = [sock EXCEPT ![c] = "open"]
    /\ serv' = [serv EXCEPT ![c] = "open"]
    /\ attempts' = [attempts EXCEPT ![r] = 0]
    /\ up' = [up EXCEPT ![c] = Hello(r) \o queue[r]]
    /\ queue' = [queue EXCEPT ![r] = LeftQueued(r)]
    /\ UNCHANGED <<orch, agents, known, contested, down, proc, due, said, heard>>

OpenConn(r) == {c \in Conns : OwnerOf[c] = r /\ sock[c] = "open"}

\* gracefulShutdown: what was sent before the close frame is still read.
Bye(r) ==
    /\ proc' = [proc EXCEPT ![r] = "stopping"]
    /\ sock' = [c \in Conns |->
                   IF OwnerOf[c] # r THEN sock[c]
                   ELSE IF sock[c] = "open" THEN "closing"
                   ELSE IF sock[c] = "dialling" THEN "none" ELSE sock[c]]
    /\ up' = [c \in Conns |->
                 IF c \in OpenConn(r) THEN Append(up[c], Plain("close", r)) ELSE up[c]]

\* Mutant: the attempt that fails is not counted.
NotCounted(r) == attempts[r]

Counted(r) == attempts[r] + 1

\* The close event of a connection, also of one that was refused.
Disconnected(c) ==
    LET r == OwnerOf[c] IN
    /\ down' = [down EXCEPT ![c] = << >>]
    /\ sock' = [sock EXCEPT ![c] = "none"]
    /\ IF proc[r] = "running"
       THEN /\ attempts' = [attempts EXCEPT ![r] = Counted(r)]
            /\ IF Counted(r) > WsReconnectMaxAttempts
               THEN proc' = [proc EXCEPT ![r] = "stopping"] /\ UNCHANGED due
               ELSE due' = due \cup {r} /\ UNCHANGED proc
       ELSE UNCHANGED <<attempts, proc, due>>
    /\ UNCHANGED <<broker, up, queue, said, heard>>

Refused(c) ==
    /\ sock[c] = "dialling"
    /\ ~Listening
    /\ Disconnected(c)

Lost(c) ==
    /\ sock[c] = "ended"
    /\ Disconnected(c)

\* Mutant: a full queue takes one more message before it drops the oldest.
KeptOneMore(q) ==
    IF Len(q) <= WsQueueMax + 1 THEN q ELSE SubSeq(q, Len(q) - WsQueueMax, Len(q))

\* The oldest messages are dropped.
Kept(q) ==
    IF Len(q) <= WsQueueMax THEN q ELSE SubSeq(q, Len(q) - WsQueueMax + 1, Len(q))

\* wsSend, for the messages of a response or of a line the user typed.
Say(r, dests) ==
    LET batch == [k \in 1..Len(dests) |->
                     [kind |-> "message", from |-> r, n |-> said[r] + k, to |-> dests[k]]]
    IN
    /\ proc[r] \in {"running", "stopping"}
    /\ said[r] + Len(dests) <= SayBound[r]
    /\ said' = [said EXCEPT ![r] = @ + Len(dests)]
    /\ IF OpenConn(r) # {}
       THEN /\ up' = [c \in Conns |->
                         IF c \in OpenConn(r) THEN up[c] \o batch ELSE up[c]]
            /\ UNCHANGED queue
       ELSE /\ queue' = [queue EXCEPT ![r] = Kept(@ \o batch)]
            /\ UNCHANGED up
    /\ UNCHANGED <<broker, sock, down, proc, due, attempts, heard>>

\* handleWsMessage
Receive(c) ==
    LET r == OwnerOf[c]  m == Head(down[c]) IN
    /\ sock[c] = "open"
    /\ down[c] # << >>
    /\ down' = [down EXCEPT ![c] = Tail(@)]
    /\ IF m.kind = "shutdown"
       THEN Bye(r) /\ UNCHANGED heard
       ELSE /\ heard' = [heard EXCEPT ![r][m.from] = m.n]
            /\ UNCHANGED <<proc, sock, up>>
    /\ UNCHANGED <<broker, due, attempts, queue, said>>

\* SIGTERM, or the main pane's input ends.
Shutdown(r) ==
    /\ proc[r] = "running"
    /\ Bye(r)
    /\ UNCHANGED <<broker, down, due, attempts, queue, said, heard>>

\* The time of gracefulShutdown is over, or the executor has exited.
Exit(r) ==
    /\ proc[r] \in {"running", "stopping"}
    /\ proc' = [proc EXCEPT ![r] = "gone"]
    /\ up' = [c \in Conns |->
                 IF c \in OpenConn(r) THEN Append(up[c], Plain("close", r)) ELSE up[c]]
    /\ sock' = [c \in Conns |-> IF OwnerOf[c] = r THEN "none" ELSE sock[c]]
    /\ down' = [c \in Conns |-> IF OwnerOf[c] = r THEN << >> ELSE down[c]]
    /\ queue' = [queue EXCEPT ![r] = << >>]
    /\ due' = due \ {r}
    /\ UNCHANGED <<broker, attempts, said, heard>>

-----------------------------------------------------------------------------
(* The broker                                                              *)

Registered(c) ==
    /\ agents' = [agents EXCEPT ![Id(c)] = c]
    /\ known' = known \cup {c}
    /\ contested' = contested \cup {Id(d) : d \in {d \in known \ {c} : Id(d) = Id(c)}}
    /\ UNCHANGED <<serv, down>>

\* The connections a message goes to: the one its id maps to, or those of all other ids.
Targets(m) ==
    {c \in Conns :
        /\ agents[Id(c)] = c
        /\ IF m.to = All THEN Id(c) # IdOf[m.from] ELSE Id(c) = m.to}

\* What is sent on a connection nobody reads any more is lost.
Sent(m, cs) ==
    down' = [c \in Conns |->
                IF c \in cs /\ serv[c] = "open" /\ sock[c] = "open"
                THEN Append(down[c], m) ELSE down[c]]

\* Mutant: the entry of the map stays when its connection closes.
StaysMapped(c) == agents

\* Whatever connection it maps to by now, the id is deleted.
Unmapped(c) == IF c \in known THEN [agents EXCEPT ![Id(c)] = None] ELSE agents

Gone(c) ==
    /\ agents' = Unmapped(c)
    /\ known' = known \ {c}
    /\ serv' = [serv EXCEPT ![c] = "none"]
    /\ UNCHANGED contested

Handle(c) ==
    LET m == Head(up[c]) IN
    /\ serv[c] = "open"
    /\ up[c] # << >>
    /\ up' = [up EXCEPT ![c] = Tail(@)]
    /\ \/ /\ m.kind = "register"
          /\ Registered(c)
          /\ UNCHANGED sock
       \/ /\ m.kind = "message"
          /\ Sent(m, Targets(m))
          /\ UNCHANGED <<agents, known, contested, serv, sock>>
       \/ /\ m.kind = "close"
          /\ Gone(c)
          /\ sock' = [sock EXCEPT ![c] = "none"]
          /\ down' = [down EXCEPT ![c] = << >>]
    /\ UNCHANGED <<orch, runner>>

\* The broker learns that a connection has broken.
Closed(c) ==
    /\ serv[c] = "ended"
    /\ Gone(c)
    /\ UNCHANGED <<orch, sock, up, down, runner>>

\* SIGTERM, SIGINT: nothing more is accepted, and who is connected stays so.
Stop ==
    /\ orch = "up"
    /\ orch' = "closing"
    /\ Sent(Plain("shutdown", None), {c \in Conns : agents[Id(c)] = c})
    /\ UNCHANGED <<agents, known, contested, serv, sock, up, runner>>

\* The broker exits once nobody is connected.
Closes ==
    /\ orch = "closing"
    /\ \A c \in Conns : serv[c] = "none"
    /\ orch' = "down"
    /\ UNCHANGED <<agents, known, contested, serv, sock, up, down, runner>>

Broken(c) ==
    IF sock[c] \in {"open", "closing"} THEN "ended" ELSE sock[c]

\* The broker is killed.
Crash ==
    /\ orch # "down"
    /\ orch' = "down"
    /\ agents' = [i \in Ids |-> None]
    /\ known' = {}
    /\ serv' = [c \in Conns |-> "none"]
    /\ sock' = [c \in Conns |-> Broken(c)]
    /\ up' = [c \in Conns |-> << >>]
    /\ down' = [c \in Conns |-> << >>]
    /\ UNCHANGED <<contested, runner>>

\* start.js is started again.
Restart ==
    /\ orch = "down"
    /\ orch' = "up"
    /\ contested' = {}
    /\ UNCHANGED <<agents, known, serv, sock, up, down, runner>>

\* A connection breaks.
Cut(c) ==
    /\ c \in Breakable
    /\ serv[c] = "open" /\ sock[c] = "open"
    /\ serv' = [serv EXCEPT ![c] = "ended"]
    /\ sock' = [sock EXCEPT ![c] = "ended"]
    /\ up' = [up EXCEPT ![c] = << >>]
    /\ down' = [down EXCEPT ![c] = << >>]
    /\ UNCHANGED <<orch, agents, known, contested, runner>>

-----------------------------------------------------------------------------

Init ==
    /\ orch = "up"
    /\ agents = [i \in Ids |-> None]
    /\ known = {} /\ contested = {}
    /\ serv = [c \in Conns |-> "none"] /\ sock = [c \in Conns |-> "none"]
    /\ up = [c \in Conns |-> << >>] /\ down = [c \in Conns |-> << >>]
    /\ proc = [r \in Runners |-> "off"]
    /\ due = {}
    /\ attempts = [r \in Runners |-> 0]
    /\ queue = [r \in Runners |-> << >>]
    /\ said = [r \in Runners |-> 0]
    /\ heard = [r \in Runners |-> [s \in Runners |-> 0]]

\* What becomes of a connection that is dialled, or has broken, at the runner's end.
Answered(c) == Open(c) \/ Refused(c) \/ Lost(c)

\* What the broker does about a connection.
Served(c) == Handle(c) \/ Closed(c)

Next ==
    \/ \E r \in Runners :
          \/ Start(r) \/ Shutdown(r) \/ Exit(r)
          \/ \E dests \in Responses[IdOf[r]] : Say(r, dests)
    \/ \E c \in Conns : Dial(c) \/ Answered(c) \/ Receive(c) \/ Served(c) \/ Cut(c)
    \/ Stop \/ Closes \/ Crash \/ Restart

Spec == Init /\ [][Next]_vars

(***************************************************************************)
(* The processes handle their events, the back-off passes, and a process   *)
(* that is stopping exits.  Nobody need start a runner or say anything,    *)
(* connections need not break, and the broker need neither stop nor be     *)
(* started again.                                                          *)
(***************************************************************************)
Fairness ==
    /\ \A c \in Conns : WF_vars(Answered(c)) /\ WF_vars(Served(c))
    /\ \A r \in Runners :
          /\ WF_vars(\E c \in Conns : OwnerOf[c] = r /\ Dial(c))
          /\ WF_vars(proc[r] = "stopping" /\ Exit(r))

FairSpec == Spec /\ Fairness

-----------------------------------------------------------------------------
(* Properties                                                              *)

\* The state is well formed, and the queue of a runner keeps within its limit.
TransportTypeOK ==
    /\ orch \in {"up", "closing", "down"}
    /\ agents \in [Ids -> Conns \cup {None}]
    /\ known \subseteq Conns /\ contested \subseteq Ids
    /\ serv \in [Conns -> {"none", "open", "ended"}]
    /\ sock \in [Conns -> {"none", "dialling", "open", "closing", "ended"}]
    /\ up \in [Conns -> Seq(Frame)] /\ down \in [Conns -> Seq(Frame)]
    /\ proc \in [Runners -> {"off", "running", "stopping", "gone"}]
    /\ due \subseteq Runners
    /\ attempts \in [Runners -> 0..WsReconnectMaxAttempts + 1]
    /\ queue \in [Runners -> Seq(Frame)]
    /\ \A r \in Runners : Len(queue[r]) <= WsQueueMax
    /\ said \in [Runners -> Nat]
    /\ heard \in [Runners -> [Runners -> Nat]]

\* Where the messages of s are in a queue.
Said(s, q) == {k \in 1..Len(q) : q[k].kind = "message" /\ q[k].from = s}

\* What a runner hears from another it hears in the order it was said and once, over
\* reconnections, queues that overflow and brokers that are killed: what it has heard, what
\* is on the way to it, on the way to the broker and queued are numbered upwards.
HeardInOrder ==
    \A c, d \in Conns :
        LET s == OwnerOf[d]
            path == down[c] \o up[d] \o queue[s]
        IN  \A i \in Said(s, path) :
                /\ heard[OwnerOf[c]][s] < path[i].n
                /\ \A j \in Said(s, path) : i < j => path[i].n < path[j].n

\* The broker's map has the connections that have registered and are not known to be closed:
\* every one of them, but for ids it has known two connections of at a time.
MapFollowsConnections ==
    \A i \in Ids :
        LET mine == {c \in known : Id(c) = i} IN
        /\ agents[i] \in mine \cup {None}
        /\ i \notin contested => mine = {agents[i]} \ {None}

\* A runner that stays connected becomes reachable, unless its id is contested.
RunnerBecomesReachable ==
    \A c \in Conns : (sock[c] = "open") ~> (sock[c] # "open" \/ agents[Id(c)] = c
                                             \/ Id(c) \in contested)

\* A runner whose broker is gone for good does not retry for ever.
RetriesEnd ==
    \A r \in Runners : (orch = "down" /\ proc[r] = "running")
                          ~> (orch # "down" \/ proc[r] = "gone")
=============================================================================
