------------------------ MODULE AgentTransportProofs ------------------------
(***************************************************************************)
(* Proofs about AgentTransport, for any runners, connections, responses    *)
(* and limits.                                                             *)
(***************************************************************************)
EXTENDS AgentTransport, SequenceTheorems, TLAPS

-----------------------------------------------------------------------------
(* Frames and queues                                                       *)

LEMMA PlainIsFrame ==
    ASSUME NEW kind \in {"register", "close", "shutdown"}, NEW r \in Runners \cup {None}
    PROVE  Plain(kind, r) \in Frame
  BY DEF Plain, Frame

LEMMA HelloType ==
    ASSUME NEW r \in Runners
    PROVE  Hello(r) \in Seq(Frame)
  BY PlainIsFrame DEF Hello

\* The messages of one response.
LEMMA BatchType ==
    ASSUME NEW r \in Runners, NEW n \in Nat, NEW dests \in Seq(Ids \cup {All})
    PROVE  [k \in 1..Len(dests) |->
               [kind |-> "message", from |-> r, n |-> n + k, to |-> dests[k]]] \in Seq(Frame)
  <1> DEFINE Message(k) == [kind |-> "message", from |-> r, n |-> n + k, to |-> dests[k]]
  <1>1. Len(dests) \in Nat
    BY LenProperties
  <1>2. \A k \in 1..Len(dests) : Message(k) \in Frame
    BY ElementOfSeq, <1>1 DEF Frame
  <1>3. [k \in 1..Len(dests) |-> Message(k)] \in Seq(Frame)
    <2> HIDE DEF Message
    <2> QED
      BY <1>1, <1>2, SeqDef
  <1> QED
    BY <1>3

\* A queue that overflows keeps its newest messages, as many as the limit allows.
LEMMA KeptFits ==
    ASSUME NEW q \in Seq(Frame)
    PROVE  Kept(q) \in Seq(Frame) /\ Len(Kept(q)) <= WsQueueMax
  <1>1. Len(q) \in Nat /\ WsQueueMax \in Nat \ {0}
    BY LenProperties, TransportAssumption
  <1>2. CASE Len(q) <= WsQueueMax
    BY <1>2 DEF Kept
  <1>3. CASE ~(Len(q) <= WsQueueMax)
    <2> DEFINE m == Len(q) - WsQueueMax + 1
               s == SubSeq(q, m, Len(q))
    <2>1. m \in Int /\ m >= 1 /\ m <= Len(q)
      BY <1>1, <1>3
    <2>2. \A i \in m..Len(q) : q[i] \in Frame
      BY <1>1, <2>1, ElementOfSeq
    <2>3. s \in Seq(Frame) /\ Len(s) = IF m <= Len(q) THEN Len(q) - m + 1 ELSE 0
      <3> HIDE DEF m
      <3> QED
        BY <1>1, <2>1, <2>2, SubSeqProperties
    <2>4. Kept(q) = s
      BY <1>3 DEF Kept
    <2> QED
      BY <1>1, <2>1, <2>3, <2>4
  <1> QED
    BY <1>2, <1>3

-----------------------------------------------------------------------------
(* Type correctness                                                        *)

\* A runner that runs has not used up its attempts.
RunningMayRetry ==
    \A r \in Runners : proc[r] \in {"off", "running"} => attempts[r] <= WsReconnectMaxAttempts

BrokerType ==
    /\ orch \in {"up", "closing", "down"}
    /\ agents \in [Ids -> Conns \cup {None}]
    /\ known \subseteq Conns /\ contested \subseteq Ids
    /\ serv \in [Conns -> {"none", "open", "ended"}]

WireType ==
    /\ sock \in [Conns -> {"none", "dialling", "open", "closing", "ended"}]
    /\ up \in [Conns -> Seq(Frame)] /\ down \in [Conns -> Seq(Frame)]

RunnerType ==
    /\ proc \in [Runners -> {"off", "running", "stopping", "gone"}]
    /\ due \subseteq Runners
    /\ attempts \in [Runners -> 0..WsReconnectMaxAttempts + 1]
    /\ queue \in [Runners -> Seq(Frame)]
    /\ \A r \in Runners : Len(queue[r]) <= WsQueueMax
    /\ said \in [Runners -> Nat]
    /\ heard \in [Runners -> [Runners -> Nat]]
    /\ RunningMayRetry

Typed == BrokerType /\ WireType /\ RunnerType

LEMMA EmptyIsFrames == << >> \in Seq(Frame) /\ Len(<< >>) = 0
  BY EmptySeq

LEMMA ByeType ==
    ASSUME WireType, NEW r \in Runners, Bye(r)
    PROVE  /\ sock' \in [Conns -> {"none", "dialling", "open", "closing", "ended"}]
           /\ up' \in [Conns -> Seq(Frame)]
  <1>1. Plain("close", r) \in Frame
    BY PlainIsFrame
  <1>2. \A c \in Conns : Append(up[c], Plain("close", r)) \in Seq(Frame)
    BY <1>1, AppendProperties DEF WireType
  <1>3. up' \in [Conns -> Seq(Frame)]
    BY <1>2 DEF Bye, WireType
  <1>4. sock' \in [Conns -> {"none", "dialling", "open", "closing", "ended"}]
    BY DEF Bye, WireType
  <1> QED
    BY <1>3, <1>4

LEMMA ByeRunner ==
    ASSUME RunnerType, NEW r \in Runners, Bye(r), UNCHANGED <<due, attempts, queue, said>>,
           heard' \in [Runners -> [Runners -> Nat]]
    PROVE  RunnerType'
  BY DEF Bye, RunnerType, RunningMayRetry

LEMMA DisconnectedType ==
    ASSUME Typed, NEW c \in Conns, Disconnected(c)
    PROVE  Typed'
  <1> USE DEF Typed
  <1> DEFINE r == OwnerOf[c]
  <1>1. r \in Runners /\ WsReconnectMaxAttempts \in Nat
    BY TransportAssumption
  <1>2. WireType'
    BY EmptyIsFrames DEF Disconnected, WireType
  <1>3. CASE proc[r] = "running"
    <2>1. attempts[r] \in 0..WsReconnectMaxAttempts
      BY <1>1, <1>3 DEF RunnerType, RunningMayRetry
    <2>2. attempts' = [attempts EXCEPT ![r] = attempts[r] + 1]
      BY <1>3 DEF Disconnected, Counted
    <2>3. attempts' \in [Runners -> 0..WsReconnectMaxAttempts + 1]
      BY <1>1, <2>1, <2>2 DEF RunnerType
    <2>4. CASE Counted(r) > WsReconnectMaxAttempts
      <3>1. proc' = [proc EXCEPT ![r] = "stopping"] /\ due' = due
        BY <1>3, <2>4 DEF Disconnected
      <3>2. RunningMayRetry'
        BY <1>1, <2>2, <3>1 DEF RunnerType, RunningMayRetry
      <3> QED
        BY <1>1, <1>2, <2>3, <3>1, <3>2 DEF Disconnected, RunnerType, BrokerType, broker
    <2>5. CASE ~(Counted(r) > WsReconnectMaxAttempts)
      <3>1. due' = due \cup {r} /\ proc' = proc
        BY <1>3, <2>5 DEF Disconnected
      <3>2. RunningMayRetry'
        BY <1>1, <2>1, <2>2, <2>5, <3>1 DEF Counted, RunnerType, RunningMayRetry
      <3> QED
        BY <1>1, <1>2, <2>3, <3>1, <3>2 DEF Disconnected, RunnerType, BrokerType, broker
    <2> QED
      BY <2>4, <2>5
  <1>4. CASE proc[r] # "running"
    BY <1>2, <1>4 DEF Disconnected, RunnerType, RunningMayRetry, BrokerType, broker
  <1> QED
    BY <1>3, <1>4

LEMMA SayType ==
    ASSUME Typed, NEW r \in Runners, NEW dests \in Seq(Ids \cup {All}), Say(r, dests)
    PROVE  Typed'
  <1> USE DEF Typed
  <1> DEFINE batch == [k \in 1..Len(dests) |->
                 [kind |-> "message", from |-> r, n |-> said[r] + k, to |-> dests[k]]]
  <1>1. said[r] \in Nat /\ Len(dests) \in Nat
    BY LenProperties DEF RunnerType
  <1>2. batch \in Seq(Frame)
    BY <1>1, BatchType
  <1>3. said' = [said EXCEPT ![r] = said[r] + Len(dests)]
    BY DEF Say
  <1>4. said' \in [Runners -> Nat]
    BY <1>1, <1>3 DEF RunnerType
  <1>5. CASE OpenConn(r) # {}
    <2>1. up' = [c \in Conns |-> IF c \in OpenConn(r) THEN up[c] \o batch ELSE up[c]]
      BY <1>5 DEF Say
    <2> HIDE DEF batch
    <2>2. \A c \in Conns : up[c] \o batch \in Seq(Frame)
      BY <1>2, ConcatProperties DEF WireType
    <2>3. up' \in [Conns -> Seq(Frame)]
      BY <2>1, <2>2 DEF WireType
    <2> QED
      BY <1>4, <1>5, <2>3 DEF Say, WireType, RunnerType, RunningMayRetry, BrokerType, broker
  <1>6. CASE OpenConn(r) = {}
    <2>1. queue' = [queue EXCEPT ![r] = Kept(queue[r] \o batch)]
      BY <1>6 DEF Say
    <2> HIDE DEF batch
    <2>2. queue[r] \o batch \in Seq(Frame)
      BY <1>2, ConcatProperties DEF RunnerType
    <2>3. Kept(queue[r] \o batch) \in Seq(Frame) /\ Len(Kept(queue[r] \o batch)) <= WsQueueMax
      BY <2>2, KeptFits
    <2>4. /\ queue' \in [Runners -> Seq(Frame)]
          /\ \A q \in Runners : Len(queue'[q]) <= WsQueueMax
      BY <2>1, <2>3 DEF RunnerType
    <2> QED
      BY <1>4, <1>6, <2>4 DEF Say, WireType, RunnerType, RunningMayRetry, BrokerType, broker
  <1> QED
    BY <1>5, <1>6

LEMMA OpenType ==
    ASSUME Typed, NEW c \in Conns, Open(c)
    PROVE  Typed'
  <1> USE DEF Typed
  <1> DEFINE r == OwnerOf[c]
  <1>1. r \in Runners /\ WsReconnectMaxAttempts \in Nat /\ WsQueueMax \in Nat
    BY TransportAssumption
  <1>2. Hello(r) \o queue[r] \in Seq(Frame)
    BY <1>1, HelloType, ConcatProperties DEF RunnerType
  <1>3. WireType'
    BY <1>2 DEF Open, WireType
  <1>4. /\ queue' \in [Runners -> Seq(Frame)]
        /\ \A q \in Runners : Len(queue'[q]) <= WsQueueMax
    BY <1>1, EmptyIsFrames DEF Open, LeftQueued, RunnerType
  <1>5. attempts' \in [Runners -> 0..WsReconnectMaxAttempts + 1] /\ RunningMayRetry'
    BY <1>1 DEF Open, RunnerType, RunningMayRetry
  <1>6. RunnerType'
    BY <1>4, <1>5 DEF Open, RunnerType
  <1>7. BrokerType'
    BY DEF Open, BrokerType
  <1> QED
    BY <1>3, <1>6, <1>7

LEMMA ReceiveType ==
    ASSUME Typed, NEW c \in Conns, Receive(c)
    PROVE  Typed'
  <1> USE DEF Typed
  <1> DEFINE r == OwnerOf[c]
             m == Head(down[c])
  <1>1. r \in Runners
    BY TransportAssumption
  <1>2. m \in Frame /\ Tail(down[c]) \in Seq(Frame)
    BY HeadTailProperties DEF Receive, WireType
  <1>3. down' \in [Conns -> Seq(Frame)]
    BY <1>2 DEF Receive, WireType
  <1>4. BrokerType'
    BY DEF Receive, BrokerType, broker
  <1>5. CASE m.kind = "shutdown"
    <2>1. Bye(r) /\ heard' = heard
      BY <1>5 DEF Receive
    <2>2. WireType'
      BY <1>1, <1>3, <2>1, ByeType DEF WireType
    <2>3. RunnerType'
      BY <1>1, <2>1, ByeRunner DEF Receive, RunnerType
    <2> QED
      BY <1>4, <2>2, <2>3
  <1>6. CASE m.kind # "shutdown"
    <2>1. heard' = [heard EXCEPT ![r][m.from] = m.n]
      BY <1>6 DEF Receive
    <2>2. m.n \in Nat
      BY <1>2 DEF Frame
    <2>3. [heard[r] EXCEPT ![m.from] = m.n] \in [Runners -> Nat]
      BY <1>1, <2>2 DEF RunnerType
    <2>4. heard' \in [Runners -> [Runners -> Nat]]
      BY <1>1, <2>1, <2>3 DEF RunnerType
    <2> QED
      BY <1>3, <1>4, <1>6, <2>4 DEF Receive, WireType, RunnerType, RunningMayRetry
  <1> QED
    BY <1>5, <1>6

LEMMA ExitType ==
    ASSUME Typed, NEW r \in Runners, Exit(r)
    PROVE  Typed'
  <1> USE DEF Typed
  <1>1. \A c \in Conns : Append(up[c], Plain("close", r)) \in Seq(Frame)
    BY PlainIsFrame, AppendProperties DEF WireType
  <1>2. WireType'
    BY <1>1, EmptyIsFrames DEF Exit, WireType
  <1>3. /\ queue' \in [Runners -> Seq(Frame)]
        /\ \A q \in Runners : Len(queue'[q]) <= WsQueueMax
    BY EmptyIsFrames, TransportAssumption DEF Exit, RunnerType
  <1>4. RunnerType'
    BY <1>3 DEF Exit, RunnerType, RunningMayRetry
  <1>5. BrokerType'
    BY DEF Exit, BrokerType, broker
  <1> QED
    BY <1>2, <1>4, <1>5

LEMMA RunnerStepType ==
    ASSUME Typed, NEW r \in Runners, Start(r) \/ Shutdown(r)
    PROVE  Typed'
  <1> USE DEF Typed
  <1>1. CASE Start(r)
    BY <1>1 DEF Start, WireType, RunnerType, RunningMayRetry, BrokerType, broker
  <1>2. CASE Shutdown(r)
    <2>1. WireType'
      BY <1>2, ByeType DEF Shutdown, WireType
    <2>2. RunnerType'
      BY <1>2, ByeRunner DEF Shutdown, RunnerType
    <2> QED
      BY <1>2, <2>1, <2>2 DEF Shutdown, BrokerType, broker
  <1> QED
    BY <1>1, <1>2

LEMMA DialType ==
    ASSUME Typed, NEW c \in Conns, Dial(c)
    PROVE  Typed'
  BY DEF Dial, Typed, WireType, RunnerType, RunningMayRetry, BrokerType, broker

LEMMA GoneType ==
    ASSUME BrokerType, NEW c \in Conns, Gone(c), UNCHANGED orch
    PROVE  BrokerType'
  BY TransportAssumption DEF Gone, Unmapped, BrokerType

LEMMA SentType ==
    ASSUME WireType, NEW m \in Frame, NEW cs, Sent(m, cs)
    PROVE  down' \in [Conns -> Seq(Frame)]
  <1>1. \A c \in Conns : Append(down[c], m) \in Seq(Frame)
    BY AppendProperties DEF WireType
  <1> QED
    BY <1>1 DEF Sent, WireType

LEMMA HandleType ==
    ASSUME Typed, NEW c \in Conns, Handle(c)
    PROVE  Typed'
  <1> USE DEF Typed
  <1> DEFINE m == Head(up[c])
  <1>1. m \in Frame /\ Tail(up[c]) \in Seq(Frame)
    BY HeadTailProperties DEF Handle, WireType
  <1>2. up' \in [Conns -> Seq(Frame)]
    BY <1>1 DEF Handle, WireType
  <1>3. RunnerType' /\ orch' = orch
    BY DEF Handle, runner, RunnerType, RunningMayRetry
  <1>4. CASE Registered(c) /\ UNCHANGED sock
    <2>1. BrokerType'
      BY <1>3, <1>4, TransportAssumption DEF Registered, Id, BrokerType
    <2> QED
      BY <1>2, <1>3, <1>4, <2>1 DEF Registered, WireType
  <1>5. CASE Sent(m, Targets(m)) /\ UNCHANGED <<agents, known, contested, serv, sock>>
    <2>1. down' \in [Conns -> Seq(Frame)]
      BY <1>1, <1>5, SentType
    <2> QED
      BY <1>2, <1>3, <1>5, <2>1 DEF WireType, BrokerType
  <1>6. CASE /\ Gone(c)
             /\ sock' = [sock EXCEPT ![c] = "none"]
             /\ down' = [down EXCEPT ![c] = << >>]
    <2>1. BrokerType'
      BY <1>3, <1>6, GoneType
    <2> QED
      BY <1>2, <1>3, <1>6, <2>1, EmptyIsFrames DEF WireType
  <1> QED
    BY <1>4, <1>5, <1>6 DEF Handle

LEMMA BrokerStepType ==
    ASSUME Typed, Stop \/ Closes \/ Crash \/ Restart
    PROVE  Typed'
  <1> USE DEF Typed
  <1>1. RunnerType'
    BY DEF Stop, Closes, Crash, Restart, runner, RunnerType, RunningMayRetry
  <1>2. CASE Stop
    <2>1. down' \in [Conns -> Seq(Frame)]
      BY <1>2, PlainIsFrame, SentType DEF Stop
    <2> QED
      BY <1>1, <1>2, <2>1 DEF Stop, WireType, BrokerType
  <1>3. CASE Crash
    <2>1. WireType'
      BY <1>3, EmptyIsFrames DEF Crash, Broken, WireType
    <2> QED
      BY <1>1, <1>3, <2>1 DEF Crash, BrokerType
  <1>4. CASE Closes \/ Restart
    BY <1>1, <1>4 DEF Closes, Restart, WireType, BrokerType
  <1> QED
    BY <1>2, <1>3, <1>4

LEMMA ConnStepType ==
    ASSUME Typed, NEW c \in Conns, Closed(c) \/ Cut(c)
    PROVE  Typed'
  <1> USE DEF Typed
  <1>1. RunnerType'
    BY DEF Closed, Cut, runner, RunnerType, RunningMayRetry
  <1>2. CASE Closed(c)
    <2>1. BrokerType'
      BY <1>2, GoneType DEF Closed
    <2> QED
      BY <1>1, <1>2, <2>1 DEF Closed, WireType
  <1>3. CASE Cut(c)
    BY <1>1, <1>3, EmptyIsFrames DEF Cut, WireType, BrokerType
  <1> QED
    BY <1>2, <1>3

LEMMA TypedInit ==
    ASSUME Init
    PROVE  Typed
  BY EmptyIsFrames, TransportAssumption
     DEF Init, Typed, BrokerType, WireType, RunnerType, RunningMayRetry

LEMMA TypedStep ==
    ASSUME Typed, [Next]_vars
    PROVE  Typed'
  <1>1. ASSUME NEW r \in Runners, NEW dests \in Responses[IdOf[r]], Say(r, dests)
        PROVE  Typed'
    <2>1. dests \in Seq(Ids \cup {All})
      BY TransportAssumption
    <2> QED
      BY <1>1, <2>1, SayType
  <1>2. ASSUME NEW c \in Conns, Answered(c)
        PROVE  Typed'
    BY <1>2, OpenType, DisconnectedType DEF Answered, Refused, Lost
  <1>3. ASSUME NEW c \in Conns, Served(c)
        PROVE  Typed'
    BY <1>3, HandleType, ConnStepType DEF Served
  <1>4. CASE UNCHANGED vars
    BY <1>4 DEF vars, broker, runner, Typed, BrokerType, WireType, RunnerType, RunningMayRetry
  <1> QED
    BY <1>1, <1>2, <1>3, <1>4, RunnerStepType, ExitType, DialType, ReceiveType, ConnStepType,
       BrokerStepType DEF Next

LEMMA TypedInvariant == Spec => []Typed
  BY TypedInit, TypedStep, PTL DEF Spec

\* The state is well formed, a queue holds WS_QUEUE_MAX messages at most, and a runner
\* stops with the attempt that exceeds WS_RECONNECT_MAX_ATTEMPTS.
THEOREM TransportTypeCorrect == Spec => []TransportTypeOK
  <1>1. Typed => TransportTypeOK
    BY DEF Typed, BrokerType, WireType, RunnerType, TransportTypeOK
  <1> QED
    BY <1>1, TypedInvariant, PTL

-----------------------------------------------------------------------------
(* The broker's map                                                        *)

\* What has registered is connected, and nothing is connected to a broker that is down.
KnownAreServed ==
    /\ \A c \in known : serv[c] # "none"
    /\ \A c \in Conns : serv[c] # "none" => orch # "down"

MapInv == KnownAreServed /\ MapFollowsConnections

LEMMA MapStutters ==
    ASSUME MapInv, UNCHANGED <<agents, known, contested>>, KnownAreServed'
    PROVE  MapInv'
  BY DEF MapInv, MapFollowsConnections, Id

LEMMA RegisteredKeeps ==
    ASSUME Typed, MapInv, NEW c \in Conns, Registered(c), serv[c] # "none", UNCHANGED orch
    PROVE  MapInv'
  <1> USE DEF Typed, BrokerType
  <1>1. Id(c) \in Ids
    BY TransportAssumption DEF Id
  <1>2. KnownAreServed'
    BY DEF Registered, MapInv, KnownAreServed
  <1>3. ASSUME NEW i \in Ids
        PROVE  LET mine == {d \in known' : Id(d) = i} IN
               /\ agents'[i] \in mine \cup {None}
               /\ i \notin contested' => mine = {agents'[i]} \ {None}
    <2>1. CASE i = Id(c)
      <3>1. agents'[i] = c /\ c \in known' /\ c # None
        BY <1>1, <2>1, TransportAssumption DEF Registered
      <3>2. i \notin contested' => \A d \in known \ {c} : Id(d) # i
        BY <2>1 DEF Registered
      <3> QED
        BY <2>1, <3>1, <3>2 DEF Registered
    <2>2. CASE i # Id(c)
      <3>1. agents'[i] = agents[i]
        BY <1>1, <2>2 DEF Registered
      <3>2. {d \in known' : Id(d) = i} = {d \in known : Id(d) = i}
        BY <2>2 DEF Registered
      <3> QED
        BY <3>1, <3>2 DEF Registered, MapInv, MapFollowsConnections
    <2> QED
      BY <2>1, <2>2
  <1>4. MapFollowsConnections'
    BY <1>3 DEF MapFollowsConnections, Id
  <1> QED
    BY <1>2, <1>4 DEF MapInv

LEMMA GoneKeeps ==
    ASSUME Typed, MapInv, NEW c \in Conns, Gone(c), UNCHANGED orch
    PROVE  MapInv'
  <1> USE DEF Typed, BrokerType
  <1>1. Id(c) \in Ids
    BY TransportAssumption DEF Id
  <1>2. KnownAreServed'
    BY DEF Gone, MapInv, KnownAreServed
  <1>3. CASE c \notin known
    BY <1>2, <1>3, MapStutters DEF Gone, Unmapped
  <1>4. CASE c \in known
    <2>1. agents' = [agents EXCEPT ![Id(c)] = None] /\ known' = known \ {c}
      BY <1>4 DEF Gone, Unmapped
    <2>2. ASSUME NEW i \in Ids
          PROVE  LET mine == {d \in known' : Id(d) = i} IN
                 /\ agents'[i] \in mine \cup {None}
                 /\ i \notin contested' => mine = {agents'[i]} \ {None}
      <3>1. CASE i = Id(c)
        <4>1. agents'[i] = None
          BY <1>1, <2>1, <3>1
        <4>2. i \notin contested => {d \in known : Id(d) = i} \subseteq {c}
          BY <1>4, <3>1 DEF MapInv, MapFollowsConnections
        <4> QED
          BY <2>1, <4>1, <4>2 DEF Gone
      <3>2. CASE i # Id(c)
        <4>1. agents'[i] = agents[i]
          BY <1>1, <2>1, <3>2
        <4>2. {d \in known' : Id(d) = i} = {d \in known : Id(d) = i}
          BY <2>1, <3>2
        <4> QED
          BY <4>1, <4>2 DEF Gone, MapInv, MapFollowsConnections
      <3> QED
        BY <3>1, <3>2
    <2>3. MapFollowsConnections'
      BY <2>2 DEF MapFollowsConnections, Id
    <2> QED
      BY <1>2, <2>3 DEF MapInv
  <1> QED
    BY <1>3, <1>4

\* A broker that is down has an empty map.
LEMMA DownKnowsNobody ==
    ASSUME Typed, MapInv, orch = "down"
    PROVE  known = {} /\ agents = [i \in Ids |-> None]
  <1>1. known = {}
    BY DEF Typed, BrokerType, MapInv, KnownAreServed
  <1>2. \A i \in Ids : agents[i] = None
    BY <1>1 DEF MapInv, MapFollowsConnections
  <1> QED
    BY <1>1, <1>2 DEF Typed, BrokerType

LEMMA MapInit ==
    ASSUME Init
    PROVE  MapInv
  BY DEF Init, MapInv, KnownAreServed, MapFollowsConnections

LEMMA MapStep ==
    ASSUME Typed, MapInv, [Next]_vars
    PROVE  MapInv'
  <1>1. ASSUME UNCHANGED broker
        PROVE  MapInv'
    <2>1. KnownAreServed'
      BY <1>1 DEF broker, MapInv, KnownAreServed
    <2> QED
      BY <1>1, <2>1, MapStutters DEF broker
  <1>2. ASSUME NEW r \in Runners,
               Start(r) \/ Shutdown(r) \/ Exit(r) \/ \E dests \in Responses[IdOf[r]] : Say(r, dests)
        PROVE  MapInv'
    BY <1>1, <1>2 DEF Start, Shutdown, Exit, Say
  <1>3. ASSUME NEW c \in Conns, Dial(c) \/ Receive(c) \/ Refused(c) \/ Lost(c)
        PROVE  MapInv'
    BY <1>1, <1>3 DEF Dial, Receive, Refused, Lost, Disconnected
  <1>4. ASSUME NEW c \in Conns, Open(c)
        PROVE  MapInv'
    <2>1. KnownAreServed'
      BY <1>4 DEF Open, Listening, MapInv, KnownAreServed, Typed, BrokerType
    <2> QED
      BY <1>4, <2>1, MapStutters DEF Open
  <1>5. ASSUME NEW c \in Conns, Handle(c)
        PROVE  MapInv'
    <2>1. orch' = orch /\ serv[c] # "none"
      BY <1>5 DEF Handle
    <2>2. CASE Registered(c)
      BY <2>1, <2>2, RegisteredKeeps
    <2>3. CASE UNCHANGED <<agents, known, contested, serv>>
      BY <1>1, <2>1, <2>3 DEF broker
    <2>4. CASE Gone(c)
      BY <2>1, <2>4, GoneKeeps
    <2> QED
      BY <1>5, <2>2, <2>3, <2>4 DEF Handle
  <1>6. ASSUME NEW c \in Conns, Closed(c)
        PROVE  MapInv'
    BY <1>6, GoneKeeps DEF Closed
  <1>7. ASSUME NEW c \in Conns, Cut(c)
        PROVE  MapInv'
    <2>1. KnownAreServed'
      BY <1>7 DEF Cut, MapInv, KnownAreServed, Typed, BrokerType
    <2> QED
      BY <1>7, <2>1, MapStutters DEF Cut
  <1>8. CASE Stop \/ Closes
    <2>1. KnownAreServed'
      BY <1>8 DEF Stop, Closes, MapInv, KnownAreServed
    <2> QED
      BY <1>8, <2>1, MapStutters DEF Stop, Closes
  <1>9. CASE Crash
    BY <1>9 DEF Crash, MapInv, KnownAreServed, MapFollowsConnections
  <1>10. CASE Restart
    <2>1. known' = {} /\ agents' = [i \in Ids |-> None]
      BY <1>10, DownKnowsNobody DEF Restart
    <2>2. MapFollowsConnections'
      BY <2>1 DEF MapFollowsConnections
    <2>3. KnownAreServed'
      BY <1>10, <2>1 DEF Restart, MapInv, KnownAreServed
    <2> QED
      BY <2>2, <2>3 DEF MapInv
  <1>11. CASE UNCHANGED vars
    BY <1>1, <1>11 DEF vars
  <1> QED
    BY <1>2, <1>3, <1>4, <1>5, <1>6, <1>7, <1>8, <1>9, <1>10, <1>11 DEF Next, Answered, Served

\* Over any disconnections, kills and restarts the broker's map has the connections that
\* have registered and no other: all of them, but for ids it has known twice at a time.
THEOREM MapStaysTrue == Spec => []MapFollowsConnections
  <1>1. Typed /\ MapInv /\ [Next]_vars => MapInv'
    BY MapStep
  <1>2. MapInv => MapFollowsConnections
    BY DEF MapInv
  <1> QED
    BY <1>1, <1>2, MapInit, TypedInvariant, PTL DEF Spec

-----------------------------------------------------------------------------
(* The order of what is heard                                              *)

Numbers(s, q) == {q[k].n : k \in Said(s, q)}

Rising(s, q) == \A i, j \in Said(s, q) : i < j => q[i].n < q[j].n

Below(A, B) == \A a \in A, b \in B : a < b

UpTo(A, n) == \A a \in A : a <= n

\* A runner has one connection at a time, or is due to dial one.
OneLine ==
    /\ \A c, d \in Conns : c # d /\ OwnerOf[c] = OwnerOf[d] => "none" \in {sock[c], sock[d]}
    /\ \A c \in Conns : OwnerOf[c] \in due => sock[c] = "none"
    /\ \A c \in Conns : proc[OwnerOf[c]] \in {"off", "gone"} => sock[c] = "none"
    /\ \A r \in due : proc[r] \notin {"off", "gone"}

\* A queue has messages of its runner.
QueueInPlace ==
    \A r \in Runners, k \in Nat : k \in 1..Len(queue[r]) =>
        queue[r][k].kind = "message" /\ queue[r][k].from = r

\* What is on the way to the broker is of the runner that dialled; a close comes last.
UpInPlace ==
    \A d \in Conns, k \in Nat : k \in 1..Len(up[d]) =>
        /\ up[d][k].from = OwnerOf[d]
        /\ up[d][k].kind = "close" => k = Len(up[d]) /\ sock[d] # "open"

DownInPlace ==
    \A c \in Conns, k \in Nat : k \in 1..Len(down[c]) =>
        down[c][k].kind \in {"message", "shutdown"}

FramesInPlace == QueueInPlace /\ UpInPlace /\ DownInPlace

\* Frames are under way where their runner still has the connection, or was the last to;
\* none waits while a connection is open.
FramesOnLine ==
    /\ \A c \in Conns : down[c] # << >> => sock[c] \in {"open", "closing"}
    /\ \A d \in Conns : Numbers(OwnerOf[d], up[d]) # {} =>
          sock[d] \in {"open", "closing"} \/ proc[OwnerOf[d]] = "gone"
    /\ \A c, d \in Conns : c # d /\ OwnerOf[c] = OwnerOf[d] =>
          {} \in {Numbers(OwnerOf[c], up[c]), Numbers(OwnerOf[d], up[d])}
    /\ \A c \in Conns : sock[c] = "open" => queue[OwnerOf[c]] = << >>

\* What a runner has said is numbered upwards from where its hearers are to the end of its
\* queue.
UpwardsTo(d) ==
    LET s == OwnerOf[d] IN
    /\ Rising(s, up[d])
    /\ Below(Numbers(s, up[d]), Numbers(s, queue[s]))
    /\ UpTo(Numbers(s, up[d]), said[s])
    /\ \A r \in Runners : Below({heard[r][s]}, Numbers(s, up[d]))
    /\ \A c \in Conns : Below(Numbers(s, down[c]), Numbers(s, up[d]))

Queued(s) ==
    /\ Rising(s, queue[s])
    /\ UpTo(Numbers(s, queue[s]), said[s])
    /\ \A r \in Runners :
          /\ heard[r][s] <= said[s]
          /\ Below({heard[r][s]}, Numbers(s, queue[s]))

Hears(c, s) ==
    /\ Rising(s, down[c])
    /\ UpTo(Numbers(s, down[c]), said[s])
    /\ Below({heard[OwnerOf[c]][s]}, Numbers(s, down[c]))
    /\ Below(Numbers(s, down[c]), Numbers(s, queue[s]))

Upwards ==
    /\ \A d \in Conns : UpwardsTo(d)
    /\ \A s \in Runners : Queued(s)
    /\ \A c \in Conns, s \in Runners : Hears(c, s)

OrderInv == OneLine /\ FramesInPlace /\ FramesOnLine /\ Upwards

LEMMA SaidIn ==
    ASSUME NEW q \in Seq(Frame), NEW s
    PROVE  /\ Len(q) \in Nat
           /\ \A k \in Said(s, q) : k \in 1..Len(q) /\ q[k] \in Frame /\ q[k].n \in Nat
           /\ \A n \in Numbers(s, q) : n \in Nat
  <1>1. Len(q) \in Nat
    BY LenProperties
  <1>2. \A k \in Said(s, q) : k \in 1..Len(q) /\ q[k] \in Frame
    BY ElementOfSeq DEF Said
  <1> QED
    BY <1>1, <1>2 DEF Numbers, Frame

LEMMA NothingSaid ==
    ASSUME NEW s
    PROVE  Numbers(s, << >>) = {} /\ Rising(s, << >>)
  BY EmptyIsFrames DEF Numbers, Rising, Said

LEMMA AppendNumbers ==
    ASSUME NEW q \in Seq(Frame), NEW m \in Frame, NEW s
    PROVE  /\ ~(m.kind = "message" /\ m.from = s) => Numbers(s, Append(q, m)) = Numbers(s, q)
           /\ m.kind = "message" /\ m.from = s =>
                  Numbers(s, Append(q, m)) = Numbers(s, q) \cup {m.n}
           /\ Rising(s, q) /\ (m.kind = "message" /\ m.from = s => Below(Numbers(s, q), {m.n}))
                  => Rising(s, Append(q, m))
  <1> DEFINE t == Append(q, m)
  <1>1. /\ Len(q) \in Nat /\ Len(t) = Len(q) + 1
        /\ \A k \in 1..Len(q) : t[k] = q[k]
        /\ t[Len(q) + 1] = m
    BY LenProperties, AppendProperties
  <1> HIDE DEF t
  <1>2. CASE ~(m.kind = "message" /\ m.from = s)
    <2>1. Said(s, t) = Said(s, q)
      BY <1>1, <1>2 DEF Said
    <2>2. \A k \in Said(s, q) : t[k] = q[k]
      BY <1>1 DEF Said
    <2>3. Numbers(s, t) = Numbers(s, q)
      BY <2>1, <2>2 DEF Numbers
    <2>4. Rising(s, q) => Rising(s, t)
      BY <2>1, <2>2 DEF Rising
    <2> QED
      BY <1>2, <2>3, <2>4 DEF t
  <1>3. CASE m.kind = "message" /\ m.from = s
    <2>1. Said(s, t) = Said(s, q) \cup {Len(q) + 1}
      BY <1>1, <1>3 DEF Said
    <2>2. \A k \in Said(s, q) : t[k] = q[k] /\ k \in 1..Len(q)
      BY <1>1 DEF Said
    <2>3. Numbers(s, t) = Numbers(s, q) \cup {m.n}
      BY <1>1, <2>1, <2>2 DEF Numbers
    <2>4. ASSUME Rising(s, q), Below(Numbers(s, q), {m.n})
          PROVE  Rising(s, t)
      <3> SUFFICES ASSUME NEW i \in Said(s, t), NEW j \in Said(s, t), i < j
                   PROVE  t[i].n < t[j].n
        BY DEF Rising
      <3>1. i \in Said(s, q)
        BY <1>1, <2>1, <2>2
      <3>2. CASE j \in Said(s, q)
        BY <2>2, <2>4, <3>1, <3>2 DEF Rising
      <3>3. CASE j = Len(q) + 1
        BY <1>1, <2>2, <2>4, <3>1, <3>3 DEF Below, Numbers
      <3> QED
        BY <2>1, <3>2, <3>3
    <2> QED
      BY <1>3, <2>3, <2>4 DEF t
  <1> QED
    BY <1>2, <1>3

LEMMA TailNumbers ==
    ASSUME NEW q \in Seq(Frame), q # << >>, NEW s
    PROVE  /\ Numbers(s, Tail(q)) \subseteq Numbers(s, q)
           /\ Rising(s, q) => Rising(s, Tail(q))
           /\ Head(q).kind = "message" /\ Head(q).from = s =>
                  /\ Head(q).n \in Numbers(s, q)
                  /\ Rising(s, q) => Below({Head(q).n}, Numbers(s, Tail(q)))
  <1> DEFINE t == Tail(q)
  <1>1. /\ Len(q) \in Nat /\ Len(q) >= 1 /\ Len(t) = Len(q) - 1
        /\ \A k \in 1..Len(t) : t[k] = q[k + 1]
    BY LenProperties, EmptySeq, HeadTailProperties
  <1>2. Head(q) = q[1]
    OBVIOUS
  <1> HIDE DEF t
  <1>3. \A k \in Said(s, t) : k \in 1..Len(t) /\ k + 1 \in Said(s, q) /\ t[k] = q[k + 1]
    BY <1>1 DEF Said
  <1>4. Numbers(s, t) \subseteq Numbers(s, q)
    BY <1>3 DEF Numbers
  <1>5. ASSUME Rising(s, q)
        PROVE  Rising(s, t)
    <2> SUFFICES ASSUME NEW i \in Said(s, t), NEW j \in Said(s, t), i < j
                 PROVE  t[i].n < t[j].n
      BY DEF Rising
    <2>1. i + 1 < j + 1
      BY <1>3
    <2> QED
      BY <1>3, <1>5, <2>1 DEF Rising
  <1>6. ASSUME Head(q).kind = "message", Head(q).from = s
        PROVE  /\ Head(q).n \in Numbers(s, q)
               /\ Rising(s, q) => Below({Head(q).n}, Numbers(s, t))
    <2>1. 1 \in Said(s, q)
      BY <1>1, <1>2, <1>6 DEF Said
    <2>2. \A k \in Said(s, t) : 1 < k + 1
      BY <1>3
    <2> QED
      BY <1>2, <1>3, <2>1, <2>2 DEF Numbers, Rising, Below
  <1> QED
    BY <1>4, <1>5, <1>6 DEF t

LEMMA ConcatNumbers ==
    ASSUME NEW p \in Seq(Frame), NEW q \in Seq(Frame), NEW s
    PROVE  /\ Numbers(s, p \o q) = Numbers(s, p) \cup Numbers(s, q)
           /\ Rising(s, p) /\ Rising(s, q) /\ Below(Numbers(s, p), Numbers(s, q))
                  => Rising(s, p \o q)
  <1> DEFINE t == p \o q
             n == Len(p)
  <1>1. /\ n \in Nat /\ Len(q) \in Nat /\ Len(t) = n + Len(q)
        /\ \A k \in 1..n + Len(q) : t[k] = IF k <= n THEN p[k] ELSE q[k - n]
    BY LenProperties, ConcatProperties
  <1> HIDE DEF t, n
  <1>2. \A k \in Said(s, p) : k \in Said(s, t) /\ k <= n /\ t[k] = p[k]
    BY <1>1 DEF Said, n
  <1>3. \A k \in Said(s, q) : k + n \in Said(s, t) /\ t[k + n] = q[k]
    <2> SUFFICES ASSUME NEW k \in Said(s, q)
                 PROVE  k + n \in Said(s, t) /\ t[k + n] = q[k]
      OBVIOUS
    <2>1. k \in 1..Len(q) /\ q[k].kind = "message" /\ q[k].from = s
      BY DEF Said
    <2>2. k + n \in 1..n + Len(q) /\ ~(k + n <= n) /\ (k + n) - n = k
      BY <1>1, <2>1
    <2> QED
      BY <1>1, <2>1, <2>2 DEF Said
  <1>4. \A k \in Said(s, t) :
           /\ k \in 1..n + Len(q)
           /\ k <= n => k \in Said(s, p) /\ t[k] = p[k]
           /\ ~(k <= n) => k - n \in Said(s, q) /\ t[k] = q[k - n]
    <2> SUFFICES ASSUME NEW k \in Said(s, t)
                 PROVE  /\ k \in 1..n + Len(q)
                        /\ k <= n => k \in Said(s, p) /\ t[k] = p[k]
                        /\ ~(k <= n) => k - n \in Said(s, q) /\ t[k] = q[k - n]
      OBVIOUS
    <2>1. k \in 1..n + Len(q) /\ t[k].kind = "message" /\ t[k].from = s
      BY <1>1 DEF Said
    <2>2. ~(k <= n) => k - n \in 1..Len(q)
      BY <1>1, <2>1
    <2> QED
      BY <1>1, <2>1, <2>2 DEF Said, n
  <1>5. Numbers(s, t) = Numbers(s, p) \cup Numbers(s, q)
    BY <1>2, <1>3, <1>4 DEF Numbers
  <1>6. ASSUME Rising(s, p), Rising(s, q), Below(Numbers(s, p), Numbers(s, q))
        PROVE  Rising(s, t)
    <2> SUFFICES ASSUME NEW i \in Said(s, t), NEW j \in Said(s, t), i < j
                 PROVE  t[i].n < t[j].n
      BY DEF Rising
    <2>0. i \in 1..n + Len(q) /\ j \in 1..n + Len(q)
      BY <1>4
    <2>1. CASE j <= n
      <3>1. i <= n
        BY <1>1, <2>0, <2>1
      <3> QED
        BY <1>4, <1>6, <2>1, <3>1 DEF Rising
    <2>2. CASE i <= n /\ ~(j <= n)
      <3>1. p[i].n \in Numbers(s, p) /\ q[j - n].n \in Numbers(s, q)
        BY <1>4, <2>2 DEF Numbers
      <3> QED
        BY <1>4, <1>6, <2>2, <3>1 DEF Below
    <2>3. CASE ~(i <= n) /\ ~(j <= n)
      <3>1. i - n < j - n
        BY <1>1, <2>0
      <3> QED
        BY <1>4, <1>6, <2>3, <3>1 DEF Rising
    <2> QED
      BY <2>1, <2>2, <2>3
  <1> QED
    BY <1>5, <1>6 DEF t

\* A queue that drops its oldest messages keeps the others in order.
LEMMA KeptNumbers ==
    ASSUME NEW q \in Seq(Frame), NEW s
    PROVE  /\ Numbers(s, Kept(q)) \subseteq Numbers(s, q)
           /\ Rising(s, q) => Rising(s, Kept(q))
           /\ \A k \in 1..Len(Kept(q)) : \E j \in 1..Len(q) : Kept(q)[k] = q[j]
  <1>1. Len(q) \in Nat /\ WsQueueMax \in Nat \ {0}
    BY LenProperties, TransportAssumption
  <1>2. CASE Len(q) <= WsQueueMax
    BY <1>2 DEF Kept
  <1>3. CASE ~(Len(q) <= WsQueueMax)
    <2> DEFINE m == Len(q) - WsQueueMax + 1
               t == SubSeq(q, m, Len(q))
    <2>1. m \in Int /\ m >= 1 /\ m <= Len(q)
      BY <1>1, <1>3
    <2>2. \A i \in m..Len(q) : q[i] \in Frame
      BY <1>1, <2>1, ElementOfSeq
    <2>3. /\ Len(t) = Len(q) - m + 1
          /\ \A i \in 1..Len(q) - m + 1 : t[i] = q[m + i - 1]
      <3> HIDE DEF m
      <3> QED
        BY <1>1, <2>1, <2>2, SubSeqProperties
    <2>4. Kept(q) = t
      BY <1>3 DEF Kept
    <2> HIDE DEF t, m
    <2>5. \A k \in 1..Len(t) : m + k - 1 \in 1..Len(q) /\ t[k] = q[m + k - 1]
      BY <1>1, <2>1, <2>3
    <2>6. \A k \in Said(s, t) : k \in 1..Len(t) /\ m + k - 1 \in Said(s, q) /\ t[k] = q[m + k - 1]
      BY <2>5 DEF Said
    <2>7. Numbers(s, t) \subseteq Numbers(s, q)
      BY <2>6 DEF Numbers
    <2>8. ASSUME Rising(s, q)
          PROVE  Rising(s, t)
      <3> SUFFICES ASSUME NEW i \in Said(s, t), NEW j \in Said(s, t), i < j
                   PROVE  t[i].n < t[j].n
        BY DEF Rising
      <3>1. m + i - 1 < m + j - 1
        BY <1>1, <2>1, <2>3, <2>6
      <3> QED
        BY <2>6, <2>8, <3>1 DEF Rising
    <2> QED
      BY <2>4, <2>5, <2>7, <2>8
  <1> QED
    BY <1>2, <1>3

Batch(r, n, dests) ==
    [k \in 1..Len(dests) |-> [kind |-> "message", from |-> r, n |-> n + k, to |-> dests[k]]]

LEMMA BatchNumbers ==
    ASSUME NEW r \in Runners, NEW n \in Nat, NEW dests \in Seq(Ids \cup {All})
    PROVE  LET batch == Batch(r, n, dests) IN
           /\ batch \in Seq(Frame)
           /\ \A k \in 1..Len(batch) : batch[k].kind = "message" /\ batch[k].from = r
           /\ Rising(r, batch)
           /\ Below({n}, Numbers(r, batch)) /\ UpTo(Numbers(r, batch), n + Len(dests))
  <1> DEFINE batch == Batch(r, n, dests)
  <1>1. batch \in Seq(Frame)
    BY BatchType DEF Batch
  <1>2. Len(dests) \in Nat
    BY LenProperties
  <1>3. Len(batch) = Len(dests)
    BY <1>1, <1>2, LenProperties DEF Batch
  <1>4. \A k \in 1..Len(dests) :
           batch[k].kind = "message" /\ batch[k].from = r /\ batch[k].n = n + k
    BY DEF Batch
  <1> HIDE DEF batch
  <1>5. Said(r, batch) = 1..Len(dests)
    BY <1>3, <1>4 DEF Said
  <1>6. Rising(r, batch)
    BY <1>2, <1>4, <1>5 DEF Rising
  <1>7. Below({n}, Numbers(r, batch)) /\ UpTo(Numbers(r, batch), n + Len(dests))
    <2>1. \A a \in Numbers(r, batch) : \E k \in 1..Len(dests) : a = n + k
      BY <1>4, <1>5 DEF Numbers
    <2> HIDE DEF Numbers
    <2> QED
      BY <1>2, <2>1 DEF Below, UpTo
  <1> QED
    BY <1>1, <1>3, <1>4, <1>6, <1>7 DEF batch
\* One connection at a time.
LEMMA ByeLine ==
    ASSUME Typed, OneLine, NEW r \in Runners, Bye(r), proc[r] \in {"running", "stopping"},
           UNCHANGED due
    PROVE  OneLine'
  <1> USE DEF Typed, WireType, RunnerType, OneLine
  <1>1. \A c \in Conns : sock[c] = "none" => sock'[c] = "none"
    BY DEF Bye
  <1>2. \A s \in Runners : proc'[s] = IF s = r THEN "stopping" ELSE proc[s]
    BY DEF Bye
  <1> QED
    BY <1>1, <1>2, TransportAssumption

LEMMA DisconnectedLine ==
    ASSUME Typed, OneLine, NEW c \in Conns, Disconnected(c), sock[c] # "none"
    PROVE  OneLine'
  <1> USE DEF Typed, WireType, RunnerType, OneLine
  <1>1. \A d \in Conns : sock'[d] = IF d = c THEN "none" ELSE sock[d]
    BY DEF Disconnected
  <1> HIDE DEF OneLine
  <1>2. \A d \in Conns : OwnerOf[d] = OwnerOf[c] => sock'[d] = "none"
    BY <1>1 DEF OneLine
  <1>3. OwnerOf[c] \in Runners /\ proc[OwnerOf[c]] \notin {"off", "gone"}
    BY TransportAssumption DEF OneLine
  <1>4. \A s \in Runners : proc'[s] = proc[s] \/ (s = OwnerOf[c] /\ proc'[s] = "stopping")
    <2>1. proc' = proc \/ proc' = [proc EXCEPT ![OwnerOf[c]] = "stopping"]
      BY DEF Disconnected
    <2> QED
      BY <2>1
  <1>5. due' \subseteq due \cup {OwnerOf[c]}
    BY DEF Disconnected
  <1> QED
    <2>1. \A d, e \in Conns : d # e /\ OwnerOf[d] = OwnerOf[e] => "none" \in {sock'[d], sock'[e]}
      BY <1>1 DEF OneLine
    <2>2. \A d \in Conns : OwnerOf[d] \in due' => sock'[d] = "none"
      BY <1>1, <1>2, <1>5 DEF OneLine
    <2>3. \A d \in Conns : proc'[OwnerOf[d]] \in {"off", "gone"} => sock'[d] = "none"
      BY <1>1, <1>4, TransportAssumption DEF OneLine
    <2>4. \A s \in due' : proc'[s] \notin {"off", "gone"}
      BY <1>3, <1>4, <1>5 DEF OneLine
    <2> QED
      BY <2>1, <2>2, <2>3, <2>4 DEF OneLine

LEMMA LineStep ==
    ASSUME Typed, OneLine, [Next]_vars
    PROVE  OneLine'
  <1> USE DEF Typed, WireType, RunnerType
  <1>1. ASSUME UNCHANGED <<proc, due>>, \A c \in Conns : sock'[c] \in {sock[c], "none", "ended"},
               \A c \in Conns : sock[c] = "none" => sock'[c] = "none"
        PROVE  OneLine'
    BY <1>1 DEF OneLine
  <1>2. ASSUME NEW r \in Runners, Start(r)
        PROVE  OneLine'
    BY <1>2, TransportAssumption DEF Start, OneLine
  <1>3. ASSUME NEW r \in Runners, Shutdown(r)
        PROVE  OneLine'
    BY <1>3, ByeLine DEF Shutdown
  <1>4. ASSUME NEW r \in Runners, Exit(r)
        PROVE  OneLine'
    BY <1>4, TransportAssumption DEF Exit, OneLine
  <1>5. ASSUME NEW c \in Conns, Dial(c)
        PROVE  OneLine'
    BY <1>5, TransportAssumption DEF Dial, OneLine
  <1>6. ASSUME NEW c \in Conns, Open(c)
        PROVE  OneLine'
    BY <1>6, TransportAssumption DEF Open, OneLine
  <1>7. ASSUME NEW c \in Conns, Refused(c) \/ Lost(c)
        PROVE  OneLine'
    BY <1>7, DisconnectedLine DEF Refused, Lost
  <1>8. ASSUME NEW c \in Conns, Receive(c)
        PROVE  OneLine'
    <2>1. CASE Bye(OwnerOf[c])
      <3>1. OwnerOf[c] \in Runners /\ proc[OwnerOf[c]] \in {"running", "stopping"}
        BY <1>8, TransportAssumption DEF Receive, OneLine
      <3> QED
        BY <1>8, <2>1, <3>1, ByeLine DEF Receive
    <2> QED
      BY <1>1, <1>8, <2>1 DEF Receive
  <1>9. ASSUME NEW c \in Conns, Handle(c) \/ Closed(c) \/ Cut(c)
        PROVE  OneLine'
    <2>1. UNCHANGED <<proc, due>>
      BY <1>9 DEF Handle, Closed, Cut, runner
    <2>2. \A d \in Conns : sock[d] = "none" => sock'[d] = "none"
      BY <1>9 DEF Handle, Closed, Cut
    <2>3. \A d \in Conns : sock'[d] \in {sock[d], "none", "ended"}
      BY <1>9 DEF Handle, Closed, Cut
    <2> QED
      BY <1>1, <2>1, <2>2, <2>3
  <1>10. CASE Stop \/ Closes \/ Crash \/ Restart \/ UNCHANGED vars
    <2>1. UNCHANGED <<proc, due>>
      BY <1>10 DEF Stop, Closes, Crash, Restart, runner, vars
    <2>2. \A d \in Conns : sock[d] = "none" => sock'[d] = "none"
      BY <1>10 DEF Stop, Closes, Crash, Restart, Broken, vars
    <2>3. \A d \in Conns : sock'[d] \in {sock[d], "none", "ended"}
      BY <1>10 DEF Stop, Closes, Crash, Restart, Broken, vars
    <2> QED
      BY <1>1, <2>1, <2>2, <2>3
  <1>11. ASSUME NEW r \in Runners, NEW dests \in Responses[IdOf[r]], Say(r, dests)
         PROVE  OneLine'
    BY <1>1, <1>11 DEF Say
  <1> QED
    BY <1>2, <1>3, <1>4, <1>5, <1>6, <1>7, <1>8, <1>9, <1>10, <1>11 DEF Next, Answered, Served

\* The frames of each queue.
LEMMA FramesAt ==
    ASSUME NEW q \in Seq(Frame)
    PROVE  /\ Len(q) \in Nat
           /\ \A m \in Frame :
                 /\ Len(Append(q, m)) = Len(q) + 1
                 /\ \A k \in 1..Len(q) + 1 :
                       Append(q, m)[k] = IF k <= Len(q) THEN q[k] ELSE m
           /\ q # << >> =>
                 /\ Len(Tail(q)) = Len(q) - 1
                 /\ Len(q) >= 1 /\ Head(q) = q[1]
                 /\ \A k \in 1..Len(q) - 1 : Tail(q)[k] = q[k + 1]
  <1>1. Len(q) \in Nat
    BY LenProperties
  <1>2. \A m \in Frame :
           /\ Len(Append(q, m)) = Len(q) + 1
           /\ \A k \in 1..Len(q) + 1 : Append(q, m)[k] = IF k <= Len(q) THEN q[k] ELSE m
    BY <1>1, AppendProperties
  <1>3. ASSUME q # << >>
        PROVE  /\ Len(Tail(q)) = Len(q) - 1
               /\ Len(q) >= 1 /\ Head(q) = q[1]
               /\ \A k \in 1..Len(q) - 1 : Tail(q)[k] = q[k + 1]
    BY <1>1, <1>3, HeadTailProperties, EmptySeq
  <1> QED
    BY <1>1, <1>2, <1>3

LEMMA FramesJoined ==
    ASSUME NEW p \in Seq(Frame), NEW q \in Seq(Frame)
    PROVE  /\ Len(p) \in Nat /\ Len(q) \in Nat /\ Len(p \o q) = Len(p) + Len(q)
           /\ \A k \in 1..Len(p) + Len(q) :
                 (p \o q)[k] = IF k <= Len(p) THEN p[k] ELSE q[k - Len(p)]
  BY LenProperties, ConcatProperties

LEMMA UpThins ==
    ASSUME UpInPlace, \A d \in Conns : sock'[d] = "open" => sock[d] = "open",
           \A d \in Conns : up'[d] = up[d] \/ up'[d] = << >>
    PROVE  UpInPlace'
  <1> SUFFICES ASSUME NEW d \in Conns, NEW k \in Nat, k \in 1..Len(up'[d])
               PROVE  /\ up'[d][k].from = OwnerOf[d]
                      /\ up'[d][k].kind = "close" => k = Len(up'[d]) /\ sock'[d] # "open"
    BY DEF UpInPlace
  <1>1. up'[d] = up[d]
    BY EmptyIsFrames
  <1> QED
    BY <1>1 DEF UpInPlace

\* A close is sent after all else, by a runner whose connections are open no more.
LEMMA UpEnds ==
    ASSUME Typed, UpInPlace, NEW r \in Runners,
           up' = [c \in Conns |->
                     IF c \in OpenConn(r) THEN Append(up[c], Plain("close", r)) ELSE up[c]],
           \A d \in Conns : sock'[d] = "open" => sock[d] = "open" /\ d \notin OpenConn(r)
    PROVE  UpInPlace'
  <1> SUFFICES ASSUME NEW d \in Conns, NEW k \in Nat, k \in 1..Len(up'[d])
               PROVE  /\ up'[d][k].from = OwnerOf[d]
                      /\ up'[d][k].kind = "close" => k = Len(up'[d]) /\ sock'[d] # "open"
    BY DEF UpInPlace
  <1>1. CASE d \notin OpenConn(r)
    BY <1>1 DEF UpInPlace
  <1>2. CASE d \in OpenConn(r)
    <2> DEFINE m == Plain("close", r)
    <2>1. up'[d] = Append(up[d], m)
      BY <1>2
    <2>2. m \in Frame /\ m.from = OwnerOf[d] /\ m.kind = "close" /\ sock[d] = "open"
      BY <1>2, PlainIsFrame DEF OpenConn, Plain
    <2>3. up[d] \in Seq(Frame)
      BY DEF Typed, WireType
    <2>4. /\ Len(up[d]) \in Nat /\ Len(up'[d]) = Len(up[d]) + 1
          /\ up'[d][k] = IF k <= Len(up[d]) THEN up[d][k] ELSE m
      <3> HIDE DEF m
      <3> QED
        BY <2>1, <2>2, <2>3, FramesAt
    <2>5. CASE k <= Len(up[d])
      BY <2>2, <2>4, <2>5 DEF UpInPlace
    <2>6. CASE ~(k <= Len(up[d]))
      BY <1>2, <2>2, <2>4, <2>6
    <2> QED
      BY <2>5, <2>6
  <1> QED
    BY <1>1, <1>2

LEMMA SaidUp ==
    ASSUME Typed, FramesInPlace, NEW r \in Runners, NEW dests \in Seq(Ids \cup {All}), Say(r, dests)
    PROVE  UpInPlace'
  <1> DEFINE batch == Batch(r, said[r], dests)
  <1>2. sock' = sock
    BY DEF Say
  <1>3. \/ up' = up
        \/ up' = [c \in Conns |-> IF c \in OpenConn(r) THEN up[c] \o batch ELSE up[c]]
    BY DEF Say, Batch
  <1> HIDE DEF batch
  <1>1. /\ batch \in Seq(Frame)
        /\ \A k \in 1..Len(batch) : batch[k].kind = "message" /\ batch[k].from = r
    <2>1. said[r] \in Nat
      BY DEF Typed, RunnerType
    <2> QED
      BY <2>1, BatchNumbers DEF batch
  <1> SUFFICES ASSUME NEW d \in Conns, NEW k \in Nat, k \in 1..Len(up'[d])
               PROVE  /\ up'[d][k].from = OwnerOf[d]
                      /\ up'[d][k].kind = "close" => k = Len(up'[d]) /\ sock'[d] # "open"
    BY DEF UpInPlace
  <1>4. CASE up'[d] = up[d]
    BY <1>2, <1>4 DEF FramesInPlace, UpInPlace
  <1>5. CASE d \in OpenConn(r) /\ up'[d] = up[d] \o batch
    <2>1. OwnerOf[d] = r /\ sock[d] = "open" /\ up[d] \in Seq(Frame)
      BY <1>5 DEF OpenConn, Typed, WireType
    <2>2. /\ Len(up[d]) \in Nat /\ Len(batch) \in Nat /\ Len(up'[d]) = Len(up[d]) + Len(batch)
          /\ up'[d][k] = IF k <= Len(up[d]) THEN up[d][k] ELSE batch[k - Len(up[d])]
      BY <1>1, <1>5, <2>1, FramesJoined
    <2>3. CASE k <= Len(up[d])
      BY <2>1, <2>2, <2>3 DEF FramesInPlace, UpInPlace
    <2>4. CASE ~(k <= Len(up[d]))
      <3>1. k - Len(up[d]) \in 1..Len(batch)
        BY <2>2, <2>4
      <3> QED
        BY <1>1, <2>1, <2>2, <2>4, <3>1
    <2> QED
      BY <2>3, <2>4
  <1> QED
    BY <1>3, <1>4, <1>5

LEMMA OpenedUp ==
    ASSUME Typed, FramesInPlace, NEW c \in Conns, Open(c)
    PROVE  UpInPlace'
  <1> DEFINE r == OwnerOf[c]
             q == queue[r]
  <1>1. r \in Runners /\ q \in Seq(Frame) /\ Hello(r) \in Seq(Frame)
    BY TransportAssumption, HelloType DEF Typed, RunnerType
  <1>2. \A d \in Conns : /\ up'[d] = IF d = c THEN Hello(r) \o q ELSE up[d]
                         /\ d # c => sock'[d] = sock[d]
    BY DEF Open, Typed, WireType
  <1>3. Len(Hello(r)) = 1 /\ Hello(r)[1] = Plain("register", r)
    BY DEF Hello
  <1>4. \A k \in 1..Len(q) : q[k].kind = "message" /\ q[k].from = r
    BY <1>1, LenProperties DEF FramesInPlace, QueueInPlace
  <1> SUFFICES ASSUME NEW d \in Conns, NEW k \in Nat, k \in 1..Len(up'[d])
               PROVE  /\ up'[d][k].from = OwnerOf[d]
                      /\ up'[d][k].kind = "close" => k = Len(up'[d]) /\ sock'[d] # "open"
    BY DEF UpInPlace
  <1>5. CASE d # c
    BY <1>2, <1>5 DEF FramesInPlace, UpInPlace
  <1>6. CASE d = c
    <2> HIDE DEF r, q
    <2>1. Len(q) \in Nat /\ Len(up'[d]) = 1 + Len(q)
      BY <1>1, <1>2, <1>3, <1>6, FramesJoined
    <2>2. up'[d][k] = IF k <= 1 THEN Plain("register", r) ELSE q[k - 1]
      <3>1. up'[d][k] = IF k <= Len(Hello(r)) THEN Hello(r)[k] ELSE q[k - Len(Hello(r))]
        <4>1. up'[d] = Hello(r) \o q /\ k \in 1..Len(Hello(r)) + Len(q)
          BY <1>2, <1>3, <1>6, <2>1
        <4> QED
          BY <1>1, <4>1, FramesJoined
      <3> QED
        BY <1>3, <3>1
    <2>3. CASE k <= 1
      <3>1. up'[d][k].kind = "register" /\ up'[d][k].from = r
        BY <2>2, <2>3 DEF Plain
      <3> QED
        BY <1>6, <3>1 DEF r
    <2>4. CASE ~(k <= 1)
      <3>1. k - 1 \in 1..Len(q)
        BY <2>1, <2>4
      <3>2. up'[d][k].kind = "message" /\ up'[d][k].from = r
        BY <1>4, <2>2, <2>4, <3>1
      <3> QED
        BY <1>6, <3>2 DEF r
    <2> QED
      BY <2>3, <2>4
  <1> QED
    BY <1>5, <1>6

LEMMA HandledUp ==
    ASSUME Typed, UpInPlace, NEW c \in Conns, up[c] # << >>, up' = [up EXCEPT ![c] = Tail(@)],
           \A d \in Conns : sock'[d] = "open" => sock[d] = "open"
    PROVE  UpInPlace'
  <1> SUFFICES ASSUME NEW d \in Conns, NEW k \in Nat, k \in 1..Len(up'[d])
               PROVE  /\ up'[d][k].from = OwnerOf[d]
                      /\ up'[d][k].kind = "close" => k = Len(up'[d]) /\ sock'[d] # "open"
    BY DEF UpInPlace
  <1>1. CASE d # c
    <2>1. up'[d] = up[d]
      BY <1>1 DEF Typed, WireType
    <2> QED
      BY <2>1 DEF UpInPlace
  <1>2. CASE d = c
    <2>1. up'[d] = Tail(up[d]) /\ up[d] \in Seq(Frame) /\ up[d] # << >>
      BY <1>2 DEF Typed, WireType
    <2>2. /\ Len(up[d]) \in Nat /\ Len(up'[d]) = Len(up[d]) - 1
          /\ \A j \in 1..Len(up[d]) - 1 : up'[d][j] = up[d][j + 1]
      <3> DEFINE q == up[d]
      <3>1. q \in Seq(Frame) /\ q # << >> /\ up'[d] = Tail(q)
        BY <2>1
      <3> HIDE DEF q
      <3>2. /\ Len(q) \in Nat /\ Len(Tail(q)) = Len(q) - 1
            /\ \A j \in 1..Len(q) - 1 : Tail(q)[j] = q[j + 1]
        BY <3>1, FramesAt
      <3> QED
        BY <3>1, <3>2 DEF q
    <2>3. k + 1 \in Nat /\ k + 1 \in 1..Len(up[d]) /\ up'[d][k] = up[d][k + 1]
      BY <2>2
    <2> QED
      BY <2>2, <2>3 DEF UpInPlace
  <1> QED
    BY <1>1, <1>2

LEMMA UpStep ==
    ASSUME Typed, OneLine, FramesInPlace, [Next]_vars
    PROVE  UpInPlace'
  <1> USE DEF FramesInPlace
  <1>1. ASSUME NEW r \in Runners, Bye(r)
        PROVE  UpInPlace'
    BY <1>1, UpEnds DEF Bye, OpenConn
  <1>2. ASSUME NEW r \in Runners, Exit(r)
        PROVE  UpInPlace'
    BY <1>2, UpEnds DEF Exit, OpenConn
  <1>3. ASSUME NEW r \in Runners, Start(r)
        PROVE  UpInPlace'
    BY <1>3, UpThins DEF Start
  <1>4. ASSUME NEW r \in Runners, NEW dests \in Responses[IdOf[r]], Say(r, dests)
        PROVE  UpInPlace'
    BY <1>4, SaidUp, TransportAssumption
  <1>5. ASSUME NEW c \in Conns, Dial(c) \/ Refused(c) \/ Lost(c)
        PROVE  UpInPlace'
    <2>1. up' = up
      BY <1>5 DEF Dial, Refused, Lost, Disconnected
    <2>2. \A d \in Conns : sock'[d] = "open" => sock[d] = "open"
      BY <1>5 DEF Dial, Refused, Lost, Disconnected, Typed, WireType
    <2> QED
      BY <2>1, <2>2, UpThins
  <1>6. ASSUME NEW c \in Conns, Receive(c)
        PROVE  UpInPlace'
    <2>1. OwnerOf[c] \in Runners
      BY TransportAssumption
    <2> QED
      BY <1>1, <1>6, <2>1, UpThins DEF Receive
  <1>7. ASSUME NEW c \in Conns, Handle(c)
        PROVE  UpInPlace'
    <2>1. \A d \in Conns : sock'[d] = "open" => sock[d] = "open"
      BY <1>7 DEF Handle, Typed, WireType
    <2> QED
      BY <1>7, <2>1, HandledUp DEF Handle
  <1>8. ASSUME NEW c \in Conns, Closed(c) \/ Cut(c)
        PROVE  UpInPlace'
    <2>1. \A d \in Conns : up'[d] = up[d] \/ up'[d] = << >>
      BY <1>8 DEF Closed, Cut, Typed, WireType
    <2>2. \A d \in Conns : sock'[d] = "open" => sock[d] = "open"
      BY <1>8 DEF Closed, Cut, Typed, WireType
    <2> QED
      BY <2>1, <2>2, UpThins
  <1>9. CASE Stop \/ Closes \/ Crash \/ Restart \/ UNCHANGED vars
    <2>1. \A d \in Conns : up'[d] = up[d] \/ up'[d] = << >>
      BY <1>9 DEF Stop, Closes, Crash, Restart, vars
    <2>2. \A d \in Conns : sock'[d] = "open" => sock[d] = "open"
      BY <1>9 DEF Stop, Closes, Crash, Restart, Broken, vars
    <2> QED
      BY <2>1, <2>2, UpThins
  <1> QED
    BY <1>1, <1>2, <1>3, <1>4, <1>5, <1>6, <1>7, <1>8, <1>9, OpenedUp
       DEF Next, Answered, Served, Shutdown

LEMMA SentFrames ==
    ASSUME Typed, DownInPlace, NEW m \in Frame, m.kind \in {"message", "shutdown"}, NEW cs, Sent(m, cs)
    PROVE  DownInPlace'
  <1> SUFFICES ASSUME NEW c \in Conns, NEW k \in Nat, k \in 1..Len(down'[c])
               PROVE  down'[c][k].kind \in {"message", "shutdown"}
    BY DEF DownInPlace
  <1>1. down[c] \in Seq(Frame)
    BY DEF Typed, WireType
  <1>2. down'[c] = down[c] \/ down'[c] = Append(down[c], m)
    BY DEF Sent
  <1>3. CASE down'[c] = down[c]
    BY <1>3 DEF DownInPlace
  <1>4. CASE down'[c] = Append(down[c], m)
    <2>1. /\ Len(down[c]) \in Nat /\ Len(down'[c]) = Len(down[c]) + 1
          /\ down'[c][k] = IF k <= Len(down[c]) THEN down[c][k] ELSE m
      BY <1>1, <1>4, FramesAt
    <2> QED
      BY <2>1 DEF DownInPlace
  <1> QED
    BY <1>2, <1>3, <1>4

LEMMA ReceivedFrames ==
    ASSUME Typed, DownInPlace, NEW c \in Conns, down[c] # << >>, down' = [down EXCEPT ![c] = Tail(@)]
    PROVE  DownInPlace'
  <1> SUFFICES ASSUME NEW d \in Conns, NEW k \in Nat, k \in 1..Len(down'[d])
               PROVE  down'[d][k].kind \in {"message", "shutdown"}
    BY DEF DownInPlace
  <1>1. CASE d # c
    <2>1. down'[d] = down[d]
      BY <1>1 DEF Typed, WireType
    <2> QED
      BY <2>1 DEF DownInPlace
  <1>2. CASE d = c
    <2> DEFINE q == down[c]
    <2>1. q \in Seq(Frame) /\ q # << >> /\ down'[d] = Tail(q)
      BY <1>2 DEF Typed, WireType
    <2> HIDE DEF q
    <2>2. /\ Len(q) \in Nat /\ Len(Tail(q)) = Len(q) - 1
          /\ \A j \in 1..Len(q) - 1 : Tail(q)[j] = q[j + 1]
      BY <2>1, FramesAt
    <2>3. k + 1 \in Nat /\ k + 1 \in 1..Len(q) /\ down'[d][k] = q[k + 1]
      BY <2>1, <2>2
    <2> QED
      BY <1>2, <2>3 DEF DownInPlace, q
  <1> QED
    BY <1>1, <1>2

LEMMA HeadIsFrame ==
    ASSUME NEW q \in Seq(Frame), q # << >>
    PROVE  Head(q) \in Frame /\ Len(q) \in Nat /\ Len(q) >= 1 /\ Head(q) = q[1]
  BY HeadTailProperties, LenProperties, EmptySeq

LEMMA DownStep ==
    ASSUME Typed, DownInPlace, [Next]_vars
    PROVE  DownInPlace'
  <1>1. ASSUME \A c \in Conns : down'[c] = down[c] \/ down'[c] = << >>
        PROVE  DownInPlace'
    <2> SUFFICES ASSUME NEW c \in Conns, NEW k \in Nat, k \in 1..Len(down'[c])
                 PROVE  down'[c][k].kind \in {"message", "shutdown"}
      BY DEF DownInPlace
    <2>1. down'[c] = down[c]
      BY <1>1, EmptyIsFrames
    <2> QED
      BY <2>1 DEF DownInPlace
  <1>2. ASSUME NEW r \in Runners, Start(r) \/ Shutdown(r) \/ Exit(r)
        PROVE  DownInPlace'
    <2>1. \A c \in Conns : down'[c] = down[c] \/ down'[c] = << >>
      BY <1>2 DEF Start, Shutdown, Exit
    <2> QED
      BY <1>1, <2>1
  <1>3. ASSUME NEW r \in Runners, NEW dests \in Responses[IdOf[r]], Say(r, dests)
        PROVE  DownInPlace'
    BY <1>1, <1>3 DEF Say
  <1>4. ASSUME NEW c \in Conns, Dial(c) \/ Answered(c) \/ Closed(c) \/ Cut(c)
        PROVE  DownInPlace'
    <2>1. \A d \in Conns : down'[d] = down[d] \/ down'[d] = << >>
      BY <1>4 DEF Dial, Answered, Open, Refused, Lost, Disconnected, Closed, Cut, Typed, WireType
    <2> QED
      BY <1>1, <2>1
  <1>5. ASSUME NEW c \in Conns, Receive(c)
        PROVE  DownInPlace'
    BY <1>5, ReceivedFrames DEF Receive
  <1>6. ASSUME NEW c \in Conns, Handle(c)
        PROVE  DownInPlace'
    <2> DEFINE m == Head(up[c])
    <2>1. m \in Frame
      BY <1>6, HeadIsFrame DEF Handle, Typed, WireType
    <2>2. CASE m.kind = "message" /\ Sent(m, Targets(m))
      BY <2>1, <2>2, SentFrames
    <2>3. CASE Registered(c)
      BY <1>1, <2>3 DEF Registered
    <2>4. CASE down' = [down EXCEPT ![c] = << >>]
      BY <1>1, <2>4 DEF Typed, WireType
    <2> QED
      BY <1>6, <2>2, <2>3, <2>4 DEF Handle
  <1>7. CASE Stop
    <2>1. Plain("shutdown", None) \in Frame /\ Plain("shutdown", None).kind = "shutdown"
      BY PlainIsFrame DEF Plain
    <2> QED
      BY <1>7, <2>1, SentFrames DEF Stop
  <1>8. CASE Closes \/ Crash \/ Restart \/ UNCHANGED vars
    <2>1. \A d \in Conns : down'[d] = down[d] \/ down'[d] = << >>
      BY <1>8 DEF Closes, Crash, Restart, vars
    <2> QED
      BY <1>1, <2>1
  <1> QED
    BY <1>2, <1>3, <1>4, <1>5, <1>6, <1>7, <1>8 DEF Next, Served

LEMMA SaidQueue ==
    ASSUME Typed, QueueInPlace, NEW r \in Runners, NEW dests \in Seq(Ids \cup {All}), Say(r, dests)
    PROVE  QueueInPlace'
  <1> DEFINE batch == Batch(r, said[r], dests)
  <1>1. \/ queue' = queue
        \/ queue' = [queue EXCEPT ![r] = Kept(queue[r] \o batch)]
    BY DEF Say, Batch
  <1>2. /\ batch \in Seq(Frame)
        /\ \A k \in 1..Len(batch) : batch[k].kind = "message" /\ batch[k].from = r
    <2>1. said[r] \in Nat
      BY DEF Typed, RunnerType
    <2> QED
      BY <2>1, BatchNumbers DEF batch
  <1> HIDE DEF batch
  <1>3. CASE queue' = queue
    BY <1>3 DEF QueueInPlace
  <1>4. CASE queue' = [queue EXCEPT ![r] = Kept(queue[r] \o batch)]
    <2> DEFINE q == queue[r]
               t == q \o batch
    <2>1. q \in Seq(Frame) /\ t \in Seq(Frame)
      BY <1>2, ConcatProperties DEF Typed, RunnerType
    <2>2. \A k \in 1..Len(q) : q[k].kind = "message" /\ q[k].from = r
      BY <2>1, LenProperties DEF QueueInPlace
    <2> HIDE DEF q
    <2>3. \A k \in 1..Len(t) : t[k].kind = "message" /\ t[k].from = r
      <3> SUFFICES ASSUME NEW k \in 1..Len(t)
                   PROVE  t[k].kind = "message" /\ t[k].from = r
        OBVIOUS
      <3>1. /\ Len(q) \in Nat /\ Len(batch) \in Nat /\ Len(t) = Len(q) + Len(batch)
            /\ t[k] = IF k <= Len(q) THEN q[k] ELSE batch[k - Len(q)]
        BY <1>2, <2>1, FramesJoined
      <3>2. CASE k <= Len(q)
        BY <2>2, <3>1, <3>2
      <3>3. CASE ~(k <= Len(q))
        <4>1. k - Len(q) \in 1..Len(batch)
          BY <3>1, <3>3
        <4> QED
          BY <1>2, <3>1, <3>3, <4>1
      <3> QED
        BY <3>2, <3>3
    <2> HIDE DEF t
    <2>4. \A k \in 1..Len(Kept(t)) : Kept(t)[k].kind = "message" /\ Kept(t)[k].from = r
      BY <2>1, <2>3, KeptNumbers
    <2>5. \A s \in Runners : queue'[s] = IF s = r THEN Kept(t) ELSE queue[s]
      BY <1>4 DEF Typed, RunnerType, t, q
    <2> QED
      BY <2>4, <2>5 DEF QueueInPlace
  <1> QED
    BY <1>1, <1>3, <1>4

LEMMA QueueStep ==
    ASSUME Typed, QueueInPlace, [Next]_vars
    PROVE  QueueInPlace'
  <1>1. ASSUME NEW c \in Conns, queue' = [queue EXCEPT ![OwnerOf[c]] = << >>]
        PROVE  QueueInPlace'
    BY <1>1, EmptyIsFrames DEF QueueInPlace, Typed, RunnerType
  <1>2. ASSUME NEW r \in Runners, Exit(r)
        PROVE  QueueInPlace'
    BY <1>2, EmptyIsFrames DEF Exit, QueueInPlace, Typed, RunnerType
  <1>3. ASSUME NEW r \in Runners, NEW dests \in Responses[IdOf[r]], Say(r, dests)
        PROVE  QueueInPlace'
    BY <1>3, SaidQueue, TransportAssumption
  <1>4. CASE UNCHANGED queue
    BY <1>4 DEF QueueInPlace
  <1>5. ASSUME NEW r \in Runners, Start(r) \/ Shutdown(r)
        PROVE  UNCHANGED queue
    BY <1>5 DEF Start, Shutdown
  <1>6. ASSUME NEW c \in Conns,
               Dial(c) \/ Refused(c) \/ Lost(c) \/ Receive(c) \/ Served(c) \/ Cut(c)
        PROVE  UNCHANGED queue
    BY <1>6 DEF Dial, Refused, Lost, Disconnected, Receive, Served, Handle, Closed, Cut, runner
  <1>7. ASSUME Stop \/ Closes \/ Crash \/ Restart \/ UNCHANGED vars
        PROVE  UNCHANGED queue
    BY <1>7 DEF Stop, Closes, Crash, Restart, runner, vars
  <1>8. ASSUME NEW c \in Conns, Open(c)
        PROVE  QueueInPlace'
    BY <1>1, <1>8 DEF Open, LeftQueued
  <1> QED
    BY <1>2, <1>3, <1>4, <1>5, <1>6, <1>7, <1>8 DEF Next, Answered

\* What a queue holds of what was said may only become less.
Thins(p, q) ==
    \A s \in Runners : Numbers(s, q) \subseteq Numbers(s, p) /\ (Rising(s, p) => Rising(s, q))

LEMMA ThinsWhen ==
    ASSUME NEW q \in Seq(Frame)
    PROVE  /\ Thins(q, q)
           /\ Thins(q, << >>)
           /\ q # << >> => Thins(q, Tail(q))
           /\ \A m \in Frame : m.kind # "message" => Thins(q, Append(q, m))
  <1>1. Thins(q, q)
    BY DEF Thins
  <1>2. Thins(q, << >>)
    BY NothingSaid DEF Thins
  <1>3. q # << >> => Thins(q, Tail(q))
    BY TailNumbers DEF Thins
  <1>4. ASSUME NEW m \in Frame, m.kind # "message"
        PROVE  Thins(q, Append(q, m))
    <2> SUFFICES ASSUME NEW s \in Runners
                 PROVE  /\ Numbers(s, Append(q, m)) \subseteq Numbers(s, q)
                        /\ Rising(s, q) => Rising(s, Append(q, m))
      BY DEF Thins
    <2> QED
      BY <1>4, AppendNumbers
  <1> QED
    BY <1>1, <1>2, <1>3, <1>4

UpThinner == \A d \in Conns : Thins(up[d], up'[d])

DownThinner == \A c \in Conns : Thins(down[c], down'[c])

LEMMA ClosingThins ==
    ASSUME Typed, NEW r \in Runners,
           up' = [c \in Conns |->
                     IF c \in OpenConn(r) THEN Append(up[c], Plain("close", r)) ELSE up[c]]
    PROVE  UpThinner
  <1> DEFINE m == Plain("close", r)
  <1>1. m \in Frame /\ m.kind # "message"
    BY PlainIsFrame DEF Plain
  <1>2. \A d \in Conns : up[d] \in Seq(Frame) /\ up'[d] \in {up[d], Append(up[d], m)}
    BY DEF Typed, WireType
  <1> HIDE DEF m
  <1> QED
    BY <1>1, <1>2, ThinsWhen DEF UpThinner

LEMMA ClearingThins ==
    ASSUME Typed
    PROVE  /\ (\A d \in Conns : up'[d] = up[d] \/ up'[d] = << >>) => UpThinner
           /\ (\A c \in Conns : down'[c] = down[c] \/ down'[c] = << >>) => DownThinner
  <1>1. \A d \in Conns : up[d] \in Seq(Frame) /\ down[d] \in Seq(Frame)
    BY DEF Typed, WireType
  <1> QED
    BY <1>1, ThinsWhen DEF UpThinner, DownThinner

LEMMA TakingThins ==
    ASSUME Typed, NEW c \in Conns
    PROVE  /\ up[c] # << >> /\ up' = [up EXCEPT ![c] = Tail(@)] => UpThinner
           /\ down[c] # << >> /\ down' = [down EXCEPT ![c] = Tail(@)] => DownThinner
  <1>1. \A d \in Conns : up[d] \in Seq(Frame) /\ down[d] \in Seq(Frame)
    BY DEF Typed, WireType
  <1>2. ASSUME up[c] # << >>, up' = [up EXCEPT ![c] = Tail(@)]
        PROVE  UpThinner
    <2>1. \A d \in Conns : up'[d] = IF d = c THEN Tail(up[d]) ELSE up[d]
      BY <1>2 DEF Typed, WireType
    <2> QED
      BY <1>1, <1>2, <2>1, ThinsWhen DEF UpThinner
  <1>3. ASSUME down[c] # << >>, down' = [down EXCEPT ![c] = Tail(@)]
        PROVE  DownThinner
    <2>1. \A d \in Conns : down'[d] = IF d = c THEN Tail(down[d]) ELSE down[d]
      BY <1>3 DEF Typed, WireType
    <2> QED
      BY <1>1, <1>3, <2>1, ThinsWhen DEF DownThinner
  <1> QED
    BY <1>2, <1>3

LEMMA ShutdownThins ==
    ASSUME Typed, NEW cs, Sent(Plain("shutdown", None), cs)
    PROVE  DownThinner
  <1> DEFINE m == Plain("shutdown", None)
  <1>1. m \in Frame /\ m.kind # "message"
    BY PlainIsFrame DEF Plain
  <1>2. \A d \in Conns : down[d] \in Seq(Frame) /\ down'[d] \in {down[d], Append(down[d], m)}
    BY DEF Typed, WireType, Sent
  <1> HIDE DEF m
  <1> QED
    BY <1>1, <1>2, ThinsWhen DEF DownThinner

\* What is lost, taken or followed by a frame that is no message leaves the rest in order.
LEMMA LessKeepsOrder ==
    ASSUME Upwards, UpThinner, DownThinner, UNCHANGED <<said, heard>>,
           \A r \in Runners : Thins(queue[r], queue'[r])
    PROVE  Upwards'
  <1> USE TransportAssumption
  <1>1. ASSUME NEW d \in Conns
        PROVE  UpwardsTo(d)'
    <2> DEFINE s == OwnerOf[d]
    <2>1. s \in Runners
      OBVIOUS
    <2> HIDE DEF s
    <2>2. /\ Numbers(s, up'[d]) \subseteq Numbers(s, up[d])
          /\ Rising(s, up[d]) => Rising(s, up'[d])
      BY <1>1, <2>1 DEF UpThinner, Thins
    <2>3. Numbers(s, queue'[s]) \subseteq Numbers(s, queue[s])
      BY <2>1 DEF Thins
    <2>4. \A c \in Conns : Numbers(s, down'[c]) \subseteq Numbers(s, down[c])
      BY <2>1 DEF DownThinner, Thins
    <2>5. UpwardsTo(d)
      BY <1>1 DEF Upwards
    <2>6. /\ Rising(s, up'[d])
          /\ Below(Numbers(s, up'[d]), Numbers(s, queue'[s]))
          /\ UpTo(Numbers(s, up'[d]), said'[s])
      BY <2>2, <2>3, <2>5 DEF UpwardsTo, Below, UpTo, s
    <2>7. /\ \A r \in Runners : Below({heard'[r][s]}, Numbers(s, up'[d]))
          /\ \A c \in Conns : Below(Numbers(s, down'[c]), Numbers(s, up'[d]))
      BY <2>2, <2>4, <2>5 DEF UpwardsTo, Below, s
    <2> QED
      BY <2>6, <2>7 DEF UpwardsTo, s
  <1>2. ASSUME NEW s \in Runners
        PROVE  Queued(s)'
    <2>1. /\ Numbers(s, queue'[s]) \subseteq Numbers(s, queue[s])
          /\ Rising(s, queue[s]) => Rising(s, queue'[s])
      BY <1>2 DEF Thins
    <2>2. Queued(s)
      BY <1>2 DEF Upwards
    <2>3. /\ Rising(s, queue'[s])
          /\ UpTo(Numbers(s, queue'[s]), said'[s])
      BY <2>1, <2>2 DEF Queued, UpTo
    <2>4. \A r \in Runners : /\ heard'[r][s] <= said'[s]
                             /\ Below({heard'[r][s]}, Numbers(s, queue'[s]))
      BY <2>1, <2>2 DEF Queued, Below
    <2> QED
      BY <2>3, <2>4 DEF Queued
  <1>3. ASSUME NEW c \in Conns, NEW s \in Runners
        PROVE  Hears(c, s)'
    <2>1. /\ Numbers(s, down'[c]) \subseteq Numbers(s, down[c])
          /\ Rising(s, down[c]) => Rising(s, down'[c])
      BY <1>3 DEF DownThinner, Thins
    <2>2. Numbers(s, queue'[s]) \subseteq Numbers(s, queue[s])
      BY <1>3 DEF Thins
    <2>3. Hears(c, s)
      BY <1>3 DEF Upwards
    <2>4. /\ Rising(s, down'[c])
          /\ UpTo(Numbers(s, down'[c]), said'[s])
      BY <2>1, <2>3 DEF Hears, UpTo
    <2>5. Below({heard'[OwnerOf[c]][s]}, Numbers(s, down'[c]))
      BY <2>1, <2>3 DEF Hears, Below
    <2>6. Below(Numbers(s, down'[c]), Numbers(s, queue'[s]))
      BY <2>1, <2>2, <2>3 DEF Hears, Below
    <2> QED
      BY <2>4, <2>5, <2>6 DEF Hears
  <1> QED
    BY <1>1, <1>2, <1>3 DEF Upwards

LEMMA NumbersAreNumbers ==
    ASSUME Typed, NEW s
    PROVE  /\ \A c \in Conns : Numbers(s, up[c]) \subseteq Nat /\ Numbers(s, down[c]) \subseteq Nat
           /\ \A r \in Runners : Numbers(s, queue[r]) \subseteq Nat
  <1>1. \A q \in Seq(Frame) : Numbers(s, q) \subseteq Nat
    BY SaidIn
  <1>2. /\ \A c \in Conns : up[c] \in Seq(Frame) /\ down[c] \in Seq(Frame)
        /\ \A r \in Runners : queue[r] \in Seq(Frame)
    BY DEF Typed, WireType, RunnerType
  <1> QED
    BY <1>1, <1>2

\* What is up to n is below what is above n.
LEMMA BelowNewer ==
    ASSUME NEW n \in Nat, NEW A \in SUBSET Nat, NEW B \in SUBSET Nat, NEW C \in SUBSET Nat, NEW D,
           UpTo(A, n), Below({n}, C), Below(A, B), D \subseteq B \cup C
    PROVE  Below(A, D)
  BY DEF Below, UpTo

LEMMA UpToMore ==
    ASSUME NEW n \in Nat, NEW m \in Nat, n <= m, NEW A \in SUBSET Nat, UpTo(A, n)
    PROVE  UpTo(A, m)
  BY DEF UpTo

\* A runner says something: all it has said before is below.
LEMMA SayKeepsOrder ==
    ASSUME Typed, OneLine, FramesOnLine, Upwards, NEW r \in Runners,
           NEW dests \in Seq(Ids \cup {All}), Say(r, dests)
    PROVE  Upwards'
  <1> DEFINE batch == Batch(r, said[r], dests)
  <1>1. said[r] \in Nat /\ Len(dests) \in Nat
    BY LenProperties DEF Typed, RunnerType
  <1>2. /\ batch \in Seq(Frame) /\ Rising(r, batch)
        /\ Below({said[r]}, Numbers(r, batch)) /\ UpTo(Numbers(r, batch), said[r] + Len(dests))
    BY <1>1, BatchNumbers DEF batch
  <1>3. /\ UNCHANGED <<down, heard>>
        /\ said' = [said EXCEPT ![r] = said[r] + Len(dests)]
        /\ \/ OpenConn(r) # {} /\ queue' = queue
              /\ up' = [c \in Conns |-> IF c \in OpenConn(r) THEN up[c] \o batch ELSE up[c]]
           \/ OpenConn(r) = {} /\ up' = up
              /\ queue' = [queue EXCEPT ![r] = Kept(queue[r] \o batch)]
    BY DEF Say, Batch
  <1> HIDE DEF batch
  <1>4. /\ \A s \in Runners : said[s] \in Nat /\ said'[s] \in Nat /\ said[s] <= said'[s]
        /\ said'[r] = said[r] + Len(dests)
    BY <1>1, <1>3 DEF Typed, RunnerType
  <1>5. \A c \in Conns, s \in Runners : Numbers(s, up[c]) \subseteq Nat /\ Numbers(s, down[c]) \subseteq Nat
    BY NumbersAreNumbers
  <1>6. \A s \in Runners : Numbers(s, queue[s]) \subseteq Nat
    BY NumbersAreNumbers
  <1>7. Numbers(r, batch) \subseteq Nat
    BY <1>2, SaidIn
  <1>8. \A q \in Runners, s \in Runners : heard[q][s] \in Nat
    BY DEF Typed, RunnerType
  \* What is above has been said up to now.
  <1>9. ASSUME NEW A \in SUBSET Nat, NEW s \in Runners, UpTo(A, said[s])
        PROVE  UpTo(A, said'[s])
    BY <1>4, <1>9, UpToMore
  <1>10. ASSUME NEW A \in SUBSET Nat, UpTo(A, said[r])
         PROVE  Below(A, Numbers(r, batch))
    BY <1>1, <1>2, <1>7, <1>10 DEF Below, UpTo
  <1>11. \A q \in Runners : Below({heard[q][r]}, Numbers(r, batch))
    <2>1. \A q \in Runners : UpTo({heard[q][r]}, said[r])
      BY DEF Upwards, Queued, UpTo
    <2> QED
      BY <1>8, <1>10, <2>1
  <1>12. \A c \in Conns : Below(Numbers(r, down[c]), Numbers(r, batch))
    <2>1. \A c \in Conns : UpTo(Numbers(r, down[c]), said[r])
      BY DEF Upwards, Hears
    <2> QED
      BY <1>5, <1>10, <2>1
  <1>13. \A c \in Conns : OwnerOf[c] = r => Below(Numbers(r, up[c]), Numbers(r, batch))
    <2>1. \A c \in Conns : OwnerOf[c] = r => UpTo(Numbers(r, up[c]), said[r])
      BY DEF Upwards, UpwardsTo
    <2> QED
      BY <1>5, <1>10, <2>1
  <1>14. \A c \in Conns, s \in Runners : UpTo(Numbers(s, down[c]), said'[s])
    BY <1>5, <1>9 DEF Upwards, Hears
  <1>15. \A q \in Runners, s \in Runners : heard[q][s] <= said'[s]
    <2>1. \A q \in Runners, s \in Runners : heard[q][s] <= said[s]
      BY DEF Upwards, Queued
    <2> QED
      BY <1>4, <1>8, <2>1
  <1>16. CASE /\ OpenConn(r) # {} /\ queue' = queue
              /\ up' = [c \in Conns |-> IF c \in OpenConn(r) THEN up[c] \o batch ELSE up[c]]
    <2>1. ASSUME NEW d \in Conns, d \in OpenConn(r)
          PROVE  UpwardsTo(d)'
      <3>1. OwnerOf[d] = r /\ queue[r] = << >> /\ up[d] \in Seq(Frame) /\ up'[d] = up[d] \o batch
        BY <1>16, <2>1 DEF OpenConn, FramesOnLine, Typed, WireType
      <3>2. UpwardsTo(d)
        BY DEF Upwards
      <3>3. /\ Numbers(r, up'[d]) = Numbers(r, up[d]) \cup Numbers(r, batch)
            /\ Rising(r, up'[d])
        BY <1>2, <1>13, <3>1, <3>2, ConcatNumbers DEF UpwardsTo
      <3>4. Numbers(r, queue'[r]) = {}
        BY <1>16, <3>1, NothingSaid
      <3>5. UpTo(Numbers(r, up'[d]), said'[r])
        <4>1. UpTo(Numbers(r, up[d]), said'[r])
          BY <1>5, <1>9, <3>1, <3>2 DEF UpwardsTo
        <4> QED
          BY <1>2, <1>4, <3>3, <4>1 DEF UpTo
      <3>6. \A q \in Runners : Below({heard'[q][r]}, Numbers(r, up'[d]))
        BY <1>3, <1>11, <3>1, <3>2, <3>3 DEF UpwardsTo, Below
      <3>7. \A c \in Conns : Below(Numbers(r, down'[c]), Numbers(r, up'[d]))
        BY <1>3, <1>12, <3>1, <3>2, <3>3 DEF UpwardsTo, Below
      <3> QED
        BY <3>1, <3>3, <3>4, <3>5, <3>6, <3>7 DEF UpwardsTo, Below
    <2>2. ASSUME NEW d \in Conns, d \notin OpenConn(r)
          PROVE  UpwardsTo(d)'
      <3>1. up'[d] = up[d] /\ UpwardsTo(d) /\ OwnerOf[d] \in Runners
        BY <1>16, <2>2, TransportAssumption DEF Upwards
      <3>2. UpTo(Numbers(OwnerOf[d], up[d]), said'[OwnerOf[d]])
        BY <1>5, <1>9, <3>1 DEF UpwardsTo
      <3> QED
        BY <1>3, <1>16, <3>1, <3>2 DEF UpwardsTo
    <2>3. ASSUME NEW s \in Runners
          PROVE  Queued(s)'
      <3>1. UpTo(Numbers(s, queue[s]), said'[s])
        BY <1>6, <1>9 DEF Upwards, Queued
      <3> QED
        BY <1>3, <1>15, <1>16, <3>1 DEF Upwards, Queued
    <2>4. ASSUME NEW c \in Conns, NEW s \in Runners
          PROVE  Hears(c, s)'
      BY <1>3, <1>14, <1>16 DEF Upwards, Hears
    <2> QED
      BY <2>1, <2>2, <2>3, <2>4 DEF Upwards
  <1>17. CASE /\ OpenConn(r) = {} /\ up' = up
              /\ queue' = [queue EXCEPT ![r] = Kept(queue[r] \o batch)]
    <2> DEFINE q == queue[r] \o batch
    <2>1. \A s \in Runners : queue'[s] = IF s = r THEN Kept(q) ELSE queue[s]
      BY <1>17 DEF Typed, RunnerType
    <2>2. queue[r] \in Seq(Frame) /\ q \in Seq(Frame)
      BY <1>2, ConcatProperties DEF Typed, RunnerType
    <2>3. UpTo(Numbers(r, queue[r]), said[r]) /\ Rising(r, queue[r])
      BY DEF Upwards, Queued
    <2>4. Numbers(r, q) = Numbers(r, queue[r]) \cup Numbers(r, batch) /\ Rising(r, q)
      BY <1>2, <1>6, <1>10, <2>2, <2>3, ConcatNumbers
    <2> HIDE DEF q
    <2>5. /\ Numbers(r, queue'[r]) \subseteq Numbers(r, queue[r]) \cup Numbers(r, batch)
          /\ Rising(r, queue'[r])
      BY <2>1, <2>2, <2>4, KeptNumbers
    <2>6. UpTo(Numbers(r, queue'[r]), said'[r])
      <3>1. UpTo(Numbers(r, queue[r]), said'[r])
        BY <1>6, <1>9, <2>3
      <3> QED
        BY <1>2, <1>4, <2>5, <3>1 DEF UpTo
    <2>7. ASSUME NEW d \in Conns
          PROVE  UpwardsTo(d)'
      <3>1. up'[d] = up[d] /\ UpwardsTo(d) /\ OwnerOf[d] \in Runners
        BY <1>17, TransportAssumption DEF Upwards
      <3>2. UpTo(Numbers(OwnerOf[d], up[d]), said'[OwnerOf[d]])
        BY <1>5, <1>9, <3>1 DEF UpwardsTo
      <3>3. Below(Numbers(OwnerOf[d], up[d]), Numbers(OwnerOf[d], queue'[OwnerOf[d]]))
        BY <1>13, <2>1, <2>5, <3>1 DEF UpwardsTo, Below
      <3> QED
        BY <1>3, <3>1, <3>2, <3>3 DEF UpwardsTo
    <2>8. ASSUME NEW s \in Runners
          PROVE  Queued(s)'
      <3>1. CASE s = r
        <4>1. \A p \in Runners : Below({heard[p][r]}, Numbers(r, queue'[r]))
          BY <1>11, <2>5 DEF Upwards, Queued, Below
        <4> QED
          BY <1>3, <1>15, <2>5, <2>6, <3>1, <4>1 DEF Queued
      <3>2. CASE s # r
        <4>1. UpTo(Numbers(s, queue[s]), said'[s]) /\ queue'[s] = queue[s]
          BY <1>6, <1>9, <2>1, <3>2 DEF Upwards, Queued
        <4> QED
          BY <1>3, <1>15, <4>1 DEF Upwards, Queued
      <3> QED
        BY <3>1, <3>2
    <2>9. ASSUME NEW c \in Conns, NEW s \in Runners
          PROVE  Hears(c, s)'
      <3>1. Below(Numbers(s, down[c]), Numbers(s, queue'[s]))
        <4>1. CASE s = r
          BY <1>12, <2>5, <4>1 DEF Upwards, Hears, Below
        <4>2. CASE s # r
          BY <2>1, <4>2 DEF Upwards, Hears
        <4> QED
          BY <4>1, <4>2
      <3> QED
        BY <1>3, <1>14, <3>1 DEF Upwards, Hears
    <2> QED
      BY <2>7, <2>8, <2>9 DEF Upwards
  <1> QED
    BY <1>3, <1>16, <1>17

\* On opening, what has been queued goes on the way to the broker.
LEMMA OpenKeepsOrder ==
    ASSUME Typed, OneLine, FramesOnLine, Upwards, NEW c \in Conns, Open(c)
    PROVE  Upwards'
  <1> DEFINE r == OwnerOf[c]
             q == queue[r]
  <1>1. r \in Runners /\ q \in Seq(Frame) /\ Hello(r) \in Seq(Frame)
    BY TransportAssumption, HelloType DEF Typed, RunnerType
  <1>2. /\ UNCHANGED <<down, said, heard>>
        /\ \A d \in Conns : up'[d] = IF d = c THEN Hello(r) \o q ELSE up[d]
        /\ \A s \in Runners : queue'[s] = IF s = r THEN << >> ELSE queue[s]
    BY DEF Open, LeftQueued, Typed, WireType, RunnerType
  <1>3. \A s \in Runners : Numbers(s, Hello(r)) = {} /\ Rising(s, Hello(r))
    <2>1. \A s \in Runners : Said(s, Hello(r)) = {}
      BY DEF Said, Hello, Plain
    <2> QED
      BY <2>1 DEF Numbers, Rising
  <1>4. OwnerOf[c] = r
    OBVIOUS
  <1> HIDE DEF r, q
  <1>5. /\ Numbers(r, up'[c]) = Numbers(r, q)
        /\ Rising(r, q) => Rising(r, up'[c])
    <2> DEFINE h == Hello(r)
    <2>1. h \in Seq(Frame) /\ up'[c] = h \o q /\ Numbers(r, h) = {} /\ Rising(r, h)
      BY <1>1, <1>2, <1>3
    <2> HIDE DEF h
    <2>2. Below(Numbers(r, h), Numbers(r, q))
      BY <2>1 DEF Below
    <2>3. /\ Numbers(r, h \o q) = Numbers(r, h) \cup Numbers(r, q)
          /\ Rising(r, h) /\ Rising(r, q) /\ Below(Numbers(r, h), Numbers(r, q))
                => Rising(r, h \o q)
      BY <1>1, <2>1, ConcatNumbers
    <2> QED
      BY <2>1, <2>2, <2>3
  <1>6. \A s \in Runners : /\ Numbers(s, queue'[s]) \subseteq Numbers(s, queue[s])
                           /\ Rising(s, queue[s]) => Rising(s, queue'[s])
    BY <1>2, NothingSaid
  <1>7. Numbers(r, queue'[r]) = {}
    BY <1>1, <1>2, NothingSaid
  <1>8. ASSUME NEW d \in Conns
        PROVE  UpwardsTo(d)'
    <2>1. CASE d = c
      <3>1. Queued(r)
        BY <1>1 DEF Upwards
      <3>2. \A e \in Conns : Below(Numbers(r, down[e]), Numbers(r, q))
        BY <1>1 DEF Upwards, Hears, q
      <3> QED
        BY <1>2, <1>4, <1>5, <1>7, <2>1, <3>1, <3>2 DEF UpwardsTo, Queued, Below, q
    <2>2. CASE d # c
      <3>1. up'[d] = up[d] /\ UpwardsTo(d) /\ OwnerOf[d] \in Runners
        BY <1>2, <2>2, TransportAssumption DEF Upwards
      <3> QED
        BY <1>2, <1>6, <3>1 DEF UpwardsTo, Below
    <2> QED
      BY <2>1, <2>2
  <1>9. ASSUME NEW s \in Runners
        PROVE  Queued(s)'
    BY <1>2, <1>6, <1>9 DEF Upwards, Queued, Below, UpTo
  <1>10. ASSUME NEW d \in Conns, NEW s \in Runners
         PROVE  Hears(d, s)'
    BY <1>2, <1>6, <1>10 DEF Upwards, Hears, Below
  <1> QED
    BY <1>8, <1>9, <1>10 DEF Upwards

\* The broker passes a message on: it is above what its hearers have, and below what is
\* still on the way from its runner.
LEMMA PassKeepsOrder ==
    ASSUME Typed, FramesInPlace, FramesOnLine, Upwards, NEW c \in Conns, up[c] # << >>,
           up' = [up EXCEPT ![c] = Tail(@)], NEW cs, Sent(Head(up[c]), cs),
           Head(up[c]).kind = "message", UNCHANGED <<queue, said, heard>>
    PROVE  Upwards'
  <1> DEFINE m == Head(up[c])
             r == OwnerOf[c]
             q == up[c]
  <1>1. q \in Seq(Frame) /\ q # << >> /\ r \in Runners
    BY TransportAssumption DEF Typed, WireType
  <1>2. m \in Frame /\ m.kind = "message" /\ m.from = r /\ m.n \in Nat
    <2>1. m \in Frame /\ 1 \in 1..Len(up[c]) /\ m = up[c][1]
      BY <1>1, HeadIsFrame
    <2> QED
      BY <2>1 DEF FramesInPlace, UpInPlace, Frame
  <1>3. /\ \A s \in Runners : /\ Numbers(s, Tail(q)) \subseteq Numbers(s, q)
                              /\ Rising(s, q) => Rising(s, Tail(q))
        /\ m.n \in Numbers(r, q)
        /\ Rising(r, q) => Below({m.n}, Numbers(r, Tail(q)))
    BY <1>1, <1>2, TailNumbers
  <1>4. \A d \in Conns : up'[d] = IF d = c THEN Tail(q) ELSE up[d]
    BY DEF Typed, WireType
  <1>5. \A d \in Conns : down'[d] \in {down[d], Append(down[d], m)} /\ down[d] \in Seq(Frame)
    BY DEF Sent, Typed, WireType
  <1>6. UpwardsTo(c)
    BY DEF Upwards
  <1>7. OwnerOf[c] = r /\ q = up[c]
    OBVIOUS
  <1> HIDE DEF m, r, q
  <1>8. \A d \in Conns, s \in Runners :
           /\ s # r => /\ Numbers(s, down'[d]) = Numbers(s, down[d])
                       /\ Rising(s, down[d]) => Rising(s, down'[d])
           /\ Numbers(r, down'[d]) \subseteq Numbers(r, down[d]) \cup {m.n}
    <2>1. \A d \in Conns, s \in Runners :
             s # r => /\ Numbers(s, Append(down[d], m)) = Numbers(s, down[d])
                      /\ Rising(s, down[d]) => Rising(s, Append(down[d], m))
      BY <1>2, <1>5, AppendNumbers
    <2>2. \A d \in Conns : Numbers(r, Append(down[d], m)) = Numbers(r, down[d]) \cup {m.n}
      BY <1>1, <1>2, <1>5, AppendNumbers
    <2> QED
      BY <1>5, <2>1, <2>2
  <1>9. \A d \in Conns : Below(Numbers(r, down[d]), {m.n})
    BY <1>3, <1>6, <1>7 DEF UpwardsTo, Below
  <1>10. \A d \in Conns : Rising(r, down'[d])
    <2>1. \A d \in Conns : Rising(r, down[d])
      BY <1>1 DEF Upwards, Hears
    <2>2. \A d \in Conns : Rising(r, Append(down[d], m))
      BY <1>1, <1>2, <1>5, <1>9, <2>1, AppendNumbers
    <2> QED
      BY <1>5, <2>1, <2>2
  <1>11. ASSUME NEW d \in Conns
         PROVE  UpwardsTo(d)'
    <2>1. CASE d = c
      <3>1. Rising(r, q) /\ Below({m.n}, Numbers(r, Tail(q)))
        BY <1>3, <1>6, <1>7 DEF UpwardsTo
      <3>2. \A e \in Conns : Below(Numbers(r, down'[e]), Numbers(r, Tail(q)))
        BY <1>1, <1>3, <1>6, <1>7, <1>8, <3>1 DEF UpwardsTo, Below
      <3>3. Rising(r, Tail(q)) /\ Numbers(r, Tail(q)) \subseteq Numbers(r, q) /\ up'[d] = Tail(q)
        BY <1>1, <1>3, <1>4, <2>1, <3>1
      <3>4. /\ Below(Numbers(r, q), Numbers(r, queue[r])) /\ UpTo(Numbers(r, q), said[r])
            /\ \A p \in Runners : Below({heard[p][r]}, Numbers(r, q))
        BY <1>6, <1>7 DEF UpwardsTo
      <3>5. /\ Below(Numbers(r, Tail(q)), Numbers(r, queue[r])) /\ UpTo(Numbers(r, Tail(q)), said[r])
            /\ \A p \in Runners : Below({heard[p][r]}, Numbers(r, Tail(q)))
        BY <3>3, <3>4 DEF Below, UpTo
      <3> QED
        BY <1>7, <2>1, <3>2, <3>3, <3>5 DEF UpwardsTo
    <2>2. CASE d # c /\ OwnerOf[d] = r
      <3>1. Numbers(r, up[d]) = {}
        BY <1>3, <1>7, <2>2 DEF FramesOnLine
      <3>2. Numbers(r, up'[d]) = {} /\ UpwardsTo(d) /\ up'[d] = up[d]
        BY <1>4, <2>2, <3>1 DEF Upwards
      <3> QED
        BY <2>2, <3>2 DEF UpwardsTo, Below, UpTo
    <2>3. CASE OwnerOf[d] # r
      <3>1. up'[d] = up[d] /\ UpwardsTo(d) /\ OwnerOf[d] \in Runners
        BY <1>4, <1>7, <2>3, TransportAssumption DEF Upwards
      <3>2. \A e \in Conns : Numbers(OwnerOf[d], down'[e]) = Numbers(OwnerOf[d], down[e])
        BY <1>8, <2>3, <3>1
      <3> QED
        BY <3>1, <3>2 DEF UpwardsTo
    <2> QED
      BY <2>1, <2>2, <2>3
  <1>12. ASSUME NEW s \in Runners
         PROVE  Queued(s)'
    BY <1>12 DEF Upwards, Queued
  <1>13. ASSUME NEW d \in Conns, NEW s \in Runners
         PROVE  Hears(d, s)'
    <2>1. CASE s = r
      <3>1. m.n <= said[r] /\ Below({m.n}, Numbers(r, queue[r])) /\ heard[OwnerOf[d]][r] < m.n
        BY <1>3, <1>6, <1>7, TransportAssumption DEF UpwardsTo, UpTo, Below
      <3>2. Hears(d, r)
        BY <1>1 DEF Upwards
      <3> QED
        BY <1>1, <1>8, <1>10, <2>1, <3>1, <3>2 DEF Hears, UpTo, Below
    <2>2. CASE s # r
      BY <1>8, <2>2 DEF Upwards, Hears
    <2> QED
      BY <2>1, <2>2
  <1> QED
    BY <1>11, <1>12, <1>13 DEF Upwards

\* A runner takes a message: what it has heard is below all that follows.
LEMMA HearKeepsOrder ==
    ASSUME Typed, OneLine, FramesInPlace, FramesOnLine, Upwards, NEW c \in Conns, sock[c] = "open",
           down[c] # << >>, down' = [down EXCEPT ![c] = Tail(@)], Head(down[c]).kind # "shutdown",
           heard' = [heard EXCEPT ![OwnerOf[c]][Head(down[c]).from] = Head(down[c]).n],
           UNCHANGED <<up, queue, said>>
    PROVE  Upwards'
  <1> DEFINE q == down[c]
             m == Head(q)
             r == OwnerOf[c]
  <1>1. q \in Seq(Frame) /\ q # << >> /\ r \in Runners
    BY TransportAssumption DEF Typed, WireType
  <1>2. m \in Frame /\ m.kind = "message"
    <2>1. m \in Frame /\ 1 \in 1..Len(down[c]) /\ m = down[c][1]
      BY <1>1, HeadIsFrame
    <2> QED
      BY <2>1 DEF FramesInPlace, DownInPlace
  <1>3. \A d \in Conns : down'[d] = IF d = c THEN Tail(q) ELSE down[d]
    BY DEF Typed, WireType
  <1>4. \A p \in Runners, s \in Runners :
           heard'[p][s] = IF p = r /\ s = m.from THEN m.n ELSE heard[p][s]
    BY DEF Typed, RunnerType
  <1>5. \A s \in Runners : s = m.from => m.n \in Numbers(s, down[c])
    BY <1>1, <1>2, TailNumbers
  <1>6. \A s \in Runners :
           /\ Numbers(s, Tail(q)) \subseteq Numbers(s, q)
           /\ Rising(s, q) => Rising(s, Tail(q))
           /\ s = m.from /\ Rising(s, q) => Below({m.n}, Numbers(s, Tail(q)))
    BY <1>1, <1>2, TailNumbers
  <1>7. r = OwnerOf[c] /\ q = down[c]
    OBVIOUS
  <1> HIDE DEF q, m, r
  <1>8. \A d \in Conns, s \in Runners : Numbers(s, down'[d]) \subseteq Numbers(s, down[d])
    BY <1>3, <1>6, <1>7
  <1>9. \A d \in Conns : d # c /\ OwnerOf[d] = r => down[d] = << >>
    BY <1>7 DEF OneLine, FramesOnLine
  <1>10. ASSUME NEW d \in Conns
         PROVE  UpwardsTo(d)'
    <2> DEFINE s == OwnerOf[d]
    <2>1. s \in Runners /\ UpwardsTo(d)
      BY TransportAssumption DEF Upwards
    <2>2. \A p \in Runners : Below({heard'[p][s]}, Numbers(s, up[d]))
      BY <1>4, <1>5, <2>1 DEF UpwardsTo, Below
    <2>3. \A e \in Conns : Below(Numbers(s, down'[e]), Numbers(s, up[d]))
      BY <1>8, <2>1 DEF UpwardsTo, Below
    <2> QED
      BY <2>1, <2>2, <2>3 DEF UpwardsTo
  <1>11. ASSUME NEW s \in Runners
         PROVE  Queued(s)'
    <2>1. Hears(c, s) /\ Queued(s)
      BY DEF Upwards
    <2>2. \A p \in Runners : heard'[p][s] <= said[s] /\ Below({heard'[p][s]}, Numbers(s, queue[s]))
      BY <1>4, <1>5, <2>1 DEF Hears, Queued, UpTo, Below
    <2> QED
      BY <2>1, <2>2 DEF Queued
  <1>12. ASSUME NEW d \in Conns, NEW s \in Runners
         PROVE  Hears(d, s)'
    <2>1. Hears(d, s)
      BY DEF Upwards
    <2>2. CASE d = c
      <3>1. Rising(s, Tail(q)) /\ down'[c] = Tail(q) /\ Numbers(s, Tail(q)) \subseteq Numbers(s, q)
        BY <1>3, <1>6, <1>7, <2>1, <2>2 DEF Hears
      <3>2. Below({heard'[r][s]}, Numbers(s, Tail(q)))
        BY <1>1, <1>4, <1>6, <1>7, <2>1, <2>2 DEF Hears, Below
      <3> QED
        BY <1>7, <2>1, <2>2, <3>1, <3>2 DEF Hears, UpTo, Below
    <2>3. CASE d # c /\ OwnerOf[d] = r
      <3>1. down'[d] = << >> /\ Numbers(s, << >>) = {} /\ Rising(s, << >>)
        BY <1>3, <1>9, <2>3, NothingSaid
      <3> QED
        BY <3>1 DEF Hears, UpTo, Below
    <2>4. CASE OwnerOf[d] # r
      <3>1. down'[d] = down[d] /\ heard'[OwnerOf[d]][s] = heard[OwnerOf[d]][s]
        BY <1>3, <1>4, <1>7, <2>4, TransportAssumption
      <3> QED
        BY <2>1, <3>1 DEF Hears
    <2> QED
      BY <2>2, <2>3, <2>4
  <1> QED
    BY <1>10, <1>11, <1>12 DEF Upwards

\* Frames stay on the line while its ends are as they were or the frames are lost.
LEMMA OnLineThins ==
    ASSUME FramesOnLine, UpThinner,
           \A c \in Conns : /\ down'[c] # << >> => sock'[c] \in {"open", "closing"}
                            /\ sock'[c] = "open" => sock[c] = "open"
                            /\ \/ sock[c] \in {"open", "closing"} => sock'[c] \in {"open", "closing"}
                               \/ Numbers(OwnerOf[c], up'[c]) = {}
                               \/ proc'[OwnerOf[c]] = "gone",
           \A r \in Runners : proc[r] = "gone" => proc'[r] = "gone",
           \A r \in Runners : queue[r] = << >> => queue'[r] = << >>
    PROVE  FramesOnLine'
  <1>1. \A c \in Conns : /\ OwnerOf[c] \in Runners
                         /\ Numbers(OwnerOf[c], up'[c]) \subseteq Numbers(OwnerOf[c], up[c])
    BY TransportAssumption DEF UpThinner, Thins
  <1>2. \A d \in Conns : Numbers(OwnerOf[d], up'[d]) # {} =>
           sock'[d] \in {"open", "closing"} \/ proc'[OwnerOf[d]] = "gone"
    <2> SUFFICES ASSUME NEW d \in Conns, Numbers(OwnerOf[d], up'[d]) # {}
                 PROVE  sock'[d] \in {"open", "closing"} \/ proc'[OwnerOf[d]] = "gone"
      OBVIOUS
    <2>1. Numbers(OwnerOf[d], up[d]) # {}
      BY <1>1
    <2>2. sock[d] \in {"open", "closing"} \/ proc[OwnerOf[d]] = "gone"
      BY <2>1 DEF FramesOnLine
    <2> QED
      BY <1>1, <2>2
  <1>3. \A c, d \in Conns : c # d /\ OwnerOf[c] = OwnerOf[d] =>
           {} \in {Numbers(OwnerOf[c], up'[c]), Numbers(OwnerOf[d], up'[d])}
    <2> SUFFICES ASSUME NEW c \in Conns, NEW d \in Conns, c # d, OwnerOf[c] = OwnerOf[d]
                 PROVE  Numbers(OwnerOf[c], up'[c]) = {} \/ Numbers(OwnerOf[d], up'[d]) = {}
      OBVIOUS
    <2>1. Numbers(OwnerOf[c], up[c]) = {} \/ Numbers(OwnerOf[d], up[d]) = {}
      BY DEF FramesOnLine
    <2> QED
      BY <1>1, <2>1
  <1>4. \A c \in Conns : sock'[c] = "open" => queue'[OwnerOf[c]] = << >>
    BY <1>1 DEF FramesOnLine
  <1> QED
    BY <1>2, <1>3, <1>4 DEF FramesOnLine

LEMMA OpenOnLine ==
    ASSUME Typed, OneLine, FramesOnLine, NEW c \in Conns, Open(c)
    PROVE  FramesOnLine'
  <1>1. OwnerOf[c] \in Runners /\ sock[c] = "dialling" /\ UNCHANGED <<down, proc>>
    BY TransportAssumption DEF Open
  <1>2. \A d \in Conns : /\ d # c => sock'[d] = sock[d] /\ up'[d] = up[d]
                         /\ d = c => sock'[d] = "open"
    BY DEF Open, Typed, WireType
  <1>3. \A r \in Runners : queue'[r] = IF r = OwnerOf[c] THEN << >> ELSE queue[r]
    BY DEF Open, LeftQueued, Typed, RunnerType
  <1>4. \A d \in Conns : d # c /\ OwnerOf[d] = OwnerOf[c] =>
           sock[d] = "none" /\ Numbers(OwnerOf[d], up[d]) = {}
    <2> SUFFICES ASSUME NEW d \in Conns, d # c, OwnerOf[d] = OwnerOf[c]
                 PROVE  sock[d] = "none" /\ Numbers(OwnerOf[d], up[d]) = {}
      OBVIOUS
    <2>1. sock[d] = "none" /\ proc[OwnerOf[d]] # "gone"
      BY <1>1 DEF OneLine
    <2> QED
      BY <2>1 DEF FramesOnLine
  <1>5. \A d, e \in Conns : d # e /\ OwnerOf[d] = OwnerOf[e] =>
           {} \in {Numbers(OwnerOf[d], up'[d]), Numbers(OwnerOf[e], up'[e])}
    <2> SUFFICES ASSUME NEW d \in Conns, NEW e \in Conns, d # e, OwnerOf[d] = OwnerOf[e]
                 PROVE  Numbers(OwnerOf[d], up'[d]) = {} \/ Numbers(OwnerOf[e], up'[e]) = {}
      OBVIOUS
    <2>1. CASE c \in {d, e}
      BY <1>2, <1>4, <2>1
    <2>2. CASE c \notin {d, e}
      BY <1>2, <2>2 DEF FramesOnLine
    <2> QED
      BY <2>1, <2>2
  <1>6. \A d \in Conns : Numbers(OwnerOf[d], up'[d]) # {} =>
           sock'[d] \in {"open", "closing"} \/ proc'[OwnerOf[d]] = "gone"
    BY <1>1, <1>2 DEF FramesOnLine
  <1>7. \A d \in Conns : sock'[d] = "open" => queue'[OwnerOf[d]] = << >>
    BY <1>2, <1>3, TransportAssumption DEF FramesOnLine
  <1>8. \A d \in Conns : down'[d] # << >> => sock'[d] \in {"open", "closing"}
    BY <1>1, <1>2 DEF FramesOnLine
  <1> QED
    BY <1>5, <1>6, <1>7, <1>8 DEF FramesOnLine

LEMMA SayOnLine ==
    ASSUME Typed, OneLine, FramesOnLine, NEW r \in Runners,
           NEW dests \in Seq(Ids \cup {All}), Say(r, dests)
    PROVE  FramesOnLine'
  <1>1. UNCHANGED <<sock, down, proc>> /\ proc[r] # "gone"
    BY DEF Say
  <1>2. \A d \in Conns : up'[d] = up[d] \/ (OwnerOf[d] = r /\ sock[d] = "open")
    BY DEF Say, OpenConn
  <1>3. \A s \in Runners : queue'[s] = queue[s] \/ (s = r /\ OpenConn(r) = {})
    BY DEF Say, Typed, RunnerType
  <1>4. \A d, e \in Conns : d # e /\ OwnerOf[d] = OwnerOf[e] =>
           {} \in {Numbers(OwnerOf[d], up'[d]), Numbers(OwnerOf[e], up'[e])}
    <2> SUFFICES ASSUME NEW d \in Conns, NEW e \in Conns, d # e, OwnerOf[d] = OwnerOf[e]
                 PROVE  Numbers(OwnerOf[d], up'[d]) = {} \/ Numbers(OwnerOf[e], up'[e]) = {}
      OBVIOUS
    <2>1. CASE up'[d] = up[d] /\ up'[e] = up[e]
      BY <2>1 DEF FramesOnLine
    <2>2. CASE OwnerOf[d] = r /\ sock[d] = "open"
      <3>1. sock[e] = "none"
        BY <2>2 DEF OneLine
      <3>2. up'[e] = up[e]
        BY <1>2, <3>1
      <3> QED
        BY <1>1, <2>2, <3>1, <3>2 DEF FramesOnLine
    <2>3. CASE OwnerOf[e] = r /\ sock[e] = "open"
      <3>1. sock[d] = "none"
        BY <2>3 DEF OneLine
      <3>2. up'[d] = up[d]
        BY <1>2, <3>1
      <3> QED
        BY <1>1, <2>3, <3>1, <3>2 DEF FramesOnLine
    <2> QED
      BY <1>2, <2>1, <2>2, <2>3
  <1>5. \A d \in Conns : Numbers(OwnerOf[d], up'[d]) # {} =>
           sock'[d] \in {"open", "closing"} \/ proc'[OwnerOf[d]] = "gone"
    BY <1>1, <1>2 DEF FramesOnLine
  <1>6. \A d \in Conns : sock'[d] = "open" => queue'[OwnerOf[d]] = << >>
    <2> SUFFICES ASSUME NEW d \in Conns, sock[d] = "open"
                 PROVE  queue'[OwnerOf[d]] = << >>
      BY <1>1
    <2>1. OwnerOf[d] \in Runners /\ d \in OpenConn(OwnerOf[d])
      BY TransportAssumption DEF OpenConn
    <2>2. queue[OwnerOf[d]] = << >>
      BY DEF FramesOnLine
    <2> QED
      BY <1>3, <2>1, <2>2
  <1> QED
    BY <1>1, <1>4, <1>5, <1>6 DEF FramesOnLine

\* Those of the actions that add nothing that is said.
LEMMA QuietKeepsOrder ==
    ASSUME Typed, Upwards, UpThinner, DownThinner, UNCHANGED <<said, heard>>,
           \A r \in Runners : queue'[r] = queue[r] \/ queue'[r] = << >>
    PROVE  Upwards'
  <1>1. \A r \in Runners : queue[r] \in Seq(Frame)
    BY DEF Typed, RunnerType
  <1>2. \A r \in Runners : Thins(queue[r], queue'[r])
    BY <1>1, ThinsWhen
  <1> QED
    BY <1>2, LessKeepsOrder

FramesOrder == FramesOnLine /\ Upwards

LEMMA ByeOrder ==
    ASSUME Typed, OrderInv, NEW r \in Runners, Bye(r), proc[r] \in {"running", "stopping"},
           UNCHANGED <<queue, said, heard>>, DownThinner,
           \A c \in Conns : down'[c] # << >> => down[c] # << >>
    PROVE  FramesOrder'
  <1>1. UpThinner
    BY ClosingThins DEF Bye
  <1>2. \A c \in Conns : /\ sock[c] \in {"open", "closing"} => sock'[c] \in {"open", "closing"}
                         /\ sock'[c] = "open" => sock[c] = "open"
    BY DEF Bye
  <1>3. \A q \in Runners : proc[q] = "gone" => proc'[q] = "gone"
    BY DEF Bye
  <1>4. FramesOnLine'
    <2>1. \A c \in Conns : down'[c] # << >> => sock'[c] \in {"open", "closing"}
      BY <1>2 DEF OrderInv, FramesOnLine
    <2> QED
      BY <1>1, <1>2, <1>3, <2>1, OnLineThins DEF OrderInv
  <1> QED
    BY <1>1, <1>4, QuietKeepsOrder DEF FramesOrder, OrderInv

LEMMA ExitOrder ==
    ASSUME Typed, OrderInv, NEW r \in Runners, Exit(r)
    PROVE  FramesOrder'
  <1>1. UpThinner /\ DownThinner
    <2>1. \A c \in Conns : down'[c] = down[c] \/ down'[c] = << >>
      BY DEF Exit
    <2> QED
      BY <2>1, ClosingThins, ClearingThins DEF Exit
  <1>2. \A q \in Runners : queue'[q] = queue[q] \/ queue'[q] = << >>
    BY DEF Exit, Typed, RunnerType
  <1>3. \A c \in Conns : /\ OwnerOf[c] # r => sock'[c] = sock[c] /\ down'[c] = down[c]
                         /\ OwnerOf[c] = r => sock'[c] = "none" /\ down'[c] = << >>
    BY DEF Exit
  <1>4. /\ proc'[r] = "gone"
        /\ \A q \in Runners : proc[q] = "gone" => proc'[q] = "gone"
    BY DEF Exit, Typed, RunnerType
  <1>5. FramesOnLine'
    <2>1. \A c \in Conns : /\ down'[c] # << >> => sock'[c] \in {"open", "closing"}
                           /\ sock'[c] = "open" => sock[c] = "open"
                           /\ \/ sock[c] \in {"open", "closing"} => sock'[c] \in {"open", "closing"}
                              \/ proc'[OwnerOf[c]] = "gone"
      BY <1>3, <1>4 DEF OrderInv, FramesOnLine
    <2> QED
      BY <1>1, <1>2, <1>4, <2>1, OnLineThins DEF OrderInv
  <1> QED
    BY <1>1, <1>2, <1>5, QuietKeepsOrder DEF FramesOrder, OrderInv, Exit

LEMMA DisconnectedOrder ==
    ASSUME Typed, OrderInv, NEW c \in Conns, Disconnected(c), sock[c] \in {"dialling", "ended"}
    PROVE  FramesOrder'
  <1>1. UpThinner /\ DownThinner
    <2>1. \A d \in Conns : /\ up'[d] = up[d]
                           /\ down'[d] = down[d] \/ down'[d] = << >>
      BY DEF Disconnected, Typed, WireType
    <2> QED
      BY <2>1, ClearingThins
  <1>2. \A d \in Conns : /\ d # c => sock'[d] = sock[d] /\ down'[d] = down[d]
                         /\ d = c => sock'[d] = "none" /\ down'[d] = << >>
    BY DEF Disconnected, Typed, WireType
  <1>3. \A q \in Runners : proc[q] = "gone" => proc'[q] = "gone"
    <2>1. proc' = proc \/ (proc' = [proc EXCEPT ![OwnerOf[c]] = "stopping"] /\ proc[OwnerOf[c]] = "running")
      BY DEF Disconnected
    <2> QED
      BY <2>1 DEF Typed, RunnerType
  <1>4. FramesOnLine'
    <2>1. \A d \in Conns : /\ down'[d] # << >> => sock'[d] \in {"open", "closing"}
                           /\ sock'[d] = "open" => sock[d] = "open"
                           /\ sock[d] \in {"open", "closing"} => sock'[d] \in {"open", "closing"}
      BY <1>2 DEF OrderInv, FramesOnLine
    <2> QED
      BY <1>1, <1>3, <2>1, OnLineThins DEF OrderInv, Disconnected
  <1> QED
    BY <1>1, <1>4, QuietKeepsOrder DEF FramesOrder, OrderInv, Disconnected

LEMMA ReceiveOrder ==
    ASSUME Typed, OrderInv, NEW c \in Conns, Receive(c)
    PROVE  FramesOrder'
  <1>1. DownThinner
    BY TakingThins DEF Receive
  <1>2. \A d \in Conns : down'[d] # << >> => down[d] # << >>
    BY DEF Receive, Typed, WireType
  <1>3. OwnerOf[c] \in Runners /\ proc[OwnerOf[c]] \in {"running", "stopping"}
    BY TransportAssumption DEF Receive, OrderInv, OneLine, Typed, RunnerType
  <1>4. CASE Head(down[c]).kind = "shutdown"
    BY <1>1, <1>2, <1>3, <1>4, ByeOrder DEF Receive
  <1>5. CASE Head(down[c]).kind # "shutdown"
    <2>1. UNCHANGED <<proc, sock, up, queue, said>>
      BY <1>5 DEF Receive
    <2>2. FramesOnLine'
      BY <1>2, <2>1 DEF OrderInv, FramesOnLine
    <2>3. Upwards'
      BY <1>5, <2>1, HearKeepsOrder DEF Receive, OrderInv
    <2> QED
      BY <2>2, <2>3 DEF FramesOrder
  <1> QED
    BY <1>4, <1>5

LEMMA HandleOrder ==
    ASSUME Typed, OrderInv, NEW c \in Conns, Handle(c)
    PROVE  FramesOrder'
  <1> DEFINE m == Head(up[c])
  <1>1. /\ UpThinner /\ UNCHANGED <<proc, queue, said, heard>>
        /\ up[c] # << >> /\ up' = [up EXCEPT ![c] = Tail(@)]
    BY TakingThins DEF Handle, runner
  <1>2. CASE m.kind = "register" /\ Registered(c) /\ UNCHANGED sock
    <2>1. DownThinner /\ down' = down
      BY <1>2, ClearingThins DEF Registered
    <2>2. FramesOnLine'
      BY <1>1, <1>2, <2>1, OnLineThins DEF OrderInv, FramesOnLine
    <2> QED
      BY <1>1, <2>1, <2>2, QuietKeepsOrder DEF FramesOrder, OrderInv
  <1>3. CASE m.kind = "message" /\ Sent(m, Targets(m)) /\ UNCHANGED sock
    <2>1. \A d \in Conns : down'[d] # << >> => sock'[d] \in {"open", "closing"}
      BY <1>3 DEF Sent, OrderInv, FramesOnLine
    <2>2. FramesOnLine'
      BY <1>1, <1>3, <2>1, OnLineThins DEF OrderInv
    <2> QED
      BY <1>1, <1>3, <2>2, PassKeepsOrder DEF FramesOrder, OrderInv
  <1>4. CASE /\ m.kind = "close" /\ sock' = [sock EXCEPT ![c] = "none"]
             /\ down' = [down EXCEPT ![c] = << >>]
    <2>1. DownThinner
      <3>1. \A d \in Conns : down'[d] = down[d] \/ down'[d] = << >>
        BY <1>4 DEF Typed, WireType
      <3> QED
        BY <3>1, ClearingThins
    <2>2. up'[c] = Tail(up[c]) /\ up[c] \in Seq(Frame)
      BY <1>1 DEF Typed, WireType
    <2>3. Numbers(OwnerOf[c], up'[c]) = {}
      <3>1. 1 \in 1..Len(up[c]) /\ up[c][1].kind = "close"
        BY <1>1, <1>4, <2>2, HeadIsFrame
      <3>2. Len(up[c]) = 1
        BY <3>1 DEF OrderInv, FramesInPlace, UpInPlace
      <3>3. Len(Tail(up[c])) = 0
        BY <1>1, <2>2, <3>2, FramesAt
      <3> QED
        BY <2>2, <3>3 DEF Numbers, Said
    <2>4. \A d \in Conns : /\ d # c => sock'[d] = sock[d] /\ down'[d] = down[d]
                           /\ d = c => sock'[d] = "none" /\ down'[d] = << >>
      BY <1>4 DEF Typed, WireType
    <2>5. \A d \in Conns : /\ down'[d] # << >> => sock'[d] \in {"open", "closing"}
                           /\ sock'[d] = "open" => sock[d] = "open"
                           /\ \/ sock[d] \in {"open", "closing"} => sock'[d] \in {"open", "closing"}
                              \/ Numbers(OwnerOf[d], up'[d]) = {}
      BY <2>3, <2>4 DEF OrderInv, FramesOnLine
    <2>6. FramesOnLine'
      BY <1>1, <2>5, OnLineThins DEF OrderInv
    <2> QED
      BY <1>1, <2>1, <2>6, QuietKeepsOrder DEF FramesOrder, OrderInv
  <1> QED
    BY <1>2, <1>3, <1>4 DEF Handle

\* What the broker and the line do besides.
LEMMA BrokerOrder ==
    ASSUME Typed, OrderInv, UNCHANGED runner,
           (\E c \in Conns : Closed(c) \/ Cut(c)) \/ Stop \/ Closes \/ Crash \/ Restart
    PROVE  FramesOrder'
  <1>1. UpThinner
    <2>1. \A d \in Conns : up'[d] = up[d] \/ up'[d] = << >>
      BY DEF Closed, Cut, Stop, Closes, Crash, Restart, Typed, WireType
    <2> QED
      BY <2>1, ClearingThins
  <1>2. DownThinner
    <2>1. CASE Stop
      BY <2>1, ShutdownThins DEF Stop
    <2>2. CASE ~Stop
      <3>1. \A d \in Conns : down'[d] = down[d] \/ down'[d] = << >>
        BY <2>2 DEF Closed, Cut, Closes, Crash, Restart, Typed, WireType
      <3> QED
        BY <3>1, ClearingThins
    <2> QED
      BY <2>1, <2>2
  <1>3. \A d \in Conns :
           /\ sock'[d] = sock[d] \/ (sock'[d] = "ended" /\ up'[d] = << >> /\ down'[d] = << >>)
           /\ down'[d] # << >> => down[d] # << >> \/ sock[d] = "open"
    <2>1. CASE Stop
      BY <2>1 DEF Stop, Sent
    <2>2. CASE \E c \in Conns : Closed(c) \/ Cut(c)
      BY <2>2 DEF Closed, Cut, Typed, WireType
    <2>3. CASE Closes \/ Crash \/ Restart
      BY <2>3 DEF Closes, Crash, Restart, Broken
    <2> QED
      BY <2>1, <2>2, <2>3
  <1>4. \A d \in Conns : /\ down'[d] # << >> => sock'[d] \in {"open", "closing"}
                         /\ sock'[d] = "open" => sock[d] = "open"
                         /\ \/ sock[d] \in {"open", "closing"} => sock'[d] \in {"open", "closing"}
                            \/ Numbers(OwnerOf[d], up'[d]) = {}
    BY <1>3, NothingSaid DEF OrderInv, FramesOnLine
  <1>5. FramesOnLine'
    BY <1>1, <1>4, OnLineThins DEF OrderInv, runner
  <1> QED
    BY <1>1, <1>2, <1>5, QuietKeepsOrder DEF FramesOrder, OrderInv, runner

LEMMA OrderStep ==
    ASSUME Typed, OrderInv, [Next]_vars
    PROVE  OrderInv'
  <1>1. OneLine' /\ FramesInPlace'
    BY LineStep, UpStep, DownStep, QueueStep DEF OrderInv, FramesInPlace
  <1>2. ASSUME UNCHANGED <<sock, up, down, queue, said, heard>>,
               \A r \in Runners : proc[r] = "gone" => proc'[r] = "gone"
        PROVE  FramesOrder'
    <2>1. FramesOnLine'
      BY <1>2, TransportAssumption DEF OrderInv, FramesOnLine
    <2>2. Upwards'
      BY <1>2 DEF OrderInv, Upwards, UpwardsTo, Queued, Hears
    <2> QED
      BY <2>1, <2>2 DEF FramesOrder
  <1>3. ASSUME NEW r \in Runners, Start(r)
        PROVE  FramesOrder'
    BY <1>2, <1>3 DEF Start, Typed, RunnerType
  <1>4. ASSUME NEW r \in Runners, Shutdown(r)
        PROVE  FramesOrder'
    <2>1. DownThinner
      BY <1>4, ClearingThins DEF Shutdown
    <2> QED
      BY <1>4, <2>1, ByeOrder DEF Shutdown
  <1>5. ASSUME NEW r \in Runners, NEW dests \in Responses[IdOf[r]], Say(r, dests)
        PROVE  FramesOrder'
    <2>1. dests \in Seq(Ids \cup {All})
      BY TransportAssumption
    <2> QED
      BY <1>5, <2>1, SayOnLine, SayKeepsOrder DEF OrderInv, FramesOrder
  <1>6. ASSUME NEW c \in Conns, Dial(c)
        PROVE  FramesOrder'
    <2>1. /\ UpThinner /\ DownThinner /\ UNCHANGED <<up, down, proc, queue, said, heard>>
          /\ sock[c] = "none" /\ sock' = [sock EXCEPT ![c] = "dialling"]
      BY <1>6, ClearingThins DEF Dial, OrderInv, OneLine
    <2>2. \A d \in Conns : /\ d # c => sock'[d] = sock[d]
                           /\ d = c => sock'[d] = "dialling"
      BY <2>1 DEF Typed, WireType
    <2>3. \A d \in Conns : /\ down'[d] # << >> => sock'[d] \in {"open", "closing"}
                           /\ sock'[d] = "open" => sock[d] = "open"
                           /\ sock[d] \in {"open", "closing"} => sock'[d] \in {"open", "closing"}
      BY <2>1, <2>2 DEF OrderInv, FramesOnLine
    <2>4. FramesOnLine'
      BY <2>1, <2>3, OnLineThins DEF OrderInv
    <2> QED
      BY <2>1, <2>4, QuietKeepsOrder DEF FramesOrder, OrderInv
  <1>7. ASSUME NEW c \in Conns, Answered(c)
        PROVE  FramesOrder'
    <2>1. CASE Open(c)
      BY <2>1, OpenOnLine, OpenKeepsOrder DEF OrderInv, FramesOrder
    <2> QED
      BY <1>7, <2>1, DisconnectedOrder DEF Answered, Refused, Lost
  <1>8. ASSUME UNCHANGED vars
        PROVE  FramesOrder'
    BY <1>2, <1>8 DEF vars, runner
  <1>9. ASSUME (\E c \in Conns : Closed(c) \/ Cut(c)) \/ Stop \/ Closes \/ Crash \/ Restart
        PROVE  FramesOrder'
    <2>1. UNCHANGED runner
      BY <1>9 DEF Closed, Cut, Stop, Closes, Crash, Restart
    <2> QED
      BY <1>9, <2>1, BrokerOrder
  <1>10. FramesOrder'
    BY <1>3, <1>4, <1>5, <1>6, <1>7, <1>8, <1>9, ExitOrder, ReceiveOrder, HandleOrder
       DEF Next, Served
  <1> QED
    BY <1>1, <1>10 DEF OrderInv, FramesOrder

LEMMA OrderInit ==
    ASSUME Init
    PROVE  OrderInv
  <1>1. \A s : Numbers(s, << >>) = {} /\ Rising(s, << >>)
    BY NothingSaid
  <1>2. OneLine /\ FramesInPlace
    BY EmptyIsFrames DEF Init, OneLine, FramesInPlace, QueueInPlace, UpInPlace, DownInPlace
  <1>3. FramesOnLine
    BY <1>1 DEF Init, FramesOnLine
  <1>4. Upwards
    <2>1. \A d \in Conns : UpwardsTo(d)
      BY <1>1, TransportAssumption DEF Init, UpwardsTo, Below, UpTo
    <2>2. \A s \in Runners : Queued(s)
      BY <1>1 DEF Init, Queued, Below, UpTo
    <2>3. \A c \in Conns, s \in Runners : Hears(c, s)
      BY <1>1 DEF Init, Hears, Below, UpTo
    <2> QED
      BY <2>1, <2>2, <2>3 DEF Upwards
  <1> QED
    BY <1>2, <1>3, <1>4 DEF OrderInv

LEMMA OrderIsHeard ==
    ASSUME Typed, OrderInv
    PROVE  HeardInOrder
  <1> SUFFICES ASSUME NEW c \in Conns, NEW d \in Conns
               PROVE  LET s == OwnerOf[d]
                          path == down[c] \o up[d] \o queue[s]
                      IN  \A i \in Said(s, path) :
                              /\ heard[OwnerOf[c]][s] < path[i].n
                              /\ \A j \in Said(s, path) : i < j => path[i].n < path[j].n
    BY DEF HeardInOrder
  <1> DEFINE s == OwnerOf[d]
             p == down[c] \o up[d]
             path == p \o queue[s]
  <1>1. /\ s \in Runners /\ OwnerOf[c] \in Runners
        /\ down[c] \in Seq(Frame) /\ up[d] \in Seq(Frame) /\ queue[s] \in Seq(Frame)
    BY TransportAssumption DEF Typed, WireType, RunnerType
  <1>2. UpwardsTo(d) /\ Queued(s) /\ Hears(c, s)
    BY <1>1 DEF OrderInv, Upwards
  <1>3. p \in Seq(Frame)
    BY <1>1, ConcatProperties
  <1>4. Numbers(s, p) = Numbers(s, down[c]) \cup Numbers(s, up[d]) /\ Rising(s, p)
    BY <1>1, <1>2, ConcatNumbers DEF UpwardsTo, Hears
  <1>5. Below(Numbers(s, p), Numbers(s, queue[s]))
    BY <1>2, <1>4 DEF UpwardsTo, Hears, Below
  <1> HIDE DEF p
  <1>6. Numbers(s, path) = Numbers(s, p) \cup Numbers(s, queue[s]) /\ Rising(s, path)
    <2> DEFINE q == queue[s]
    <2>1. q \in Seq(Frame) /\ Rising(s, q)
      BY <1>1, <1>2 DEF Queued
    <2> HIDE DEF q
    <2>2. /\ Numbers(s, p \o q) = Numbers(s, p) \cup Numbers(s, q)
          /\ Rising(s, p) /\ Rising(s, q) /\ Below(Numbers(s, p), Numbers(s, q))
                => Rising(s, p \o q)
      BY <1>1, <1>3, <2>1, ConcatNumbers
    <2> QED
      BY <1>4, <1>5, <2>1, <2>2 DEF q
  <1>7. Below({heard[OwnerOf[c]][s]}, Numbers(s, path))
    BY <1>1, <1>2, <1>4, <1>6 DEF UpwardsTo, Queued, Hears, Below
  <1> HIDE DEF s, path
  <1>8. \A i \in Said(s, path) :
           /\ heard[OwnerOf[c]][s] < path[i].n
           /\ \A j \in Said(s, path) : i < j => path[i].n < path[j].n
    BY <1>6, <1>7 DEF Numbers, Rising, Below
  <1> QED
    BY <1>8 DEF path, p, s

\* Over reconnections, queues that overflow and brokers that are killed, what a runner
\* hears from another it hears in the order it was said, and once.
THEOREM HeardStaysInOrder == Spec => []HeardInOrder
  <1>1. Typed /\ OrderInv /\ [Next]_vars => OrderInv'
    BY OrderStep
  <1>2. Typed /\ OrderInv => HeardInOrder
    BY OrderIsHeard
  <1> QED
    BY <1>1, <1>2, OrderInit, TypedInvariant, PTL DEF Spec
=============================================================================
