--------------------------- MODULE BoundedRunProofs ---------------------------
(***************************************************************************)
(* Proofs about BoundedRun, for any requests, actions and faults.          *)
(***************************************************************************)
EXTENDS BoundedRun, FiniteSetTheorems, TLAPS

-----------------------------------------------------------------------------
(* Type correctness                                                        *)

Places == {"received"} \cup Inside \cup Ends

(* A thread that is about to use what it obtained or looked up has obtained or looked  *)
(* it up.  TypeOK needs it: Lookup applies caps to desk[r].                            *)
Equipped ==
    \A r \in Requests :
        /\ pc[r] \in {"issuing", "issued", "seeking"} => broker \in Requests
        /\ pc[r] \in {"issuing", "seeking"} => desk[r] \in Requests
        /\ pc[r] \in {"issued", "seeking"} => home[r] \in Requests
        /\ pc[r] \in {"holding", "granted"} => found[r] \in Requests

TypeInv == TypeOK /\ Equipped

(* Where an action leads its request, and where it leaves the others.      *)
LEMMA GotoPlace ==
    ASSUME pc \in [Requests -> Places], NEW r \in Requests, NEW where \in Places,
           Goto(r, where)
    PROVE  /\ pc' \in [Requests -> Places]
           /\ pc'[r] = where
           /\ \A q \in Requests : q # r => pc'[q] = pc[q]
  BY DEF Goto

LEMMA EventOfType ==
    ASSUME NEW r \in Requests, NEW type \in {"started", "completed", "failed"}
    PROVE  EventOf(r, type) \in Events
  BY RequestAssumption DEF EventOf, Events, Opt

(* The event of a run whose tool gave no answer.                           *)
DownEvent(r) == [EventOf(r, "failed") EXCEPT !.errorCode = "agent_mcp_unavailable"]

LEMMA DownEventType ==
    ASSUME NEW r \in Requests
    PROVE  /\ DownEvent(r) \in Events
           /\ DownEvent(r).type = "failed"
           /\ DownEvent(r).errorCode # Unset
  BY RequestAssumption DEF DownEvent, EventOf, Events, Opt

LEMMA RanksAreNumbers ==
    Cardinality(Issued) \in Nat
  BY RequestAssumption, FS_Subset, FS_CardinalityType DEF Issued

(* An announcement or a report disturbs neither the threads' equipment nor the types,  *)
(* whatever the sink does.                                                             *)
LEMMA PublishKeepsTypes ==
    ASSUME TypeInv, NEW r \in Requests, NEW event \in Events,
           NEW accepted \in {"started", "200", "503"}, NEW refused \in {"503", "500"},
           Publish(r, event, accepted, refused)
    PROVE  TypeInv'
  <1>1. PICK where \in {"started", "200", "500", "503"} : Goto(r, where)
    BY DEF Publish
  <1>2. where \in Places /\ pc \in [Requests -> Places]
    BY DEF Places, Inside, Ends, TypeInv, TypeOK
  <1>3. /\ pc' \in [Requests -> Places]
        /\ pc'[r] = where
        /\ \A q \in Requests : q # r => pc'[q] = pc[q]
    BY <1>1, <1>2, GotoPlace
  <1>4. sink' \subseteq Events
    BY DEF Publish, TypeInv, TypeOK
  <1>5. TypeOK'
    BY <1>3, <1>4 DEF Places, TypeInv, TypeOK, Publish, brokerVars, callVars
  <1>6. Equipped'
    BY <1>3 DEF TypeInv, Equipped, Publish, brokerVars
  <1> QED
    BY <1>5, <1>6 DEF TypeInv

LEMMA TypeInductive ==
    ASSUME TypeInv, [Next]_vars
    PROVE  TypeInv'
  <1>0. pc \in [Requests -> Places]
    BY DEF Places, TypeInv, TypeOK
  <1>1. ASSUME NEW r \in Requests, Authorize(r) \/ Refuse(r)
        PROVE  TypeInv'
    <2>1. PICK where \in {"authorized", "409"} : Goto(r, where)
      BY <1>1 DEF Authorize, Refuse
    <2>2. /\ pc' \in [Requests -> Places]
          /\ pc'[r] = where
          /\ \A q \in Requests : q # r => pc'[q] = pc[q]
      BY <1>0, <2>1, GotoPlace DEF Places, Inside, Ends
    <2> QED
      BY <1>1, <2>2
         DEF Authorize, Refuse, TypeInv, TypeOK, Equipped, Places, brokerVars, callVars
  <1>2. ASSUME NEW r \in Requests, PublishStarted(r) \/ PublishEnd(r) \/ PublishDown(r)
        PROVE  TypeInv'
    <2>1. CASE PublishStarted(r) \/ PublishEnd(r)
      BY <2>1, PublishKeepsTypes, EventOfType DEF PublishStarted, PublishEnd
    <2>2. CASE PublishDown(r)
      BY <2>2, PublishKeepsTypes, DownEventType DEF PublishDown, DownEvent
    <2> QED
      BY <1>2, <2>1, <2>2
  <1>3. ASSUME NEW r \in Requests, Obtain(r)
        PROVE  TypeInv'
    <2>1. CASE broker = Unset
      <3>1. /\ pc' \in [Requests -> Places]
            /\ pc'[r] = "building"
            /\ \A q \in Requests : q # r => pc'[q] = pc[q]
        BY <1>0, <1>3, <2>1, GotoPlace DEF Obtain, Places, Inside
      <3> QED
        BY <1>3, <2>1, <3>1 DEF Obtain, TypeInv, TypeOK, Equipped, Places, callVars
    <2>2. CASE broker # Unset
      <3>1. broker \in Requests
        BY <2>2 DEF TypeInv, TypeOK, Opt
      <3>2. /\ pc' \in [Requests -> Places]
            /\ pc'[r] = IF pc[r] = "started" THEN "issuing" ELSE "seeking"
            /\ \A q \in Requests : q # r => pc'[q] = pc[q]
        BY <1>0, <1>3, <2>2, GotoPlace DEF Obtain, Places, Inside
      <3>3. desk' = [desk EXCEPT ![r] = broker] /\ pc[r] \in {"started", "issued"}
        BY <1>3, <2>2 DEF Obtain
      <3>4. TypeOK'
        BY <1>3, <3>1, <3>2, <3>3 DEF Obtain, TypeInv, TypeOK, Places, Opt, callVars
      <3>5. Equipped'
        BY <1>3, <3>1, <3>2, <3>3 DEF Obtain, TypeInv, TypeOK, Equipped
      <3> QED
        BY <3>4, <3>5 DEF TypeInv
    <2> QED
      BY <2>1, <2>2
  <1>4. ASSUME NEW r \in Requests, Build(r)
        PROVE  TypeInv'
    <2>1. /\ pc' \in [Requests -> Places]
          /\ pc'[r] = "started"
          /\ \A q \in Requests : q # r => pc'[q] = pc[q]
      BY <1>0, <1>4, GotoPlace DEF Build, Places, Inside
    <2> QED
      BY <1>4, <2>1 DEF Build, TypeInv, TypeOK, Equipped, Places, Opt, callVars
  <1>5. ASSUME NEW r \in Requests, Issue(r)
        PROVE  TypeInv'
    <2>1. /\ pc' \in [Requests -> Places]
          /\ pc'[r] = "issued"
          /\ \A q \in Requests : q # r => pc'[q] = pc[q]
      BY <1>0, <1>5, GotoPlace DEF Issue, Places, Inside
    <2>2. desk[r] \in Requests /\ ActionOf[r] \in Actions
      BY <1>5, RequestAssumption DEF Issue, TypeInv, Equipped
    <2>3. caps' \in [Requests -> [Actions -> Opt(Requests)]]
      BY <1>5, <2>2 DEF Issue, IssuedIn, TypeInv, TypeOK, Opt
    <2>4. issuedAt' \in [Requests -> Nat]
      BY <1>5, RanksAreNumbers DEF Issue, TypeInv, TypeOK
    <2>5. home' \in [Requests -> Opt(Requests)] /\ home'[r] \in Requests
      BY <1>5, <2>2 DEF Issue, TypeInv, TypeOK, Opt
    <2>6. TypeOK'
      BY <1>5, <2>1, <2>3, <2>4, <2>5 DEF Issue, TypeInv, TypeOK, Places, callVars
    <2>7. Equipped'
      BY <1>5, <2>1, <2>5 DEF Issue, TypeInv, TypeOK, Equipped
    <2> QED
      BY <2>6, <2>7 DEF TypeInv
  <1>6. ASSUME NEW r \in Requests, Lookup(r)
        PROVE  TypeInv'
    <2>1. desk[r] \in Requests /\ ActionOf[r] \in Actions
      BY <1>6, RequestAssumption DEF Lookup, TypeInv, Equipped
    <2>2. found' = [found EXCEPT ![r] = caps[desk[r]][ActionOf[r]]]
      BY <1>6 DEF Lookup
    <2>3. caps[desk[r]][ActionOf[r]] \in Opt(Requests)
      BY <2>1 DEF TypeInv, TypeOK
    <2>4. found' \in [Requests -> Opt(Requests)]
          /\ found'[r] = caps[desk[r]][ActionOf[r]]
          /\ \A q \in Requests : q # r => found'[q] = found[q]
      BY <2>2, <2>3 DEF TypeInv, TypeOK
    <2>5. /\ pc' \in [Requests -> Places]
          /\ pc'[r] = IF found'[r] = Unset THEN "500" ELSE "holding"
          /\ \A q \in Requests : q # r => pc'[q] = pc[q]
      BY <1>0, <1>6, GotoPlace DEF Lookup, Places, Inside, Ends
    <2>6. TypeOK'
      BY <1>6, <2>4, <2>5 DEF Lookup, TypeInv, TypeOK, Places, callVars
    <2>7. Equipped'
      BY <1>6, <2>3, <2>4, <2>5 DEF Lookup, TypeInv, Equipped, Opt
    <2> QED
      BY <2>6, <2>7 DEF TypeInv
  <1>7. ASSUME NEW r \in Requests, Grant(r)
        PROVE  TypeInv'
    <2>1. /\ pc' \in [Requests -> Places]
          /\ pc'[r] = "granted"
          /\ \A q \in Requests : q # r => pc'[q] = pc[q]
      BY <1>0, <1>7, GotoPlace DEF Grant, Places, Inside
    <2> QED
      BY <1>7, <2>1 DEF Grant, TypeInv, TypeOK, Equipped, Places, brokerVars, callVars
  <1>11. ASSUME NEW r \in Requests, Spend(r)
        PROVE  TypeInv'
    <2>1. /\ pc' \in [Requests -> Places]
          /\ pc'[r] = "calling"
          /\ \A q \in Requests : q # r => pc'[q] = pc[q]
      BY <1>0, <1>11, GotoPlace DEF Spend, Places, Inside
    <2>2. uses' \in [Requests -> Nat]
      BY <1>11 DEF Spend, TypeInv, TypeOK, Equipped
    <2> QED
      BY <1>11, <2>1, <2>2 DEF Spend, TypeInv, TypeOK, Equipped, Places
  <1>8. ASSUME NEW r \in Requests, FailToConsume(r) \/ TimeOut(r) \/ Answer(r) \/ Break(r)
        PROVE  TypeInv'
    <2>1. PICK where \in {"500", "down", "answered"} : Goto(r, where)
      BY <1>8 DEF FailToConsume, TimeOut, Answer, Break
    <2>2. /\ pc' \in [Requests -> Places]
          /\ pc'[r] = where
          /\ \A q \in Requests : q # r => pc'[q] = pc[q]
      BY <1>0, <2>1, GotoPlace DEF Places, Inside, Ends
    <2>3. answer' \in [Requests -> {Unset, "passed", "rejected"}]
      BY <1>8 DEF FailToConsume, TimeOut, Answer, Break, TypeInv, TypeOK, callVars
    <2> QED
      BY <1>8, <2>2, <2>3
         DEF FailToConsume, TimeOut, Answer, Break, TypeInv, TypeOK, Equipped, Places,
             brokerVars, callVars
  <1>9. ASSUME Restart
        PROVE  TypeInv'
    <2>1. /\ pc' \in [Requests -> Places]
          /\ \A q \in Requests : pc'[q] \notin Inside
      BY <1>0, <1>9 DEF Restart, Places, Inside, Ends
    <2> QED
      BY <1>9, <2>1 DEF Restart, TypeInv, TypeOK, Equipped, Places, Inside, Opt, callVars
  <1>10. CASE UNCHANGED vars
    BY <1>10 DEF vars, TypeInv, TypeOK, Equipped, brokerVars, callVars
  <1> QED
    BY <1>1, <1>2, <1>3, <1>4, <1>5, <1>6, <1>7, <1>8, <1>9, <1>10, <1>11 DEF Next, Advance

LEMMA TypeInitially ==
    ASSUME Init
    PROVE  TypeInv
  BY DEF Init, TypeInv, TypeOK, Equipped, Places, Opt

(* Every reachable state is well formed, and no thread uses a broker or a capability   *)
(* it has not obtained.                                                                *)
THEOREM TypeCorrect ==
    Spec => []TypeOK
  <1>1. Init => TypeInv
    BY TypeInitially
  <1>2. TypeInv /\ [Next]_vars => TypeInv'
    BY TypeInductive
  <1>3. TypeInv => TypeOK
    BY DEF TypeInv
  <1> QED
    BY <1>1, <1>2, <1>3, PTL DEF Spec

-----------------------------------------------------------------------------
(* What has been spent stays spent                                         *)

Uncalled ==
    {"received", "authorized", "started", "building", "issuing", "issued", "seeking",
     "holding", "granted"}

(* A call has spent the capability its thread found, and the thread never goes back to *)
(* look for another.                                                                   *)
Spent ==
    \A r \in called :
        /\ pc[r] \notin Uncalled
        /\ found[r] \in Requests
        /\ uses[found[r]] >= 1

SpendInv == TypeInv /\ Spent

(* No step takes a thread back to before its call.                         *)
LEMMA NoWayBack ==
    ASSUME TypeInv, [Next]_vars
    PROVE  \A q \in Requests : pc'[q] \in Uncalled => pc[q] \in Uncalled
  <1>0. pc \in [Requests -> Places]
    BY DEF Places, TypeInv, TypeOK
  <1>1. ASSUME NEW r \in Requests, NEW where,
               Goto(r, where), pc[r] \in Uncalled \/ where \notin Uncalled
        PROVE  \A q \in Requests : pc'[q] \in Uncalled => pc[q] \in Uncalled
    BY <1>0, <1>1 DEF Goto
  <1>2. ASSUME NEW r \in Requests, Authorize(r) \/ Refuse(r)
        PROVE  \A q \in Requests : pc'[q] \in Uncalled => pc[q] \in Uncalled
    BY <1>1, <1>2 DEF Authorize, Refuse, Uncalled
  <1>3. ASSUME NEW r \in Requests, PublishStarted(r) \/ PublishEnd(r) \/ PublishDown(r)
        PROVE  \A q \in Requests : pc'[q] \in Uncalled => pc[q] \in Uncalled
    BY <1>1, <1>3 DEF PublishStarted, PublishEnd, PublishDown, Publish, Uncalled
  <1>4. ASSUME NEW r \in Requests, Obtain(r) \/ Build(r) \/ Issue(r)
        PROVE  \A q \in Requests : pc'[q] \in Uncalled => pc[q] \in Uncalled
    BY <1>1, <1>4 DEF Obtain, Build, Issue, Uncalled
  <1>5. ASSUME NEW r \in Requests, Lookup(r) \/ Grant(r) \/ Spend(r) \/ FailToConsume(r)
        PROVE  \A q \in Requests : pc'[q] \in Uncalled => pc[q] \in Uncalled
    BY <1>1, <1>5 DEF Lookup, Grant, Spend, FailToConsume, Uncalled
  <1>6. ASSUME NEW r \in Requests, TimeOut(r) \/ Answer(r) \/ Break(r)
        PROVE  \A q \in Requests : pc'[q] \in Uncalled => pc[q] \in Uncalled
    BY <1>1, <1>6 DEF TimeOut, Answer, Break, Uncalled
  <1>7. CASE Restart
    BY <1>0, <1>7 DEF Restart, Uncalled
  <1>8. CASE UNCHANGED vars
    BY <1>8 DEF vars
  <1> QED
    BY <1>2, <1>3, <1>4, <1>5, <1>6, <1>7, <1>8 DEF Next, Advance

LEMMA SpendInductive ==
    ASSUME SpendInv, [Next]_vars
    PROVE  SpendInv'
  <1>0. TypeInv /\ TypeInv' /\ pc \in [Requests -> Places]
    BY TypeInductive DEF SpendInv, TypeInv, TypeOK, Places
  <1>1. \A q \in Requests : pc'[q] \in Uncalled => pc[q] \in Uncalled
    BY <1>0, NoWayBack
  <1>2. ASSUME UNCHANGED <<uses, found, called>>
        PROVE  SpendInv'
    BY <1>0, <1>1, <1>2 DEF SpendInv, Spent, TypeInv, TypeOK
  <1>3. ASSUME NEW r \in Requests, Lookup(r)
        PROVE  SpendInv'
    <2>1. r \notin called
      BY <1>3 DEF Lookup, SpendInv, Spent, Uncalled
    <2>2. \A q \in called : found'[q] = found[q]
      BY <1>0, <1>3, <2>1 DEF Lookup, TypeInv, TypeOK
    <2>3. uses' = uses /\ called' = called
      BY <1>3 DEF Lookup, callVars
    <2> QED
      BY <1>0, <1>1, <2>2, <2>3 DEF SpendInv, Spent, TypeInv, TypeOK
  <1>4. ASSUME NEW r \in Requests, Spend(r)
        PROVE  SpendInv'
    <2>1. /\ found[r] \in Requests
          /\ found' = found /\ called' = called \cup {r}
          /\ pc'[r] = "calling"
      BY <1>0, <1>4 DEF Spend, Goto, TypeInv, TypeOK, Equipped
    <2>2. \A o \in Requests : uses'[o] = IF o = found[r] THEN uses[o] + 1 ELSE uses[o]
      BY <1>0, <1>4 DEF Spend, TypeInv, TypeOK
    <2>3. ASSUME NEW q \in called'
          PROVE  pc'[q] \notin Uncalled /\ found'[q] \in Requests /\ uses'[found'[q]] >= 1
      <3>1. q \in Requests /\ (q # r => q \in called)
        BY <1>0, <2>1, <2>3 DEF TypeInv, TypeOK
      <3>2. pc'[q] \notin Uncalled
        BY <1>1, <2>1, <3>1 DEF SpendInv, Spent, Uncalled
      <3>3. found[q] \in Requests
        BY <2>1, <3>1 DEF SpendInv, Spent
      <3>4. uses[found[q]] \in Nat /\ uses[found[r]] \in Nat
        BY <1>0, <2>1, <3>3 DEF TypeInv, TypeOK
      <3>5. q # r => uses[found[q]] >= 1
        BY <3>1 DEF SpendInv, Spent
      <3> QED
        BY <2>1, <2>2, <3>2, <3>3, <3>4, <3>5
    <2> QED
      BY <1>0, <2>3 DEF SpendInv, Spent
  <1>5. ASSUME NEW r \in Requests,
               \/ Authorize(r) \/ Refuse(r) \/ PublishStarted(r) \/ PublishEnd(r)
               \/ PublishDown(r) \/ Obtain(r) \/ Build(r) \/ Issue(r) \/ Grant(r)
               \/ FailToConsume(r) \/ TimeOut(r) \/ Answer(r) \/ Break(r)
        PROVE  UNCHANGED <<uses, found, called>>
    BY <1>5 DEF Authorize, Refuse, PublishStarted, PublishEnd, PublishDown, Publish, Obtain,
                Build, Issue, Grant, FailToConsume, TimeOut, Answer, Break, brokerVars, callVars
  <1>6. CASE Restart \/ UNCHANGED vars
    BY <1>2, <1>6 DEF Restart, vars, brokerVars, callVars
  <1> QED
    BY <1>2, <1>3, <1>4, <1>5, <1>6 DEF Next, Advance

(* A thread is granted only what was not spent when it looked.             *)
LEMMA OnlyGrantsLead ==
    ASSUME TypeInv, [Next]_vars,
           NEW r \in Requests, pc[r] = "holding", pc'[r] = "granted"
    PROVE  ~Exhausted(found[r])
  <1>0. pc \in [Requests -> Places]
    BY DEF Places, TypeInv, TypeOK
  <1>1. ASSUME NEW q \in Requests, NEW where, where # "granted", Goto(q, where)
        PROVE  FALSE
    BY <1>0, <1>1 DEF Goto
  <1>2. ASSUME NEW q \in Requests, Grant(q)
        PROVE  ~Exhausted(found[r])
    BY <1>0, <1>2 DEF Grant, Goto
  <1>3. ASSUME NEW q \in Requests,
               Authorize(q) \/ Refuse(q) \/ PublishStarted(q) \/ PublishEnd(q) \/ PublishDown(q)
        PROVE  FALSE
    BY <1>1, <1>3 DEF Authorize, Refuse, PublishStarted, PublishEnd, PublishDown, Publish
  <1>4. ASSUME NEW q \in Requests, Obtain(q) \/ Build(q) \/ Issue(q) \/ Lookup(q)
        PROVE  FALSE
    BY <1>1, <1>4 DEF Obtain, Build, Issue, Lookup
  <1>5. ASSUME NEW q \in Requests,
               Spend(q) \/ FailToConsume(q) \/ TimeOut(q) \/ Answer(q) \/ Break(q)
        PROVE  FALSE
    BY <1>1, <1>5 DEF Spend, FailToConsume, TimeOut, Answer, Break
  <1>6. CASE Restart
    BY <1>0, <1>6 DEF Restart
  <1>7. CASE UNCHANGED vars
    BY <1>7 DEF vars
  <1> QED
    BY <1>2, <1>3, <1>4, <1>5, <1>6, <1>7 DEF Next, Advance

(* However many threads share an id, and whatever is issued over it, restarted or      *)
(* lost in between: what a call has spent is granted to nobody else.                   *)
THEOREM SpentCapabilitiesAreRefused ==
    Spec => SpentIsRefused
  <1>1. Init => SpendInv
    BY TypeInitially DEF Init, SpendInv, Spent
  <1>2. SpendInv /\ [Next]_vars => SpendInv'
    BY SpendInductive
  <1> DEFINE Refused == \A r \in Requests :
                          pc[r] = "holding" /\ pc'[r] = "granted" =>
                              \A q \in called : found[q] # found[r]
  <1>3. SpendInv /\ [Next]_vars => Refused
    <2> SUFFICES ASSUME SpendInv, [Next]_vars,
                        NEW r \in Requests, pc[r] = "holding", pc'[r] = "granted",
                        NEW q \in called
                 PROVE  found[q] # found[r]
      OBVIOUS
    <2>1. ~Exhausted(found[r])
      BY OnlyGrantsLead DEF SpendInv
    <2>2. found[q] \in Requests /\ uses[found[q]] >= 1
      BY DEF SpendInv, Spent
    <2> QED
      BY <2>1, <2>2 DEF Exhausted
  <1> QED
    BY <1>1, <1>2, <1>3, PTL DEF Spec, SpentIsRefused

-----------------------------------------------------------------------------
(* What the sink was told                                                  *)

Announced ==
    \A r \in Requests :
        enabled /\ pc[r] \in Inside \ {"authorized"} => EventOf(r, "started") \in sink

AnnounceInv == TypeInv /\ Announced

LEMMA AnnounceInductive ==
    ASSUME AnnounceInv, [Next]_vars
    PROVE  AnnounceInv'
  <1>0. TypeInv /\ TypeInv' /\ pc \in [Requests -> Places]
    BY TypeInductive DEF AnnounceInv, TypeInv, TypeOK, Places
  <1>1. ASSUME sink \subseteq sink', enabled' = enabled,
               \A q \in Requests :
                  enabled /\ pc'[q] \in Inside \ {"authorized"} =>
                     pc[q] \in Inside \ {"authorized"} \/ EventOf(q, "started") \in sink'
        PROVE  AnnounceInv'
    BY <1>0, <1>1 DEF AnnounceInv, Announced, EventOf
  <1>2. ASSUME NEW r \in Requests, PublishStarted(r)
        PROVE  AnnounceInv'
    <2>1. sink \subseteq sink' /\ enabled' = enabled
      BY <1>2 DEF PublishStarted, Publish
    <2>2. ~enabled \/ pc'[r] = "503" \/ EventOf(r, "started") \in sink'
      BY <1>0, <1>2 DEF PublishStarted, Publish, Goto
    <2>3. \A q \in Requests : q # r => pc'[q] = pc[q]
      BY <1>0, <1>2 DEF PublishStarted, Publish, Goto
    <2> QED
      BY <1>1, <2>1, <2>2, <2>3 DEF Inside
  <1>3. ASSUME NEW r \in Requests, PublishEnd(r) \/ PublishDown(r)
        PROVE  AnnounceInv'
    <2>1. sink \subseteq sink' /\ enabled' = enabled
      BY <1>3 DEF PublishEnd, PublishDown, Publish
    <2>2. \A q \in Requests : pc'[q] \in {pc[q], "200", "500", "503"}
      BY <1>0, <1>3 DEF PublishEnd, PublishDown, Publish, Goto
    <2> QED
      BY <1>1, <2>1, <2>2 DEF Inside
  <1>4. ASSUME NEW r \in Requests, Authorize(r) \/ Refuse(r) \/ Break(r)
        PROVE  AnnounceInv'
    <2>1. sink' = sink /\ enabled' = enabled
      BY <1>4 DEF Authorize, Refuse, Break
    <2>2. \A q \in Requests : pc'[q] \in {pc[q], "authorized", "409", "500"}
      BY <1>0, <1>4 DEF Authorize, Refuse, Break, Goto
    <2> QED
      BY <1>1, <2>1, <2>2 DEF Inside
  <1>5. ASSUME NEW r \in Requests,
               \/ Obtain(r) \/ Build(r) \/ Issue(r) \/ Lookup(r) \/ Grant(r) \/ Spend(r)
               \/ FailToConsume(r) \/ TimeOut(r) \/ Answer(r)
        PROVE  AnnounceInv'
    <2>1. /\ sink' = sink /\ enabled' = enabled
          /\ pc[r] \in Inside \ {"authorized"}
      BY <1>5 DEF Obtain, Build, Issue, Lookup, Grant, Spend, FailToConsume, TimeOut, Answer,
                  Inside
    <2>2. \A q \in Requests : q # r => pc'[q] = pc[q]
      BY <1>0, <1>5 DEF Obtain, Build, Issue, Lookup, Grant, Spend, FailToConsume, TimeOut,
                        Answer, Goto
    <2> QED
      BY <1>1, <2>1, <2>2
  <1>6. CASE Restart
    <2>1. \A q \in Requests : pc'[q] \notin Inside
      BY <1>0, <1>6 DEF Restart, Inside
    <2> QED
      BY <1>0, <2>1 DEF AnnounceInv, Announced
  <1>7. CASE UNCHANGED vars
    BY <1>1, <1>7 DEF vars
  <1> QED
    BY <1>2, <1>3, <1>4, <1>5, <1>6, <1>7 DEF Next, Advance

(* Where a sink is configured, no tool runs before the workflow knows of it, though the *)
(* sink may fail at any call.                                                           *)
THEOREM NoCallIsSilent ==
    Spec => []CallsAreAnnounced
  <1>1. Init => AnnounceInv
    BY TypeInitially DEF Init, AnnounceInv, Announced, Inside
  <1>2. AnnounceInv /\ [Next]_vars => AnnounceInv'
    BY AnnounceInductive
  <1>3. AnnounceInv => CallsAreAnnounced
    BY DEF AnnounceInv, Announced, CallsAreAnnounced, Inside
  <1> QED
    BY <1>1, <1>2, <1>3, PTL DEF Spec

(* A call has no answer before it gives one, and keeps the one it gave.    *)
Answered ==
    \A r \in Requests :
        /\ pc[r] \in Uncalled \cup {"calling"} => answer[r] = Unset
        /\ pc[r] = "calling" => r \in called
        /\ pc[r] = "answered" => r \in called /\ answer[r] \in {"passed", "rejected"}

AnswerInv == TypeInv /\ Answered /\ EventsMatchAnswers

LEMMA AnswerInductive ==
    ASSUME AnswerInv, [Next]_vars
    PROVE  AnswerInv'
  <1>0. TypeInv /\ TypeInv' /\ pc \in [Requests -> Places]
    BY TypeInductive DEF AnswerInv, TypeInv, TypeOK, Places
  <1>1. \A q \in Requests : pc'[q] \in Uncalled => pc[q] \in Uncalled
    BY <1>0, NoWayBack
  <1>2. ASSUME UNCHANGED <<sink, called, answer>>,
               \A q \in Requests : pc'[q] \in {"calling", "answered"} => pc'[q] = pc[q]
        PROVE  AnswerInv'
    BY <1>0, <1>1, <1>2 DEF AnswerInv, Answered, EventsMatchAnswers
  <1>3. ASSUME NEW r \in Requests, PublishStarted(r) \/ PublishDown(r) \/ PublishEnd(r)
        PROVE  AnswerInv'
    <2>1. UNCHANGED <<called, answer>>
      BY <1>3 DEF PublishStarted, PublishDown, PublishEnd, Publish, callVars
    <2>2. \A q \in Requests : pc'[q] \in {"calling", "answered"} => pc'[q] = pc[q]
      BY <1>0, <1>3 DEF PublishStarted, PublishDown, PublishEnd, Publish, Goto
    <2>3. Answered'
      BY <1>1, <2>1, <2>2 DEF AnswerInv, Answered
    <2>4. CASE PublishStarted(r) \/ PublishDown(r)
      <3>1. \A e \in sink' : e \in sink \/ e.type = "started" \/ e.errorCode # Unset
        BY <2>4, DownEventType
           DEF PublishStarted, PublishDown, Publish, EventOf, DownEvent
      <3> QED
        BY <1>0, <2>1, <2>3, <3>1 DEF AnswerInv, EventsMatchAnswers
    <2>5. CASE PublishEnd(r)
      <3>1. r \in called /\ answer[r] \in {"passed", "rejected"}
        BY <2>5 DEF PublishEnd, AnswerInv, Answered
      <3> DEFINE report == EventOf(r, IF Passed(r) THEN "completed" ELSE "failed")
      <3>2. \A e \in sink' : e \in sink \/ e = report
        BY <2>5 DEF PublishEnd, Publish
      <3>3. /\ report.task = TaskOf[r]
            /\ answer[r] = IF report.type = "completed" THEN "passed" ELSE "rejected"
        BY <3>1 DEF EventOf, Passed
      <3> HIDE DEF report
      <3>4. EventsMatchAnswers'
        BY <2>1, <3>1, <3>2, <3>3 DEF AnswerInv, EventsMatchAnswers
      <3> QED
        BY <1>0, <2>3, <3>4 DEF AnswerInv
    <2> QED
      BY <1>3, <2>4, <2>5
  <1>4. ASSUME NEW r \in Requests, Spend(r)
        PROVE  AnswerInv'
    <2>1. /\ pc[r] = "granted" /\ called' = called \cup {r}
          /\ sink' = sink /\ answer' = answer
          /\ \A q \in Requests : pc'[q] = IF q = r THEN "calling" ELSE pc[q]
      BY <1>0, <1>4 DEF Spend, Goto
    <2>2. Answered'
      BY <1>1, <2>1 DEF AnswerInv, Answered, Uncalled
    <2>3. EventsMatchAnswers'
      BY <2>1 DEF AnswerInv, EventsMatchAnswers
    <2> QED
      BY <1>0, <2>2, <2>3 DEF AnswerInv
  <1>5. ASSUME NEW r \in Requests, Answer(r)
        PROVE  AnswerInv'
    <2>1. /\ pc[r] = "calling" /\ sink' = sink /\ called' = called
          /\ \A q \in Requests : pc'[q] = IF q = r THEN "answered" ELSE pc[q]
      BY <1>0, <1>5 DEF Answer, Goto
    <2>2. PICK a \in {"passed", "rejected"} : answer' = [answer EXCEPT ![r] = a]
      BY <1>5 DEF Answer
    <2>3. \A q \in Requests : answer'[q] = IF q = r THEN a ELSE answer[q]
      BY <1>0, <2>2 DEF TypeInv, TypeOK
    <2>4. r \in called /\ answer[r] = Unset
      BY <2>1 DEF AnswerInv, Answered
    <2>5. Answered'
      BY <1>1, <2>1, <2>3, <2>4 DEF AnswerInv, Answered, Uncalled
    <2>6. ASSUME NEW e \in sink, e.type \in {"completed", "failed"}, e.errorCode = Unset
          PROVE  \E q \in called :
                    /\ TaskOf[q] = e.task
                    /\ answer'[q] = IF e.type = "completed" THEN "passed" ELSE "rejected"
      <3>1. PICK q \in called :
               /\ TaskOf[q] = e.task
               /\ answer[q] = IF e.type = "completed" THEN "passed" ELSE "rejected"
        BY <2>6 DEF AnswerInv, EventsMatchAnswers
      <3>2. q \in Requests /\ q # r
        BY <1>0, <2>4, <3>1, RequestAssumption DEF TypeInv, TypeOK
      <3> QED
        BY <2>3, <3>1, <3>2
    <2>7. EventsMatchAnswers'
      BY <2>1, <2>6 DEF EventsMatchAnswers
    <2> QED
      BY <1>0, <2>5, <2>7 DEF AnswerInv
  <1>6. ASSUME NEW r \in Requests,
               \/ Authorize(r) \/ Refuse(r) \/ Obtain(r) \/ Build(r) \/ Issue(r)
               \/ Lookup(r) \/ Grant(r) \/ FailToConsume(r) \/ TimeOut(r) \/ Break(r)
        PROVE  AnswerInv'
    <2>1. UNCHANGED <<sink, called, answer>>
      BY <1>6 DEF Authorize, Refuse, Obtain, Build, Issue, Lookup, Grant, FailToConsume,
                  TimeOut, Break, callVars
    <2>2. \A q \in Requests : pc'[q] \in {"calling", "answered"} => pc'[q] = pc[q]
      BY <1>0, <1>6 DEF Authorize, Refuse, Obtain, Build, Issue, Lookup, Grant,
                        FailToConsume, TimeOut, Break, Goto
    <2> QED
      BY <1>2, <2>1, <2>2
  <1>7. CASE Restart
    BY <1>0, <1>2, <1>7 DEF Restart, callVars
  <1>8. CASE UNCHANGED vars
    BY <1>2, <1>8 DEF vars, callVars
  <1> QED
    BY <1>3, <1>4, <1>5, <1>6, <1>7, <1>8 DEF Next, Advance

(* The sink is never told a result that no call for the task gave.         *)
THEOREM ReportsAreTrue ==
    Spec => []EventsMatchAnswers
  <1>1. Init => AnswerInv
    BY TypeInitially DEF Init, AnswerInv, Answered, EventsMatchAnswers
  <1>2. AnswerInv /\ [Next]_vars => AnswerInv'
    BY AnswerInductive
  <1>3. AnswerInv => EventsMatchAnswers
    BY DEF AnswerInv
  <1> QED
    BY <1>1, <1>2, <1>3, PTL DEF Spec

-----------------------------------------------------------------------------
(* What a thread finds under its id                                        *)

Unissued == {"received", "authorized", "started", "building", "issuing"}

(* Ranks grow: none exceeds the number of capabilities issued so far.      *)
Ranked == \A r \in Requests : issuedAt[r] <= Cardinality(Issued)

(* Until a thread has looked, the id it issued holds its own capability or a newer one *)
(* in the broker it issued in.                                                         *)
Held ==
    \A r \in Requests :
        /\ pc[r] \in Unissued => issuedAt[r] = 0
        /\ pc[r] \in Unissued \cup {"issued", "seeking"} => found[r] = Unset
        /\ pc[r] \in {"issued", "seeking"} =>
              /\ caps[home[r]][ActionOf[r]] \in Requests
              /\ issuedAt[caps[home[r]][ActionOf[r]]] >= issuedAt[r]

FreshInv == TypeInv /\ Ranked /\ Held /\ LookupIsFresh

LEMMA IssueAddsOne ==
    ASSUME TypeInv, NEW r \in Requests, issuedAt[r] = 0,
           issuedAt' = [issuedAt EXCEPT ![r] = Cardinality(Issued) + 1]
    PROVE  Cardinality(Issued') = Cardinality(Issued) + 1
  <1>1. IsFiniteSet(Issued) /\ r \notin Issued
    BY RequestAssumption, FS_Subset DEF Issued
  <1>2. issuedAt'[r] # 0 /\ \A q \in Requests : q # r => issuedAt'[q] = issuedAt[q]
    BY RanksAreNumbers DEF TypeInv, TypeOK
  <1>3. Issued' = Issued \cup {r}
    BY <1>2 DEF Issued
  <1> QED
    BY <1>1, <1>3, FS_AddElement

LEMMA FreshInductive ==
    ASSUME FreshInv, [Next]_vars
    PROVE  FreshInv'
  <1>0. TypeInv /\ TypeInv' /\ pc \in [Requests -> Places]
    BY TypeInductive DEF FreshInv, TypeInv, TypeOK, Places
  <1>1. ASSUME UNCHANGED <<caps, issuedAt, home, desk, found>>,
               \A q \in Requests :
                  /\ pc'[q] \in Unissued => pc[q] \in Unissued
                  /\ pc'[q] \in {"issued", "seeking"} => pc'[q] = pc[q]
        PROVE  FreshInv'
    BY <1>0, <1>1 DEF FreshInv, Ranked, Held, LookupIsFresh, Issued
  <1>2. ASSUME NEW r \in Requests, Obtain(r)
        PROVE  FreshInv'
    <2>1. /\ UNCHANGED <<caps, issuedAt, home, found>>
          /\ pc[r] \in {"started", "issued"}
      BY <1>2 DEF Obtain
    <2>2. \A q \in Requests :
            q # r => pc'[q] = pc[q] /\ desk'[q] = desk[q]
      BY <1>0, <1>2 DEF Obtain, Goto, TypeInv, TypeOK
    <2>3. /\ pc[r] = "started" => pc'[r] \in {"building", "issuing"}
          /\ pc[r] = "issued" => pc'[r] = "seeking"
      BY <1>0, <1>2, RequestAssumption DEF Obtain, Goto, TypeInv, Equipped
    <2> QED
      BY <1>0, <2>1, <2>2, <2>3
         DEF FreshInv, Ranked, Held, LookupIsFresh, Issued, Unissued
  <1>3. ASSUME NEW r \in Requests, Issue(r)
        PROVE  FreshInv'
    <2>1. /\ pc[r] = "issuing" /\ desk[r] \in Requests /\ ActionOf[r] \in Actions
          /\ issuedAt[r] = 0 /\ found[r] = Unset
      BY <1>3, RequestAssumption
         DEF Issue, FreshInv, TypeInv, Equipped, Held, Unissued
    <2>2. UNCHANGED <<desk, found>>
      BY <1>3 DEF Issue
    <2>3. \A q \in Requests : pc'[q] = IF q = r THEN "issued" ELSE pc[q]
      BY <1>0, <1>3 DEF Issue, Goto
    <2>4. /\ home'[r] = desk[r]
          /\ \A q \in Requests : q # r => home'[q] = home[q]
      BY <1>0, <1>3 DEF Issue, TypeInv, TypeOK
    <2>5. \A b \in Requests, a \in Actions :
             caps'[b][a] = IF b = desk[r] /\ a = ActionOf[r] THEN r ELSE caps[b][a]
      BY <1>0, <1>3 DEF Issue, IssuedIn, TypeInv, TypeOK
    <2> DEFINE n == Cardinality(Issued)
    <2>6. n \in Nat
      BY RanksAreNumbers
    <2>7. \A q \in Requests : issuedAt'[q] = IF q = r THEN n + 1 ELSE issuedAt[q]
      BY <1>0, <1>3, <2>6 DEF Issue, TypeInv, TypeOK
    <2>8. Cardinality(Issued') = n + 1
      BY <1>0, <1>3, <2>1, IssueAddsOne DEF Issue
    <2>9. \A q \in Requests : issuedAt[q] \in Nat /\ issuedAt[q] <= n
      BY <1>0 DEF FreshInv, Ranked, TypeInv, TypeOK
    <2> HIDE DEF n
    <2>10. Ranked'
      BY <2>6, <2>7, <2>8, <2>9 DEF Ranked
    <2>11. ASSUME NEW q \in Requests, pc'[q] \in {"issued", "seeking"}
           PROVE  /\ caps'[home'[q]][ActionOf[q]] \in Requests
                  /\ issuedAt'[caps'[home'[q]][ActionOf[q]]] >= issuedAt'[q]
      <3>1. CASE q = r
        BY <2>1, <2>4, <2>5, <2>6, <2>7, <3>1
      <3>2. CASE q # r
        <4>1. /\ home[q] \in Requests /\ ActionOf[q] \in Actions
              /\ caps[home[q]][ActionOf[q]] \in Requests
              /\ issuedAt[caps[home[q]][ActionOf[q]]] >= issuedAt[q]
          BY <1>0, <2>3, <2>11, <3>2, RequestAssumption
             DEF FreshInv, TypeInv, Equipped, Held
        <4> QED
          BY <2>4, <2>5, <2>6, <2>7, <2>9, <3>2, <4>1
      <3> QED
        BY <3>1, <3>2
    <2>12. Held'
      BY <2>1, <2>2, <2>3, <2>7, <2>11 DEF FreshInv, Held, Unissued
    <2>13. ASSUME NEW q \in Requests, found'[q] # Unset, desk'[q] = home'[q]
           PROVE  issuedAt'[found'[q]] >= issuedAt'[q]
      <3>1. q # r /\ found[q] \in Requests /\ issuedAt[found[q]] >= issuedAt[q]
        BY <1>0, <2>1, <2>2, <2>4, <2>13 DEF FreshInv, LookupIsFresh, TypeInv, TypeOK, Opt
      <3> QED
        BY <2>2, <2>6, <2>7, <2>9, <3>1
    <2>14. LookupIsFresh'
      BY <2>13 DEF LookupIsFresh
    <2> QED
      BY <1>0, <2>10, <2>12, <2>14 DEF FreshInv
  <1>4. ASSUME NEW r \in Requests, Lookup(r)
        PROVE  FreshInv'
    <2>1. /\ UNCHANGED <<caps, issuedAt, home, desk>> /\ pc[r] = "seeking"
      BY <1>4 DEF Lookup
    <2>2. \A q \in Requests :
             found'[q] = IF q = r THEN caps[desk[r]][ActionOf[r]] ELSE found[q]
      BY <1>0, <1>4 DEF Lookup, TypeInv, TypeOK
    <2>3. \A q \in Requests :
             pc'[q] = IF q = r THEN (IF found'[r] = Unset THEN "500" ELSE "holding")
                      ELSE pc[q]
      BY <1>0, <1>4 DEF Lookup, Goto
    <2>4. Ranked' /\ Held'
      BY <2>1, <2>2, <2>3 DEF FreshInv, Ranked, Held, Issued, Unissued
    <2>5. LookupIsFresh'
      BY <2>1, <2>2 DEF FreshInv, LookupIsFresh, Held
    <2> QED
      BY <1>0, <2>4, <2>5 DEF FreshInv
  <1>5. ASSUME NEW r \in Requests,
               \/ Authorize(r) \/ Refuse(r) \/ PublishStarted(r) \/ PublishEnd(r)
               \/ PublishDown(r) \/ Build(r) \/ Grant(r) \/ Spend(r) \/ FailToConsume(r)
               \/ TimeOut(r) \/ Answer(r) \/ Break(r)
        PROVE  FreshInv'
    <2>1. UNCHANGED <<caps, issuedAt, home, desk, found>>
      BY <1>5 DEF Authorize, Refuse, PublishStarted, PublishEnd, PublishDown, Publish, Build,
                  Grant, Spend, FailToConsume, TimeOut, Answer, Break, brokerVars
    <2>2. \A q \in Requests :
             /\ pc'[q] \in Unissued => pc[q] \in Unissued
             /\ pc'[q] \in {"issued", "seeking"} => pc'[q] = pc[q]
      BY <1>0, <1>5
         DEF Authorize, Refuse, PublishStarted, PublishEnd, PublishDown, Publish, Build,
             Grant, Spend, FailToConsume, TimeOut, Answer, Break, Goto, Unissued
    <2> QED
      BY <1>1, <2>1, <2>2
  <1>6. CASE Restart
    BY <1>0, <1>1, <1>6 DEF Restart, Unissued
  <1>7. CASE UNCHANGED vars
    BY <1>1, <1>7 DEF vars, brokerVars
  <1> QED
    BY <1>2, <1>3, <1>4, <1>5, <1>6, <1>7 DEF Next, Advance

(* For any number of equal runs at once: as long as no other broker has taken the      *)
(* place of the one it issued in, a thread finds a capability at least as new as its   *)
(* own.                                                                                *)
THEOREM NothingStaleIsFound ==
    Spec => []LookupIsFresh
  <1>1. Init => FreshInv
    <2> SUFFICES ASSUME Init PROVE FreshInv
      OBVIOUS
    <2>1. Ranked
      BY RanksAreNumbers DEF Init, Ranked
    <2>2. Held /\ LookupIsFresh
      BY DEF Init, Held, LookupIsFresh, Unissued
    <2> QED
      BY <2>1, <2>2, TypeInitially DEF FreshInv
  <1>2. FreshInv /\ [Next]_vars => FreshInv'
    BY FreshInductive
  <1>3. FreshInv => LookupIsFresh
    BY DEF FreshInv
  <1> QED
    BY <1>1, <1>2, <1>3, PTL DEF Spec
=============================================================================
