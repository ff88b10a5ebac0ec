----------------------------- MODULE ServiceRpc -----------------------------
(***************************************************************************)
(* The calls one service makes to others: a session for each call, a       *)
(* SPendingResponseInfo with a timeout ticker while it waits, holders that *)
(* take their calls with them when they die, and the health score that     *)
(* sheds load from a service that times out.  The packets of a service are *)
(* handled one at a time (LogicMessageQueue), so one action is one whole   *)
(* handler.  A session id is 64 bits wide and never comes back; here one   *)
(* is used again as soon as nothing mentions it, which keeps the model     *)
(* finite.                                                                 *)
(*                                                                         *)
(* The update of a ticker manager sets the context of a one-shot ticker to *)
(* null before it calls back, and the callback of a service takes the      *)
(* session from that context: in the code KeepsContext is FALSE and no     *)
(* call ever times out.  TRUE is the program with this one line mended,    *)
(* the one the documents describe.                                         *)
(***************************************************************************)
EXTENDS Naturals, Sequences, Functions

CONSTANTS Local, Remote, \* the services called, on this node and on others
          CallIds,       \* bound: sessions of calls in progress at once
          Holders,       \* CServiceInvokeHolder objects
          NoHolder,
          MaxHealth, High, Low, \* _MAX_, _HIGH_ and _LOW_SERVICE_HEALTH
          MaxBreaks,     \* bound: how often links to other nodes break
          KeepsContext,  \* a one-shot ticker keeps its context for its callback
          Recovering     \* services that may stop being overloaded

Services == Local \cup Remote
\* the probe of a service has the service for its session: one at a time
Sids == CallIds \cup Services

ASSUME RpcAssumption ==
  /\ Services # {}
  /\ Local \cap Remote = {}
  /\ CallIds \cap Services = {}
  /\ NoHolder \notin Holders
  /\ MaxHealth \in Nat /\ High \in Nat /\ Low \in Nat
  /\ Low < High /\ High <= MaxHealth
  /\ MaxBreaks \in Nat
  /\ KeepsContext \in BOOLEAN
  /\ Recovering \subseteq Services

VARIABLES
  call,    \* history: made and not ended yet, or its callback ran again
  to, own, \* nToServiceID and nHolderID of its SPendingResponseInfo
  pending, \* the keys of m_mapPendingResponseInfo
  armed,   \* sessions whose tickTimeout is registered
  list,    \* m_mapHolderSessionIDList
  alive,   \* holders that exist
  health,  \* m_mapServiceHealth (an absent entry counts as MaxHealth)
  inq,     \* the responses in the queue of the calling service
  reqq,    \* the requests in the queue of each service
  busy,    \* requests a service has begun to handle and not answered
  wire, back, \* requests and responses on their way between nodes
  link,    \* connection to the node of each remote service
  seen,    \* whether the registry of the caller has a socket id for it
  faulty,  \* a service that answers late, never, or does not know the message
  breaks

callVars == <<call, to, own, pending, armed, list>>
netVars == <<wire, back, link, seen, breaks>>
calleeVars == <<reqq, busy, faulty>>
vars == <<callVars, alive, health, inq, calleeVars, netVars>>

\* what to says of a session that has no SPendingResponseInfo
Nowhere(sid) == IF sid \in Services THEN sid ELSE CHOOSE s \in Services : TRUE

Results == {"eRRT_OK", "eRRT_TIME_OUT"}
Packet(sid, result) == [sid |-> sid, result |-> result]

Init ==
  /\ call = [sid \in Sids |-> "idle"]
  /\ to = [sid \in Sids |-> Nowhere(sid)]
  /\ own = [sid \in Sids |-> NoHolder]
  /\ pending = {}
  /\ armed = {}
  /\ list = [h \in Holders |-> {}]
  /\ alive = Holders
  /\ health = [s \in Services |-> MaxHealth]
  /\ inq = <<>>
  /\ reqq = [s \in Services |-> <<>>]
  /\ busy = [s \in Services |-> {}]
  /\ wire = [s \in Remote |-> <<>>]
  /\ back = [s \in Remote |-> <<>>]
  /\ link = [s \in Remote |-> TRUE]
  /\ seen = [s \in Remote |-> TRUE]
  /\ faulty = [s \in Services |-> TRUE]
  /\ breaks = 0

-----------------------------------------------------------------------------
(* Mutants: the same steps with a bug such code could have.                *)

\* getPendingResponseInfo leaves the entry in the map
KeepsPending(sid) == pending
\* getPendingResponseInfo leaves the session in the list of its holder
KeepsInList(sid) == list
\* the destructor of a holder forgets the calls that are still waiting
ForgetsCalls(h) == {}
\* only a call made through a holder gets a timeout
TimerOfHolder(S, h) == IF h = NoHolder THEN armed ELSE armed \cup S
\* a probe is sent below the threshold, not at it
ProbesBelow(s) == health[s] < Low
\* the score has no upper limit
NoUpperLimit(h, timeout) == IF timeout THEN (IF h >= 2 THEN h - 2 ELSE 0) ELSE h + 1

-----------------------------------------------------------------------------
(* The calling service.                                                    *)

Mentioned(sid) ==
  \/ \E s \in Services : sid \in Range(reqq[s]) \cup busy[s]
  \/ \E s \in Remote : sid \in Range(wire[s]) \cup Range(back[s])
  \/ \E r \in Results : Packet(sid, r) \in Range(inq)

\* genSessionID: an id nobody knows
Fresh(sid) == sid \notin pending /\ ~Mentioned(sid)

\* the draw of isServiceHealth lets the call pass
isServiceHealth(s) == health[s] >= High \/ \E rand \in 0..(MaxHealth - 1) : rand <= health[s]

\* CTransporter::invoke finds the queue, or a socket id
Reach(s) == s \in Remote => seen[s]

\* ... and sends; what is sent to a socket that is gone is lost
Transport(sid, s) ==
  /\ reqq' = IF s \in Local THEN [reqq EXCEPT ![s] = Append(@, sid)] ELSE reqq
  /\ wire' = IF s \in Remote /\ link[s] THEN [wire EXCEPT ![s] = Append(@, sid)] ELSE wire

Arm(S, h) == armed \cup S

\* addPendingResponseInfo
AddPending(S, h) ==
  /\ call' = [sid \in Sids |-> IF sid \in S THEN "called" ELSE call[sid]]
  /\ pending' = pending \cup S
  /\ armed' = Arm(S, h)
  /\ list' = IF h \in Holders THEN [list EXCEPT ![h] = @ \cup S] ELSE list

\* A call that is refused or finds no socket answers its callback at once,
\* with eRRT_ERROR, and leaves no trace.
Invoke(sid, s, h) ==
  /\ Fresh(sid)
  /\ h \in alive \cup {NoHolder}
  /\ isServiceHealth(s)
  /\ Reach(s)
  /\ Transport(sid, s)
  /\ AddPending({sid}, h)
  /\ to' = [to EXCEPT ![sid] = s]
  /\ own' = [own EXCEPT ![sid] = h]
  /\ UNCHANGED <<alive, health, inq, busy, faulty, back, link, seen, breaks>>

NeedsProbe(s) == health[s] <= Low

\* onCheckServiceHealth, for every service of the map
CheckServiceHealth ==
  LET P == {s \in Services : NeedsProbe(s) /\ Fresh(s) /\ Reach(s)} IN
  /\ P # {}
  /\ AddPending(P, NoHolder)
  /\ reqq' = [s \in Services |-> IF s \in P \cap Local THEN Append(reqq[s], s) ELSE reqq[s]]
  /\ wire' = [s \in Remote |-> IF s \in P /\ link[s] THEN Append(wire[s], s) ELSE wire[s]]
  /\ UNCHANGED <<to, own, alive, health, inq, busy, faulty, back, link, seen, breaks>>

\* CTickerMgrImpl::update, tickerCallback: the sessions the context of the
\* ticker of sid leads onRequestMessageTimeout to
InContext(sid) == IF KeepsContext THEN {sid} ELSE {}

\* onRequestMessageTimeout, from the frame of the service.  The timer of a
\* call that a service in order is about to answer does not fire.
RequestMessageTimeout(sid) ==
  /\ sid \in armed
  /\ faulty[to[sid]] \/ ~Mentioned(sid)
  /\ armed' = armed \ {sid}
  /\ inq' = IF InContext(sid) \cap pending = {} THEN inq
            ELSE Append(inq, Packet(sid, "eRRT_TIME_OUT"))
  /\ UNCHANGED <<call, to, own, pending, list, alive, health, calleeVars, netVars>>

UpdateHealth(h, timeout) ==
  IF timeout THEN (IF h >= 2 THEN h - 2 ELSE 0)
  ELSE (IF h < MaxHealth THEN h + 1 ELSE MaxHealth)

\* getPendingResponseInfo
ErasePending(sid) == pending \ {sid}
EraseFromList(sid) ==
  IF own[sid] = NoHolder THEN list ELSE [list EXCEPT ![own[sid]] = @ \ {sid}]

\* CMessageDispatcher::dispatch, eMT_RESPONSE: the first packet of a session
\* is the answer, a later one finds nothing
DispatchResponse ==
  /\ inq # <<>>
  /\ inq' = Tail(inq)
  /\ LET m == Head(inq) IN
     IF m.sid \notin pending THEN UNCHANGED <<callVars, health>>
     ELSE /\ pending' = ErasePending(m.sid)
          /\ list' = EraseFromList(m.sid)
          /\ armed' = armed \ {m.sid}
          /\ health' = [health EXCEPT ![to[m.sid]] = UpdateHealth(@, m.result = "eRRT_TIME_OUT")]
          /\ call' = [call EXCEPT ![m.sid] = IF @ = "called" THEN "idle" ELSE "again"]
          /\ to' = [to EXCEPT ![m.sid] = Nowhere(m.sid)]
          /\ own' = [own EXCEPT ![m.sid] = NoHolder]
  /\ UNCHANGED <<alive, calleeVars, netVars>>

CallsOf(h) == list[h] \cap pending

\* ~CServiceInvokeHolder, delPendingResponseInfo
DestroyHolder(h) ==
  /\ h \in alive
  /\ alive' = alive \ {h}
  /\ pending' = pending \ CallsOf(h)
  /\ armed' = armed \ CallsOf(h)
  /\ call' = [sid \in Sids |-> IF sid \in CallsOf(h) THEN "idle" ELSE call[sid]]
  /\ to' = [sid \in Sids |-> IF sid \in CallsOf(h) THEN Nowhere(sid) ELSE to[sid]]
  /\ own' = [sid \in Sids |-> IF sid \in CallsOf(h) THEN NoHolder ELSE own[sid]]
  /\ list' = [list EXCEPT ![h] = {}]
  /\ UNCHANGED <<health, inq, calleeVars, netVars>>

-----------------------------------------------------------------------------
(* The called services and the way there.                                  *)

\* CMessageDispatcher::dispatch, eMT_REQUEST: the handler starts, or there is
\* none, or the message cannot be read
DispatchRequest(s) ==
  /\ reqq[s] # <<>>
  /\ reqq' = [reqq EXCEPT ![s] = Tail(@)]
  /\ \/ busy' = [busy EXCEPT ![s] = @ \cup {Head(reqq[s])}]
     \/ faulty[s] /\ UNCHANGED busy
  /\ UNCHANGED <<callVars, alive, health, inq, faulty, netVars>>

\* CServiceInvoker::response, at once or after the handler has waited
Response(s, sid) ==
  /\ sid \in busy[s]
  /\ busy' = [busy EXCEPT ![s] = @ \ {sid}]
  /\ IF s \in Local
       THEN inq' = Append(inq, Packet(sid, "eRRT_OK")) /\ UNCHANGED back
       ELSE /\ \/ link[s] /\ back' = [back EXCEPT ![s] = Append(@, sid)]
               \/ (~link[s] \/ faulty[s]) /\ UNCHANGED back
            /\ UNCHANGED inq
  /\ UNCHANGED <<callVars, alive, health, reqq, faulty, wire, link, seen, breaks>>

\* CCoreConnection::onDispatch of the node that receives a request ...
DeliverRequest(s) ==
  /\ wire[s] # <<>>
  /\ wire' = [wire EXCEPT ![s] = Tail(@)]
  /\ reqq' = [reqq EXCEPT ![s] = Append(@, Head(wire[s]))]
  /\ UNCHANGED <<callVars, alive, health, inq, busy, faulty, back, link, seen, breaks>>

\* ... and of the node that receives a response
DeliverResponse(s) ==
  /\ back[s] # <<>>
  /\ back' = [back EXCEPT ![s] = Tail(@)]
  /\ inq' = Append(inq, Packet(Head(back[s]), "eRRT_OK"))
  /\ UNCHANGED <<callVars, alive, health, calleeVars, wire, link, seen, breaks>>

\* the connection between the nodes breaks, with what is on it
LinkBreak(s) ==
  /\ link[s]
  /\ breaks < MaxBreaks
  /\ breaks' = breaks + 1
  /\ link' = [link EXCEPT ![s] = FALSE]
  /\ wire' = [wire EXCEPT ![s] = <<>>]
  /\ back' = [back EXCEPT ![s] = <<>>]
  /\ UNCHANGED <<callVars, alive, health, inq, calleeVars, seen>>

LinkUp(s) ==
  /\ ~link[s]
  /\ link' = [link EXCEPT ![s] = TRUE]
  /\ UNCHANGED <<callVars, alive, health, inq, calleeVars, wire, back, seen, breaks>>

\* eMCT_UPDATE_SERVICE_REGISTRY_PROXY: the caller learns of it later
UpdateRegistryProxy(s) ==
  /\ seen[s] # link[s]
  /\ seen' = [seen EXCEPT ![s] = link[s]]
  /\ UNCHANGED <<callVars, alive, health, inq, calleeVars, wire, back, link, breaks>>

\* the service is no longer overloaded
Recover(s) ==
  /\ s \in Recovering
  /\ faulty[s]
  /\ faulty' = [faulty EXCEPT ![s] = FALSE]
  /\ UNCHANGED <<callVars, alive, health, inq, reqq, busy, netVars>>

-----------------------------------------------------------------------------

Caller ==
  \/ \E sid \in CallIds, s \in Services, h \in Holders \cup {NoHolder} : Invoke(sid, s, h)
  \/ \E sid \in Sids : RequestMessageTimeout(sid)
  \/ \E h \in Holders : DestroyHolder(h)
  \/ CheckServiceHealth
  \/ DispatchResponse

Callee ==
  \E s \in Services :
    \/ DispatchRequest(s) \/ Recover(s)
    \/ \E sid \in Sids : Response(s, sid)

Net ==
  \E s \in Remote :
    \/ DeliverRequest(s) \/ DeliverResponse(s)
    \/ LinkBreak(s) \/ LinkUp(s) \/ UpdateRegistryProxy(s)

Next == Caller \/ Callee \/ Net

\* The worker threads dispatch what is queued and the frames drive the
\* tickers; only a service in order has to handle and to answer.
Fairness ==
  /\ WF_vars(DispatchResponse)
  /\ WF_vars(CheckServiceHealth)
  /\ \A sid \in Sids : WF_vars(RequestMessageTimeout(sid))
  /\ \A s \in Services : WF_vars(~faulty[s] /\ DispatchRequest(s))
  /\ \A s \in Services, sid \in Sids : WF_vars(~faulty[s] /\ Response(s, sid))
  /\ \A s \in Remote : WF_vars(DeliverRequest(s)) /\ WF_vars(DeliverResponse(s))

SafeSpec == Init /\ [][Next]_vars
Spec == SafeSpec /\ Fairness

-----------------------------------------------------------------------------
(* Properties.                                                             *)

\* Every variable has the type its declaration in the code gives it, and the
\* health score stays within its limits.
TypeOK ==
  /\ call \in [Sids -> {"idle", "called", "again"}]
  /\ to \in [Sids -> Services]
  /\ own \in [Sids -> Holders \cup {NoHolder}]
  /\ pending \in SUBSET Sids
  /\ armed \in SUBSET Sids
  /\ list \in [Holders -> SUBSET Sids]
  /\ alive \in SUBSET Holders
  /\ health \in [Services -> 0..MaxHealth]
  /\ inq \in Seq([sid : Sids, result : Results])
  /\ reqq \in [Services -> Seq(Sids)]
  /\ busy \in [Services -> SUBSET Sids]
  /\ wire \in [Remote -> Seq(Sids)]
  /\ back \in [Remote -> Seq(Sids)]
  /\ link \in [Remote -> BOOLEAN]
  /\ seen \in [Remote -> BOOLEAN]
  /\ faulty \in [Services -> BOOLEAN]
  /\ breaks \in 0..MaxBreaks

\* A call is answered at most once, whichever of the answer and the timeout
\* comes first, and m_mapPendingResponseInfo holds exactly the calls that
\* were neither answered nor dropped with their holder.
AnsweredOnce ==
  \A sid \in Sids : call[sid] # "again" /\ (sid \in pending <=> call[sid] = "called")

\* The list of a holder names exactly its calls that wait: iterHolder of a
\* pending call is always an iterator of a list that exists.
HolderListExact == \A h \in Holders : list[h] = {sid \in pending : own[sid] = h}

\* If a ticker keeps its context: no call waits for ever, its ticker is
\* registered or the packet that ends it is in the queue of the service.
NoCallStuck ==
  \A sid \in pending : sid \in armed \/ Packet(sid, "eRRT_TIME_OUT") \in Range(inq)

\* doc, rpc between services: when a CServiceInvokeHolder dies, the calls it
\* made are destroyed.  No callback of a dead holder is left to run.
NoCallAfterHolder == \A sid \in pending : own[sid] \in alive \cup {NoHolder}

\* doc, messages between services: a call that times out has its callback
\* called and its SPendingResponseInfo deleted.  Every call is answered, by
\* the service or by its timeout, unless its holder dies.
CallAnswered == \A sid \in Sids : call[sid] = "called" ~> call[sid] # "called"

\* A service that has recovered gets its traffic back while the node it is on
\* stays connected: the probes raise its score above the low mark.
Connected(s) == s \in Remote => link[s] /\ seen[s]
HealthRecovers ==
  \A s \in Services : ~faulty[s] /\ Connected(s) ~> health[s] > Low \/ ~Connected(s)
=============================================================================
