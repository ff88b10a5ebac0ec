-------------------------- MODULE ServiceRpcProofs --------------------------
(***************************************************************************)
(* The bookkeeping of the calls of a service, for any number of services,  *)
(* sessions and holders and any health limits.                             *)
(***************************************************************************)
EXTENDS ServiceRpc, TLAPS

\* A session without a SPendingResponseInfo belongs to no holder: the fields
\* of a pending call are written before it is entered and go with it.
Unowned == \A sid \in Sids \ pending : own[sid] = NoHolder

\* The inductive invariant: the list of a holder has to be exact for the
\* destructor to find its calls, and Unowned for a new call not to enter a
\* list it is not in.
Books ==
  /\ AnsweredOnce
  /\ HolderListExact
  /\ KeepsContext => NoCallStuck
  /\ NoCallAfterHolder
  /\ Unowned
Inv == TypeOK /\ Books

Packets == [sid : Sids, result : Results]

\* A packet that is in the queue stays in it when another one is sent.
LEMMA AppendKeeps ==
  ASSUME NEW q \in Seq(Packets), NEW p \in Packets
  PROVE  /\ Append(q, p) \in Seq(Packets)
         /\ Range(Append(q, p)) = Range(q) \cup {p}
<1>1. Append(q, p) \in Seq(Packets)
  OBVIOUS
<1>2. DOMAIN Append(q, p) = 1..(Len(q) + 1) /\ DOMAIN q = 1..Len(q)
  OBVIOUS
<1>3. \A i \in 1..Len(q) : Append(q, p)[i] = q[i]
  OBVIOUS
<1>4. Append(q, p)[Len(q) + 1] = p
  OBVIOUS
<1>5. 1..(Len(q) + 1) = 1..Len(q) \cup {Len(q) + 1}
  OBVIOUS
<1> QED
  BY <1>1, <1>2, <1>3, <1>4, <1>5 DEF Range

\* Taking the first packet loses only that one.
LEMMA TailKeeps ==
  ASSUME NEW q \in Seq(Packets), q # <<>>
  PROVE  /\ Head(q) \in Packets
         /\ Tail(q) \in Seq(Packets)
         /\ Range(q) \subseteq Range(Tail(q)) \cup {Head(q)}
<1>1. Head(q) \in Packets /\ Tail(q) \in Seq(Packets)
  OBVIOUS
<1>2. \A i \in DOMAIN q : i = 1 \/ (i - 1 \in DOMAIN Tail(q) /\ Tail(q)[i - 1] = q[i])
  OBVIOUS
<1>3. q[1] = Head(q)
  OBVIOUS
<1>4. ASSUME NEW x \in Range(q)
      PROVE  x \in Range(Tail(q)) \cup {Head(q)}
  <2>1. PICK i \in DOMAIN q : q[i] = x
    BY <1>4 DEF Range
  <2>2. CASE i = 1
    BY <1>3, <2>1, <2>2
  <2>3. CASE i - 1 \in DOMAIN Tail(q) /\ Tail(q)[i - 1] = q[i]
    BY <2>1, <2>3 DEF Range
  <2> QED
    BY <1>2, <2>2, <2>3
<1> QED
  BY <1>1, <1>4

\* A session always has a service to stand for the one it does not call.
LEMMA NowhereType == \A sid \in Sids : Nowhere(sid) \in Services
BY RpcAssumption DEF Nowhere, Sids

\* updateServiceHealth keeps the score within its limits.
LEMMA HealthType ==
  ASSUME NEW h \in 0..MaxHealth, NEW timeout \in BOOLEAN
  PROVE  UpdateHealth(h, timeout) \in 0..MaxHealth
BY RpcAssumption DEF UpdateHealth

\* The service starts without calls (constructor of CCoreService).
LEMMA InitInv == Init => Inv
<1> SUFFICES ASSUME Init PROVE Inv
  OBVIOUS
<1>1. TypeOK
  BY NowhereType, RpcAssumption DEF Init, TypeOK, Services
<1>2. Books
  BY DEF Init, Books, AnsweredOnce, HolderListExact, NoCallStuck, NoCallAfterHolder, Unowned
<1> QED
  BY <1>1, <1>2 DEF Inv

\* What leaves the caller's maps alone and takes no packet keeps the books.
LEMMA OthersKeepBooks ==
  ASSUME Books, UNCHANGED <<callVars, alive>>, Range(inq) \subseteq Range(inq')
  PROVE  Books'
BY DEF Books, AnsweredOnce, HolderListExact, NoCallStuck, NoCallAfterHolder, Unowned, callVars

\* addPendingResponseInfo, for a call and for the probes.
LEMMA AddKeepsBooks ==
  ASSUME TypeOK, Books,
         NEW S \in SUBSET Sids, S \cap pending = {},
         NEW h \in alive \cup {NoHolder},
         AddPending(S, h),
         own' = [sid \in Sids |-> IF sid \in S THEN h ELSE own[sid]],
         UNCHANGED <<alive, inq>>
  PROVE  Books'
<1>1. AnsweredOnce'
  BY DEF Books, AnsweredOnce, AddPending, TypeOK
<1>2. HolderListExact'
  <2> SUFFICES ASSUME NEW g \in Holders
               PROVE  list'[g] = {sid \in pending' : own'[sid] = g}
    BY DEF HolderListExact
  <2>1. list[g] = {sid \in pending : own[sid] = g}
    BY DEF Books, HolderListExact
  <2>2. list'[g] = IF g = h THEN list[g] \cup S ELSE list[g]
    BY RpcAssumption DEF AddPending, TypeOK
  <2>3. \A sid \in S : own'[sid] = h
    OBVIOUS
  <2>4. \A sid \in pending : own'[sid] = own[sid]
    BY DEF TypeOK
  <2>5. pending' = pending \cup S
    BY DEF AddPending
  <2> QED
    BY <2>1, <2>2, <2>3, <2>4, <2>5
<1>3. KeepsContext => NoCallStuck'
  BY DEF Books, NoCallStuck, AddPending, Arm
<1>4. NoCallAfterHolder'
  BY DEF Books, NoCallAfterHolder, AddPending, TypeOK
<1>5. Unowned'
  BY DEF Books, Unowned, AddPending, TypeOK
<1> QED
  BY <1>1, <1>2, <1>3, <1>4, <1>5 DEF Books

\* A new call: its session is fresh, so it is in no list yet.
LEMMA InvokeInv ==
  ASSUME Inv, NEW sid \in CallIds, NEW s \in Services, NEW h \in Holders \cup {NoHolder},
         Invoke(sid, s, h)
  PROVE  Inv'
<1> USE DEF Inv
<1>0. sid \in Sids /\ sid \notin pending
  BY DEF Sids, Invoke, Fresh
<1>1. TypeOK'
  <2>1. reqq' \in [Services -> Seq(Sids)] /\ wire' \in [Remote -> Seq(Sids)]
    BY <1>0 DEF Invoke, Transport, TypeOK
  <2>2. /\ call' \in [Sids -> {"idle", "called", "again"}]
        /\ pending' \in SUBSET Sids /\ armed' \in SUBSET Sids
        /\ list' \in [Holders -> SUBSET Sids]
    BY <1>0 DEF Invoke, AddPending, Arm, TypeOK
  <2>3. to' \in [Sids -> Services] /\ own' \in [Sids -> Holders \cup {NoHolder}]
    BY <1>0 DEF Invoke, TypeOK
  <2> QED
    BY <2>1, <2>2, <2>3 DEF Invoke, TypeOK
<1>2. own' = [x \in Sids |-> IF x \in {sid} THEN h ELSE own[x]]
  BY <1>0 DEF Invoke, TypeOK
<1>3. {sid} \in SUBSET Sids /\ {sid} \cap pending = {}
  BY <1>0
<1>4. h \in alive \cup {NoHolder} /\ AddPending({sid}, h) /\ UNCHANGED <<alive, inq>>
  BY DEF Invoke
<1>5. Books'
  BY <1>2, <1>3, <1>4, AddKeepsBooks
<1> QED
  BY <1>1, <1>5

\* The probes of onCheckServiceHealth belong to no holder.
LEMMA CheckHealthInv == Inv /\ CheckServiceHealth => Inv'
<1> SUFFICES ASSUME Inv, CheckServiceHealth PROVE Inv'
  OBVIOUS
<1> USE DEF Inv
<1> DEFINE P == {s \in Services : NeedsProbe(s) /\ Fresh(s) /\ Reach(s)}
<1>1. P \in SUBSET Sids /\ P \cap pending = {}
  BY DEF Sids, Fresh
<1>2. AddPending(P, NoHolder) /\ UNCHANGED <<own, alive, inq>>
  BY DEF CheckServiceHealth
<1> HIDE DEF P
<1>3. own' = [sid \in Sids |-> IF sid \in P THEN NoHolder ELSE own[sid]]
  BY <1>1, <1>2 DEF Books, Unowned, TypeOK
<1>4. Books'
  BY <1>1, <1>2, <1>3, AddKeepsBooks
<1>5. TypeOK'
  <2>1. reqq' \in [Services -> Seq(Sids)]
    BY DEF CheckServiceHealth, TypeOK, Sids
  <2>2. wire' \in [Remote -> Seq(Sids)]
    BY DEF CheckServiceHealth, TypeOK, Sids, Services
  <2>3. /\ call' \in [Sids -> {"idle", "called", "again"}]
        /\ pending' \in SUBSET Sids /\ armed' \in SUBSET Sids
        /\ list' \in [Holders -> SUBSET Sids]
    BY <1>1, <1>2, RpcAssumption DEF AddPending, Arm, TypeOK
  <2> QED
    BY <2>1, <2>2, <2>3 DEF CheckServiceHealth, TypeOK
<1> QED
  BY <1>4, <1>5

\* A ticker that fires leaves a packet that ends its call, if its context
\* still names it.
LEMMA TimeoutInv ==
  ASSUME Inv, NEW sid \in Sids, RequestMessageTimeout(sid)
  PROVE  Inv'
<1> USE DEF Inv
<1> DEFINE p == Packet(sid, "eRRT_TIME_OUT")
<1>1. p \in Packets /\ inq \in Seq(Packets)
  BY DEF Packet, Packets, Results, TypeOK
<1>2. Append(inq, p) \in Seq(Packets) /\ Range(Append(inq, p)) = Range(inq) \cup {p}
  BY <1>1, AppendKeeps
<1>3. /\ inq' = (IF InContext(sid) \cap pending = {} THEN inq ELSE Append(inq, p))
      /\ armed' = armed \ {sid}
  BY DEF RequestMessageTimeout
<1>4. UNCHANGED <<call, to, own, pending, list, alive, health, calleeVars, netVars>>
  BY DEF RequestMessageTimeout
<1>5. TypeOK'
  BY <1>1, <1>2, <1>3, <1>4 DEF TypeOK, Packets, calleeVars, netVars
<1>6. KeepsContext => NoCallStuck'
  BY <1>2, <1>3, <1>4 DEF Books, NoCallStuck, InContext
<1>7. AnsweredOnce' /\ HolderListExact' /\ NoCallAfterHolder' /\ Unowned'
  BY <1>4 DEF Books, AnsweredOnce, HolderListExact, NoCallAfterHolder, Unowned
<1> QED
  BY <1>5, <1>6, <1>7 DEF Books

\* The answer, or the timeout, of a call; or the second of the two.
LEMMA DispatchResponseInv == Inv /\ DispatchResponse => Inv'
<1> SUFFICES ASSUME Inv, DispatchResponse PROVE Inv'
  OBVIOUS
<1> USE DEF Inv
<1> DEFINE m == Head(inq)
<1>1. inq \in Seq(Packets) /\ inq # <<>>
  BY DEF DispatchResponse, TypeOK, Packets
<1>2. m \in Packets /\ inq' \in Seq(Packets) /\ Range(inq) \subseteq Range(inq') \cup {m}
  BY <1>1, TailKeeps DEF DispatchResponse
<1>3. m.sid \in Sids
  BY <1>2 DEF Packets
<1>4. UNCHANGED <<alive, calleeVars, netVars>>
  BY DEF DispatchResponse
<1>5. CASE m.sid \notin pending
  <2>1. UNCHANGED <<callVars, health>>
    BY <1>5 DEF DispatchResponse
  <2>2. \A sid \in pending : Packet(sid, "eRRT_TIME_OUT") # m
    BY <1>5 DEF Packet
  <2>5. pending' = pending /\ armed' = armed
    BY <2>1 DEF callVars
  <2>6. KeepsContext => NoCallStuck'
    BY <2>2, <2>5, <1>2 DEF Books, NoCallStuck
  <2>3. AnsweredOnce' /\ HolderListExact' /\ NoCallAfterHolder' /\ Unowned'
    BY <2>1, <1>4 DEF Books, AnsweredOnce, HolderListExact, NoCallAfterHolder, Unowned, callVars
  <2>4. TypeOK'
    BY <2>1, <1>2, <1>4 DEF TypeOK, Packets, callVars, calleeVars, netVars
  <2> QED
    BY <2>3, <2>4, <2>6 DEF Books
<1>6. CASE m.sid \in pending
  <2>1. /\ pending' = pending \ {m.sid}
        /\ list' = EraseFromList(m.sid)
        /\ armed' = armed \ {m.sid}
        /\ health' = [health EXCEPT ![to[m.sid]] = UpdateHealth(@, m.result = "eRRT_TIME_OUT")]
        /\ call' = [call EXCEPT ![m.sid] = IF @ = "called" THEN "idle" ELSE "again"]
        /\ to' = [to EXCEPT ![m.sid] = Nowhere(m.sid)]
        /\ own' = [own EXCEPT ![m.sid] = NoHolder]
    BY <1>6 DEF DispatchResponse, ErasePending
  <2> HIDE DEF m
  <2>2. call[m.sid] = "called"
    BY <1>3, <1>6 DEF Books, AnsweredOnce
  <2>3. AnsweredOnce'
    BY <1>3, <2>1, <2>2 DEF Books, AnsweredOnce, TypeOK
  <2>4. HolderListExact'
    <3> SUFFICES ASSUME NEW g \in Holders
                 PROVE  list'[g] = {sid \in pending' : own'[sid] = g}
      BY DEF HolderListExact
    <3>1. list[g] = {sid \in pending : own[sid] = g}
      BY DEF Books, HolderListExact
    <3>2. list'[g] = IF own[m.sid] = g THEN list[g] \ {m.sid} ELSE list[g]
      BY <1>3, <2>1, RpcAssumption DEF EraseFromList, TypeOK
    <3>3. \A sid \in pending' : own'[sid] = own[sid] /\ sid # m.sid
      BY <2>1 DEF TypeOK
    <3> QED
      BY <2>1, <3>1, <3>2, <3>3
  <2>5. KeepsContext => NoCallStuck'
    <3> SUFFICES ASSUME KeepsContext, NEW sid \in pending'
                 PROVE  sid \in armed' \/ Packet(sid, "eRRT_TIME_OUT") \in Range(inq')
      BY DEF NoCallStuck
    <3>1. sid \in pending /\ sid # m.sid
      BY <2>1
    <3>2. sid \in armed \/ Packet(sid, "eRRT_TIME_OUT") \in Range(inq)
      BY <3>1 DEF Books, NoCallStuck
    <3>3. Packet(sid, "eRRT_TIME_OUT") # m
      BY <3>1 DEF Packet
    <3> QED
      BY <1>2, <2>1, <3>1, <3>2, <3>3
  <2>6. NoCallAfterHolder' /\ Unowned'
    BY <1>3, <1>4, <2>1 DEF Books, NoCallAfterHolder, Unowned, TypeOK
  <2>7. TypeOK'
    <3>1. health' \in [Services -> 0..MaxHealth]
      BY <1>3, <2>1, HealthType DEF TypeOK
    <3>2. to' \in [Sids -> Services] /\ own' \in [Sids -> Holders \cup {NoHolder}]
      BY <1>3, <2>1, NowhereType DEF TypeOK
    <3>3. list' \in [Holders -> SUBSET Sids]
      BY <1>3, <2>1 DEF TypeOK, EraseFromList
    <3>4. call' \in [Sids -> {"idle", "called", "again"}]
      BY <1>3, <2>1 DEF TypeOK
    <3>5. pending' \in SUBSET Sids /\ armed' \in SUBSET Sids
      BY <2>1 DEF TypeOK
    <3> QED
      BY <1>2, <1>4, <3>1, <3>2, <3>3, <3>4, <3>5 DEF TypeOK, Packets, calleeVars, netVars
  <2> QED
    BY <2>3, <2>4, <2>5, <2>6, <2>7 DEF Books
<1> QED
  BY <1>5, <1>6

\* A holder dies: because its list is exact, all of its calls go.
LEMMA DestroyHolderInv ==
  ASSUME Inv, NEW h \in Holders, DestroyHolder(h)
  PROVE  Inv'
<1> USE DEF Inv
<1> DEFINE D == CallsOf(h)
<1>1. D = {sid \in pending : own[sid] = h}
  BY DEF CallsOf, Books, HolderListExact
<1>2. D \subseteq Sids
  BY <1>1 DEF TypeOK
<1>3. /\ alive' = alive \ {h} /\ pending' = pending \ D /\ armed' = armed \ D
      /\ call' = [sid \in Sids |-> IF sid \in D THEN "idle" ELSE call[sid]]
      /\ to' = [sid \in Sids |-> IF sid \in D THEN Nowhere(sid) ELSE to[sid]]
      /\ own' = [sid \in Sids |-> IF sid \in D THEN NoHolder ELSE own[sid]]
      /\ list' = [list EXCEPT ![h] = {}]
      /\ UNCHANGED <<health, inq, calleeVars, netVars>>
  BY DEF DestroyHolder
<1> HIDE DEF D
<1>4. AnsweredOnce'
  BY <1>1, <1>2, <1>3 DEF Books, AnsweredOnce, TypeOK
<1>5. HolderListExact'
  <2> SUFFICES ASSUME NEW g \in Holders
               PROVE  list'[g] = {sid \in pending' : own'[sid] = g}
    BY DEF HolderListExact
  <2>1. list[g] = {sid \in pending : own[sid] = g}
    BY DEF Books, HolderListExact
  <2>2. list'[g] = IF g = h THEN {} ELSE list[g]
    BY <1>3 DEF TypeOK
  <2>3. \A sid \in pending' : own'[sid] = own[sid] /\ own[sid] # h
    BY <1>1, <1>3 DEF TypeOK
  <2> QED
    BY <1>1, <1>3, <2>1, <2>2, <2>3
<1>6. KeepsContext => NoCallStuck'
  BY <1>3 DEF Books, NoCallStuck
<1>7. NoCallAfterHolder' /\ Unowned'
  BY <1>1, <1>2, <1>3 DEF Books, NoCallAfterHolder, Unowned, TypeOK
<1>8. TypeOK'
  BY <1>2, <1>3, NowhereType DEF TypeOK, calleeVars, netVars
<1> QED
  BY <1>4, <1>5, <1>6, <1>7, <1>8 DEF Books

\* The called services and the connections touch no map of the caller; an
\* answer only adds a packet to its queue.
LEMMA OthersInv == Inv /\ (Callee \/ Net) => Inv'
<1> SUFFICES ASSUME Inv, Callee \/ Net PROVE Inv'
  OBVIOUS
<1> USE DEF Inv
<1>0. \A sid \in Sids : Packet(sid, "eRRT_OK") \in Packets
  BY DEF Packet, Packets, Results
<1>1. ASSUME NEW s \in Services, DispatchRequest(s) PROVE Inv'
  <2>1. Head(reqq[s]) \in Sids /\ Tail(reqq[s]) \in Seq(Sids)
    BY <1>1 DEF DispatchRequest, TypeOK
  <2>2. reqq' \in [Services -> Seq(Sids)]
    BY <1>1, <2>1 DEF DispatchRequest, TypeOK
  <2>4. busy' = busy \/ busy' = [busy EXCEPT ![s] = @ \cup {Head(reqq[s])}]
    BY <1>1 DEF DispatchRequest
  <2>5. busy' \in [Services -> SUBSET Sids]
    <3>1. busy \in [Services -> SUBSET Sids]
      BY DEF TypeOK
    <3>2. [busy EXCEPT ![s] = @ \cup {Head(reqq[s])}] \in [Services -> SUBSET Sids]
      BY <2>1, <3>1
    <3> QED
      BY <2>4, <3>1, <3>2
  <2>3. TypeOK'
    BY <1>1, <2>2, <2>5 DEF DispatchRequest, TypeOK, callVars, netVars
  <2> QED
    BY <1>1, <2>3, OthersKeepBooks DEF DispatchRequest
<1>2. ASSUME NEW s \in Services, Recover(s) PROVE Inv'
  <2>1. TypeOK'
    BY <1>2 DEF Recover, TypeOK, callVars, netVars
  <2> QED
    BY <1>2, <2>1, OthersKeepBooks DEF Recover
<1>3. ASSUME NEW s \in Services, NEW sid \in Sids, Response(s, sid) PROVE Inv'
  <2>1. inq' = inq \/ inq' = Append(inq, Packet(sid, "eRRT_OK"))
    BY <1>3 DEF Response
  <2>2. inq' \in Seq(Packets) /\ Range(inq) \subseteq Range(inq')
    <3>1. inq \in Seq(Packets) /\ Packet(sid, "eRRT_OK") \in Packets
      BY <1>0 DEF TypeOK, Packets
    <3>2. CASE inq' = inq
      BY <3>1, <3>2
    <3>3. CASE inq' = Append(inq, Packet(sid, "eRRT_OK"))
      BY <3>1, <3>3, AppendKeeps
    <3> QED
      BY <2>1, <3>2, <3>3
  <2>3. back' \in [Remote -> Seq(Sids)]
    <3>1. back' = back \/ (s \in Remote /\ back' = [back EXCEPT ![s] = Append(@, sid)])
      BY <1>3 DEF Response, Services
    <3>2. back \in [Remote -> Seq(Sids)]
      BY DEF TypeOK
    <3>3. s \in Remote => [back EXCEPT ![s] = Append(@, sid)] \in [Remote -> Seq(Sids)]
      BY <3>2
    <3> QED
      BY <3>1, <3>2, <3>3
  <2>4. busy' \in [Services -> SUBSET Sids]
    BY <1>3 DEF Response, TypeOK
  <2>5. TypeOK'
    BY <1>3, <2>2, <2>3, <2>4 DEF Response, TypeOK, callVars, Packets
  <2> QED
    BY <1>3, <2>2, <2>5, OthersKeepBooks DEF Response
<1>4. ASSUME NEW s \in Remote, DeliverRequest(s) PROVE Inv'
  <2>1. Head(wire[s]) \in Sids /\ Tail(wire[s]) \in Seq(Sids)
    BY <1>4 DEF DeliverRequest, TypeOK
  <2>2. wire' \in [Remote -> Seq(Sids)] /\ reqq' \in [Services -> Seq(Sids)]
    BY <1>4, <2>1 DEF DeliverRequest, TypeOK, Services
  <2>3. TypeOK'
    BY <1>4, <2>2 DEF DeliverRequest, TypeOK, callVars
  <2> QED
    BY <1>4, <2>3, OthersKeepBooks DEF DeliverRequest
<1>5. ASSUME NEW s \in Remote, DeliverResponse(s) PROVE Inv'
  <2>1. Head(back[s]) \in Sids /\ Tail(back[s]) \in Seq(Sids)
    BY <1>5 DEF DeliverResponse, TypeOK
  <2>2. inq' \in Seq(Packets) /\ Range(inq) \subseteq Range(inq')
    BY <1>5, <2>1, <1>0, AppendKeeps DEF DeliverResponse, TypeOK, Packets
  <2>3. back' \in [Remote -> Seq(Sids)]
    BY <1>5, <2>1 DEF DeliverResponse, TypeOK
  <2>4. TypeOK'
    BY <1>5, <2>2, <2>3 DEF DeliverResponse, TypeOK, callVars, calleeVars, Packets
  <2> QED
    BY <1>5, <2>2, <2>4, OthersKeepBooks DEF DeliverResponse
<1>6. ASSUME NEW s \in Remote, LinkBreak(s) PROVE Inv'
  <2>1. breaks' \in 0..MaxBreaks
    BY <1>6, RpcAssumption DEF LinkBreak, TypeOK
  <2>2. TypeOK'
    BY <1>6, <2>1 DEF LinkBreak, TypeOK, callVars, calleeVars
  <2> QED
    BY <1>6, <2>2, OthersKeepBooks DEF LinkBreak
<1>7. ASSUME NEW s \in Remote, LinkUp(s) PROVE Inv'
  <2>1. TypeOK'
    BY <1>7 DEF LinkUp, TypeOK, callVars, calleeVars
  <2> QED
    BY <1>7, <2>1, OthersKeepBooks DEF LinkUp
<1>8. ASSUME NEW s \in Remote, UpdateRegistryProxy(s) PROVE Inv'
  <2>1. TypeOK'
    BY <1>8 DEF UpdateRegistryProxy, TypeOK, callVars, calleeVars
  <2> QED
    BY <1>8, <2>1, OthersKeepBooks DEF UpdateRegistryProxy
<1> QED
  BY <1>1, <1>2, <1>3, <1>4, <1>5, <1>6, <1>7, <1>8 DEF Callee, Net

\* Every step of the specification keeps the invariant.
LEMMA StepInv == Inv /\ [Next]_vars => Inv'
<1> SUFFICES ASSUME Inv, [Next]_vars PROVE Inv'
  OBVIOUS
<1>1. CASE Caller
  BY <1>1, InvokeInv, TimeoutInv, DestroyHolderInv, CheckHealthInv, DispatchResponseInv DEF Caller
<1>2. CASE Callee \/ Net
  BY <1>2, OthersInv
<1>3. CASE UNCHANGED vars
  BY <1>3 DEF Inv, Books, TypeOK, AnsweredOnce, HolderListExact, NoCallStuck, NoCallAfterHolder,
     Unowned, vars, callVars, calleeVars, netVars
<1> QED
  BY <1>1, <1>2, <1>3 DEF Next

\* The invariant holds in every state of the calls.
LEMMA Invariance == SafeSpec => []Inv
BY InitInv, StepInv, PTL DEF SafeSpec

-----------------------------------------------------------------------------

\* The variables keep their types, and the health score of a service stays
\* between 0 and _MAX_SERVICE_HEALTH (CCoreService::updateServiceHealth).
THEOREM TypeCorrect == SafeSpec => []TypeOK
BY Invariance, PTL DEF Inv

\* The callback of a call runs at most once, although both the answer and the
\* timeout may be queued (CCoreService::getPendingResponseInfo).
THEOREM OneAnswer == SafeSpec => []AnsweredOnce
BY Invariance, PTL DEF Inv, Books

\* The list of a holder names exactly its calls that wait.
THEOREM ExactLists == SafeSpec => []HolderListExact
BY Invariance, PTL DEF Inv, Books

\* If a one-shot ticker kept its context, a call that waits would have a
\* registered ticker or a timeout packet that is queued
\* (CCoreService::onRequestMessageTimeout).
THEOREM NeverStuck ==
  ASSUME KeepsContext
  PROVE  SafeSpec => []NoCallStuck
<1>1. Inv => NoCallStuck
  BY DEF Inv, Books
<1> QED
  BY <1>1, Invariance, PTL

\* No callback of a call outlives the holder that made the call
\* (CCoreService::delPendingResponseInfo).
THEOREM HolderOutlivesCalls == SafeSpec => []NoCallAfterHolder
BY Invariance, PTL DEF Inv, Books
-----------------------------------------------------------------------------
(* The code as it is: a one-shot ticker has lost its context.              *)

\* No packet of a timeout is queued, and nothing was ever taken off a score.
Untimed ==
  /\ \A p \in Range(inq) : p.result = "eRRT_OK"
  /\ health = [s \in Services |-> MaxHealth]

\* No step of a service with such tickers makes one of the two.
LEMMA UntimedStep ==
  ASSUME ~KeepsContext
  PROVE  Inv /\ Untimed /\ [Next]_vars => Untimed'
<1> SUFFICES ASSUME Inv, Untimed, [Next]_vars PROVE Untimed'
  OBVIOUS
<1> USE DEF Inv
<1>1. inq \in Seq(Packets)
  BY DEF TypeOK, Packets
<1>2. ASSUME UNCHANGED <<inq, health>> PROVE Untimed'
  BY <1>2 DEF Untimed
<1>3. ASSUME NEW sid \in Sids, inq' = Append(inq, Packet(sid, "eRRT_OK")), UNCHANGED health
      PROVE  Untimed'
  <2>1. Packet(sid, "eRRT_OK") \in Packets
    BY DEF Packet, Packets, Results
  <2>2. Range(inq') = Range(inq) \cup {Packet(sid, "eRRT_OK")}
    BY <1>1, <1>3, <2>1, AppendKeeps
  <2> QED
    BY <1>3, <2>2 DEF Untimed, Packet
<1>4. CASE DispatchResponse
  <2>1. inq # <<>> /\ inq' = Tail(inq)
    BY <1>4 DEF DispatchResponse
  <2>2. Head(inq) \in Range(inq) /\ Range(inq') \subseteq Range(inq)
    BY <1>1, <2>1 DEF Range
  <2>3. Head(inq).result # "eRRT_TIME_OUT" /\ Head(inq) \in Packets
    BY <1>1, <2>1, <2>2, TailKeeps DEF Untimed
  <2>4. CASE Head(inq).sid \notin pending
    BY <1>4, <2>2, <2>4 DEF DispatchResponse, Untimed
  <2>5. CASE Head(inq).sid \in pending
    <3>1. PICK s \in Services :
            health' = [health EXCEPT ![s] = UpdateHealth(@, Head(inq).result = "eRRT_TIME_OUT")]
      BY <1>4, <2>3, <2>5 DEF DispatchResponse, TypeOK, Packets
    <3>2. UpdateHealth(MaxHealth, FALSE) = MaxHealth
      BY RpcAssumption DEF UpdateHealth
    <3>3. UpdateHealth(health[s], Head(inq).result = "eRRT_TIME_OUT") = MaxHealth
      <4>1. (Head(inq).result = "eRRT_TIME_OUT") = FALSE /\ health[s] = MaxHealth
        BY <2>3 DEF Untimed
      <4> QED
        BY <3>2, <4>1
    <3>4. health' = [r \in Services |-> MaxHealth]
      BY <3>1, <3>3 DEF Untimed
    <3> QED
      BY <2>2, <3>4 DEF Untimed
  <2> QED
    BY <2>4, <2>5
<1>5. ASSUME NEW sid \in Sids, RequestMessageTimeout(sid) PROVE Untimed'
  BY <1>2, <1>5 DEF RequestMessageTimeout, InContext
<1>6. ASSUME NEW s \in Services, NEW sid \in Sids, Response(s, sid) PROVE Untimed'
  BY <1>2, <1>3, <1>6 DEF Response
<1>7. ASSUME NEW s \in Remote, DeliverResponse(s) PROVE Untimed'
  <2>1. Head(back[s]) \in Sids
    BY <1>7 DEF DeliverResponse, TypeOK
  <2> QED
    BY <1>3, <1>7, <2>1 DEF DeliverResponse
<1>8. ASSUME Caller \/ Callee \/ Net \/ UNCHANGED vars,
             ~DispatchResponse,
             ~\E sid \in Sids : RequestMessageTimeout(sid),
             ~\E s \in Services, sid \in Sids : Response(s, sid),
             ~\E s \in Remote : DeliverResponse(s)
      PROVE  UNCHANGED <<inq, health>>
  <2>1. CASE Caller
    BY <1>8, <2>1 DEF Caller, Invoke, DestroyHolder, CheckServiceHealth
  <2>2. CASE Callee
    BY <1>8, <2>2 DEF Callee, DispatchRequest, Recover
  <2>3. CASE Net
    BY <1>8, <2>3 DEF Net, DeliverRequest, LinkBreak, LinkUp, UpdateRegistryProxy
  <2>4. CASE UNCHANGED vars
    BY <2>4 DEF vars
  <2> QED
    BY <1>8, <2>1, <2>2, <2>3, <2>4
<1> QED
  BY <1>2, <1>4, <1>5, <1>6, <1>7, <1>8 DEF Next

\* In the code, where the ticker has lost its context, no call ever times out:
\* no timeout packet is queued, so a call whose answer is lost waits for ever,
\* and no score is ever taken down, so isServiceHealth lets everything pass
\* (CTickerMgrImpl::update, CCoreService::onRequestMessageTimeout).
THEOREM NeverTimesOut ==
  ASSUME ~KeepsContext
  PROVE  SafeSpec => []Untimed
<1>1. Init => Untimed
  BY DEF Init, Untimed, Range
<1>2. Inv /\ Untimed /\ [Next]_vars => Untimed'
  BY UntimedStep
<1> QED
  BY <1>1, <1>2, Invariance, PTL DEF SafeSpec
=============================================================================
