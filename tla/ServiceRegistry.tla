--------------------------- MODULE ServiceRegistry ---------------------------
(***************************************************************************)
(* How the nodes of a cluster find each other.  Every node connects to the *)
(* master and registers; the master tells each node of the others; a node  *)
(* that needs a service of another one connects to it and both sides shake *)
(* hands.  The handlers of a process run on its main thread, one at a time *)
(* (the packets of each connection in order).  Connections break, connects *)
(* are refused, nodes and the master crash and start again.                *)
(***************************************************************************)
EXTENDS Naturals, Sequences, FiniteSets, Functions

CONSTANTS N,           \* the nodes are 1 .. N, 0 is the master
          MaxConn,     \* bound: connections that exist at once
          MaxFaults,   \* bound: faults of all kinds
          Name,        \* the service of each node
          Type,        \* its type
          ConnectName, \* m_setConnectServiceName of each node
          ConnectType  \* m_setConnectServiceType of each node

Node == 1 .. N
Master == 0
Conns == 1 .. MaxConn
Sides == {"a", "b"}   \* the side that dialled, the side that accepted

ASSUME RegistryAssumption ==
  /\ N \in Nat /\ MaxConn \in Nat /\ MaxFaults \in Nat
  /\ DOMAIN Name = Node /\ DOMAIN Type = Node
  /\ DOMAIN ConnectName = Node /\ DOMAIN ConnectType = Node

VARIABLES
  conn,   \* the connections, both ends and what is on the way to each
  info,   \* master: the nodes of m_mapNodeProxyInfo
  msock,  \* master: their nSocketID
  active, \* node: bActive of the master
  mconn,  \* node: pBaseConnectionToMaster
  known,  \* node: the nodes of its m_mapNodeProxyInfo
  dial,   \* node: those whose ticker is registered
  sock,   \* node: their nSocketID
  told,   \* history: connects less disconnects its services were told
  faults  \* bound

masterVars == <<info, msock>>
toMaster == <<active, mconn>>
proxyVars == <<known, dial, sock, told>>
vars == <<conn, masterVars, toMaster, proxyVars, faults>>

Ends == {"down", "trying", "up", "closing"}
NoConn == [from |-> 0, to |-> 0, cut |-> FALSE, end |-> [s \in Sides |-> "down"],
           id |-> [s \in Sides |-> 0], box |-> [s \in Sides |-> <<>>]]
Msg(t) == [t |-> t]

Init ==
  /\ conn = [c \in Conns |-> NoConn]
  /\ info = {}
  /\ msock = [n \in Node |-> 0]
  /\ active = [n \in Node |-> FALSE]
  /\ mconn = [n \in Node |-> 0]
  /\ known = [n \in Node |-> {}]
  /\ dial = [n \in Node |-> {}]
  /\ sock = [n \in Node |-> [m \in Node |-> 0]]
  /\ told = [n \in Node |-> [m \in Node |-> 0]]
  /\ faults = 0

-----------------------------------------------------------------------------
(* Connections.  cs is the value of conn so far in a handler.              *)

Live(c, s) == conn[c].end[s] \in {"up", "closing"}
Owner(c, s) == IF s = "a" THEN conn[c].from ELSE conn[c].to
Other(s) == IF s = "a" THEN "b" ELSE "a"
Free(c) == conn[c].end["a"] = "down" /\ conn[c].end["b"] = "down"

\* connect: a new connection, not yet there
Dialled(n, to) ==
  LET c == CHOOSE d \in Conns : Free(d) /\ \A e \in Conns : Free(e) => d <= e
  IN  [conn EXCEPT ![c] = [NoConn EXCEPT !.from = n, !.to = to, !.end["a"] = "trying"]]

Taken(cs, c, s) == [cs EXCEPT ![c].box[s] = Tail(@)]
\* What is sent to an end that is gone is lost
Post(cs, cset, s, m) ==
  [c \in Conns |-> IF c \in cset /\ cs[c].end[s] \in {"up", "closing"}
                   THEN [cs[c] EXCEPT !.box[s] = Append(@, m)] ELSE cs[c]]
Shut(cs, c, s) == [cs EXCEPT ![c].end[s] = "closing"]
Bind(cs, c, s, n) == [cs EXCEPT ![c].id[s] = n]
\* The end is gone; so is the connection, when the other one is
Drop(cs, dead) ==
  [c \in Conns |->
     LET e == [s \in Sides |-> IF <<c, s>> \in dead THEN "down" ELSE cs[c].end[s]]
     IN  IF \A s \in Sides : e[s] = "down" THEN NoConn
         ELSE [cs[c] EXCEPT !.end = e,
                            !.id = [s \in Sides |-> IF e[s] = "down" THEN 0 ELSE @[s]],
                            !.box = [s \in Sides |-> IF e[s] = "down" THEN <<>> ELSE @[s]]]]

Next1(c, s, t) == Live(c, s) /\ conn[c].box[s] # <<>> /\ Head(conn[c].box[s]).t = t

-----------------------------------------------------------------------------
(* Mutants: the same steps with a bug such code could have.                *)

\* names are looked up among the types only
AsksAmongTypes(src, dst) == \E s \in ConnectName[src] : s = Type[dst]
\* a node that registers again takes the place of its old connection
TakesOver(n) == n \notin info => \A m \in info : Name[m] # Name[n]
\* the socket a node has is not looked at
AcceptsAny(n, m) == m \in known[n]
\* a connection that is closed for a node that went keeps its id
KeepsId(cs, n, gone) ==
  [c \in Conns |->
     IF \E m \in gone : sock[n][m] = c
     THEN [cs[c] EXCEPT !.end[IF cs[c].from = n THEN "a" ELSE "b"] = "closing"]
     ELSE cs[c]]
\* a node with a connection stays although the master does not know it
UnlinkedOnly(n, nodes) == {m \in known[n] \ nodes : sock[n][m] = 0}
\* the ticker of a node that went stays registered
KeepsTicker(n, new, excl, old) ==
  /\ known' = [known EXCEPT ![n] = old \cup new]
  /\ dial' = [dial EXCEPT ![n] = @ \cup {m \in new \ excl : Name[m] \in ConnectName[n]}]
\* the check looks at the connection, not at the attempt
NotConnected(n) == mconn[n] = 0
\* the master keeps the socket of a node that is gone
KeepsSocket(c) == UNCHANGED <<masterVars, toMaster, proxyVars>>

-----------------------------------------------------------------------------
(* What the registry of the master decides.                                *)

\* isExcludeConnectNode's callback: src asks for a service of dst by name.
\* (The second loop looks the names up among the types.)
AsksByName(src, dst) == \E s \in ConnectName[src] : s = Name[dst] \/ s = Type[dst]
\* Both need the other: the one with the higher id does not connect
isExcludeConnectNode(src, dst) == AsksByName(src, dst) /\ AsksByName(dst, src) /\ src >= dst
\* addNodeProxyInfo's bConnect
Needs(n, m) == Name[m] \in ConnectName[n] \/ Type[m] \in ConnectType[n]

\* CServiceRegistry::addNode refuses a node that is there, a new one whose
\* service is
Registers(n) ==
  IF n \in info THEN msock[n] = 0 ELSE \A m \in info : Name[m] # Name[n]

-----------------------------------------------------------------------------
(* What CGlobalServiceRegistryProxy does to one of its nodes.              *)

\* setOtherNodeSocketIDByNodeID refuses an unknown node, and a second socket
AcceptsSocket(n, m) == m \in known[n] /\ sock[n][m] = 0

\* setNodeProxyInfo: nodes that are missing go, new ones come.
Gone(n, nodes) == known[n] \ nodes

\* delNodeProxyInfo of each node of gone.  A node that goes
\* has its connection closed, with the id taken off so that its end is silent.
Unlinked(cs, n, gone) ==
  [c \in Conns |->
     IF \E m \in gone : sock[n][m] = c
     THEN LET s == IF cs[c].from = n THEN "a" ELSE "b"
          IN  [cs[c] EXCEPT !.id[s] = 0, !.end[s] = "closing"]
     ELSE cs[c]]

\* addNodeProxyInfo of each node of new, with excl the nodes not to connect to
Added(n, new, excl, old) ==
  /\ known' = [known EXCEPT ![n] = old \cup new]
  /\ dial' = [dial EXCEPT ![n] = (@ \cap old) \cup {m \in new \ excl : Needs(n, m)}]

-----------------------------------------------------------------------------
(* Connecting.                                                             *)

\* onCheckConnectMaster, every five seconds
Idle(n) == ~active[n]
CheckConnectMaster(n) ==
  /\ Idle(n)
  /\ \E c \in Conns : Free(c)
  /\ active' = [active EXCEPT ![n] = TRUE]
  /\ conn' = Dialled(n, Master)
  /\ UNCHANGED <<masterVars, mconn, proxyVars, faults>>

\* The ticker of a node proxy, every five seconds while it has no socket
CheckConnectNode(n, m) ==
  /\ m \in dial[n]
  /\ sock[n][m] = 0
  /\ \E c \in Conns : Free(c)
  /\ conn' = Dialled(n, m)
  /\ UNCHANGED <<masterVars, toMaster, proxyVars, faults>>

\* The connection is there: onConnect of CConnectionFromNode sends the master's
\* id, onConnect of CBaseConnectionOtherNode the request (initiative side)
Connected(c) ==
  /\ conn[c].end["a"] = "trying"
  /\ LET up == [conn EXCEPT ![c].end = [s \in Sides |-> "up"]]
     IN  conn' = IF conn[c].to = Master THEN Post(up, {c}, "a", Msg("sync_master"))
                 ELSE Post(up, {c}, "b", Msg("request"))
  /\ UNCHANGED <<masterVars, toMaster, proxyVars, faults>>

\* onConnectRefuse
Refused(c) ==
  /\ conn[c].end["a"] = "trying"
  /\ faults < MaxFaults
  /\ faults' = faults + 1
  /\ conn' = [conn EXCEPT ![c] = NoConn]
  /\ IF conn[c].to = Master THEN active' = [active EXCEPT ![conn[c].from] = FALSE]
     ELSE UNCHANGED active
  /\ UNCHANGED <<masterVars, mconn, proxyVars>>

-----------------------------------------------------------------------------
(* Messages between a node and the master.                                 *)

\* CBaseConnectionToMaster: the id is noted before addBaseConnectionToMaster
\* refuses a second connection
OnSyncMaster(c) ==
  /\ Next1(c, "a", "sync_master")
  /\ LET n == conn[c].from
         cs == Bind(Taken(conn, c, "a"), c, "a", 1)
     IN  IF mconn[n] = 0
         THEN /\ mconn' = [mconn EXCEPT ![n] = c]
              /\ conn' = Post(cs, {c}, "b", Msg("register"))
         ELSE /\ conn' = Shut(cs, c, "a")
              /\ UNCHANGED mconn
  /\ UNCHANGED <<masterVars, active, proxyVars, faults>>

\* CConnectionFromNode and CServiceRegistry::addNode
OnRegister(c) ==
  /\ Next1(c, "b", "register")
  /\ LET n == conn[c].from
         cs == Taken(conn, c, "b")
         others == info \ {n}
         all == [t |-> "sync_all", nodes |-> others,
                 excl |-> {m \in others : isExcludeConnectNode(n, m)}]
         one(m) == [t |-> "sync_node", nodes |-> {n},
                    excl |-> IF isExcludeConnectNode(m, n) THEN {n} ELSE {}]
     IN  IF Registers(n)
         THEN /\ info' = info \cup {n}
              /\ msock' = [msock EXCEPT ![n] = c]
              /\ LET told1 == Post(Bind(cs, c, "b", n), {c}, "a", all)
                 IN  conn' = [d \in Conns |->
                       IF \E m \in others : msock[m] = d
                       THEN Post(told1, {d}, "a", one(conn[d].from))[d] ELSE told1[d]]
         ELSE /\ conn' = Shut(cs, c, "b")
              /\ UNCHANGED masterVars
  /\ UNCHANGED <<toMaster, proxyVars, faults>>

\* setNodeProxyInfo
OnSyncAll(c) ==
  /\ Next1(c, "a", "sync_all")
  /\ LET n == conn[c].from
         msg == Head(conn[c].box["a"])
         gone == Gone(n, msg.nodes)
         linked == {m \in gone : sock[n][m] # 0}
     IN  /\ Added(n, msg.nodes \ known[n], msg.excl, known[n] \ gone)
         /\ sock' = [sock EXCEPT ![n] = [m \in Node |-> IF m \in gone THEN 0 ELSE @[m]]]
         /\ told' = [told EXCEPT ![n] = [m \in Node |-> IF m \in linked THEN @[m] - 1 ELSE @[m]]]
         /\ conn' = Unlinked(Taken(conn, c, "a"), n, gone)
  /\ UNCHANGED <<masterVars, toMaster, faults>>

\* addNodeProxyInfo: nothing when the node is known
OnSyncNode(c) ==
  /\ Next1(c, "a", "sync_node")
  /\ LET n == conn[c].from
         msg == Head(conn[c].box["a"])
     IN  Added(n, msg.nodes \ known[n], msg.excl, known[n])
  /\ conn' = Taken(conn, c, "a")
  /\ UNCHANGED <<masterVars, toMaster, sock, told, faults>>

-----------------------------------------------------------------------------
(* The handshake of two nodes.                                             *)

\* The passive side: setOtherNodeSocketIDByNodeID, the answer, onNodeConnect
OnHandshakeRequest(c) ==
  /\ Next1(c, "b", "request")
  /\ LET n == conn[c].to
         m == conn[c].from
         cs == Taken(conn, c, "b")
     IN  IF AcceptsSocket(n, m)
         THEN /\ conn' = Post(Bind(cs, c, "b", m), {c}, "a", Msg("response"))
              /\ sock' = [sock EXCEPT ![n][m] = c]
              /\ told' = [told EXCEPT ![n][m] = @ + 1]
         ELSE /\ conn' = Shut(cs, c, "b")
              /\ UNCHANGED <<sock, told>>
  /\ UNCHANGED <<masterVars, toMaster, known, dial, faults>>

\* The initiative side
OnHandshakeResponse(c) ==
  /\ Next1(c, "a", "response")
  /\ LET n == conn[c].from
         m == conn[c].to
         cs == Taken(conn, c, "a")
     IN  IF AcceptsSocket(n, m)
         THEN /\ conn' = Bind(cs, c, "a", m)
              /\ sock' = [sock EXCEPT ![n][m] = c]
              /\ told' = [told EXCEPT ![n][m] = @ + 1]
         ELSE /\ conn' = Shut(cs, c, "a")
              /\ UNCHANGED <<sock, told>>
  /\ UNCHANGED <<masterVars, toMaster, known, dial, faults>>

-----------------------------------------------------------------------------
(* Ends.                                                                   *)

\* onDisconnect of the connection to the master: silent while it has no id
LosesMaster(c) ==
  /\ IF conn[c].id["a"] # 0
     THEN /\ active' = [active EXCEPT ![conn[c].from] = FALSE]
          /\ mconn' = [mconn EXCEPT ![conn[c].from] = 0]
     ELSE UNCHANGED toMaster
  /\ UNCHANGED <<masterVars, proxyVars>>

\* onDisconnect of the connection from a node: disconnectNode
LosesNode(c) ==
  /\ IF conn[c].id["b"] # 0 THEN msock' = [msock EXCEPT ![conn[c].id["b"]] = 0]
     ELSE UNCHANGED msock
  /\ UNCHANGED <<info, toMaster, proxyVars>>

\* onDisconnect of the connection to another node
LosesPeer(c, s) ==
  /\ LET n == Owner(c, s)
         m == conn[c].id[s]
     IN  IF m # 0
         THEN /\ sock' = [sock EXCEPT ![n][m] = 0]
              /\ told' = [told EXCEPT ![n][m] = @ - 1]
         ELSE UNCHANGED <<sock, told>>
  /\ UNCHANGED <<masterVars, toMaster, known, dial>>

\* An end that was shut down, or whose peer is gone, ends; what was on the way
\* to it may be lost
Disconnect(c, s) ==
  /\ Live(c, s)
  /\ conn[c].end[s] = "closing" \/ conn[c].cut \/ conn[c].end[Other(s)] # "up"
  /\ conn' = Drop(conn, {<<c, s>>})
  /\ UNCHANGED faults
  /\ CASE conn[c].to = Master /\ s = "a" -> LosesMaster(c)
       [] conn[c].to = Master /\ s = "b" -> LosesNode(c)
       [] OTHER -> LosesPeer(c, s)

\* The network drops a connection
Cut(c) ==
  /\ Live(c, "a") \/ Live(c, "b")
  /\ ~conn[c].cut
  /\ faults < MaxFaults
  /\ faults' = faults + 1
  /\ conn' = [conn EXCEPT ![c].cut = TRUE]
  /\ UNCHANGED <<masterVars, toMaster, proxyVars>>

\* A process is killed and starts again: its ends are gone, the peers will see
OwnEnds(p) == {e \in Conns \X Sides : ~Free(e[1]) /\ Owner(e[1], e[2]) = p}

CrashNode(n) ==
  /\ faults < MaxFaults
  /\ faults' = faults + 1
  /\ conn' = Drop(conn, OwnEnds(n))
  /\ active' = [active EXCEPT ![n] = FALSE]
  /\ mconn' = [mconn EXCEPT ![n] = 0]
  /\ known' = [known EXCEPT ![n] = {}]
  /\ dial' = [dial EXCEPT ![n] = {}]
  /\ sock' = [sock EXCEPT ![n] = [m \in Node |-> 0]]
  /\ told' = [told EXCEPT ![n] = [m \in Node |-> 0]]
  /\ UNCHANGED masterVars

CrashMaster ==
  /\ faults < MaxFaults
  /\ faults' = faults + 1
  /\ conn' = Drop(conn, OwnEnds(Master))
  /\ info' = {}
  /\ msock' = [n \in Node |-> 0]
  /\ UNCHANGED <<toMaster, proxyVars>>

-----------------------------------------------------------------------------
\* The next packet of an end
DispatchA(c) == OnSyncMaster(c) \/ OnSyncAll(c) \/ OnSyncNode(c) \/ OnHandshakeResponse(c)
DispatchB(c) == OnRegister(c) \/ OnHandshakeRequest(c)

Next ==
  \/ \E n \in Node : CheckConnectMaster(n)
  \/ \E n, m \in Node : CheckConnectNode(n, m)
  \/ \E c \in Conns : Connected(c)
  \/ \E c \in Conns : Refused(c)
  \/ \E c \in Conns : DispatchA(c)
  \/ \E c \in Conns : DispatchB(c)
  \/ \E c \in Conns, s \in Sides : Disconnect(c, s)
  \/ \E c \in Conns : Cut(c)
  \/ \E n \in Node : CrashNode(n)
  \/ CrashMaster

\* The tickers fire, connects are answered, packets and ends are dispatched.
\* (Strong for the tickers: it is the bound MaxConn that disables them at times,
\* nothing in the code does.)
Fairness ==
  /\ \A n \in Node : SF_vars(CheckConnectMaster(n))
  /\ \A n \in Node : SF_vars(\E m \in Node : CheckConnectNode(n, m))
  /\ \A c \in Conns :
       /\ WF_vars(Connected(c))
       /\ WF_vars(DispatchA(c) \/ Disconnect(c, "a"))
       /\ WF_vars(DispatchB(c) \/ Disconnect(c, "b"))

Spec == Init /\ [][Next]_vars /\ Fairness

-----------------------------------------------------------------------------
(* Properties.                                                             *)

\* Types of the state of the registry.
TypeOK ==
  /\ \A c \in Conns :
       /\ conn[c].from \in Node \cup {0} /\ conn[c].to \in Node \cup {0}
       /\ conn[c].cut \in BOOLEAN
       /\ \A s \in Sides : conn[c].end[s] \in Ends /\ conn[c].id[s] \in 0 .. N
  /\ info \subseteq Node
  /\ msock \in [Node -> Conns \cup {0}]
  /\ active \in [Node -> BOOLEAN]
  /\ mconn \in [Node -> Conns \cup {0}]
  /\ \A n \in Node : known[n] \subseteq Node \ {n} /\ dial[n] \subseteq known[n]
  /\ \A n \in Node : sock[n] \in [Node -> Conns \cup {0}]
  /\ faults \in 0 .. MaxFaults

\* The socket a node keeps for another one is a connection it has, and that
\* carries that node's id; no other connection of it does.  delNodeProxyInfo
\* relies on it (the connection it looks up is there), and so does onDisconnect,
\* which clears the entry without asking whether it is its own.
SocketExact ==
  \A n, m \in Node, c \in Conns :
    sock[n][m] = c <=> \E s \in Sides : /\ Live(c, s) /\ Owner(c, s) = n
                                        /\ conn[c].to # Master /\ conn[c].id[s] = m

\* Likewise for the registry of the master: disconnectNode, called by a
\* connection that ends, never takes the socket of another one.
MasterExact ==
  \A n \in Node, c \in Conns :
    msock[n] = c <=> conn[c].to = Master /\ Live(c, "b") /\ conn[c].id["b"] = n

\* The services hear of a node that comes and a node that goes in turns, and
\* what they heard last is what the registry says.
HeardTruth == \A n, m \in Node : told[n][m] = IF sock[n][m] = 0 THEN 0 ELSE 1

\* A node that is registered, and to which nothing is on the way, knows all the
\* nodes the master knows and no other, whatever connections were lost before.
Caught(n) ==
  LET c == msock[n] IN c # 0 /\ conn[c].end["a"] = "up" /\ conn[c].box["a"] = <<>>
                          /\ conn[c].box["b"] = <<>>
KnowsAll == \A n \in Node : Caught(n) => known[n] = info \ {n}

\* Of two nodes that need each other one dials (service_registry.cpp, "one of
\* them gives up connecting"): two that dial at once refuse each other.
OneDials == \A n, m \in Node : ~(m \in dial[n] /\ n \in dial[m])

\* A node never has two connections to the master: bActive covers the attempt.
OneMaster ==
  \A c, d \in Conns :
    /\ conn[c].to = Master /\ conn[c].end["a"] # "down"
    /\ conn[d].to = Master /\ conn[d].end["a"] # "down"
    /\ conn[c].from = conn[d].from /\ conn[c].from # 0
    => c = d

\* What a node and the master have written down about connections is what there
\* is, through crashes and cuts, and the services have heard no less and no more.
\* (setOtherNodeSocketIDByNodeID, addNode, disconnectNode, delNodeProxyInfo.)
RegistryExact == TypeOK /\ SocketExact /\ MasterExact /\ HeardTruth

\* Two nodes never dial each other, a node has one connection to the master, and
\* it knows the nodes the master knows.  (isExcludeConnectNode, onCheckConnectMaster, addNode.)
OneLink == OneDials /\ OneMaster /\ KnowsAll

\* bActive is set and nothing will clear it: the connection to the master was
\* lost before the master's id came.
Stuck(n) ==
  active[n] /\ ~\E c \in Conns : conn[c].from = n /\ conn[c].to = Master /\ conn[c].end["a"] # "down"
Linked(n, m) == sock[n][m] # 0 /\ sock[n][m] = sock[m][n]

\* When the faults end, two nodes one of which needs the other are connected for
\* good, over one connection, unless a node has lost the master for ever.
EventuallyLinked ==
  (\A n \in Node : <>[]~Stuck(n)) =>
    \A n, m \in Node : (n # m /\ Needs(n, m)) => <>[]Linked(n, m)
=============================================================================
