------------------------ MODULE ServiceRegistryProofs ------------------------
(***************************************************************************)
(* Proofs about ServiceRegistry, for any number of nodes, connections and  *)
(* faults: what the processes have written down about their connections is *)
(* exact, a node has one connection to the master, a registered node that  *)
(* has read its packets knows what the master knows, and (where nodes need *)
(* each other by name) one of two nodes dials.                             *)
(***************************************************************************)
EXTENDS ServiceRegistry, WellFoundedInduction, TLAPS

-----------------------------------------------------------------------------
(* The inductive invariant.                                                *)

\* What the master may send to node n: the nodes it need not refrain from
\* dialling (nodes \ excl) are not to be excluded.
Registry(n) ==
  {msg \in [t : {"sync_all", "sync_node"}, nodes : SUBSET (Node \ {n}), excl : SUBSET Node] :
     \A m \in msg.nodes \ msg.excl : ~isExcludeConnectNode(n, m)}
\* What may be on the way to the end s of a connection from n to to
Packets(n, to, s) ==
  IF s = "a" THEN IF to = Master THEN {Msg("sync_master")} \cup Registry(n) ELSE {Msg("response")}
  ELSE IF to = Master THEN {Msg("register")} ELSE {Msg("request")}

\* The id of an end that has one: the peer's (the master's is 1)
Peer(k, s) == IF s = "b" THEN k.from ELSE IF k.to = Master THEN 1 ELSE k.to

AnyPacket == [t : {"sync_master", "register", "request", "response"}]
             \cup [t : {"sync_all", "sync_node"}, nodes : SUBSET Node, excl : SUBSET Node]
Connection ==
  [from : 0 .. N, to : 0 .. N, cut : BOOLEAN, end : [Sides -> Ends],
   id : [Sides -> 0 .. N], box : [Sides -> Seq(AnyPacket)]]

IsUp(k, s) == k.end[s] \in {"up", "closing"}
Absent(k) == k.end["a"] = "down" /\ k.end["b"] = "down"
\* One connection is as the handlers of its two ends leave it
Sound(k) ==
  /\ k \in Connection
  /\ k.end["b"] # "trying"
  /\ k.end["a"] = "trying" => k.end["b"] = "down"
  /\ Absent(k) => k.from = 0 /\ k.to = 0
  /\ ~Absent(k) => k.from \in Node /\ k.from # k.to
  /\ \A s \in Sides :
       /\ ~IsUp(k, s) => k.id[s] = 0 /\ k.box[s] = <<>>
       /\ k.id[s] \in {0, Peer(k, s)}
       /\ k.box[s] \in Seq(Packets(k.from, k.to, s))

ConnShape == conn \in [Conns -> Connection] /\ \A c \in Conns : Sound(conn[c])
MasterShape == info \subseteq Node /\ msock \in [Node -> Conns \cup {0}]
ProxyShape ==
  /\ sock \in [Node -> [Node -> Conns \cup {0}]]
  /\ told \in [Node -> [Node -> {0, 1}]]
NodeShape ==
  /\ active \in [Node -> BOOLEAN]
  /\ mconn \in [Node -> Conns \cup {0}]
  /\ known \in [Node -> SUBSET Node]
  /\ dial \in [Node -> SUBSET Node]
  /\ \A n \in Node : n \notin known[n] /\ dial[n] \subseteq known[n]
  /\ faults \in 0 .. MaxFaults

\* k is node n's connection to node m; k is the master's connection of node n
PeerOf(k, n, m) ==
  k.to # Master /\ ((k.from = n /\ k.id["a"] = m) \/ (k.to = n /\ k.id["b"] = m))
NodeOf(k, n) == k.to = Master /\ k.id["b"] = n
\* k is node n's connection to the master, or its attempt
MasterOf(k, n) == k.to = Master /\ k.from = n /\ k.end["a"] # "down"

SocketInv == \A n, m \in Node, c \in Conns : sock[n][m] = c <=> PeerOf(conn[c], n, m)
MasterInv ==
  /\ \A n \in Node, c \in Conns : msock[n] = c <=> NodeOf(conn[c], n)
  /\ \A n \in Node : msock[n] # 0 => n \in info
RegistryInv ==
  /\ ConnShape /\ MasterShape /\ ProxyShape /\ NodeShape
  /\ SocketInv /\ MasterInv /\ HeardTruth

\* The attempt counts: bActive is set before it and cleared after it
ActiveInv ==
  /\ \A n \in Node, c \in Conns : MasterOf(conn[c], n) => active[n]
  /\ \A n \in Node, c, d \in Conns : MasterOf(conn[c], n) /\ MasterOf(conn[d], n) => c = d

\* The conversation of a node and the master
Phase(k) ==
  (k.to = Master /\ k.end["a"] = "up" /\ IsUp(k, "b")) =>
    \/ k.id["b"] = 0 /\ k.box["a"] = <<Msg("sync_master")>> /\ k.box["b"] = <<>>
    \/ k.id["b"] = 0 /\ k.box["a"] = <<>> /\ k.box["b"] \in {<<>>, <<Msg("register")>>}
    \/ /\ k.id["b"] # 0 /\ k.box["b"] = <<>>
       /\ \A i \in 1 .. Len(k.box["a"]) :
            k.box["a"][i].t = "sync_node" \/ (i = 1 /\ k.box["a"][i].t = "sync_all")

\* What a node that knows K will know when it has read the packets q
Start(K, q) == IF q # <<>> /\ q[1].t = "sync_all" THEN {} ELSE K
WillKnow(K, q, m) == m \in Start(K, q) \/ \E i \in 1 .. Len(q) : m \in q[i].nodes
LearnInv ==
  \A n \in Node, c \in Conns :
    (NodeOf(conn[c], n) /\ conn[c].end["a"] = "up") =>
      \A m \in Node : m \in info \ {n} <=> WillKnow(known[n], conn[c].box["a"], m)

\* Who dials is not to refrain
DialInv == \A n \in Node : \A m \in dial[n] : Needs(n, m) /\ ~isExcludeConnectNode(n, m)

LinkInv == ActiveInv /\ (\A c \in Conns : Phase(conn[c])) /\ LearnInv /\ DialInv

-----------------------------------------------------------------------------
(* The operators on connections.                                           *)

Fresh(n, to) == [NoConn EXCEPT !.from = n, !.to = to, !.end["a"] = "trying"]

\* A connect takes a connection that is free.
LEMMA DialledIs ==
  ASSUME NEW n, NEW to, \E c \in Conns : Free(c)
  PROVE  \E c \in Conns : Free(c) /\ Dialled(n, to) = [conn EXCEPT ![c] = Fresh(n, to)]
<1> DEFINE T == {c \in Conns : Free(c)}
           R == OpToRel(<, Nat)
<1>1. MaxConn \in Nat
  BY RegistryAssumption
<1>2. T \subseteq Nat /\ T # {}
  BY <1>1 DEF Conns
<1>3. PICK c \in T : \A e \in T : ~ (<<e, c>> \in R)
  <2> HIDE DEF T, R
  <2> QED BY <1>2, NatLessThanWellFounded, WFMin DEF R
<1>4. \A e \in T : c <= e
  <2> HIDE DEF T, R
  <2> SUFFICES ASSUME NEW e \in T PROVE c <= e
    OBVIOUS
  <2>1. e \in Nat /\ c \in Nat /\ ~ (<<e, c>> \in R)
    BY <1>2, <1>3
  <2>2. ASSUME e < c PROVE FALSE
    <3>1. <<e, c>> \in Nat \X Nat /\ <<e, c>>[1] < <<e, c>>[2]
      BY <2>1, <2>2
    <3> QED BY <3>1, <2>1 DEF R, OpToRel
  <2> QED BY <2>1, <2>2
<1>5. \E d \in Conns : Free(d) /\ \A e \in Conns : Free(e) => d <= e
  BY <1>3, <1>4
<1> HIDE DEF T, R
<1> DEFINE d == CHOOSE d \in Conns : Free(d) /\ \A e \in Conns : Free(e) => d <= e
<1>6. d \in Conns /\ Free(d)
  BY <1>5
<1>7. Dialled(n, to) = [conn EXCEPT ![d] = Fresh(n, to)]
  BY DEF Dialled, Fresh
<1> HIDE DEF d
<1> QED BY <1>6, <1>7

\* What the handlers of one end do to their connection.
Read(k, s) == [k EXCEPT !.box[s] = Tail(@)]
Got(k, s, m) == [k EXCEPT !.box[s] = Append(@, m)]
Closed(k, s) == [k EXCEPT !.end[s] = "closing"]
Named(k, s, n) == [k EXCEPT !.id[s] = n]

\* What is on the way is of a type.
LEMMA PacketsAny ==
  ASSUME NEW n, NEW to, NEW s
  PROVE  Packets(n, to, s) \subseteq AnyPacket
<1>1. Registry(n) \subseteq AnyPacket
  <2> SUFFICES ASSUME NEW m \in Registry(n) PROVE m \in AnyPacket
    OBVIOUS
  <2>1. m \in [t : {"sync_all", "sync_node"}, nodes : SUBSET (Node \ {n}), excl : SUBSET Node]
    BY DEF Registry
  <2> QED BY <2>1 DEF AnyPacket
<1>2. Msg("sync_master") \in AnyPacket /\ Msg("register") \in AnyPacket
      /\ Msg("request") \in AnyPacket /\ Msg("response") \in AnyPacket
  BY DEF Msg, AnyPacket
<1> QED BY <1>1, <1>2 DEF Packets

\* Reading and sending keep the type of what is on the way.
LEMMA TailIn ==
  ASSUME NEW S, NEW q \in Seq(S), q # <<>>
  PROVE  Tail(q) \in Seq(S)
OBVIOUS

\* Likewise.
LEMMA AppendIn ==
  ASSUME NEW S, NEW q \in Seq(S), NEW m \in S
  PROVE  Append(q, m) \in Seq(S)
OBVIOUS

\* A packet is taken from an end.
LEMMA ReadSound ==
  ASSUME NEW k, Sound(k), NEW s \in Sides, k.box[s] # <<>>
  PROVE  /\ Sound(Read(k, s))
         /\ Read(k, s).from = k.from /\ Read(k, s).to = k.to /\ Read(k, s).cut = k.cut
         /\ Read(k, s).end = k.end /\ Read(k, s).id = k.id
         /\ Read(k, s).box = [k.box EXCEPT ![s] = Tail(@)]
<1>1. k \in Connection /\ k.box \in [Sides -> Seq(AnyPacket)]
  BY DEF Sound, Connection
<1>0. PICK q : q = k.box[s]
  OBVIOUS
<1> DEFINE P == Packets(k.from, k.to, s)
<1>12. q \in Seq(AnyPacket) /\ q \in Seq(P) /\ q # <<>>
  BY <1>0, <1>1 DEF Sound
<1> HIDE DEF P
<1>2. PICK t \in Seq(AnyPacket) : t = Tail(k.box[s])
  BY <1>0, <1>12, TailIn
<1>13. t \in Seq(P)
  BY <1>0, <1>2, <1>12, TailIn
<1>3. t \in Seq(Packets(k.from, k.to, s))
  BY <1>13 DEF P
<1> DEFINE b == [k.box EXCEPT ![s] = t]
           r == [k EXCEPT !.box = b]
<1>4. Read(k, s) = r
  BY <1>2 DEF Read
<1>5. b \in [Sides -> Seq(AnyPacket)] /\ b[s] = t /\ \A z \in Sides \ {s} : b[z] = k.box[z]
  BY <1>1
<1> HIDE DEF b
<1>6. /\ r \in Connection /\ r.from = k.from /\ r.to = k.to /\ r.cut = k.cut
      /\ r.end = k.end /\ r.id = k.id /\ r.box = b
  BY <1>1, <1>5 DEF Connection
<1> HIDE DEF r
<1>7. IsUp(k, s)
  BY DEF Sound
<1>8. \A z \in Sides : r.box[z] \in Seq(Packets(r.from, r.to, z))
  BY <1>3, <1>5, <1>6 DEF Sound
<1>9. \A z \in Sides : ~IsUp(r, z) => r.id[z] = 0 /\ r.box[z] = <<>>
  BY <1>5, <1>6, <1>7 DEF Sound, IsUp
<1>10. \A z \in Sides : r.id[z] \in {0, Peer(r, z)}
  BY <1>6 DEF Sound, Peer
<1>14. Sound(r)
  BY <1>6, <1>8, <1>9, <1>10 DEF Sound, Absent
<1> QED BY <1>2, <1>4, <1>6, <1>14 DEF b

\* A packet is sent to an end that is there.
LEMMA GotSound ==
  ASSUME NEW k, Sound(k), NEW s \in Sides, IsUp(k, s), NEW m \in Packets(k.from, k.to, s)
  PROVE  /\ Sound(Got(k, s, m))
         /\ Got(k, s, m).from = k.from /\ Got(k, s, m).to = k.to /\ Got(k, s, m).cut = k.cut
         /\ Got(k, s, m).end = k.end /\ Got(k, s, m).id = k.id
         /\ Got(k, s, m).box = [k.box EXCEPT ![s] = Append(@, m)]
<1>1. k \in Connection /\ k.box \in [Sides -> Seq(AnyPacket)]
  BY DEF Sound, Connection
<1>0. m \in AnyPacket
  BY PacketsAny
<1>11. PICK q : q = k.box[s]
  OBVIOUS
<1> DEFINE P == Packets(k.from, k.to, s)
<1>12. q \in Seq(AnyPacket) /\ q \in Seq(P) /\ m \in P
  BY <1>11, <1>1 DEF Sound
<1> HIDE DEF P
<1>2. PICK t \in Seq(AnyPacket) : t = Append(k.box[s], m)
  BY <1>0, <1>11, <1>12, AppendIn
<1>13. t \in Seq(P)
  BY <1>2, <1>11, <1>12, AppendIn
<1>3. t \in Seq(Packets(k.from, k.to, s))
  BY <1>13 DEF P
<1> DEFINE b == [k.box EXCEPT ![s] = t]
           r == [k EXCEPT !.box = b]
<1>4. Got(k, s, m) = r
  BY <1>2 DEF Got
<1>5. b \in [Sides -> Seq(AnyPacket)] /\ b[s] = t /\ \A z \in Sides \ {s} : b[z] = k.box[z]
  BY <1>1
<1> HIDE DEF b
<1>6. /\ r \in Connection /\ r.from = k.from /\ r.to = k.to /\ r.cut = k.cut
      /\ r.end = k.end /\ r.id = k.id /\ r.box = b
  BY <1>1, <1>5 DEF Connection
<1> HIDE DEF r
<1>8. \A z \in Sides : r.box[z] \in Seq(Packets(r.from, r.to, z))
  BY <1>3, <1>5, <1>6 DEF Sound
<1>9. \A z \in Sides : ~IsUp(r, z) => r.id[z] = 0 /\ r.box[z] = <<>>
  BY <1>5, <1>6 DEF Sound, IsUp
<1>10. \A z \in Sides : r.id[z] \in {0, Peer(r, z)}
  BY <1>6 DEF Sound, Peer
<1>14. Sound(r)
  BY <1>6, <1>8, <1>9, <1>10 DEF Sound, Absent
<1> QED BY <1>2, <1>4, <1>6, <1>14 DEF b

\* An end is shut down by its own side.
LEMMA ClosedSound ==
  ASSUME NEW k, Sound(k), NEW s \in Sides, IsUp(k, s)
  PROVE  /\ Sound(Closed(k, s))
         /\ Closed(k, s).from = k.from /\ Closed(k, s).to = k.to /\ Closed(k, s).cut = k.cut
         /\ Closed(k, s).id = k.id /\ Closed(k, s).box = k.box
         /\ Closed(k, s).end = [k.end EXCEPT ![s] = "closing"]
<1>1. k \in Connection /\ k.end \in [Sides -> Ends]
  BY DEF Sound, Connection
<1> DEFINE e == [k.end EXCEPT ![s] = "closing"]
           r == [k EXCEPT !.end = e]
<1>2. e \in [Sides -> Ends] /\ e[s] = "closing" /\ \A q \in Sides \ {s} : e[q] = k.end[q]
  BY <1>1 DEF Ends
<1>3. Closed(k, s) = r
  BY DEF Closed
<1> HIDE DEF e
<1>4. /\ r \in Connection /\ r.from = k.from /\ r.to = k.to /\ r.cut = k.cut
      /\ r.end = e /\ r.id = k.id /\ r.box = k.box
  BY <1>1, <1>2 DEF Connection
<1> HIDE DEF r
<1>5. ~Absent(k) /\ ~Absent(r) /\ r.end["b"] # "trying"
  BY <1>2, <1>4 DEF IsUp, Absent, Sound, Sides
<1>6. r.end["a"] = "trying" => r.end["b"] = "down"
  BY <1>2, <1>4 DEF IsUp, Sound, Sides
<1>7. \A q \in Sides : ~IsUp(r, q) => r.id[q] = 0 /\ r.box[q] = <<>>
  BY <1>2, <1>4 DEF Sound, IsUp
<1>8. \A q \in Sides : r.id[q] \in {0, Peer(r, q)} /\ r.box[q] \in Seq(Packets(r.from, r.to, q))
  BY <1>4 DEF Sound, Peer
<1>9. Sound(r)
  BY <1>4, <1>5, <1>6, <1>7, <1>8 DEF Sound
<1> QED BY <1>3, <1>4, <1>9 DEF e

\* An end that is there gets its peer's id, or loses the one it had.
LEMMA NamedSound ==
  ASSUME NEW k, Sound(k), NEW s \in Sides, IsUp(k, s), NEW n \in 0 .. N, n = 0 \/ n = Peer(k, s)
  PROVE  /\ Sound(Named(k, s, n))
         /\ Named(k, s, n).from = k.from /\ Named(k, s, n).to = k.to /\ Named(k, s, n).cut = k.cut
         /\ Named(k, s, n).end = k.end /\ Named(k, s, n).box = k.box
         /\ Named(k, s, n).id = [k.id EXCEPT ![s] = n]
<1>1. k \in Connection /\ k.id \in [Sides -> 0 .. N]
  BY DEF Sound, Connection
<1> DEFINE e == [k.id EXCEPT ![s] = n]
           r == [k EXCEPT !.id = e]
<1>2. e \in [Sides -> 0 .. N] /\ e[s] = n /\ \A q \in Sides \ {s} : e[q] = k.id[q]
  BY <1>1
<1>3. Named(k, s, n) = r
  BY DEF Named
<1> HIDE DEF e
<1>4. /\ r \in Connection /\ r.from = k.from /\ r.to = k.to /\ r.cut = k.cut
      /\ r.end = k.end /\ r.id = e /\ r.box = k.box
  BY <1>1, <1>2 DEF Connection
<1> HIDE DEF r
<1>7. \A q \in Sides : ~IsUp(r, q) => r.id[q] = 0 /\ r.box[q] = <<>>
  BY <1>2, <1>4 DEF Sound, IsUp
<1>8. \A q \in Sides : r.id[q] \in {0, Peer(r, q)} /\ r.box[q] \in Seq(Packets(r.from, r.to, q))
  BY <1>2, <1>4 DEF Sound, Peer
<1>9. Sound(r)
  BY <1>4, <1>7, <1>8 DEF Sound, Absent
<1> QED BY <1>3, <1>4, <1>9 DEF e

Dropped(k, D) ==
  LET e == [s \in Sides |-> IF s \in D THEN "down" ELSE k.end[s]]
  IN  IF \A s \in Sides : e[s] = "down" THEN NoConn
      ELSE [k EXCEPT !.end = e,
                     !.id = [s \in Sides |-> IF e[s] = "down" THEN 0 ELSE @[s]],
                     !.box = [s \in Sides |-> IF e[s] = "down" THEN <<>> ELSE @[s]]]
Arrived(k) == [k EXCEPT !.end = [s \in Sides |-> "up"]]

\* There is no connection.
LEMMA NoConnSound ==
  /\ Sound(NoConn)
  /\ NoConn.from = 0 /\ NoConn.to = 0
  /\ \A s \in Sides : NoConn.end[s] = "down" /\ NoConn.id[s] = 0 /\ NoConn.box[s] = <<>>
<1>1. /\ NoConn.from = 0 /\ NoConn.to = 0 /\ NoConn.cut = FALSE
      /\ NoConn.end = [s \in Sides |-> "down"] /\ NoConn.id = [s \in Sides |-> 0]
      /\ NoConn.box = [s \in Sides |-> <<>>]
  BY DEF NoConn
<1>2. 0 \in 0 .. N
  BY RegistryAssumption
<1>3. NoConn.box \in [Sides -> Seq(AnyPacket)]
  BY <1>1
<1>4. NoConn \in Connection
  BY <1>2, <1>3 DEF NoConn, Connection, Ends
<1>5. \A s \in Sides : NoConn.box[s] \in Seq(Packets(NoConn.from, NoConn.to, s))
  <2> SUFFICES ASSUME NEW s \in Sides PROVE NoConn.box[s] \in Seq(Packets(NoConn.from, NoConn.to, s))
    OBVIOUS
  <2> DEFINE P == Packets(NoConn.from, NoConn.to, s)
  <2>1. NoConn.box[s] = <<>>
    BY <1>1
  <2> HIDE DEF P
  <2>2. <<>> \in Seq(P)
    OBVIOUS
  <2> QED BY <2>1, <2>2 DEF P
<1> QED BY <1>1, <1>4, <1>5 DEF Sound, Absent, IsUp, Sides

\* A connection that is being made.
LEMMA FreshSound ==
  ASSUME NEW n \in Node, NEW to \in 0 .. N, n # to
  PROVE  /\ Sound(Fresh(n, to))
         /\ Fresh(n, to).from = n /\ Fresh(n, to).to = to
         /\ Fresh(n, to).end["a"] = "trying" /\ Fresh(n, to).end["b"] = "down"
         /\ \A s \in Sides : Fresh(n, to).id[s] = 0 /\ Fresh(n, to).box[s] = <<>>
<1> DEFINE r == Fresh(n, to)
<1>1. /\ r.from = n /\ r.to = to /\ r.cut = FALSE
      /\ r.end = [NoConn.end EXCEPT !["a"] = "trying"] /\ r.id = NoConn.id /\ r.box = NoConn.box
  BY DEF Fresh, NoConn
<1>2. NoConn \in Connection /\ n \in 0 .. N
  BY NoConnSound, RegistryAssumption DEF Sound, Node
<1>3. r.end["a"] = "trying" /\ r.end["b"] = "down" /\ r.end \in [Sides -> Ends]
  BY <1>1, NoConnSound DEF Sides, Ends, NoConn
<1>4. \A s \in Sides : r.id[s] = 0 /\ r.box[s] = <<>>
  BY <1>1, NoConnSound
<1>5. r = [NoConn EXCEPT !.from = n, !.to = to, !.end = r.end]
  BY <1>1 DEF Fresh, NoConn
<1>6. r \in Connection
  <2> HIDE DEF r
  <2> QED BY <1>2, <1>3, <1>5 DEF Connection
<1> HIDE DEF r
<1>7. \A s \in Sides : r.box[s] \in Seq(Packets(r.from, r.to, s))
  <2> SUFFICES ASSUME NEW s \in Sides PROVE r.box[s] \in Seq(Packets(r.from, r.to, s))
    OBVIOUS
  <2> DEFINE P == Packets(r.from, r.to, s)
  <2>1. r.box[s] = <<>>
    BY <1>4
  <2> HIDE DEF P
  <2>2. <<>> \in Seq(P)
    OBVIOUS
  <2> QED BY <2>1, <2>2 DEF P
<1>8. Sound(r)
  BY <1>1, <1>3, <1>4, <1>6, <1>7 DEF Sound, Absent, IsUp, Sides
<1> QED BY <1>1, <1>3, <1>4, <1>8 DEF r

\* The connect is answered.
LEMMA ArrivedSound ==
  ASSUME NEW k, Sound(k), k.end["a"] = "trying"
  PROVE  /\ Sound(Arrived(k))
         /\ Arrived(k).from = k.from /\ Arrived(k).to = k.to
         /\ Arrived(k).id = k.id /\ Arrived(k).box = k.box
         /\ \A s \in Sides : Arrived(k).end[s] = "up" /\ k.id[s] = 0 /\ k.box[s] = <<>>
<1> DEFINE e == [s \in Sides |-> "up"]
           r == [k EXCEPT !.end = e]
<1>1. e \in [Sides -> Ends] /\ \A s \in Sides : e[s] = "up"
  BY DEF Ends
<1>2. Arrived(k) = r
  BY DEF Arrived
<1> HIDE DEF e
<1>3. /\ r \in Connection /\ r.from = k.from /\ r.to = k.to /\ r.end = e
      /\ r.id = k.id /\ r.box = k.box
  BY <1>1 DEF Connection, Sound
<1> HIDE DEF r
<1>4. \A s \in Sides : k.id[s] = 0 /\ k.box[s] = <<>>
  BY DEF Sound, IsUp, Sides
<1>5. \A q \in Sides : r.id[q] \in {0, Peer(r, q)} /\ r.box[q] \in Seq(Packets(r.from, r.to, q))
  BY <1>3 DEF Sound, Peer
<1>6. ~Absent(k)
  BY DEF Absent
<1>7. "a" \in Sides /\ "b" \in Sides
  BY DEF Sides
<1>8. Sound(r)
  BY <1>1, <1>3, <1>5, <1>6, <1>7 DEF Sound, Absent, IsUp
<1> QED BY <1>1, <1>2, <1>3, <1>4, <1>8

\* Ends go, and the connection with the last one.
LEMMA DroppedSound ==
  ASSUME NEW k, Sound(k), NEW D
  PROVE  /\ Sound(Dropped(k, D))
         /\ \/ Dropped(k, D) = NoConn /\ \A s \in Sides : s \in D \/ k.end[s] = "down"
            \/ /\ Dropped(k, D).from = k.from /\ Dropped(k, D).to = k.to
               /\ \A s \in Sides :
                    IF s \in D \/ k.end[s] = "down"
                    THEN Dropped(k, D).end[s] = "down" /\ Dropped(k, D).id[s] = 0
                         /\ Dropped(k, D).box[s] = <<>>
                    ELSE Dropped(k, D).end[s] = k.end[s] /\ Dropped(k, D).id[s] = k.id[s]
                         /\ Dropped(k, D).box[s] = k.box[s]
<1> DEFINE e == [s \in Sides |-> IF s \in D THEN "down" ELSE k.end[s]]
           i == [s \in Sides |-> IF e[s] = "down" THEN 0 ELSE k.id[s]]
           b == [s \in Sides |-> IF e[s] = "down" THEN <<>> ELSE k.box[s]]
           r == [k EXCEPT !.end = e, !.id = i, !.box = b]
<1>1. Dropped(k, D) = IF \A s \in Sides : e[s] = "down" THEN NoConn ELSE r
  BY DEF Dropped
<1>2. /\ k \in Connection /\ k.end \in [Sides -> Ends] /\ k.id \in [Sides -> 0 .. N]
      /\ k.box \in [Sides -> Seq(AnyPacket)]
  BY DEF Sound, Connection
<1>3. e \in [Sides -> Ends] /\ \A s \in Sides : e[s] = IF s \in D THEN "down" ELSE k.end[s]
  BY <1>2 DEF Ends
<1>4. CASE \A s \in Sides : e[s] = "down"
  BY <1>1, <1>3, <1>4, NoConnSound
<1>5. CASE ~ \A s \in Sides : e[s] = "down"
  <2> HIDE DEF e
  <2>1. i \in [Sides -> 0 .. N] /\ \A s \in Sides : i[s] = IF e[s] = "down" THEN 0 ELSE k.id[s]
    BY <1>2, RegistryAssumption
  <2>2. b \in [Sides -> Seq(AnyPacket)] /\ \A s \in Sides : b[s] = IF e[s] = "down" THEN <<>> ELSE k.box[s]
    BY <1>2
  <2> HIDE DEF i, b
  <2>3. /\ r \in Connection /\ r.from = k.from /\ r.to = k.to /\ r.end = e /\ r.id = i /\ r.box = b
    BY <1>2, <1>3, <2>1, <2>2 DEF Connection
  <2>4. Dropped(k, D) = r
    BY <1>1, <1>5
  <2> HIDE DEF r
  <2>5. "a" \in Sides /\ "b" \in Sides /\ Sides = {"a", "b"}
    BY DEF Sides
  <2>6. ~Absent(r) /\ ~Absent(k)
    BY <1>3, <1>5, <2>3, <2>5 DEF Absent
  <2>7. r.end["b"] # "trying" /\ (r.end["a"] = "trying" => r.end["b"] = "down")
    BY <1>3, <2>3, <2>5 DEF Sound
  <2>8. \A q \in Sides : ~IsUp(r, q) => r.id[q] = 0 /\ r.box[q] = <<>>
    <3> SUFFICES ASSUME NEW q \in Sides, ~IsUp(r, q) PROVE r.id[q] = 0 /\ r.box[q] = <<>>
      OBVIOUS
    <3>1. CASE e[q] = "down"
      BY <2>1, <2>2, <2>3, <3>1
    <3>2. CASE e[q] # "down"
      <4>1. e[q] = k.end[q]
        BY <1>3, <3>2
      <4>2. ~IsUp(k, q)
        BY <2>3, <4>1 DEF IsUp
      <4> QED BY <4>2, <2>1, <2>2, <2>3, <3>2 DEF Sound
    <3> QED BY <3>1, <3>2
  <2>9. \A q \in Sides : r.id[q] \in {0, Peer(r, q)}
    BY <2>1, <2>3 DEF Sound, Peer
  <2>10. \A q \in Sides : r.box[q] \in Seq(Packets(r.from, r.to, q))
    <3> SUFFICES ASSUME NEW q \in Sides PROVE r.box[q] \in Seq(Packets(r.from, r.to, q))
      OBVIOUS
    <3> DEFINE P == Packets(r.from, r.to, q)
    <3>1. k.box[q] \in Seq(P)
      BY <2>3 DEF Sound
    <3>2. r.box[q] = <<>> \/ r.box[q] = k.box[q]
      BY <2>2, <2>3
    <3> HIDE DEF P
    <3>4. <<>> \in Seq(P)
      OBVIOUS
    <3>3. r.box[q] \in Seq(P)
      BY <3>1, <3>2, <3>4
    <3> QED BY <3>3 DEF P
  <2>11. Sound(r)
    BY <2>3, <2>6, <2>7, <2>8, <2>9, <2>10 DEF Sound
  <2> QED BY <1>3, <2>1, <2>2, <2>3, <2>4, <2>11
<1> QED BY <1>4, <1>5

Put(c, r) == [conn EXCEPT ![c] = r]
Posted(k, s, m) == IF IsUp(k, s) THEN Got(k, s, m) ELSE k

\* The operators of the handlers, one connection at a time.
LEMMA OnOne ==
  ASSUME conn \in [Conns -> Connection], NEW c \in Conns, NEW s \in Sides
  PROVE  /\ Taken(conn, c, s) = Put(c, Read(conn[c], s))
         /\ \A r, n : Bind(Put(c, r), c, s, n) = Put(c, Named(r, s, n))
         /\ \A r : Shut(Put(c, r), c, s) = Put(c, Closed(r, s))
<1>1. Taken(conn, c, s) = Put(c, Read(conn[c], s))
  BY DEF Taken, Put, Read
<1>2. ASSUME NEW r, NEW n PROVE Bind(Put(c, r), c, s, n) = Put(c, Named(r, s, n))
  BY DEF Bind, Put, Named
<1>3. ASSUME NEW r PROVE Shut(Put(c, r), c, s) = Put(c, Closed(r, s))
  BY DEF Shut, Put, Closed
<1> QED BY <1>1, <1>2, <1>3

\* Likewise, for what is sent.
LEMMA PostOne ==
  ASSUME conn \in [Conns -> Connection], NEW c \in Conns, NEW s \in Sides, NEW r, NEW m
  PROVE  Post(Put(c, r), {c}, s, m) = Put(c, Posted(r, s, m))
<1> DEFINE p == Posted(r, s, m)
<1>1. p = IF r.end[s] \in {"up", "closing"} THEN [r EXCEPT !.box[s] = Append(@, m)] ELSE r
  BY DEF Posted, Got, IsUp
<1> HIDE DEF p
<1>2. Put(c, r)[c] = r /\ \A d \in Conns \ {c} : Put(c, r)[d] = conn[d]
  BY DEF Put
<1>3. Post(Put(c, r), {c}, s, m) =
        [d \in Conns |-> IF d = c THEN p ELSE conn[d]]
  <2> DEFINE f == [d \in Conns |-> IF d \in {c} /\ Put(c, r)[d].end[s] \in {"up", "closing"}
                   THEN [Put(c, r)[d] EXCEPT !.box[s] = Append(@, m)] ELSE Put(c, r)[d]]
  <2>1. Post(Put(c, r), {c}, s, m) = f
    BY DEF Post
  <2>2. \A d \in Conns : f[d] = IF d = c THEN p ELSE conn[d]
    BY <1>1, <1>2
  <2> QED BY <2>1, <2>2
<1>4. Put(c, p) = [d \in Conns |-> IF d = c THEN p ELSE conn[d]]
  BY DEF Put
<1> QED BY <1>3, <1>4 DEF p

\* One connection changes.
LEMMA PutSound ==
  ASSUME \A d \in Conns : Sound(conn[d]), conn \in [Conns -> Connection],
         NEW c \in Conns, NEW r, Sound(r), conn' = Put(c, r)
  PROVE  /\ conn' \in [Conns -> Connection]
         /\ \A d \in Conns : Sound(conn'[d])
         /\ conn'[c] = r
         /\ \A d \in Conns \ {c} : conn'[d] = conn[d]
<1>1. conn'[c] = r /\ \A d \in Conns \ {c} : conn'[d] = conn[d]
  BY DEF Put
<1>2. r \in Connection
  BY DEF Sound
<1> QED BY <1>1, <1>2 DEF Put

\* What a connection that gets a packet does not change.
LEMMA GotKeeps ==
  ASSUME NEW k, Sound(k), NEW s \in Sides, IsUp(k, s), NEW m \in Packets(k.from, k.to, s)
  PROVE  /\ Got(k, s, m).from = k.from /\ Got(k, s, m).to = k.to
         /\ Got(k, s, m).end = k.end /\ Got(k, s, m).id = k.id
<1>1. PICK b : b = [k.box EXCEPT ![s] = Append(@, m)]
  OBVIOUS
<1>2. Got(k, s, m) = [k EXCEPT !.box = b]
  BY <1>1 DEF Got
<1>3. k \in Connection
  BY DEF Sound
<1> QED BY <1>2, <1>3 DEF Connection

\* A packet is sent to an end, which may be gone.
LEMMA PostedSound ==
  ASSUME NEW k, Sound(k), NEW s \in Sides, NEW m \in Packets(k.from, k.to, s)
  PROVE  /\ Sound(Posted(k, s, m))
         /\ Posted(k, s, m).from = k.from /\ Posted(k, s, m).to = k.to
         /\ Posted(k, s, m).end = k.end /\ Posted(k, s, m).id = k.id
         /\ \A q \in Sides : Posted(k, s, m).box[q] =
              IF q = s /\ IsUp(k, s) THEN Append(k.box[q], m) ELSE k.box[q]
<1>1. k.box \in [Sides -> Seq(AnyPacket)]
  BY DEF Sound, Connection
<1>2. CASE IsUp(k, s)
  <2>1. Posted(k, s, m) = Got(k, s, m)
    BY <1>2 DEF Posted
  <2> DEFINE t == Append(k.box[s], m)
  <2>2. Got(k, s, m).box = [k.box EXCEPT ![s] = t]
    BY <1>2, GotSound
  <2> HIDE DEF t
  <2>3. \A q \in Sides : Got(k, s, m).box[q] = IF q = s THEN t ELSE k.box[q]
    BY <1>1, <2>2
  <2>4. \A q \in Sides : Posted(k, s, m).box[q] =
          IF q = s /\ IsUp(k, s) THEN Append(k.box[q], m) ELSE k.box[q]
    BY <1>2, <2>1, <2>3 DEF t
  <2> DEFINE r == Posted(k, s, m)
  <2>5. Sound(Got(k, s, m)) /\ Got(k, s, m).from = k.from /\ Got(k, s, m).to = k.to
        /\ Got(k, s, m).end = k.end /\ Got(k, s, m).id = k.id
    <3>1. Sound(Got(k, s, m))
      BY <1>2, GotSound
    <3> QED BY <1>2, <3>1, GotKeeps
  <2>6. Sound(r) /\ r.from = k.from /\ r.to = k.to /\ r.end = k.end /\ r.id = k.id
    BY <2>1, <2>5
  <2> QED BY <2>4, <2>6
<1>3. CASE ~IsUp(k, s)
  BY <1>3 DEF Posted
<1> QED BY <1>2, <1>3

-----------------------------------------------------------------------------
(* Whose a connection is.                                                  *)

\* It depends on the ids only.
LEMMA SameIds ==
  ASSUME NEW k, NEW r, r.from = k.from, r.to = k.to, r.id = k.id
  PROVE  /\ \A n, m \in Node : PeerOf(r, n, m) <=> PeerOf(k, n, m)
         /\ \A n \in Node : NodeOf(r, n) <=> NodeOf(k, n)
BY DEF PeerOf, NodeOf

\* It is nobody's without them.
LEMMA NoIds ==
  ASSUME NEW k, \A s \in Sides : k.id[s] = 0
  PROVE  /\ \A n, m \in Node : ~PeerOf(k, n, m)
         /\ \A n \in Node : ~NodeOf(k, n)
<1>1. 0 \notin Node
  BY RegistryAssumption DEF Node
<1> QED BY <1>1 DEF PeerOf, NodeOf, Sides

\* It joins two processes.
LEMMA PeerIs ==
  ASSUME NEW k, Sound(k), NEW n \in Node, NEW m \in Node, PeerOf(k, n, m)
  PROVE  /\ n # m /\ k.to # Master
         /\ \/ k.from = n /\ k.to = m /\ k.id["a"] = m /\ IsUp(k, "a")
            \/ k.from = m /\ k.to = n /\ k.id["b"] = m /\ IsUp(k, "b")
<1>1. 0 \notin Node
  BY RegistryAssumption DEF Node
<1>2. "a" \in Sides /\ "b" \in Sides /\ "a" # "b"
  BY DEF Sides
<1>3. k.to # Master /\ ~Absent(k)
  BY <1>1, <1>2 DEF PeerOf, Sound, IsUp, Absent
<1> QED BY <1>1, <1>2, <1>3 DEF PeerOf, Sound, Peer, IsUp

\* The master's is with its node.
LEMMA NodeIs ==
  ASSUME NEW k, Sound(k), NEW n \in Node, NodeOf(k, n)
  PROVE  k.to = Master /\ k.from = n /\ k.id["b"] = n /\ IsUp(k, "b")
<1>1. 0 \notin Node
  BY RegistryAssumption DEF Node
<1>2. "a" \in Sides /\ "b" \in Sides /\ "a" # "b"
  BY DEF Sides
<1> QED BY <1>1, <1>2 DEF NodeOf, Sound, Peer, IsUp

\* Ends that go take their ids away, and no others.
LEMMA DroppedIds ==
  ASSUME NEW k, Sound(k), NEW D
  PROVE  /\ \A n, m \in Node : PeerOf(Dropped(k, D), n, m) <=>
              PeerOf(k, n, m) /\ (IF k.from = n THEN "a" ELSE "b") \notin D
         /\ \A n \in Node : NodeOf(Dropped(k, D), n) <=> NodeOf(k, n) /\ "b" \notin D
<1> DEFINE r == Dropped(k, D)
<1>1. 0 \notin Node
  BY RegistryAssumption DEF Node
<1>2. "a" \in Sides /\ "b" \in Sides /\ "a" # "b"
  BY DEF Sides
<1>3. \A s \in Sides : k.id[s] # 0 => k.end[s] # "down"
  BY DEF Sound, IsUp
<1>4. \/ r = NoConn /\ \A s \in Sides : s \in D \/ k.id[s] = 0
      \/ /\ r.from = k.from /\ r.to = k.to
         /\ \A s \in Sides : r.id[s] = IF s \in D THEN 0 ELSE k.id[s]
  <2> USE DroppedSound
  <2>1. CASE r = NoConn /\ \A s \in Sides : s \in D \/ k.end[s] = "down"
    BY <2>1, <1>3
  <2>2. CASE /\ r.from = k.from /\ r.to = k.to
             /\ \A s \in Sides :
                    IF s \in D \/ k.end[s] = "down"
                    THEN r.end[s] = "down" /\ r.id[s] = 0
                         /\ r.box[s] = <<>>
                    ELSE r.end[s] = k.end[s] /\ r.id[s] = k.id[s]
                         /\ r.box[s] = k.box[s]
    <3>1. \A s \in Sides : r.id[s] = IF s \in D THEN 0 ELSE k.id[s]
      BY <1>3, <2>2
    <3> QED BY <2>2, <3>1
  <2> QED BY <2>1, <2>2
<1> HIDE DEF r
<1>5. ASSUME NEW n \in Node, NEW m \in Node
      PROVE  PeerOf(r, n, m) <=> PeerOf(k, n, m) /\ (IF k.from = n THEN "a" ELSE "b") \notin D
  <2>1. PeerOf(k, n, m) => n # m /\ \/ k.from = n /\ k.to = m /\ k.id["a"] = m
                                    \/ k.from = m /\ k.to = n /\ k.id["b"] = m
    BY PeerIs
  <2>2. CASE r = NoConn /\ \A s \in Sides : s \in D \/ k.id[s] = 0
    <3>1. ~PeerOf(r, n, m)
      BY <2>2, NoConnSound, NoIds
    <3> QED BY <1>1, <1>2, <2>1, <2>2, <3>1
  <2>3. CASE /\ r.from = k.from /\ r.to = k.to
             /\ \A s \in Sides : r.id[s] = IF s \in D THEN 0 ELSE k.id[s]
    <3>1. k.from = n => k.to # n
      <4>1. ~Absent(k) => k.from # k.to
        BY DEF Sound
      <4>2. Absent(k) => k.from = 0
        BY DEF Sound
      <4> QED BY <1>1, <4>1, <4>2
    <3> QED BY <1>1, <1>2, <2>1, <2>3, <3>1 DEF PeerOf
  <2> QED BY <1>4, <2>2, <2>3
<1>6. ASSUME NEW n \in Node PROVE NodeOf(r, n) <=> NodeOf(k, n) /\ "b" \notin D
  <2>2. CASE r = NoConn /\ \A s \in Sides : s \in D \/ k.id[s] = 0
    <3>1. ~NodeOf(r, n)
      BY <2>2, NoConnSound, NoIds
    <3> QED BY <1>1, <1>2, <2>2, <3>1 DEF NodeOf
  <2>3. CASE /\ r.from = k.from /\ r.to = k.to
             /\ \A s \in Sides : r.id[s] = IF s \in D THEN 0 ELSE k.id[s]
    BY <1>1, <1>2, <2>3 DEF NodeOf
  <2> QED BY <1>4, <2>2, <2>3
<1> QED BY <1>5, <1>6 DEF r

-----------------------------------------------------------------------------
(* What the invariant says of the next packet.                             *)

\* A packet is where it belongs.
LEMMA HeadIs ==
  ASSUME NEW k, Sound(k), NEW s \in Sides, k.box[s] # <<>>
  PROVE  /\ IsUp(k, s) /\ ~Absent(k)
         /\ k.from \in Node /\ k.to \in 0 .. N /\ k.from # k.to
         /\ Head(k.box[s]) \in Packets(k.from, k.to, s)
<1>1. IsUp(k, s)
  BY DEF Sound
<1>2. ~Absent(k)
  BY <1>1 DEF IsUp, Absent, Sides
<1>3. k.from \in Node /\ k.to \in 0 .. N /\ k.from # k.to
  BY <1>2 DEF Sound, Connection
<1> DEFINE P == Packets(k.from, k.to, s)
<1>4. PICK q \in Seq(P) : q = k.box[s]
  BY DEF Sound
<1> HIDE DEF P
<1>5. Head(q) \in P
  BY <1>4
<1> QED BY <1>1, <1>2, <1>3, <1>4, <1>5 DEF P

\* Its type says of which connection and which end it is.
LEMMA PacketIs ==
  ASSUME NEW n, NEW to, NEW s \in Sides, NEW m \in Packets(n, to, s)
  PROVE  /\ m.t = "sync_master" => to = Master /\ s = "a"
         /\ m.t \in {"sync_all", "sync_node"} => to = Master /\ s = "a" /\ m \in Registry(n)
         /\ m.t = "register" => to = Master /\ s = "b"
         /\ m.t = "request" => to # Master /\ s = "b"
         /\ m.t = "response" => to # Master /\ s = "a"
<1>1. \A r \in Registry(n) : r.t \in {"sync_all", "sync_node"}
  BY DEF Registry
<1>2. Msg("sync_master").t = "sync_master" /\ Msg("register").t = "register"
      /\ Msg("request").t = "request" /\ Msg("response").t = "response"
  BY DEF Msg
<1> QED BY <1>1, <1>2 DEF Packets, Sides

\* The next packet of an end.
LEMMA NextIs ==
  ASSUME ConnShape, NEW c \in Conns, NEW s \in Sides, NEW t, Next1(c, s, t)
  PROVE  /\ Sound(conn[c]) /\ conn[c].box[s] # <<>> /\ IsUp(conn[c], s)
         /\ conn[c].from \in Node /\ conn[c].to \in 0 .. N /\ conn[c].from # conn[c].to
         /\ Head(conn[c].box[s]).t = t
         /\ Head(conn[c].box[s]) \in Packets(conn[c].from, conn[c].to, s)
         /\ t = "sync_master" => conn[c].to = Master /\ s = "a"
         /\ t \in {"sync_all", "sync_node"} =>
              conn[c].to = Master /\ s = "a" /\ Head(conn[c].box[s]) \in Registry(conn[c].from)
         /\ t = "register" => conn[c].to = Master /\ s = "b"
         /\ t = "request" => conn[c].to # Master /\ s = "b" /\ conn[c].to \in Node
         /\ t = "response" => conn[c].to # Master /\ s = "a" /\ conn[c].to \in Node
<1> DEFINE k == conn[c]
           h == Head(k.box[s])
<1>1. Sound(k) /\ k.box[s] # <<>> /\ h.t = t
  BY DEF ConnShape, Next1
<1> HIDE DEF k
<1>2. /\ IsUp(k, s) /\ k.from \in Node /\ k.to \in 0 .. N /\ k.from # k.to
      /\ h \in Packets(k.from, k.to, s)
  BY <1>1, HeadIs
<1> HIDE DEF h
<1>3. /\ t = "sync_master" => k.to = Master /\ s = "a"
      /\ t \in {"sync_all", "sync_node"} => k.to = Master /\ s = "a" /\ h \in Registry(k.from)
      /\ t = "register" => k.to = Master /\ s = "b"
      /\ t = "request" => k.to # Master /\ s = "b"
      /\ t = "response" => k.to # Master /\ s = "a"
  BY <1>1, <1>2, PacketIs
<1>4. k.to # Master => k.to \in Node
  BY <1>2, RegistryAssumption DEF Node, Master
<1> QED BY <1>1, <1>2, <1>3, <1>4 DEF k, h

-----------------------------------------------------------------------------
(* The steps keep what is written down exact.                              *)

\* A handler that leaves the ids as they are and writes nothing down.
LEMMA Quiet ==
  ASSUME RegistryInv, ConnShape', NodeShape',
         UNCHANGED <<info, msock, sock, told>>,
         \A d \in Conns : \A n, m \in Node : PeerOf(conn'[d], n, m) <=> PeerOf(conn[d], n, m),
         \A d \in Conns : \A n \in Node : NodeOf(conn'[d], n) <=> NodeOf(conn[d], n)
  PROVE  RegistryInv'
<1>1. SocketInv'
  BY DEF RegistryInv, SocketInv
<1>2. MasterInv'
  BY DEF RegistryInv, MasterInv
<1>3. HeardTruth' /\ MasterShape' /\ ProxyShape'
  BY DEF RegistryInv, HeardTruth, MasterShape, ProxyShape
<1> QED BY <1>1, <1>2, <1>3 DEF RegistryInv

\* Likewise, when it is the handler of one connection.
LEMMA QuietPut ==
  ASSUME RegistryInv, NEW c \in Conns, NEW r, Sound(r), conn' = Put(c, r), NodeShape',
         UNCHANGED <<info, msock, sock, told>>,
         \A n, m \in Node : PeerOf(r, n, m) <=> PeerOf(conn[c], n, m),
         \A n \in Node : NodeOf(r, n) <=> NodeOf(conn[c], n)
  PROVE  RegistryInv'
<1>1. ConnShape
  BY DEF RegistryInv
<1>2. ConnShape' /\ conn'[c] = r /\ \A d \in Conns \ {c} : conn'[d] = conn[d]
  BY <1>1, PutSound DEF ConnShape
<1>3. \A d \in Conns : \A n, m \in Node : PeerOf(conn'[d], n, m) <=> PeerOf(conn[d], n, m)
  BY <1>2
<1>4. \A d \in Conns : \A n \in Node : NodeOf(conn'[d], n) <=> NodeOf(conn[d], n)
  BY <1>2
<1> QED BY <1>2, <1>3, <1>4, Quiet

\* What a node keeps beside its sockets does not change.
LEMMA SameNodes ==
  ASSUME NodeShape, UNCHANGED <<active, mconn, known, dial, faults>>
  PROVE  NodeShape'
BY DEF NodeShape

\* onCheckConnectMaster and the ticker of a node proxy.
LEMMA ConnectInv ==
  ASSUME RegistryInv, NEW n \in Node, NEW m \in Node,
         CheckConnectMaster(n) \/ CheckConnectNode(n, m)
  PROVE  RegistryInv'
<1>1. ASSUME NEW to \in 0 .. N, n # to, \E c \in Conns : Free(c), conn' = Dialled(n, to),
             NodeShape', UNCHANGED <<info, msock, sock, told>>
      PROVE  RegistryInv'
  <2>1. PICK c \in Conns : Free(c) /\ conn' = Put(c, Fresh(n, to))
    BY <1>1, DialledIs DEF Put
  <2>2. Sound(Fresh(n, to)) /\ \A s \in Sides : Fresh(n, to).id[s] = 0
    BY <1>1, FreshSound
  <2>3. \A s \in Sides : conn[c].id[s] = 0
    BY <2>1 DEF RegistryInv, ConnShape, Sound, IsUp, Free, Sides
  <2> QED BY <1>1, <2>1, <2>2, <2>3, NoIds, QuietPut
<1>2. 0 \in 0 .. N /\ n # 0 /\ m \in 0 .. N
  BY RegistryAssumption DEF Node
<1>3. CASE CheckConnectMaster(n)
  <2>1. NodeShape'
    BY <1>3 DEF CheckConnectMaster, RegistryInv, NodeShape, proxyVars
  <2> QED BY <1>1, <1>2, <1>3, <2>1 DEF CheckConnectMaster, masterVars, proxyVars, Master
<1>4. CASE CheckConnectNode(n, m)
  <2>1. NodeShape'
    BY <1>4, SameNodes DEF CheckConnectNode, RegistryInv, proxyVars, toMaster
  <2>2. n # m
    BY <1>4 DEF CheckConnectNode, RegistryInv, NodeShape
  <2> QED BY <1>1, <1>2, <1>4, <2>1, <2>2 DEF CheckConnectNode, masterVars, proxyVars
<1> QED BY <1>3, <1>4

\* What Connected makes of its connection.
Opened(k) ==
  IF k.to = Master THEN Posted(Arrived(k), "a", Msg("sync_master"))
  ELSE Posted(Arrived(k), "b", Msg("request"))

\* Both ends are there and the first packet is on the way.
LEMMA OpenedIs ==
  ASSUME NEW k, Sound(k), k.end["a"] = "trying"
  PROVE  /\ Sound(Opened(k))
         /\ Opened(k).from = k.from /\ Opened(k).to = k.to
         /\ \A s \in Sides : Opened(k).end[s] = "up" /\ Opened(k).id[s] = 0
         /\ k.to = Master => Opened(k).box["a"] = <<Msg("sync_master")>> /\ Opened(k).box["b"] = <<>>
<1> DEFINE u == Arrived(k)
<1>1. /\ Sound(u) /\ u.from = k.from /\ u.to = k.to
      /\ \A s \in Sides : u.end[s] = "up" /\ u.id[s] = 0 /\ u.box[s] = <<>>
  BY ArrivedSound
<1> HIDE DEF u
<1>2. "a" \in Sides /\ "b" \in Sides /\ "a" # "b" /\ \A s \in Sides : IsUp(u, s)
  BY <1>1 DEF Sides, IsUp
<1>3. CASE k.to = Master
  <2>1. Msg("sync_master") \in Packets(u.from, u.to, "a")
    BY <1>1, <1>3 DEF Packets
  <2> DEFINE r == Posted(u, "a", Msg("sync_master"))
  <2>2. /\ Sound(r) /\ r.from = u.from /\ r.to = u.to /\ r.end = u.end /\ r.id = u.id
        /\ \A q \in Sides : r.box[q] = IF q = "a" /\ IsUp(u, "a") THEN Append(u.box[q], Msg("sync_master")) ELSE u.box[q]
    BY <1>1, <1>2, <2>1, PostedSound
  <2>3. Opened(k) = r
    BY <1>3 DEF Opened, u
  <2> HIDE DEF r
  <2>4. r.box["a"] = Append(<<>>, Msg("sync_master")) /\ r.box["b"] = <<>>
    BY <1>1, <1>2, <2>2
  <2>5. r.box["a"] = <<Msg("sync_master")>>
    BY <2>4
  <2> QED BY <1>1, <2>2, <2>3, <2>4, <2>5
<1>4. CASE k.to # Master
  <2>1. Msg("request") \in Packets(u.from, u.to, "b")
    BY <1>1, <1>4 DEF Packets
  <2> DEFINE r == Posted(u, "b", Msg("request"))
  <2>2. Sound(r) /\ r.from = u.from /\ r.to = u.to /\ r.end = u.end /\ r.id = u.id
    BY <1>1, <1>2, <2>1, PostedSound
  <2>3. Opened(k) = r
    BY <1>4 DEF Opened, u
  <2> HIDE DEF r
  <2> QED BY <1>1, <1>4, <2>2, <2>3
<1> QED BY <1>3, <1>4

\* What Connected does.
LEMMA ConnectedIs ==
  ASSUME conn \in [Conns -> Connection], NEW c \in Conns, Connected(c)
  PROVE  conn' = Put(c, Opened(conn[c])) /\ conn[c].end["a"] = "trying"
<1> DEFINE u == Arrived(conn[c])
<1>1. [conn EXCEPT ![c].end = [s \in Sides |-> "up"]] = Put(c, u)
  BY DEF Put, Arrived
<1> HIDE DEF u
<1>2. "a" \in Sides /\ "b" \in Sides
  BY DEF Sides
<1>3. \A m : /\ Post(Put(c, u), {c}, "a", m) = Put(c, Posted(u, "a", m))
             /\ Post(Put(c, u), {c}, "b", m) = Put(c, Posted(u, "b", m))
  BY <1>2, PostOne
<1> QED BY <1>1, <1>3 DEF Connected, Opened, u

\* The connection is there.
LEMMA ConnectedInv ==
  ASSUME RegistryInv, NEW c \in Conns, Connected(c)
  PROVE  RegistryInv'
<1> DEFINE r == Opened(conn[c])
<1>1. conn' = Put(c, r) /\ conn[c].end["a"] = "trying" /\ Sound(conn[c])
  BY ConnectedIs DEF RegistryInv, ConnShape
<1>2. Sound(r) /\ \A s \in Sides : r.id[s] = 0
  BY <1>1, OpenedIs
<1>3. \A s \in Sides : conn[c].id[s] = 0
  BY <1>1, ArrivedSound
<1>4. NodeShape' /\ UNCHANGED <<info, msock, sock, told>>
  BY SameNodes DEF Connected, RegistryInv, masterVars, toMaster, proxyVars
<1> HIDE DEF r
<1> QED BY <1>1, <1>2, <1>3, <1>4, NoIds, QuietPut

\* The connect is refused.
LEMMA RefusedInv ==
  ASSUME RegistryInv, NEW c \in Conns, Refused(c)
  PROVE  RegistryInv'
<1>1. conn' = Put(c, NoConn) /\ conn[c].end["a"] = "trying" /\ Sound(conn[c])
  BY DEF Refused, Put, RegistryInv, ConnShape
<1>2. \A s \in Sides : conn[c].id[s] = 0
  BY <1>1, ArrivedSound
<1>3. faults' \in 0 .. MaxFaults
  BY RegistryAssumption DEF Refused, RegistryInv, NodeShape
<1>4. active' \in [Node -> BOOLEAN]
  BY DEF Refused, RegistryInv, NodeShape
<1>5. NodeShape' /\ UNCHANGED <<info, msock, sock, told>>
  BY <1>3, <1>4 DEF Refused, RegistryInv, NodeShape, masterVars, proxyVars
<1> QED BY <1>1, <1>2, <1>5, NoConnSound, NoIds, QuietPut

\* The network drops a connection.
LEMMA CutInv ==
  ASSUME RegistryInv, NEW c \in Conns, Cut(c)
  PROVE  RegistryInv'
<1>1. Sound(conn[c])
  BY DEF RegistryInv, ConnShape
<1> DEFINE k == conn[c]
           r == [k EXCEPT !.cut = TRUE]
<1>2. conn' = Put(c, r)
  BY DEF Cut, Put, RegistryInv, ConnShape
<1> HIDE DEF k
<1>3. /\ r \in Connection /\ r.from = k.from /\ r.to = k.to /\ r.end = k.end /\ r.id = k.id
      /\ r.box = k.box
  BY <1>1 DEF Sound, Connection, k
<1> HIDE DEF r
<1>4. Sound(r)
  BY <1>1, <1>3 DEF Sound, IsUp, Absent, Peer, k
<1>5. faults' \in 0 .. MaxFaults
  BY RegistryAssumption DEF Cut, RegistryInv, NodeShape
<1>6. NodeShape' /\ UNCHANGED <<info, msock, sock, told>>
  BY <1>5 DEF Cut, RegistryInv, NodeShape, masterVars, toMaster, proxyVars
<1>7. \A n, m \in Node : PeerOf(r, n, m) <=> PeerOf(k, n, m)
  BY <1>3, SameIds
<1>8. \A n \in Node : NodeOf(r, n) <=> NodeOf(k, n)
  BY <1>3, SameIds
<1> QED BY <1>2, <1>4, <1>6, <1>7, <1>8, QuietPut DEF k

\* What OnSyncMaster makes of its connection, first or not.
Greeted(k, first) ==
  LET r == Named(Read(k, "a"), "a", 1)
  IN  IF first THEN Posted(r, "b", Msg("register")) ELSE Closed(r, "a")

\* The node has the master's id, and registers or closes.
LEMMA GreetedIs ==
  ASSUME NEW k, Sound(k), k.to = Master, k.box["a"] # <<>>, NEW first \in BOOLEAN
  PROVE  /\ Sound(Greeted(k, first))
         /\ Greeted(k, first).from = k.from /\ Greeted(k, first).to = k.to
         /\ Greeted(k, first).id["b"] = k.id["b"] /\ Greeted(k, first).end["b"] = k.end["b"]
         /\ Greeted(k, first).end["a"] = IF first THEN k.end["a"] ELSE "closing"
         /\ Greeted(k, first).box["a"] = Tail(k.box["a"])
         /\ Greeted(k, first).box["b"] = IF first /\ IsUp(k, "b") THEN Append(k.box["b"], Msg("register"))
                                         ELSE k.box["b"]
<1> DEFINE x == Read(k, "a")
           r == Named(x, "a", 1)
<1>0. "a" \in Sides /\ "b" \in Sides /\ "a" # "b"
  BY DEF Sides
<1>1. /\ IsUp(k, "a") /\ k.from \in Node
      /\ k.end \in [Sides -> Ends] /\ k.id \in [Sides -> 0 .. N] /\ k.box \in [Sides -> Seq(AnyPacket)]
  BY <1>0, HeadIs DEF Sound, Connection
<1> DEFINE t == Tail(k.box["a"])
<1>2. /\ Sound(x) /\ x.from = k.from /\ x.to = k.to /\ x.end = k.end /\ x.id = k.id
      /\ x.box = [k.box EXCEPT !["a"] = t]
  BY <1>0, ReadSound
<1> HIDE DEF t
<1>3. x.box["a"] = t /\ x.box["b"] = k.box["b"] /\ IsUp(x, "a")
  BY <1>0, <1>1, <1>2 DEF IsUp
<1> HIDE DEF x
<1>4. 1 \in 0 .. N /\ 1 = Peer(x, "a")
  BY <1>1, <1>2, RegistryAssumption DEF Node, Peer
<1>11. /\ Sound(r) /\ r.from = x.from /\ r.to = x.to /\ r.end = x.end /\ r.box = x.box
       /\ r.id = [x.id EXCEPT !["a"] = 1]
  BY <1>0, <1>2, <1>3, <1>4, NamedSound
<1>5. /\ Sound(r) /\ r.from = k.from /\ r.to = k.to /\ r.end = k.end /\ r.box = x.box
      /\ r.id = [k.id EXCEPT !["a"] = 1]
  BY <1>2, <1>11
<1>6. r.id["b"] = k.id["b"] /\ IsUp(r, "a") /\ (IsUp(r, "b") <=> IsUp(k, "b"))
  BY <1>0, <1>1, <1>5 DEF IsUp
<1> HIDE DEF r
<1>7. CASE first
  <2>1. Msg("register") \in Packets(r.from, r.to, "b")
    BY <1>5 DEF Packets
  <2> DEFINE p == Posted(r, "b", Msg("register"))
  <2>2. /\ Sound(p) /\ p.from = r.from /\ p.to = r.to /\ p.end = r.end /\ p.id = r.id
        /\ \A q \in Sides : p.box[q] = IF q = "b" /\ IsUp(r, "b") THEN Append(r.box[q], Msg("register"))
                                       ELSE r.box[q]
    BY <1>0, <1>5, <2>1, PostedSound
  <2>3. Greeted(k, first) = p
    BY <1>7 DEF Greeted, r, x
  <2> HIDE DEF p
  <2> QED BY <1>0, <1>3, <1>5, <1>6, <1>7, <2>2, <2>3 DEF t
<1>8. CASE ~first
  <2> DEFINE p == Closed(r, "a")
  <2>1. /\ Sound(p) /\ p.from = r.from /\ p.to = r.to /\ p.id = r.id /\ p.box = r.box
        /\ p.end = [k.end EXCEPT !["a"] = "closing"]
    BY <1>0, <1>5, <1>6, ClosedSound
  <2>2. Greeted(k, first) = p
    BY <1>8 DEF Greeted, r, x
  <2> HIDE DEF p
  <2>3. p.end["a"] = "closing" /\ p.end["b"] = k.end["b"]
    BY <1>0, <1>1, <2>1
  <2> QED BY <1>0, <1>3, <1>5, <1>6, <1>8, <2>1, <2>2, <2>3 DEF t
<1> QED BY <1>7, <1>8

\* What OnSyncMaster does.
LEMMA SyncMasterIs ==
  ASSUME ConnShape, NEW c \in Conns, OnSyncMaster(c)
  PROVE  /\ conn' = Put(c, Greeted(conn[c], mconn[conn[c].from] = 0))
         /\ mconn' = IF mconn[conn[c].from] = 0 THEN [mconn EXCEPT ![conn[c].from] = c] ELSE mconn
         /\ UNCHANGED <<info, msock, active, known, dial, sock, told, faults>>
<1>0. "a" \in Sides /\ "b" \in Sides
  BY DEF Sides
<1>1. conn \in [Conns -> Connection]
  BY DEF ConnShape
<1> DEFINE r == Named(Read(conn[c], "a"), "a", 1)
<1>2. Bind(Taken(conn, c, "a"), c, "a", 1) = Put(c, r)
  BY <1>0, <1>1, OnOne
<1> HIDE DEF r
<1>3. Post(Put(c, r), {c}, "b", Msg("register")) = Put(c, Posted(r, "b", Msg("register")))
  BY <1>0, <1>1, PostOne
<1>4. Shut(Put(c, r), c, "a") = Put(c, Closed(r, "a"))
  BY <1>0, <1>1, OnOne
<1>5. UNCHANGED <<info, msock, active, known, dial, sock, told, faults>>
  BY DEF OnSyncMaster, masterVars, proxyVars
<1>6. CASE mconn[conn[c].from] = 0
  BY <1>2, <1>3, <1>5, <1>6 DEF OnSyncMaster, Greeted, r
<1>7. CASE mconn[conn[c].from] # 0
  BY <1>2, <1>4, <1>5, <1>7 DEF OnSyncMaster, Greeted, r
<1> QED BY <1>6, <1>7

\* The master has said who it is.
LEMMA SyncMasterInv ==
  ASSUME RegistryInv, NEW c \in Conns, OnSyncMaster(c)
  PROVE  RegistryInv'
<1> DEFINE k == conn[c]
           first == mconn[k.from] = 0
           r == Greeted(k, first)
<1>1. ConnShape
  BY DEF RegistryInv
<1>2. "a" \in Sides /\ "b" \in Sides
  BY DEF Sides
<1>3. Next1(c, "a", "sync_master")
  BY DEF OnSyncMaster
<1>4. Sound(k) /\ k.to = Master /\ k.box["a"] # <<>> /\ k.from \in Node
  BY <1>1, <1>2, <1>3, NextIs
<1>5. /\ conn' = Put(c, r)
      /\ mconn' = IF first THEN [mconn EXCEPT ![k.from] = c] ELSE mconn
      /\ UNCHANGED <<info, msock, active, known, dial, sock, told, faults>>
  BY <1>1, SyncMasterIs
<1>6. NodeShape'
  BY <1>5 DEF RegistryInv, NodeShape
<1> HIDE DEF k, first
<1>7. first \in BOOLEAN
  BY DEF first
<1>8. Sound(r) /\ r.to = Master /\ r.id["b"] = k.id["b"]
  BY <1>4, <1>7, GreetedIs
<1> HIDE DEF r
<1>9. \A n, m \in Node : PeerOf(r, n, m) <=> PeerOf(k, n, m)
  BY <1>4, <1>8 DEF PeerOf
<1>10. \A n \in Node : NodeOf(r, n) <=> NodeOf(k, n)
  BY <1>4, <1>8 DEF NodeOf
<1> QED BY <1>5, <1>6, <1>8, <1>9, <1>10, QuietPut DEF k

\* setNodeProxyInfo and addNodeProxyInfo leave no ticker without its node.
LEMMA AddedShape ==
  ASSUME NodeShape, NEW n \in Node, NEW new, NEW excl, NEW old,
         new \subseteq Node \ {n}, old \subseteq known[n],
         Added(n, new, excl, old), UNCHANGED <<active, mconn, faults>>
  PROVE  /\ NodeShape'
         /\ known'[n] = old \cup new
         /\ dial'[n] = (dial[n] \cap old) \cup {m \in new \ excl : Needs(n, m)}
         /\ \A q \in Node \ {n} : known'[q] = known[q] /\ dial'[q] = dial[q]
<1> DEFINE x == {m \in new \ excl : Needs(n, m)}
<1>1. x \subseteq new
  OBVIOUS
<1>2. known' = [known EXCEPT ![n] = old \cup new] /\ dial' = [dial EXCEPT ![n] = (@ \cap old) \cup x]
  BY DEF Added
<1> HIDE DEF x
<1>3. /\ known'[n] = old \cup new /\ dial'[n] = (dial[n] \cap old) \cup x
      /\ \A q \in Node \ {n} : known'[q] = known[q] /\ dial'[q] = dial[q]
  BY <1>2 DEF NodeShape
<1>4. old \subseteq Node /\ n \notin old
  BY DEF NodeShape
<1>5. known' \in [Node -> SUBSET Node] /\ dial' \in [Node -> SUBSET Node]
  BY <1>1, <1>2, <1>4 DEF NodeShape
<1>6. \A q \in Node : q \notin known'[q] /\ dial'[q] \subseteq known'[q]
  <2> SUFFICES ASSUME NEW q \in Node PROVE q \notin known'[q] /\ dial'[q] \subseteq known'[q]
    OBVIOUS
  <2>1. CASE q = n
    BY <1>1, <1>3, <1>4, <2>1
  <2>2. CASE q # n
    BY <1>3, <2>2 DEF NodeShape
  <2> QED BY <2>1, <2>2
<1> QED BY <1>3, <1>5, <1>6 DEF NodeShape, x

\* What the master sends of nodes.
LEMMA RegistryIs ==
  ASSUME NEW n \in Node, NEW m \in Registry(n)
  PROVE  /\ m.nodes \subseteq Node \ {n}
         /\ \A q \in m.nodes \ m.excl : ~isExcludeConnectNode(n, q)
BY DEF Registry

\* A node has come.
LEMMA SyncNodeInv ==
  ASSUME RegistryInv, NEW c \in Conns, OnSyncNode(c)
  PROVE  RegistryInv'
<1> DEFINE k == conn[c]
           n == k.from
           msg == Head(k.box["a"])
           r == Read(k, "a")
<1>1. ConnShape /\ NodeShape /\ "a" \in Sides /\ Next1(c, "a", "sync_node")
  BY DEF RegistryInv, Sides, OnSyncNode
<1>2. Sound(k) /\ k.box["a"] # <<>> /\ n \in Node /\ msg \in Registry(n)
  BY <1>1, NextIs
<1>3. Added(n, msg.nodes \ known[n], msg.excl, known[n])
  BY DEF OnSyncNode
<1>4. UNCHANGED <<info, msock, active, mconn, sock, told, faults>>
  BY DEF OnSyncNode, masterVars, toMaster
<1>5. NodeShape'
  <2>1. msg.nodes \subseteq Node \ {n}
    BY <1>2, RegistryIs
  <2> DEFINE new == msg.nodes \ known[n]
  <2>2. new \subseteq Node \ {n}
    BY <2>1
  <2>3. Added(n, new, msg.excl, known[n])
    BY <1>3
  <2> HIDE DEF new, msg, n
  <2> QED BY <1>1, <1>2, <1>4, <2>2, <2>3, AddedShape
<1>6. conn' = Put(c, r)
  BY <1>1, OnOne DEF OnSyncNode, ConnShape
<1>7. Sound(r) /\ r.from = k.from /\ r.to = k.to /\ r.id = k.id
  BY <1>1, <1>2, ReadSound
<1> HIDE DEF r
<1>8. \A p, m \in Node : PeerOf(r, p, m) <=> PeerOf(k, p, m)
  BY <1>7, SameIds
<1>9. \A p \in Node : NodeOf(r, p) <=> NodeOf(k, p)
  BY <1>7, SameIds
<1> QED BY <1>4, <1>5, <1>6, <1>7, <1>8, <1>9, QuietPut

\* What delNodeProxyInfo makes of the connection to the node that goes.
Unlink(k, n) ==
  LET s == IF k.from = n THEN "a" ELSE "b" IN Closed(Named(k, s, 0), s)

\* The connection is nobody's at its end, and as it was at the other one.
LEMMA UnlinkIs ==
  ASSUME NEW k, Sound(k), NEW n \in Node, NEW m \in Node, PeerOf(k, n, m)
  PROVE  /\ Sound(Unlink(k, n))
         /\ Unlink(k, n).from = k.from /\ Unlink(k, n).to = k.to
         /\ \A p, q \in Node : PeerOf(Unlink(k, n), p, q) <=> PeerOf(k, p, q) /\ p # n
<1> DEFINE s == IF k.from = n THEN "a" ELSE "b"
           x == Named(k, s, 0)
           r == Closed(x, s)
<1>1. n # m /\ k.to # Master /\ s \in Sides /\ IsUp(k, s) /\ k.from # k.to
      /\ \/ k.from = n /\ k.to = m /\ s = "a"
         \/ k.from = m /\ k.to = n /\ s = "b"
  BY PeerIs DEF Sides
<1> HIDE DEF s
<1>2. 0 \in 0 .. N /\ 0 \notin Node
  BY RegistryAssumption DEF Node
<1>3. /\ Sound(x) /\ x.from = k.from /\ x.to = k.to /\ x.end = k.end
      /\ x.id = [k.id EXCEPT ![s] = 0]
  BY <1>1, <1>2, NamedSound
<1>4. IsUp(x, s)
  BY <1>1, <1>3 DEF IsUp
<1> HIDE DEF x
<1>5. Sound(r) /\ r.from = k.from /\ r.to = k.to /\ r.id = [k.id EXCEPT ![s] = 0]
  BY <1>1, <1>3, <1>4, ClosedSound
<1>6. k.id \in [Sides -> 0 .. N]
  BY DEF Sound, Connection
<1>7. r.id[s] = 0 /\ \A q \in Sides \ {s} : r.id[q] = k.id[q]
  BY <1>1, <1>5, <1>6
<1>8. Unlink(k, n) = r
  BY DEF Unlink, r, x, s
<1> HIDE DEF r
<1>9. "a" \in Sides /\ "b" \in Sides /\ "a" # "b"
  BY DEF Sides
<1>10. ASSUME NEW p \in Node, NEW q \in Node
       PROVE  PeerOf(r, p, q) <=> PeerOf(k, p, q) /\ p # n
  <2>1. CASE k.from = n /\ k.to = m /\ s = "a"
    <3>1. r.id["a"] = 0 /\ r.id["b"] = k.id["b"]
      BY <1>7, <1>9, <2>1
    <3> QED BY <1>1, <1>2, <1>5, <2>1, <3>1 DEF PeerOf
  <2>2. CASE k.from = m /\ k.to = n /\ s = "b"
    <3>1. r.id["b"] = 0 /\ r.id["a"] = k.id["a"]
      BY <1>7, <1>9, <2>2
    <3> QED BY <1>1, <1>2, <1>5, <2>2, <3>1 DEF PeerOf
  <2> QED BY <1>1, <2>1, <2>2
<1> QED BY <1>5, <1>8, <1>10

\* What Unlinked does to each connection.
LEMMA UnlinkedIs ==
  ASSUME NEW cs \in [Conns -> Connection], NEW n, NEW gone, NEW d \in Conns
  PROVE  Unlinked(cs, n, gone)[d] =
           IF \E m \in gone : sock[n][m] = d THEN Unlink(cs[d], n) ELSE cs[d]
BY DEF Unlinked, Unlink, Closed, Named

\* The connection of the master's packet is not one of those that are closed.
LEMMA SyncAllIs ==
  ASSUME RegistryInv, NEW c \in Conns, OnSyncAll(c)
  PROVE  LET n == conn[c].from
             msg == Head(conn[c].box["a"])
             gone == known[n] \ msg.nodes
         IN  /\ n \in Node /\ msg \in Registry(n) /\ gone \subseteq Node
             /\ conn' \in [Conns -> Connection]
             /\ conn'[c] = Read(conn[c], "a") /\ Sound(Read(conn[c], "a"))
             /\ conn[c].to = Master /\ ~\E m \in gone : sock[n][m] = c
             /\ \A d \in Conns \ {c} :
                  conn'[d] = IF \E m \in gone : sock[n][m] = d THEN Unlink(conn[d], n) ELSE conn[d]
             /\ \A d \in Conns : \A m \in gone : sock[n][m] = d => PeerOf(conn[d], n, m)
             /\ \A d \in Conns : Sound(conn'[d])
<1> DEFINE k == conn[c]
           n == k.from
           msg == Head(k.box["a"])
           gone == known[n] \ msg.nodes
           r == Read(k, "a")
           cs == Put(c, r)
<1>1. ConnShape /\ NodeShape /\ "a" \in Sides /\ Next1(c, "a", "sync_all") /\ SocketInv
  BY DEF RegistryInv, Sides, OnSyncAll
<1>2. Sound(k) /\ k.box["a"] # <<>> /\ n \in Node /\ msg \in Registry(n) /\ k.to = Master
  BY <1>1, NextIs
<1>3. conn' = Unlinked(cs, n, gone)
  BY <1>1, OnOne DEF OnSyncAll, ConnShape, Gone
<1>4. Sound(r)
  BY <1>1, <1>2, ReadSound
<1>5. gone \subseteq Node
  BY <1>1, <1>2 DEF NodeShape
<1>6. \A d \in Conns : \A m \in gone : sock[n][m] = d => PeerOf(conn[d], n, m)
  BY <1>1, <1>2, <1>5 DEF SocketInv
<1>7. ~\E m \in gone : sock[n][m] = c
  BY <1>2, <1>6 DEF PeerOf
<1> HIDE DEF k, r, msg
<1>8. cs \in [Conns -> Connection] /\ cs[c] = r /\ \A d \in Conns \ {c} : cs[d] = conn[d]
  BY <1>1, <1>4 DEF Put, ConnShape, Sound
<1> HIDE DEF cs, gone
<1>9. \A d \in Conns : conn'[d] = IF \E m \in gone : sock[n][m] = d THEN Unlink(cs[d], n) ELSE cs[d]
  BY <1>3, <1>8, UnlinkedIs
<1>10. conn'[c] = r
  BY <1>7, <1>8, <1>9
<1>11. \A d \in Conns \ {c} :
         conn'[d] = IF \E m \in gone : sock[n][m] = d THEN Unlink(conn[d], n) ELSE conn[d]
  BY <1>8, <1>9
<1>12. \A d \in Conns : Sound(conn'[d])
  <2> SUFFICES ASSUME NEW d \in Conns PROVE Sound(conn'[d])
    OBVIOUS
  <2>1. CASE d = c
    BY <1>4, <1>10, <2>1
  <2>2. CASE d # c /\ \E m \in gone : sock[n][m] = d
    <3>1. PICK m \in gone : sock[n][m] = d
      BY <2>2
    <3>2. Sound(conn[d]) /\ m \in Node /\ PeerOf(conn[d], n, m)
      BY <1>1, <1>5, <1>6, <3>1 DEF ConnShape
    <3>3. Sound(Unlink(conn[d], n))
      BY <1>2, <3>2, UnlinkIs
    <3>4. conn'[d] = Unlink(conn[d], n)
      BY <1>11, <2>2
    <3> QED BY <3>3, <3>4
  <2>3. CASE d # c /\ ~\E m \in gone : sock[n][m] = d
    BY <1>1, <1>11, <2>3 DEF ConnShape
  <2> QED BY <2>1, <2>2, <2>3
<1>13. conn' \in [Conns -> Connection]
  <2>1. conn' = [d \in Conns |-> conn'[d]]
    BY <1>3 DEF Unlinked
  <2>2. \A d \in Conns : conn'[d] \in Connection
    BY <1>12 DEF Sound
  <2> QED BY <2>1, <2>2
<1> QED BY <1>2, <1>4, <1>5, <1>6, <1>7, <1>10, <1>11, <1>12, <1>13 DEF k, r, msg, gone

\* The list of all nodes has come.
LEMMA SyncAllInv ==
  ASSUME RegistryInv, NEW c \in Conns, OnSyncAll(c)
  PROVE  RegistryInv'
<1> DEFINE k == conn[c]
           n == k.from
           msg == Head(k.box["a"])
           gone == known[n] \ msg.nodes
           lost(d) == \E m \in gone : sock[n][m] = d
           r == Read(k, "a")
<1>0. /\ ConnShape /\ MasterShape /\ ProxyShape /\ NodeShape /\ SocketInv /\ MasterInv /\ HeardTruth
      /\ "a" \in Sides
  BY DEF RegistryInv, Sides
<1>1. /\ n \in Node /\ msg \in Registry(n) /\ gone \subseteq Node
      /\ conn' \in [Conns -> Connection]
      /\ conn'[c] = r /\ conn[c].to = Master /\ ~lost(c)
      /\ \A d \in Conns \ {c} : conn'[d] = IF lost(d) THEN Unlink(conn[d], n) ELSE conn[d]
      /\ \A d \in Conns : \A m \in gone : sock[n][m] = d => PeerOf(conn[d], n, m)
      /\ \A d \in Conns : Sound(conn'[d])
  BY SyncAllIs
<1>2. /\ Added(n, msg.nodes \ known[n], msg.excl, known[n] \ gone)
      /\ sock' = [sock EXCEPT ![n] = [m \in Node |-> IF m \in gone THEN 0 ELSE sock[n][m]]]
      /\ told' = [told EXCEPT ![n] = [m \in Node |->
                    IF m \in gone /\ sock[n][m] # 0 THEN told[n][m] - 1 ELSE told[n][m]]]
      /\ UNCHANGED <<info, msock, active, mconn, faults>>
  BY DEF OnSyncAll, masterVars, toMaster, Gone
<1>3. NodeShape'
  <2>1. msg.nodes \subseteq Node \ {n}
    BY <1>1, RegistryIs
  <2> DEFINE new == msg.nodes \ known[n]
             old == known[n] \ gone
  <2>2. new \subseteq Node \ {n} /\ old \subseteq known[n]
    BY <2>1
  <2>3. Added(n, new, msg.excl, old)
    BY <1>2
  <2> HIDE DEF new, old, msg, n, gone
  <2> QED BY <1>0, <1>1, <1>2, <2>2, <2>3, AddedShape
<1>4. r.from = k.from /\ r.to = k.to /\ r.id = k.id
  <2>1. Sound(k) /\ k.box["a"] # <<>>
    BY <1>0 DEF ConnShape, OnSyncAll, Next1
  <2> QED BY <1>0, <2>1, ReadSound
<1> HIDE DEF r, msg
<1>5. \A p, q \in Node, d \in Conns : PeerOf(conn'[d], p, q) <=> PeerOf(conn[d], p, q) /\ ~(lost(d) /\ p = n)
  <2> SUFFICES ASSUME NEW p \in Node, NEW q \in Node, NEW d \in Conns
               PROVE  PeerOf(conn'[d], p, q) <=> PeerOf(conn[d], p, q) /\ ~(lost(d) /\ p = n)
    OBVIOUS
  <2>1. CASE d = c
    BY <1>1, <1>4, <2>1, SameIds
  <2>2. CASE d # c /\ ~lost(d)
    BY <1>1, <2>2
  <2>3. CASE d # c /\ lost(d)
    <3>1. PICK m \in gone : sock[n][m] = d
      BY <2>3
    <3>2. Sound(conn[d]) /\ m \in Node /\ PeerOf(conn[d], n, m)
      BY <1>0, <1>1, <3>1 DEF ConnShape
    <3>3. PeerOf(Unlink(conn[d], n), p, q) <=> PeerOf(conn[d], p, q) /\ p # n
      BY <1>1, <3>2, UnlinkIs
    <3>4. conn'[d] = Unlink(conn[d], n)
      BY <1>1, <2>3
    <3> QED BY <2>3, <3>3, <3>4
  <2> QED BY <2>1, <2>2, <2>3
<1>6. \A p \in Node, d \in Conns : NodeOf(conn'[d], p) <=> NodeOf(conn[d], p)
  <2> SUFFICES ASSUME NEW p \in Node, NEW d \in Conns
               PROVE  NodeOf(conn'[d], p) <=> NodeOf(conn[d], p)
    OBVIOUS
  <2>1. CASE d = c
    BY <1>1, <1>4, <2>1, SameIds
  <2>2. CASE d # c /\ ~lost(d)
    BY <1>1, <2>2
  <2>3. CASE d # c /\ lost(d)
    <3>1. PICK m \in gone : sock[n][m] = d
      BY <2>3
    <3>2. Sound(conn[d]) /\ m \in Node /\ PeerOf(conn[d], n, m)
      BY <1>0, <1>1, <3>1 DEF ConnShape
    <3>3. Unlink(conn[d], n).to = conn[d].to /\ conn[d].to # Master
      BY <1>1, <3>2, UnlinkIs, PeerIs
    <3>4. conn'[d] = Unlink(conn[d], n)
      BY <1>1, <2>3
    <3> QED BY <3>3, <3>4 DEF NodeOf
  <2> QED BY <2>1, <2>2, <2>3
<1> HIDE DEF n, gone
<1>7. \A p, q \in Node : sock'[p][q] = IF p = n /\ q \in gone THEN 0 ELSE sock[p][q]
  BY <1>0, <1>1, <1>2 DEF ProxyShape
<1>8. \A p, q \in Node : told'[p][q] =
        IF p = n /\ q \in gone /\ sock[p][q] # 0 THEN told[p][q] - 1 ELSE told[p][q]
  BY <1>0, <1>1, <1>2 DEF ProxyShape
<1>9. \A p, q \in Node : told[p][q] = IF sock[p][q] = 0 THEN 0 ELSE 1
  BY <1>0 DEF HeardTruth
<1>10. HeardTruth'
  <2> SUFFICES ASSUME NEW p \in Node, NEW q \in Node
               PROVE  told'[p][q] = IF sock'[p][q] = 0 THEN 0 ELSE 1
    BY DEF HeardTruth
  <2>1. CASE p = n /\ q \in gone
    <3>1. sock'[p][q] = 0
      BY <1>7, <2>1
    <3>2. CASE sock[p][q] = 0
      <4>1. told'[p][q] = told[p][q] /\ told[p][q] = 0
        BY <1>8, <1>9, <3>2
      <4> QED BY <3>1, <4>1
    <3>3. CASE sock[p][q] # 0
      <4>1. told'[p][q] = told[p][q] - 1 /\ told[p][q] = 1
        BY <1>8, <1>9, <2>1, <3>3
      <4> QED BY <3>1, <4>1
    <3> QED BY <3>2, <3>3
  <2>2. CASE ~(p = n /\ q \in gone)
    <3>1. told'[p][q] = told[p][q] /\ sock'[p][q] = sock[p][q]
      BY <1>7, <1>8, <2>2
    <3> QED BY <1>9, <3>1
  <2> QED BY <2>1, <2>2
<1>11. ProxyShape'
  <2>1. sock' \in [Node -> [Node -> Conns \cup {0}]]
    BY <1>0, <1>1, <1>2 DEF ProxyShape
  <2>2. \A p, q \in Node : told'[p][q] \in {0, 1}
    BY <1>10 DEF HeardTruth
  <2> DEFINE f == [m \in Node |-> IF m \in gone /\ sock[n][m] # 0 THEN told[n][m] - 1 ELSE told[n][m]]
  <2>3. told' = [told EXCEPT ![n] = f] /\ f = [m \in Node |-> f[m]]
    BY <1>2
  <2> HIDE DEF f
  <2>4. told'[n] = f /\ \A m \in Node : f[m] \in {0, 1}
    BY <1>0, <1>1, <2>2, <2>3 DEF ProxyShape
  <2>5. f \in [Node -> {0, 1}]
    BY <2>3, <2>4
  <2>6. told' \in [Node -> [Node -> {0, 1}]]
    BY <1>0, <1>1, <2>3, <2>5 DEF ProxyShape
  <2> QED BY <2>1, <2>6 DEF ProxyShape
<1>12. SocketInv'
  <2> SUFFICES ASSUME NEW p \in Node, NEW q \in Node, NEW d \in Conns
               PROVE  sock'[p][q] = d <=> PeerOf(conn'[d], p, q)
    BY DEF SocketInv
  <2>0. sock[p][q] = d <=> PeerOf(conn[d], p, q)
    BY <1>0 DEF SocketInv
  <2>9. d # 0
    BY RegistryAssumption DEF Conns
  <2>1. CASE p = n /\ q \in gone
    <3>1. sock'[p][q] = 0
      BY <1>7, <2>1
    <3>2. ~PeerOf(conn'[d], p, q)
      BY <1>5, <2>0, <2>1
    <3> QED BY <2>9, <3>1, <3>2
  <2>2. CASE p = n /\ q \notin gone
    <3>1. PeerOf(conn[d], p, q) => ~lost(d)
      <4> SUFFICES ASSUME PeerOf(conn[d], p, q), NEW m \in gone, sock[n][m] = d PROVE FALSE
        OBVIOUS
      <4>1. Sound(conn[d]) /\ m \in Node /\ PeerOf(conn[d], n, m)
        BY <1>0, <1>1 DEF ConnShape
      <4>2. /\ \/ conn[d].from = n /\ conn[d].to = m
               \/ conn[d].from = m /\ conn[d].to = n
            /\ \/ conn[d].from = n /\ conn[d].to = q
               \/ conn[d].from = q /\ conn[d].to = n
            /\ n # m /\ n # q
        BY <1>1, <2>2, <4>1, PeerIs
      <4> QED BY <2>2, <4>2
    <3>2. sock'[p][q] = sock[p][q]
      BY <1>7, <2>2
    <3> QED BY <1>5, <2>0, <3>1, <3>2
  <2>3. CASE p # n
    <3>1. sock'[p][q] = sock[p][q]
      BY <1>7, <2>3
    <3>2. PeerOf(conn'[d], p, q) <=> PeerOf(conn[d], p, q)
      BY <1>5, <2>3
    <3> QED BY <2>0, <3>1, <3>2
  <2> QED BY <2>1, <2>2, <2>3
<1>13. MasterInv' /\ MasterShape'
  BY <1>0, <1>2, <1>6 DEF MasterInv, MasterShape
<1>14. ConnShape'
  BY <1>1 DEF ConnShape
<1> QED BY <1>3, <1>10, <1>11, <1>12, <1>13, <1>14 DEF RegistryInv

\* One entry of a table is written.
Written(f, n, m, v) == [f EXCEPT ![n][m] = v]

\* An end has shaken hands: the entry is written with the id.
LEMMA GainInv ==
  ASSUME RegistryInv, NEW c \in Conns, NEW r, Sound(r), conn' = Put(c, r),
         NEW n \in Node, NEW m \in Node, sock[n][m] = 0,
         \A p, q \in Node : PeerOf(r, p, q) <=> PeerOf(conn[c], p, q) \/ (p = n /\ q = m),
         \A p \in Node : NodeOf(r, p) <=> NodeOf(conn[c], p),
         sock' = Written(sock, n, m, c), told' = Written(told, n, m, told[n][m] + 1),
         UNCHANGED <<info, msock, active, mconn, known, dial, faults>>
  PROVE  RegistryInv'
<1>0. ConnShape /\ MasterShape /\ ProxyShape /\ NodeShape /\ SocketInv /\ MasterInv /\ HeardTruth
  BY DEF RegistryInv
<1>1. ConnShape' /\ conn'[c] = r /\ \A d \in Conns \ {c} : conn'[d] = conn[d]
  BY <1>0, PutSound DEF ConnShape
<1>2. \A p, q \in Node : sock'[p][q] = IF p = n /\ q = m THEN c ELSE sock[p][q]
  BY <1>0 DEF ProxyShape, Written
<1>3. \A p, q \in Node : told'[p][q] = IF p = n /\ q = m THEN told[n][m] + 1 ELSE told[p][q]
  BY <1>0 DEF ProxyShape, Written
<1>4. told[n][m] = 0 /\ c # 0
  BY <1>0, RegistryAssumption DEF HeardTruth, Conns
<1>5. ProxyShape'
  <2>1. sock' \in [Node -> [Node -> Conns \cup {0}]]
    BY <1>0 DEF ProxyShape, Written
  <2>2. told' = [told EXCEPT ![n][m] = 1]
    BY <1>4 DEF Written
  <2>3. told' \in [Node -> [Node -> {0, 1}]]
    BY <1>0, <2>2 DEF ProxyShape
  <2> QED BY <2>1, <2>3 DEF ProxyShape
<1>6. HeardTruth'
  <2> SUFFICES ASSUME NEW p \in Node, NEW q \in Node
               PROVE  told'[p][q] = IF sock'[p][q] = 0 THEN 0 ELSE 1
    BY DEF HeardTruth
  <2>1. CASE p = n /\ q = m
    BY <1>2, <1>3, <1>4, <2>1
  <2>2. CASE ~(p = n /\ q = m)
    BY <1>0, <1>2, <1>3, <2>2 DEF HeardTruth
  <2> QED BY <2>1, <2>2
<1>7. SocketInv'
  <2> SUFFICES ASSUME NEW p \in Node, NEW q \in Node, NEW d \in Conns
               PROVE  sock'[p][q] = d <=> PeerOf(conn'[d], p, q)
    BY DEF SocketInv
  <2>0. sock[p][q] = d <=> PeerOf(conn[d], p, q)
    BY <1>0 DEF SocketInv
  <2>1. CASE d = c
    BY <1>1, <1>2, <2>0, <2>1
  <2>2. CASE d # c /\ p = n /\ q = m
    <3>1. d # 0
      BY RegistryAssumption DEF Conns
    <3> QED BY <1>1, <1>2, <2>0, <2>2, <3>1
  <2>3. CASE d # c /\ ~(p = n /\ q = m)
    BY <1>1, <1>2, <2>0, <2>3
  <2> QED BY <2>1, <2>2, <2>3
<1>8. MasterInv' /\ MasterShape'
  BY <1>0, <1>1 DEF MasterInv, MasterShape
<1>9. NodeShape'
  BY <1>0, SameNodes
<1> QED BY <1>1, <1>5, <1>6, <1>7, <1>8, <1>9 DEF RegistryInv

\* What the handshake makes of its connection.
Asked(k) == Posted(Named(Read(k, "b"), "b", k.from), "a", Msg("response"))
Answered(k) == Named(Read(k, "a"), "a", k.to)

\* The passive side has the id of the other one.
LEMMA AskedIs ==
  ASSUME NEW k, Sound(k), k.from \in Node, k.to \in Node, k.from # k.to, k.box["b"] # <<>>
  PROVE  /\ Sound(Asked(k)) /\ Asked(k).to = k.to /\ Asked(k).from = k.from /\ Asked(k).end = k.end
         /\ \A p, q \in Node : PeerOf(Asked(k), p, q) <=> PeerOf(k, p, q) \/ (p = k.to /\ q = k.from)
<1> DEFINE x == Read(k, "b")
           y == Named(x, "b", k.from)
           r == Posted(y, "a", Msg("response"))
<1>0. "a" \in Sides /\ "b" \in Sides /\ "a" # "b"
  BY DEF Sides
<1>1. IsUp(k, "b") /\ k.id \in [Sides -> 0 .. N]
  BY <1>0, HeadIs DEF Sound, Connection
<1>2. Sound(x) /\ x.from = k.from /\ x.to = k.to /\ x.end = k.end /\ x.id = k.id
  BY <1>0, ReadSound
<1> HIDE DEF x
<1>3. IsUp(x, "b") /\ k.from \in 0 .. N /\ k.from = Peer(x, "b")
  BY <1>1, <1>2 DEF IsUp, Peer, Node
<1>4. Sound(y) /\ y.from = x.from /\ y.to = x.to /\ y.end = x.end /\ y.id = [x.id EXCEPT !["b"] = k.from]
  BY <1>0, <1>2, <1>3, NamedSound
<1> HIDE DEF y
<1>5. 0 \notin Node
  BY RegistryAssumption DEF Node
<1>6. Msg("response") \in Packets(y.from, y.to, "a")
  BY <1>2, <1>4, <1>5 DEF Packets, Master
<1>7. Sound(r) /\ r.from = y.from /\ r.to = y.to /\ r.end = y.end /\ r.id = y.id
  BY <1>0, <1>4, <1>6, PostedSound
<1>8. r.id["b"] = k.from /\ r.id["a"] = k.id["a"] /\ r.from = k.from /\ r.to = k.to /\ r.end = k.end
  BY <1>0, <1>1, <1>2, <1>4, <1>7
<1>9. Asked(k) = r
  BY DEF Asked, r, y, x
<1> HIDE DEF r
<1>10. k.id["b"] \in {0, k.from} /\ k.to # Master
  BY <1>0, <1>5 DEF Sound, Peer, Master
<1>11. ASSUME NEW p \in Node, NEW q \in Node
       PROVE  PeerOf(r, p, q) <=> PeerOf(k, p, q) \/ (p = k.to /\ q = k.from)
  BY <1>5, <1>8, <1>10 DEF PeerOf
<1> QED BY <1>7, <1>8, <1>9, <1>11

\* The initiative side has the id of the other one.
LEMMA AnsweredIs ==
  ASSUME NEW k, Sound(k), k.from \in Node, k.to \in Node, k.from # k.to, k.box["a"] # <<>>
  PROVE  /\ Sound(Answered(k)) /\ Answered(k).to = k.to /\ Answered(k).from = k.from /\ Answered(k).end = k.end
         /\ \A p, q \in Node : PeerOf(Answered(k), p, q) <=> PeerOf(k, p, q) \/ (p = k.from /\ q = k.to)
<1> DEFINE x == Read(k, "a")
           r == Named(x, "a", k.to)
<1>0. "a" \in Sides /\ "b" \in Sides /\ "a" # "b"
  BY DEF Sides
<1>1. IsUp(k, "a") /\ k.id \in [Sides -> 0 .. N]
  BY <1>0, HeadIs DEF Sound, Connection
<1>2. Sound(x) /\ x.from = k.from /\ x.to = k.to /\ x.end = k.end /\ x.id = k.id
  BY <1>0, ReadSound
<1> HIDE DEF x
<1>5. 0 \notin Node
  BY RegistryAssumption DEF Node
<1>3. IsUp(x, "a") /\ k.to \in 0 .. N /\ k.to = Peer(x, "a")
  BY <1>1, <1>2, <1>5 DEF IsUp, Peer, Node, Master
<1>4. Sound(r) /\ r.from = x.from /\ r.to = x.to /\ r.end = x.end /\ r.id = [x.id EXCEPT !["a"] = k.to]
  BY <1>0, <1>2, <1>3, NamedSound
<1>9. Answered(k) = r
  BY DEF Answered, x
<1> HIDE DEF r
<1>8. r.id["a"] = k.to /\ r.id["b"] = k.id["b"] /\ r.from = k.from /\ r.to = k.to /\ r.end = k.end
  BY <1>0, <1>1, <1>2, <1>4
<1>10. k.id["a"] \in {0, k.to} /\ k.to # Master
  BY <1>0, <1>5 DEF Sound, Peer, Master
<1>11. ASSUME NEW p \in Node, NEW q \in Node
       PROVE  PeerOf(r, p, q) <=> PeerOf(k, p, q) \/ (p = k.from /\ q = k.to)
  BY <1>5, <1>8, <1>10 DEF PeerOf
<1> QED BY <1>4, <1>8, <1>9, <1>11

\* An end takes a packet and shuts the connection down.
LEMMA ReadClosed ==
  ASSUME NEW k, Sound(k), NEW s \in Sides, k.box[s] # <<>>
  PROVE  LET r == Closed(Read(k, s), s)
         IN  /\ Sound(r) /\ r.from = k.from /\ r.to = k.to /\ r.id = k.id
             /\ r.end = [k.end EXCEPT ![s] = "closing"]
             /\ r.box = [k.box EXCEPT ![s] = Tail(@)]
<1> DEFINE x == Read(k, s)
<1>1. /\ Sound(x) /\ x.from = k.from /\ x.to = k.to /\ x.end = k.end /\ x.id = k.id
      /\ x.box = [k.box EXCEPT ![s] = Tail(@)]
  BY ReadSound
<1>2. IsUp(x, s)
  BY <1>1, HeadIs DEF IsUp
<1> HIDE DEF x
<1>3. LET r == Closed(x, s)
      IN  /\ Sound(r) /\ r.from = x.from /\ r.to = x.to /\ r.id = x.id /\ r.box = x.box
          /\ r.end = [x.end EXCEPT ![s] = "closing"]
  BY <1>1, <1>2, ClosedSound
<1> QED BY <1>1, <1>3 DEF x

\* What the handshake does.
LEMMA HandshakeIs ==
  ASSUME ConnShape, NEW c \in Conns
  PROVE  /\ OnHandshakeRequest(c) =>
              conn' = IF AcceptsSocket(conn[c].to, conn[c].from) THEN Put(c, Asked(conn[c]))
                      ELSE Put(c, Closed(Read(conn[c], "b"), "b"))
         /\ OnHandshakeResponse(c) =>
              conn' = IF AcceptsSocket(conn[c].from, conn[c].to) THEN Put(c, Answered(conn[c]))
                      ELSE Put(c, Closed(Read(conn[c], "a"), "a"))
<1>0. conn \in [Conns -> Connection] /\ "a" \in Sides /\ "b" \in Sides
  BY DEF ConnShape, Sides
<1> DEFINE x(s) == Read(conn[c], s)
<1>1. ASSUME NEW s \in Sides, NEW n
      PROVE  /\ Taken(conn, c, s) = Put(c, x(s))
             /\ Bind(Put(c, x(s)), c, s, n) = Put(c, Named(x(s), s, n))
             /\ Shut(Put(c, x(s)), c, s) = Put(c, Closed(x(s), s))
  BY <1>0, OnOne
<1>2. ASSUME NEW r PROVE Post(Put(c, r), {c}, "a", Msg("response")) = Put(c, Posted(r, "a", Msg("response")))
  BY <1>0, PostOne
<1>3. ASSUME OnHandshakeRequest(c)
      PROVE  conn' = IF AcceptsSocket(conn[c].to, conn[c].from) THEN Put(c, Asked(conn[c]))
                     ELSE Put(c, Closed(Read(conn[c], "b"), "b"))
  <2>1. /\ Taken(conn, c, "b") = Put(c, x("b"))
        /\ Bind(Put(c, x("b")), c, "b", conn[c].from) = Put(c, Named(x("b"), "b", conn[c].from))
        /\ Shut(Put(c, x("b")), c, "b") = Put(c, Closed(x("b"), "b"))
    BY <1>0, <1>1
  <2>2. CASE AcceptsSocket(conn[c].to, conn[c].from)
    BY <1>2, <1>3, <2>1, <2>2 DEF OnHandshakeRequest, Asked
  <2>3. CASE ~AcceptsSocket(conn[c].to, conn[c].from)
    BY <1>3, <2>1, <2>3 DEF OnHandshakeRequest
  <2> QED BY <2>2, <2>3
<1>4. ASSUME OnHandshakeResponse(c)
      PROVE  conn' = IF AcceptsSocket(conn[c].from, conn[c].to) THEN Put(c, Answered(conn[c]))
                     ELSE Put(c, Closed(Read(conn[c], "a"), "a"))
  <2>1. /\ Taken(conn, c, "a") = Put(c, x("a"))
        /\ Bind(Put(c, x("a")), c, "a", conn[c].to) = Put(c, Named(x("a"), "a", conn[c].to))
        /\ Shut(Put(c, x("a")), c, "a") = Put(c, Closed(x("a"), "a"))
    BY <1>0, <1>1
  <2>2. CASE AcceptsSocket(conn[c].from, conn[c].to)
    BY <1>4, <2>1, <2>2 DEF OnHandshakeResponse, Answered
  <2>3. CASE ~AcceptsSocket(conn[c].from, conn[c].to)
    BY <1>4, <2>1, <2>3 DEF OnHandshakeResponse
  <2> QED BY <2>2, <2>3
<1> QED BY <1>3, <1>4

\* The handshake of two nodes, on either side.
LEMMA HandshakeInv ==
  ASSUME RegistryInv, NEW c \in Conns, OnHandshakeRequest(c) \/ OnHandshakeResponse(c)
  PROVE  RegistryInv'
<1> DEFINE k == conn[c]
<1>0. ConnShape /\ NodeShape /\ "a" \in Sides /\ "b" \in Sides
  BY DEF RegistryInv, Sides
<1>1. ASSUME NEW s \in Sides, k.box[s] # <<>>, Sound(k),
             conn' = Put(c, Closed(Read(k, s), s)),
             UNCHANGED <<info, msock, active, mconn, known, dial, sock, told, faults>>
      PROVE  RegistryInv'
  <2> DEFINE r == Closed(Read(k, s), s)
  <2>1. Sound(r) /\ r.from = k.from /\ r.to = k.to /\ r.id = k.id
    BY <1>1, ReadClosed
  <2>2. NodeShape'
    BY <1>0, <1>1, SameNodes
  <2> HIDE DEF r, k
  <2>3. \A p, q \in Node : PeerOf(r, p, q) <=> PeerOf(k, p, q)
    BY <2>1, SameIds
  <2>4. \A p \in Node : NodeOf(r, p) <=> NodeOf(k, p)
    BY <2>1, SameIds
  <2>5. conn' = Put(c, r)
    BY <1>1 DEF r
  <2> QED BY <1>1, <2>1, <2>2, <2>3, <2>4, <2>5, QuietPut DEF k
<1>2. CASE OnHandshakeRequest(c)
  <2>1. Sound(k) /\ k.box["b"] # <<>> /\ k.from \in Node /\ k.to \in Node /\ k.to # Master /\ k.from # k.to
    BY <1>0, <1>2, NextIs DEF OnHandshakeRequest
  <2>2. CASE AcceptsSocket(k.to, k.from)
    <3> DEFINE r == Asked(k)
    <3>1. /\ Sound(r) /\ r.to = k.to
          /\ \A p, q \in Node : PeerOf(r, p, q) <=> PeerOf(k, p, q) \/ (p = k.to /\ q = k.from)
      BY <2>1, AskedIs
    <3>2. \A p \in Node : NodeOf(r, p) <=> NodeOf(k, p)
      BY <2>1, <3>1 DEF NodeOf
    <3>3. conn' = Put(c, r)
      BY <1>0, <1>2, <2>2, HandshakeIs
    <3>4. /\ sock' = [sock EXCEPT ![k.to][k.from] = c] /\ told' = [told EXCEPT ![k.to][k.from] = @ + 1]
          /\ sock[k.to][k.from] = 0
          /\ UNCHANGED <<info, msock, active, mconn, known, dial, faults>>
      BY <1>2, <2>2 DEF OnHandshakeRequest, masterVars, toMaster, AcceptsSocket
    <3>5. PICK n \in Node, m \in Node : n = k.to /\ m = k.from
      BY <2>1
    <3>6. \A p, q \in Node : PeerOf(r, p, q) <=> PeerOf(k, p, q) \/ (p = n /\ q = m)
      BY <3>1, <3>5
    <3>7. /\ sock' = Written(sock, n, m, c) /\ told' = Written(told, n, m, told[n][m] + 1)
          /\ sock[n][m] = 0
      BY <3>4, <3>5 DEF Written
    <3>8. UNCHANGED <<info, msock, active, mconn, known, dial, faults>> /\ Sound(r)
      BY <3>1, <3>4
    <3> HIDE DEF r
    <3> QED BY <3>2, <3>3, <3>6, <3>7, <3>8, GainInv
  <2>3. CASE ~AcceptsSocket(k.to, k.from)
    <3>1. conn' = Put(c, Closed(Read(k, "b"), "b"))
      BY <1>0, <1>2, <2>3, HandshakeIs
    <3>2. UNCHANGED <<info, msock, active, mconn, known, dial, sock, told, faults>>
      BY <1>2, <2>3 DEF OnHandshakeRequest, masterVars, toMaster
    <3> QED BY <1>0, <1>1, <2>1, <3>1, <3>2
  <2> QED BY <2>2, <2>3
<1>3. CASE OnHandshakeResponse(c)
  <2>1. Sound(k) /\ k.box["a"] # <<>> /\ k.from \in Node /\ k.to \in Node /\ k.to # Master /\ k.from # k.to
    BY <1>0, <1>3, NextIs DEF OnHandshakeResponse
  <2>2. CASE AcceptsSocket(k.from, k.to)
    <3> DEFINE r == Answered(k)
    <3>1. /\ Sound(r) /\ r.to = k.to
          /\ \A p, q \in Node : PeerOf(r, p, q) <=> PeerOf(k, p, q) \/ (p = k.from /\ q = k.to)
      BY <2>1, AnsweredIs
    <3>2. \A p \in Node : NodeOf(r, p) <=> NodeOf(k, p)
      BY <2>1, <3>1 DEF NodeOf
    <3>3. conn' = Put(c, r)
      BY <1>0, <1>3, <2>2, HandshakeIs
    <3>4. /\ sock' = [sock EXCEPT ![k.from][k.to] = c] /\ told' = [told EXCEPT ![k.from][k.to] = @ + 1]
          /\ sock[k.from][k.to] = 0
          /\ UNCHANGED <<info, msock, active, mconn, known, dial, faults>>
      BY <1>3, <2>2 DEF OnHandshakeResponse, masterVars, toMaster, AcceptsSocket
    <3>5. PICK n \in Node, m \in Node : n = k.from /\ m = k.to
      BY <2>1
    <3>6. \A p, q \in Node : PeerOf(r, p, q) <=> PeerOf(k, p, q) \/ (p = n /\ q = m)
      BY <3>1, <3>5
    <3>7. /\ sock' = Written(sock, n, m, c) /\ told' = Written(told, n, m, told[n][m] + 1)
          /\ sock[n][m] = 0
      BY <3>4, <3>5 DEF Written
    <3>8. UNCHANGED <<info, msock, active, mconn, known, dial, faults>> /\ Sound(r)
      BY <3>1, <3>4
    <3> HIDE DEF r
    <3> QED BY <3>2, <3>3, <3>6, <3>7, <3>8, GainInv
  <2>3. CASE ~AcceptsSocket(k.from, k.to)
    <3>1. conn' = Put(c, Closed(Read(k, "a"), "a"))
      BY <1>0, <1>3, <2>3, HandshakeIs
    <3>2. UNCHANGED <<info, msock, active, mconn, known, dial, sock, told, faults>>
      BY <1>3, <2>3 DEF OnHandshakeResponse, masterVars, toMaster
    <3> QED BY <1>0, <1>1, <2>1, <3>1, <3>2
  <2> QED BY <2>2, <2>3
<1> QED BY <1>2, <1>3

\* The packets of addNode.
AllNodes(n) ==
  [t |-> "sync_all", nodes |-> info \ {n},
   excl |-> {m \in info \ {n} : isExcludeConnectNode(n, m)}]
OneNode(m, n) ==
  [t |-> "sync_node", nodes |-> {n}, excl |-> IF isExcludeConnectNode(m, n) THEN {n} ELSE {}]
Registered(k) == Posted(Named(Read(k, "b"), "b", k.from), "a", AllNodes(k.from))

\* They are packets of the master.
LEMMA NodesIn ==
  ASSUME MasterShape, NEW n \in Node
  PROVE  /\ AllNodes(n) \in Registry(n)
         /\ \A m \in Node \ {n} : OneNode(m, n) \in Registry(m)
         /\ AllNodes(n).t = "sync_all" /\ AllNodes(n).nodes = info \ {n}
         /\ \A m : OneNode(m, n).t = "sync_node" /\ OneNode(m, n).nodes = {n}
<1> DEFINE x == {m \in info \ {n} : isExcludeConnectNode(n, m)}
<1>1. x \subseteq Node /\ info \ {n} \subseteq Node \ {n}
      /\ \A m \in (info \ {n}) \ x : ~isExcludeConnectNode(n, m)
  BY DEF MasterShape
<1>2. AllNodes(n) = [t |-> "sync_all", nodes |-> info \ {n}, excl |-> x]
  BY DEF AllNodes
<1> HIDE DEF x
<1>3. AllNodes(n) \in Registry(n)
  BY <1>1, <1>2 DEF Registry
<1>4. ASSUME NEW m \in Node \ {n} PROVE OneNode(m, n) \in Registry(m)
  <2> DEFINE y == IF isExcludeConnectNode(m, n) THEN {n} ELSE {}
  <2>1. y \subseteq Node /\ {n} \subseteq Node \ {m} /\ \A q \in {n} \ y : ~isExcludeConnectNode(m, q)
    OBVIOUS
  <2>2. OneNode(m, n) = [t |-> "sync_node", nodes |-> {n}, excl |-> y]
    BY DEF OneNode
  <2> HIDE DEF y
  <2> QED BY <2>1, <2>2 DEF Registry
<1> QED BY <1>2, <1>3, <1>4 DEF OneNode

\* What is sent to one end.
LEMMA PostAt ==
  ASSUME NEW cs, NEW d \in Conns, NEW s, NEW m
  PROVE  Post(cs, {d}, s, m)[d] = Posted(cs[d], s, m)
BY DEF Post, Posted, Got, IsUp

\* The master's end has the node's id, and the node's end is told the others.
LEMMA RegisteredIs ==
  ASSUME NEW k, Sound(k), k.from \in Node, k.to = Master, k.box["b"] # <<>>, MasterShape
  PROVE  /\ Sound(Registered(k)) /\ Registered(k).to = k.to /\ Registered(k).from = k.from
         /\ Registered(k).end = k.end
         /\ Registered(k).id["b"] = k.from
         /\ Registered(k).box["a"] = IF IsUp(k, "a") THEN Append(k.box["a"], AllNodes(k.from)) ELSE k.box["a"]
         /\ Registered(k).box["b"] = Tail(k.box["b"])
<1> DEFINE x == Read(k, "b")
           y == Named(x, "b", k.from)
           r == Posted(y, "a", AllNodes(k.from))
           t == Tail(k.box["b"])
<1>0. "a" \in Sides /\ "b" \in Sides /\ "a" # "b"
  BY DEF Sides
<1>1. IsUp(k, "b") /\ k.id \in [Sides -> 0 .. N] /\ k.box \in [Sides -> Seq(AnyPacket)]
  BY <1>0, HeadIs DEF Sound, Connection
<1>2. Sound(x) /\ x.from = k.from /\ x.to = k.to /\ x.end = k.end /\ x.id = k.id
      /\ x.box = [k.box EXCEPT !["b"] = t]
  BY <1>0, ReadSound
<1> HIDE DEF x, t
<1>3. IsUp(x, "b") /\ k.from \in 0 .. N /\ k.from = Peer(x, "b") /\ x.box["b"] = t /\ x.box["a"] = k.box["a"]
  BY <1>0, <1>1, <1>2 DEF IsUp, Peer, Node
<1>4. Sound(y) /\ y.from = x.from /\ y.to = x.to /\ y.end = x.end /\ y.box = x.box
      /\ y.id = [x.id EXCEPT !["b"] = k.from]
  BY <1>0, <1>2, <1>3, NamedSound
<1> HIDE DEF y
<1>6. AllNodes(k.from) \in Packets(y.from, y.to, "a")
  BY <1>2, <1>4, NodesIn DEF Packets
<1>7. Sound(r) /\ r.from = y.from /\ r.to = y.to /\ r.end = y.end /\ r.id = y.id
  BY <1>0, <1>4, <1>6, PostedSound
<1>8. \A q \in Sides : r.box[q] = IF q = "a" /\ IsUp(y, "a") THEN Append(y.box[q], AllNodes(k.from)) ELSE y.box[q]
  BY <1>0, <1>4, <1>6, PostedSound
<1>9. Registered(k) = r
  BY DEF Registered, y, x
<1> HIDE DEF r
<1>10. r.id["b"] = k.from /\ r.from = k.from /\ r.to = k.to /\ r.end = k.end
  BY <1>0, <1>1, <1>2, <1>4, <1>7
<1>11. IsUp(y, "a") <=> IsUp(k, "a")
  BY <1>2, <1>4 DEF IsUp
<1>12. r.box["a"] = IF IsUp(k, "a") THEN Append(k.box["a"], AllNodes(k.from)) ELSE k.box["a"]
  BY <1>0, <1>3, <1>4, <1>8, <1>11
<1>13. r.box["b"] = t
  BY <1>0, <1>3, <1>4, <1>8
<1> QED BY <1>7, <1>9, <1>10, <1>12, <1>13 DEF t

\* What addNode does to the connections, when it takes the node.
LEMMA RegisterIs ==
  ASSUME RegistryInv, NEW c \in Conns, OnRegister(c), Registers(conn[c].from)
  PROVE  LET n == conn[c].from
         IN  /\ n \in Node /\ conn[c].to = Master /\ conn[c].box["b"] # <<>> /\ Sound(conn[c])
             /\ conn' \in [Conns -> Connection]
             /\ conn'[c] = Registered(conn[c])
             /\ \A d \in Conns \ {c} :
                  conn'[d] = IF \E m \in info \ {n} : msock[m] = d
                             THEN Posted(conn[d], "a", OneNode(conn[d].from, n)) ELSE conn[d]
             /\ \A d \in Conns : \A m \in info \ {n} :
                  msock[m] = d => NodeOf(conn[d], m) /\ conn[d].from = m
             /\ \A d \in Conns : Sound(conn'[d])
             /\ info' = info \cup {n} /\ msock' = [msock EXCEPT ![n] = c]
             /\ UNCHANGED <<active, mconn, known, dial, sock, told, faults>>
<1> DEFINE k == conn[c]
           n == k.from
           others == info \ {n}
           r == Registered(k)
           all == [t |-> "sync_all", nodes |-> others,
                   excl |-> {m \in others : isExcludeConnectNode(n, m)}]
           one(m) == [t |-> "sync_node", nodes |-> {n},
                      excl |-> IF isExcludeConnectNode(m, n) THEN {n} ELSE {}]
           told1 == Post(Bind(Taken(conn, c, "b"), c, "b", n), {c}, "a", all)
<1>0. /\ ConnShape /\ MasterShape /\ NodeShape /\ MasterInv
      /\ "a" \in Sides /\ "b" \in Sides /\ Next1(c, "b", "register")
  BY DEF RegistryInv, Sides, OnRegister
<1>1. Sound(k) /\ k.box["b"] # <<>> /\ n \in Node /\ k.to = Master
  BY <1>0, NextIs
<1>2. /\ info' = info \cup {n} /\ msock' = [msock EXCEPT ![n] = c]
      /\ UNCHANGED <<active, mconn, known, dial, sock, told, faults>>
      /\ conn' = [d \in Conns |->
                    IF \E m \in others : msock[m] = d
                    THEN Post(told1, {d}, "a", one(conn[d].from))[d] ELSE told1[d]]
  BY DEF OnRegister, toMaster, proxyVars
<1>3. told1 = Put(c, r)
  <2> DEFINE y == Named(Read(k, "b"), "b", n)
  <2>1. Bind(Taken(conn, c, "b"), c, "b", n) = Put(c, y)
    BY <1>0, OnOne DEF ConnShape
  <2>2. r = Posted(y, "a", all)
    BY DEF Registered, AllNodes
  <2> HIDE DEF y, all, r
  <2>3. Post(Put(c, y), {c}, "a", all) = Put(c, Posted(y, "a", all))
    BY <1>0, PostOne DEF ConnShape
  <2> QED BY <2>1, <2>2, <2>3
<1>4. Sound(r)
  BY <1>0, <1>1, RegisteredIs
<1>5. \A m : one(m) = OneNode(m, n)
  BY DEF OneNode
<1> HIDE DEF told1, one
<1>6. told1[c] = r /\ \A d \in Conns \ {c} : told1[d] = conn[d]
  BY <1>0, <1>3 DEF Put, ConnShape
<1>7. \A d \in Conns : conn'[d] = IF \E m \in others : msock[m] = d
                                  THEN Posted(told1[d], "a", OneNode(conn[d].from, n)) ELSE told1[d]
  <2> SUFFICES ASSUME NEW d \in Conns
               PROVE  conn'[d] = IF \E m \in others : msock[m] = d
                                 THEN Posted(told1[d], "a", OneNode(conn[d].from, n)) ELSE told1[d]
    OBVIOUS
  <2>1. conn'[d] = IF \E m \in others : msock[m] = d
                   THEN Post(told1, {d}, "a", one(conn[d].from))[d] ELSE told1[d]
    BY <1>2
  <2>2. Post(told1, {d}, "a", one(conn[d].from))[d] = Posted(told1[d], "a", one(conn[d].from))
    BY PostAt
  <2> QED BY <1>5, <2>1, <2>2
<1>8. \A d \in Conns : \A m \in others : msock[m] = d => NodeOf(conn[d], m) /\ conn[d].from = m
  <2> SUFFICES ASSUME NEW d \in Conns, NEW m \in others, msock[m] = d
               PROVE  NodeOf(conn[d], m) /\ conn[d].from = m
    OBVIOUS
  <2>1. m \in Node /\ Sound(conn[d])
    BY <1>0 DEF MasterShape, ConnShape
  <2>2. NodeOf(conn[d], m)
    BY <1>0, <2>1 DEF MasterInv
  <2> QED BY <2>1, <2>2, NodeIs
<1>9. conn'[c] = r
  <2>1. ~\E m \in others : msock[m] = c
    BY <1>8
  <2> QED BY <1>6, <1>7, <2>1
<1> HIDE DEF r
<1>10. \A d \in Conns \ {c} : conn'[d] = IF \E m \in others : msock[m] = d
                                  THEN Posted(conn[d], "a", OneNode(conn[d].from, n)) ELSE conn[d]
  BY <1>6, <1>7
<1>11. \A d \in Conns : Sound(conn'[d])
  <2> SUFFICES ASSUME NEW d \in Conns PROVE Sound(conn'[d])
    OBVIOUS
  <2>1. CASE d = c
    BY <1>4, <1>9, <2>1
  <2>2. CASE d # c /\ \E m \in others : msock[m] = d
    <3>1. PICK m \in others : msock[m] = d
      BY <2>2
    <3>2. Sound(conn[d]) /\ m \in Node \ {n} /\ conn[d].from = m /\ conn[d].to = Master
      BY <1>0, <1>8, <3>1 DEF ConnShape, MasterShape, NodeOf
    <3>3. OneNode(m, n) \in Packets(conn[d].from, conn[d].to, "a")
      BY <1>0, <1>1, <3>2, NodesIn DEF Packets
    <3>4. Sound(Posted(conn[d], "a", OneNode(m, n)))
      BY <1>0, <3>2, <3>3, PostedSound
    <3> QED BY <1>10, <2>2, <3>2, <3>4
  <2>3. CASE d # c /\ ~\E m \in others : msock[m] = d
    BY <1>0, <1>10, <2>3 DEF ConnShape
  <2> QED BY <2>1, <2>2, <2>3
<1>12. conn' \in [Conns -> Connection]
  <2>1. conn' = [d \in Conns |-> conn'[d]]
    BY <1>2
  <2>2. \A d \in Conns : conn'[d] \in Connection
    BY <1>11 DEF Sound
  <2> QED BY <2>1, <2>2
<1> QED BY <1>1, <1>2, <1>8, <1>9, <1>10, <1>11, <1>12 DEF r

\* What is sent changes no id.
LEMMA ToldIds ==
  ASSUME NEW k, NEW s, NEW m
  PROVE  /\ \A n, q \in Node : PeerOf(Posted(k, s, m), n, q) <=> PeerOf(k, n, q)
         /\ \A n \in Node : NodeOf(Posted(k, s, m), n) <=> NodeOf(k, n)
<1> DEFINE r == Posted(k, s, m)
<1>1. r.from = k.from /\ r.to = k.to /\ r.id = k.id
  BY DEF Posted, Got
<1> HIDE DEF r
<1>2. /\ \A n, q \in Node : PeerOf(r, n, q) <=> PeerOf(k, n, q)
      /\ \A n \in Node : NodeOf(r, n) <=> NodeOf(k, n)
  BY <1>1, SameIds
<1> QED BY <1>2 DEF r

\* A node registers.
LEMMA RegisterInv ==
  ASSUME RegistryInv, NEW c \in Conns, OnRegister(c)
  PROVE  RegistryInv'
<1> DEFINE k == conn[c]
           n == k.from
           hears(d) == \E m \in info \ {n} : msock[m] = d
<1>0. /\ ConnShape /\ MasterShape /\ ProxyShape /\ NodeShape /\ SocketInv /\ MasterInv /\ HeardTruth
      /\ "b" \in Sides /\ Next1(c, "b", "register")
  BY DEF RegistryInv, Sides, OnRegister
<1>1. Sound(k) /\ k.box["b"] # <<>> /\ n \in Node /\ k.to = Master
  BY <1>0, NextIs
<1>2. CASE Registers(n)
  <2>1. /\ conn' \in [Conns -> Connection]
        /\ conn'[c] = Registered(k)
        /\ \A d \in Conns \ {c} :
             conn'[d] = IF hears(d) THEN Posted(conn[d], "a", OneNode(conn[d].from, n)) ELSE conn[d]
        /\ \A d \in Conns : Sound(conn'[d])
        /\ info' = info \cup {n} /\ msock' = [msock EXCEPT ![n] = c]
        /\ UNCHANGED <<active, mconn, known, dial, sock, told, faults>>
    BY <1>2, RegisterIs
  <2>2. Registered(k).to = Master /\ Registered(k).id["b"] = n
    BY <1>0, <1>1, RegisteredIs
  <2> HIDE DEF hears
  <2>3. \A d \in Conns \ {c} : /\ \A p, q \in Node : PeerOf(conn'[d], p, q) <=> PeerOf(conn[d], p, q)
                               /\ \A p \in Node : NodeOf(conn'[d], p) <=> NodeOf(conn[d], p)
    <3> SUFFICES ASSUME NEW d \in Conns \ {c}
                 PROVE  /\ \A p, q \in Node : PeerOf(conn'[d], p, q) <=> PeerOf(conn[d], p, q)
                        /\ \A p \in Node : NodeOf(conn'[d], p) <=> NodeOf(conn[d], p)
      OBVIOUS
    <3>1. CASE hears(d)
      <4>1. conn'[d] = Posted(conn[d], "a", OneNode(conn[d].from, n))
        BY <2>1, <3>1
      <4> QED BY <4>1, ToldIds
    <3>2. CASE ~hears(d)
      BY <2>1, <3>2
    <3> QED BY <3>1, <3>2
  <2>4. \A p, q \in Node : ~PeerOf(conn'[c], p, q) /\ ~PeerOf(conn[c], p, q)
    BY <1>1, <2>1, <2>2 DEF PeerOf
  <2>5. \A p \in Node : NodeOf(conn'[c], p) <=> p = n
    BY <2>1, <2>2 DEF NodeOf
  <2>6. msock[n] = 0
    BY <1>0, <1>1, <1>2 DEF Registers, MasterInv
  <2> HIDE DEF k, n
  <2>7. \A p \in Node, d \in Conns : msock'[p] = d <=> NodeOf(conn'[d], p)
    <3> SUFFICES ASSUME NEW p \in Node, NEW d \in Conns PROVE msock'[p] = d <=> NodeOf(conn'[d], p)
      OBVIOUS
    <3>0. (msock[p] = d <=> NodeOf(conn[d], p)) /\ d # 0 /\ msock'[p] = IF p = n THEN c ELSE msock[p]
      BY <1>0, <2>1, RegistryAssumption DEF MasterInv, MasterShape, Conns
    <3>1. CASE d = c /\ p = n
      BY <2>5, <3>0, <3>1
    <3>2. CASE d = c /\ p # n
      <4>1. ~NodeOf(conn[c], p)
        <5>1. NodeOf(conn[c], p) => conn[c].from = p
          BY <1>0, NodeIs DEF ConnShape
        <5> QED BY <3>2, <5>1 DEF n, k
      <4> QED BY <2>5, <3>0, <3>2, <4>1
    <3>3. CASE d # c
      BY <2>3, <2>6, <3>0, <3>3
    <3> QED BY <3>1, <3>2, <3>3
  <2>8. \A p \in Node : msock'[p] # 0 => p \in info'
    BY <1>0, <1>1, <2>1 DEF MasterInv, MasterShape
  <2>9. MasterInv'
    BY <2>7, <2>8 DEF MasterInv
  <2>10. SocketInv'
    BY <1>0, <2>1, <2>3, <2>4 DEF SocketInv
  <2>11. MasterShape' /\ ProxyShape' /\ HeardTruth' /\ ConnShape'
    BY <1>0, <1>1, <2>1 DEF MasterShape, ProxyShape, HeardTruth, ConnShape
  <2>12. NodeShape'
    BY <1>0, <2>1, SameNodes
  <2> QED BY <2>9, <2>10, <2>11, <2>12 DEF RegistryInv
<1>3. CASE ~Registers(n)
  <2> DEFINE r == Closed(Read(k, "b"), "b")
  <2>1. conn' = Put(c, r)
    <3>1. conn' = Shut(Taken(conn, c, "b"), c, "b")
      BY <1>3 DEF OnRegister
    <3> QED BY <1>0, <3>1, OnOne DEF ConnShape
  <2>2. UNCHANGED <<info, msock, active, mconn, known, dial, sock, told, faults>>
    BY <1>3 DEF OnRegister, masterVars, toMaster, proxyVars
  <2>3. Sound(r) /\ r.from = k.from /\ r.to = k.to /\ r.id = k.id
    BY <1>0, <1>1, ReadClosed
  <2>4. NodeShape'
    BY <1>0, <2>2, SameNodes
  <2> HIDE DEF r, k
  <2>5. \A p, q \in Node : PeerOf(r, p, q) <=> PeerOf(k, p, q)
    BY <2>3, SameIds
  <2>6. \A p \in Node : NodeOf(r, p) <=> NodeOf(k, p)
    BY <2>3, SameIds
  <2> QED BY <2>1, <2>2, <2>3, <2>4, <2>5, <2>6, QuietPut DEF k
<1> QED BY <1>2, <1>3

\* What Drop does to each connection.
LEMMA DropIs ==
  ASSUME NEW dead, ConnShape, conn' = Drop(conn, dead)
  PROVE  /\ conn' \in [Conns -> Connection]
         /\ \A d \in Conns : conn'[d] = Dropped(conn[d], {s \in Sides : <<d, s>> \in dead})
         /\ \A d \in Conns : Sound(conn'[d])
<1>1. ASSUME NEW d \in Conns
      PROVE  conn'[d] = Dropped(conn[d], {s \in Sides : <<d, s>> \in dead})
  <2> DEFINE D == {s \in Sides : <<d, s>> \in dead}
             k == conn[d]
             e == [s \in Sides |-> IF <<d, s>> \in dead THEN "down" ELSE k.end[s]]
             f == [s \in Sides |-> IF s \in D THEN "down" ELSE k.end[s]]
  <2>1. e = f
    <3>1. \A s \in Sides : s \in D <=> <<d, s>> \in dead
      OBVIOUS
    <3> HIDE DEF D
    <3> QED BY <3>1
  <2>2. conn'[d] =
          IF \A s \in Sides : e[s] = "down" THEN NoConn
          ELSE [k EXCEPT !.end = e,
                         !.id = [s \in Sides |-> IF e[s] = "down" THEN 0 ELSE @[s]],
                         !.box = [s \in Sides |-> IF e[s] = "down" THEN <<>> ELSE @[s]]]
    BY DEF Drop
  <2>3. Dropped(k, D) =
          IF \A s \in Sides : f[s] = "down" THEN NoConn
          ELSE [k EXCEPT !.end = f,
                         !.id = [s \in Sides |-> IF f[s] = "down" THEN 0 ELSE @[s]],
                         !.box = [s \in Sides |-> IF f[s] = "down" THEN <<>> ELSE @[s]]]
    BY DEF Dropped
  <2> HIDE DEF e, f, D, k
  <2>4. conn'[d] = Dropped(k, D)
    BY <2>1, <2>2, <2>3
  <2> QED BY <2>4 DEF D, k
<1>2. ASSUME NEW d \in Conns PROVE Sound(conn'[d])
  <2> DEFINE D == {s \in Sides : <<d, s>> \in dead}
  <2>1. Sound(conn[d])
    BY DEF ConnShape
  <2>2. conn'[d] = Dropped(conn[d], D)
    BY <1>1
  <2> HIDE DEF D
  <2> QED BY <2>1, <2>2, DroppedSound
<1>3. conn' \in [Conns -> Connection]
  <2>1. conn' = [d \in Conns |-> conn'[d]]
    BY DEF Drop
  <2>2. \A d \in Conns : conn'[d] \in Connection
    BY <1>2 DEF Sound
  <2> QED BY <2>1, <2>2
<1> QED BY <1>1, <1>2, <1>3

\* Whose the connections are then.
LEMMA DropIds ==
  ASSUME NEW dead, ConnShape, conn' = Drop(conn, dead), NEW d \in Conns
  PROVE  /\ \A n, m \in Node : PeerOf(conn'[d], n, m) <=>
              PeerOf(conn[d], n, m) /\ <<d, IF conn[d].from = n THEN "a" ELSE "b">> \notin dead
         /\ \A n \in Node : NodeOf(conn'[d], n) <=> NodeOf(conn[d], n) /\ <<d, "b">> \notin dead
<1> DEFINE D == {s \in Sides : <<d, s>> \in dead}
<1>1. conn'[d] = Dropped(conn[d], D)
  BY DropIs
<1>2. Sound(conn[d])
  BY DEF ConnShape
<1>3. \A s \in Sides : s \in D <=> <<d, s>> \in dead
  OBVIOUS
<1>4. "a" \in Sides /\ "b" \in Sides
  BY DEF Sides
<1> HIDE DEF D
<1>5. /\ \A n, m \in Node : PeerOf(conn'[d], n, m) <=>
              PeerOf(conn[d], n, m) /\ (IF conn[d].from = n THEN "a" ELSE "b") \notin D
      /\ \A n \in Node : NodeOf(conn'[d], n) <=> NodeOf(conn[d], n) /\ "b" \notin D
  BY <1>1, <1>2, DroppedIds
<1>6. \A n : (IF conn[d].from = n THEN "a" ELSE "b") \in D
               <=> <<d, IF conn[d].from = n THEN "a" ELSE "b">> \in dead
  BY <1>3, <1>4
<1> QED BY <1>3, <1>4, <1>5, <1>6

\* The end of an entry is the owner's, and has the id it is kept under.
LEMMA OwnerIs ==
  ASSUME ConnShape, NEW c \in Conns, conn[c].to # Master
  PROVE  /\ \A n, m \in Node : PeerOf(conn[c], n, m) =>
              \A s \in Sides : s = (IF conn[c].from = n THEN "a" ELSE "b")
                               <=> (Owner(c, s) = n /\ conn[c].id[s] = m)
         /\ \A s \in Sides : conn[c].id[s] # 0 =>
              /\ Owner(c, s) \in Node /\ conn[c].id[s] \in Node
              /\ PeerOf(conn[c], Owner(c, s), conn[c].id[s])
              /\ s = IF conn[c].from = Owner(c, s) THEN "a" ELSE "b"
<1> DEFINE k == conn[c]
<1>1. Sound(k) /\ \A s : Owner(c, s) = IF s = "a" THEN k.from ELSE k.to
  BY DEF ConnShape, Owner
<1>2. Sides = {"a", "b"} /\ "a" # "b"
  BY DEF Sides
<1>3. ASSUME NEW n \in Node, NEW m \in Node, PeerOf(k, n, m), NEW s \in Sides
      PROVE  s = (IF k.from = n THEN "a" ELSE "b") <=> (Owner(c, s) = n /\ k.id[s] = m)
  <2>1. n # m /\ \/ k.from = n /\ k.to = m /\ k.id["a"] = m
                 \/ k.from = m /\ k.to = n /\ k.id["b"] = m
    BY <1>1, <1>3, PeerIs
  <2> QED BY <1>1, <1>2, <2>1
<1>4. ASSUME NEW s \in Sides, k.id[s] # 0
      PROVE  /\ Owner(c, s) \in Node /\ k.id[s] \in Node
             /\ PeerOf(k, Owner(c, s), k.id[s])
             /\ s = IF k.from = Owner(c, s) THEN "a" ELSE "b"
  <2>1. IsUp(k, s) /\ k.id[s] = Peer(k, s)
    BY <1>1, <1>4 DEF Sound
  <2>2. ~Absent(k)
    BY <1>2, <2>1 DEF IsUp, Absent
  <2>3. k.from \in Node /\ k.to \in Node /\ k.from # k.to
    BY <1>1, <2>2, RegistryAssumption DEF Sound, Connection, Node, Master
  <2> QED BY <1>1, <1>2, <2>1, <2>3 DEF Peer, PeerOf
<1> QED BY <1>3, <1>4

\* The end of a connection between nodes clears its own entry.
LEMMA LosesPeerInv ==
  ASSUME RegistryInv, NEW c \in Conns, NEW s \in Sides, conn[c].to # Master,
         conn' = Drop(conn, {<<c, s>>}), LosesPeer(c, s), UNCHANGED faults
  PROVE  RegistryInv'
<1> DEFINE n == Owner(c, s)
           m == conn[c].id[s]
<1>0. ConnShape /\ MasterShape /\ ProxyShape /\ NodeShape /\ SocketInv /\ MasterInv /\ HeardTruth
  BY DEF RegistryInv
<1>1. ConnShape'
  BY <1>0, DropIs DEF ConnShape
<1>2. UNCHANGED <<info, msock, active, mconn, known, dial, faults>>
  BY DEF LosesPeer, masterVars, toMaster
<1>3. NodeShape' /\ MasterShape'
  BY <1>0, <1>2, SameNodes DEF MasterShape
<1>4. \A d \in Conns, p, q \in Node : PeerOf(conn'[d], p, q) <=>
        PeerOf(conn[d], p, q) /\ ~(d = c /\ p = n /\ q = m)
  <2> SUFFICES ASSUME NEW d \in Conns, NEW p \in Node, NEW q \in Node
               PROVE  PeerOf(conn'[d], p, q) <=> PeerOf(conn[d], p, q) /\ ~(d = c /\ p = n /\ q = m)
    OBVIOUS
  <2>1. PeerOf(conn'[d], p, q) <=>
          PeerOf(conn[d], p, q) /\ <<d, IF conn[d].from = p THEN "a" ELSE "b">> \notin {<<c, s>>}
    BY <1>0, DropIds
  <2>2. <<d, IF conn[d].from = p THEN "a" ELSE "b">> \in {<<c, s>>}
          <=> d = c /\ s = IF conn[d].from = p THEN "a" ELSE "b"
    OBVIOUS
  <2>3. (d = c /\ PeerOf(conn[d], p, q)) => (s = (IF conn[c].from = p THEN "a" ELSE "b") <=> p = n /\ q = m)
    BY <1>0, OwnerIs
  <2> QED BY <2>1, <2>2, <2>3
<1>5. \A d \in Conns, p \in Node : NodeOf(conn'[d], p) <=> NodeOf(conn[d], p)
  <2> SUFFICES ASSUME NEW d \in Conns, NEW p \in Node
               PROVE  NodeOf(conn'[d], p) <=> NodeOf(conn[d], p)
    OBVIOUS
  <2>1. NodeOf(conn'[d], p) <=> NodeOf(conn[d], p) /\ <<d, "b">> \notin {<<c, s>>}
    BY <1>0, DropIds
  <2> QED BY <2>1 DEF NodeOf
<1>6. MasterInv'
  BY <1>0, <1>2, <1>5 DEF MasterInv
<1>7. CASE m = 0
  <2>1. UNCHANGED <<sock, told>>
    BY <1>7 DEF LosesPeer
  <2>2. 0 \notin Node
    BY RegistryAssumption DEF Node
  <2>3. SocketInv'
    BY <1>0, <1>4, <1>7, <2>1, <2>2 DEF SocketInv
  <2>4. ProxyShape' /\ HeardTruth'
    BY <1>0, <2>1 DEF ProxyShape, HeardTruth
  <2> QED BY <1>1, <1>3, <1>6, <2>3, <2>4 DEF RegistryInv
<1>8. CASE m # 0
  <2>1. n \in Node /\ m \in Node /\ PeerOf(conn[c], n, m)
    BY <1>0, <1>8, OwnerIs
  <2>2. sock' = Written(sock, n, m, 0) /\ told' = Written(told, n, m, told[n][m] - 1)
    BY <1>8 DEF LosesPeer, Written
  <2> HIDE DEF n, m
  <2>3. sock[n][m] = c /\ c # 0
    BY <1>0, <2>1, RegistryAssumption DEF SocketInv, Conns
  <2>4. told[n][m] = 1
    BY <1>0, <2>1, <2>3 DEF HeardTruth
  <2>5. told' = Written(told, n, m, 0)
    BY <2>2, <2>4
  <2>6. \A p, q \in Node : sock'[p][q] = IF p = n /\ q = m THEN 0 ELSE sock[p][q]
    BY <1>0, <2>2 DEF ProxyShape, Written
  <2>7. \A p, q \in Node : told'[p][q] = IF p = n /\ q = m THEN 0 ELSE told[p][q]
    BY <1>0, <2>5 DEF ProxyShape, Written
  <2>8. HeardTruth'
    BY <1>0, <2>6, <2>7 DEF HeardTruth
  <2>9. sock' \in [Node -> [Node -> Conns \cup {0}]]
    BY <1>0, <2>2 DEF ProxyShape, Written
  <2>10. told' \in [Node -> [Node -> {0, 1}]]
    BY <1>0, <2>5 DEF ProxyShape, Written
  <2>11. SocketInv'
    <3> SUFFICES ASSUME NEW p \in Node, NEW q \in Node, NEW d \in Conns
                 PROVE  sock'[p][q] = d <=> PeerOf(conn'[d], p, q)
      BY DEF SocketInv
    <3>1. (sock[p][q] = d <=> PeerOf(conn[d], p, q)) /\ d # 0
      BY <1>0, RegistryAssumption DEF SocketInv, Conns
    <3>2. CASE p = n /\ q = m
      BY <1>4, <2>3, <2>6, <3>1, <3>2
    <3>3. CASE ~(p = n /\ q = m)
      BY <1>4, <2>6, <3>1, <3>3
    <3> QED BY <3>2, <3>3
  <2> QED BY <1>1, <1>3, <1>6, <2>8, <2>9, <2>10, <2>11 DEF RegistryInv, ProxyShape
<1> QED BY <1>7, <1>8

\* An end ends.
LEMMA DisconnectInv ==
  ASSUME RegistryInv, NEW c \in Conns, NEW s \in Sides, Disconnect(c, s)
  PROVE  RegistryInv'
<1>0. ConnShape /\ MasterShape /\ ProxyShape /\ NodeShape /\ SocketInv /\ MasterInv /\ HeardTruth
  BY DEF RegistryInv
<1>1. conn' = Drop(conn, {<<c, s>>}) /\ UNCHANGED faults
  BY DEF Disconnect
<1>2. ConnShape' /\ Sound(conn[c]) /\ IsUp(conn[c], s)
  BY <1>0, <1>1, DropIs DEF ConnShape, Disconnect, Live, IsUp
<1>3. CASE conn[c].to # Master
  <2>1. LosesPeer(c, s)
    BY <1>3 DEF Disconnect
  <2> QED BY <1>1, <1>3, <2>1, LosesPeerInv
<1>4. CASE conn[c].to = Master
  <2>1. \A d \in Conns : \A p, q \in Node : PeerOf(conn'[d], p, q) <=> PeerOf(conn[d], p, q)
    <3> SUFFICES ASSUME NEW d \in Conns, NEW p \in Node, NEW q \in Node
                 PROVE  PeerOf(conn'[d], p, q) <=> PeerOf(conn[d], p, q)
      OBVIOUS
    <3>1. PeerOf(conn'[d], p, q) <=>
            PeerOf(conn[d], p, q) /\ <<d, IF conn[d].from = p THEN "a" ELSE "b">> \notin {<<c, s>>}
      BY <1>0, <1>1, DropIds
    <3>2. d = c => ~PeerOf(conn[d], p, q)
      BY <1>4 DEF PeerOf
    <3> QED BY <3>1, <3>2
  <2>2. \A d \in Conns : \A p \in Node :
          NodeOf(conn'[d], p) <=> NodeOf(conn[d], p) /\ ~(d = c /\ s = "b")
    <3> SUFFICES ASSUME NEW d \in Conns, NEW p \in Node
                 PROVE  NodeOf(conn'[d], p) <=> NodeOf(conn[d], p) /\ ~(d = c /\ s = "b")
      OBVIOUS
    <3>1. NodeOf(conn'[d], p) <=> NodeOf(conn[d], p) /\ <<d, "b">> \notin {<<c, s>>}
      BY <1>0, <1>1, DropIds
    <3> QED BY <3>1
  <2>3. CASE s = "a"
    <3>1. LosesMaster(c)
      BY <1>4, <2>3 DEF Disconnect
    <3>2. UNCHANGED <<info, msock, known, dial, sock, told, faults>>
      BY <1>1, <3>1 DEF LosesMaster, masterVars, proxyVars
    <3>3. active' \in [Node -> BOOLEAN] /\ mconn' \in [Node -> Conns \cup {0}]
      BY <1>0, <3>1 DEF LosesMaster, toMaster, NodeShape
    <3>4. NodeShape'
      BY <1>0, <3>2, <3>3 DEF NodeShape
    <3>5. \A d \in Conns : \A p \in Node : NodeOf(conn'[d], p) <=> NodeOf(conn[d], p)
      BY <2>2, <2>3
    <3> QED BY <1>2, <2>1, <3>2, <3>4, <3>5, Quiet
  <2>4. CASE s = "b"
    <3>1. LosesNode(c)
      BY <1>4, <2>4 DEF Disconnect
    <3>2. UNCHANGED <<info, active, mconn, known, dial, sock, told, faults>>
      BY <1>1, <3>1 DEF LosesNode, toMaster, proxyVars
    <3>3. NodeShape' /\ ProxyShape' /\ HeardTruth'
      BY <1>0, <3>2, SameNodes DEF ProxyShape, HeardTruth
    <3>4. SocketInv'
      BY <1>0, <2>1, <3>2 DEF SocketInv
    <3>5. CASE conn[c].id["b"] = 0
      <4>1. UNCHANGED msock
        BY <3>1, <3>5 DEF LosesNode
      <4>2. \A p \in Node : ~NodeOf(conn[c], p)
        BY <3>5, RegistryAssumption DEF NodeOf, Node
      <4>3. \A d \in Conns : \A p \in Node : NodeOf(conn'[d], p) <=> NodeOf(conn[d], p)
        BY <2>2, <4>2
      <4> QED BY <1>2, <2>1, <3>2, <3>3, <4>1, <4>3, Quiet
    <3>6. CASE conn[c].id["b"] # 0
      <4> DEFINE m == conn[c].id["b"]
      <4>1. msock' = [msock EXCEPT ![m] = 0]
        BY <3>1, <3>6 DEF LosesNode
      <4>2. m \in Node /\ NodeOf(conn[c], m) /\ m = conn[c].from
        <5>1. m = Peer(conn[c], "b")
          BY <1>2, <2>4, <3>6 DEF Sound
        <5>2. ~Absent(conn[c])
          BY <1>2, <2>4 DEF IsUp, Absent
        <5> QED BY <1>2, <1>4, <5>1, <5>2 DEF Sound, Peer, NodeOf
      <4> HIDE DEF m
      <4>3. \A p \in Node : msock'[p] = IF p = m THEN 0 ELSE msock[p]
        BY <1>0, <4>1 DEF MasterShape
      <4>4. MasterShape'
        BY <1>0, <3>2, <4>1 DEF MasterShape
      <4>5. \A p \in Node, d \in Conns : msock'[p] = d <=> NodeOf(conn'[d], p)
        <5> SUFFICES ASSUME NEW p \in Node, NEW d \in Conns
                     PROVE  msock'[p] = d <=> NodeOf(conn'[d], p)
          OBVIOUS
        <5>1. (msock[p] = d <=> NodeOf(conn[d], p)) /\ d # 0 /\ msock[m] = c
          BY <1>0, <4>2, RegistryAssumption DEF MasterInv, Conns
        <5>2. NodeOf(conn[c], p) => p = m
          BY <1>2, <4>2, NodeIs
        <5> QED BY <2>2, <2>4, <4>3, <5>1, <5>2
      <4>6. \A p \in Node : msock'[p] # 0 => p \in info'
        BY <1>0, <3>2, <4>3 DEF MasterInv
      <4> QED BY <1>2, <3>3, <3>4, <4>4, <4>5, <4>6 DEF RegistryInv, MasterInv
    <3> QED BY <3>5, <3>6
  <2> QED BY <2>3, <2>4 DEF Sides
<1> QED BY <1>3, <1>4

\* Whose the ends of a process are.
LEMMA OwnEndsIs ==
  ASSUME ConnShape, NEW p, NEW d \in Conns
  PROVE  /\ \A n, m \in Node : PeerOf(conn[d], n, m) =>
              (<<d, IF conn[d].from = n THEN "a" ELSE "b">> \in OwnEnds(p) <=> n = p)
         /\ \A n \in Node : NodeOf(conn[d], n) => (<<d, "b">> \in OwnEnds(p) <=> p = Master)
<1> DEFINE k == conn[d]
<1>0. Sound(k) /\ (Free(d) <=> Absent(k)) /\ \A s : Owner(d, s) = IF s = "a" THEN k.from ELSE k.to
  BY DEF ConnShape, Free, Absent, Owner
<1>1. "a" \in Sides /\ "b" \in Sides /\ "a" # "b"
  BY DEF Sides
<1>2. \A s \in Sides : <<d, s>> \in OwnEnds(p) <=> ~Free(d) /\ Owner(d, s) = p
  BY DEF OwnEnds
<1>3. ASSUME NEW n \in Node, NEW m \in Node, PeerOf(k, n, m)
      PROVE  <<d, IF k.from = n THEN "a" ELSE "b">> \in OwnEnds(p) <=> n = p
  <2>1. n # m /\ \/ k.from = n /\ k.to = m /\ IsUp(k, "a")
                 \/ k.from = m /\ k.to = n /\ IsUp(k, "b")
    BY <1>0, <1>3, PeerIs
  <2>2. ~Free(d)
    BY <1>0, <2>1 DEF Absent, IsUp
  <2> QED BY <1>0, <1>1, <1>2, <2>1, <2>2
<1>4. ASSUME NEW n \in Node, NodeOf(k, n)
      PROVE  <<d, "b">> \in OwnEnds(p) <=> p = Master
  <2>1. k.to = Master /\ IsUp(k, "b")
    BY <1>0, <1>4, NodeIs
  <2>2. ~Free(d)
    BY <1>0, <2>1 DEF Absent, IsUp
  <2> QED BY <1>0, <1>1, <1>2, <2>1, <2>2
<1> QED BY <1>3, <1>4

\* A node is killed.
LEMMA CrashNodeInv ==
  ASSUME RegistryInv, NEW n \in Node, CrashNode(n)
  PROVE  RegistryInv'
<1>0. ConnShape /\ MasterShape /\ ProxyShape /\ NodeShape /\ SocketInv /\ MasterInv /\ HeardTruth
  BY DEF RegistryInv
<1>1. /\ conn' = Drop(conn, OwnEnds(n))
      /\ active' = [active EXCEPT ![n] = FALSE] /\ mconn' = [mconn EXCEPT ![n] = 0]
      /\ known' = [known EXCEPT ![n] = {}] /\ dial' = [dial EXCEPT ![n] = {}]
      /\ sock' = [sock EXCEPT ![n] = [m \in Node |-> 0]]
      /\ told' = [told EXCEPT ![n] = [m \in Node |-> 0]]
      /\ info' = info /\ msock' = msock
  BY DEF CrashNode, masterVars
<1>2. ConnShape'
  BY <1>0, <1>1, DropIs DEF ConnShape
<1>3. faults' \in 0 .. MaxFaults
  BY <1>0, RegistryAssumption DEF CrashNode, NodeShape
<1>4. NodeShape'
  <2>1. /\ active' \in [Node -> BOOLEAN] /\ mconn' \in [Node -> Conns \cup {0}]
        /\ known' \in [Node -> SUBSET Node] /\ dial' \in [Node -> SUBSET Node]
    BY <1>0, <1>1 DEF NodeShape
  <2>2. \A p \in Node : /\ known'[p] = IF p = n THEN {} ELSE known[p]
                        /\ dial'[p] = IF p = n THEN {} ELSE dial[p]
    BY <1>0, <1>1 DEF NodeShape
  <2>3. \A p \in Node : p \notin known'[p] /\ dial'[p] \subseteq known'[p]
    <3> SUFFICES ASSUME NEW p \in Node PROVE p \notin known'[p] /\ dial'[p] \subseteq known'[p]
      OBVIOUS
    <3>1. p \notin known[p] /\ dial[p] \subseteq known[p]
      BY <1>0 DEF NodeShape
    <3> QED BY <2>2, <3>1
  <2> QED BY <1>3, <2>1, <2>3 DEF NodeShape
<1>5. ProxyShape'
  BY <1>0, <1>1 DEF ProxyShape
<1>6. \A p, q \in Node : /\ sock'[p][q] = IF p = n THEN 0 ELSE sock[p][q]
                         /\ told'[p][q] = IF p = n THEN 0 ELSE told[p][q]
  BY <1>0, <1>1 DEF ProxyShape
<1>7. HeardTruth'
  BY <1>0, <1>6 DEF HeardTruth
<1>8. SocketInv'
  <2> SUFFICES ASSUME NEW p \in Node, NEW q \in Node, NEW d \in Conns
               PROVE  sock'[p][q] = d <=> PeerOf(conn'[d], p, q)
    BY DEF SocketInv
  <2>1. (sock[p][q] = d <=> PeerOf(conn[d], p, q)) /\ d # 0
    BY <1>0, RegistryAssumption DEF SocketInv, Conns
  <2>2. PeerOf(conn'[d], p, q) <=>
          PeerOf(conn[d], p, q) /\ <<d, IF conn[d].from = p THEN "a" ELSE "b">> \notin OwnEnds(n)
    BY <1>0, <1>1, DropIds
  <2>3. PeerOf(conn[d], p, q) =>
          (<<d, IF conn[d].from = p THEN "a" ELSE "b">> \in OwnEnds(n) <=> p = n)
    BY <1>0, OwnEndsIs
  <2> QED BY <1>6, <2>1, <2>2, <2>3
<1>9. MasterInv' /\ MasterShape'
  <2>1. \A p \in Node, d \in Conns : NodeOf(conn'[d], p) <=> NodeOf(conn[d], p)
    <3> SUFFICES ASSUME NEW p \in Node, NEW d \in Conns
                 PROVE  NodeOf(conn'[d], p) <=> NodeOf(conn[d], p)
      OBVIOUS
    <3>1. NodeOf(conn'[d], p) <=> NodeOf(conn[d], p) /\ <<d, "b">> \notin OwnEnds(n)
      BY <1>0, <1>1, DropIds
    <3>2. NodeOf(conn[d], p) => (<<d, "b">> \in OwnEnds(n) <=> n = Master)
      BY <1>0, OwnEndsIs
    <3>3. n # Master
      BY RegistryAssumption DEF Node, Master
    <3> QED BY <3>1, <3>2, <3>3
  <2> QED BY <1>0, <1>1, <2>1 DEF MasterInv, MasterShape
<1> QED BY <1>2, <1>4, <1>5, <1>7, <1>8, <1>9 DEF RegistryInv

\* The master is killed.
LEMMA CrashMasterInv ==
  ASSUME RegistryInv, CrashMaster
  PROVE  RegistryInv'
<1>0. ConnShape /\ MasterShape /\ ProxyShape /\ NodeShape /\ SocketInv /\ MasterInv /\ HeardTruth
  BY DEF RegistryInv
<1>1. /\ conn' = Drop(conn, OwnEnds(Master)) /\ info' = {} /\ msock' = [n \in Node |-> 0]
      /\ UNCHANGED <<active, mconn, known, dial, sock, told>>
  BY DEF CrashMaster, toMaster, proxyVars
<1>2. ConnShape'
  BY <1>0, <1>1, DropIs DEF ConnShape
<1>3. faults' \in 0 .. MaxFaults
  BY <1>0, RegistryAssumption DEF CrashMaster, NodeShape
<1>4. NodeShape' /\ ProxyShape' /\ HeardTruth'
  BY <1>0, <1>1, <1>3 DEF NodeShape, ProxyShape, HeardTruth
<1>5. SocketInv'
  <2> SUFFICES ASSUME NEW p \in Node, NEW q \in Node, NEW d \in Conns
               PROVE  sock'[p][q] = d <=> PeerOf(conn'[d], p, q)
    BY DEF SocketInv
  <2>1. sock[p][q] = d <=> PeerOf(conn[d], p, q)
    BY <1>0 DEF SocketInv
  <2>2. PeerOf(conn'[d], p, q) <=>
          PeerOf(conn[d], p, q) /\ <<d, IF conn[d].from = p THEN "a" ELSE "b">> \notin OwnEnds(Master)
    BY <1>0, <1>1, DropIds
  <2>3. PeerOf(conn[d], p, q) =>
          (<<d, IF conn[d].from = p THEN "a" ELSE "b">> \in OwnEnds(Master) <=> p = Master)
    BY <1>0, OwnEndsIs
  <2>4. p # Master
    BY RegistryAssumption DEF Node, Master
  <2> QED BY <1>1, <2>1, <2>2, <2>3, <2>4
<1>6. MasterInv' /\ MasterShape'
  <2>1. \A p \in Node, d \in Conns : ~NodeOf(conn'[d], p)
    <3> SUFFICES ASSUME NEW p \in Node, NEW d \in Conns PROVE ~NodeOf(conn'[d], p)
      OBVIOUS
    <3>1. NodeOf(conn'[d], p) <=> NodeOf(conn[d], p) /\ <<d, "b">> \notin OwnEnds(Master)
      BY <1>0, <1>1, DropIds
    <3>2. NodeOf(conn[d], p) => (<<d, "b">> \in OwnEnds(Master) <=> Master = Master)
      BY <1>0, OwnEndsIs
    <3> QED BY <3>1, <3>2
  <2>2. \A d \in Conns : d # 0
    BY RegistryAssumption DEF Conns
  <2> QED BY <1>0, <1>1, <2>1, <2>2 DEF MasterInv, MasterShape
<1> QED BY <1>2, <1>4, <1>5, <1>6 DEF RegistryInv

\* Nothing is there at first.
LEMMA InitInv == Init => RegistryInv
<1> SUFFICES ASSUME Init PROVE RegistryInv
  OBVIOUS
<1>1. \A c \in Conns : conn[c] = NoConn
  BY DEF Init
<1>2. ConnShape
  BY NoConnSound DEF Init, ConnShape, Sound
<1>3. MasterShape /\ ProxyShape
  BY DEF Init, MasterShape, ProxyShape
<1>4. NodeShape
  <2>1. 0 \in 0 .. MaxFaults
    BY RegistryAssumption
  <2> QED BY <2>1 DEF Init, NodeShape
<1>5. \A c \in Conns : c # 0
  BY RegistryAssumption DEF Conns
<1>6. SocketInv /\ MasterInv /\ HeardTruth
  <2>1. /\ \A n, m \in Node : ~PeerOf(NoConn, n, m)
        /\ \A n \in Node : ~NodeOf(NoConn, n)
    BY NoConnSound, NoIds
  <2> QED BY <1>1, <1>5, <2>1 DEF Init, SocketInv, MasterInv, HeardTruth
<1> QED BY <1>2, <1>3, <1>4, <1>6 DEF RegistryInv

\* Every step keeps it.
LEMMA RegistryStep == RegistryInv /\ [Next]_vars => RegistryInv'
<1> SUFFICES ASSUME RegistryInv, [Next]_vars PROVE RegistryInv'
  OBVIOUS
<1>1. ASSUME NEW n \in Node, CheckConnectMaster(n) PROVE RegistryInv'
  BY <1>1, ConnectInv
<1>2. ASSUME NEW n \in Node, NEW m \in Node, CheckConnectNode(n, m) PROVE RegistryInv'
  BY <1>2, ConnectInv
<1>3. ASSUME NEW c \in Conns, Connected(c) PROVE RegistryInv'
  BY <1>3, ConnectedInv
<1>4. ASSUME NEW c \in Conns, Refused(c) PROVE RegistryInv'
  BY <1>4, RefusedInv
<1>5. ASSUME NEW c \in Conns, DispatchA(c) PROVE RegistryInv'
  BY <1>5, SyncMasterInv, SyncAllInv, SyncNodeInv, HandshakeInv DEF DispatchA
<1>6. ASSUME NEW c \in Conns, DispatchB(c) PROVE RegistryInv'
  BY <1>6, RegisterInv, HandshakeInv DEF DispatchB
<1>7. ASSUME NEW c \in Conns, NEW s \in Sides, Disconnect(c, s) PROVE RegistryInv'
  BY <1>7, DisconnectInv
<1>8. ASSUME NEW c \in Conns, Cut(c) PROVE RegistryInv'
  BY <1>8, CutInv
<1>9. ASSUME NEW n \in Node, CrashNode(n) PROVE RegistryInv'
  BY <1>9, CrashNodeInv
<1>10. CASE CrashMaster
  BY <1>10, CrashMasterInv
<1>11. CASE UNCHANGED vars
  <2>1. UNCHANGED <<conn, info, msock, active, mconn, known, dial, sock, told, faults>>
    BY <1>11 DEF vars, masterVars, toMaster, proxyVars
  <2>2. ConnShape' /\ NodeShape'
    BY <2>1 DEF RegistryInv, ConnShape, NodeShape
  <2> QED BY <2>1, <2>2, Quiet
<1> QED
  BY <1>1, <1>2, <1>3, <1>4, <1>5, <1>6, <1>7, <1>8, <1>9, <1>10, <1>11 DEF Next

\* It says what is written down about connections is what there is.
LEMMA RegistryInvExact == RegistryInv => RegistryExact
<1> SUFFICES ASSUME RegistryInv PROVE RegistryExact
  OBVIOUS
<1>0. ConnShape /\ MasterShape /\ ProxyShape /\ NodeShape /\ SocketInv /\ MasterInv /\ HeardTruth
  BY DEF RegistryInv
<1>1. TypeOK
  <2>1. \A c \in Conns :
          /\ conn[c].from \in Node \cup {0} /\ conn[c].to \in Node \cup {0}
          /\ conn[c].cut \in BOOLEAN
          /\ \A s \in Sides : conn[c].end[s] \in Ends /\ conn[c].id[s] \in 0 .. N
    <3> SUFFICES ASSUME NEW c \in Conns
                 PROVE  /\ conn[c].from \in Node \cup {0} /\ conn[c].to \in Node \cup {0}
                        /\ conn[c].cut \in BOOLEAN
                        /\ \A s \in Sides : conn[c].end[s] \in Ends /\ conn[c].id[s] \in 0 .. N
      OBVIOUS
    <3>1. conn[c] \in Connection
      BY <1>0 DEF ConnShape
    <3> QED BY <3>1, RegistryAssumption DEF Connection, Node
  <2>2. \A n \in Node : known[n] \subseteq Node \ {n} /\ dial[n] \subseteq known[n]
    BY <1>0 DEF NodeShape
  <2> QED BY <1>0, <2>1, <2>2 DEF TypeOK, MasterShape, ProxyShape, NodeShape
<1>2. SocketExact
  <2> SUFFICES ASSUME NEW n \in Node, NEW m \in Node, NEW c \in Conns
               PROVE  sock[n][m] = c <=> \E s \in Sides : /\ Live(c, s) /\ Owner(c, s) = n
                                             /\ conn[c].to # Master /\ conn[c].id[s] = m
    BY DEF SocketExact
  <2>1. sock[n][m] = c <=> PeerOf(conn[c], n, m)
    BY <1>0 DEF SocketInv
  <2>2. Sound(conn[c]) /\ Sides = {"a", "b"} /\ "a" # "b"
    BY <1>0 DEF ConnShape, Sides
  <2>3. PeerOf(conn[c], n, m) =>
          /\ conn[c].to # Master
          /\ \/ conn[c].from = n /\ conn[c].id["a"] = m /\ IsUp(conn[c], "a")
             \/ conn[c].to = n /\ conn[c].id["b"] = m /\ IsUp(conn[c], "b")
    BY <2>2, PeerIs
  <2> QED BY <2>1, <2>2, <2>3 DEF PeerOf, IsUp, Live, Owner
<1>3. MasterExact
  <2> SUFFICES ASSUME NEW n \in Node, NEW c \in Conns
               PROVE  msock[n] = c <=> conn[c].to = Master /\ Live(c, "b") /\ conn[c].id["b"] = n
    BY DEF MasterExact
  <2>1. msock[n] = c <=> NodeOf(conn[c], n)
    BY <1>0 DEF MasterInv
  <2>2. NodeOf(conn[c], n) => IsUp(conn[c], "b")
    BY <1>0, NodeIs DEF ConnShape
  <2> QED BY <2>1, <2>2 DEF NodeOf, IsUp, Live
<1> QED BY <1>0, <1>1, <1>2, <1>3 DEF RegistryExact

\* What a node and the master have written down about connections is what there
\* is, through crashes and cuts, for any number of nodes: setOtherNodeSocketIDByNodeID,
\* addNode, disconnectNode and delNodeProxyInfo never clear, keep or overwrite an
\* entry that is another connection's.
THEOREM LedgerExact == Spec => []RegistryExact
<1>1. Init => RegistryInv
  BY InitInv
<1>2. RegistryInv /\ [Next]_vars => RegistryInv'
  BY RegistryStep
<1>3. RegistryInv => RegistryExact
  BY RegistryInvExact
<1> QED BY <1>1, <1>2, <1>3, PTL DEF Spec

-----------------------------------------------------------------------------
(* The conversation with the master.                                       *)

\* A handler that sends nothing to a registered node and lets no one know more.
LEMMA LinkQuiet ==
  ASSUME LinkInv, UNCHANGED <<info, known, dial>>,
         \A d \in Conns : Phase(conn'[d]),
         \A n \in Node, d \in Conns :
           MasterOf(conn'[d], n) => MasterOf(conn[d], n) /\ (active[n] => active'[n]),
         \A n \in Node, d \in Conns :
           (NodeOf(conn'[d], n) /\ conn'[d].end["a"] = "up") =>
             NodeOf(conn[d], n) /\ conn[d].end["a"] = "up" /\ conn'[d].box["a"] = conn[d].box["a"]
  PROVE  LinkInv'
<1>1. ActiveInv'
  BY DEF LinkInv, ActiveInv
<1>2. LearnInv'
  BY DEF LinkInv, LearnInv
<1>3. DialInv'
  BY DEF LinkInv, DialInv
<1> QED BY <1>1, <1>2, <1>3 DEF LinkInv

\* Likewise, when it is the handler of one connection.
LEMMA LinkPut ==
  ASSUME ConnShape, LinkInv, UNCHANGED <<info, known, dial>>,
         NEW c \in Conns, NEW r, conn' = Put(c, r), Phase(r),
         \A n \in Node : active[n] => active'[n],
         \A n \in Node : MasterOf(r, n) => MasterOf(conn[c], n),
         \A n \in Node :
           (NodeOf(r, n) /\ r.end["a"] = "up") =>
             NodeOf(conn[c], n) /\ conn[c].end["a"] = "up" /\ r.box["a"] = conn[c].box["a"]
  PROVE  LinkInv'
<1>1. conn'[c] = r /\ \A d \in Conns \ {c} : conn'[d] = conn[d]
  BY DEF Put, ConnShape
<1>2. \A d \in Conns : Phase(conn'[d])
  BY <1>1 DEF LinkInv
<1>3. \A n \in Node, d \in Conns :
        MasterOf(conn'[d], n) => MasterOf(conn[d], n) /\ (active[n] => active'[n])
  BY <1>1
<1>4. \A n \in Node, d \in Conns :
        (NodeOf(conn'[d], n) /\ conn'[d].end["a"] = "up") =>
          NodeOf(conn[d], n) /\ conn[d].end["a"] = "up" /\ conn'[d].box["a"] = conn[d].box["a"]
  BY <1>1
<1> QED BY <1>2, <1>3, <1>4, LinkQuiet

\* There is no conversation while the end of the node is not there.
LEMMA NoPhase ==
  ASSUME NEW k, k.to # Master \/ k.end["a"] # "up"
  PROVE  Phase(k)
BY DEF Phase

\* onCheckConnectMaster and the ticker of a node proxy.
LEMMA ConnectLink ==
  ASSUME RegistryInv, LinkInv, NEW n \in Node, NEW m \in Node,
         CheckConnectMaster(n) \/ CheckConnectNode(n, m)
  PROVE  LinkInv'
<1>0. ConnShape /\ NodeShape /\ 0 \notin Node /\ 0 \in 0 .. N /\ \A q \in Node : q \in 0 .. N
  BY RegistryAssumption DEF RegistryInv, Node
<1>1. CASE CheckConnectMaster(n)
  <2>1. PICK c \in Conns : Free(c) /\ conn' = Put(c, Fresh(n, Master))
    BY <1>1, DialledIs DEF CheckConnectMaster, Put
  <2> DEFINE r == Fresh(n, Master)
  <2>2. /\ r.from = n /\ r.to = Master /\ r.end["a"] = "trying"
        /\ \A s \in Sides : r.id[s] = 0
    BY <1>0, FreshSound DEF Master
  <2> HIDE DEF r
  <2>3. conn'[c] = r /\ \A d \in Conns \ {c} : conn'[d] = conn[d]
    BY <1>0, <2>1 DEF Put, ConnShape, r
  <2>4. ~active[n] /\ \A p \in Node : active'[p] = (IF p = n THEN TRUE ELSE active[p])
    BY <1>0, <1>1 DEF CheckConnectMaster, Idle, NodeShape
  <2>5. UNCHANGED <<info, known, dial>>
    BY <1>1 DEF CheckConnectMaster, masterVars, proxyVars
  <2>6. ActiveInv'
    <3>1. \A p \in Node : MasterOf(r, p) => p = n
      BY <2>2 DEF MasterOf
    <3>2. \A d \in Conns : ~MasterOf(conn[d], n)
      BY <2>4 DEF LinkInv, ActiveInv
    <3>3. \A p \in Node, d \in Conns : MasterOf(conn'[d], p) =>
            (d = c /\ p = n) \/ (d # c /\ p # n /\ MasterOf(conn[d], p))
      BY <2>3, <3>1, <3>2
    <3>4. \A p \in Node, d \in Conns : MasterOf(conn'[d], p) => active'[p]
      BY <2>4, <3>3 DEF LinkInv, ActiveInv
    <3>5. \A p \in Node, d, e \in Conns : MasterOf(conn'[d], p) /\ MasterOf(conn'[e], p) => d = e
      BY <3>3 DEF LinkInv, ActiveInv
    <3> QED BY <3>4, <3>5 DEF ActiveInv
  <2>7. \A d \in Conns : Phase(conn'[d])
    BY <2>2, <2>3, NoPhase DEF LinkInv
  <2>8. LearnInv'
    <3>1. \A p \in Node : ~NodeOf(r, p)
      BY <2>2, NoIds
    <3> QED BY <2>3, <2>5, <3>1 DEF LinkInv, LearnInv
  <2>9. DialInv'
    BY <2>5 DEF LinkInv, DialInv
  <2> QED BY <2>6, <2>7, <2>8, <2>9 DEF LinkInv
<1>2. CASE CheckConnectNode(n, m)
  <2>1. PICK c \in Conns : Free(c) /\ conn' = Put(c, Fresh(n, m))
    BY <1>2, DialledIs DEF CheckConnectNode, Put
  <2>2. n # m
    BY <1>0, <1>2 DEF CheckConnectNode, NodeShape
  <2> DEFINE r == Fresh(n, m)
  <2>3. r.to = m /\ m # Master
    BY <1>0, <2>2, FreshSound DEF Master
  <2> HIDE DEF r
  <2>4. Phase(r) /\ \A p \in Node : ~MasterOf(r, p) /\ ~NodeOf(r, p)
    BY <2>3, NoPhase DEF MasterOf, NodeOf
  <2>5. UNCHANGED <<info, known, dial, active>> /\ conn' = Put(c, r)
    BY <1>2, <2>1 DEF CheckConnectNode, masterVars, proxyVars, toMaster, r
  <2> QED BY <1>0, <2>4, <2>5, LinkPut
<1> QED BY <1>1, <1>2

\* The connection is there.
LEMMA ConnectedLink ==
  ASSUME RegistryInv, LinkInv, NEW c \in Conns, Connected(c)
  PROVE  LinkInv'
<1> DEFINE k == conn[c]
           r == Opened(k)
<1>0. ConnShape /\ Sound(k) /\ k.end["a"] = "trying" /\ conn' = Put(c, r)
  BY ConnectedIs DEF RegistryInv, ConnShape
<1>1. /\ r.from = k.from /\ r.to = k.to
      /\ \A s \in Sides : r.end[s] = "up" /\ r.id[s] = 0
      /\ k.to = Master => r.box["a"] = <<Msg("sync_master")>> /\ r.box["b"] = <<>>
  BY <1>0, OpenedIs
<1>2. UNCHANGED <<info, known, dial, active>>
  BY DEF Connected, masterVars, proxyVars, toMaster
<1> HIDE DEF r
<1>3. Phase(r)
  BY <1>1 DEF Phase, Sides
<1>4. \A p \in Node : ~NodeOf(r, p)
  BY <1>1, NoIds
<1>5. \A p \in Node : MasterOf(r, p) => MasterOf(conn[c], p)
  BY <1>0, <1>1 DEF MasterOf
<1> QED BY <1>0, <1>2, <1>3, <1>4, <1>5, LinkPut

\* The connect is refused.
LEMMA RefusedLink ==
  ASSUME RegistryInv, LinkInv, NEW c \in Conns, Refused(c)
  PROVE  LinkInv'
<1>0. ConnShape /\ NodeShape /\ Sound(conn[c]) /\ conn[c].end["a"] = "trying"
  BY DEF RegistryInv, ConnShape, Refused
<1>1. /\ conn' = Put(c, NoConn)
      /\ active' = IF conn[c].to = Master THEN [active EXCEPT ![conn[c].from] = FALSE] ELSE active
      /\ UNCHANGED <<info, known, dial>>
  BY DEF Refused, Put, masterVars, proxyVars
<1>2. conn'[c] = NoConn /\ \A d \in Conns \ {c} : conn'[d] = conn[d]
  BY <1>0, <1>1 DEF Put, ConnShape
<1>3. NoConn.end["a"] = "down" /\ \A p \in Node : ~NodeOf(NoConn, p)
  BY NoConnSound, NoIds DEF Sides
<1>4. \A d \in Conns : Phase(conn'[d])
  BY <1>2, <1>3, NoPhase DEF LinkInv
<1>5. \A n \in Node, d \in Conns :
        MasterOf(conn'[d], n) => MasterOf(conn[d], n) /\ (active[n] => active'[n])
  <2> SUFFICES ASSUME NEW n \in Node, NEW d \in Conns, MasterOf(conn'[d], n)
               PROVE  MasterOf(conn[d], n) /\ (active[n] => active'[n])
    OBVIOUS
  <2>1. d # c /\ MasterOf(conn[d], n)
    BY <1>2, <1>3 DEF MasterOf
  <2>2. conn[c].to = Master => conn[c].from # n
    <3>1. conn[c].to = Master /\ conn[c].from = n => MasterOf(conn[c], n)
      BY <1>0 DEF MasterOf
    <3> QED BY <2>1, <3>1 DEF LinkInv, ActiveInv
  <2>3. active'[n] = active[n]
    BY <1>0, <1>1, <2>2 DEF NodeShape
  <2> QED BY <2>1, <2>3
<1>6. \A n \in Node, d \in Conns :
        (NodeOf(conn'[d], n) /\ conn'[d].end["a"] = "up") =>
          NodeOf(conn[d], n) /\ conn[d].end["a"] = "up" /\ conn'[d].box["a"] = conn[d].box["a"]
  BY <1>2, <1>3
<1> QED BY <1>1, <1>4, <1>5, <1>6, LinkQuiet

\* The network drops a connection.
LEMMA CutLink ==
  ASSUME RegistryInv, LinkInv, NEW c \in Conns, Cut(c)
  PROVE  LinkInv'
<1> DEFINE k == conn[c]
           r == [k EXCEPT !.cut = TRUE]
<1>0. ConnShape /\ k \in Connection /\ conn' = Put(c, r)
  BY DEF Cut, Put, RegistryInv, ConnShape
<1> HIDE DEF k
<1>1. r.from = k.from /\ r.to = k.to /\ r.end = k.end /\ r.id = k.id /\ r.box = k.box
  BY <1>0 DEF Connection
<1> HIDE DEF r
<1>2. Phase(k)
  BY DEF k, LinkInv
<1>3. Phase(r)
  BY <1>1, <1>2 DEF Phase, IsUp
<1>4. \A n \in Node : /\ MasterOf(r, n) => MasterOf(k, n)
                      /\ NodeOf(r, n) => NodeOf(k, n)
  BY <1>1 DEF MasterOf, NodeOf
<1>5. UNCHANGED <<info, known, dial, active>>
  BY DEF Cut, masterVars, proxyVars, toMaster
<1> QED BY <1>0, <1>1, <1>3, <1>4, <1>5, LinkPut DEF k

\* The master has said who it is: the node is not registered yet.
LEMMA SyncMasterLink ==
  ASSUME RegistryInv, LinkInv, NEW c \in Conns, OnSyncMaster(c)
  PROVE  LinkInv'
<1> DEFINE k == conn[c]
           first == mconn[k.from] = 0
           r == Greeted(k, first)
           t == Tail(k.box["a"])
<1>0. ConnShape /\ "a" \in Sides /\ "b" \in Sides /\ "a" # "b" /\ Next1(c, "a", "sync_master")
  BY DEF RegistryInv, Sides, OnSyncMaster
<1>1. Sound(k) /\ k.to = Master /\ k.box["a"] # <<>> /\ IsUp(k, "a") /\ Head(k.box["a"]).t = "sync_master"
  BY <1>0, NextIs
<1>2. conn' = Put(c, r) /\ UNCHANGED <<info, active, known, dial>>
  BY <1>0, SyncMasterIs
<1>3. first \in BOOLEAN
  OBVIOUS
<1> HIDE DEF first
<1>4. /\ r.from = k.from /\ r.to = k.to /\ r.id["b"] = k.id["b"] /\ r.end["b"] = k.end["b"]
      /\ r.end["a"] = IF first THEN k.end["a"] ELSE "closing"
      /\ r.box["a"] = t
      /\ r.box["b"] = IF first /\ IsUp(k, "b") THEN Append(k.box["b"], Msg("register")) ELSE k.box["b"]
  BY <1>1, <1>3, GreetedIs
<1> HIDE DEF r, t
<1>5. Phase(k)
  BY DEF LinkInv
<1> HIDE DEF k
<1>6. ASSUME k.end["a"] = "up", IsUp(k, "b")
      PROVE  k.id["b"] = 0 /\ k.box["a"] = <<Msg("sync_master")>> /\ k.box["b"] = <<>>
  <2>1. k.box["a"] \in Seq(AnyPacket)
    BY <1>0, <1>1 DEF Sound, Connection
  <2>2. CASE /\ k.id["b"] # 0 /\ k.box["b"] = <<>>
             /\ \A i \in 1 .. Len(k.box["a"]) :
                  k.box["a"][i].t = "sync_node" \/ (i = 1 /\ k.box["a"][i].t = "sync_all")
    <3>1. 1 \in 1 .. Len(k.box["a"]) /\ Head(k.box["a"]) = k.box["a"][1]
      BY <1>1, <2>1
    <3>2. k.box["a"][1].t \in {"sync_node", "sync_all"}
      BY <2>2, <3>1
    <3> QED BY <1>1, <3>1, <3>2
  <2> QED BY <1>1, <1>5, <1>6, <2>2 DEF Phase
<1>7. Phase(r)
  <2> SUFFICES ASSUME r.to = Master, r.end["a"] = "up", IsUp(r, "b")
               PROVE  r.id["b"] = 0 /\ r.box["a"] = <<>> /\ r.box["b"] \in {<<>>, <<Msg("register")>>}
    BY DEF Phase
  <2>1. k.end["a"] = "up" /\ IsUp(k, "b") /\ first
    BY <1>4 DEF IsUp
  <2>2. k.id["b"] = 0 /\ k.box["a"] = <<Msg("sync_master")>> /\ k.box["b"] = <<>>
    BY <1>6, <2>1
  <2>3. t = <<>>
    BY <2>2 DEF t
  <2>4. r.box["b"] = <<Msg("register")>>
    BY <1>4, <2>1, <2>2
  <2> QED BY <1>4, <2>2, <2>3, <2>4
<1>8. \A n \in Node : MasterOf(r, n) => MasterOf(k, n)
  BY <1>1, <1>4 DEF MasterOf, IsUp
<1>9. \A n \in Node : ~(NodeOf(r, n) /\ r.end["a"] = "up")
  <2> SUFFICES ASSUME NEW n \in Node, NodeOf(r, n), r.end["a"] = "up" PROVE FALSE
    OBVIOUS
  <2>1. NodeOf(k, n) /\ k.end["a"] = "up"
    BY <1>1, <1>4 DEF NodeOf
  <2>2. IsUp(k, "b") /\ k.id["b"] = n
    BY <1>1, <2>1, NodeIs
  <2>3. k.id["b"] = 0
    BY <1>6, <2>1, <2>2
  <2> QED BY <2>2, <2>3, RegistryAssumption DEF Node
<1> QED BY <1>0, <1>2, <1>7, <1>8, <1>9, LinkPut DEF k

\* The handshake of two nodes is no business of the master.
LEMMA HandshakeLink ==
  ASSUME RegistryInv, LinkInv, NEW c \in Conns, OnHandshakeRequest(c) \/ OnHandshakeResponse(c)
  PROVE  LinkInv'
<1> DEFINE k == conn[c]
<1>0. ConnShape /\ "a" \in Sides /\ "b" \in Sides
  BY DEF RegistryInv, Sides
<1>1. ASSUME NEW r, conn' = Put(c, r), r.to # Master, UNCHANGED <<info, known, dial, active>>
      PROVE  LinkInv'
  <2>1. Phase(r) /\ \A n \in Node : ~MasterOf(r, n) /\ ~NodeOf(r, n)
    BY <1>1, NoPhase DEF MasterOf, NodeOf
  <2> QED BY <1>0, <1>1, <2>1, LinkPut
<1>2. UNCHANGED <<info, known, dial, active>>
  BY DEF OnHandshakeRequest, OnHandshakeResponse, masterVars, toMaster
<1>3. CASE OnHandshakeRequest(c)
  <2>1. Sound(k) /\ k.box["b"] # <<>> /\ k.from \in Node /\ k.to \in Node /\ k.to # Master /\ k.from # k.to
    BY <1>0, <1>3, NextIs DEF OnHandshakeRequest
  <2>2. Asked(k).to # Master /\ Closed(Read(k, "b"), "b").to # Master
    BY <1>0, <2>1, AskedIs, ReadClosed
  <2>3. conn' = Put(c, Asked(k)) \/ conn' = Put(c, Closed(Read(k, "b"), "b"))
    BY <1>0, <1>3, HandshakeIs
  <2> HIDE DEF k
  <2> QED BY <1>1, <1>2, <2>2, <2>3
<1>4. CASE OnHandshakeResponse(c)
  <2>1. Sound(k) /\ k.box["a"] # <<>> /\ k.from \in Node /\ k.to \in Node /\ k.to # Master /\ k.from # k.to
    BY <1>0, <1>4, NextIs DEF OnHandshakeResponse
  <2>2. Answered(k).to # Master /\ Closed(Read(k, "a"), "a").to # Master
    BY <1>0, <2>1, AnsweredIs, ReadClosed
  <2>3. conn' = Put(c, Answered(k)) \/ conn' = Put(c, Closed(Read(k, "a"), "a"))
    BY <1>0, <1>4, HandshakeIs
  <2> HIDE DEF k
  <2> QED BY <1>1, <1>2, <2>2, <2>3
<1> QED BY <1>3, <1>4

\* What is left of a conversation when ends go.
LEMMA DropLink ==
  ASSUME NEW dead, ConnShape, conn' = Drop(conn, dead), NEW d \in Conns, Phase(conn[d])
  PROVE  /\ Phase(conn'[d])
         /\ \A n \in Node : MasterOf(conn'[d], n) => MasterOf(conn[d], n) /\ <<d, "a">> \notin dead
         /\ conn'[d].end["a"] = "up" =>
              <<d, "a">> \notin dead /\ conn[d].end["a"] = "up" /\ conn'[d].box["a"] = conn[d].box["a"]
<1> DEFINE D == {s \in Sides : <<d, s>> \in dead}
           k == conn[d]
           r == Dropped(k, D)
<1>1. conn'[d] = r /\ Sound(k)
  BY DropIs DEF ConnShape
<1>2. \A s \in Sides : s \in D <=> <<d, s>> \in dead
  OBVIOUS
<1>3. "a" \in Sides /\ "b" \in Sides
  BY DEF Sides
<1> HIDE DEF D, k
<1>4. \/ r = NoConn
      \/ /\ r.from = k.from /\ r.to = k.to
         /\ \A s \in Sides :
              IF s \in D \/ k.end[s] = "down"
              THEN r.end[s] = "down" /\ r.id[s] = 0 /\ r.box[s] = <<>>
              ELSE r.end[s] = k.end[s] /\ r.id[s] = k.id[s] /\ r.box[s] = k.box[s]
  BY <1>1, DroppedSound
<1> HIDE DEF r
<1>5. CASE r = NoConn
  <2>1. r.end["a"] = "down"
    BY <1>3, <1>5, NoConnSound
  <2> QED BY <1>1, <2>1, NoPhase DEF MasterOf
<1>6. CASE /\ r.from = k.from /\ r.to = k.to
           /\ \A s \in Sides :
                IF s \in D \/ k.end[s] = "down"
                THEN r.end[s] = "down" /\ r.id[s] = 0 /\ r.box[s] = <<>>
                ELSE r.end[s] = k.end[s] /\ r.id[s] = k.id[s] /\ r.box[s] = k.box[s]
  <2>1. r.end["a"] # "down" => /\ <<d, "a">> \notin dead /\ r.end["a"] = k.end["a"]
                               /\ r.box["a"] = k.box["a"]
    BY <1>2, <1>3, <1>6
  <2>2. IsUp(r, "b") => /\ IsUp(k, "b") /\ r.id["b"] = k.id["b"] /\ r.box["b"] = k.box["b"]
    BY <1>3, <1>6 DEF IsUp
  <2>3. Phase(k)
    BY DEF k
  <2>4. Phase(r)
    <3> SUFFICES ASSUME r.to = Master, r.end["a"] = "up", IsUp(r, "b")
                 PROVE  Phase(r)
      BY DEF Phase
    <3>1. k.to = Master /\ k.end["a"] = "up" /\ IsUp(k, "b") /\ r.box["a"] = k.box["a"]
          /\ r.id["b"] = k.id["b"] /\ r.box["b"] = k.box["b"]
      BY <1>6, <2>1, <2>2
    <3> QED BY <2>3, <3>1 DEF Phase
  <2> QED BY <1>1, <1>6, <2>1, <2>4 DEF MasterOf, k
<1> QED BY <1>4, <1>5, <1>6

\* An end ends.
LEMMA DisconnectLink ==
  ASSUME RegistryInv, LinkInv, NEW c \in Conns, NEW s \in Sides, Disconnect(c, s)
  PROVE  LinkInv'
<1>0. ConnShape /\ NodeShape /\ Sound(conn[c]) /\ IsUp(conn[c], s)
  BY DEF RegistryInv, ConnShape, Disconnect, Live, IsUp
<1>1. conn' = Drop(conn, {<<c, s>>})
  BY DEF Disconnect
<1>2. UNCHANGED <<info, known, dial>>
  BY DEF Disconnect, LosesMaster, LosesNode, LosesPeer, masterVars, proxyVars, toMaster
<1>3. \A d \in Conns : Phase(conn[d])
  BY DEF LinkInv
<1>4. \A d \in Conns : Phase(conn'[d])
  BY <1>0, <1>1, <1>3, DropLink
<1>5. \A d \in Conns : \A n \in Node : MasterOf(conn'[d], n) => MasterOf(conn[d], n) /\ ~(d = c /\ s = "a")
  <2> SUFFICES ASSUME NEW d \in Conns, NEW n \in Node, MasterOf(conn'[d], n)
               PROVE  MasterOf(conn[d], n) /\ ~(d = c /\ s = "a")
    OBVIOUS
  <2>1. MasterOf(conn[d], n) /\ <<d, "a">> \notin {<<c, s>>}
    BY <1>0, <1>1, <1>3, DropLink
  <2> QED BY <2>1
<1>6. \A n \in Node, d \in Conns :
        MasterOf(conn'[d], n) => MasterOf(conn[d], n) /\ (active[n] => active'[n])
  <2> SUFFICES ASSUME NEW n \in Node, NEW d \in Conns, MasterOf(conn'[d], n), active[n]
               PROVE  active'[n]
    BY <1>5
  <2>1. MasterOf(conn[d], n) /\ ~(d = c /\ s = "a")
    BY <1>5
  <2>2. CASE conn[c].to = Master /\ s = "a"
    <3>1. active' = active \/ active' = [active EXCEPT ![conn[c].from] = FALSE]
      BY <2>2 DEF Disconnect, LosesMaster, toMaster
    <3>2. conn[c].from = n => MasterOf(conn[c], n)
      BY <1>0, <2>2 DEF MasterOf, IsUp
    <3>3. conn[c].from # n
      BY <2>1, <2>2, <3>2 DEF LinkInv, ActiveInv
    <3> QED BY <1>0, <3>1, <3>3 DEF NodeShape
  <2>3. CASE ~(conn[c].to = Master /\ s = "a")
    <3>1. active' = active
      BY <2>3 DEF Disconnect, LosesNode, LosesPeer, toMaster, Sides
    <3> QED BY <3>1
  <2> QED BY <2>2, <2>3
<1>7. \A n \in Node, d \in Conns :
        (NodeOf(conn'[d], n) /\ conn'[d].end["a"] = "up") =>
          NodeOf(conn[d], n) /\ conn[d].end["a"] = "up" /\ conn'[d].box["a"] = conn[d].box["a"]
  <2> SUFFICES ASSUME NEW n \in Node, NEW d \in Conns, NodeOf(conn'[d], n), conn'[d].end["a"] = "up"
               PROVE  NodeOf(conn[d], n) /\ conn[d].end["a"] = "up" /\ conn'[d].box["a"] = conn[d].box["a"]
    OBVIOUS
  <2>1. conn[d].end["a"] = "up" /\ conn'[d].box["a"] = conn[d].box["a"]
    BY <1>0, <1>1, <1>3, DropLink
  <2>2. NodeOf(conn[d], n)
    BY <1>0, <1>1, DropIds
  <2> QED BY <2>1, <2>2
<1> QED BY <1>2, <1>4, <1>6, <1>7, LinkQuiet

\* The master is killed, and forgets all nodes.
LEMMA CrashMasterLink ==
  ASSUME RegistryInv, LinkInv, CrashMaster
  PROVE  LinkInv'
<1>0. ConnShape /\ conn' = Drop(conn, OwnEnds(Master)) /\ UNCHANGED <<active, known, dial>>
  BY DEF RegistryInv, CrashMaster, toMaster, proxyVars
<1>1. \A d \in Conns : Phase(conn[d])
  BY DEF LinkInv
<1>2. \A d \in Conns : Phase(conn'[d])
  BY <1>0, <1>1, DropLink
<1>3. \A d \in Conns : \A n \in Node : MasterOf(conn'[d], n) => MasterOf(conn[d], n)
  BY <1>0, <1>1, DropLink
<1>4. ActiveInv'
  BY <1>0, <1>3 DEF LinkInv, ActiveInv
<1>5. \A d \in Conns, n \in Node : ~NodeOf(conn'[d], n)
  <2> SUFFICES ASSUME NEW d \in Conns, NEW n \in Node PROVE ~NodeOf(conn'[d], n)
    OBVIOUS
  <2>1. NodeOf(conn'[d], n) <=> NodeOf(conn[d], n) /\ <<d, "b">> \notin OwnEnds(Master)
    BY <1>0, DropIds
  <2>2. NodeOf(conn[d], n) => (<<d, "b">> \in OwnEnds(Master) <=> Master = Master)
    BY <1>0, OwnEndsIs
  <2> QED BY <2>1, <2>2
<1>6. LearnInv'
  BY <1>5 DEF LearnInv
<1>7. DialInv'
  BY <1>0 DEF LinkInv, DialInv
<1> QED BY <1>2, <1>4, <1>6, <1>7 DEF LinkInv

\* A node is killed, and knows nothing.
LEMMA CrashNodeLink ==
  ASSUME RegistryInv, LinkInv, NEW n \in Node, CrashNode(n)
  PROVE  LinkInv'
<1>0. /\ ConnShape /\ NodeShape /\ conn' = Drop(conn, OwnEnds(n)) /\ info' = info
      /\ active' = [active EXCEPT ![n] = FALSE]
      /\ known' = [known EXCEPT ![n] = {}] /\ dial' = [dial EXCEPT ![n] = {}]
  BY DEF RegistryInv, CrashNode, masterVars
<1>1. \A d \in Conns : Phase(conn[d])
  BY DEF LinkInv
<1>2. \A d \in Conns : Phase(conn'[d])
  BY <1>0, <1>1, DropLink
<1>3. \A p \in Node : p # n => active'[p] = active[p] /\ known'[p] = known[p] /\ dial'[p] = dial[p]
  BY <1>0 DEF NodeShape
<1>4. \A d \in Conns : conn[d].from = n /\ conn[d].end["a"] # "down" => <<d, "a">> \in OwnEnds(n)
  BY DEF OwnEnds, Free, Owner, Sides
<1>5. \A d \in Conns : \A p \in Node : MasterOf(conn'[d], p) => MasterOf(conn[d], p) /\ p # n
  <2> SUFFICES ASSUME NEW d \in Conns, NEW p \in Node, MasterOf(conn'[d], p)
               PROVE  MasterOf(conn[d], p) /\ p # n
    OBVIOUS
  <2>1. MasterOf(conn[d], p) /\ <<d, "a">> \notin OwnEnds(n)
    BY <1>0, <1>1, DropLink
  <2> QED BY <1>4, <2>1 DEF MasterOf
<1>6. ActiveInv'
  BY <1>3, <1>5 DEF LinkInv, ActiveInv
<1>7. LearnInv'
  <2> SUFFICES ASSUME NEW p \in Node, NEW d \in Conns, NodeOf(conn'[d], p), conn'[d].end["a"] = "up"
               PROVE  \A m \in Node : m \in info' \ {p} <=> WillKnow(known'[p], conn'[d].box["a"], m)
    BY DEF LearnInv
  <2>1. <<d, "a">> \notin OwnEnds(n) /\ conn[d].end["a"] = "up" /\ conn'[d].box["a"] = conn[d].box["a"]
    BY <1>0, <1>1, DropLink
  <2>2. NodeOf(conn[d], p)
    BY <1>0, DropIds
  <2>3. conn[d].from = p
    BY <1>0, <2>2, NodeIs DEF ConnShape
  <2>4. p # n
    BY <1>4, <2>1, <2>3
  <2>5. \A m \in Node : m \in info \ {p} <=> WillKnow(known[p], conn[d].box["a"], m)
    BY <2>1, <2>2 DEF LinkInv, LearnInv
  <2> QED BY <1>0, <1>3, <2>1, <2>4, <2>5
<1>8. DialInv'
  <2>1. dial'[n] = {}
    BY <1>0 DEF NodeShape
  <2> QED BY <1>3, <2>1 DEF LinkInv, DialInv
<1> QED BY <1>2, <1>6, <1>7, <1>8 DEF LinkInv

\* A node that comes is one more to know.
LEMMA KnowMore ==
  ASSUME NEW S, NEW q \in Seq(S), NEW msg \in S, msg.t = "sync_node", NEW K, NEW m
  PROVE  WillKnow(K, Append(q, msg), m) <=> WillKnow(K, q, m) \/ m \in msg.nodes
<1> DEFINE r == Append(q, msg)
<1>1. r \in Seq(S) /\ Len(r) = Len(q) + 1 /\ r # <<>> /\ Len(q) \in Nat
      /\ r[Len(q) + 1] = msg /\ \A i \in 1 .. Len(q) : r[i] = q[i]
  OBVIOUS
<1> HIDE DEF r
<1>2. Start(K, r) = Start(K, q)
  <2>1. CASE q = <<>>
    <3>1. Len(q) = 0 /\ r[1] = msg
      BY <1>1, <2>1
    <3> QED BY <1>1, <2>1, <3>1 DEF Start
  <2>2. CASE q # <<>>
    <3>1. 1 \in 1 .. Len(q)
      BY <2>2
    <3> QED BY <1>1, <2>2, <3>1 DEF Start
  <2> QED BY <2>1, <2>2
<1>3. (\E i \in 1 .. Len(r) : m \in r[i].nodes) <=> (\E i \in 1 .. Len(q) : m \in q[i].nodes) \/ m \in msg.nodes
  <2>1. 1 .. Len(r) = (1 .. Len(q)) \cup {Len(q) + 1}
    BY <1>1
  <2> QED BY <1>1, <2>1
<1> QED BY <1>2, <1>3 DEF WillKnow, r

\* The list of all nodes is all there is to know.
LEMMA KnowAll ==
  ASSUME NEW msg, msg.t = "sync_all", NEW K, NEW m
  PROVE  WillKnow(K, <<msg>>, m) <=> m \in msg.nodes
<1> DEFINE q == <<msg>>
<1>1. Len(q) = 1 /\ q[1] = msg /\ q # <<>>
  OBVIOUS
<1> HIDE DEF q
<1>2. WillKnow(K, q, m) <=> m \in msg.nodes
  BY <1>1 DEF WillKnow, Start
<1> QED BY <1>2 DEF q

\* Reading a packet is learning what it says.
LEMMA KnowTail ==
  ASSUME NEW S, NEW q \in Seq(S), q # <<>>, NEW K, NEW m,
         \A i \in 1 .. Len(q) : q[i].t = "sync_node" \/ (i = 1 /\ q[i].t = "sync_all")
  PROVE  WillKnow(Start(K, q) \cup q[1].nodes, Tail(q), m) <=> WillKnow(K, q, m)
<1> DEFINE r == Tail(q)
           J == Start(K, q) \cup q[1].nodes
<1>1. r \in Seq(S) /\ Len(r) = Len(q) - 1 /\ Len(q) \in Nat \ {0} /\ Len(r) \in Nat
      /\ \A i \in 1 .. Len(r) : r[i] = q[i + 1]
  OBVIOUS
<1> HIDE DEF r
<1>2. Start(J, r) = J
  <2>1. CASE r = <<>>
    BY <2>1 DEF Start
  <2>2. CASE r # <<>>
    <3>1. 1 \in 1 .. Len(r) /\ 2 \in 1 .. Len(q) /\ r[1] = q[2]
      BY <1>1, <2>2
    <3>2. q[2].t = "sync_node"
      BY <3>1
    <3> QED BY <3>1, <3>2 DEF Start
  <2> QED BY <2>1, <2>2
<1> HIDE DEF J
<1>3. (\E i \in 1 .. Len(q) : m \in q[i].nodes) <=> m \in q[1].nodes \/ \E i \in 1 .. Len(r) : m \in r[i].nodes
  <2>1. ASSUME NEW i \in 1 .. Len(q), m \in q[i].nodes
        PROVE  m \in q[1].nodes \/ \E j \in 1 .. Len(r) : m \in r[j].nodes
    <3>1. CASE i = 1
      BY <2>1, <3>1
    <3>2. CASE i # 1
      <4>1. i - 1 \in 1 .. Len(r) /\ r[i - 1] = q[(i - 1) + 1] /\ (i - 1) + 1 = i
        BY <1>1, <3>2
      <4> QED BY <2>1, <4>1
    <3> QED BY <3>1, <3>2
  <2>2. ASSUME NEW i \in 1 .. Len(r), m \in r[i].nodes
        PROVE  \E j \in 1 .. Len(q) : m \in q[j].nodes
    <3>1. i + 1 \in 1 .. Len(q) /\ r[i] = q[i + 1]
      BY <1>1
    <3> QED BY <2>2, <3>1
  <2>3. 1 \in 1 .. Len(q)
    BY <1>1
  <2> QED BY <2>1, <2>2, <2>3
<1>4. WillKnow(J, r, m) <=> m \in J \/ \E i \in 1 .. Len(r) : m \in r[i].nodes
  BY <1>2 DEF WillKnow
<1>5. WillKnow(K, q, m) <=> m \in Start(K, q) \/ \E i \in 1 .. Len(q) : m \in q[i].nodes
  BY DEF WillKnow
<1> QED BY <1>3, <1>4, <1>5 DEF J, r

\* A node registers, or is refused.
LEMMA RegisterLink ==
  ASSUME RegistryInv, LinkInv, NEW c \in Conns, OnRegister(c)
  PROVE  LinkInv'
<1> DEFINE k == conn[c]
           n == k.from
<1>0. /\ ConnShape /\ MasterShape /\ NodeShape /\ MasterInv
      /\ "a" \in Sides /\ "b" \in Sides /\ "a" # "b" /\ Next1(c, "b", "register")
  BY DEF RegistryInv, Sides, OnRegister
<1>1. Sound(k) /\ k.box["b"] # <<>> /\ n \in Node /\ k.to = Master /\ IsUp(k, "b")
  BY <1>0, NextIs
<1>2. Phase(k) /\ k.box \in [Sides -> Seq(AnyPacket)] /\ k.end \in [Sides -> Ends]
  BY <1>1 DEF LinkInv, Sound, Connection
<1>3. k.end["a"] = "up" => k.id["b"] = 0 /\ k.box["a"] = <<>> /\ k.box["b"] = <<Msg("register")>>
  BY <1>1, <1>2 DEF Phase
<1>4. CASE Registers(n)
  <2> DEFINE hears(d) == \E m \in info \ {n} : msock[m] = d
             one(d) == OneNode(conn[d].from, n)
             r == Registered(k)
             t == Tail(k.box["b"])
  <2>1. /\ conn'[c] = r
        /\ \A d \in Conns \ {c} : conn'[d] = IF hears(d) THEN Posted(conn[d], "a", one(d)) ELSE conn[d]
        /\ \A d \in Conns : \A m \in info \ {n} : msock[m] = d => NodeOf(conn[d], m) /\ conn[d].from = m
        /\ info' = info \cup {n}
        /\ UNCHANGED <<active, known, dial>>
    BY <1>4, RegisterIs
  <2>2. /\ r.to = k.to /\ r.from = k.from /\ r.end = k.end /\ r.id["b"] = n
        /\ r.box["a"] = IF IsUp(k, "a") THEN Append(k.box["a"], AllNodes(n)) ELSE k.box["a"]
        /\ r.box["b"] = t
    BY <1>0, <1>1, RegisteredIs
  <2>3. /\ AllNodes(n).t = "sync_all" /\ AllNodes(n).nodes = info \ {n} /\ AllNodes(n) \in AnyPacket
        /\ \A m \in Node \ {n} : OneNode(m, n) \in Packets(m, Master, "a")
        /\ \A m : OneNode(m, n).t = "sync_node" /\ OneNode(m, n).nodes = {n}
    <3>1. AllNodes(n) \in Packets(n, Master, "a") /\ \A m \in Node \ {n} : OneNode(m, n) \in Packets(m, Master, "a")
      BY <1>0, <1>1, NodesIn DEF Packets
    <3> QED BY <1>0, <1>1, <3>1, NodesIn, PacketsAny
  <2>4. msock[n] = 0
    BY <1>0, <1>1, <1>4 DEF Registers, MasterInv
  <2>5. r.end["a"] = "up" => r.box["a"] = <<AllNodes(n)>> /\ r.box["b"] = <<>>
    <3> SUFFICES ASSUME r.end["a"] = "up" PROVE r.box["a"] = <<AllNodes(n)>> /\ r.box["b"] = <<>>
      OBVIOUS
    <3> HIDE DEF r
    <3>1. IsUp(k, "a") /\ k.box["a"] = <<>> /\ k.box["b"] = <<Msg("register")>>
      BY <1>3, <2>2 DEF IsUp
    <3>2. t = <<>>
      BY <3>1
    <3> HIDE DEF t
    <3>3. r.box["a"] = Append(<<>>, AllNodes(n))
      BY <2>2, <3>1
    <3>4. \A x : Append(<<>>, x) = <<x>>
      OBVIOUS
    <3>5. r.box["a"] = <<AllNodes(n)>>
      BY <3>3, <3>4
    <3>6. r.box["b"] = <<>>
      BY <2>2, <3>2
    <3> QED BY <3>5, <3>6
  <2> HIDE DEF hears, r, t
  <2>6. Phase(r)
    <3> SUFFICES ASSUME r.end["a"] = "up"
                 PROVE  /\ r.id["b"] # 0 /\ r.box["b"] = <<>>
                        /\ \A i \in 1 .. Len(r.box["a"]) :
                             r.box["a"][i].t = "sync_node" \/ (i = 1 /\ r.box["a"][i].t = "sync_all")
      BY DEF Phase
    <3>1. n # 0 /\ r.id["b"] # 0
      BY <1>1, <2>2, RegistryAssumption DEF Node
    <3>2. PICK x : x = AllNodes(n)
      OBVIOUS
    <3>3. r.box["a"] = <<x>> /\ x.t = "sync_all" /\ r.box["b"] = <<>>
      BY <2>3, <2>5, <3>2
    <3>4. Len(<<x>>) = 1 /\ <<x>>[1] = x
      OBVIOUS
    <3>5. \A i \in 1 .. Len(<<x>>) : i = 1 /\ <<x>>[i].t = "sync_all"
      BY <3>3, <3>4
    <3> QED BY <3>1, <3>3, <3>5
  <2>7. ASSUME NEW d \in Conns \ {c}, hears(d)
        PROVE  /\ conn'[d] = Posted(conn[d], "a", one(d))
               /\ conn[d].from \in info \ {n} /\ NodeOf(conn[d], conn[d].from)
               /\ conn'[d].from = conn[d].from /\ conn'[d].to = conn[d].to
               /\ conn'[d].end = conn[d].end /\ conn'[d].id = conn[d].id
               /\ conn'[d].box["b"] = conn[d].box["b"]
               /\ conn'[d].box["a"] = IF IsUp(conn[d], "a") THEN Append(conn[d].box["a"], one(d))
                                      ELSE conn[d].box["a"]
    <3>1. PICK m \in info \ {n} : msock[m] = d
      BY <2>7 DEF hears
    <3>2. conn[d].from = m /\ NodeOf(conn[d], m) /\ m \in Node \ {n} /\ Sound(conn[d]) /\ conn[d].to = Master
      BY <1>0, <2>1, <3>1 DEF MasterShape, ConnShape, NodeOf
    <3>3. one(d) \in Packets(conn[d].from, conn[d].to, "a")
      BY <2>3, <3>2
    <3>4. conn'[d] = Posted(conn[d], "a", one(d))
      BY <2>1, <2>7
    <3> HIDE DEF one
    <3> DEFINE p == Posted(conn[d], "a", one(d))
    <3>5. /\ p.from = conn[d].from /\ p.to = conn[d].to
          /\ p.end = conn[d].end /\ p.id = conn[d].id
          /\ \A q \in Sides : p.box[q] = IF q = "a" /\ IsUp(conn[d], "a")
                                         THEN Append(conn[d].box[q], one(d)) ELSE conn[d].box[q]
      BY <1>0, <3>2, <3>3, PostedSound
    <3> HIDE DEF p
    <3>6. conn'[d] = p
      BY <3>4 DEF p
    <3>7. p.box["b"] = conn[d].box["b"]
          /\ p.box["a"] = IF IsUp(conn[d], "a") THEN Append(conn[d].box["a"], one(d)) ELSE conn[d].box["a"]
      BY <1>0, <3>5
    <3> QED BY <3>1, <3>2, <3>4, <3>5, <3>6, <3>7
  <2>8. ASSUME NEW d \in Conns \ {c}, hears(d) PROVE Phase(conn'[d])
    <3> DEFINE q == conn[d].box["a"]
    <3>1. Phase(conn[d]) /\ Sound(conn[d]) /\ conn[d].to = Master /\ conn[d].id["b"] # 0 /\ q \in Seq(AnyPacket)
      <4>1. Sound(conn[d]) /\ Phase(conn[d])
        BY <1>0 DEF LinkInv, ConnShape
      <4>2. conn[d].to = Master /\ conn[d].id["b"] # 0
        BY <1>0, <2>7, <2>8, RegistryAssumption DEF NodeOf, MasterShape, Node
      <4> QED BY <1>0, <4>1, <4>2 DEF Sound, Connection
    <3> SUFFICES ASSUME conn'[d].end["a"] = "up", IsUp(conn'[d], "b")
                 PROVE  /\ conn'[d].id["b"] # 0 /\ conn'[d].box["b"] = <<>>
                        /\ \A i \in 1 .. Len(conn'[d].box["a"]) :
                             conn'[d].box["a"][i].t = "sync_node" \/ (i = 1 /\ conn'[d].box["a"][i].t = "sync_all")
      BY DEF Phase
    <3>2. conn[d].end["a"] = "up" /\ IsUp(conn[d], "a") /\ IsUp(conn[d], "b")
      BY <2>7, <2>8 DEF IsUp
    <3>3. conn[d].box["b"] = <<>> /\ \A i \in 1 .. Len(q) : q[i].t = "sync_node" \/ (i = 1 /\ q[i].t = "sync_all")
      BY <3>1, <3>2 DEF Phase
    <3>4. conn'[d].box["a"] = Append(q, one(d)) /\ one(d).t = "sync_node"
      BY <2>3, <2>7, <2>8, <3>2
    <3> HIDE DEF q, one
    <3>5. PICK o : o = one(d)
      OBVIOUS
    <3>6. \A i \in 1 .. Len(Append(q, o)) :
             Append(q, o)[i].t = "sync_node" \/ (i = 1 /\ Append(q, o)[i].t = "sync_all")
      <4>1. q \in Seq(AnyPacket) /\ Len(Append(q, o)) = Len(q) + 1 /\ Len(q) \in Nat
            /\ Append(q, o)[Len(q) + 1] = o /\ \A i \in 1 .. Len(q) : Append(q, o)[i] = q[i]
        BY <3>1
      <4> QED BY <3>3, <3>4, <3>5, <4>1
    <3> QED BY <2>7, <2>8, <3>1, <3>3, <3>4, <3>5, <3>6
  <2>9. \A d \in Conns : Phase(conn'[d])
    <3> SUFFICES ASSUME NEW d \in Conns PROVE Phase(conn'[d])
      OBVIOUS
    <3>1. CASE d = c
      BY <2>1, <2>6, <3>1
    <3>2. CASE d # c /\ hears(d)
      BY <2>8, <3>2
    <3>3. CASE d # c /\ ~hears(d)
      BY <2>1, <3>3 DEF LinkInv
    <3> QED BY <3>1, <3>2, <3>3
  <2>10. \A d \in Conns : conn'[d].from = conn[d].from /\ conn'[d].to = conn[d].to /\ conn'[d].end = conn[d].end
    <3> SUFFICES ASSUME NEW d \in Conns
                 PROVE  conn'[d].from = conn[d].from /\ conn'[d].to = conn[d].to /\ conn'[d].end = conn[d].end
      OBVIOUS
    <3>1. CASE d = c
      BY <2>1, <2>2, <3>1
    <3>2. CASE d # c /\ hears(d)
      BY <2>7, <3>2
    <3>3. CASE d # c /\ ~hears(d)
      BY <2>1, <3>3
    <3> QED BY <3>1, <3>2, <3>3
  <2>11. ActiveInv'
    <3>1. \A d \in Conns : \A p \in Node : MasterOf(conn'[d], p) <=> MasterOf(conn[d], p)
      BY <2>10 DEF MasterOf
    <3> QED BY <2>1, <3>1 DEF LinkInv, ActiveInv
  <2>12. LearnInv'
    <3> SUFFICES ASSUME NEW p \in Node, NEW d \in Conns, NodeOf(conn'[d], p), conn'[d].end["a"] = "up",
                        NEW m \in Node
                 PROVE  m \in info' \ {p} <=> WillKnow(known'[p], conn'[d].box["a"], m)
      BY DEF LearnInv
    <3>1. CASE d = c
      <4>1. p = n /\ conn'[d].box["a"] = <<AllNodes(n)>>
        BY <2>1, <2>2, <2>5, <3>1 DEF NodeOf
      <4>2. WillKnow(known'[p], <<AllNodes(n)>>, m) <=> m \in info \ {n}
        BY <2>3, KnowAll
      <4> QED BY <2>1, <4>1, <4>2
    <3>2. CASE d # c
      <4>1. NodeOf(conn[d], p) /\ conn[d].end["a"] = "up"
        <5>1. CASE hears(d)
          BY <2>7, <3>2, <5>1 DEF NodeOf
        <5>2. CASE ~hears(d)
          BY <2>1, <3>2, <5>2
        <5> QED BY <5>1, <5>2
      <4>2. msock[p] = d /\ d # 0
        BY <1>0, <4>1, RegistryAssumption DEF MasterInv, Conns
      <4>3. p # n /\ p \in info \ {n}
        BY <1>0, <2>4, <4>2 DEF MasterInv
      <4>4. hears(d)
        BY <4>2, <4>3 DEF hears
      <4>5. m \in info \ {p} <=> WillKnow(known[p], conn[d].box["a"], m)
        BY <4>1 DEF LinkInv, LearnInv
      <4>6. conn'[d].box["a"] = Append(conn[d].box["a"], one(d))
        BY <2>7, <3>2, <4>1, <4>4 DEF IsUp
      <4>7. one(d) \in AnyPacket /\ one(d).t = "sync_node" /\ one(d).nodes = {n}
        <5>1. conn[d].from \in Node \ {n}
          BY <1>0, <2>7, <3>2, <4>4 DEF MasterShape
        <5>2. OneNode(conn[d].from, n) \in Packets(conn[d].from, Master, "a")
          BY <2>3, <5>1
        <5> QED BY <2>3, <5>2, PacketsAny
      <4>8. conn[d].box["a"] \in Seq(AnyPacket)
        BY <1>0 DEF ConnShape, Connection
      <4> HIDE DEF one
      <4>9. WillKnow(known[p], Append(conn[d].box["a"], one(d)), m)
              <=> WillKnow(known[p], conn[d].box["a"], m) \/ m \in {n}
        BY <4>7, <4>8, KnowMore
      <4> QED BY <2>1, <4>3, <4>5, <4>6, <4>9
    <3> QED BY <3>1, <3>2
  <2>13. DialInv'
    BY <2>1 DEF LinkInv, DialInv
  <2> QED BY <2>9, <2>11, <2>12, <2>13 DEF LinkInv
<1>5. CASE ~Registers(n)
  <2> DEFINE r == Closed(Read(k, "b"), "b")
             t == Tail(k.box["b"])
  <2>1. conn' = Put(c, r)
    <3>1. conn' = Shut(Taken(conn, c, "b"), c, "b")
      BY <1>5 DEF OnRegister
    <3> QED BY <1>0, <3>1, OnOne DEF ConnShape
  <2>2. UNCHANGED <<info, known, dial, active>>
    BY <1>5 DEF OnRegister, masterVars, toMaster, proxyVars
  <2>3. /\ r.from = k.from /\ r.to = k.to /\ r.id = k.id
        /\ r.end = [k.end EXCEPT !["b"] = "closing"] /\ r.box = [k.box EXCEPT !["b"] = t]
    BY <1>0, <1>1, ReadClosed
  <2> HIDE DEF r, t
  <2>4. r.end["a"] = k.end["a"] /\ r.box["a"] = k.box["a"] /\ r.box["b"] = t
    BY <1>0, <1>2, <2>3
  <2>5. Phase(r)
    <3> SUFFICES ASSUME r.end["a"] = "up"
                 PROVE  r.id["b"] = 0 /\ r.box["a"] = <<>> /\ r.box["b"] \in {<<>>, <<Msg("register")>>}
      BY DEF Phase
    <3>1. k.id["b"] = 0 /\ k.box["a"] = <<>> /\ k.box["b"] = <<Msg("register")>>
      BY <1>3, <2>4
    <3>2. t = <<>>
      BY <3>1 DEF t
    <3> QED BY <2>3, <2>4, <3>1, <3>2
  <2>6. \A p \in Node : /\ MasterOf(r, p) => MasterOf(k, p)
                        /\ NodeOf(r, p) => NodeOf(k, p)
    BY <2>3, <2>4 DEF MasterOf, NodeOf
  <2> HIDE DEF k
  <2> QED BY <1>0, <2>1, <2>2, <2>4, <2>5, <2>6, LinkPut DEF k
<1> QED BY <1>4, <1>5

\* A node has read a packet about nodes, and knows what it says.
LEMMA LearnLink ==
  ASSUME RegistryInv, LinkInv, NEW c \in Conns, NEW t \in {"sync_all", "sync_node"},
         Next1(c, "a", t), NEW n \in Node, n = conn[c].from,
         UNCHANGED <<info, active>>,
         conn'[c] = Read(conn[c], "a"),
         \A d \in Conns \ {c} : conn'[d] = conn[d] \/ conn'[d].to # Master,
         known'[n] = Start(known[n], conn[c].box["a"]) \cup Head(conn[c].box["a"]).nodes,
         dial'[n] \subseteq dial[n] \cup
           {m \in Head(conn[c].box["a"]).nodes \ Head(conn[c].box["a"]).excl : Needs(n, m)},
         \A p \in Node \ {n} : known'[p] = known[p] /\ dial'[p] = dial[p]
  PROVE  LinkInv'
<1> DEFINE k == conn[c]
           q == k.box["a"]
           h == Head(q)
           r == Read(k, "a")
<1>0. ConnShape /\ MasterInv /\ "a" \in Sides /\ "b" \in Sides /\ "a" # "b"
  BY DEF RegistryInv, Sides
<1>1. /\ Sound(k) /\ q # <<>> /\ IsUp(k, "a") /\ k.to = Master /\ h.t = t
      /\ h \in Registry(n)
  BY <1>0, NextIs
<1>2. Phase(k) /\ k.box \in [Sides -> Seq(AnyPacket)] /\ q \in Seq(AnyPacket)
  BY <1>0, <1>1 DEF LinkInv, Sound, Connection
<1>3. /\ r.from = k.from /\ r.to = k.to /\ r.end = k.end /\ r.id = k.id
      /\ r.box["a"] = Tail(q) /\ r.box["b"] = k.box["b"]
  <2> DEFINE u == Tail(q)
  <2>1. r.from = k.from /\ r.to = k.to /\ r.end = k.end /\ r.id = k.id /\ r.box = [k.box EXCEPT !["a"] = u]
    BY <1>0, <1>1, ReadSound
  <2> HIDE DEF u, r, q
  <2>2. r.box["a"] = u /\ r.box["b"] = k.box["b"]
    BY <1>0, <1>2, <2>1
  <2> QED BY <2>1, <2>2 DEF u
<1>4. ASSUME k.end["a"] = "up", IsUp(k, "b")
      PROVE  /\ k.id["b"] # 0 /\ k.box["b"] = <<>>
             /\ \A i \in 1 .. Len(q) : q[i].t = "sync_node" \/ (i = 1 /\ q[i].t = "sync_all")
  <2>1. q # <<Msg("sync_master")>>
    <3> SUFFICES ASSUME q = <<Msg("sync_master")>> PROVE FALSE
      OBVIOUS
    <3>1. PICK x : x = Msg("sync_master")
      OBVIOUS
    <3>2. Head(<<x>>) = x
      OBVIOUS
    <3>3. h = x
      BY <3>1, <3>2
    <3>4. x.t = "sync_master"
      BY <3>1 DEF Msg
    <3> QED BY <1>1, <3>3, <3>4
  <2> QED BY <1>1, <1>2, <1>4, <2>1 DEF Phase
<1>5. h = q[1] /\ 1 \in 1 .. Len(q)
  BY <1>1, <1>2
<1> HIDE DEF r, h, q, k
<1>6. conn'[c] = r
  BY DEF r, k
<1>7. Phase(r)
  <2> SUFFICES ASSUME r.end["a"] = "up", IsUp(r, "b")
               PROVE  /\ r.id["b"] # 0 /\ r.box["b"] = <<>>
                      /\ \A i \in 1 .. Len(r.box["a"]) :
                           r.box["a"][i].t = "sync_node" \/ (i = 1 /\ r.box["a"][i].t = "sync_all")
    BY DEF Phase
  <2>1. k.end["a"] = "up" /\ IsUp(k, "b")
    BY <1>3 DEF IsUp
  <2>2. /\ k.id["b"] # 0 /\ k.box["b"] = <<>>
        /\ \A i \in 1 .. Len(q) : q[i].t = "sync_node" \/ (i = 1 /\ q[i].t = "sync_all")
    BY <1>4, <2>1
  <2>3. \A i \in 1 .. Len(Tail(q)) : i + 1 \in 1 .. Len(q) /\ i + 1 # 1 /\ Tail(q)[i] = q[i + 1]
    BY <1>1, <1>2
  <2>4. \A i \in 1 .. Len(Tail(q)) : Tail(q)[i].t = "sync_node"
    BY <2>2, <2>3
  <2> QED BY <1>3, <2>2, <2>4
<1>8. \A d \in Conns : Phase(conn'[d])
  <2> SUFFICES ASSUME NEW d \in Conns PROVE Phase(conn'[d])
    OBVIOUS
  <2>1. CASE d = c
    BY <1>6, <1>7, <2>1
  <2>2. CASE d # c /\ conn'[d] = conn[d]
    BY <2>2 DEF LinkInv
  <2>3. CASE d # c /\ conn'[d].to # Master
    BY <2>3, NoPhase
  <2> QED BY <2>1, <2>2, <2>3
<1>9. \A d \in Conns : \A p \in Node : MasterOf(conn'[d], p) => MasterOf(conn[d], p)
  <2> SUFFICES ASSUME NEW d \in Conns, NEW p \in Node, MasterOf(conn'[d], p) PROVE MasterOf(conn[d], p)
    OBVIOUS
  <2>1. CASE d = c
    BY <1>3, <1>6, <2>1 DEF MasterOf, k
  <2>2. CASE d # c
    BY <2>2 DEF MasterOf
  <2> QED BY <2>1, <2>2
<1>10. ActiveInv'
  BY <1>9 DEF LinkInv, ActiveInv
<1>11. LearnInv'
  <2> SUFFICES ASSUME NEW p \in Node, NEW d \in Conns, NodeOf(conn'[d], p), conn'[d].end["a"] = "up",
                      NEW m \in Node
               PROVE  m \in info' \ {p} <=> WillKnow(known'[p], conn'[d].box["a"], m)
    BY DEF LearnInv
  <2>1. CASE d = c
    <3>1. NodeOf(k, p) /\ k.end["a"] = "up"
      BY <1>3, <1>6, <2>1 DEF NodeOf
    <3>2. p = n /\ IsUp(k, "b")
      <4>1. k.from = p /\ IsUp(k, "b")
        BY <1>1, <3>1, NodeIs
      <4> QED BY <4>1 DEF k
    <3>3. m \in info \ {n} <=> WillKnow(known[n], q, m)
      BY <3>1, <3>2 DEF LinkInv, LearnInv, k, q
    <3>4. \A i \in 1 .. Len(q) : q[i].t = "sync_node" \/ (i = 1 /\ q[i].t = "sync_all")
      BY <1>4, <3>1, <3>2
    <3>5. WillKnow(Start(known[n], q) \cup q[1].nodes, Tail(q), m) <=> WillKnow(known[n], q, m)
      BY <1>1, <1>2, <3>4, KnowTail
    <3>6. known'[n] = Start(known[n], q) \cup q[1].nodes
      BY <1>5 DEF q, k, h
    <3>7. conn'[d].box["a"] = Tail(q)
      BY <1>3, <1>6, <2>1
    <3> QED BY <3>2, <3>3, <3>5, <3>6, <3>7
  <2>2. CASE d # c
    <3>1. conn'[d] = conn[d]
      BY <2>2 DEF NodeOf
    <3>2. p # n
      <4>1. conn[d].from = p /\ conn[d].to = Master
        BY <1>0, <3>1, NodeIs DEF ConnShape
      <4>2. MasterOf(conn[d], p)
        BY <3>1, <4>1 DEF MasterOf
      <4>3. MasterOf(conn[c], n)
        BY <1>1 DEF MasterOf, IsUp, k
      <4> QED BY <2>2, <4>2, <4>3 DEF LinkInv, ActiveInv
    <3>3. m \in info \ {p} <=> WillKnow(known[p], conn[d].box["a"], m)
      BY <3>1 DEF LinkInv, LearnInv
    <3> QED BY <3>1, <3>2, <3>3
  <2> QED BY <2>1, <2>2
<1>12. DialInv'
  <2>1. \A m \in dial'[n] : Needs(n, m) /\ ~isExcludeConnectNode(n, m)
    <3>1. \A m \in h.nodes \ h.excl : ~isExcludeConnectNode(n, m)
      BY <1>1, RegistryIs
    <3>2. dial'[n] \subseteq dial[n] \cup {m \in h.nodes \ h.excl : Needs(n, m)}
      BY DEF h, q, k
    <3> QED BY <3>1, <3>2 DEF LinkInv, DialInv
  <2> QED BY <2>1 DEF LinkInv, DialInv
<1> QED BY <1>8, <1>10, <1>11, <1>12 DEF LinkInv

\* The list of all nodes has come.
LEMMA SyncAllLink ==
  ASSUME RegistryInv, LinkInv, NEW c \in Conns, OnSyncAll(c)
  PROVE  LinkInv'
<1> DEFINE n == conn[c].from
           q == conn[c].box["a"]
           msg == Head(q)
           gone == known[n] \ msg.nodes
           new == msg.nodes \ known[n]
           old == known[n] \ gone
<1>0. ConnShape /\ NodeShape /\ Next1(c, "a", "sync_all") /\ "a" \in Sides
  BY DEF RegistryInv, OnSyncAll, Sides
<1>1. /\ n \in Node /\ msg \in Registry(n) /\ gone \subseteq Node
      /\ conn'[c] = Read(conn[c], "a")
      /\ \A d \in Conns \ {c} :
           conn'[d] = IF \E m \in gone : sock[n][m] = d THEN Unlink(conn[d], n) ELSE conn[d]
      /\ \A d \in Conns : \A m \in gone : sock[n][m] = d => PeerOf(conn[d], n, m)
  BY SyncAllIs
<1>2. /\ Added(n, new, msg.excl, old)
      /\ UNCHANGED <<info, msock, active, mconn, faults>>
  BY DEF OnSyncAll, masterVars, toMaster, Gone
<1>3. msg.nodes \subseteq Node \ {n}
  BY <1>1, RegistryIs
<1>4. new \subseteq Node \ {n} /\ old \subseteq known[n] /\ old \cup new = msg.nodes /\ new \subseteq msg.nodes
  BY <1>3
<1>5. Start(known[n], q) = {}
  <2>1. Head(q).t = "sync_all" /\ q # <<>> /\ q \in Seq(AnyPacket)
    BY <1>0, NextIs DEF ConnShape, Connection
  <2> HIDE DEF q
  <2>2. Head(q) = q[1]
    BY <2>1
  <2> QED BY <2>1, <2>2 DEF Start
<1>6. \A d \in Conns \ {c} : conn'[d] = conn[d] \/ conn'[d].to # Master
  <2> SUFFICES ASSUME NEW d \in Conns \ {c}, NEW m \in gone, sock[n][m] = d,
                      conn'[d] = Unlink(conn[d], n)
               PROVE  conn'[d].to # Master
    BY <1>1
  <2>1. PeerOf(conn[d], n, m) /\ m \in Node /\ Sound(conn[d])
    BY <1>0, <1>1 DEF ConnShape
  <2> QED BY <1>1, <2>1, UnlinkIs DEF PeerOf
<1> HIDE DEF new, old, gone, msg
<1>7. /\ known'[n] = old \cup new
      /\ dial'[n] = (dial[n] \cap old) \cup {m \in new \ msg.excl : Needs(n, m)}
      /\ \A p \in Node \ {n} : known'[p] = known[p] /\ dial'[p] = dial[p]
  BY <1>0, <1>1, <1>2, <1>4, AddedShape
<1>8. known'[n] = Start(known[n], q) \cup msg.nodes
  BY <1>4, <1>5, <1>7
<1>9. dial'[n] \subseteq dial[n] \cup {m \in msg.nodes \ msg.excl : Needs(n, m)}
  BY <1>4, <1>7
<1>10. PICK p \in Node : p = n
  BY <1>1
<1>11. /\ known'[p] = Start(known[p], conn[c].box["a"]) \cup Head(conn[c].box["a"]).nodes
       /\ dial'[p] \subseteq dial[p] \cup
           {m \in Head(conn[c].box["a"]).nodes \ Head(conn[c].box["a"]).excl : Needs(p, m)}
       /\ \A x \in Node \ {p} : known'[x] = known[x] /\ dial'[x] = dial[x]
       /\ p = conn[c].from
  BY <1>7, <1>8, <1>9, <1>10 DEF msg
<1> HIDE DEF n, q
<1>12. "sync_all" \in {"sync_all", "sync_node"} /\ UNCHANGED <<info, active>>
  BY <1>2
<1> QED BY <1>0, <1>1, <1>6, <1>11, <1>12, LearnLink

\* A node has come.
LEMMA SyncNodeLink ==
  ASSUME RegistryInv, LinkInv, NEW c \in Conns, OnSyncNode(c)
  PROVE  LinkInv'
<1> DEFINE n == conn[c].from
           q == conn[c].box["a"]
           msg == Head(q)
           new == msg.nodes \ known[n]
<1>0. ConnShape /\ NodeShape /\ Next1(c, "a", "sync_node") /\ "a" \in Sides
  BY DEF RegistryInv, OnSyncNode, Sides
<1>1. n \in Node /\ msg \in Registry(n) /\ msg.t = "sync_node" /\ q # <<>>
  BY <1>0, NextIs
<1>2. /\ Added(n, new, msg.excl, known[n])
      /\ UNCHANGED <<info, msock, active, mconn, faults>>
  BY DEF OnSyncNode, masterVars, toMaster
<1>3. msg.nodes \subseteq Node \ {n}
  BY <1>1, RegistryIs
<1>4. new \subseteq Node \ {n} /\ known[n] \cup new = known[n] \cup msg.nodes /\ new \subseteq msg.nodes
  BY <1>3
<1>5. Start(known[n], q) = known[n]
  <2>1. Head(q).t = "sync_node" /\ q # <<>> /\ q \in Seq(AnyPacket)
    BY <1>0, <1>1 DEF ConnShape, Connection
  <2> HIDE DEF q
  <2>2. Head(q) = q[1]
    BY <2>1
  <2> QED BY <2>1, <2>2 DEF Start
<1>6. conn' = Put(c, Read(conn[c], "a"))
  BY <1>0, OnOne DEF OnSyncNode, ConnShape
<1>7. conn'[c] = Read(conn[c], "a") /\ \A d \in Conns \ {c} : conn'[d] = conn[d]
  BY <1>0, <1>6 DEF Put, ConnShape
<1> HIDE DEF new, msg
<1>8. /\ known'[n] = known[n] \cup new
      /\ dial'[n] = (dial[n] \cap known[n]) \cup {m \in new \ msg.excl : Needs(n, m)}
      /\ \A p \in Node \ {n} : known'[p] = known[p] /\ dial'[p] = dial[p]
  BY <1>0, <1>1, <1>2, <1>4, AddedShape
<1>9. known'[n] = Start(known[n], q) \cup msg.nodes
  BY <1>4, <1>5, <1>8
<1>10. dial'[n] \subseteq dial[n] \cup {m \in msg.nodes \ msg.excl : Needs(n, m)}
  BY <1>4, <1>8
<1>11. PICK p \in Node : p = n
  BY <1>1
<1>12. /\ known'[p] = Start(known[p], conn[c].box["a"]) \cup Head(conn[c].box["a"]).nodes
       /\ dial'[p] \subseteq dial[p] \cup
           {m \in Head(conn[c].box["a"]).nodes \ Head(conn[c].box["a"]).excl : Needs(p, m)}
       /\ \A x \in Node \ {p} : known'[x] = known[x] /\ dial'[x] = dial[x]
       /\ p = conn[c].from
  BY <1>8, <1>9, <1>10, <1>11 DEF msg
<1> HIDE DEF n, q
<1>13. "sync_node" \in {"sync_all", "sync_node"} /\ UNCHANGED <<info, active>>
  BY <1>2
<1> QED BY <1>0, <1>7, <1>12, <1>13, LearnLink

-----------------------------------------------------------------------------
(* The theorems about the conversation.                                    *)

\* Nothing has been said at first.
LEMMA InitLink == Init => LinkInv
<1> SUFFICES ASSUME Init PROVE LinkInv
  OBVIOUS
<1>1. \A c \in Conns : conn[c] = NoConn
  BY DEF Init
<1>2. NoConn.end["a"] = "down" /\ \A n \in Node : ~NodeOf(NoConn, n)
  BY NoConnSound, NoIds DEF Sides
<1>3. Phase(NoConn) /\ \A n \in Node : ~MasterOf(NoConn, n)
  BY <1>2, NoPhase DEF MasterOf
<1>4. DialInv
  BY DEF Init, DialInv
<1> QED BY <1>1, <1>2, <1>3, <1>4 DEF LinkInv, ActiveInv, LearnInv

\* Every step keeps it.
LEMMA LinkStep == RegistryInv /\ LinkInv /\ [Next]_vars => LinkInv'
<1> SUFFICES ASSUME RegistryInv, LinkInv, [Next]_vars PROVE LinkInv'
  OBVIOUS
<1>1. ASSUME NEW n \in Node, CheckConnectMaster(n) PROVE LinkInv'
  BY <1>1, ConnectLink
<1>2. ASSUME NEW n \in Node, NEW m \in Node, CheckConnectNode(n, m) PROVE LinkInv'
  BY <1>2, ConnectLink
<1>3. ASSUME NEW c \in Conns, Connected(c) PROVE LinkInv'
  BY <1>3, ConnectedLink
<1>4. ASSUME NEW c \in Conns, Refused(c) PROVE LinkInv'
  BY <1>4, RefusedLink
<1>5. ASSUME NEW c \in Conns, DispatchA(c) PROVE LinkInv'
  BY <1>5, SyncMasterLink, SyncAllLink, SyncNodeLink, HandshakeLink DEF DispatchA
<1>6. ASSUME NEW c \in Conns, DispatchB(c) PROVE LinkInv'
  BY <1>6, RegisterLink, HandshakeLink DEF DispatchB
<1>7. ASSUME NEW c \in Conns, NEW s \in Sides, Disconnect(c, s) PROVE LinkInv'
  BY <1>7, DisconnectLink
<1>8. ASSUME NEW c \in Conns, Cut(c) PROVE LinkInv'
  BY <1>8, CutLink
<1>9. ASSUME NEW n \in Node, CrashNode(n) PROVE LinkInv'
  BY <1>9, CrashNodeLink
<1>10. CASE CrashMaster
  BY <1>10, CrashMasterLink
<1>11. CASE UNCHANGED vars
  <2>1. UNCHANGED <<conn, info, msock, active, mconn, known, dial, sock, told, faults>>
    BY <1>11 DEF vars, masterVars, toMaster, proxyVars
  <2>2. \A d \in Conns : Phase(conn'[d])
    BY <2>1 DEF LinkInv
  <2> QED BY <2>1, <2>2, LinkQuiet
<1> QED
  BY <1>1, <1>2, <1>3, <1>4, <1>5, <1>6, <1>7, <1>8, <1>9, <1>10, <1>11 DEF Next

\* What it says of one connection to the master and of what is known.
LEMMA LinkSays ==
  ASSUME RegistryInv, LinkInv
  PROVE  OneMaster /\ KnowsAll
<1>0. ConnShape /\ MasterShape /\ NodeShape /\ MasterInv /\ 0 \notin Node
  BY RegistryAssumption DEF RegistryInv, Node
<1>1. OneMaster
  <2> SUFFICES ASSUME NEW c \in Conns, NEW d \in Conns,
                      conn[c].to = Master, conn[c].end["a"] # "down",
                      conn[d].to = Master, conn[d].end["a"] # "down",
                      conn[c].from = conn[d].from, conn[c].from # 0
               PROVE  c = d
    BY DEF OneMaster
  <2>1. conn[c].from \in Node
    <3>1. Sound(conn[c]) /\ ~Absent(conn[c])
      BY <1>0 DEF ConnShape, Absent
    <3> QED BY <3>1 DEF Sound
  <2> QED BY <2>1 DEF LinkInv, ActiveInv, MasterOf
<1>2. KnowsAll
  <2> SUFFICES ASSUME NEW n \in Node, Caught(n) PROVE known[n] = info \ {n}
    BY DEF KnowsAll
  <2> DEFINE c == msock[n]
  <2>1. c # 0 /\ conn[c].end["a"] = "up" /\ conn[c].box["a"] = <<>>
    BY DEF Caught
  <2>2. c \in Conns
    BY <1>0, <2>1 DEF MasterShape
  <2>3. NodeOf(conn[c], n)
    BY <1>0, <2>2 DEF MasterInv
  <2>4. \A m \in Node : m \in info \ {n} <=> WillKnow(known[n], <<>>, m)
    BY <2>1, <2>2, <2>3 DEF LinkInv, LearnInv
  <2>5. \A m : WillKnow(known[n], <<>>, m) <=> m \in known[n]
    BY DEF WillKnow, Start
  <2>6. known[n] \subseteq Node /\ info \subseteq Node
    BY <1>0 DEF NodeShape, MasterShape
  <2> QED BY <2>4, <2>5, <2>6
<1> QED BY <1>1, <1>2

\* A node never has two connections to the master (bActive covers the attempt),
\* and a registered node that has read its packets knows exactly the nodes the
\* master knows (addNode sends the list to the new one and the new one to all).
THEOREM MasterKnown == Spec => [](OneMaster /\ KnowsAll)
<1>1. Init => RegistryInv /\ LinkInv
  BY InitInv, InitLink
<1>2. RegistryInv /\ LinkInv /\ [Next]_vars => (RegistryInv /\ LinkInv)'
  BY RegistryStep, LinkStep
<1>3. RegistryInv /\ LinkInv => OneMaster /\ KnowsAll
  BY LinkSays
<1> QED BY <1>1, <1>2, <1>3, PTL DEF Spec

\* A node that needs another one by its type needs it by its name too.
NeededByName == \A n, m \in Node : Type[m] \in ConnectType[n] => Name[m] \in ConnectName[n]

\* Where nodes need each other by name, one of two dials: isExcludeConnectNode
\* does not look at the types that are needed (the assumption says that it need not).
LEMMA DialSays ==
  ASSUME NeededByName, LinkInv
  PROVE  OneDials
<1> SUFFICES ASSUME NEW n \in Node, NEW m \in Node, m \in dial[n], n \in dial[m] PROVE FALSE
  BY DEF OneDials
<1>1. /\ Needs(n, m) /\ ~isExcludeConnectNode(n, m)
      /\ Needs(m, n) /\ ~isExcludeConnectNode(m, n)
  BY DEF LinkInv, DialInv
<1>2. AsksByName(n, m) /\ AsksByName(m, n)
  BY <1>1 DEF Needs, NeededByName, AsksByName
<1>3. ~(n >= m) /\ ~(m >= n)
  BY <1>1, <1>2 DEF isExcludeConnectNode
<1> QED BY <1>3, RegistryAssumption DEF Node

\* Two nodes never dial each other, a node has one connection to the master, and
\* it knows the nodes the master knows, for any number of nodes that need each
\* other by name (isExcludeConnectNode, onCheckConnectMaster, addNode).
THEOREM LinkedOnce ==
  ASSUME NeededByName
  PROVE  Spec => []OneLink
<1>1. Init => RegistryInv /\ LinkInv
  BY InitInv, InitLink
<1>2. RegistryInv /\ LinkInv /\ [Next]_vars => (RegistryInv /\ LinkInv)'
  BY RegistryStep, LinkStep
<1>3. RegistryInv /\ LinkInv => OneLink
  BY LinkSays, DialSays DEF OneLink
<1> QED BY <1>1, <1>2, <1>3, PTL DEF Spec

=============================================================================
