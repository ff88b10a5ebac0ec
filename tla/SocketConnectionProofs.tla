---------------------- MODULE SocketConnectionProofs ----------------------
(***************************************************************************)
(* What the net thread and the service know of a connection fits together, *)
(* for any number of connections and messages: no pointer to a deleted     *)
(* CCoreConnection, no packet before its connection or after its end.      *)
(***************************************************************************)
EXTENDS SocketConnection, SequenceTheorems, TLAPS

\* The commands the net thread has still to run, in their order.
Commanded == batch \o netq

\* What is in a queue about connection c; a queue in which nothing of F comes
\* behind anything of c, and only what is in K behind what is in L.
TypesOf(q, c) == {q[i].type : i \in {j \in 1 .. Len(q) : q[j].c = c}}
Ordered(q, c, F, L, K) ==
  \A i, j \in 1 .. Len(q) : i < j /\ q[i].c = c /\ q[j].c = c =>
    q[j].type \notin F /\ (q[i].type \in L => q[j].type \in K)

Cmds(c) == TypesOf(Commanded, c)
Pkts(c) == TypesOf(lgq, c)
CmdsOrdered(c) == Ordered(Commanded, c, {"CONNECT", "CONNECT_ACK"}, {"DISCONNECT_ACK"}, {"SEND2"})
PktsOrdered(c) == Ordered(lgq, c, {"CONNECT", "CONNECT_FAIL"}, {"DISCONNECT", "CONNECT_FAIL"}, {})

\* The socket and the CCoreConnection.
SockInv(c) ==
  /\ sock[c] \in {"none", "trying", "failing"} => core[c] = "absent"
  /\ sock[c] = "accepted" => core[c] = "eCCS_None" /\ c \in Passive
  /\ sock[c] \in {"trying", "failing"} => c \in Active
  /\ sock[c] \in {"open", "draining", "closing"} => core[c] \in {"eCCS_Connectting", "eCCS_Connected"}
  /\ sock[c] = "released" => core[c] \in {"absent", "eCCS_Disconnecting", "deleted"}

\* The CCoreConnection and the CBaseConnection.
Unborn(c) == core[c] \in {"absent", "eCCS_None"}
BaseInv(c) ==
  /\ Unborn(c) => base[c] = "absent" /\ Pkts(c) \subseteq {"CONNECT_FAIL"}
  /\ base[c] = "absent" => Cmds(c) \subseteq {"CONNECT"}
  /\ base[c] = "absent" /\ ~Unborn(c) => "CONNECT" \in Pkts(c)
  /\ base[c] = "gone" => Pkts(c) = {} /\ sock[c] = "released"
  /\ core[c] = "deleted" => /\ base[c] \in {"refused", "gone"}
                            /\ Pkts(c) = {} /\ Cmds(c) \subseteq {"SEND2"}

\* What a message on the way says of the rest.
PacketInv(c) ==
  /\ "CONNECT" \in Pkts(c) => base[c] = "absent" /\ Cmds(c) = {} /\ answer[c] = 0
  /\ "DISCONNECT" \in Pkts(c) => sock[c] = "released"
  /\ "CONNECT_FAIL" \in Pkts(c) => core[c] = "absent" /\ c \in Active /\ answer[c] = 0
  /\ "DISCONNECT_ACK" \in Cmds(c) => base[c] \in {"refused", "gone"} /\ sock[c] = "released" /\ Pkts(c) = {}

\* The answer to connect is on one of its ways, or has been given.
AnswerInv(c) ==
  /\ "CONNECT" \in Cmds(c) => c \in Active /\ sock[c] = "none" /\ Pkts(c) = {} /\ answer[c] = 0
  /\ sock[c] \in {"trying", "failing"} => Pkts(c) = {} /\ Cmds(c) = {} /\ answer[c] = 0
  /\ c \in Active /\ ~asked[c] => sock[c] = "none" /\ Pkts(c) = {} /\ Cmds(c) = {} /\ answer[c] = 0
  /\ c \in Passive => answer[c] = 0

ConnInv(c) ==
  /\ SockInv(c) /\ BaseInv(c) /\ PacketInv(c) /\ AnswerInv(c)
  /\ CmdsOrdered(c) /\ PktsOrdered(c)

BatchInv == phase # "commands" => batch = <<>>

\* The inductive invariant.
Inv == TypeOK /\ BatchInv /\ \A c \in Conns : ConnInv(c)

-----------------------------------------------------------------------------
(* Queues.                                                                 *)

\* What Append and Tail do to a queue.
LEMMA QueueOps ==
  ASSUME NEW S, NEW q \in Seq(S), NEW m \in S
  PROVE  /\ Append(q, m) \in Seq(S) /\ Len(Append(q, m)) = Len(q) + 1
         /\ \A i \in 1 .. Len(q) : i \in 1 .. Len(Append(q, m)) /\ Append(q, m)[i] = q[i]
         /\ Append(q, m)[Len(q) + 1] = m /\ Len(q) + 1 \in 1 .. Len(Append(q, m))
         /\ \A i \in 1 .. Len(Append(q, m)) : i \in 1 .. Len(q) \/ i = Len(q) + 1
         /\ q # <<>> => /\ Tail(q) \in Seq(S) /\ Head(q) \in S /\ Head(q) = q[1] /\ 1 \in 1 .. Len(q)
                        /\ Len(Tail(q)) = Len(q) - 1
                        /\ \A i \in 1 .. Len(Tail(q)) : i + 1 \in 1 .. Len(q) /\ Tail(q)[i] = q[i + 1]
                        /\ \A i \in 1 .. Len(q) : i = 1 \/ (i - 1 \in 1 .. Len(Tail(q)) /\ Tail(q)[i - 1] = q[i])
OBVIOUS

\* A message put at the end is the last of its connection.
LEMMA AppendTypes ==
  ASSUME NEW S, NEW q \in Seq(S), NEW m \in S
  PROVE  /\ TypesOf(Append(q, m), m.c) = TypesOf(q, m.c) \cup {m.type}
         /\ \A d : d # m.c => TypesOf(Append(q, m), d) = TypesOf(q, d)
<1>1. ASSUME NEW d PROVE TypesOf(q, d) \subseteq TypesOf(Append(q, m), d)
  BY QueueOps DEF TypesOf
<1>2. m.type \in TypesOf(Append(q, m), m.c)
  BY QueueOps DEF TypesOf
<1>3. ASSUME NEW d, NEW t \in TypesOf(Append(q, m), d)
      PROVE  t \in TypesOf(q, d) \/ (d = m.c /\ t = m.type)
  <2>1. PICK i \in 1 .. Len(Append(q, m)) : Append(q, m)[i].c = d /\ Append(q, m)[i].type = t
    BY <1>3 DEF TypesOf
  <2>2. CASE i \in 1 .. Len(q)
    BY <2>1, <2>2, QueueOps DEF TypesOf
  <2>3. CASE i = Len(q) + 1
    BY <2>1, <2>3, QueueOps
  <2> QED
    BY <2>1, <2>2, <2>3, QueueOps
<1>4. TypesOf(Append(q, m), m.c) = TypesOf(q, m.c) \cup {m.type}
  BY <1>1, <1>2, <1>3
<1>5. ASSUME NEW d, d # m.c PROVE TypesOf(Append(q, m), d) = TypesOf(q, d)
  <2>1. TypesOf(Append(q, m), d) \subseteq TypesOf(q, d)
    BY <1>3, <1>5
  <2>2. \A X, Y : X \subseteq Y /\ Y \subseteq X => X = Y
    OBVIOUS
  <2> QED
    BY <1>1, <2>1, <2>2
<1> QED
  BY <1>4, <1>5

\* A queue stays in order when what is appended may stand behind what is in it.
LEMMA AppendOrdered ==
  ASSUME NEW S, NEW q \in Seq(S), NEW m \in S, NEW d, NEW F, NEW L, NEW K, Ordered(q, d, F, L, K),
         d = m.c => /\ m.type \in F => TypesOf(q, d) = {}
                    /\ TypesOf(q, d) \cap L # {} => m.type \in K
  PROVE  Ordered(Append(q, m), d, F, L, K)
<1> DEFINE p == Append(q, m)
<1> SUFFICES ASSUME NEW i \in 1 .. Len(p), NEW j \in 1 .. Len(p), i < j, p[i].c = d, p[j].c = d
             PROVE  p[j].type \notin F /\ (p[i].type \in L => p[j].type \in K)
  BY DEF Ordered
<1>1. Len(q) \in Nat /\ Len(p) = Len(q) + 1
  OBVIOUS
<1>2. i \in 1 .. Len(q) /\ p[i] = q[i]
  BY <1>1, QueueOps
<1>3. CASE j \in 1 .. Len(q)
  <2>1. p[j] = q[j]
    BY <1>3, QueueOps
  <2> QED
    BY <1>2, <1>3, <2>1 DEF Ordered
<1>4. CASE j = Len(q) + 1
  <2>1. p[j] = m
    BY <1>4, QueueOps
  <2>2. p[i].type \in TypesOf(q, d)
    BY <1>2 DEF TypesOf
  <2> QED
    BY <2>1, <2>2
<1> QED
  BY <1>1, <1>3, <1>4

\* The message taken from the front is the first of its connection.
LEMMA TailTypes ==
  ASSUME NEW S, NEW q \in Seq(S), q # <<>>
  PROVE  /\ TypesOf(q, Head(q).c) = TypesOf(Tail(q), Head(q).c) \cup {Head(q).type}
         /\ \A d : d # Head(q).c => TypesOf(Tail(q), d) = TypesOf(q, d)
<1>0. PICK m \in S : m = Head(q)
  BY QueueOps
<1>1. ASSUME NEW d PROVE TypesOf(Tail(q), d) \subseteq TypesOf(q, d)
  BY <1>0, QueueOps DEF TypesOf
<1>2. m.type \in TypesOf(q, m.c)
  BY <1>0, QueueOps DEF TypesOf
<1>3. ASSUME NEW d, NEW t \in TypesOf(q, d)
      PROVE  t \in TypesOf(Tail(q), d) \/ (d = m.c /\ t = m.type)
  <2>1. PICK i \in 1 .. Len(q) : q[i].c = d /\ q[i].type = t
    BY <1>3 DEF TypesOf
  <2>2. CASE i = 1
    BY <1>0, <2>1, <2>2, QueueOps
  <2>3. CASE i # 1
    <3>1. i - 1 \in 1 .. Len(Tail(q)) /\ Tail(q)[i - 1] = q[i]
      BY <1>0, <2>3, QueueOps
    <3> QED
      BY <2>1, <3>1 DEF TypesOf
  <2> QED
    BY <2>2, <2>3
<1>4. TypesOf(q, m.c) = TypesOf(Tail(q), m.c) \cup {m.type}
  BY <1>1, <1>2, <1>3
<1>5. ASSUME NEW d, d # m.c PROVE TypesOf(Tail(q), d) = TypesOf(q, d)
  <2>1. TypesOf(q, d) \subseteq TypesOf(Tail(q), d)
    BY <1>3, <1>5
  <2>2. \A X, Y : X \subseteq Y /\ Y \subseteq X => X = Y
    OBVIOUS
  <2> QED
    BY <1>1, <2>1, <2>2
<1> QED
  BY <1>0, <1>4, <1>5

\* The rest of a queue is in order, and may stand behind what was taken from it.
LEMMA TailOrdered ==
  ASSUME NEW S, NEW q \in Seq(S), q # <<>>, NEW d, NEW F, NEW L, NEW K, Ordered(q, d, F, L, K)
  PROVE  /\ Ordered(Tail(q), d, F, L, K)
         /\ d = Head(q).c => /\ TypesOf(Tail(q), d) \cap F = {}
                             /\ Head(q).type \in L => TypesOf(Tail(q), d) \subseteq K
<1>0. PICK m \in S : m = Head(q) /\ m = q[1] /\ 1 \in 1 .. Len(q)
  BY QueueOps
<1>1. \A i \in 1 .. Len(Tail(q)) : i \in Int /\ i + 1 \in 1 .. Len(q) /\ 1 < i + 1 /\ Tail(q)[i] = q[i + 1]
  BY <1>0, QueueOps
<1>2. Ordered(Tail(q), d, F, L, K)
  <2> SUFFICES ASSUME NEW i \in 1 .. Len(Tail(q)), NEW j \in 1 .. Len(Tail(q)),
                      i < j, Tail(q)[i].c = d, Tail(q)[j].c = d
               PROVE  Tail(q)[j].type \notin F /\ (Tail(q)[i].type \in L => Tail(q)[j].type \in K)
    BY DEF Ordered
  <2>1. i + 1 < j + 1
    OBVIOUS
  <2> QED
    BY <1>1, <2>1 DEF Ordered
<1>3. ASSUME d = m.c, NEW t \in TypesOf(Tail(q), d)
      PROVE  t \notin F /\ (m.type \in L => t \in K)
  <2>1. PICK i \in 1 .. Len(Tail(q)) : Tail(q)[i].c = d /\ Tail(q)[i].type = t
    BY <1>3 DEF TypesOf
  <2> QED
    BY <1>0, <1>1, <1>3, <2>1 DEF Ordered
<1> QED
  BY <1>0, <1>2, <1>3

\* An empty queue has no message of any connection.
LEMMA NoTypes == \A d : TypesOf(<<>>, d) = {}
BY DEF TypesOf

\* What leaves the queues a connection knows alone.
CmdsStay(d) == Cmds(d)' = Cmds(d) /\ (CmdsOrdered(d) => CmdsOrdered(d)')
PktsStay(d) == Pkts(d)' = Pkts(d) /\ (PktsOrdered(d) => PktsOrdered(d)')

\* What CNetRunnable has still to do is a sequence of commands.
LEMMA CommandedType == TypeOK => Commanded \in Seq(Commands)
BY DEF TypeOK, Commanded

\* A command goes to the end of what the net thread has to run.
LEMMA SentIs ==
  ASSUME TypeOK, NEW type, NEW c \in Conns, Msg(type, c) \in Commands,
         netq' = Append(netq, Msg(type, c)), batch' = batch
  PROVE  Commanded' = Append(Commanded, Msg(type, c))
<1> DEFINE m == Msg(type, c)
<1>1. /\ Commanded \in Seq(Commands) /\ netq \in Seq(Commands) /\ batch \in Seq(Commands)
      /\ m \in Commands
  BY CommandedType DEF TypeOK
<1>2. <<m>> \in Seq(Commands)
  OBVIOUS
<1>3. Append(netq, m) = netq \o <<m>> /\ Append(batch \o netq, m) = (batch \o netq) \o <<m>>
  BY <1>1, <1>2, AppendIsConcat, ConcatProperties
<1>4. (batch \o netq) \o <<m>> = batch \o (netq \o <<m>>)
  BY <1>1, <1>2, ConcatAssociative
<1> QED
  BY <1>3, <1>4 DEF Commanded

\* A command goes to the net thread.
LEMMA Sent ==
  ASSUME TypeOK, NEW type, NEW c \in Conns, Msg(type, c) \in Commands,
         netq' = Append(netq, Msg(type, c)), batch' = batch
  PROVE  /\ netq' \in Seq(Commands)
         /\ Cmds(c)' = Cmds(c) \cup {type}
         /\ \A d \in Conns : d # c => CmdsStay(d)
         /\ /\ CmdsOrdered(c) /\ (type \in {"CONNECT", "CONNECT_ACK"} => Cmds(c) = {})
            /\ "DISCONNECT_ACK" \in Cmds(c) => type = "SEND2"
            => CmdsOrdered(c)'
<1> DEFINE m == Msg(type, c)
<1>1. m.c = c /\ m.type = type
  BY DEF Msg
<1>2. /\ Commanded \in Seq(Commands) /\ netq \in Seq(Commands) /\ batch \in Seq(Commands)
      /\ m \in Commands
  BY CommandedType DEF TypeOK
<1>3. Commanded' = Append(Commanded, m)
  BY SentIs
<1>4. netq' \in Seq(Commands)
  BY <1>2
<1>5. Cmds(c)' = Cmds(c) \cup {type} /\ \A d : d # c => Cmds(d)' = Cmds(d)
  <2>0. PICK q \in Seq(Commands) : q = Commanded
    BY <1>2
  <2>1. /\ TypesOf(Append(q, m), m.c) = TypesOf(q, m.c) \cup {m.type}
        /\ \A d : d # m.c => TypesOf(Append(q, m), d) = TypesOf(q, d)
    BY <1>2, AppendTypes
  <2> QED
    BY <1>1, <1>3, <2>0, <2>1 DEF Cmds
<1>6. ASSUME NEW d, CmdsOrdered(d),
             d = c => /\ type \in {"CONNECT", "CONNECT_ACK"} => Cmds(c) = {}
                      /\ "DISCONNECT_ACK" \in Cmds(c) => type = "SEND2"
      PROVE  CmdsOrdered(d)'
  <2>1. d = m.c => /\ m.type \in {"CONNECT", "CONNECT_ACK"} => TypesOf(Commanded, d) = {}
                   /\ TypesOf(Commanded, d) \cap {"DISCONNECT_ACK"} # {} => m.type \in {"SEND2"}
    BY <1>1, <1>6 DEF Cmds
  <2>2. Ordered(Commanded, d, {"CONNECT", "CONNECT_ACK"}, {"DISCONNECT_ACK"}, {"SEND2"})
    BY <1>6 DEF CmdsOrdered
  <2>3. Ordered(Append(Commanded, m), d, {"CONNECT", "CONNECT_ACK"}, {"DISCONNECT_ACK"}, {"SEND2"})
    BY <1>2, <2>1, <2>2, AppendOrdered
  <2> QED
    BY <1>3, <2>3 DEF CmdsOrdered
<1> QED
  BY <1>4, <1>5, <1>6 DEF CmdsStay

\* The net thread takes the next command of its batch: the first it has to run.
LEMMA RanIs ==
  ASSUME TypeOK, NEW type, NEW c, batch # <<>>, Head(batch) = Msg(type, c),
         batch' = Tail(batch), netq' = netq
  PROVE  /\ Commanded # <<>> /\ Head(Commanded) = Msg(type, c) /\ Commanded' = Tail(Commanded)
         /\ batch' \in Seq(Commands)
<1> DEFINE q == Commanded
<1>1. q \in Seq(Commands) /\ netq \in Seq(Commands) /\ batch \in Seq(Commands)
  BY CommandedType DEF TypeOK
<1>2. /\ Len(batch) \in Nat /\ Len(batch) > 0 /\ Len(netq) \in Nat
      /\ Len(q) = Len(batch) + Len(netq)
  BY <1>1 DEF Commanded
<1>3. q # <<>>
  BY <1>2
<1>4. Head(q) = Head(batch)
  BY <1>1, <1>2, <1>3 DEF Commanded
<1>5. Tail(q) = Tail(batch) \o netq
  <2>1. /\ Tail(q) \in Seq(Commands) /\ Tail(batch) \o netq \in Seq(Commands)
        /\ Len(Tail(q)) = Len(q) - 1 /\ Len(Tail(batch) \o netq) = Len(q) - 1
    BY <1>1, <1>2, <1>3, HeadTailProperties, ConcatProperties
  <2>2. ASSUME NEW i \in 1 .. Len(Tail(q)) PROVE Tail(q)[i] = (Tail(batch) \o netq)[i]
    BY <1>1, <1>2, <1>3, <2>1 DEF Commanded
  <2> QED
    BY <2>1, <2>2, SeqEqual
<1>6. Commanded' = Tail(Commanded)
  BY <1>5 DEF Commanded
<1>7. batch' \in Seq(Commands)
  BY <1>1
<1> HIDE DEF q
<1> QED
  BY <1>3, <1>4, <1>6, <1>7 DEF q

\* The net thread takes the next command of its batch.
LEMMA Ran ==
  ASSUME TypeOK, NEW type, NEW c \in Conns, batch # <<>>, Head(batch) = Msg(type, c),
         batch' = Tail(batch), netq' = netq
  PROVE  /\ batch' \in Seq(Commands)
         /\ Cmds(c) = Cmds(c)' \cup {type}
         /\ \A d \in Conns : d # c => CmdsStay(d)
         /\ CmdsOrdered(c) => /\ CmdsOrdered(c)'
                              /\ "CONNECT" \notin Cmds(c)' /\ "CONNECT_ACK" \notin Cmds(c)'
                              /\ type = "DISCONNECT_ACK" => Cmds(c)' \subseteq {"SEND2"}
<1> DEFINE q == Commanded
<1>1. q \in Seq(Commands) /\ netq \in Seq(Commands) /\ batch \in Seq(Commands)
  BY CommandedType DEF TypeOK
<1>2. q # <<>> /\ Head(q) = Msg(type, c) /\ Commanded' = Tail(q) /\ batch' \in Seq(Commands)
  BY RanIs
<1>3. Head(q).c = c /\ Head(q).type = type
  BY <1>2 DEF Msg
<1>4. Cmds(c) = Cmds(c)' \cup {type} /\ \A d : d # c => Cmds(d)' = Cmds(d)
  <2>1. /\ TypesOf(q, Head(q).c) = TypesOf(Tail(q), Head(q).c) \cup {Head(q).type}
        /\ \A d : d # Head(q).c => TypesOf(Tail(q), d) = TypesOf(q, d)
    BY <1>1, <1>2, TailTypes
  <2> QED
    BY <1>2, <1>3, <2>1 DEF Cmds
<1>5. ASSUME NEW d, CmdsOrdered(d)
      PROVE  /\ CmdsOrdered(d)'
             /\ d = c => /\ Cmds(c)' \cap {"CONNECT", "CONNECT_ACK"} = {}
                         /\ type = "DISCONNECT_ACK" => Cmds(c)' \subseteq {"SEND2"}
  <2>1. Ordered(q, d, {"CONNECT", "CONNECT_ACK"}, {"DISCONNECT_ACK"}, {"SEND2"})
    BY <1>5 DEF CmdsOrdered
  <2>2. /\ Ordered(Tail(q), d, {"CONNECT", "CONNECT_ACK"}, {"DISCONNECT_ACK"}, {"SEND2"})
        /\ d = Head(q).c =>
             /\ TypesOf(Tail(q), d) \cap {"CONNECT", "CONNECT_ACK"} = {}
             /\ Head(q).type \in {"DISCONNECT_ACK"} => TypesOf(Tail(q), d) \subseteq {"SEND2"}
    BY <1>1, <1>2, <2>1, TailOrdered
  <2> QED
    BY <1>2, <1>3, <2>2 DEF CmdsOrdered, Cmds
<1> QED
  BY <1>2, <1>4, <1>5 DEF CmdsStay

\* A packet goes to the service, or two of a connection of which there is none.
LEMMA Posted ==
  ASSUME TypeOK, NEW type, NEW c \in Conns, Msg(type, c) \in Packets,
         lgq' = Append(lgq, Msg(type, c))
  PROVE  /\ lgq' \in Seq(Packets)
         /\ Pkts(c)' = Pkts(c) \cup {type}
         /\ \A d \in Conns : d # c => PktsStay(d)
         /\ /\ PktsOrdered(c) /\ (type \in {"CONNECT", "CONNECT_FAIL"} => Pkts(c) = {})
            /\ "DISCONNECT" \notin Pkts(c) /\ "CONNECT_FAIL" \notin Pkts(c)
            => PktsOrdered(c)'
<1> DEFINE m == Msg(type, c)
<1>1. m.c = c /\ m.type = type
  BY DEF Msg
<1>2. lgq \in Seq(Packets) /\ lgq' = Append(lgq, m)
  BY DEF TypeOK
<1>3. lgq' \in Seq(Packets)
  BY <1>2
<1>4. Pkts(c)' = Pkts(c) \cup {type} /\ \A d : d # c => Pkts(d)' = Pkts(d)
  <2>1. /\ TypesOf(Append(lgq, m), m.c) = TypesOf(lgq, m.c) \cup {m.type}
        /\ \A d : d # m.c => TypesOf(Append(lgq, m), d) = TypesOf(lgq, d)
    BY <1>2, AppendTypes
  <2> QED
    BY <1>1, <1>2, <2>1 DEF Pkts
<1>5. ASSUME NEW d, PktsOrdered(d),
             d = c => /\ type \in {"CONNECT", "CONNECT_FAIL"} => Pkts(c) = {}
                      /\ "DISCONNECT" \notin Pkts(c) /\ "CONNECT_FAIL" \notin Pkts(c)
      PROVE  PktsOrdered(d)'
  <2>1. d = m.c => /\ m.type \in {"CONNECT", "CONNECT_FAIL"} => TypesOf(lgq, d) = {}
                   /\ TypesOf(lgq, d) \cap {"DISCONNECT", "CONNECT_FAIL"} # {} => m.type \in {}
    BY <1>1, <1>5 DEF Pkts
  <2>2. Ordered(lgq, d, {"CONNECT", "CONNECT_FAIL"}, {"DISCONNECT", "CONNECT_FAIL"}, {})
    BY <1>5 DEF PktsOrdered
  <2>3. Ordered(Append(lgq, m), d, {"CONNECT", "CONNECT_FAIL"}, {"DISCONNECT", "CONNECT_FAIL"}, {})
    BY <1>2, <2>1, <2>2, AppendOrdered
  <2> QED
    BY <1>2, <2>3 DEF PktsOrdered
<1> QED
  BY <1>3, <1>4, <1>5 DEF PktsStay

\* The service takes the next packet.
LEMMA Handled ==
  ASSUME TypeOK, NEW type, NEW c \in Conns, Packet(type, c)
  PROVE  /\ lgq' \in Seq(Packets)
         /\ Pkts(c) = Pkts(c)' \cup {type}
         /\ \A d \in Conns : d # c => PktsStay(d)
         /\ PktsOrdered(c) => /\ PktsOrdered(c)'
                              /\ "CONNECT" \notin Pkts(c)' /\ "CONNECT_FAIL" \notin Pkts(c)'
                              /\ type \in {"DISCONNECT", "CONNECT_FAIL"} => Pkts(c)' = {}
<1>1. lgq \in Seq(Packets) /\ lgq # <<>> /\ Head(lgq) = Msg(type, c) /\ lgq' = Tail(lgq)
  BY DEF TypeOK, Packet
<1>2. lgq' \in Seq(Packets)
  BY <1>1
<1>3. Head(lgq).c = c /\ Head(lgq).type = type
  BY <1>1 DEF Msg
<1>4. Pkts(c) = Pkts(c)' \cup {type} /\ \A d : d # c => Pkts(d)' = Pkts(d)
  <2>1. /\ TypesOf(lgq, Head(lgq).c) = TypesOf(Tail(lgq), Head(lgq).c) \cup {Head(lgq).type}
        /\ \A d : d # Head(lgq).c => TypesOf(Tail(lgq), d) = TypesOf(lgq, d)
    BY <1>1, TailTypes
  <2> QED
    BY <1>1, <1>3, <2>1 DEF Pkts
<1>5. ASSUME NEW d, PktsOrdered(d)
      PROVE  /\ PktsOrdered(d)'
             /\ d = c => /\ Pkts(c)' \cap {"CONNECT", "CONNECT_FAIL"} = {}
                         /\ type \in {"DISCONNECT", "CONNECT_FAIL"} => Pkts(c)' \subseteq {}
  <2>1. Ordered(lgq, d, {"CONNECT", "CONNECT_FAIL"}, {"DISCONNECT", "CONNECT_FAIL"}, {})
    BY <1>5 DEF PktsOrdered
  <2>2. /\ Ordered(Tail(lgq), d, {"CONNECT", "CONNECT_FAIL"}, {"DISCONNECT", "CONNECT_FAIL"}, {})
        /\ d = Head(lgq).c =>
             /\ TypesOf(Tail(lgq), d) \cap {"CONNECT", "CONNECT_FAIL"} = {}
             /\ Head(lgq).type \in {"DISCONNECT", "CONNECT_FAIL"} => TypesOf(Tail(lgq), d) \subseteq {}
    BY <1>1, <2>1, TailOrdered
  <2> QED
    BY <1>1, <1>3, <2>2 DEF PktsOrdered, Pkts
<1> QED
  BY <1>2, <1>4, <1>5 DEF PktsStay

\* A queue that is not touched.
LEMMA Untouched ==
  /\ UNCHANGED <<batch, netq>> => \A d \in Conns : CmdsStay(d)
  /\ UNCHANGED lgq => \A d \in Conns : PktsStay(d)
BY DEF CmdsStay, PktsStay, Cmds, Pkts, CmdsOrdered, PktsOrdered, Commanded

\* recvMessage swaps the queue of the net thread for its empty batch.
LEMMA Swapped ==
  ASSUME TypeOK, batch = <<>>, batch' = netq, netq' = <<>>
  PROVE  \A d \in Conns : CmdsStay(d)
<1>1. Commanded = netq /\ Commanded' = netq
  BY ConcatEmptySeq DEF Commanded, TypeOK
<1> QED
  BY <1>1 DEF CmdsStay, Cmds, CmdsOrdered

\* onProcess returns early: the rest of its batch is gone.
LEMMA Abandoned ==
  ASSUME TypeOK, batch' = <<>>, netq' = netq
  PROVE  \A d \in Conns : Cmds(d)' \subseteq Cmds(d) /\ (CmdsOrdered(d) => CmdsOrdered(d)')
<1>1. netq \in Seq(Commands) /\ batch \in Seq(Commands) /\ Commanded' = netq
  BY ConcatEmptySeq DEF Commanded, TypeOK
<1>2. /\ Len(batch) \in Nat
      /\ \A i \in 1 .. Len(netq) : /\ i + Len(batch) \in 1 .. Len(Commanded)
                                   /\ Commanded[i + Len(batch)] = netq[i]
  BY <1>1 DEF Commanded
<1>3. ASSUME NEW d PROVE Cmds(d)' \subseteq Cmds(d)
  BY <1>1, <1>2 DEF Cmds, TypesOf
<1>4. ASSUME NEW d, CmdsOrdered(d) PROVE CmdsOrdered(d)'
  <2> SUFFICES ASSUME NEW i \in 1 .. Len(netq), NEW j \in 1 .. Len(netq), i < j, netq[i].c = d, netq[j].c = d
               PROVE  /\ netq[j].type \notin {"CONNECT", "CONNECT_ACK"}
                      /\ netq[i].type \in {"DISCONNECT_ACK"} => netq[j].type \in {"SEND2"}
    BY <1>1 DEF CmdsOrdered, Ordered
  <2>1. i + Len(batch) < j + Len(batch)
    BY <1>2
  <2> QED
    BY <1>2, <1>4, <2>1 DEF CmdsOrdered, Ordered
<1> QED
  BY <1>3, <1>4

-----------------------------------------------------------------------------
(* The invariant implies what the runs check.                              *)

\* A command on its way to CNetRunnable is one of its connection's commands.
LEMMA InFlightCmds ==
  ASSUME TypeOK, NEW type, NEW c
  PROVE  Msg(type, c) \in InFlight => type \in Cmds(c)
<1> SUFFICES ASSUME Msg(type, c) \in InFlight PROVE type \in Cmds(c)
  OBVIOUS
<1>1. netq \in Seq(Commands) /\ batch \in Seq(Commands)
  BY DEF TypeOK
<1>2. PICK i \in 1 .. Len(Commanded) : Commanded[i] = Msg(type, c)
  <2>1. CASE Msg(type, c) \in Range(netq)
    <3>1. PICK j \in 1 .. Len(netq) : netq[j] = Msg(type, c)
      BY <1>1, <2>1 DEF Range
    <3>2. j + Len(batch) \in 1 .. Len(Commanded) /\ Commanded[j + Len(batch)] = netq[j]
      BY <1>1, <3>1 DEF Commanded
    <3> QED
      BY <3>1, <3>2
  <2>2. CASE Msg(type, c) \in Range(batch)
    <3>1. PICK j \in 1 .. Len(batch) : batch[j] = Msg(type, c)
      BY <1>1, <2>2 DEF Range
    <3>2. j \in 1 .. Len(Commanded) /\ Commanded[j] = batch[j]
      BY <1>1, <3>1 DEF Commanded
    <3> QED
      BY <3>1, <3>2
  <2> QED
    BY <2>1, <2>2 DEF InFlight
<1> QED
  BY <1>2 DEF Cmds, TypesOf, Msg

\* The invariant implies that no pointer dangles ...
LEMMA InvNoDangling == Inv => NoDangling
<1> SUFFICES ASSUME Inv, NEW c \in Conns, ~Exists(c)
             PROVE  /\ \A type \in {"SEND1", "CONNECT_ACK", "CONNECT_NAK"} : Msg(type, c) \notin InFlight
                    /\ Msg("CONNECT", c) \notin Range(lgq)
                    /\ base[c] # "open"
  BY DEF NoDangling
<1>1. core[c] \in {"absent", "deleted"} /\ BaseInv(c) /\ TypeOK
  BY DEF Exists, Inv, ConnInv
<1>2. Cmds(c) \subseteq {"CONNECT", "SEND2"} /\ "CONNECT" \notin Pkts(c) /\ base[c] # "open"
  BY <1>1 DEF BaseInv, Unborn
<1>3. Msg("CONNECT", c) \in Range(lgq) => "CONNECT" \in Pkts(c)
  <2>1. ASSUME NEW i \in 1 .. Len(lgq), lgq[i] = Msg("CONNECT", c) PROVE "CONNECT" \in Pkts(c)
    BY <2>1 DEF Pkts, TypesOf, Msg
  <2>2. lgq \in Seq(Packets)
    BY <1>1 DEF TypeOK
  <2> QED
    BY <2>1, <2>2 DEF Range
<1> QED
  BY <1>1, <1>2, <1>3, InFlightCmds

\* ... that a message finds its CBaseConnection ...
LEMMA InvRecv == Inv => RecvFindsBase
<1> SUFFICES ASSUME Inv, NEW c \in Conns, lgq # <<>>, Head(lgq) = Msg("RECV", c)
             PROVE  base[c] \in {"open", "refused"}
  BY DEF RecvFindsBase
<1>1. lgq \in Seq(Packets) /\ Head(lgq).c = c /\ Head(lgq).type = "RECV"
  BY DEF Inv, TypeOK, Msg
<1>2. Ordered(lgq, c, {"CONNECT", "CONNECT_FAIL"}, {"DISCONNECT", "CONNECT_FAIL"}, {})
  BY DEF Inv, ConnInv, PktsOrdered
<1>3. Pkts(c) = TypesOf(Tail(lgq), c) \cup {"RECV"}
  BY <1>1, TailTypes DEF Pkts
<1>4. TypesOf(Tail(lgq), c) \cap {"CONNECT", "CONNECT_FAIL"} = {}
  BY <1>1, <1>2, TailOrdered
<1>5. "RECV" \in Pkts(c) /\ "CONNECT" \notin Pkts(c)
  BY <1>3, <1>4
<1>6. BaseInv(c) /\ base[c] \in {"absent", "open", "refused", "gone"}
  BY DEF Inv, ConnInv, TypeOK
<1> QED
  BY <1>5, <1>6 DEF BaseInv

\* ... and that nothing overtakes the acknowledgement.
LEMMA InvAckFirst == Inv => AckFirst
<1> SUFFICES ASSUME Inv, NEW c \in Conns, NEW i \in DOMAIN netq, NEW j \in DOMAIN netq,
                    netq[i] = Msg("CONNECT_ACK", c), netq[j].c = c, ~(i <= j)
             PROVE  FALSE
  BY DEF AckFirst
<1>1. netq \in Seq(Commands) /\ batch \in Seq(Commands)
  BY DEF Inv, TypeOK
<1>2. i \in 1 .. Len(netq) /\ j \in 1 .. Len(netq) /\ j < i
  BY <1>1
<1>3. /\ i + Len(batch) \in 1 .. Len(Commanded) /\ j + Len(batch) \in 1 .. Len(Commanded)
      /\ Commanded[i + Len(batch)] = netq[i] /\ Commanded[j + Len(batch)] = netq[j]
      /\ j + Len(batch) < i + Len(batch)
  BY <1>1, <1>2 DEF Commanded
<1>4. netq[i].c = c /\ netq[i].type = "CONNECT_ACK"
  BY DEF Msg
<1>5. CmdsOrdered(c)
  BY DEF Inv, ConnInv
<1> QED
  BY <1>3, <1>4, <1>5 DEF CmdsOrdered, Ordered

\* At the start there are no connections and the queues are empty.
LEMMA InitInv == Init => Inv
<1> SUFFICES ASSUME Init PROVE Inv
  OBVIOUS
<1>1. TypeOK /\ BatchInv
  BY SocketAssumption DEF Init, TypeOK, BatchInv, Socks, Cores
<1>2. ASSUME NEW c \in Conns PROVE ConnInv(c)
  <2>1. Commanded = <<>> /\ lgq = <<>>
    BY ConcatEmptySeq DEF Init, Commanded
  <2>2. Cmds(c) = {} /\ Pkts(c) = {}
    BY <2>1, NoTypes DEF Cmds, Pkts
  <2>3. CmdsOrdered(c) /\ PktsOrdered(c)
    BY <2>1 DEF CmdsOrdered, PktsOrdered, Ordered
  <2>4. SockInv(c) /\ BaseInv(c)
    BY <2>2 DEF Init, SockInv, BaseInv, Unborn
  <2>5. PacketInv(c) /\ AnswerInv(c)
    BY <2>2 DEF Init, PacketInv, AnswerInv
  <2> QED
    BY <2>3, <2>4, <2>5 DEF ConnInv
<1> QED
  BY <1>1, <1>2 DEF Inv

-----------------------------------------------------------------------------
(* Steps.                                                                  *)

SameAt(d) ==
  /\ sock'[d] = sock[d] /\ core'[d] = core[d] /\ base'[d] = base[d]
  /\ asked'[d] = asked[d] /\ answer'[d] = answer[d]

\* A step of another connection, or one that loses commands.
LEMMA StayInv ==
  ASSUME NEW d, ConnInv(d), SameAt(d),
         Cmds(d)' \subseteq Cmds(d), CmdsOrdered(d)', Pkts(d)' = Pkts(d), PktsOrdered(d)'
  PROVE  ConnInv(d)'
<1> USE DEF ConnInv, SameAt
<1>1. SockInv(d)'
  BY DEF SockInv
<1>2. BaseInv(d)'
  BY DEF BaseInv, Unborn
<1>3. PacketInv(d)' /\ AnswerInv(d)'
  BY DEF PacketInv, AnswerInv
<1> QED
  BY <1>1, <1>2, <1>3

\* A step that touches nothing the invariant is about, but for one connection.
LEMMA OthersInv ==
  ASSUME Inv, NEW C, \A d \in Conns : d \notin C => SameAt(d) /\ CmdsStay(d) /\ PktsStay(d)
  PROVE  \A d \in Conns : d \notin C => ConnInv(d)'
<1> SUFFICES ASSUME NEW d \in Conns, d \notin C PROVE ConnInv(d)'
  OBVIOUS
<1>1. ConnInv(d) /\ SameAt(d) /\ CmdsStay(d) /\ PktsStay(d)
  BY DEF Inv
<1>2. /\ Cmds(d)' \subseteq Cmds(d) /\ CmdsOrdered(d)'
      /\ Pkts(d)' = Pkts(d) /\ PktsOrdered(d)'
  BY <1>1 DEF CmdsStay, PktsStay, ConnInv
<1> QED
  BY <1>1, <1>2, StayInv

\* A step that touches no connection keeps what holds of each.
LEMMA AllStay ==
  ASSUME Inv, \A d \in Conns : SameAt(d) /\ CmdsStay(d) /\ PktsStay(d)
  PROVE  \A d \in Conns : ConnInv(d)'
<1> SUFFICES ASSUME NEW d \in Conns PROVE ConnInv(d)'
  OBVIOUS
<1>1. ConnInv(d) /\ SameAt(d) /\ CmdsStay(d) /\ PktsStay(d)
  BY DEF Inv
<1>2. /\ Cmds(d)' \subseteq Cmds(d) /\ CmdsOrdered(d)'
      /\ Pkts(d)' = Pkts(d) /\ PktsOrdered(d)'
  BY <1>1 DEF CmdsStay, PktsStay, ConnInv
<1> QED
  BY <1>1, <1>2, StayInv

-----------------------------------------------------------------------------
(* The service.                                                            *)

\* The service asks for a connection (CBaseConnectionMgr::connect).
LEMMA ConnectInv ==
  ASSUME Inv, NEW c \in Conns, Connect(c)
  PROVE  Inv'
<1>1. /\ c \in Active /\ ~asked[c] /\ asked' = [asked EXCEPT ![c] = TRUE]
      /\ netq' = Append(netq, Msg("CONNECT", c)) /\ batch' = batch
      /\ UNCHANGED <<sock, pend, core, base, closing, kicked, answer, phase, lgq, wrote, heard>>
  BY DEF Connect, netVars, sockVars, bounds
<1>2. TypeOK /\ BatchInv /\ ConnInv(c) /\ Msg("CONNECT", c) \in Commands
  BY DEF Inv, Commands, Msg
<1>3. /\ netq' \in Seq(Commands) /\ Cmds(c)' = Cmds(c) \cup {"CONNECT"}
      /\ \A d \in Conns : d # c => CmdsStay(d)
      /\ CmdsOrdered(c) /\ Cmds(c) = {} => CmdsOrdered(c)'
  BY <1>1, <1>2, Sent
<1>4. \A d \in Conns : PktsStay(d)
  BY <1>1, Untouched
<1>5. TypeOK' /\ BatchInv'
  BY <1>1, <1>2, <1>3 DEF TypeOK, BatchInv
<1>6. \A d \in Conns : d # c => SameAt(d)
  BY <1>1, <1>2 DEF SameAt, TypeOK
<1>7. \A d \in Conns : d \notin {c} => ConnInv(d)'
  BY <1>3, <1>4, <1>6, OthersInv
<1>8. ConnInv(c)'
  <2>1. /\ sock[c] = "none" /\ Pkts(c) = {} /\ Cmds(c) = {} /\ answer[c] = 0
        /\ core[c] = "absent" /\ base[c] = "absent" /\ asked'[c] = TRUE /\ c \notin Passive
    BY <1>1, <1>2, SocketAssumption DEF ConnInv, AnswerInv, SockInv, BaseInv, Unborn, TypeOK
  <2>2. Cmds(c)' = {"CONNECT"} /\ Pkts(c)' = {} /\ CmdsOrdered(c)' /\ PktsOrdered(c)'
    BY <1>2, <1>3, <1>4, <2>1 DEF ConnInv, PktsStay
  <2>3. SockInv(c)' /\ BaseInv(c)'
    BY <1>1, <2>1, <2>2 DEF SockInv, BaseInv, Unborn
  <2>4. PacketInv(c)' /\ AnswerInv(c)'
    BY <1>1, <2>1, <2>2 DEF PacketInv, AnswerInv
  <2> QED
    BY <2>2, <2>3, <2>4 DEF ConnInv
<1> QED
  BY <1>5, <1>7, <1>8 DEF Inv

\* A CBaseConnection that is open sends to its socket, or shuts it down; by id
\* one that is gone may be sent to as well.
LEMMA OpenSends ==
  ASSUME Inv, NEW c \in Conns, NEW type \in {"SEND1", "SEND2", "SHUTDOWN", "SHUTDOWN_FORCE"},
         base[c] = "open" \/ (base[c] = "gone" /\ type = "SEND2"),
         netq' = Append(netq, Msg(type, c)), batch' = batch,
         UNCHANGED <<sock, core, base, asked, answer, phase, lgq>>
  PROVE  netq' \in Seq(Commands) /\ BatchInv' /\ \A d \in Conns : ConnInv(d)'
<1>2. TypeOK /\ BatchInv /\ ConnInv(c) /\ Msg(type, c) \in Commands
  BY DEF Inv, Commands, Msg
<1>3. /\ netq' \in Seq(Commands) /\ Cmds(c)' = Cmds(c) \cup {type}
      /\ \A d \in Conns : d # c => CmdsStay(d)
      /\ CmdsOrdered(c) /\ ("DISCONNECT_ACK" \in Cmds(c) => type = "SEND2") => CmdsOrdered(c)'
  BY <1>2, Sent
<1>4. \A d \in Conns : PktsStay(d)
  BY Untouched
<1>5. BatchInv'
  BY <1>2 DEF BatchInv
<1>7. \A d \in Conns : d \notin {c} => ConnInv(d)'
  <2>1. \A d \in Conns : SameAt(d)
    BY DEF SameAt
  <2> QED
    BY <1>3, <1>4, <2>1, OthersInv
<1>8. ConnInv(c)'
  <2>1. CmdsOrdered(c)' /\ Pkts(c)' = Pkts(c) /\ PktsOrdered(c)'
    BY <1>2, <1>3, <1>4 DEF ConnInv, PacketInv, PktsStay
  <2>2. SockInv(c)'
    BY <1>2 DEF ConnInv, SockInv
  <2>3. BaseInv(c)'
    BY <1>2, <1>3, <2>1 DEF ConnInv, BaseInv, Unborn
  <2>4. PacketInv(c)'
    BY <1>2, <1>3, <2>1 DEF ConnInv, PacketInv
  <2>5. AnswerInv(c)'
    <3>1. ~Unborn(c)
      BY <1>2 DEF ConnInv, BaseInv
    <3>2. sock[c] \notin {"none", "trying", "failing"}
      BY <1>2, <3>1 DEF ConnInv, SockInv, Unborn
    <3> QED
      BY <1>2, <1>3, <2>1, <3>2 DEF ConnInv, AnswerInv
  <2> QED
    BY <2>1, <2>2, <2>3, <2>4, <2>5 DEF ConnInv
<1> QED
  BY <1>3, <1>5, <1>7, <1>8

\* The service sends by pointer or by id.
LEMMA SendInv ==
  ASSUME Inv, NEW c \in Conns, Send(c) \/ SendByID(c)
  PROVE  Inv'
<1>1. PICK type \in {"SEND1", "SEND2"} :
        /\ base[c] = "open" \/ (base[c] = "gone" /\ type = "SEND2")
        /\ netq' = Append(netq, Msg(type, c)) /\ batch' = batch
        /\ wrote < MaxData /\ wrote' = wrote + 1
        /\ UNCHANGED <<sock, pend, core, base, closing, kicked, asked, answer, phase, lgq, heard>>
  BY DEF Send, SendByID, netVars, sockVars, logicVars
<1>2. netq' \in Seq(Commands) /\ BatchInv' /\ \A d \in Conns : ConnInv(d)'
  BY <1>1, OpenSends
<1>3. TypeOK'
  BY <1>1, <1>2, SocketAssumption DEF Inv, TypeOK
<1> QED
  BY <1>2, <1>3 DEF Inv

\* The service ends a connection (CBaseConnection::shutdown).
LEMMA ShutdownInv ==
  ASSUME Inv, NEW c \in Conns, NEW force \in BOOLEAN, Shutdown(c, force)
  PROVE  Inv'
<1>1. /\ base[c] = "open" /\ kicked' = [kicked EXCEPT ![c] = @ \/ force] /\ batch' = batch
      /\ UNCHANGED <<sock, pend, core, base, asked, answer, phase, lgq, wrote, heard>>
  BY DEF Shutdown, netVars, sockVars, bounds
<1>2. CASE closing[c]
  <2>1. closing' = closing /\ netq' = netq
    BY <1>2 DEF Shutdown
  <2>2. TypeOK' /\ BatchInv'
    BY <1>1, <2>1 DEF Inv, TypeOK, BatchInv
  <2>3. \A d \in Conns : ConnInv(d)'
    <3>1. \A d \in Conns : SameAt(d)
      BY <1>1 DEF SameAt
    <3>2. \A d \in Conns : CmdsStay(d) /\ PktsStay(d)
      BY <1>1, <2>1, Untouched
    <3> QED
      BY <3>1, <3>2, AllStay
  <2> QED
    BY <2>2, <2>3 DEF Inv
<1>3. CASE ~closing[c]
  <2>1. PICK type \in {"SHUTDOWN", "SHUTDOWN_FORCE"} :
          closing' = [closing EXCEPT ![c] = TRUE] /\ netq' = Append(netq, Msg(type, c))
    BY <1>3 DEF Shutdown
  <2>2. netq' \in Seq(Commands) /\ BatchInv' /\ \A d \in Conns : ConnInv(d)'
    BY <1>1, <2>1, OpenSends
  <2>3. TypeOK'
    BY <1>1, <2>1, <2>2 DEF Inv, TypeOK
  <2> QED
    BY <2>2, <2>3 DEF Inv
<1> QED
  BY <1>2, <1>3

\* onConnect gives the connection its CBaseConnection, or refuses it.
LEMMA OnConnectInv ==
  ASSUME Inv, NEW c \in Conns, OnConnect(c)
  PROVE  Inv'
<1>1. PICK type \in {"CONNECT_ACK", "CONNECT_NAK"}, b \in {"open", "refused"} :
        /\ Packet("CONNECT", c) /\ base' = [base EXCEPT ![c] = b]
        /\ netq' = Append(netq, Msg(type, c)) /\ batch' = batch
        /\ answer' = [answer EXCEPT ![c] = IF c \in Active THEN @ + 1 ELSE @]
        /\ UNCHANGED <<sock, pend, core, closing, kicked, asked, phase, wrote, heard>>
  <2>1. netq \o AckOf(c) = Append(netq, Msg("CONNECT_ACK", c))
    BY DEF AckOf, Inv, TypeOK
  <2> QED
    BY <2>1 DEF OnConnect, netVars, sockVars, bounds
<1>2. TypeOK /\ BatchInv /\ ConnInv(c) /\ Msg(type, c) \in Commands
  BY DEF Inv, Commands, Msg
<1>3. /\ lgq' \in Seq(Packets) /\ Pkts(c) = Pkts(c)' \cup {"CONNECT"}
      /\ \A d \in Conns : d # c => PktsStay(d)
      /\ PktsOrdered(c) => PktsOrdered(c)' /\ "CONNECT" \notin Pkts(c)' /\ "CONNECT_FAIL" \notin Pkts(c)'
  BY <1>1, <1>2, Handled
<1>4. /\ base[c] = "absent" /\ Cmds(c) = {} /\ answer[c] = 0 /\ ~Unborn(c)
      /\ core[c] \notin {"absent", "eCCS_None", "deleted"}
  <2>1. "CONNECT" \in Pkts(c)
    BY <1>3
  <2> QED
    BY <1>2, <2>1 DEF ConnInv, PacketInv, BaseInv, Unborn
<1>5. /\ netq' \in Seq(Commands) /\ Cmds(c)' = {type}
      /\ \A d \in Conns : d # c => CmdsStay(d)
      /\ CmdsOrdered(c) => CmdsOrdered(c)'
  BY <1>1, <1>2, <1>4, Sent
<1>6. /\ base'[c] = b /\ answer'[c] \in 0 .. 1 /\ (c \in Passive => answer'[c] = 0)
      /\ base' \in [Conns -> {"absent", "open", "refused", "gone"}] /\ answer' \in [Conns -> 0 .. 1]
  BY <1>1, <1>2, <1>4, SocketAssumption DEF TypeOK
<1>7. TypeOK' /\ BatchInv'
  BY <1>1, <1>2, <1>3, <1>5, <1>6 DEF TypeOK, BatchInv
<1>8. \A d \in Conns : d \notin {c} => ConnInv(d)'
  <2>1. \A d \in Conns : d # c => SameAt(d)
    BY <1>1, <1>2 DEF SameAt, TypeOK
  <2> QED
    BY <1>3, <1>5, <2>1, OthersInv
<1>9. ConnInv(c)'
  <2>1. SockInv(c)' /\ CmdsOrdered(c)' /\ PktsOrdered(c)'
    BY <1>1, <1>2, <1>3, <1>5 DEF ConnInv, SockInv
  <2>2. BaseInv(c)'
    BY <1>1, <1>4, <1>6 DEF BaseInv, Unborn
  <2>3. PacketInv(c)'
    BY <1>1, <1>2, <1>3, <1>5, <1>6 DEF ConnInv, PacketInv
  <2>4. AnswerInv(c)'
    <3>1. sock[c] \notin {"none", "trying", "failing"}
      BY <1>2, <1>4 DEF ConnInv, SockInv
    <3> QED
      BY <1>1, <1>2, <1>5, <1>6, <3>1 DEF ConnInv, AnswerInv
  <2> QED
    BY <2>1, <2>2, <2>3, <2>4 DEF ConnInv
<1> QED
  BY <1>7, <1>8, <1>9 DEF Inv

\* A connect that failed is reported.
LEMMA OnConnectFailInv ==
  ASSUME Inv, NEW c \in Conns, OnConnectFail(c)
  PROVE  Inv'
<1>1. /\ Packet("CONNECT_FAIL", c) /\ answer' = [answer EXCEPT ![c] = @ + 1]
      /\ UNCHANGED <<sock, pend, core, base, closing, kicked, asked, netq, batch, phase, wrote, heard>>
  BY DEF OnConnectFail, netVars, sockVars, bounds
<1>2. TypeOK /\ BatchInv /\ ConnInv(c)
  BY DEF Inv
<1>3. /\ lgq' \in Seq(Packets) /\ Pkts(c) = Pkts(c)' \cup {"CONNECT_FAIL"}
      /\ \A d \in Conns : d # c => PktsStay(d)
      /\ PktsOrdered(c) => PktsOrdered(c)' /\ Pkts(c)' = {}
  BY <1>1, <1>2, Handled
<1>4. \A d \in Conns : CmdsStay(d)
  BY <1>1, Untouched
<1>5. /\ core[c] = "absent" /\ c \in Active /\ answer[c] = 0 /\ c \notin Passive
      /\ base[c] = "absent" /\ Cmds(c) = {} /\ sock[c] \notin {"trying", "failing"} /\ asked[c]
  <2>1. "CONNECT_FAIL" \in Pkts(c) /\ Pkts(c) # {}
    BY <1>3
  <2> QED
    BY <1>2, <2>1, SocketAssumption DEF ConnInv, PacketInv, BaseInv, AnswerInv, Unborn
<1>6. answer'[c] = 1 /\ answer' \in [Conns -> 0 .. 1]
  BY <1>1, <1>2, <1>5 DEF TypeOK
<1>7. TypeOK' /\ BatchInv'
  BY <1>1, <1>2, <1>3, <1>6 DEF TypeOK, BatchInv
<1>8. \A d \in Conns : d \notin {c} => ConnInv(d)'
  <2>1. \A d \in Conns : d # c => SameAt(d)
    BY <1>1, <1>2 DEF SameAt, TypeOK
  <2> QED
    BY <1>3, <1>4, <2>1, OthersInv
<1>9. ConnInv(c)'
  <2>1. Cmds(c)' = {} /\ Pkts(c)' = {} /\ CmdsOrdered(c)' /\ PktsOrdered(c)' /\ SockInv(c)'
    BY <1>1, <1>2, <1>3, <1>4, <1>5 DEF ConnInv, SockInv, CmdsStay
  <2>2. BaseInv(c)' /\ PacketInv(c)' /\ AnswerInv(c)'
    BY <1>1, <1>5, <2>1 DEF BaseInv, PacketInv, AnswerInv, Unborn
  <2> QED
    BY <2>1, <2>2 DEF ConnInv
<1> QED
  BY <1>7, <1>8, <1>9 DEF Inv

\* The CBaseConnection goes before the net thread is told.
LEMMA OnDisconnectInv ==
  ASSUME Inv, NEW c \in Conns, OnDisconnect(c)
  PROVE  Inv'
<1>1. /\ Packet("DISCONNECT", c) /\ base' = [base EXCEPT ![c] = IF @ = "open" THEN "gone" ELSE @]
      /\ netq' = Append(netq, Msg("DISCONNECT_ACK", c)) /\ batch' = batch
      /\ UNCHANGED <<sock, pend, core, closing, kicked, asked, answer, phase, wrote, heard>>
  <2>1. netq \o DisconnectAnswer(c) = Append(netq, Msg("DISCONNECT_ACK", c))
    BY DEF DisconnectAnswer, Inv, TypeOK
  <2> QED
    BY <2>1 DEF OnDisconnect, ReleaseBase, netVars, sockVars, bounds
<1>2. TypeOK /\ BatchInv /\ ConnInv(c) /\ Msg("DISCONNECT_ACK", c) \in Commands
  BY DEF Inv, Commands, Msg
<1>3. /\ lgq' \in Seq(Packets) /\ Pkts(c) = Pkts(c)' \cup {"DISCONNECT"}
      /\ \A d \in Conns : d # c => PktsStay(d)
      /\ PktsOrdered(c)' /\ Pkts(c)' = {} /\ "CONNECT" \notin Pkts(c)
  <2>1. /\ lgq' \in Seq(Packets) /\ Pkts(c) = Pkts(c)' \cup {"DISCONNECT"}
        /\ \A d \in Conns : d # c => PktsStay(d)
        /\ PktsOrdered(c) => PktsOrdered(c)' /\ Pkts(c)' = {}
    BY <1>1, <1>2, Handled
  <2> QED
    BY <1>2, <2>1 DEF ConnInv
<1>4. /\ sock[c] = "released" /\ base[c] \in {"open", "refused"} /\ ~Unborn(c)
      /\ core[c] # "deleted" /\ "DISCONNECT_ACK" \notin Cmds(c) /\ "CONNECT" \notin Cmds(c)
  <2>1. "DISCONNECT" \in Pkts(c) /\ Pkts(c) # {}
    BY <1>3
  <2>2. base[c] \in {"absent", "open", "refused", "gone"}
    BY <1>2 DEF TypeOK
  <2> QED
    BY <1>2, <1>3, <2>1, <2>2 DEF ConnInv, PacketInv, BaseInv, AnswerInv
<1>5. /\ netq' \in Seq(Commands) /\ Cmds(c)' = Cmds(c) \cup {"DISCONNECT_ACK"}
      /\ \A d \in Conns : d # c => CmdsStay(d)
      /\ CmdsOrdered(c) => CmdsOrdered(c)'
  BY <1>1, <1>2, <1>4, Sent
<1>6. base'[c] \in {"refused", "gone"} /\ base' \in [Conns -> {"absent", "open", "refused", "gone"}]
  BY <1>1, <1>2, <1>4 DEF TypeOK
<1>7. TypeOK' /\ BatchInv'
  BY <1>1, <1>2, <1>3, <1>5, <1>6 DEF TypeOK, BatchInv
<1>8. \A d \in Conns : d \notin {c} => ConnInv(d)'
  <2>1. \A d \in Conns : d # c => SameAt(d)
    BY <1>1, <1>2 DEF SameAt, TypeOK
  <2> QED
    BY <1>3, <1>5, <2>1, OthersInv
<1>9. ConnInv(c)'
  <2>1. SockInv(c)' /\ CmdsOrdered(c)' /\ PktsOrdered(c)'
    BY <1>1, <1>2, <1>3, <1>5 DEF ConnInv, SockInv
  <2>2. BaseInv(c)'
    BY <1>1, <1>3, <1>4, <1>6 DEF BaseInv, Unborn
  <2>3. PacketInv(c)'
    BY <1>1, <1>3, <1>4, <1>6 DEF PacketInv
  <2>4. AnswerInv(c)'
    BY <1>1, <1>2, <1>3, <1>4, <1>5 DEF ConnInv, AnswerInv
  <2> QED
    BY <2>1, <2>2, <2>3, <2>4 DEF ConnInv
<1> QED
  BY <1>7, <1>8, <1>9 DEF Inv

\* The service handles a message (CBaseConnectionMgr::onRecv).
LEMMA OnRecvInv ==
  ASSUME Inv, NEW c \in Conns, OnRecv(c)
  PROVE  Inv'
<1>1. /\ Packet("RECV", c)
      /\ UNCHANGED <<sock, pend, core, base, closing, kicked, asked, answer, netq, batch, phase, wrote, heard>>
  BY DEF OnRecv, netVars, sockVars, logicVars, bounds
<1>2. TypeOK /\ BatchInv /\ ConnInv(c)
  BY DEF Inv
<1>3. /\ lgq' \in Seq(Packets) /\ Pkts(c) = Pkts(c)' \cup {"RECV"}
      /\ \A d \in Conns : d # c => PktsStay(d)
      /\ PktsOrdered(c) => PktsOrdered(c)'
  BY <1>1, <1>2, Handled
<1>4. \A d \in Conns : CmdsStay(d)
  BY <1>1, Untouched
<1>5. TypeOK' /\ BatchInv'
  BY <1>1, <1>2, <1>3 DEF TypeOK, BatchInv
<1>6. \A d \in Conns : d \notin {c} => ConnInv(d)'
  <2>1. \A d \in Conns : d # c => SameAt(d)
    BY <1>1 DEF SameAt
  <2> QED
    BY <1>3, <1>4, <2>1, OthersInv
<1>7. ConnInv(c)'
  <2>1. Cmds(c)' = Cmds(c) /\ CmdsOrdered(c)' /\ PktsOrdered(c)' /\ SockInv(c)'
    BY <1>1, <1>2, <1>3, <1>4 DEF ConnInv, SockInv, CmdsStay
  <2>2. BaseInv(c)' /\ PacketInv(c)' /\ AnswerInv(c)'
    BY <1>1, <1>2, <1>3, <2>1 DEF ConnInv, BaseInv, PacketInv, AnswerInv, Unborn
  <2> QED
    BY <2>1, <2>2 DEF ConnInv
<1> QED
  BY <1>5, <1>6, <1>7 DEF Inv

-----------------------------------------------------------------------------
(* The net thread: sockets.                                                *)

\* The socket of a connection moves on, or the send buffer of one; nothing else.
LEMMA SocketMoves ==
  ASSUME Inv, NEW c \in Conns, NEW v \in Socks,
         \/ sock[c] \in {"open", "draining", "closing"} /\ v \in {"open", "draining", "closing"}
         \/ sock[c] = "trying" /\ v = "failing"
         \/ v = sock[c],
         sock' = [sock EXCEPT ![c] = v], CmdsStay(c), PktsStay(c),
         UNCHANGED <<core, base, asked, answer>>
  PROVE  ConnInv(c)'
<1>1. ConnInv(c) /\ sock'[c] = v
  BY DEF Inv, TypeOK
<1>2. /\ Cmds(c)' = Cmds(c) /\ Pkts(c)' = Pkts(c) /\ CmdsOrdered(c)' /\ PktsOrdered(c)'
  BY <1>1 DEF CmdsStay, PktsStay, ConnInv
<1>3. SockInv(c)'
  BY <1>1 DEF ConnInv, SockInv
<1>4. BaseInv(c)' /\ PacketInv(c)' /\ AnswerInv(c)'
  BY <1>1, <1>2 DEF ConnInv, BaseInv, PacketInv, AnswerInv, Unborn
<1> QED
  BY <1>2, <1>3, <1>4 DEF ConnInv

\* The steps of the net thread that move a socket without a word to anybody.
LEMMA SilentInv ==
  ASSUME Inv, NEW c \in Conns, ConnectError(c) \/ PeerClose(c) \/ Flush(c) \/ SocketError(c)
  PROVE  Inv'
<1>1. PICK v \in Socks :
        /\ \/ sock[c] \in {"open", "draining", "closing"} /\ v \in {"open", "draining", "closing"}
           \/ sock[c] = "trying" /\ v = "failing"
           \/ v = sock[c]
        /\ sock' = [sock EXCEPT ![c] = v]
  <2>1. sock[c] \in Socks
    BY DEF Inv, TypeOK
  <2> QED
    BY <2>1 DEF ConnectError, PeerClose, Flush, SocketError, Socks
<1>2. /\ UNCHANGED <<core, base, closing, kicked, asked, answer, netq, batch, phase, lgq, wrote, heard>>
      /\ pend' = pend \/ pend' = [pend EXCEPT ![c] = FALSE]
  BY DEF ConnectError, PeerClose, Flush, SocketError, netVars, logicVars, bounds
<1>3. TypeOK' /\ BatchInv'
  BY <1>1, <1>2 DEF Inv, TypeOK, BatchInv
<1>4. \A d \in Conns : CmdsStay(d) /\ PktsStay(d)
  BY <1>2, Untouched
<1>5. \A d \in Conns : d \notin {c} => ConnInv(d)'
  <2>1. \A d \in Conns : d # c => SameAt(d)
    BY <1>1, <1>2 DEF SameAt, Inv, TypeOK
  <2> QED
    BY <1>4, <2>1, OthersInv
<1>6. ConnInv(c)'
  BY <1>1, <1>2, <1>4, SocketMoves
<1> QED
  BY <1>3, <1>5, <1>6 DEF Inv

\* A socket that closes is released, and its owner told.
LEMMA ReleaseInv ==
  ASSUME Inv, NEW c \in Conns, Release(c)
  PROVE  Inv'
<1>1. /\ sock' = [sock EXCEPT ![c] = "released"] /\ pend' = [pend EXCEPT ![c] = FALSE]
      /\ UNCHANGED <<base, closing, kicked, asked, answer, netq, batch, phase, wrote, heard>>
  BY DEF Release, netVars, logicVars, bounds
<1>2. TypeOK /\ BatchInv /\ ConnInv(c) /\ \A t \in {"DISCONNECT", "CONNECT_FAIL"} : Msg(t, c) \in Packets
  BY DEF Inv, Packets, Msg
<1>3. PICK t \in {"DISCONNECT", "CONNECT_FAIL"} :
        /\ lgq' = Append(lgq, Msg(t, c))
        /\ \/ sock[c] = "closing" /\ t = "DISCONNECT" /\ core' = [core EXCEPT ![c] = "eCCS_Disconnecting"]
           \/ sock[c] = "failing" /\ t = "CONNECT_FAIL" /\ core' = core
  <2>1. lgq \o OnConnectFailPackets(c) = Append(lgq, Msg("CONNECT_FAIL", c))
    BY <1>2 DEF OnConnectFailPackets, TypeOK
  <2> QED
    BY <2>1 DEF Release
<1>4. /\ lgq' \in Seq(Packets) /\ Pkts(c)' = Pkts(c) \cup {t}
      /\ \A d \in Conns : d # c => PktsStay(d)
      /\ /\ PktsOrdered(c) /\ (t = "CONNECT_FAIL" => Pkts(c) = {})
         /\ "DISCONNECT" \notin Pkts(c) /\ "CONNECT_FAIL" \notin Pkts(c)
         => PktsOrdered(c)'
  BY <1>2, <1>3, Posted
<1>5. \A d \in Conns : CmdsStay(d)
  BY <1>1, Untouched
<1>6. sock'[c] = "released" /\ sock' \in [Conns -> Socks] /\ core' \in [Conns -> Cores]
  BY <1>1, <1>2, <1>3 DEF TypeOK, Socks, Cores
<1>7. TypeOK' /\ BatchInv'
  BY <1>1, <1>2, <1>4, <1>6 DEF TypeOK, BatchInv
<1>8. \A d \in Conns : d \notin {c} => ConnInv(d)'
  <2>1. \A d \in Conns : d # c => SameAt(d)
    BY <1>1, <1>2, <1>3 DEF SameAt, TypeOK
  <2> QED
    BY <1>4, <1>5, <2>1, OthersInv
<1>9. ConnInv(c)'
  <2>1. Cmds(c)' = Cmds(c) /\ CmdsOrdered(c)' /\ "CONNECT_FAIL" \notin Pkts(c) /\ "DISCONNECT" \notin Pkts(c)
    BY <1>2, <1>3, <1>5 DEF ConnInv, CmdsStay, PacketInv, SockInv, AnswerInv
  <2>2. CASE sock[c] = "closing" /\ t = "DISCONNECT" /\ core' = [core EXCEPT ![c] = "eCCS_Disconnecting"]
    <3>1. core'[c] = "eCCS_Disconnecting" /\ PktsOrdered(c)' /\ ~Unborn(c) /\ base[c] # "gone"
          /\ "DISCONNECT_ACK" \notin Cmds(c) /\ "CONNECT" \notin Cmds(c) /\ (c \in Active => asked[c])
      BY <1>2, <1>4, <2>1, <2>2 DEF TypeOK, ConnInv, SockInv, BaseInv, PacketInv, AnswerInv, Unborn
    <3>2. SockInv(c)' /\ BaseInv(c)'
      BY <1>1, <1>2, <1>4, <1>6, <2>1, <2>2, <3>1 DEF ConnInv, SockInv, BaseInv, Unborn
    <3>3. PacketInv(c)' /\ AnswerInv(c)'
      BY <1>1, <1>2, <1>4, <1>6, <2>1, <2>2, <3>1 DEF ConnInv, PacketInv, AnswerInv
    <3> QED
      BY <2>1, <3>1, <3>2, <3>3 DEF ConnInv
  <2>3. CASE sock[c] = "failing" /\ t = "CONNECT_FAIL" /\ core' = core
    <3>1. /\ core[c] = "absent" /\ c \in Active /\ Pkts(c) = {} /\ Cmds(c) = {} /\ answer[c] = 0
          /\ base[c] = "absent" /\ asked[c] /\ c \notin Passive
      BY <1>2, <2>3, SocketAssumption DEF ConnInv, SockInv, BaseInv, AnswerInv, Unborn, TypeOK
    <3>2. Pkts(c)' = {"CONNECT_FAIL"} /\ PktsOrdered(c)'
      BY <1>2, <1>4, <2>1, <2>3, <3>1 DEF ConnInv
    <3>3. SockInv(c)' /\ BaseInv(c)' /\ PacketInv(c)' /\ AnswerInv(c)'
      BY <1>1, <1>6, <2>1, <2>3, <3>1, <3>2 DEF SockInv, BaseInv, PacketInv, AnswerInv, Unborn
    <3> QED
      BY <2>1, <3>2, <3>3 DEF ConnInv
  <2> QED
    BY <1>3, <2>2, <2>3
<1> QED
  BY <1>7, <1>8, <1>9 DEF Inv

\* A peer connects: the CCoreConnection is there before the service hears of it.
LEMMA AcceptInv ==
  ASSUME Inv, NEW c \in Conns, Accept(c)
  PROVE  Inv'
<1>1. /\ c \in Passive /\ sock[c] = "none"
      /\ sock' = [sock EXCEPT ![c] = "accepted"] /\ core' = [core EXCEPT ![c] = "eCCS_None"]
      /\ UNCHANGED <<pend, base, closing, kicked, asked, answer, netq, batch, phase, lgq, wrote, heard>>
  BY DEF Accept, netVars, logicVars, bounds
<1>2. TypeOK /\ BatchInv /\ ConnInv(c)
  BY DEF Inv
<1>3. \A d \in Conns : CmdsStay(d) /\ PktsStay(d)
  BY <1>1, Untouched
<1>4. TypeOK' /\ BatchInv'
  BY <1>1, <1>2 DEF TypeOK, BatchInv, Socks, Cores
<1>5. \A d \in Conns : d \notin {c} => ConnInv(d)'
  <2>1. \A d \in Conns : d # c => SameAt(d)
    BY <1>1, <1>2 DEF SameAt, TypeOK
  <2> QED
    BY <1>3, <2>1, OthersInv
<1>6. ConnInv(c)'
  <2>1. sock'[c] = "accepted" /\ core'[c] = "eCCS_None" /\ c \notin Active
    BY <1>1, <1>2, SocketAssumption DEF TypeOK
  <2>2. /\ core[c] = "absent" /\ base[c] = "absent" /\ Pkts(c) = {} /\ Cmds(c) = {}
    BY <1>1, <1>2, <2>1 DEF ConnInv, SockInv, BaseInv, PacketInv, AnswerInv, Unborn
  <2>3. Cmds(c)' = {} /\ Pkts(c)' = {} /\ CmdsOrdered(c)' /\ PktsOrdered(c)'
    BY <1>2, <1>3, <2>2 DEF ConnInv, CmdsStay, PktsStay
  <2>4. SockInv(c)' /\ BaseInv(c)' /\ PacketInv(c)' /\ AnswerInv(c)'
    BY <1>1, <1>2, <2>1, <2>2, <2>3 DEF ConnInv, SockInv, BaseInv, PacketInv, AnswerInv, Unborn
  <2> QED
    BY <2>3, <2>4 DEF ConnInv
<1> QED
  BY <1>4, <1>5, <1>6 DEF Inv

\* The connect of the service succeeds.
LEMMA EstablishedInv ==
  ASSUME Inv, NEW c \in Conns, Established(c)
  PROVE  Inv'
<1>1. /\ sock[c] \in {"trying", "accepted"}
      /\ sock' = [sock EXCEPT ![c] = "open"] /\ core' = [core EXCEPT ![c] = "eCCS_Connectting"]
      /\ lgq' = Append(lgq, Msg("CONNECT", c))
      /\ UNCHANGED <<pend, base, closing, kicked, asked, answer, netq, batch, phase, wrote, heard>>
  BY DEF Established, netVars, logicVars, bounds
<1>2. TypeOK /\ BatchInv /\ ConnInv(c) /\ Msg("CONNECT", c) \in Packets
  BY DEF Inv, Packets, Msg
<1>3. /\ base[c] = "absent" /\ Pkts(c) = {} /\ Cmds(c) = {} /\ answer[c] = 0 /\ (c \in Active => asked[c])
  BY <1>1, <1>2, SocketAssumption DEF ConnInv, SockInv, BaseInv, PacketInv, AnswerInv, Unborn
<1>4. /\ lgq' \in Seq(Packets) /\ Pkts(c)' = {"CONNECT"}
      /\ \A d \in Conns : d # c => PktsStay(d)
      /\ PktsOrdered(c) => PktsOrdered(c)'
  BY <1>1, <1>2, <1>3, Posted
<1>5. \A d \in Conns : CmdsStay(d)
  BY <1>1, Untouched
<1>6. TypeOK' /\ BatchInv'
  BY <1>1, <1>2, <1>4 DEF TypeOK, BatchInv, Socks, Cores
<1>7. \A d \in Conns : d \notin {c} => ConnInv(d)'
  <2>1. \A d \in Conns : d # c => SameAt(d)
    BY <1>1, <1>2 DEF SameAt, TypeOK
  <2> QED
    BY <1>4, <1>5, <2>1, OthersInv
<1>8. ConnInv(c)'
  <2>1. sock'[c] = "open" /\ core'[c] = "eCCS_Connectting"
    BY <1>1, <1>2 DEF TypeOK
  <2>2. Cmds(c)' = {} /\ CmdsOrdered(c)' /\ PktsOrdered(c)'
    BY <1>2, <1>3, <1>4, <1>5 DEF ConnInv, CmdsStay
  <2>3. SockInv(c)' /\ BaseInv(c)' /\ PacketInv(c)' /\ AnswerInv(c)'
    BY <1>1, <1>3, <1>4, <2>1, <2>2 DEF SockInv, BaseInv, PacketInv, AnswerInv, Unborn
  <2> QED
    BY <2>2, <2>3 DEF ConnInv
<1> QED
  BY <1>6, <1>7, <1>8 DEF Inv

\* Data arrives from the peer: its packet comes behind the one of the connection.
LEMMA RecvDataInv ==
  ASSUME Inv, NEW c \in Conns, RecvData(c)
  PROVE  Inv'
<1>1. /\ sock[c] \in {"open", "draining"} /\ heard < MaxData /\ heard' = heard + 1
      /\ lgq' = Append(lgq, Msg("RECV", c))
      /\ UNCHANGED <<sock, pend, core, base, closing, kicked, asked, answer, netq, batch, phase, wrote>>
  BY DEF RecvData, MayRecv, netVars, sockVars, logicVars
<1>2. TypeOK /\ BatchInv /\ ConnInv(c) /\ Msg("RECV", c) \in Packets
  BY DEF Inv, Packets, Msg
<1>3. /\ ~Unborn(c) /\ core[c] # "deleted" /\ base[c] # "gone" /\ (c \in Active => asked[c])
      /\ "DISCONNECT" \notin Pkts(c) /\ "CONNECT_FAIL" \notin Pkts(c)
      /\ "DISCONNECT_ACK" \notin Cmds(c) /\ "CONNECT" \notin Cmds(c)
  BY <1>1, <1>2 DEF ConnInv, SockInv, BaseInv, PacketInv, AnswerInv, Unborn
<1>4. /\ lgq' \in Seq(Packets) /\ Pkts(c)' = Pkts(c) \cup {"RECV"}
      /\ \A d \in Conns : d # c => PktsStay(d)
      /\ PktsOrdered(c) => PktsOrdered(c)'
  BY <1>1, <1>2, <1>3, Posted
<1>5. \A d \in Conns : CmdsStay(d)
  BY <1>1, Untouched
<1>6. TypeOK' /\ BatchInv'
  BY <1>1, <1>2, <1>4, SocketAssumption DEF TypeOK, BatchInv
<1>7. \A d \in Conns : d \notin {c} => ConnInv(d)'
  <2>1. \A d \in Conns : d # c => SameAt(d)
    BY <1>1 DEF SameAt
  <2> QED
    BY <1>4, <1>5, <2>1, OthersInv
<1>8. ConnInv(c)'
  <2>1. Cmds(c)' = Cmds(c) /\ CmdsOrdered(c)' /\ PktsOrdered(c)' /\ SockInv(c)'
    BY <1>1, <1>2, <1>4, <1>5 DEF ConnInv, CmdsStay, SockInv
  <2>2. BaseInv(c)' /\ PacketInv(c)' /\ AnswerInv(c)'
    BY <1>1, <1>2, <1>3, <1>4, <2>1 DEF ConnInv, BaseInv, PacketInv, AnswerInv, Unborn
  <2> QED
    BY <2>1, <2>2 DEF ConnInv
<1> QED
  BY <1>6, <1>7, <1>8 DEF Inv

-----------------------------------------------------------------------------
(* The net thread: commands.                                               *)

\* The net thread runs a command of its batch: what it leaves alone.
LEMMA Took ==
  ASSUME Inv, NEW type, NEW c \in Conns, Command(type, c), NextCommand, netq' = netq,
         \A d \in Conns : d # c => SameAt(d) /\ PktsStay(d)
  PROVE  /\ batch' \in Seq(Commands) /\ BatchInv' /\ phase' = phase
         /\ \A d \in Conns : d \notin {c} => ConnInv(d)'
         /\ Cmds(c) = Cmds(c)' \cup {type} /\ CmdsOrdered(c)'
         /\ "CONNECT" \notin Cmds(c)' /\ "CONNECT_ACK" \notin Cmds(c)'
         /\ type = "DISCONNECT_ACK" => Cmds(c)' \subseteq {"SEND2"}
<1>1. /\ TypeOK /\ ConnInv(c) /\ phase = "commands" /\ phase' = phase
      /\ batch # <<>> /\ Head(batch) = Msg(type, c) /\ batch' = Tail(batch)
  BY DEF Inv, Command, NextCommand
<1>2. /\ batch' \in Seq(Commands)
      /\ Cmds(c) = Cmds(c)' \cup {type}
      /\ \A d \in Conns : d # c => CmdsStay(d)
      /\ CmdsOrdered(c) => /\ CmdsOrdered(c)'
                           /\ "CONNECT" \notin Cmds(c)' /\ "CONNECT_ACK" \notin Cmds(c)'
                           /\ type = "DISCONNECT_ACK" => Cmds(c)' \subseteq {"SEND2"}
  BY <1>1, Ran
<1>3. \A d \in Conns : d \notin {c} => ConnInv(d)'
  BY <1>2, OthersInv
<1> QED
  BY <1>1, <1>2, <1>3 DEF BatchInv, ConnInv

\* A command that moves the socket of an established connection, or nothing.
LEMMA CommandMoves ==
  ASSUME Inv, NEW c \in Conns,
         NEW type \in {"SHUTDOWN", "SHUTDOWN_FORCE", "CONNECT_ACK", "CONNECT_NAK", "SEND1", "SEND2"},
         Command(type, c), NextCommand, NEW v \in Socks,
         \/ sock[c] \in {"open", "draining", "closing"} /\ v \in {"open", "draining", "closing"}
         \/ v = sock[c],
         sock' = [sock EXCEPT ![c] = v],
         \/ core' = core
         \/ core[c] = "eCCS_Connectting" /\ core' = [core EXCEPT ![c] = "eCCS_Connected"],
         pend' \in [Conns -> BOOLEAN],
         UNCHANGED <<base, closing, kicked, asked, answer, netq, lgq, wrote, heard>>
  PROVE  Inv'
<1>1. TypeOK /\ ConnInv(c) /\ sock'[c] = v /\ sock' \in [Conns -> Socks] /\ core' \in [Conns -> Cores]
  BY DEF Inv, TypeOK, Cores
<1>2. \A d \in Conns : PktsStay(d)
  BY Untouched
<1>3. \A d \in Conns : d # c => SameAt(d)
  BY <1>1 DEF SameAt, TypeOK
<1>4. /\ batch' \in Seq(Commands) /\ BatchInv' /\ phase' = phase
      /\ \A d \in Conns : d \notin {c} => ConnInv(d)'
      /\ Cmds(c) = Cmds(c)' \cup {type} /\ CmdsOrdered(c)'
  BY <1>2, <1>3, Took
<1>5. TypeOK'
  BY <1>1, <1>4 DEF TypeOK
<1>6. /\ Pkts(c)' = Pkts(c) /\ PktsOrdered(c)' /\ type \in Cmds(c) /\ Cmds(c)' \subseteq Cmds(c)
      /\ \/ core'[c] = core[c]
         \/ core[c] = "eCCS_Connectting" /\ core'[c] = "eCCS_Connected"
  BY <1>1, <1>2, <1>4 DEF PktsStay, ConnInv, TypeOK
<1>7. SockInv(c)' /\ BaseInv(c)'
  BY <1>1, <1>6 DEF ConnInv, SockInv, BaseInv, Unborn
<1>8. PacketInv(c)' /\ AnswerInv(c)'
  BY <1>1, <1>6 DEF ConnInv, SockInv, PacketInv, AnswerInv
<1>9. ConnInv(c)'
  BY <1>4, <1>6, <1>7, <1>8 DEF ConnInv
<1> QED
  BY <1>4, <1>5, <1>9 DEF Inv

\* What CCoreConnection::shutdown does to the socket.
LEMMA CoreShutdownMoves ==
  ASSUME Inv, NEW c \in Conns, NEW force \in BOOLEAN, CoreShutdown(c, force)
  PROVE  \E v \in Socks :
           /\ \/ sock[c] \in {"open", "draining", "closing"} /\ v \in {"open", "draining", "closing"}
              \/ v = sock[c]
           /\ sock' = [sock EXCEPT ![c] = v]
<1>1. sock \in [Conns -> Socks] /\ sock[c] \in Socks
  BY DEF Inv, TypeOK
<1>2. CASE Linked(c) /\ sock[c] # "closing"
  <2>1. sock' = [sock EXCEPT ![c] = IF force \/ ~pend[c] THEN "closing" ELSE "draining"]
    BY <1>2 DEF CoreShutdown, ShutdownSock
  <2> QED
    BY <1>2, <2>1 DEF Linked, Socks
<1>3. CASE ~(Linked(c) /\ sock[c] # "closing")
  <2>1. sock' = [sock EXCEPT ![c] = sock[c]]
    BY <1>1, <1>3 DEF CoreShutdown
  <2> QED
    BY <1>1, <2>1
<1> QED
  BY <1>2, <1>3

\* The net thread handles a shutdown, or the answer to a connect event.
LEMMA DoShutdownInv ==
  ASSUME Inv, NEW c \in Conns, DoShutdown(c) \/ DoConnectAck(c) \/ DoConnectNak(c)
  PROVE  Inv'
<1>1. /\ NextCommand /\ UNCHANGED <<pend, base, closing, kicked, asked, answer, netq, lgq, wrote, heard>>
      /\ \/ core' = core
         \/ core[c] = "eCCS_Connectting" /\ core' = [core EXCEPT ![c] = "eCCS_Connected"]
  BY DEF DoShutdown, DoConnectAck, DoConnectNak, logicVars, bounds
<1>2. PICK type \in {"SHUTDOWN", "SHUTDOWN_FORCE", "CONNECT_ACK", "CONNECT_NAK"} : Command(type, c)
  BY DEF DoShutdown, DoConnectAck, DoConnectNak
<1>3. CoreShutdown(c, FALSE) \/ CoreShutdown(c, TRUE) \/ sock' = sock
  BY DEF DoShutdown, DoConnectAck, DoConnectNak
<1>4. sock \in [Conns -> Socks] /\ pend' \in [Conns -> BOOLEAN] /\ sock[c] \in Socks
  BY <1>1 DEF Inv, TypeOK
<1>5. PICK v \in Socks :
        /\ \/ sock[c] \in {"open", "draining", "closing"} /\ v \in {"open", "draining", "closing"}
           \/ v = sock[c]
        /\ sock' = [sock EXCEPT ![c] = v]
  <2>1. CASE sock' = sock
    BY <1>4, <2>1
  <2> QED
    BY <1>3, <2>1, CoreShutdownMoves
<1> QED
  BY <1>1, <1>2, <1>4, <1>5, CommandMoves

\* The net thread gives data to a socket; an unknown id ends its batch.
LEMMA DoSendInv ==
  ASSUME Inv, NEW c \in Conns, DoSend1(c) \/ DoSend2(c)
  PROVE  Inv'
<1>1. UNCHANGED <<sock, core, base, closing, kicked, asked, answer, netq, lgq, wrote, heard>>
  BY DEF DoSend1, DoSend2, logicVars, bounds
<1>2. /\ TypeOK /\ sock[c] \in Socks /\ sock' = [sock EXCEPT ![c] = sock[c]]
      /\ CoreSend(c) => pend' \in [Conns -> BOOLEAN]
  BY <1>1 DEF Inv, TypeOK, CoreSend
<1>3. CASE CoreSend(c) /\ NextCommand
  <2>1. PICK type \in {"SEND1", "SEND2"} : Command(type, c)
    BY DEF DoSend1, DoSend2
  <2> QED
    BY <1>1, <1>2, <1>3, <2>1, CommandMoves
<1>4. CASE batch' = <<>> /\ UNCHANGED <<pend, phase>>
  <2>1. \A d \in Conns : Cmds(d)' \subseteq Cmds(d) /\ (CmdsOrdered(d) => CmdsOrdered(d)')
    BY <1>1, <1>2, <1>4, Abandoned
  <2>2. \A d \in Conns : PktsStay(d) /\ SameAt(d) /\ ConnInv(d)
    BY <1>1, Untouched DEF SameAt, Inv
  <2>3. ASSUME NEW d \in Conns PROVE ConnInv(d)'
    <3>1. Pkts(d)' = Pkts(d) /\ PktsOrdered(d)' /\ CmdsOrdered(d)' /\ ConnInv(d) /\ SameAt(d)
      BY <2>1, <2>2 DEF PktsStay, ConnInv
    <3>2. Cmds(d)' \subseteq Cmds(d)
      BY <2>1
    <3> QED
      BY <3>1, <3>2, StayInv
  <2>4. TypeOK' /\ BatchInv'
    BY <1>1, <1>2, <1>4 DEF TypeOK, BatchInv
  <2> QED
    BY <2>3, <2>4 DEF Inv
<1> QED
  BY <1>3, <1>4 DEF DoSend1, DoSend2

\* A connect is tried, or fails at once.
LEMMA DoConnectInv ==
  ASSUME Inv, NEW c \in Conns, DoConnect(c)
  PROVE  Inv'
<1>1. /\ Command("CONNECT", c) /\ NextCommand
      /\ UNCHANGED <<pend, core, base, closing, kicked, asked, answer, netq, wrote, heard>>
  BY DEF DoConnect, logicVars, bounds
<1>2. TypeOK /\ ConnInv(c) /\ Msg("CONNECT_FAIL", c) \in Packets
  BY DEF Inv, Packets, Msg
<1>3. PICK v \in Socks :
        /\ sock' = [sock EXCEPT ![c] = v]
        /\ \/ v = "trying" /\ lgq' = lgq
           \/ v = sock[c] /\ lgq' = Append(lgq, Msg("CONNECT_FAIL", c))
  <2>1. sock[c] \in Socks /\ sock = [sock EXCEPT ![c] = sock[c]]
    BY <1>2 DEF TypeOK
  <2> QED
    BY <2>1 DEF DoConnect, Socks
<1>4. /\ lgq' \in Seq(Packets) /\ \A d \in Conns : d # c => PktsStay(d)
      /\ \/ v = "trying" /\ Pkts(c)' = Pkts(c) /\ (PktsOrdered(c) => PktsOrdered(c)')
         \/ /\ v = sock[c] /\ Pkts(c)' = Pkts(c) \cup {"CONNECT_FAIL"}
            /\ PktsOrdered(c) /\ Pkts(c) = {} => PktsOrdered(c)'
  <2>1. CASE lgq' = lgq
    BY <1>2, <1>3, <2>1, Untouched DEF PktsStay, TypeOK
  <2>2. CASE lgq' = Append(lgq, Msg("CONNECT_FAIL", c))
    BY <1>2, <1>3, <2>2, Posted
  <2> QED
    BY <1>3, <2>1, <2>2
<1>5. \A d \in Conns : d # c => SameAt(d)
  BY <1>1, <1>2, <1>3 DEF SameAt, TypeOK
<1>6. /\ batch' \in Seq(Commands) /\ BatchInv' /\ phase' = phase
      /\ \A d \in Conns : d \notin {c} => ConnInv(d)'
      /\ Cmds(c) = Cmds(c)' \cup {"CONNECT"} /\ CmdsOrdered(c)'
      /\ "CONNECT" \notin Cmds(c)'
  BY <1>1, <1>4, <1>5, Took
<1>7. TypeOK'
  BY <1>1, <1>2, <1>3, <1>4, <1>6 DEF TypeOK
<1>8. /\ c \in Active /\ c \notin Passive /\ sock[c] = "none" /\ core[c] = "absent" /\ base[c] = "absent"
      /\ Pkts(c) = {} /\ answer[c] = 0 /\ asked[c] /\ Cmds(c) \subseteq {"CONNECT"}
  BY <1>2, <1>6, SocketAssumption DEF ConnInv, SockInv, BaseInv, AnswerInv, Unborn, TypeOK
<1>9. ConnInv(c)'
  <2>1. /\ Cmds(c)' = {} /\ Pkts(c)' \subseteq {"CONNECT_FAIL"} /\ PktsOrdered(c)'
        /\ sock'[c] = v /\ (v = "trying" => Pkts(c)' = {}) /\ v \in {"none", "trying"}
    BY <1>2, <1>3, <1>4, <1>6, <1>8 DEF ConnInv, TypeOK
  <2>2. SockInv(c)' /\ BaseInv(c)' /\ PacketInv(c)' /\ AnswerInv(c)'
    BY <1>1, <1>8, <2>1 DEF SockInv, BaseInv, PacketInv, AnswerInv, Unborn
  <2> QED
    BY <1>6, <2>1, <2>2 DEF ConnInv
<1> QED
  BY <1>6, <1>7, <1>9 DEF Inv

\* The CCoreConnection is deleted: nobody is left that names it by pointer.
LEMMA DoDisconnectAckInv ==
  ASSUME Inv, NEW c \in Conns, DoDisconnectAck(c)
  PROVE  Inv'
<1>1. /\ Command("DISCONNECT_ACK", c) /\ NextCommand /\ core' = [core EXCEPT ![c] = "deleted"]
      /\ UNCHANGED <<sock, pend, base, closing, kicked, asked, answer, netq, lgq, wrote, heard>>
  BY DEF DoDisconnectAck, logicVars, bounds
<1>2. TypeOK /\ ConnInv(c)
  BY DEF Inv
<1>3. \A d \in Conns : PktsStay(d)
  BY <1>1, Untouched
<1>4. \A d \in Conns : d # c => SameAt(d)
  BY <1>1, <1>2 DEF SameAt, TypeOK
<1>5. /\ batch' \in Seq(Commands) /\ BatchInv' /\ phase' = phase
      /\ \A d \in Conns : d \notin {c} => ConnInv(d)'
      /\ Cmds(c) = Cmds(c)' \cup {"DISCONNECT_ACK"} /\ CmdsOrdered(c)'
      /\ Cmds(c)' \subseteq {"SEND2"}
  BY <1>1, <1>3, <1>4, Took
<1>6. TypeOK' /\ core'[c] = "deleted"
  BY <1>1, <1>2, <1>5 DEF TypeOK, Cores
<1>7. /\ base[c] \in {"refused", "gone"} /\ sock[c] = "released" /\ Pkts(c) = {}
      /\ Pkts(c)' = {} /\ PktsOrdered(c)' /\ "CONNECT" \notin Cmds(c)
  BY <1>2, <1>3, <1>5 DEF ConnInv, PacketInv, AnswerInv, PktsStay
<1>8. ConnInv(c)'
  <2>1. SockInv(c)' /\ BaseInv(c)' /\ PacketInv(c)' /\ AnswerInv(c)'
    BY <1>1, <1>2, <1>5, <1>6, <1>7 DEF ConnInv, SockInv, BaseInv, PacketInv, AnswerInv, Unborn
  <2> QED
    BY <1>5, <1>7, <2>1 DEF ConnInv
<1> QED
  BY <1>5, <1>6, <1>8 DEF Inv

\* The net thread goes from one part of its loop to the next.
LEMMA LoopInv ==
  ASSUME Inv, BeginEvents \/ RecvCommands \/ EndCommands
  PROVE  Inv'
<1>1. /\ UNCHANGED <<sock, pend, core, base, closing, kicked, asked, answer, lgq, wrote, heard>>
      /\ phase' \in {"update", "events", "commands"}
  BY DEF BeginEvents, RecvCommands, EndCommands, logicVars, sockVars, bounds
<1>2. TypeOK /\ BatchInv
  BY DEF Inv
<1>3. /\ batch' \in Seq(Commands) /\ netq' \in Seq(Commands) /\ BatchInv'
      /\ \A d \in Conns : CmdsStay(d)
  <2>1. CASE RecvCommands
    <3>1. batch = <<>> /\ batch' = netq /\ netq' = <<>> /\ phase' = "commands"
      BY <1>2, <2>1 DEF RecvCommands, BatchInv
    <3> QED
      BY <1>2, <3>1, Swapped DEF TypeOK, BatchInv
  <2>2. CASE BeginEvents \/ EndCommands
    <3>1. UNCHANGED <<batch, netq>> /\ batch = <<>>
      BY <1>2, <2>2 DEF BeginEvents, EndCommands, BatchInv
    <3> QED
      BY <1>2, <3>1, Untouched DEF TypeOK, BatchInv
  <2> QED
    BY <2>1, <2>2
<1>4. \A d \in Conns : PktsStay(d) /\ SameAt(d)
  BY <1>1, Untouched DEF SameAt
<1>5. TypeOK'
  BY <1>1, <1>2, <1>3 DEF TypeOK
<1> QED
  BY <1>3, <1>4, <1>5, AllStay DEF Inv

\* Every step keeps the invariant.
LEMMA StepInv == Inv /\ [Next]_vars => Inv'
<1> SUFFICES ASSUME Inv, [Next]_vars PROVE Inv'
  OBVIOUS
<1>1. CASE LogicDispatch
  BY <1>1, OnConnectInv, OnConnectFailInv, OnDisconnectInv, OnRecvInv DEF LogicDispatch
<1>2. CASE LogicCall
  BY <1>2, ConnectInv, SendInv, ShutdownInv DEF LogicCall
<1>3. CASE NetEvent
  BY <1>3, AcceptInv, EstablishedInv, SilentInv, RecvDataInv DEF NetEvent
<1>4. CASE NetCommand
  BY <1>4, DoConnectInv, DoShutdownInv, DoDisconnectAckInv, DoSendInv DEF NetCommand
<1>5. CASE NetLoop
  BY <1>5, ReleaseInv, LoopInv DEF NetLoop
<1>6. CASE UNCHANGED vars
  <2>1. /\ UNCHANGED <<sock, pend, core, base, closing, kicked, asked, answer, netq, batch, phase, lgq, wrote, heard>>
        /\ TypeOK /\ BatchInv
    BY <1>6 DEF vars, Inv
  <2>2. \A d \in Conns : CmdsStay(d) /\ PktsStay(d) /\ SameAt(d)
    BY <2>1, Untouched DEF SameAt
  <2>3. TypeOK' /\ BatchInv'
    BY <2>1 DEF TypeOK, BatchInv
  <2> QED
    BY <2>2, <2>3, AllStay DEF Inv
<1> QED
  BY <1>1, <1>2, <1>3, <1>4, <1>5, <1>6 DEF Next

\* The inductive invariant holds in every reachable state.
LEMMA Invariance == SafeSpec => []Inv
BY InitInv, StepInv, PTL DEF SafeSpec

-----------------------------------------------------------------------------
(* A shutdown reaches its socket, when nobody sends to an id that is gone: *)
(* such a send makes onProcess drop the rest of its batch, a shutdown of   *)
(* another connection with it.                                             *)

\* Nothing comes behind the answer to a disconnect, not even a send by id.
AckLastOf(c) == Ordered(Commanded, c, {}, {"DISCONNECT_ACK"}, {})
ShutTypes == {"SHUTDOWN", "SHUTDOWN_FORCE"}
ShutSocks == {"draining", "closing", "released"}

ShutInv(c) ==
  /\ "SEND2" \in Cmds(c) => Exists(c)
  /\ closing[c] => base[c] \in {"open", "gone"}
  /\ closing[c] => Cmds(c) \cap ShutTypes # {} \/ sock[c] \in ShutSocks
  /\ AckLastOf(c)

\* A command goes to the net thread.
LEMMA LastSent ==
  ASSUME TypeOK, NEW type, NEW c \in Conns, Msg(type, c) \in Commands,
         netq' = Append(netq, Msg(type, c)), batch' = batch, "DISCONNECT_ACK" \notin Cmds(c)
  PROVE  \A d \in Conns : AckLastOf(d) => AckLastOf(d)'
<1> SUFFICES ASSUME NEW d \in Conns, AckLastOf(d) PROVE AckLastOf(d)'
  OBVIOUS
<1>1. PICK q \in Seq(Commands) : q = Commanded
  BY CommandedType
<1>2. PICK m \in Commands : m = Msg(type, c)
  OBVIOUS
<1>3. d = m.c => TypesOf(q, d) \cap {"DISCONNECT_ACK"} = {}
  BY <1>1, <1>2 DEF Msg, Cmds
<1>4. Ordered(q, d, {}, {"DISCONNECT_ACK"}, {})
  BY <1>1 DEF AckLastOf
<1>5. Ordered(Append(q, m), d, {}, {"DISCONNECT_ACK"}, {})
  BY <1>3, <1>4, AppendOrdered
<1> QED
  BY <1>1, <1>2, <1>5, SentIs DEF AckLastOf

\* The net thread takes the next command of its batch.
LEMMA LastRan ==
  ASSUME TypeOK, NEW type, NEW c \in Conns, batch # <<>>, Head(batch) = Msg(type, c),
         batch' = Tail(batch), netq' = netq
  PROVE  /\ \A d \in Conns : AckLastOf(d) => AckLastOf(d)'
         /\ AckLastOf(c) /\ type = "DISCONNECT_ACK" => Cmds(c)' = {}
<1>1. PICK q \in Seq(Commands) : q = Commanded
  BY CommandedType
<1>2. q # <<>> /\ Head(q) = Msg(type, c) /\ Commanded' = Tail(q)
  BY <1>1, RanIs
<1>3. Head(q).c = c /\ Head(q).type = type
  BY <1>2 DEF Msg
<1>4. ASSUME NEW d, AckLastOf(d)
      PROVE  AckLastOf(d)' /\ (d = c /\ type = "DISCONNECT_ACK" => Cmds(c)' = {})
  <2>1. Ordered(q, d, {}, {"DISCONNECT_ACK"}, {})
    BY <1>1, <1>4 DEF AckLastOf
  <2>2. /\ Ordered(Tail(q), d, {}, {"DISCONNECT_ACK"}, {})
        /\ d = Head(q).c => (Head(q).type \in {"DISCONNECT_ACK"} => TypesOf(Tail(q), d) \subseteq {})
    BY <1>2, <2>1, TailOrdered
  <2> QED
    BY <1>2, <1>3, <2>2 DEF AckLastOf, Cmds
<1> QED
  BY <1>4

\* A step that says nothing to the net thread about d, and undoes nothing of it.
LEMMA ShutStays ==
  ASSUME NEW d, ShutInv(d), Cmds(d)' = Cmds(d), AckLastOf(d)', closing'[d] = closing[d],
         closing[d] => base'[d] \in {"open", "gone"},
         Exists(d) => core'[d] \notin {"absent", "deleted"},
         closing[d] /\ sock[d] \in ShutSocks => sock'[d] \in ShutSocks
  PROVE  ShutInv(d)'
BY DEF ShutInv, Exists

\* A step that touches neither queue.
LEMMA QuietShut ==
  ASSUME UNCHANGED <<batch, netq>> \/ RecvCommands, TypeOK, BatchInv, \A d \in Conns : ShutInv(d),
         closing' = closing,
         \A d \in Conns : /\ closing[d] => base'[d] \in {"open", "gone"}
                          /\ Exists(d) => core'[d] \notin {"absent", "deleted"}
                          /\ closing[d] /\ sock[d] \in ShutSocks => sock'[d] \in ShutSocks
  PROVE  \A d \in Conns : ShutInv(d)'
<1>1. Commanded' = Commanded
  <2>1. CASE RecvCommands
    <3>1. batch = <<>> /\ batch' = netq /\ netq' = <<>> /\ netq \in Seq(Commands)
      BY <2>1 DEF RecvCommands, BatchInv, TypeOK
    <3> QED
      BY <3>1, ConcatEmptySeq DEF Commanded
  <2> QED
    BY <2>1 DEF Commanded
<1>2. ASSUME NEW d \in Conns PROVE ShutInv(d)'
  <2>1. Cmds(d)' = Cmds(d) /\ AckLastOf(d)' /\ ShutInv(d)
    BY <1>1 DEF Cmds, AckLastOf, ShutInv
  <2> QED
    BY <2>1, ShutStays
<1> QED
  BY <1>2

\* The steps that send no command and run none.
LEMMA QuietSteps ==
  ASSUME Inv, \A d \in Conns : ShutInv(d),
         \/ \E c \in Conns : \/ OnConnectFail(c) \/ OnRecv(c) \/ Release(c) \/ Accept(c) \/ Established(c)
                             \/ ConnectError(c) \/ RecvData(c) \/ PeerClose(c) \/ Flush(c) \/ SocketError(c)
         \/ BeginEvents \/ RecvCommands \/ EndCommands \/ UNCHANGED vars
  PROVE  \A d \in Conns : ShutInv(d)'
<1>1. TypeOK /\ BatchInv /\ sock \in [Conns -> Socks] /\ core \in [Conns -> Cores]
  BY DEF Inv, TypeOK
<1>2. (UNCHANGED <<batch, netq>> \/ RecvCommands) /\ closing' = closing /\ base' = base
  BY DEF OnConnectFail, OnRecv, Release, Accept, Established, ConnectError, RecvData, PeerClose, Flush,
         SocketError, BeginEvents, RecvCommands, EndCommands, vars, netVars, logicVars, sockVars, bounds
<1>3. ASSUME NEW d \in Conns
      PROVE  /\ Exists(d) => core'[d] \notin {"absent", "deleted"}
             /\ sock[d] \in ShutSocks => sock'[d] \in ShutSocks
  <2>1. CASE core' = core /\ sock' = sock
    BY <2>1 DEF Exists
  <2>2. ASSUME NEW c \in Conns, Release(c) \/ Accept(c) \/ Established(c)
        PROVE  /\ Exists(d) => core'[d] \notin {"absent", "deleted"}
               /\ sock[d] \in ShutSocks => sock'[d] \in ShutSocks
    BY <1>1, <2>2 DEF Release, Accept, Established, Exists, ShutSocks
  <2>3. ASSUME NEW c \in Conns, ConnectError(c) \/ PeerClose(c) \/ Flush(c) \/ SocketError(c)
        PROVE  core' = core /\ (sock[d] \in ShutSocks => sock'[d] \in ShutSocks)
    BY <1>1, <2>3 DEF ConnectError, PeerClose, Flush, SocketError, ShutSocks
  <2>4. \/ core' = core /\ sock' = sock
        \/ \E c \in Conns : Release(c) \/ Accept(c) \/ Established(c)
        \/ \E c \in Conns : ConnectError(c) \/ PeerClose(c) \/ Flush(c) \/ SocketError(c)
    BY DEF OnConnectFail, OnRecv, RecvData, BeginEvents, RecvCommands, EndCommands, vars, sockVars
  <2> QED
    BY <2>1, <2>2, <2>3, <2>4 DEF Exists
<1>4. \A d \in Conns : closing[d] => base'[d] \in {"open", "gone"}
  BY <1>2 DEF ShutInv
<1> QED
  BY <1>1, <1>2, <1>3, <1>4, QuietShut

\* A step that sends a command.
LEMMA SentShut ==
  ASSUME Inv, \A d \in Conns : ShutInv(d), NEW type, NEW c \in Conns, Msg(type, c) \in Commands,
         netq' = Append(netq, Msg(type, c)), batch' = batch, "DISCONNECT_ACK" \notin Cmds(c),
         type = "SEND2" => Exists(c), UNCHANGED <<sock, core>>,
         \A d \in Conns : closing'[d] => /\ base'[d] \in {"open", "gone"}
                                         /\ closing[d] \/ (d = c /\ type \in ShutTypes)
  PROVE  \A d \in Conns : ShutInv(d)'
<1>1. /\ Cmds(c)' = Cmds(c) \cup {type}
      /\ \A d \in Conns : d # c => Cmds(d)' = Cmds(d)
  BY Sent DEF CmdsStay, Inv
<1>2. \A d \in Conns : AckLastOf(d)'
  BY LastSent DEF ShutInv, Inv
<1>3. ASSUME NEW d \in Conns PROVE ShutInv(d)'
  <2>1. ShutInv(d) /\ Cmds(d) \subseteq Cmds(d)' /\ ("SEND2" \in Cmds(d)' => Exists(d))
    BY <1>1 DEF ShutInv
  <2>2. closing'[d] /\ ~closing[d] => Cmds(d)' \cap ShutTypes # {}
    BY <1>1
  <2> QED
    BY <1>2, <2>1, <2>2 DEF ShutInv, Exists
<1> QED
  BY <1>3

\* What the service appends to the commands comes behind a shutdown under way.
LEMMA SendingSteps ==
  ASSUME ~StaleSend, Inv, \A d \in Conns : ShutInv(d), NEW c \in Conns,
         Connect(c) \/ Send(c) \/ SendByID(c) \/ OnConnect(c) \/ OnDisconnect(c)
         \/ \E force \in BOOLEAN : Shutdown(c, force)
  PROVE  \A d \in Conns : ShutInv(d)'
<1>1. /\ ConnInv(c) /\ closing \in [Conns -> BOOLEAN] /\ netq \in Seq(Commands)
      /\ base \in [Conns -> {"absent", "open", "refused", "gone"}]
      /\ \A t : t \in {"CONNECT", "SHUTDOWN", "SHUTDOWN_FORCE", "CONNECT_ACK", "CONNECT_NAK",
                       "DISCONNECT_ACK", "SEND1", "SEND2"} => Msg(t, c) \in Commands
  BY DEF Inv, TypeOK, Commands, Msg
<1>2. base[c] = "open" => "DISCONNECT_ACK" \notin Cmds(c) /\ Exists(c)
  BY <1>1 DEF ConnInv, PacketInv, BaseInv, Unborn, Exists
<1>3. ASSUME NEW d \in Conns, closing[d] PROVE base[d] \in {"open", "gone"}
  BY <1>3 DEF ShutInv
<1>4. CASE Connect(c)
  <2>1. /\ netq' = Append(netq, Msg("CONNECT", c)) /\ UNCHANGED <<batch, sock, core, closing, base>>
        /\ c \in Active /\ ~asked[c]
    BY <1>4 DEF Connect, netVars, sockVars
  <2>2. Cmds(c) = {}
    BY <1>1, <2>1 DEF ConnInv, AnswerInv
  <2> QED
    BY <1>1, <1>3, <2>1, <2>2, SentShut
<1>5. CASE Send(c) \/ SendByID(c)
  <2>1. PICK type \in {"SEND1", "SEND2"} : netq' = Append(netq, Msg(type, c))
    BY <1>5 DEF Send, SendByID
  <2>2. UNCHANGED <<batch, sock, core, closing, base>> /\ base[c] = "open"
    BY <1>5 DEF Send, SendByID, netVars, sockVars, logicVars
  <2> QED
    BY <1>1, <1>2, <1>3, <2>1, <2>2, SentShut
<1>6. CASE OnConnect(c)
  <2>1. PICK type \in {"CONNECT_ACK", "CONNECT_NAK"} : netq' = Append(netq, Msg(type, c))
    <3>1. netq \o AckOf(c) = Append(netq, Msg("CONNECT_ACK", c))
      BY <1>1 DEF AckOf
    <3> QED
      BY <1>6, <3>1 DEF OnConnect
  <2>2. /\ UNCHANGED <<batch, sock, core, closing>> /\ Packet("CONNECT", c)
        /\ \A d \in Conns : d # c => base'[d] = base[d]
    BY <1>1, <1>6 DEF OnConnect, netVars, sockVars
  <2>3. "CONNECT" \in Pkts(c)
    BY <2>2, Handled DEF Inv
  <2>4. Cmds(c) = {} /\ base[c] = "absent"
    BY <1>1, <2>3 DEF ConnInv, PacketInv
  <2>5. ~closing[c]
    BY <1>3, <2>4
  <2> QED
    BY <1>1, <1>3, <2>1, <2>2, <2>4, <2>5, SentShut
<1>7. CASE OnDisconnect(c)
  <2>1. netq' = Append(netq, Msg("DISCONNECT_ACK", c))
    <3>1. netq \o DisconnectAnswer(c) = Append(netq, Msg("DISCONNECT_ACK", c))
      BY <1>1 DEF DisconnectAnswer
    <3> QED
      BY <1>7, <3>1 DEF OnDisconnect
  <2>2. /\ UNCHANGED <<batch, sock, core, closing>> /\ Packet("DISCONNECT", c)
        /\ \A d \in Conns : base[d] \in {"open", "gone"} => base'[d] \in {"open", "gone"}
    BY <1>1, <1>7 DEF OnDisconnect, ReleaseBase, netVars, sockVars
  <2>3. "DISCONNECT" \in Pkts(c)
    BY <2>2, Handled DEF Inv
  <2>4. "DISCONNECT_ACK" \notin Cmds(c)
    BY <1>1, <2>3 DEF ConnInv, PacketInv
  <2> QED
    BY <1>1, <1>3, <2>1, <2>2, <2>4, SentShut
<1>8. ASSUME NEW force \in BOOLEAN, Shutdown(c, force) PROVE \A d \in Conns : ShutInv(d)'
  <2>1. UNCHANGED <<batch, sock, core, base>> /\ base[c] = "open"
    BY <1>8 DEF Shutdown, netVars, sockVars
  <2>2. CASE closing[c]
    <3>1. UNCHANGED <<closing, netq>>
      BY <1>8, <2>2 DEF Shutdown
    <3> QED
      BY <1>3, <2>1, <3>1, QuietShut DEF Exists, Inv
  <2>3. CASE ~closing[c]
    <3>1. PICK type \in ShutTypes : netq' = Append(netq, Msg(type, c))
      BY <1>8, <2>3 DEF Shutdown, ShutTypes
    <3>2. closing' = [closing EXCEPT ![c] = TRUE]
      BY <1>8, <2>3 DEF Shutdown
    <3>3. \A d \in Conns : closing'[d] => base'[d] \in {"open", "gone"} /\ (closing[d] \/ d = c)
      BY <1>1, <1>3, <2>1, <3>2
    <3> QED
      BY <1>1, <1>2, <2>1, <3>1, <3>3, SentShut DEF ShutTypes
  <2> QED
    BY <2>2, <2>3
<1> QED
  BY <1>4, <1>5, <1>6, <1>7, <1>8

\* The net thread runs a command: of a shutdown the socket takes notice.
LEMMA RanShut ==
  ASSUME Inv, \A d \in Conns : ShutInv(d), NEW type, NEW c \in Conns,
         Command(type, c), NextCommand, UNCHANGED <<netq, closing, base>>,
         \A d \in Conns : d # c => sock'[d] = sock[d] /\ core'[d] = core[d],
         type # "DISCONNECT_ACK" /\ Exists(c) => core'[c] \notin {"absent", "deleted"},
         closing[c] /\ (sock[c] \in ShutSocks \/ type \in ShutTypes) => sock'[c] \in ShutSocks
  PROVE  \A d \in Conns : ShutInv(d)'
<1>1. TypeOK /\ batch # <<>> /\ Head(batch) = Msg(type, c) /\ batch' = Tail(batch)
  BY DEF Inv, Command, NextCommand
<1>2. /\ Cmds(c) = Cmds(c)' \cup {type}
      /\ \A d \in Conns : d # c => Cmds(d)' = Cmds(d)
  BY <1>1, Ran DEF CmdsStay
<1>3. /\ \A d \in Conns : AckLastOf(d)'
      /\ type = "DISCONNECT_ACK" => Cmds(c)' = {}
  BY <1>1, LastRan DEF ShutInv
<1>4. ASSUME NEW d \in Conns, d # c PROVE ShutInv(d)'
  <2>1. /\ ShutInv(d) /\ Cmds(d)' = Cmds(d) /\ AckLastOf(d)' /\ closing' = closing /\ base' = base
        /\ sock'[d] = sock[d] /\ core'[d] = core[d]
    BY <1>2, <1>3, <1>4
  <2> QED
    BY <2>1, ShutStays DEF ShutInv, Exists
<1>5. ShutInv(c)'
  <2>1. "SEND2" \in Cmds(c)' => core'[c] \notin {"absent", "deleted"}
    BY <1>2, <1>3 DEF ShutInv
  <2>2. closing[c] => base[c] \in {"open", "gone"} /\ (Cmds(c)' \cap ShutTypes # {} \/ sock'[c] \in ShutSocks)
    BY <1>2 DEF ShutInv
  <2> QED
    BY <1>3, <2>1, <2>2 DEF ShutInv, Exists
<1> QED
  BY <1>4, <1>5

\* What CCoreConnection::shutdown leaves of the socket of a connection whose
\* CBaseConnection was shut down.
LEMMA CoreShutdownShuts ==
  ASSUME Inv, NEW c \in Conns, NEW force \in BOOLEAN, CoreShutdown(c, force)
  PROVE  /\ \A d \in Conns : d # c => sock'[d] = sock[d]
         /\ sock[c] \in ShutSocks \/ base[c] \in {"open", "gone"} => sock'[c] \in ShutSocks
<1>1. /\ sock \in [Conns -> Socks] /\ core \in [Conns -> Cores]
      /\ base[c] \in {"open", "gone"} => sock[c] \in ShutSocks \cup {"open"}
  BY DEF Inv, TypeOK, ConnInv, SockInv, BaseInv, Unborn, ShutSocks, Socks
<1>2. CASE Linked(c) /\ sock[c] # "closing"
  BY <1>1, <1>2 DEF CoreShutdown, ShutdownSock, ShutSocks
<1>3. CASE ~(Linked(c) /\ sock[c] # "closing")
  BY <1>1, <1>3 DEF CoreShutdown, Linked, ShutSocks
<1> QED
  BY <1>2, <1>3

\* No command of CNetRunnable takes a shutdown away but the shutdown itself.
LEMMA CommandSteps ==
  ASSUME Inv, \A d \in Conns : ShutInv(d), NEW c \in Conns,
         \/ DoConnect(c) \/ DoShutdown(c) \/ DoConnectAck(c) \/ DoConnectNak(c)
         \/ DoDisconnectAck(c) \/ DoSend1(c) \/ DoSend2(c)
  PROVE  \A d \in Conns : ShutInv(d)'
<1>1. /\ TypeOK /\ ConnInv(c) /\ ShutInv(c)
      /\ sock \in [Conns -> Socks] /\ core \in [Conns -> Cores]
  BY DEF Inv, TypeOK
<1>2. UNCHANGED <<netq, closing, base>>
  BY DEF DoConnect, DoShutdown, DoConnectAck, DoConnectNak, DoDisconnectAck, DoSend1, DoSend2, logicVars
<1>3. ASSUME NEW type, Command(type, c), NextCommand PROVE type \in Cmds(c)
  <2>1. batch # <<>> /\ Head(batch) = Msg(type, c) /\ batch' = Tail(batch)
    BY <1>3 DEF Command, NextCommand
  <2> QED
    BY <1>1, <1>2, <2>1, Ran
<1>4. CASE DoConnect(c)
  <2>1. /\ Command("CONNECT", c) /\ NextCommand /\ core' = core
        /\ \A d \in Conns : d # c => sock'[d] = sock[d]
    BY <1>1, <1>4 DEF DoConnect
  <2>2. sock[c] = "none"
    BY <1>1, <1>3, <2>1 DEF ConnInv, AnswerInv
  <2> QED
    BY <1>2, <2>1, <2>2, RanShut DEF ShutSocks, ShutTypes, Exists
<1>5. CASE DoShutdown(c) \/ DoConnectAck(c) \/ DoConnectNak(c)
  <2>1. PICK type \in {"SHUTDOWN", "SHUTDOWN_FORCE", "CONNECT_ACK", "CONNECT_NAK"} :
          /\ Command(type, c) /\ NextCommand
          /\ \/ CoreShutdown(c, FALSE) \/ CoreShutdown(c, TRUE)
             \/ sock' = sock /\ type = "CONNECT_ACK"
    BY <1>5 DEF DoShutdown, DoConnectAck, DoConnectNak
  <2>2. /\ \A d \in Conns : d # c => core'[d] = core[d]
        /\ Exists(c) => core'[c] \notin {"absent", "deleted"}
    BY <1>1, <1>5 DEF DoShutdown, DoConnectAck, DoConnectNak, Exists
  <2>3. /\ \A d \in Conns : d # c => sock'[d] = sock[d]
        /\ closing[c] /\ (sock[c] \in ShutSocks \/ type \in ShutTypes) => sock'[c] \in ShutSocks
    BY <1>1, <2>1, CoreShutdownShuts DEF ShutInv, ShutTypes
  <2> QED
    BY <1>2, <2>1, <2>2, <2>3, RanShut
<1>6. CASE DoDisconnectAck(c)
  <2>1. /\ Command("DISCONNECT_ACK", c) /\ NextCommand /\ sock' = sock
        /\ \A d \in Conns : d # c => core'[d] = core[d]
    BY <1>1, <1>6 DEF DoDisconnectAck
  <2> QED
    BY <1>2, <2>1, RanShut DEF ShutTypes
<1>7. CASE DoSend1(c) \/ DoSend2(c)
  <2>1. PICK type \in {"SEND1", "SEND2"} : Command(type, c) /\ NextCommand
    <3>1. CASE DoSend2(c) /\ ~Exists(c)
      <4>1. batch \in Seq(Commands) /\ batch # <<>> /\ Head(batch) = Msg("SEND2", c)
        BY <1>1, <3>1 DEF TypeOK, DoSend2, Command
      <4>2. "SEND2" \in Cmds(c)
        <5>1. Msg("SEND2", c) \in Range(batch)
          BY <4>1 DEF Range
        <5> QED
          BY <1>1, <5>1, InFlightCmds DEF InFlight
      <4> QED
        BY <1>1, <3>1, <4>2 DEF ShutInv
    <3> QED
      BY <1>7, <3>1 DEF DoSend1, DoSend2
  <2>2. UNCHANGED <<sock, core>>
    BY <1>7 DEF DoSend1, DoSend2
  <2> QED
    BY <1>2, <2>1, <2>2, RanShut DEF ShutTypes, Exists
<1> QED
  BY <1>4, <1>5, <1>6, <1>7

\* Every step keeps it.
LEMMA ShutStep ==
  ASSUME ~StaleSend
  PROVE  Inv /\ (\A d \in Conns : ShutInv(d)) /\ [Next]_vars => \A d \in Conns : ShutInv(d)'
<1> SUFFICES ASSUME Inv, \A d \in Conns : ShutInv(d), [Next]_vars PROVE \A d \in Conns : ShutInv(d)'
  OBVIOUS
<1>1. CASE LogicDispatch
  BY <1>1, QuietSteps, SendingSteps DEF LogicDispatch
<1>2. CASE LogicCall
  BY <1>2, SendingSteps DEF LogicCall
<1>3. CASE NetEvent
  BY <1>3, QuietSteps DEF NetEvent
<1>4. CASE NetCommand
  BY <1>4, CommandSteps DEF NetCommand
<1>5. CASE NetLoop
  BY <1>5, QuietSteps DEF NetLoop
<1>6. CASE UNCHANGED vars
  BY <1>6, QuietSteps
<1> QED
  BY <1>1, <1>2, <1>3, <1>4, <1>5, <1>6 DEF Next

\* What the net thread has still to run is in its queue or in its batch.
LEMMA CmdsInFlight ==
  ASSUME TypeOK, NEW c, NEW type \in Cmds(c)
  PROVE  Msg(type, c) \in InFlight
<1>1. netq \in Seq(Commands) /\ batch \in Seq(Commands) /\ Commanded \in Seq(Commands)
  BY CommandedType DEF TypeOK
<1>2. PICK i \in 1 .. Len(Commanded) : Commanded[i].c = c /\ Commanded[i].type = type
  BY DEF Cmds, TypesOf
<1>3. Commanded[i] = Msg(type, c)
  <2>1. Commanded[i] \in Commands
    BY <1>1
  <2> QED
    BY <1>2, <2>1 DEF Commands, Msg
<1>4. CASE i <= Len(batch)
  <2>1. i \in DOMAIN batch /\ Commanded[i] = batch[i]
    BY <1>1, <1>4 DEF Commanded
  <2> QED
    BY <1>3, <2>1 DEF InFlight, Range
<1>5. CASE i > Len(batch)
  <2>1. i - Len(batch) \in DOMAIN netq /\ Commanded[i] = netq[i - Len(batch)]
    BY <1>1, <1>5 DEF Commanded
  <2> QED
    BY <1>3, <2>1 DEF InFlight, Range
<1> QED
  BY <1>1, <1>4, <1>5

\* The two invariants imply that no shutdown is lost.
LEMMA InvShutdownSeen == Inv /\ (\A c \in Conns : ShutInv(c)) => ShutdownSeen
<1> SUFFICES ASSUME Inv, NEW c \in Conns, ShutInv(c), closing[c]
             PROVE  \/ Msg("SHUTDOWN", c) \in InFlight
                    \/ Msg("SHUTDOWN_FORCE", c) \in InFlight
                    \/ sock[c] \in {"draining", "closing", "released"}
  BY DEF ShutdownSeen
<1> QED
  BY CmdsInFlight DEF Inv, ShutInv, ShutTypes, ShutSocks

-----------------------------------------------------------------------------
(* Theorems.                                                               *)

\* Every variable keeps its type, and no connect is answered twice: a callback
\* of CBaseConnectionMgr for a connect that failed never follows one for it that
\* succeeded, nor the other way round.
THEOREM TypesKept == SafeSpec => []TypeOK
<1>1. Inv => TypeOK
  BY DEF Inv
<1> QED
  BY <1>1, Invariance, PTL

\* Neither a command to CNetRunnable, nor a packet to the service, nor a
\* CBaseConnection holds a pointer to a CCoreConnection that was deleted.
THEOREM NothingDangles == SafeSpec => []NoDangling
BY InvNoDangling, Invariance, PTL

\* CBaseConnectionMgr::onRecv finds the connection of a message, unless the
\* service refused it.
THEOREM RecvFinds == SafeSpec => []RecvFindsBase
BY InvRecv, Invariance, PTL

\* Nothing a callback sends overtakes the acknowledgement of its connection.
THEOREM AcksFirst == SafeSpec => []AckFirst
BY InvAckFirst, Invariance, PTL


\* CBaseConnection::shutdown is never lost between the service and the net thread,
\* if no other service sends to the id of a connection that is gone.
THEOREM ShutdownArrives ==
  ASSUME ~StaleSend
  PROVE  SafeSpec => []ShutdownSeen
<1>1. Init => \A c \in Conns : ShutInv(c)
  <2> SUFFICES ASSUME Init, NEW c \in Conns PROVE ShutInv(c)
    OBVIOUS
  <2>1. Commanded = <<>>
    BY ConcatEmptySeq DEF Init, Commanded
  <2> QED
    BY <2>1, NoTypes DEF Init, ShutInv, Cmds, AckLastOf, Ordered
<1>2. Inv /\ (\A c \in Conns : ShutInv(c)) /\ [Next]_vars => (\A c \in Conns : ShutInv(c))'
  BY ShutStep
<1> QED
  BY <1>1, <1>2, Invariance, InvShutdownSeen, PTL DEF SafeSpec
=============================================================================
