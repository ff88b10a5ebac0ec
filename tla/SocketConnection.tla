-------------------------- MODULE SocketConnection --------------------------
(***************************************************************************)
(* The life of a connection, which two threads share: the net thread owns  *)
(* the socket (CNetConnecter) and the CCoreConnection, the service that    *)
(* listens or connects owns the CBaseConnection.  They talk through the    *)
(* queue of the net thread and the queue of the service, by connection id  *)
(* and by raw pointer.  The packets of the service are handled one at a    *)
(* time, in order: this is what LogicMessageQueue guarantees.              *)
(***************************************************************************)
EXTENDS Naturals, Sequences, Functions

CONSTANTS Active,    \* connections the service asks for (connect)
          Passive,   \* connections the peer opens (listen, accept)
          MaxData,   \* bound: messages each side sends, on all connections
          StaleSend, \* other services may send to an id that is gone
          Stall      \* a peer may stop reading for ever

Conns == Active \cup Passive

ASSUME SocketAssumption ==
  /\ Active \cap Passive = {}
  /\ MaxData \in Nat
  /\ StaleSend \in BOOLEAN
  /\ Stall \in BOOLEAN

VARIABLES
  sock,   \* the CNetConnecter of each connection
  pend,   \* whether its send buffer holds data
  core,   \* m_nState of the CCoreConnection, or absent, or deleted
  base,   \* the CBaseConnection: absent, open, refused (no factory) or gone
  closing,\* m_bClosing of the CBaseConnection
  kicked, \* history: shutdown(true, ..) was called
  asked,  \* connect was called (active connections)
  answer, \* history: how many connect or connect-fail callbacks came of it
  netq,   \* the queue of the net thread
  batch,  \* the part of its m_vecMessagePacket the net thread has left
  phase,  \* where the net thread is in onProcess
  lgq,    \* the queue of the service
  wrote,  \* bound: messages the services sent
  heard   \* bound: messages the peers sent

vars == <<sock, pend, core, base, closing, kicked, asked, answer, netq, batch,
          phase, lgq, wrote, heard>>
netVars == <<batch, phase>>
sockVars == <<sock, pend, core>>
logicVars == <<base, closing, kicked, asked, answer>>
bounds == <<wrote, heard>>

\* trying: connect in progress; accepted: waits for its first event; open;
\* draining: shut down, waits for its send buffer; closing, failing: in
\* m_listCloseSocket, after or without a connection; released.
Socks == {"none", "trying", "accepted", "open", "draining", "closing", "failing", "released"}
Cores == {"absent", "eCCS_None", "eCCS_Connectting", "eCCS_Connected",
          "eCCS_Disconnecting", "deleted"}
Commands == [type : {"CONNECT", "SHUTDOWN", "SHUTDOWN_FORCE", "CONNECT_ACK", "CONNECT_NAK",
                     "DISCONNECT_ACK", "SEND1", "SEND2"}, c : Conns]
Packets == [type : {"CONNECT", "CONNECT_FAIL", "DISCONNECT", "RECV"}, c : Conns]
Msg(type, c) == [type |-> type, c |-> c]

Exists(c) == core[c] \notin {"absent", "deleted"}
Linked(c) == sock[c] \in {"open", "draining", "closing"}  \* m_pNetConnecter # nullptr

Init ==
  /\ sock = [c \in Conns |-> "none"]
  /\ pend = [c \in Conns |-> FALSE]
  /\ core = [c \in Conns |-> "absent"]
  /\ base = [c \in Conns |-> "absent"]
  /\ closing = [c \in Conns |-> FALSE]
  /\ kicked = [c \in Conns |-> FALSE]
  /\ asked = [c \in Conns |-> FALSE]
  /\ answer = [c \in Conns |-> 0]
  /\ netq = <<>>
  /\ batch = <<>>
  /\ phase = "update"
  /\ lgq = <<>>
  /\ wrote = 0
  /\ heard = 0

-----------------------------------------------------------------------------
(* Mutants: the same steps with a bug such code could have.                *)

\* onDisconnect answers before it releases the CBaseConnection
KeepsBase(c) == UNCHANGED base
\* onConnect calls back before it sends the acknowledgement
AckLast(c) == <<Msg("SEND1", c), Msg("CONNECT_ACK", c)>>
\* onDisconnect of a connection the service refused is not answered
AnswersOpenOnly(c) == IF base[c] = "open" THEN <<Msg("DISCONNECT_ACK", c)>> ELSE <<>>
\* a connect that failed is reported by the socket and again by its owner
FailsTwice(c) == <<Msg("CONNECT_FAIL", c), Msg("CONNECT_FAIL", c)>>
\* the release of a socket that never connected is silent
SilentFail(c) == <<>>
\* a forced shutdown waits for the send buffer too
WaitsAlways(c, force) == sock' = [sock EXCEPT ![c] = "draining"]
\* a shutdown while data is unsent is ignored
OnlyWhenSent(c, force) ==
  IF sock[c] = "open" /\ ~pend[c] THEN sock' = [sock EXCEPT ![c] = "closing"]
  ELSE UNCHANGED sock
\* onRecv dispatches before onConnect has told the service
RecvEarly(c) == sock[c] \in {"accepted", "open", "draining"}

-----------------------------------------------------------------------------
(* The service, and the other services that send.                          *)

Connect(c) ==
  /\ c \in Active
  /\ ~asked[c]
  /\ asked' = [asked EXCEPT ![c] = TRUE]
  /\ netq' = Append(netq, Msg("CONNECT", c))
  /\ UNCHANGED <<base, closing, kicked, answer, lgq, netVars, sockVars, bounds>>

\* CBaseConnection::send, by pointer
Send(c) ==
  /\ base[c] = "open"
  /\ wrote < MaxData
  /\ wrote' = wrote + 1
  /\ netq' = Append(netq, Msg("SEND1", c))
  /\ UNCHANGED <<heard, lgq, logicVars, netVars, sockVars>>

\* CBaseConnectionMgr::send, by id: from any service that once learnt it
SendByID(c) ==
  /\ base[c] = "open" \/ (StaleSend /\ base[c] = "gone")
  /\ wrote < MaxData
  /\ wrote' = wrote + 1
  /\ netq' = Append(netq, Msg("SEND2", c))
  /\ UNCHANGED <<heard, lgq, logicVars, netVars, sockVars>>

\* CBaseConnection::shutdown does nothing when it was called before
Shutdown(c, force) ==
  /\ base[c] = "open"
  /\ ~closing[c] \/ (force /\ ~kicked[c])
  /\ kicked' = [kicked EXCEPT ![c] = @ \/ force]
  /\ IF closing[c] THEN UNCHANGED <<closing, netq>>
     ELSE /\ closing' = [closing EXCEPT ![c] = TRUE]
          /\ netq' = Append(netq, Msg(IF force THEN "SHUTDOWN_FORCE" ELSE "SHUTDOWN", c))
  /\ UNCHANGED <<base, asked, answer, lgq, netVars, sockVars, bounds>>

\* What onConnect sends: the acknowledgement, before the callbacks run
AckOf(c) == <<Msg("CONNECT_ACK", c)>>

\* The packet the service is about to dispatch
Packet(type, c) == lgq # <<>> /\ Head(lgq) = Msg(type, c) /\ lgq' = Tail(lgq)

OnConnect(c) ==
  /\ Packet("CONNECT", c)
  /\ \/ /\ base' = [base EXCEPT ![c] = "open"]
        /\ netq' = netq \o AckOf(c)
     \/ /\ base' = [base EXCEPT ![c] = "refused"]
        /\ netq' = Append(netq, Msg("CONNECT_NAK", c))
  /\ answer' = [answer EXCEPT ![c] = IF c \in Active THEN @ + 1 ELSE @]
  /\ UNCHANGED <<closing, kicked, asked, netVars, sockVars, bounds>>

OnConnectFail(c) ==
  /\ Packet("CONNECT_FAIL", c)
  /\ answer' = [answer EXCEPT ![c] = @ + 1]
  /\ UNCHANGED <<base, closing, kicked, asked, netq, netVars, sockVars, bounds>>

ReleaseBase(c) ==
  base' = [base EXCEPT ![c] = IF @ = "open" THEN "gone" ELSE @]

DisconnectAnswer(c) == <<Msg("DISCONNECT_ACK", c)>>

OnDisconnect(c) ==
  /\ Packet("DISCONNECT", c)
  /\ ReleaseBase(c)
  /\ netq' = netq \o DisconnectAnswer(c)
  /\ UNCHANGED <<closing, kicked, asked, answer, netVars, sockVars, bounds>>

\* a message for a connection the service does not have is dropped
OnRecv(c) ==
  /\ Packet("RECV", c)
  /\ UNCHANGED <<netq, logicVars, netVars, sockVars, bounds>>

-----------------------------------------------------------------------------
(* The net thread, CNetEventLoop::update: first it releases the sockets    *)
(* that are closing, then it handles events.                               *)

NoneClosing == \A c \in Conns : sock[c] \notin {"closing", "failing"}

OnConnectFailPackets(c) == <<Msg("CONNECT_FAIL", c)>>

\* CNetConnecter::release and the handler it calls
Release(c) ==
  /\ phase = "update"
  /\ \/ /\ sock[c] = "closing"
        /\ core' = [core EXCEPT ![c] = "eCCS_Disconnecting"]
        /\ lgq' = Append(lgq, Msg("DISCONNECT", c))
     \/ /\ sock[c] = "failing"
        /\ lgq' = lgq \o OnConnectFailPackets(c)
        /\ UNCHANGED core
  /\ sock' = [sock EXCEPT ![c] = "released"]
  /\ pend' = [pend EXCEPT ![c] = FALSE]
  /\ UNCHANGED <<netq, logicVars, netVars, bounds>>

BeginEvents ==
  /\ phase = "update"
  /\ NoneClosing
  /\ phase' = "events"
  /\ UNCHANGED <<batch, netq, lgq, logicVars, sockVars, bounds>>

\* onAccept creates the CCoreConnection
Accept(c) ==
  /\ phase = "events"
  /\ c \in Passive
  /\ sock[c] = "none"
  /\ sock' = [sock EXCEPT ![c] = "accepted"]
  /\ core' = [core EXCEPT ![c] = "eCCS_None"]
  /\ UNCHANGED <<pend, netq, lgq, logicVars, netVars, bounds>>

\* CNetConnecter::onConnect: an active connection gets its CCoreConnection now
Established(c) ==
  /\ phase = "events"
  /\ sock[c] \in {"trying", "accepted"}
  /\ sock' = [sock EXCEPT ![c] = "open"]
  /\ core' = [core EXCEPT ![c] = "eCCS_Connectting"]
  /\ lgq' = Append(lgq, Msg("CONNECT", c))
  /\ UNCHANGED <<pend, netq, logicVars, netVars, bounds>>

ConnectError(c) ==
  /\ phase = "events"
  /\ sock[c] = "trying"
  /\ sock' = [sock EXCEPT ![c] = "failing"]
  /\ UNCHANGED <<pend, core, netq, lgq, logicVars, netVars, bounds>>

MayRecv(c) == sock[c] \in {"open", "draining"}

RecvData(c) ==
  /\ phase = "events"
  /\ MayRecv(c)
  /\ heard < MaxData
  /\ heard' = heard + 1
  /\ lgq' = Append(lgq, Msg("RECV", c))
  /\ UNCHANGED <<wrote, netq, logicVars, netVars, sockVars>>

\* the peer has closed: the connection waits for its send buffer only
PeerClose(c) ==
  /\ phase = "events"
  /\ sock[c] \in {"open", "draining"}
  /\ sock' = [sock EXCEPT ![c] = IF pend[c] THEN "draining" ELSE "closing"]
  /\ UNCHANGED <<pend, core, netq, lgq, logicVars, netVars, bounds>>

\* onSend writes the whole send buffer; a socket that was shut down closes
Flush(c) ==
  /\ phase = "events"
  /\ pend[c]
  /\ pend' = [pend EXCEPT ![c] = FALSE]
  /\ sock' = [sock EXCEPT ![c] = IF @ = "draining" THEN "closing" ELSE @]
  /\ UNCHANGED <<core, netq, lgq, logicVars, netVars, bounds>>

SocketError(c) ==
  /\ phase = "events"
  /\ sock[c] \in {"open", "draining"}
  /\ sock' = [sock EXCEPT ![c] = "closing"]
  /\ UNCHANGED <<pend, core, netq, lgq, logicVars, netVars, bounds>>

RecvCommands ==
  /\ phase = "events"
  /\ phase' = "commands"
  /\ batch' = netq
  /\ netq' = <<>>
  /\ UNCHANGED <<lgq, logicVars, sockVars, bounds>>

-----------------------------------------------------------------------------
(* The net thread, CNetRunnable::onProcess: its queue.                     *)

Command(type, c) ==
  /\ phase = "commands"
  /\ batch # <<>>
  /\ Head(batch) = Msg(type, c)
NextCommand == batch' = Tail(batch) /\ UNCHANGED phase

\* CNetConnecter::shutdown
ShutdownSock(c, force) ==
  sock' = [sock EXCEPT ![c] = IF force \/ ~pend[c] THEN "closing" ELSE "draining"]

\* CCoreConnection::shutdown: only while it has a socket
CoreShutdown(c, force) ==
  IF Linked(c) /\ sock[c] # "closing" THEN ShutdownSock(c, force) ELSE UNCHANGED sock

DoConnect(c) ==
  /\ Command("CONNECT", c)
  /\ \/ /\ sock' = [sock EXCEPT ![c] = "trying"]
        /\ UNCHANGED lgq
     \/ /\ lgq' = Append(lgq, Msg("CONNECT_FAIL", c))
        /\ UNCHANGED sock
  /\ NextCommand
  /\ UNCHANGED <<pend, core, netq, logicVars, bounds>>

DoShutdown(c) ==
  /\ \/ Command("SHUTDOWN", c) /\ CoreShutdown(c, FALSE)
     \/ Command("SHUTDOWN_FORCE", c) /\ CoreShutdown(c, TRUE)
  /\ NextCommand
  /\ UNCHANGED <<pend, core, netq, lgq, logicVars, bounds>>

DoConnectAck(c) ==
  /\ Command("CONNECT_ACK", c)
  /\ IF core[c] = "eCCS_Connectting"
       THEN /\ core' = [core EXCEPT ![c] = "eCCS_Connected"]
            /\ UNCHANGED sock
       ELSE /\ CoreShutdown(c, TRUE)
            /\ UNCHANGED core
  /\ NextCommand
  /\ UNCHANGED <<pend, netq, lgq, logicVars, bounds>>

DoConnectNak(c) ==
  /\ Command("CONNECT_NAK", c)
  /\ CoreShutdown(c, TRUE)
  /\ NextCommand
  /\ UNCHANGED <<pend, core, netq, lgq, logicVars, bounds>>

\* destroyCoreConnection
DoDisconnectAck(c) ==
  /\ Command("DISCONNECT_ACK", c)
  /\ core' = [core EXCEPT ![c] = "deleted"]
  /\ NextCommand
  /\ UNCHANGED <<sock, pend, netq, lgq, logicVars, bounds>>

\* CCoreConnection::send, CNetConnecter::send: a socket shut down takes nothing
CoreSend(c) == pend' = [pend EXCEPT ![c] = @ \/ sock[c] = "open"]

DoSend1(c) ==
  /\ Command("SEND1", c)
  /\ CoreSend(c)
  /\ NextCommand
  /\ UNCHANGED <<sock, core, netq, lgq, logicVars, bounds>>

\* an unknown id makes onProcess return: the rest of the batch is never run
DoSend2(c) ==
  /\ Command("SEND2", c)
  /\ IF Exists(c) THEN CoreSend(c) /\ NextCommand
     ELSE batch' = <<>> /\ UNCHANGED <<pend, phase>>
  /\ UNCHANGED <<sock, core, netq, lgq, logicVars, bounds>>

EndCommands ==
  /\ phase = "commands"
  /\ batch = <<>>
  /\ phase' = "update"
  /\ UNCHANGED <<batch, netq, lgq, logicVars, sockVars, bounds>>

-----------------------------------------------------------------------------

LogicDispatch ==
  \E c \in Conns : OnConnect(c) \/ OnConnectFail(c) \/ OnDisconnect(c) \/ OnRecv(c)

LogicCall ==
  \E c \in Conns :
    \/ Connect(c) \/ Send(c) \/ SendByID(c)
    \/ \E force \in BOOLEAN : Shutdown(c, force)

NetEvent ==
  \E c \in Conns :
    \/ Accept(c) \/ Established(c) \/ ConnectError(c) \/ RecvData(c)
    \/ PeerClose(c) \/ Flush(c) \/ SocketError(c)

NetCommand ==
  \E c \in Conns :
    \/ DoConnect(c) \/ DoShutdown(c) \/ DoConnectAck(c) \/ DoConnectNak(c)
    \/ DoDisconnectAck(c) \/ DoSend1(c) \/ DoSend2(c)

NetLoop == (\E c \in Conns : Release(c)) \/ BeginEvents \/ RecvCommands \/ EndCommands

Next == LogicDispatch \/ LogicCall \/ NetEvent \/ NetCommand \/ NetLoop

\* Both threads keep running.  The kernel reports the end of a connect, and a
\* peer that reads lets the send buffer drain; nobody has to send or to close.
Fairness ==
  /\ WF_vars(LogicDispatch)
  /\ WF_vars(NetCommand)
  /\ WF_vars(NetLoop)
  /\ \A c \in Conns : SF_vars(Established(c) \/ ConnectError(c))
  /\ ~Stall => \A c \in Conns : SF_vars(Flush(c))

SafeSpec == Init /\ [][Next]_vars
Spec == SafeSpec /\ Fairness

-----------------------------------------------------------------------------
(* Properties.                                                             *)

\* Every variable has the type its declaration in the code gives it; one
\* connect call is answered by at most one callback.
TypeOK ==
  /\ sock \in [Conns -> Socks]
  /\ pend \in [Conns -> BOOLEAN]
  /\ core \in [Conns -> Cores]
  /\ base \in [Conns -> {"absent", "open", "refused", "gone"}]
  /\ closing \in [Conns -> BOOLEAN]
  /\ kicked \in [Conns -> BOOLEAN]
  /\ asked \in [Conns -> BOOLEAN]
  /\ answer \in [Conns -> 0..1]
  /\ netq \in Seq(Commands)
  /\ batch \in Seq(Commands)
  /\ phase \in {"update", "events", "commands"}
  /\ lgq \in Seq(Packets)
  /\ wrote \in 0..MaxData
  /\ heard \in 0..MaxData

InFlight == Range(netq) \cup Range(batch)

\* No thread holds a pointer to a deleted CCoreConnection: neither the
\* commands and packets that carry one, nor a CBaseConnection of the service.
NoDangling ==
  \A c \in Conns :
    \/ Exists(c)
    \/ /\ \A type \in {"SEND1", "CONNECT_ACK", "CONNECT_NAK"} : Msg(type, c) \notin InFlight
       /\ Msg("CONNECT", c) \notin Range(lgq)
       /\ base[c] # "open"

\* A message of the peer finds its CBaseConnection, unless the service has
\* refused the connection: RECV comes after CONNECT and before DISCONNECT.
RecvFindsBase ==
  \A c \in Conns :
    lgq # <<>> /\ Head(lgq) = Msg("RECV", c) => base[c] \in {"open", "refused"}

\* base_connection_mgr_impl.cpp:101: the acknowledgement goes to the net
\* thread before anything the callbacks send.
AckFirst ==
  \A c \in Conns, i, j \in DOMAIN netq :
    netq[i] = Msg("CONNECT_ACK", c) /\ netq[j].c = c => i <= j

\* Every connection that ends is taken apart: the CCoreConnection of a closed
\* socket is deleted.
Reclaimed == \A c \in Conns : core[c] = "eCCS_Disconnecting" ~> core[c] = "deleted"

\* Every connect call is answered by a callback.
ConnectAnswered == \A c \in Active : asked[c] ~> answer[c] = 1

\* base_connection.h:64: shutdown closes the connection.  The request reaches
\* the socket: it is on its way, or the socket is on its way to be closed.
ShutdownSeen ==
  \A c \in Conns : closing[c] =>
    \/ Msg("SHUTDOWN", c) \in InFlight
    \/ Msg("SHUTDOWN_FORCE", c) \in InFlight
    \/ sock[c] \in {"draining", "closing", "released"}

\* network.h: a connection that is shut down but cannot send what is left can
\* be kicked.  After shutdown(true, ..) the connection ends.
KickCloses == \A c \in Conns : kicked[c] ~> base[c] = "gone"
=============================================================================
