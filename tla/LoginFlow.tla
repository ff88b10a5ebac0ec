----------------------------- MODULE LoginFlow ------------------------------
(***************************************************************************)
(* One player on the way into the game, several times: the dispatch        *)
(* service asks the user centre (uc) for a game service (gas), gives a     *)
(* token to a gate and to the client, the client shakes hands with the     *)
(* gate, and the gate enters the player into the gas.  A login may come    *)
(* while an earlier one is under way or has succeeded, at the same or at   *)
(* another gate or gas.  Heartbeats from gate to gas and from gas to uc    *)
(* repair what has come apart.                                             *)
(*                                                                         *)
(* Messages between two services arrive in their order; the link between a *)
(* gate and a gas may be lost, with what is on it, and comes back.  A      *)
(* timer may be due at any time.  A login is a number: it is the token of  *)
(* that login and the socket of its client.                                *)
(***************************************************************************)
EXTENDS Naturals, Sequences, FiniteSets

CONSTANTS Gates, Gases, \* ids of services, gases are positive numbers
          Frail,        \* bound: pairs of gate and gas whose link may be lost
          Routes,       \* per login the pairs of gas and gate dispatch may name
          MaxLogins,    \* bound: logins of the player
          MaxFaults     \* bound: calls that fail, links that are lost

ASSUME LoginAssumption ==
  /\ Gates # {} /\ Gases # {}
  /\ Gases \subseteq Nat \ {0}
  /\ Frail \subseteq Gates \X Gases
  /\ MaxLogins \in Nat /\ MaxFaults \in Nat
  /\ Routes \in [1..MaxLogins -> SUBSET (Gases \X Gates)]

Logins == 1..MaxLogins

VARIABLES
  login,   \* per login the gas and the gate it got from dispatch
  token,   \* the logins whose d2g_player_token_notify is on the way
  conn,    \* per login the connection of its client, as the gate knows it
  session, \* per gate the CGateClientSession of the player
  player,  \* per gas the CPlayer
  loading, \* per gas the enter requests whose coroutine waits in createPlayer
  uc,      \* the CUserInfo of the player
  toGas,   \* messages from a gate to a gas
  toGate,  \* messages from a gas to a gate
  toUc,    \* messages from a gas to uc
  toKick,  \* per gas the number of u2s_kick_player_notify on the way
  lost,    \* pairs of gate and gas whose link is lost
  faults   \* history: number of faults so far

gateVars == <<conn, session>>
gasVars == <<player, loading>>
vars == <<login, token, conn, session, player, loading, uc, toGas, toGate, toUc, toKick,
          lost, faults>>
linkVars == <<lost, faults>>

\* m_nState; both: eCSS_ClientEnter | eCSS_TokenEnter.  sock is 0 when no client
\* is bound, gas is 0 when none is known; timer: m_tickerTokenTimeout is
\* registered; call: enterGas waits for the answer to its request.
NoSession == [state |-> "gone", tok |-> 0, sock |-> 0, gas |-> 0, timer |-> FALSE, call |-> FALSE]
NewSession(i) == [NoSession EXCEPT !.state = "none", !.tok = i, !.timer = TRUE]

NoPlayer == [stage |-> "gone"]
Player(k, st) == [stage |-> st, gate |-> k]
NoLogin == [gas |-> 0]
NoUser == [gas |-> 0, timer |-> FALSE]

Init ==
  /\ login = [i \in Logins |-> NoLogin]
  /\ token = {}
  /\ conn = [i \in Logins |-> "none"]
  /\ session = [k \in Gates |-> NoSession]
  /\ player = [s \in Gases |-> NoPlayer]
  /\ loading = [s \in Gases |-> <<>>]
  /\ uc = NoUser
  /\ toGas = [k \in Gates |-> [s \in Gases |-> <<>>]]
  /\ toGate = [s \in Gases |-> [k \in Gates |-> <<>>]]
  /\ toUc = [s \in Gases |-> <<>>]
  /\ toKick = [s \in Gases |-> 0]
  /\ lost = {}
  /\ faults = 0

-----------------------------------------------------------------------------
(* Mutants: the same steps with a bug such code could have.                *)

\* the connection that is displaced is not shut down
KeepsOld(k) == conn
\* the client that leaves is not looked up by its socket
NeverBound(i) == {}
\* a heartbeat of the wrong gas is taken like that of the right one
KeepsEntry(s) == FALSE
\* a gas answers heartbeats for a player it has, whatever the gate
AnyGate(k, s) == player[s].stage = "normal"

-----------------------------------------------------------------------------
(* Messages.                                                               *)

Msg(t, i) == [type |-> t, login |-> i]
Beat == Msg("beat", 0)
Leave == Msg("leave", 0)
Kick == Msg("kick", 0)
Down == Msg("down", 0) \* eMCT_SERVICE_DISCONNECT
ToUc(s, m) == [toUc EXCEPT ![s] = Append(@, m)]
Has(queue, m) == \E n \in DOMAIN queue : queue[n] = m

\* What is sent to the service 0, or on a link that is lost, goes nowhere, whether
\* the sender has heard of it or not
ToGas(k, s, m) == IF s = 0 \/ <<k, s>> \in lost THEN toGas ELSE [toGas EXCEPT ![k][s] = Append(@, m)]
ToGate(queues, s, k, m) == IF <<k, s>> \in lost THEN queues ELSE [queues EXCEPT ![s][k] = Append(@, m)]

\* CBaseConnectionOtherNode::onDisconnect on both nodes: the rest of what is on the
\* way is lost, and each service is told behind what has arrived.  Bound: a link
\* over which the gas does not serve the player is not lost.
LinkLost(k, s) ==
  /\ <<k, s>> \in Frail \ lost /\ faults < MaxFaults
  /\ player[s] \in {Player(k, "load"), Player(k, "normal")}
  /\ faults' = faults + 1
  /\ lost' = lost \cup {<<k, s>>}
  /\ \E n \in 0..Len(toGas[k][s]) :
       toGas' = [toGas EXCEPT ![k][s] = Append(SubSeq(@, 1, n), Down)]
  /\ \E n \in 0..Len(toGate[s][k]) :
       toGate' = [toGate EXCEPT ![s][k] = Append(SubSeq(@, 1, n), Down)]
  /\ UNCHANGED <<login, token, gateVars, gasVars, uc, toUc, toKick>>

\* A node dials again, or accepts, when it has heard of the loss; its services,
\* which hear next, are taken to have heard as well when the new link is there
LinkBack(k, s) ==
  /\ <<k, s>> \in lost /\ ~Has(toGas[k][s], Down) /\ ~Has(toGate[s][k], Down)
  /\ lost' = lost \ {<<k, s>>}
  /\ UNCHANGED <<login, token, gateVars, gasVars, uc, toGas, toGate, toUc, toKick, faults>>

-----------------------------------------------------------------------------
(* Dispatch: l2d_validate_login_request_handler, and its two messages.     *)

\* d2u_player_login_request_handler: an entry that has a gas keeps it
Placed(s) == IF uc.gas # 0 THEN uc ELSE [gas |-> s, timer |-> TRUE]

\* The coroutine of dispatch has found the account, names a gas to uc, and sends
\* a token to a gate and to the client.  The request is answered at once: how
\* long it takes makes no difference to the rest, which sees the token only.
Dispatch(i) ==
  /\ login[i] = NoLogin /\ \A j \in 1..(i - 1) : login[j] # NoLogin
  /\ \E s \in Gases, k \in Gates :
       /\ <<s, k>> \in Routes[i]
       /\ uc' = Placed(s)
       /\ login' = [login EXCEPT ![i] = [gas |-> uc'.gas, gate |-> k]]
  /\ token' = token \cup {i}
  /\ UNCHANGED <<gateVars, gasVars, toGas, toGate, toUc, toKick, linkVars>>

-----------------------------------------------------------------------------
(* The gate.                                                               *)

\* CBaseConnection::shutdown: onDisconnect comes later
Shuts(clients, i) == [clients EXCEPT ![i] = IF @ = "open" THEN "closing" ELSE @]
Shut(i) == Shuts(conn, i)
ShutBound(k) == IF session[k].sock = 0 THEN conn ELSE Shut(session[k].sock)

\* CGateClientSessionMgr::destroySession; the call of a session dies with it
DestroySession(k) ==
  /\ session' = [session EXCEPT ![k] = NoSession]
  /\ conn' = ShutBound(k)
  /\ toGas' = ToGas(k, session[k].gas, Leave)

\* enterGas, up to the wait.  When the gate knows that there is no way to the
\* gas, the call fails at once and the session goes; when it does not know yet,
\* the request is lost and the session waits for what it will be told.
NoWay(k, s) == <<k, s>> \in lost /\ ~Has(toGate[s][k], Down)
Entering(ses) == [ses EXCEPT !.state = "both", !.timer = FALSE, !.call = TRUE]
EnterGas(k, ses, i, clients) ==
  \/ /\ ~NoWay(k, ses.gas)
     /\ session' = [session EXCEPT ![k] = Entering(ses)]
     /\ toGas' = ToGas(k, ses.gas, Msg("enter", i))
     /\ conn' = clients
  \/ /\ NoWay(k, ses.gas)
     /\ session' = [session EXCEPT ![k] = NoSession]
     /\ conn' = Shuts(clients, ses.sock)
     /\ toGas' = toGas

TokenEntered(ses) == ses.state \in {"token", "both"}
ClientEntered(ses) == ses.state \in {"client", "both"}

\* a Normal session is taken over: the client it had is shut down
Displaced(k) == ShutBound(k)

\* d2g_player_token_notify_handler
GateToken(i) ==
  LET k == login[i].gate
      ses == session[k]
  IN /\ i \in token
     /\ token' = token \ {i}
     /\ \/ /\ ClientEntered(ses) /\ ses.tok = i
           /\ EnterGas(k, [ses EXCEPT !.gas = login[i].gas], i, conn)
        \/ /\ ClientEntered(ses) /\ ses.tok # i
           /\ conn' = ShutBound(k)
           /\ UNCHANGED <<session, toGas>>
        \/ /\ ses.state = "token"
           /\ DestroySession(k)
        \/ /\ ses.state = "normal"
           /\ conn' = Displaced(k)
           /\ session' = [session EXCEPT ![k].state = "token", ![k].tok = i, ![k].sock = 0]
           /\ UNCHANGED <<toGas>>
        \/ /\ ses.state = "gone"
           /\ session' = [session EXCEPT
                ![k] = [NewSession(i) EXCEPT !.state = "token", !.gas = login[i].gas]]
           /\ UNCHANGED <<conn, toGas>>
     /\ UNCHANGED <<login, gasVars, uc, toGate, toUc, toKick, linkVars>>

\* The client connects and shakes hands.  (CGateClientMessageHandler::handshake)
Handshake(i) ==
  LET k == login[i].gate
      ses == session[k]
      opened == [conn EXCEPT ![i] = "open"]
      refused == [conn EXCEPT ![i] = "closing"]
  IN /\ login[i] # NoLogin /\ conn[i] = "none"
     /\ \/ /\ TokenEntered(ses) /\ ses.tok = i
           /\ EnterGas(k, [ses EXCEPT !.sock = i], i, opened)
        \/ /\ (TokenEntered(ses) /\ ses.tok # i) \/ ses.state = "client"
           /\ conn' = refused
           /\ UNCHANGED <<session, toGas>>
        \/ /\ ses.state = "normal"
           /\ conn' = [Displaced(k) EXCEPT ![i] = "open"]
           /\ session' = [session EXCEPT ![k].state = "client", ![k].tok = i, ![k].sock = i]
           /\ UNCHANGED <<toGas>>
        \/ /\ ses.state = "gone"
           /\ conn' = opened
           /\ session' = [session EXCEPT ![k] = [NewSession(i) EXCEPT !.state = "client", !.sock = i]]
           /\ UNCHANGED <<toGas>>
     /\ UNCHANGED <<login, token, gasVars, uc, toGate, toUc, toKick, linkVars>>

\* The client goes, or its connection breaks
ClientLeaves(i) ==
  /\ conn[i] = "open"
  /\ conn' = Shut(i)
  /\ UNCHANGED <<login, token, session, gasVars, uc, toGas, toGate, toUc, toKick, linkVars>>

\* CGateConnectionFromClient::onDisconnect, at most one gate has the socket
BoundTo(i) == {k \in Gates : session[k].sock = i}
Disconnected(i) ==
  /\ conn[i] = "closing"
  /\ conn' = [conn EXCEPT ![i] = "closed"]
  /\ session' = [k \in Gates |-> IF k \in BoundTo(i) THEN NoSession ELSE session[k]]
  /\ \/ BoundTo(i) = {} /\ toGas' = toGas
     \/ \E k \in BoundTo(i) : toGas' = ToGas(k, session[k].gas, Leave)
  /\ UNCHANGED <<login, token, gasVars, uc, toGate, toUc, toKick, linkVars>>

TokenTimeout(k) ==
  /\ session[k].timer
  /\ DestroySession(k)
  /\ UNCHANGED <<login, token, gasVars, uc, toGate, toUc, toKick, linkVars>>

\* onHeartbeat; a message takes less than the five seconds to the next one
Quick(k, s) == ~Has(toGas[k][s], Beat) /\ ~Has(toGate[s][k], Kick)
GateBeat(k) ==
  /\ session[k].gas # 0 /\ Quick(k, session[k].gas)
  /\ toGas' = ToGas(k, session[k].gas, Beat)
  /\ UNCHANGED <<login, token, gateVars, gasVars, uc, toGate, toUc, toKick, linkVars>>

\* onGasDisconnect ends the sessions of the gas, whose leaves find no way
HangsOn(k, s) == session[k].gas = s

\* What a gate hears of a gas: the answer to enterGas, if its session still waits
\* for it, s2g_kick_player_notify, which ends the session without a leave, and
\* that the link was lost
GateTakes(k, s) ==
  LET m == Head(toGate[s][k])
      awaited == session[k].call /\ session[k].tok = m.login
  IN /\ toGate[s][k] # <<>>
     /\ toGate' = [toGate EXCEPT ![s][k] = Tail(@)]
     /\ \/ /\ m.type = "ok" /\ awaited
           /\ session' = [session EXCEPT ![k].state = "normal", ![k].call = FALSE]
           /\ conn' = conn
        \/ /\ m.type = "error" /\ awaited
           /\ session' = [session EXCEPT ![k].call = FALSE]
           /\ conn' = ShutBound(k)
        \/ /\ m.type \in {"ok", "error"} /\ ~awaited
           /\ UNCHANGED gateVars
        \/ /\ m.type = "kick" \/ (m.type = "down" /\ HangsOn(k, s))
           /\ session' = [session EXCEPT ![k] = NoSession]
           /\ conn' = ShutBound(k)
        \/ /\ m.type = "down" /\ ~HangsOn(k, s)
           /\ UNCHANGED gateVars
     /\ UNCHANGED <<login, token, gasVars, uc, toGas, toUc, toKick, linkVars>>

-----------------------------------------------------------------------------
(* The game service.                                                       *)

\* CPlayerMgr::getPlayer finds a player only when it is loaded
Present(s) == player[s].stage # "gone"
Normal(s) == player[s].stage = "normal"

\* g2s_player_enter_request_handler
Enter(k, s, i) ==
  \/ /\ Normal(s)
     /\ player' = [player EXCEPT ![s].gate = k]
     /\ toGate' = LET kicked == IF player[s].gate = k THEN toGate
                                ELSE ToGate(toGate, s, player[s].gate, Kick)
                  IN ToGate(kicked, s, k, Msg("ok", i))
     /\ UNCHANGED <<loading, toUc>>
  \/ /\ Present(s) /\ ~Normal(s)
     /\ toGate' = ToGate(toGate, s, k, Msg("error", i))
     /\ UNCHANGED <<gasVars, toUc>>
  \/ /\ ~Present(s)
     /\ player' = [player EXCEPT ![s] = Player(k, "load")]
     /\ loading' = [loading EXCEPT ![s] = Append(@, [login |-> i, gate |-> k])]
     /\ toUc' = ToUc(s, Beat)
     /\ toGate' = toGate

\* g2s_player_leave_notify_handler, from whatever gate; uc hears of it only when
\* the player was loaded
LeaveGas(s) ==
  /\ player' = [player EXCEPT ![s] = NoPlayer]
  /\ toUc' = IF Normal(s) THEN ToUc(s, Leave) ELSE toUc
  /\ UNCHANGED <<loading, toGate>>

\* g2s_player_heartbeat_notify_handler
Serves(k, s) == Normal(s) /\ player[s].gate = k
GateBeats(k, s) ==
  /\ toGate' = IF Serves(k, s) THEN toGate ELSE ToGate(toGate, s, k, Kick)
  /\ UNCHANGED <<gasVars, toUc>>

\* CPlayerMgr::onGateDisconnect, also when the player is not loaded yet
PlayersOf(k, s) == Present(s) /\ player[s].gate = k
GateLost(k, s) ==
  /\ player' = [player EXCEPT ![s] = IF PlayersOf(k, s) THEN NoPlayer ELSE @]
  /\ toUc' = IF PlayersOf(k, s) THEN ToUc(s, Leave) ELSE toUc
  /\ UNCHANGED <<loading, toGate>>

GasTakes(k, s) ==
  LET m == Head(toGas[k][s])
  IN /\ toGas[k][s] # <<>>
     /\ toGas' = [toGas EXCEPT ![k][s] = Tail(@)]
     /\ \/ m.type = "enter" /\ Enter(k, s, m.login)
        \/ m.type = "leave" /\ LeaveGas(s)
        \/ m.type = "beat" /\ GateBeats(k, s)
        \/ m.type = "down" /\ GateLost(k, s)
     /\ UNCHANGED <<login, token, gateVars, uc, toKick, linkVars>>

\* The coroutine of createPlayer goes on, looks the player up again, and logs in
\* whatever player it finds
Loaded(s) ==
  LET c == Head(loading[s])
  IN /\ loading[s] # <<>>
     /\ loading' = [loading EXCEPT ![s] = Tail(@)]
     /\ \/ /\ Present(s)
           /\ player' = [player EXCEPT ![s].stage = "normal"]
           /\ toGate' = ToGate(toGate, s, c.gate, Msg("ok", c.login))
           /\ faults' = faults
        \/ /\ ~Present(s)
           /\ toGate' = ToGate(toGate, s, c.gate, Msg("error", c.login))
           /\ UNCHANGED <<player, faults>>
        \/ /\ Present(s) /\ faults < MaxFaults
           /\ faults' = faults + 1
           /\ player' = [player EXCEPT ![s] = NoPlayer]
           /\ toGate' = ToGate(toGate, s, c.gate, Msg("error", c.login))
     /\ UNCHANGED <<login, token, gateVars, uc, toGas, toUc, toKick, lost>>

\* u2s_kick_player_notify_handler
GasKicked(s) ==
  /\ toKick[s] > 0
  /\ toKick' = [toKick EXCEPT ![s] = @ - 1]
  /\ toGate' = IF Normal(s) THEN ToGate(toGate, s, player[s].gate, Kick) ELSE toGate
  /\ player' = [player EXCEPT ![s] = NoPlayer]
  /\ UNCHANGED <<login, token, gateVars, loading, uc, toGas, toUc, linkVars>>

\* CPlayer::onHeartbeat, as quick
BeatDue(s) == Present(s) /\ ~Has(toUc[s], Beat) /\ toKick[s] = 0
PlayerBeat(s) ==
  /\ BeatDue(s)
  /\ toUc' = ToUc(s, Beat)
  /\ UNCHANGED <<login, token, gateVars, gasVars, uc, toGas, toGate, toKick, linkVars>>

\* the heartbeat finds no way to uc: the player goes and nobody is told
BeatFails(s) ==
  /\ BeatDue(s) /\ faults < MaxFaults
  /\ faults' = faults + 1
  /\ player' = [player EXCEPT ![s] = NoPlayer]
  /\ UNCHANGED <<login, token, gateVars, loading, uc, toGas, toGate, toUc, toKick, lost>>

-----------------------------------------------------------------------------
(* The user centre.                                                        *)

\* s2u_player_heartbeat_request_handler and s2u_player_leave_notify_handler: a
\* heartbeat of another gas takes the gas from the entry, a leave of any gas too.
\* No entry and one without a gas are the same to both.
Elsewhere(s) == uc.gas # s
UcTakes(s) ==
  LET m == Head(toUc[s])
      stranger == m = Beat /\ Elsewhere(s)
  IN /\ toUc[s] # <<>>
     /\ toUc' = [toUc EXCEPT ![s] = Tail(@)]
     /\ uc' = IF m = Leave \/ stranger THEN [uc EXCEPT !.gas = 0] ELSE [uc EXCEPT !.timer = FALSE]
     /\ toKick' = IF stranger THEN [toKick EXCEPT ![s] = @ + 1] ELSE toKick
     /\ UNCHANGED <<login, token, gateVars, gasVars, toGas, toGate, linkVars>>

\* CUserInfo::onTimeout
UcTimeout ==
  /\ uc.timer
  /\ uc' = NoUser
  /\ UNCHANGED <<login, token, gateVars, gasVars, toGas, toGate, toUc, toKick, linkVars>>

-----------------------------------------------------------------------------
Client(i) == Handshake(i) \/ ClientLeaves(i)

Next ==
  \/ \E i \in Logins : Dispatch(i) \/ GateToken(i) \/ Client(i) \/ Disconnected(i)
  \/ \E k \in Gates : TokenTimeout(k) \/ GateBeat(k)
  \/ \E k \in Gates, s \in Gases : GateTakes(k, s) \/ GasTakes(k, s) \/ LinkLost(k, s) \/ LinkBack(k, s)
  \/ \E s \in Gases : Loaded(s) \/ GasKicked(s) \/ PlayerBeat(s) \/ BeatFails(s) \/ UcTakes(s)
  \/ UcTimeout

\* Messages and answers of the database arrive, and timers come due.  A client
\* need not shake hands and need not leave.  A player has finitely many logins,
\* and so finitely many of the steps of Progress: one condition does for them.
Progress ==
  \/ \E i \in Logins : GateToken(i) \/ Disconnected(i)
  \/ \E k \in Gates : TokenTimeout(k) \/ \E s \in Gases : GateTakes(k, s) \/ LinkBack(k, s)
  \/ \E s \in Gases : Loaded(s) \/ GasKicked(s)
  \/ UcTimeout
Fairness ==
  /\ WF_vars(Progress)
  /\ \A k \in Gates : WF_vars(GateBeat(k)) /\ \A s \in Gases : WF_vars(GasTakes(k, s))
  /\ \A s \in Gases : WF_vars(PlayerBeat(s)) /\ WF_vars(UcTakes(s))

Spec == Init /\ [][Next]_vars /\ Fairness

-----------------------------------------------------------------------------
(* Properties.                                                             *)

\* The variables stay in their types.
TypeOK ==
  /\ login \in [Logins -> {NoLogin} \cup [gas : Gases, gate : Gates]]
  /\ token \subseteq {i \in Logins : login[i] # NoLogin}
  /\ conn \in [Logins -> {"none", "open", "closing", "closed"}]
  /\ session \in [Gates -> [state : {"gone", "none", "client", "token", "both", "normal"},
                            tok : {0} \cup Logins, sock : {0} \cup Logins,
                            gas : {0} \cup Gases, timer : BOOLEAN, call : BOOLEAN]]
  /\ player \in [Gases -> {NoPlayer} \cup [stage : {"load", "normal"}, gate : Gates]]
  /\ uc \in [gas : {0} \cup Gases, timer : BOOLEAN]
  /\ lost \subseteq Gates \X Gases
  /\ faults \in 0..MaxFaults

\* A client the gate has not shut down is the client of the session there, and a
\* session has its socket exactly when a client has entered; the connection is
\* still there, and belongs to the login whose token the session has.
\* (bindSocketID, unbindSocketID, destroySession, onDisconnect: the assertions
\* on the connection in enterGas rest on this.)
ClientBound ==
  /\ \A i \in Logins : conn[i] = "open" => session[login[i].gate].sock = i
  /\ \A k \in Gates :
       LET ses == session[k]
       IN /\ (ses.sock # 0) = (ses.state \in {"client", "both", "normal"})
          /\ ses.sock # 0 => /\ ses.sock = ses.tok
                             /\ conn[ses.sock] \in {"open", "closing"}
                             /\ login[ses.sock].gate = k

\* enterGas waits only in its state, with a client, and for a known gas.
CallSound ==
  \A k \in Gates : session[k].call =>
    session[k].state = "both" /\ session[k].sock # 0 /\ session[k].gas # 0

GateExact == TypeOK /\ ClientBound /\ CallSound

\* When no more logins come, at most one gas keeps the player, it is the gas uc
\* has for him, and a session that is Normal is served by the gas it sends to,
\* which answers to its gate.  (The heartbeats of gate and gas.)
OneHome ==
  <>[](/\ \A s \in Gases : Present(s) => uc.gas = s
       /\ \A k \in Gates : session[k].state = "normal" => player[session[k].gas] = Player(k, "normal"))
=============================================================================
