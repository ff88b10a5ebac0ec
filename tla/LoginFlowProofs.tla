-------------------------- MODULE LoginFlowProofs --------------------------
(***************************************************************************)
(* What a gate keeps of its clients and of its calls is exact, for any     *)
(* number of gates, game services and logins, and whatever links are lost. *)
(***************************************************************************)
EXTENDS LoginFlow, TLAPS

Sessions == [state : {"gone", "none", "client", "token", "both", "normal"},
             tok : {0} \cup Logins, sock : {0} \cup Logins,
             gas : {0} \cup Gases, timer : BOOLEAN, call : BOOLEAN]
Conns == {"none", "open", "closing", "closed"}
Placements == {NoLogin} \cup [gas : Gases, gate : Gates]

\* What a session of gate k has to be like, when the connections are as in c:
\* the last conjunct is what ClientBound and CallSound need to be inductive. A
\* session that has heard of a token knows its gas.
WellBound(ses, k, c) ==
  /\ (ses.sock # 0) = (ses.state \in {"client", "both", "normal"})
  /\ ses.sock # 0 => /\ ses.sock = ses.tok
                     /\ c[ses.sock] \in {"open", "closing"}
                     /\ login[ses.sock].gate = k
  /\ ses.call => ses.state = "both"
  /\ ses.state \in {"token", "both", "normal"} => ses.gas # 0

GateType ==
  /\ login \in [Logins -> Placements]
  /\ token \subseteq {i \in Logins : login[i] # NoLogin}
  /\ conn \in [Logins -> Conns]
  /\ session \in [Gates -> Sessions]

\* The inductive invariant of the gates: a client that shakes hands has been
\* through dispatch.
GateInv ==
  /\ GateType
  /\ \A i \in Logins : conn[i] # "none" => login[i] # NoLogin
  /\ \A i \in Logins : conn[i] = "open" => session[login[i].gate].sock = i
  /\ \A k \in Gates : WellBound(session[k], k, conn)

\* The types of the rest.
RestInv ==
  /\ player \in [Gases -> {NoPlayer} \cup [stage : {"load", "normal"}, gate : Gates]]
  /\ uc \in [gas : {0} \cup Gases, timer : BOOLEAN]
  /\ lost \subseteq Gates \X Gases
  /\ faults \in 0..MaxFaults

Inv == GateInv /\ RestInv

\* The two together are what the run checks.
LEMMA InvExact == Inv => GateExact
<1> SUFFICES ASSUME Inv PROVE GateExact
  OBVIOUS
<1> USE DEF Inv, GateInv
<1>1. TypeOK
  BY DEF TypeOK, GateType, RestInv, Placements, Conns, Sessions
<1>2. ClientBound
  BY DEF ClientBound, WellBound
<1>3. CallSound
  BY DEF CallSound, WellBound
<1> QED
  BY <1>1, <1>2, <1>3 DEF GateExact

\* A login that dispatch has placed has a gas and a gate, and no other has.
LEMMA PlacedLogin ==
  /\ NoLogin \notin [gas : Gases, gate : Gates]
  /\ GateType => \A i \in Logins : login[i] # NoLogin => login[i].gas \in Gases \ {0} /\ login[i].gate \in Gates
<1>1. 0 \notin Gases
  BY LoginAssumption
<1>2. NoLogin \notin [gas : Gases, gate : Gates]
  BY <1>1 DEF NoLogin
<1> QED
  BY <1>1, <1>2 DEF GateType, Placements

\* At the start there are no logins, no sessions and no players.
LEMMA InitInv == Init => Inv
<1> SUFFICES ASSUME Init PROVE Inv
  OBVIOUS
<1>1. GateInv
  BY DEF Init, GateInv, GateType, WellBound, NoSession, Sessions, Conns, Placements
<1>2. RestInv
  BY LoginAssumption DEF Init, RestInv, NoPlayer, NoUser
<1> QED
  BY <1>1, <1>2 DEF Inv

-----------------------------------------------------------------------------
(* Connections.                                                            *)

\* shutdown turns the connection of i to closing if it is open, and leaves the
\* others alone.
LEMMA ShutsOne ==
  ASSUME NEW c \in [Logins -> Conns], NEW i \in {0} \cup Logins
  PROVE  /\ Shuts(c, i) \in [Logins -> Conns]
         /\ \A j \in Logins : j # i => Shuts(c, i)[j] = c[j]
         /\ \A j \in Logins : j = i => Shuts(c, i)[j] = IF c[j] = "open" THEN "closing" ELSE c[j]
<1>1. CASE i \in Logins
  BY <1>1 DEF Shuts, Conns
<1>2. CASE i \notin Logins
  BY <1>2 DEF Shuts
<1> QED
  BY <1>1, <1>2

\* ShutBound leaves no open connection at gate k, and touches no other gate's.
LEMMA ShutBoundAll ==
  ASSUME GateInv, NEW k \in Gates
  PROVE  /\ ShutBound(k) \in [Logins -> Conns]
         /\ \A j \in Logins :
              /\ ShutBound(k)[j] = conn[j] \/ (conn[j] = "open" /\ ShutBound(k)[j] = "closing")
              /\ ShutBound(k)[j] = "open" => conn[j] = "open" /\ login[j].gate # k
<1>0. conn \in [Logins -> Conns] /\ session[k].sock \in {0} \cup Logins /\ 0 \notin Logins
  BY DEF GateInv, GateType, Sessions, Logins
<1>1. \A j \in Logins : conn[j] = "open" /\ login[j].gate = k => session[k].sock = j
  BY DEF GateInv
<1>2. CASE session[k].sock = 0
  BY <1>0, <1>1, <1>2 DEF ShutBound
<1>3. CASE session[k].sock # 0
  <2>1. PICK i \in Logins : i = session[k].sock
    BY <1>0, <1>3
  <2>2. ShutBound(k) = [conn EXCEPT ![i] = IF conn[i] = "open" THEN "closing" ELSE conn[i]]
    BY <1>3, <2>1 DEF ShutBound, Shut, Shuts
  <2>3. ShutBound(k) \in [Logins -> Conns]
    BY <1>0, <2>2 DEF Conns
  <2>4. \A j \in Logins : ShutBound(k)[j] = IF j = i /\ conn[j] = "open" THEN "closing" ELSE conn[j]
    BY <1>0, <2>2
  <2> QED
    BY <1>1, <2>1, <2>3, <2>4
<1> QED
  BY <1>2, <1>3

\* What a step that changes the session of gate k alone, and connections, has to
\* see to.
LEMMA SessionStep ==
  ASSUME GateInv, NEW k \in Gates,
         session' \in [Gates -> Sessions], conn' \in [Logins -> Conns],
         \A h \in Gates : h # k => session'[h] = session[h],
         login' = login, token' \subseteq token,
         WellBound(session[k], k, conn)',
         \A j \in Logins : conn'[j] # "none" => login[j] # NoLogin,
         \A j \in Logins : conn[j] \in {"open", "closing"} => conn'[j] \in {"open", "closing"},
         \A j \in Logins : conn'[j] = "open" =>
           (conn[j] = "open" /\ login[j].gate # k) \/ (session'[k].sock = j /\ login[j].gate = k)
  PROVE  GateInv'
<1>1. GateType'
  BY DEF GateInv, GateType
<1>2. \A j \in Logins : conn'[j] = "open" => session'[login'[j].gate].sock = j
  <2> SUFFICES ASSUME NEW j \in Logins, conn'[j] = "open" PROVE session'[login[j].gate].sock = j
    OBVIOUS
  <2>1. login[j].gate \in Gates
    BY PlacedLogin DEF GateInv
  <2> QED
    BY <2>1 DEF GateInv
<1>3. \A h \in Gates : WellBound(session[h], h, conn)'
  <2> SUFFICES ASSUME NEW h \in Gates PROVE WellBound(session[h], h, conn)'
    OBVIOUS
  <2>1. CASE h # k
    <3>1. session[h].sock \in {0} \cup Logins /\ WellBound(session[h], h, conn)
      BY DEF GateInv, GateType, Sessions
    <3> QED
      BY <2>1, <3>1 DEF WellBound
  <2> QED
    BY <2>1
<1> QED
  BY <1>1, <1>2, <1>3 DEF GateInv

\* A session that is gone is bound to nobody.
LEMMA GoneBound == NoSession \in Sessions /\ \A k, c : WellBound(NoSession, k, c)
BY DEF NoSession, Sessions, WellBound

\* The session of a gate ends and its client is shut down (destroySession).
LEMMA DestroyInv ==
  ASSUME GateInv, NEW k \in Gates, login' = login, token' \subseteq token,
         session' = [session EXCEPT ![k] = NoSession], conn' = ShutBound(k)
  PROVE  GateInv'
<1>1. /\ conn' \in [Logins -> Conns]
      /\ \A j \in Logins :
           /\ conn'[j] = conn[j] \/ (conn[j] = "open" /\ conn'[j] = "closing")
           /\ conn'[j] = "open" => conn[j] = "open" /\ login[j].gate # k
  BY ShutBoundAll
<1>2. /\ session' \in [Gates -> Sessions]
      /\ session'[k] = NoSession /\ \A h \in Gates : h # k => session'[h] = session[h]
  BY GoneBound DEF GateInv, GateType
<1>3. WellBound(session[k], k, conn)'
  BY <1>2 DEF WellBound, NoSession
<1>4. \A j \in Logins : conn'[j] # "none" => login[j] # NoLogin
  BY <1>1 DEF GateInv
<1>5. \A j \in Logins : conn[j] \in {"open", "closing"} => conn'[j] \in {"open", "closing"}
  BY <1>1
<1> QED
  BY <1>1, <1>2, <1>3, <1>4, <1>5, SessionStep

\* The client of a gate is shut down, its session stays.
LEMMA ShutClientInv ==
  ASSUME GateInv, NEW k \in Gates, login' = login, token' \subseteq token,
         session' = session \/ session' = [session EXCEPT ![k].call = FALSE],
         conn' = ShutBound(k)
  PROVE  GateInv'
<1>1. /\ conn' \in [Logins -> Conns]
      /\ \A j \in Logins :
           /\ conn'[j] = conn[j] \/ (conn[j] = "open" /\ conn'[j] = "closing")
           /\ conn'[j] = "open" => conn[j] = "open" /\ login[j].gate # k
  BY ShutBoundAll
<1>2. session \in [Gates -> Sessions] /\ session[k] \in Sessions /\ WellBound(session[k], k, conn)
  BY DEF GateInv, GateType
<1>3. /\ session' \in [Gates -> Sessions]
      /\ session'[k] = session[k] \/ session'[k] = [session[k] EXCEPT !.call = FALSE]
      /\ \A h \in Gates : h # k => session'[h] = session[h]
  <2>1. [session[k] EXCEPT !.call = FALSE] \in Sessions
    BY <1>2 DEF Sessions
  <2> QED
    BY <1>2, <2>1
<1>4. WellBound(session[k], k, conn)'
  <2>1. /\ session'[k].sock = session[k].sock /\ session'[k].tok = session[k].tok
        /\ session'[k].state = session[k].state /\ session'[k].gas = session[k].gas
        /\ session[k].sock \in {0} \cup Logins
        /\ session'[k].call => session[k].call
    BY <1>2, <1>3 DEF Sessions
  <2> QED
    BY <1>1, <1>2, <2>1 DEF WellBound
<1>5. \A j \in Logins : conn'[j] # "none" => login[j] # NoLogin
  BY <1>1 DEF GateInv
<1>6. \A j \in Logins : conn[j] \in {"open", "closing"} => conn'[j] \in {"open", "closing"}
  BY <1>1
<1> QED
  BY <1>1, <1>3, <1>4, <1>5, <1>6, SessionStep

\* The gate has both the client and the token of login i and calls the gas, or
\* finds no way to it (enterGas).
LEMMA EnterGasInv ==
  ASSUME GateInv, NEW i \in Logins, NEW k \in Gates, login[i] # NoLogin, login[i].gate = k,
         NEW ses \in Sessions, NEW c \in [Logins -> Conns], EnterGas(k, ses, i, c),
         login' = login, token' \subseteq token,
         ses.tok = i, ses.sock = i, ses.gas # 0, session[k].sock \in {0, i},
         c[i] \in {"open", "closing"}, \A j \in Logins : j # i => c[j] = conn[j]
  PROVE  GateInv'
<1>0. i # 0 /\ session \in [Gates -> Sessions] /\ \A j \in Logins : conn[j] # "none" => login[j] # NoLogin
  BY DEF GateInv, GateType, Logins
<1>1. \A j \in Logins : j # i /\ conn[j] = "open" => login[j].gate # k
  <2> SUFFICES ASSUME NEW j \in Logins, j # i, conn[j] = "open", login[j].gate = k PROVE FALSE
    OBVIOUS
  <2>1. session[k].sock = j
    BY DEF GateInv
  <2>2. j # 0
    BY DEF Logins
  <2> QED
    BY <2>1, <2>2
<1>2. CASE session' = [session EXCEPT ![k] = Entering(ses)] /\ conn' = c
  <2>1. Entering(ses) \in Sessions
    BY DEF Entering, Sessions
  <2>2. /\ session' \in [Gates -> Sessions]
        /\ session'[k] = Entering(ses)
        /\ \A h \in Gates : h # k => session'[h] = session[h]
    BY <1>0, <1>2, <2>1
  <2>3. /\ session'[k].state = "both" /\ session'[k].sock = i /\ session'[k].tok = i
        /\ session'[k].gas # 0
    BY <2>2 DEF Entering, Sessions
  <2>4. WellBound(session[k], k, conn)'
    BY <1>0, <1>2, <2>3 DEF WellBound
  <2>5. \A j \in Logins : conn'[j] = "open" =>
           (conn[j] = "open" /\ login[j].gate # k) \/ (session'[k].sock = j /\ login[j].gate = k)
    BY <1>1, <1>2, <2>3
  <2>6. \A j \in Logins : conn'[j] # "none" => login[j] # NoLogin
    BY <1>0, <1>2
  <2>7. \A j \in Logins : conn[j] \in {"open", "closing"} => conn'[j] \in {"open", "closing"}
    BY <1>0, <1>2
  <2> QED
    BY <1>2, <2>2, <2>4, <2>5, <2>6, <2>7, SessionStep
<1>3. CASE session' = [session EXCEPT ![k] = NoSession] /\ conn' = Shuts(c, ses.sock)
  <2>1. /\ conn' \in [Logins -> Conns]
        /\ \A j \in Logins : j # i => conn'[j] = conn[j]
        /\ conn'[i] = "closing"
    BY <1>3, ShutsOne
  <2>2. /\ session' \in [Gates -> Sessions]
        /\ session'[k] = NoSession
        /\ \A h \in Gates : h # k => session'[h] = session[h]
    BY <1>0, <1>3, GoneBound
  <2>3. WellBound(session[k], k, conn)'
    BY <2>2 DEF WellBound, NoSession
  <2>4. \A j \in Logins : conn'[j] = "open" => conn[j] = "open" /\ login[j].gate # k
    BY <1>1, <2>1
  <2>5. \A j \in Logins : conn'[j] # "none" => login[j] # NoLogin
    BY <1>0, <2>1
  <2>6. \A j \in Logins : conn[j] \in {"open", "closing"} => conn'[j] \in {"open", "closing"}
    BY <1>0, <2>1
  <2> QED
    BY <2>1, <2>2, <2>3, <2>4, <2>5, <2>6, SessionStep
<1> QED
  BY <1>2, <1>3 DEF EnterGas
-----------------------------------------------------------------------------
(* The steps of the gates.                                                 *)

\* The token of login i reaches its gate: before its client, after it, or at a
\* session of an earlier login (d2g_player_token_notify_handler).
LEMMA GateTokenInv ==
  ASSUME GateInv, NEW i \in Logins, GateToken(i)
  PROVE  GateInv'
<1>1. login' = login /\ token' \subseteq token /\ i \in token
  BY DEF GateToken
<1>2. PICK k \in Gates : k = login[i].gate /\ login[i] # NoLogin /\ login[i].gas \in Gases \ {0}
  BY <1>1, PlacedLogin DEF GateInv, GateType
<1>3. /\ session \in [Gates -> Sessions] /\ conn \in [Logins -> Conns]
      /\ session[k] \in Sessions /\ WellBound(session[k], k, conn) /\ i # 0
  BY DEF GateInv, GateType, Logins
<1>4. CASE /\ ClientEntered(session[k]) /\ session[k].tok = i
           /\ EnterGas(k, [session[k] EXCEPT !.gas = login[i].gas], i, conn)
  <2> DEFINE ses == [session[k] EXCEPT !.gas = login[i].gas]
  <2>1. /\ ses \in Sessions /\ ses.tok = i /\ ses.gas # 0
        /\ ses.sock = session[k].sock /\ session[k].state \in {"client", "both"}
    BY <1>2, <1>3, <1>4 DEF Sessions, ClientEntered
  <2>2. session[k].sock = i /\ conn[i] \in {"open", "closing"}
    BY <1>3, <1>4, <2>1 DEF WellBound
  <2>3. EnterGas(k, ses, i, conn)
    BY <1>4
  <2> HIDE DEF ses
  <2> QED
    BY <1>1, <1>2, <1>3, <2>1, <2>2, <2>3, EnterGasInv
<1>5. CASE conn' = ShutBound(k) /\ session' = session
  BY <1>1, <1>5, ShutClientInv
<1>6. CASE DestroySession(k)
  BY <1>1, <1>6, DestroyInv DEF DestroySession
<1>7. CASE /\ session[k].state = "normal"
           /\ conn' = ShutBound(k)
           /\ session' = [session EXCEPT ![k].state = "token", ![k].tok = i, ![k].sock = 0]
  <2>1. /\ conn' \in [Logins -> Conns]
        /\ \A j \in Logins :
             /\ conn'[j] = conn[j] \/ (conn[j] = "open" /\ conn'[j] = "closing")
             /\ conn'[j] = "open" => conn[j] = "open" /\ login[j].gate # k
    BY <1>7, ShutBoundAll
  <2>2. /\ session'[k] = [session[k] EXCEPT !.state = "token", !.tok = i, !.sock = 0]
        /\ \A h \in Gates : h # k => session'[h] = session[h]
    BY <1>3, <1>7
  <2>3. /\ session'[k] \in Sessions
        /\ session'[k].state = "token" /\ session'[k].sock = 0
        /\ session'[k].call = session[k].call /\ session'[k].gas = session[k].gas
    BY <1>3, <2>2 DEF Sessions
  <2>4. session' \in [Gates -> Sessions]
    BY <1>3, <1>7, <2>2, <2>3
  <2>5. WellBound(session[k], k, conn)'
    BY <1>3, <1>7, <2>3 DEF WellBound
  <2>6. \A j \in Logins : conn'[j] # "none" => login[j] # NoLogin
    BY <2>1 DEF GateInv
  <2>7. \A j \in Logins : conn[j] \in {"open", "closing"} => conn'[j] \in {"open", "closing"}
    BY <2>1
  <2> QED
    BY <1>1, <2>1, <2>2, <2>4, <2>5, <2>6, <2>7, SessionStep
<1>8. CASE /\ session[k].state = "gone" /\ conn' = conn
           /\ session' = [session EXCEPT
                ![k] = [NewSession(i) EXCEPT !.state = "token", !.gas = login[i].gas]]
  <2> DEFINE ses == [NewSession(i) EXCEPT !.state = "token", !.gas = login[i].gas]
  <2>1. /\ ses \in Sessions /\ ses.state = "token" /\ ses.sock = 0 /\ ses.gas # 0
        /\ ses.call = FALSE
    BY <1>2, <1>3 DEF NewSession, NoSession, Sessions
  <2>2. session' = [session EXCEPT ![k] = ses]
    BY <1>8
  <2> HIDE DEF ses
  <2>3. /\ session' \in [Gates -> Sessions] /\ session'[k] = ses
        /\ \A h \in Gates : h # k => session'[h] = session[h]
    BY <1>3, <2>1, <2>2
  <2>4. WellBound(session[k], k, conn)'
    BY <2>1, <2>3 DEF WellBound
  <2>5. \A j \in Logins : conn'[j] # "none" => login[j] # NoLogin
    BY <1>8 DEF GateInv
  <2>6. \A j \in Logins : conn'[j] = "open" => conn[j] = "open" /\ login[j].gate # k
    <3>1. session[k].sock = 0
      BY <1>3, <1>8 DEF WellBound
    <3> QED
      BY <1>8, <3>1 DEF GateInv, Logins
  <2> QED
    BY <1>1, <1>3, <1>8, <2>3, <2>4, <2>5, <2>6, SessionStep
<1> QED
  BY <1>2, <1>4, <1>5, <1>6, <1>7, <1>8 DEF GateToken, Displaced

\* The client of login i shakes hands with its gate
\* (CGateClientMessageHandler::handshake).
LEMMA HandshakeInv ==
  ASSUME GateInv, NEW i \in Logins, Handshake(i)
  PROVE  GateInv'
<1>1. login' = login /\ token' \subseteq token /\ login[i] # NoLogin /\ conn[i] = "none"
  BY DEF Handshake
<1>2. PICK k \in Gates : k = login[i].gate
  BY <1>1, PlacedLogin DEF GateInv
<1>3. /\ session \in [Gates -> Sessions] /\ conn \in [Logins -> Conns]
      /\ session[k] \in Sessions /\ WellBound(session[k], k, conn) /\ i # 0
  BY DEF GateInv, GateType, Logins
<1> DEFINE opened == [conn EXCEPT ![i] = "open"]
<1>4. /\ opened \in [Logins -> Conns] /\ opened[i] = "open"
      /\ \A j \in Logins : j # i => opened[j] = conn[j]
  BY <1>3 DEF Conns
<1>a. \A j \in Logins : conn[j] # "none" => login[j] # NoLogin
  BY DEF GateInv
<1>b. session[k].sock # i
  BY <1>1, <1>3 DEF WellBound
<1>5. CASE /\ TokenEntered(session[k]) /\ session[k].tok = i
           /\ EnterGas(k, [session[k] EXCEPT !.sock = i], i, opened)
  <2> DEFINE ses == [session[k] EXCEPT !.sock = i]
  <2>1. /\ ses \in Sessions /\ ses.tok = i /\ ses.sock = i /\ ses.gas = session[k].gas
    BY <1>3, <1>5 DEF Sessions
  <2>2. session[k].state \in {"token", "both"}
    BY <1>5 DEF TokenEntered
  <2>3. session[k].sock = 0 /\ session[k].gas # 0
    BY <1>3, <1>b, <1>5, <2>2 DEF WellBound
  <2>4. EnterGas(k, ses, i, opened)
    BY <1>5
  <2> HIDE DEF ses, opened
  <2> QED
    BY <1>1, <1>2, <1>3, <1>4, <2>1, <2>3, <2>4, EnterGasInv
<1>6. CASE conn' = [conn EXCEPT ![i] = "closing"] /\ session' = session
  <2>1. /\ conn' \in [Logins -> Conns] /\ conn'[i] = "closing"
        /\ \A j \in Logins : j # i => conn'[j] = conn[j]
    BY <1>3, <1>6 DEF Conns
  <2>2. GateType'
    BY <1>1, <1>6, <2>1 DEF GateInv, GateType
  <2>3. \A h \in Gates : WellBound(session[h], h, conn)'
    <3> SUFFICES ASSUME NEW h \in Gates PROVE WellBound(session[h], h, conn)'
      OBVIOUS
    <3>1. session[h].sock \in {0} \cup Logins /\ WellBound(session[h], h, conn)
      BY DEF GateInv, GateType, Sessions
    <3> QED
      BY <1>1, <1>6, <2>1, <3>1 DEF WellBound
  <2>4. \A j \in Logins : conn'[j] = "open" => session'[login'[j].gate].sock = j
    BY <1>1, <1>6, <2>1 DEF GateInv
  <2>5. \A j \in Logins : conn'[j] # "none" => login'[j] # NoLogin
    BY <1>1, <1>a, <2>1
  <2> QED
    BY <2>2, <2>3, <2>4, <2>5 DEF GateInv
<1>7. CASE /\ session[k].state = "normal"
           /\ conn' = [ShutBound(k) EXCEPT ![i] = "open"]
           /\ session' = [session EXCEPT ![k].state = "client", ![k].tok = i, ![k].sock = i]
  <2>1. /\ ShutBound(k) \in [Logins -> Conns]
        /\ \A j \in Logins :
             /\ ShutBound(k)[j] = conn[j] \/ (conn[j] = "open" /\ ShutBound(k)[j] = "closing")
             /\ ShutBound(k)[j] = "open" => conn[j] = "open" /\ login[j].gate # k
    BY ShutBoundAll
  <2>2. /\ conn' \in [Logins -> Conns] /\ conn'[i] = "open"
        /\ \A j \in Logins : j # i =>
             /\ conn'[j] = conn[j] \/ (conn[j] = "open" /\ conn'[j] = "closing")
             /\ conn'[j] = "open" => conn[j] = "open" /\ login[j].gate # k
    BY <1>7, <2>1 DEF Conns
  <2>3. /\ session'[k] = [session[k] EXCEPT !.state = "client", !.tok = i, !.sock = i]
        /\ \A h \in Gates : h # k => session'[h] = session[h]
    BY <1>3, <1>7
  <2>4. /\ session'[k] \in Sessions
        /\ session'[k].state = "client" /\ session'[k].sock = i /\ session'[k].tok = i
        /\ session'[k].call = session[k].call
    BY <1>3, <2>3 DEF Sessions
  <2>5. session' \in [Gates -> Sessions]
    BY <1>3, <1>7, <2>3, <2>4
  <2>6. WellBound(session[k], k, conn)'
    BY <1>1, <1>2, <1>3, <1>7, <2>2, <2>4 DEF WellBound
  <2>7. \A j \in Logins : conn'[j] # "none" => login[j] # NoLogin
    BY <1>1, <1>a, <2>2
  <2>8. \A j \in Logins : conn[j] \in {"open", "closing"} => conn'[j] \in {"open", "closing"}
    BY <1>1, <2>2
  <2>9. \A j \in Logins : conn'[j] = "open" =>
           (conn[j] = "open" /\ login[j].gate # k) \/ (session'[k].sock = j /\ login[j].gate = k)
    BY <1>2, <2>2, <2>4
  <2> QED
    BY <1>1, <2>2, <2>3, <2>5, <2>6, <2>7, <2>8, <2>9, SessionStep
<1>8. CASE /\ session[k].state = "gone" /\ conn' = opened
           /\ session' = [session EXCEPT ![k] = [NewSession(i) EXCEPT !.state = "client", !.sock = i]]
  <2> DEFINE ses == [NewSession(i) EXCEPT !.state = "client", !.sock = i]
  <2>1. /\ ses \in Sessions /\ ses.state = "client" /\ ses.sock = i /\ ses.tok = i
        /\ ses.call = FALSE
    BY <1>3 DEF NewSession, NoSession, Sessions
  <2>2. session' = [session EXCEPT ![k] = ses]
    BY <1>8
  <2> HIDE DEF ses
  <2>3. /\ session' \in [Gates -> Sessions] /\ session'[k] = ses
        /\ \A h \in Gates : h # k => session'[h] = session[h]
    BY <1>3, <2>1, <2>2
  <2>4. conn' \in [Logins -> Conns] /\ conn'[i] = "open" /\ \A j \in Logins : j # i => conn'[j] = conn[j]
    BY <1>4, <1>8
  <2>5. WellBound(session[k], k, conn)'
    BY <1>1, <1>2, <1>3, <2>1, <2>3, <2>4 DEF WellBound
  <2>6. \A j \in Logins : conn'[j] # "none" => login[j] # NoLogin
    BY <1>1, <1>a, <2>4
  <2>7. \A j \in Logins : conn[j] \in {"open", "closing"} => conn'[j] \in {"open", "closing"}
    BY <1>1, <2>4
  <2>8. \A j \in Logins : conn'[j] = "open" =>
           (conn[j] = "open" /\ login[j].gate # k) \/ (session'[k].sock = j /\ login[j].gate = k)
    <3>1. session[k].sock = 0
      BY <1>3, <1>8 DEF WellBound
    <3>2. \A j \in Logins : conn[j] = "open" => login[j].gate # k
      BY <3>1 DEF GateInv, Logins
    <3> QED
      BY <1>2, <2>1, <2>3, <2>4, <3>2
  <2> QED
    BY <1>1, <2>3, <2>4, <2>5, <2>6, <2>7, <2>8, SessionStep
<1> QED
  BY <1>2, <1>5, <1>6, <1>7, <1>8 DEF Handshake, Displaced
\* A client goes: its connection closes, and the session stays until the gate
\* hears of it.
LEMMA ClientLeavesInv ==
  ASSUME GateInv, NEW i \in Logins, ClientLeaves(i)
  PROVE  GateInv'
<1>1. login' = login /\ token' = token /\ session' = session /\ conn' = Shuts(conn, i) /\ conn[i] = "open"
  BY DEF ClientLeaves, Shut
<1>2. /\ conn' \in [Logins -> Conns] /\ conn'[i] = "closing"
      /\ \A j \in Logins : j # i => conn'[j] = conn[j]
  BY <1>1, ShutsOne DEF GateInv, GateType
<1>3. GateType'
  BY <1>1, <1>2 DEF GateInv, GateType
<1>4. \A h \in Gates : WellBound(session[h], h, conn)'
  <2> SUFFICES ASSUME NEW h \in Gates PROVE WellBound(session[h], h, conn)'
    OBVIOUS
  <2>1. session[h].sock \in {0} \cup Logins /\ WellBound(session[h], h, conn)
    BY DEF GateInv, GateType, Sessions
  <2> QED
    BY <1>1, <1>2, <2>1 DEF WellBound
<1>5. \A j \in Logins : conn'[j] = "open" => session'[login'[j].gate].sock = j
  BY <1>1, <1>2 DEF GateInv
<1>6. \A j \in Logins : conn'[j] # "none" => login'[j] # NoLogin
  BY <1>1, <1>2 DEF GateInv
<1> QED
  BY <1>3, <1>4, <1>5, <1>6 DEF GateInv

\* The gate hears that a connection is gone: the session it was bound to goes
\* too (CGateConnectionFromClient::onDisconnect).
LEMMA DisconnectedInv ==
  ASSUME GateInv, NEW i \in Logins, Disconnected(i)
  PROVE  GateInv'
<1>1. /\ login' = login /\ token' = token /\ conn[i] = "closing"
      /\ conn' = [conn EXCEPT ![i] = "closed"]
      /\ session' = [k \in Gates |-> IF k \in BoundTo(i) THEN NoSession ELSE session[k]]
  BY DEF Disconnected
<1>2. /\ conn' \in [Logins -> Conns] /\ conn'[i] = "closed"
      /\ \A j \in Logins : j # i => conn'[j] = conn[j]
  BY <1>1 DEF GateInv, GateType, Conns
<1>3. \A h \in Gates : IF session[h].sock = i THEN session'[h] = NoSession ELSE session'[h] = session[h]
  BY <1>1 DEF BoundTo
<1>4. session' \in [Gates -> Sessions]
  BY <1>1, GoneBound DEF GateInv, GateType
<1>5. GateType'
  BY <1>1, <1>2, <1>4 DEF GateInv, GateType
<1>6. \A h \in Gates : WellBound(session[h], h, conn)'
  <2> SUFFICES ASSUME NEW h \in Gates PROVE WellBound(session[h], h, conn)'
    OBVIOUS
  <2>1. session[h].sock \in {0} \cup Logins /\ WellBound(session[h], h, conn)
    BY DEF GateInv, GateType, Sessions
  <2>2. CASE session[h].sock = i
    BY <1>3, <2>2 DEF WellBound, NoSession
  <2>3. CASE session[h].sock # i
    BY <1>1, <1>2, <1>3, <2>1, <2>3 DEF WellBound
  <2> QED
    BY <2>2, <2>3
<1>7. \A j \in Logins : conn'[j] = "open" => session'[login'[j].gate].sock = j
  <2> SUFFICES ASSUME NEW j \in Logins, conn'[j] = "open" PROVE session'[login[j].gate].sock = j
    BY <1>1
  <2>1. j # i /\ conn[j] = "open"
    BY <1>2
  <2>2. login[j].gate \in Gates /\ session[login[j].gate].sock = j
    BY <2>1, PlacedLogin DEF GateInv
  <2> QED
    BY <1>3, <2>1, <2>2
<1>8. \A j \in Logins : conn'[j] # "none" => login'[j] # NoLogin
  BY <1>1, <1>2 DEF GateInv
<1> QED
  BY <1>5, <1>6, <1>7, <1>8 DEF GateInv

\* The gate hears of a gas: an answer to enterGas, which may come when nobody
\* waits for it any more, a kick, or that the link was lost.
LEMMA GateTakesInv ==
  ASSUME GateInv, NEW k \in Gates, NEW s \in Gases, GateTakes(k, s)
  PROVE  GateInv'
<1>1. login' = login /\ token' = token
  BY DEF GateTakes
<1>2. CASE session' = session /\ conn' = conn
  BY <1>1, <1>2 DEF GateInv, GateType, WellBound
<1>3. CASE session' = [session EXCEPT ![k] = NoSession] /\ conn' = ShutBound(k)
  BY <1>1, <1>3, DestroyInv
<1>4. CASE session' = [session EXCEPT ![k].call = FALSE] /\ conn' = ShutBound(k)
  BY <1>1, <1>4, ShutClientInv
<1>5. CASE /\ session' = [session EXCEPT ![k].state = "normal", ![k].call = FALSE]
           /\ conn' = conn /\ session[k].call
  <2>1. /\ session \in [Gates -> Sessions] /\ conn \in [Logins -> Conns]
        /\ session[k] \in Sessions /\ WellBound(session[k], k, conn)
    BY DEF GateInv, GateType
  <2>2. /\ session'[k] = [session[k] EXCEPT !.state = "normal", !.call = FALSE]
        /\ \A h \in Gates : h # k => session'[h] = session[h]
    BY <1>5, <2>1
  <2>3. /\ session'[k] \in Sessions /\ session'[k].state = "normal" /\ session'[k].call = FALSE
        /\ session'[k].sock = session[k].sock /\ session'[k].tok = session[k].tok
        /\ session'[k].gas = session[k].gas
    BY <2>1, <2>2 DEF Sessions
  <2>4. session' \in [Gates -> Sessions]
    BY <1>5, <2>1, <2>2, <2>3
  <2>5. session[k].state = "both" /\ session[k].gas # 0
    BY <1>5, <2>1 DEF WellBound
  <2>6. WellBound(session[k], k, conn)'
    BY <1>1, <1>5, <2>1, <2>3, <2>5 DEF WellBound
  <2>7. \A j \in Logins : conn'[j] # "none" => login[j] # NoLogin
    BY <1>5 DEF GateInv
  <2>8. \A j \in Logins : conn'[j] = "open" =>
           (conn[j] = "open" /\ login[j].gate # k) \/ (session'[k].sock = j /\ login[j].gate = k)
    BY <1>5, <2>3 DEF GateInv
  <2> QED
    BY <1>1, <1>5, <2>1, <2>2, <2>4, <2>6, <2>7, <2>8, SessionStep
<1> QED
  BY <1>2, <1>3, <1>4, <1>5 DEF GateTakes, gateVars

\* Dispatch places the next login, whose client the gate has not seen yet.
LEMMA DispatchInv ==
  ASSUME Inv, NEW i \in Logins, Dispatch(i)
  PROVE  Inv'
<1> USE DEF Inv
<1>1. PICK s \in Gases, k \in Gates :
        uc' = Placed(s) /\ login' = [login EXCEPT ![i] = [gas |-> uc'.gas, gate |-> k]]
  BY DEF Dispatch
<1>2. /\ login[i] = NoLogin /\ token' = token \cup {i}
      /\ conn' = conn /\ session' = session /\ player' = player /\ lost' = lost /\ faults' = faults
  BY DEF Dispatch, gateVars, gasVars, linkVars
<1>3. uc' \in [gas : {0} \cup Gases, timer : BOOLEAN] /\ uc'.gas \in Gases
  BY <1>1 DEF Placed, RestInv
<1>4. /\ login' \in [Logins -> Placements] /\ login'[i] # NoLogin
      /\ \A j \in Logins : j # i => login'[j] = login[j]
  <2>1. [gas |-> uc'.gas, gate |-> k] \in [gas : Gases, gate : Gates]
    BY <1>3
  <2> QED
    BY <1>1, <2>1, PlacedLogin DEF GateInv, GateType, Placements
<1>5. conn[i] = "none"
  BY <1>2 DEF GateInv
<1>6. GateType'
  BY <1>2, <1>4 DEF GateInv, GateType
<1>7. \A h \in Gates : WellBound(session[h], h, conn)'
  <2> SUFFICES ASSUME NEW h \in Gates PROVE WellBound(session[h], h, conn)'
    OBVIOUS
  <2>1. session[h].sock \in {0} \cup Logins /\ WellBound(session[h], h, conn)
    BY DEF GateInv, GateType, Sessions
  <2> QED
    BY <1>2, <1>4, <1>5, <2>1 DEF WellBound
<1>8. GateInv'
  BY <1>2, <1>4, <1>5, <1>6, <1>7 DEF GateInv
<1>9. RestInv'
  BY <1>2, <1>3 DEF RestInv
<1> QED
  BY <1>8, <1>9

\* The other services, and the links, leave logins and sessions alone.
LEMMA ElsewhereGate == GateInv /\ UNCHANGED <<login, token, gateVars>> => GateInv'
BY DEF GateInv, GateType, WellBound, gateVars

\* The types of a player and of a user are kept where they change.
LEMMA RestStep ==
  ASSUME RestInv, Next, ~\E i \in Logins : Dispatch(i)
  PROVE  RestInv'
<1>0. NoPlayer \notin [stage : {"load", "normal"}, gate : Gates]
  BY DEF NoPlayer
<1>1. ASSUME NEW i \in Logins, GateToken(i) \/ Client(i) \/ Disconnected(i) PROVE RestInv'
  BY <1>1 DEF GateToken, Client, Handshake, ClientLeaves, Disconnected, gasVars, linkVars, RestInv
<1>2. ASSUME NEW k \in Gates, TokenTimeout(k) \/ GateBeat(k) PROVE RestInv'
  BY <1>2 DEF TokenTimeout, GateBeat, gasVars, linkVars, RestInv
<1>3. ASSUME NEW k \in Gates, NEW s \in Gases, GateTakes(k, s) \/ LinkBack(k, s) PROVE RestInv'
  BY <1>3 DEF GateTakes, LinkBack, gasVars, linkVars, RestInv
<1>4. ASSUME NEW k \in Gates, NEW s \in Gases, LinkLost(k, s) PROVE RestInv'
  BY <1>4, LoginAssumption DEF LinkLost, gasVars, RestInv
<1>5. ASSUME NEW k \in Gates, NEW s \in Gases, GasTakes(k, s) PROVE RestInv'
  <2>1. uc' = uc /\ lost' = lost /\ faults' = faults
    BY <1>5 DEF GasTakes, linkVars
  <2>2. \/ player' = player
        \/ Normal(s) /\ player' = [player EXCEPT ![s].gate = k]
        \/ player' = [player EXCEPT ![s] = Player(k, "load")]
        \/ player' = [player EXCEPT ![s] = NoPlayer]
        \/ player' = [player EXCEPT ![s] = player[s]]
    BY <1>5 DEF GasTakes, Enter, LeaveGas, GateBeats, GateLost, gasVars
  <2>3. player' \in [Gases -> {NoPlayer} \cup [stage : {"load", "normal"}, gate : Gates]]
    <3>1. CASE Normal(s) /\ player' = [player EXCEPT ![s].gate = k]
      <4>1. player[s] \in [stage : {"load", "normal"}, gate : Gates]
        BY <3>1 DEF RestInv, Normal, NoPlayer
      <4>2. [player[s] EXCEPT !.gate = k] \in [stage : {"load", "normal"}, gate : Gates]
        BY <4>1
      <4> QED
        BY <3>1, <4>2 DEF RestInv
    <3>2. Player(k, "load") \in [stage : {"load", "normal"}, gate : Gates]
      BY DEF Player
    <3> QED
      BY <2>2, <3>1, <3>2 DEF RestInv
  <2> QED
    BY <2>1, <2>3 DEF RestInv
<1>6. ASSUME NEW s \in Gases, Loaded(s) PROVE RestInv'
  <2>1. uc' = uc /\ lost' = lost /\ faults' \in 0..MaxFaults
    BY <1>6, LoginAssumption DEF Loaded, RestInv
  <2>2. \/ player' = player
        \/ Present(s) /\ player' = [player EXCEPT ![s].stage = "normal"]
        \/ player' = [player EXCEPT ![s] = NoPlayer]
    BY <1>6 DEF Loaded
  <2>3. CASE Present(s) /\ player' = [player EXCEPT ![s].stage = "normal"]
    <3>1. player[s] \in [stage : {"load", "normal"}, gate : Gates]
      BY <2>3 DEF RestInv, Present, NoPlayer
    <3>2. [player[s] EXCEPT !.stage = "normal"] \in [stage : {"load", "normal"}, gate : Gates]
      BY <3>1
    <3> QED
      BY <2>1, <2>3, <3>2 DEF RestInv
  <2>4. CASE player' = player \/ player' = [player EXCEPT ![s] = NoPlayer]
    BY <2>1, <2>4 DEF RestInv
  <2> QED
    BY <2>2, <2>3, <2>4
<1>7. ASSUME NEW s \in Gases, GasKicked(s) \/ BeatFails(s) PROVE RestInv'
  BY <1>7, LoginAssumption DEF GasKicked, BeatFails, gasVars, linkVars, RestInv
<1>8. ASSUME NEW s \in Gases, PlayerBeat(s) PROVE RestInv'
  BY <1>8 DEF PlayerBeat, gasVars, linkVars, RestInv
<1>9. ASSUME NEW s \in Gases, UcTakes(s) PROVE RestInv'
  BY <1>9 DEF UcTakes, gasVars, linkVars, RestInv
<1>10. CASE UcTimeout
  BY <1>10 DEF UcTimeout, NoUser, gasVars, linkVars, RestInv
<1> QED
  BY <1>1, <1>2, <1>3, <1>4, <1>5, <1>6, <1>7, <1>8, <1>9, <1>10 DEF Next

\* Every step keeps the invariant.
LEMMA StepInv == Inv /\ [Next]_vars => Inv'
<1> SUFFICES ASSUME Inv, [Next]_vars PROVE Inv'
  OBVIOUS
<1>0. GateInv /\ RestInv
  BY DEF Inv
<1>1. CASE \E i \in Logins : Dispatch(i)
  <2>1. PICK i \in Logins : Dispatch(i)
    BY <1>1
  <2> QED
    BY <2>1, DispatchInv
<1>2. CASE Next /\ ~\E i \in Logins : Dispatch(i)
  <2>1. RestInv'
    BY <1>0, <1>2, RestStep
  <2>2. ASSUME NEW i \in Logins, GateToken(i) \/ Client(i) \/ Disconnected(i) PROVE GateInv'
    BY <1>0, <2>2, GateTokenInv, HandshakeInv, ClientLeavesInv, DisconnectedInv DEF Client
  <2>3. ASSUME NEW k \in Gates, TokenTimeout(k) PROVE GateInv'
    <3>1. /\ login' = login /\ token' \subseteq token
          /\ session' = [session EXCEPT ![k] = NoSession] /\ conn' = ShutBound(k)
      BY <2>3 DEF TokenTimeout, DestroySession
    <3> QED
      BY <1>0, <3>1, DestroyInv
  <2>4. ASSUME NEW k \in Gates, NEW s \in Gases, GateTakes(k, s) PROVE GateInv'
    BY <1>0, <2>4, GateTakesInv
  <2>5. ASSUME NEW k \in Gates, GateBeat(k) PROVE GateInv'
    BY <1>0, <2>5, ElsewhereGate DEF GateBeat
  <2>6. ASSUME NEW k \in Gates, NEW s \in Gases, GasTakes(k, s) \/ LinkLost(k, s) \/ LinkBack(k, s)
        PROVE  GateInv'
    BY <1>0, <2>6, ElsewhereGate DEF GasTakes, LinkLost, LinkBack
  <2>7. ASSUME NEW s \in Gases, Loaded(s) \/ GasKicked(s) \/ PlayerBeat(s) \/ BeatFails(s) \/ UcTakes(s)
        PROVE  GateInv'
    BY <1>0, <2>7, ElsewhereGate DEF Loaded, GasKicked, PlayerBeat, BeatFails, UcTakes
  <2>8. ASSUME UcTimeout PROVE GateInv'
    BY <1>0, <2>8, ElsewhereGate DEF UcTimeout
  <2>9. GateInv'
    BY <1>2, <2>2, <2>3, <2>4, <2>5, <2>6, <2>7, <2>8 DEF Next
  <2> QED
    BY <2>1, <2>9 DEF Inv
<1>3. CASE UNCHANGED vars
  <2>1. GateInv'
    BY <1>0, <1>3, ElsewhereGate DEF vars, gateVars
  <2>2. RestInv'
    BY <1>0, <1>3 DEF vars, RestInv, gasVars
  <2> QED
    BY <2>1, <2>2 DEF Inv
<1> QED
  BY <1>1, <1>2, <1>3

-----------------------------------------------------------------------------

\* In every state a client that is not shut down is the client of the session at
\* its gate, a session with a client has the connection, the token and the login
\* of that client, and enterGas waits only in a session with both and for a gas
\* it knows (destroySession, bindSocketID, enterGas, onDisconnect).
THEOREM GateCorrect == Spec => []GateExact
BY InitInv, StepInv, InvExact, PTL DEF Spec
=============================================================================
