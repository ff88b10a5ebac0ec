------------------------- MODULE AppLifecycleProofs -------------------------
(***************************************************************************)
(* The order of the shutdown, for any number of logic threads and services *)
(* and whatever goes wrong: slow threads, services that do not start, a    *)
(* port that is taken, an early signal.                                    *)
(***************************************************************************)
EXTENDS AppLifecycle, TLAPS

-----------------------------------------------------------------------------
(* The inductive invariant.                                                *)

HasInit(s) == \E i \in DOMAIN s : s[i].type = "INIT"
OneInit(s) == \A i, j \in DOMAIN s : s[i].type = "INIT" /\ s[j].type = "INIT" => i = j
\* what the global queue may hold
Plain(s) == \A i \in DOMAIN s : s[i].type \in {"FRAME", "LISTEN_FAIL"}

Busy == {"dispatch", "onQuit", "notify"}
Waits == {"waitQuit", "asleep"}
Joins == {"quitNet", "joinNet", "destroy", "end"}
AfterWait == {"quit", "join"} \cup Joins

\* the loops of the main thread stay within their vectors
MainInRange ==
  /\ main.at \in {"create", "quit", "join"} => main.i <= NLogic
  /\ main.at \in {"init"} \cup Waits => main.i <= NService

\* a thread that the main thread has not created yet
ToCreate(w) == main.at = "listen" \/ (main.at = "create" /\ main.i <= w)

\* a logic thread has a queue exactly while it processes one, and no two
\* threads have the same; only the global queue has no service behind it
Holding ==
  /\ \A w \in Logic :
       /\ cur[w] = NoQueue <=> pc[w] \notin Busy
       /\ pc[w] \notin Busy => batch[w] = <<>>
       /\ call[w] # 0 => pc[w] = "dispatch"
       /\ pc[w] \in {"onQuit", "notify"} => cur[w] \in Services
       /\ ToCreate(w) => pc[w] = "absent"
       /\ cur[w] = Global => Plain(batch[w])
  /\ \A v, w \in Logic : cur[v] = cur[w] => v = w \/ cur[v] = NoQueue
  /\ Plain(queue[Global])

\* the main thread has not sent INIT to s
NotYet(s) == main.at \in {"listen", "create"} \/ (main.at = "init" /\ main.i <= s)

\* INIT comes once to each service, and the service has not started before it
\* handles it; nothing but INIT ends eSRS_Start
InitOnce ==
  \A s \in Services :
    /\ OneInit(queue[s])
    /\ NotYet(s) => run[s] = "eSRS_Start" /\ ~HasInit(queue[s])
    /\ HasInit(queue[s]) => run[s] = "eSRS_Start"
    /\ \A w \in Logic : cur[w] = s =>
         /\ OneInit(batch[w])
         /\ HasInit(batch[w]) => /\ ~NotYet(s)
                                 /\ ~HasInit(queue[s])
                                 /\ run[s] = "eSRS_Start"
         /\ pc[w] = "onQuit" => run[s] = "eSRS_Quitting"

\* the services that waitQuit has left behind have quit
QuitBehind ==
  \A s \in Services :
    main.at \in AfterWait \/ (main.at \in Waits /\ s < main.i) => run[s] = "eSRS_Quit"

\* the threads that were joined have ended
JoinedEnded ==
  /\ \A w \in Logic :
       main.at \in Joins \/ (main.at = "join" /\ w < main.i) => pc[w] = "ended"
  /\ main.at \in {"destroy", "end"} => pc[Net] = "ended"

Order == MainInRange /\ Holding /\ InitOnce /\ QuitBehind /\ JoinedEnded
Inv == TypeOK /\ Order

-----------------------------------------------------------------------------
(* Lemmas about the queues.                                                *)

\* A number of logic threads or services is positive, and no queue is NoQueue.
LEMMA Constants ==
  /\ NLogic \in Nat /\ NLogic > 0
  /\ NService \in Nat /\ NService > 0
  /\ Global \notin Services /\ NoQueue \notin Queues
  /\ Net \notin Logic /\ Main \notin Logic
BY LifecycleAssumption DEF Global, Services, Queues, NoQueue, Net, Logic, Main

\* The packets the threads send are packets.
LEMMA PacketTypes ==
  /\ \A t \in {"INIT", "QUIT", "FRAME", "LISTEN_FAIL"} :
       Packet(t, 0) \in Packets /\ Packet(t, 0).type = t
  /\ \A s \in Services : /\ Packet("SERVICE_CONNECT", s) \in Packets
                         /\ Packet("SERVICE_CONNECT", s).type = "SERVICE_CONNECT"
BY DEF Packet, Packets

\* Only a connect event comes from a service, and it names one.
LEMMA ConnectFrom ==
  \A p \in Packets : p.type = "SERVICE_CONNECT" => p.from \in Services
BY DEF Packet, Packets

\* Sending a packet (CMessageQueue::send).
LEMMA AppendFacts ==
  ASSUME NEW s \in Seq(Packets), NEW p \in Packets
  PROVE  /\ Append(s, p) \in Seq(Packets)
         /\ p.type # "INIT" => /\ HasInit(Append(s, p)) <=> HasInit(s)
                               /\ OneInit(s) => OneInit(Append(s, p))
         /\ ~HasInit(s) => OneInit(Append(s, p))
         /\ Plain(s) /\ p.type \in {"FRAME", "LISTEN_FAIL"} => Plain(Append(s, p))
<1>1. /\ Append(s, p) \in Seq(Packets)
      /\ Len(s) \in Nat
      /\ DOMAIN s = 1..Len(s)
      /\ DOMAIN Append(s, p) = 1..(Len(s) + 1)
  OBVIOUS
<1>2. /\ \A i \in 1..Len(s) : Append(s, p)[i] = s[i]
      /\ Append(s, p)[Len(s) + 1] = p
  OBVIOUS
<1>3. 1..(Len(s) + 1) = 1..Len(s) \cup {Len(s) + 1}
  BY <1>1
<1>4. p.type # "INIT" => /\ HasInit(Append(s, p)) <=> HasInit(s)
                         /\ OneInit(s) => OneInit(Append(s, p))
  BY <1>1, <1>2, <1>3 DEF HasInit, OneInit
<1>5. ~HasInit(s) => OneInit(Append(s, p))
  BY <1>1, <1>2, <1>3 DEF HasInit, OneInit
<1>6. Plain(s) /\ p.type \in {"FRAME", "LISTEN_FAIL"} => Plain(Append(s, p))
  BY <1>1, <1>2, <1>3 DEF Plain
<1> QED
  BY <1>1, <1>4, <1>5, <1>6

\* Dispatching the first packet of a batch.
LEMMA TailFacts ==
  ASSUME NEW s \in Seq(Packets), s # <<>>
  PROVE  /\ Tail(s) \in Seq(Packets)
         /\ Head(s) \in Packets
         /\ HasInit(Tail(s)) => HasInit(s)
         /\ OneInit(s) => OneInit(Tail(s))
         /\ Head(s).type = "INIT" => HasInit(s)
         /\ Head(s).type = "INIT" /\ OneInit(s) => ~HasInit(Tail(s))
         /\ Plain(s) => Plain(Tail(s)) /\ Head(s).type \in {"FRAME", "LISTEN_FAIL"}
<1>1. /\ Tail(s) \in Seq(Packets)
      /\ Len(s) \in Nat /\ Len(s) > 0
      /\ DOMAIN s = 1..Len(s)
      /\ DOMAIN Tail(s) = 1..(Len(s) - 1)
  OBVIOUS
<1>2. /\ Head(s) = s[1] /\ s[1] \in Packets
      /\ \A i \in 1..(Len(s) - 1) : Tail(s)[i] = s[i + 1]
  OBVIOUS
<1>3. 1 \in DOMAIN s /\ \A i \in DOMAIN Tail(s) : i + 1 \in DOMAIN s /\ i + 1 # 1
  BY <1>1
<1>4. HasInit(Tail(s)) => HasInit(s)
  BY <1>1, <1>2, <1>3 DEF HasInit
<1>5. OneInit(s) => OneInit(Tail(s))
  <2> SUFFICES ASSUME OneInit(s), NEW i \in DOMAIN Tail(s), NEW j \in DOMAIN Tail(s),
                      Tail(s)[i].type = "INIT", Tail(s)[j].type = "INIT"
               PROVE  i = j
    BY DEF OneInit
  <2>1. s[i + 1].type = "INIT" /\ s[j + 1].type = "INIT"
    BY <1>1, <1>2
  <2>2. i + 1 = j + 1
    BY <1>3, <2>1 DEF OneInit
  <2> QED
    BY <1>1, <2>2
<1>6. Head(s).type = "INIT" => HasInit(s)
  BY <1>2, <1>3 DEF HasInit
<1>7. Head(s).type = "INIT" /\ OneInit(s) => ~HasInit(Tail(s))
  <2> SUFFICES ASSUME Head(s).type = "INIT", OneInit(s), NEW i \in DOMAIN Tail(s),
                      Tail(s)[i].type = "INIT"
               PROVE  FALSE
    BY DEF HasInit
  <2>1. s[1].type = "INIT" /\ s[i + 1].type = "INIT"
    BY <1>1, <1>2
  <2> QED
    BY <1>3, <2>1 DEF OneInit
<1>8. Plain(s) => Plain(Tail(s)) /\ Head(s).type \in {"FRAME", "LISTEN_FAIL"}
  BY <1>1, <1>2, <1>3 DEF Plain
<1> QED
  BY <1>1, <1>2, <1>4, <1>5, <1>6, <1>7, <1>8

\* A queue that was taken whole is empty.
LEMMA EmptyFacts ==
  <<>> \in Seq(Packets) /\ ~HasInit(<<>>) /\ OneInit(<<>>) /\ Plain(<<>>)
BY DEF HasInit, OneInit, Plain

-----------------------------------------------------------------------------
(* Each action keeps the types.                                            *)

\* What CThreadBase looks like right after its creation.
LEMMA BornType ==
  BornState \in {"eTS_None", "eTS_Normal", "eTS_Quit"} /\ BornStage \in Stages
BY DEF BornState, BornStage, Stages

\* The start of runAndServe: no thread, no packet, no service has started.
LEMMA InitInv == Init => Inv
<1> SUFFICES ASSUME Init PROVE Inv
  OBVIOUS
<1> USE Constants, EmptyFacts DEF Init
<1>1. TypeOK
  <2>1. main \in [at : Steps, i : 1..(NLogic + NService)]
    BY DEF Steps
  <2>2. call \in [Logic \cup {Main} -> 0..(NService + 1)] /\ signals \in 0..1
    OBVIOUS
  <2>3. /\ state \in [Threads -> {"eTS_None", "eTS_Normal", "eTS_Quit"}]
        /\ pc \in [Threads -> Stages]
    BY BornType DEF Stages
  <2>4. cur \in [Logic -> Queues \cup {NoQueue}] /\ batch \in [Logic -> Seq(Packets)]
    OBVIOUS
  <2> QED
    BY <2>1, <2>2, <2>3, <2>4 DEF TypeOK, RunStates
<1>2. MainInRange /\ QuitBehind /\ JoinedEnded
  BY DEF MainInRange, QuitBehind, JoinedEnded, Joins, AfterWait, Waits
<1>3. Holding
  BY DEF Holding, ToCreate, Busy, Threads, Queues
<1>4. InitOnce
  BY DEF InitOnce, NotYet, Queues
<1> QED
  BY <1>1, <1>2, <1>3, <1>4 DEF Inv, Order

\* What every case of dispatch starts from.
LEMMA Dispatched ==
  ASSUME Inv, NEW w \in Logic, NEW type, Dispatching(w, type)
  PROVE  /\ batch[w] \in Seq(Packets) /\ batch[w] # <<>>
         /\ Head(batch[w]) \in Packets /\ Head(batch[w]).type = type
         /\ batch' = [batch EXCEPT ![w] = Tail(batch[w])]
         /\ batch' \in [Logic -> Seq(Packets)]
         /\ pc[w] = "dispatch" /\ call[w] = 0
         /\ cur[w] \in Queues
         /\ type \notin {"FRAME", "LISTEN_FAIL"} => cur[w] \in Services
<1>1. /\ batch[w] \in Seq(Packets) /\ batch[w] # <<>>
      /\ Head(batch[w]).type = type
      /\ batch' = [batch EXCEPT ![w] = Tail(batch[w])]
      /\ pc[w] = "dispatch" /\ call[w] = 0
  BY DEF Dispatching, Inv, TypeOK
<1>2. Head(batch[w]) \in Packets /\ Tail(batch[w]) \in Seq(Packets)
  BY <1>1, TailFacts
<1>3. batch' \in [Logic -> Seq(Packets)]
  BY <1>1, <1>2 DEF Inv, TypeOK
<1>4. cur[w] \in Queues
  BY <1>1, Constants DEF Inv, Order, TypeOK, Holding, Busy
<1>5. type \notin {"FRAME", "LISTEN_FAIL"} => cur[w] \in Services
  <2>1. Plain(batch[w]) => type \in {"FRAME", "LISTEN_FAIL"}
    BY <1>1, TailFacts
  <2> QED
    BY <1>1, <1>4, <2>1 DEF Inv, Order, Holding, Queues
<1> QED
  BY <1>1, <1>2, <1>3, <1>4, <1>5

\* What a send adds to one queue leaves the queues well typed.
LEMMA PushType ==
  ASSUME TypeOK, NEW q \in Queues, NEW p \in Packets
  PROVE  Push(queue, q, p) \in [Queues -> Seq(Packets)]
<1>1. Append(queue[q], p) \in Seq(Packets)
  BY AppendFacts DEF TypeOK
<1> QED
  BY <1>1 DEF Push, TypeOK

\* The steps of the main thread keep the types.
LEMMA MainType == Inv /\ MainStep => TypeOK'
<1> SUFFICES ASSUME Inv, MainStep PROVE TypeOK'
  OBVIOUS
<1> USE Constants DEF Inv, Order
<1>1. main' \in [at : Steps, i : 1..(NLogic + NService)] /\ main'.i \in Nat
  <2>1. main \in [at : Steps, i : 1..(NLogic + NService)]
    BY DEF TypeOK
  <2>2. \A at \in Steps : [at |-> at, i |-> 1] \in [at : Steps, i : 1..(NLogic + NService)]
    OBVIOUS
  <2>3. ASSUME main.i < NLogic \/ main.i < NService
        PROVE  [main EXCEPT !.i = @ + 1] \in [at : Steps, i : 1..(NLogic + NService)]
    BY <2>1, <2>3
  <2>4. [main EXCEPT !.at = "asleep"] \in [at : Steps, i : 1..(NLogic + NService)]
    BY <2>1 DEF Steps
  <2>5. main.at \in {"create", "quit", "join"} /\ main.i # NLogic => main.i < NLogic
    BY <2>1 DEF MainInRange
  <2>6. main.at \in {"init", "waitQuit"} /\ main.i # NService => main.i < NService
    BY <2>1 DEF MainInRange, Waits
  <2>7. main' \in [at : Steps, i : 1..(NLogic + NService)]
    BY <2>2, <2>3, <2>4, <2>5, <2>6
    DEF MainStep, MainAt, Goto, Steps, Listen, CreateThread, SendInit, WaitQuit, QuitThread,
        JoinThread, QuitNet, JoinNet, Destroy
  <2> QED
    BY <2>7
<1>2. queue' \in [Queues -> Seq(Packets)]
  <2>1. CASE SendInit
    <3>1. main.i \in Queues
      BY <2>1 DEF SendInit, MainAt, MainInRange, TypeOK, Queues, Services
    <3> QED
      BY <2>1, <3>1, PushType, PacketTypes DEF SendInit
  <2> QED
    BY <2>1 DEF MainStep, Listen, CreateThread, WaitQuit, QuitThread, JoinThread, QuitNet,
                JoinNet, Destroy, TypeOK
<1>3. /\ state' \in [Threads -> {"eTS_None", "eTS_Normal", "eTS_Quit"}]
      /\ pc' \in [Threads -> Stages]
      /\ listen' \in BOOLEAN
  <2> USE DEF TypeOK
  <2>1. CASE Listen
    BY <2>1 DEF Listen
  <2>2. CASE CreateThread
    BY <2>2, BornType DEF CreateThread
  <2>3. CASE QuitThread
    BY <2>3 DEF QuitThread, Quit
  <2>4. CASE QuitNet
    BY <2>4 DEF QuitNet, Quit
  <2>5. CASE SendInit \/ WaitQuit \/ JoinThread \/ JoinNet \/ Destroy
    BY <2>5 DEF SendInit, WaitQuit, JoinThread, JoinNet, Destroy
  <2> QED
    BY <2>1, <2>2, <2>3, <2>4, <2>5 DEF MainStep
<1>4. UNCHANGED <<quiting, call, signals, cur, batch, run, seen>>
  BY DEF MainStep, Listen, CreateThread, SendInit, WaitQuit, QuitThread, JoinThread, QuitNet,
         JoinNet, Destroy
<1> QED
  BY <1>1, <1>2, <1>3, <1>4 DEF TypeOK

\* The steps of doQuit and the signal keep the types.
LEMMA DoQuitType ==
  ASSUME Inv, Signal \/ \E t \in Logic \cup {Main} : DoQuitStep(t)
  PROVE  TypeOK'
<1> USE Constants DEF Inv, Order
<1>1. call' \in [Logic \cup {Main} -> 0..(NService + 1)]
  BY DEF Signal, EnterDoQuit, DoQuitStep, SetQuiting, SendQuit, SentAll, TypeOK
<1>2. queue' \in [Queues -> Seq(Packets)]
  <2>1. ASSUME NEW t \in Logic \cup {Main}, SendQuit(t)
        PROVE  queue' \in [Queues -> Seq(Packets)]
    <3>1. call[t] - 1 \in Queues
      BY <2>1 DEF SendQuit, TypeOK, Queues, Services
    <3> QED
      BY <2>1, <3>1, PushType, PacketTypes DEF SendQuit
  <2> QED
    BY <2>1 DEF Signal, DoQuitStep, SetQuiting, TypeOK
<1>3. UNCHANGED <<main, state, pc, cur, batch, listen, run, seen>>
  BY DEF Signal, DoQuitStep, SetQuiting, SendQuit
<1>4. quiting' \in BOOLEAN
  BY DEF Signal, DoQuitStep, SetQuiting, SendQuit, TypeOK
<1>5. signals' \in 0..1
  BY DEF Signal, DoQuitStep, SetQuiting, SendQuit, TypeOK
<1> QED
  BY <1>1, <1>2, <1>3, <1>4, <1>5 DEF TypeOK

\* The steps of the thread functions keep the types.
LEMMA ThreadType ==
  ASSUME Inv, NEW t \in Threads, ThreadStep(t)
  PROVE  TypeOK'
BY DEF Inv, TypeOK, ThreadStep, ThreadStart, ThreadLoop, Stages

\* A frame and a failed listen keep the types of the queues.
LEMMA NetQueues ==
  ASSUME Inv, NetProcess
  PROVE  \A q \in Queues :
           /\ queue'[q] \in Seq(Packets)
           /\ HasInit(queue'[q]) <=> HasInit(queue[q])
           /\ OneInit(queue[q]) => OneInit(queue'[q])
           /\ Plain(queue[q]) => Plain(queue'[q])
<1> SUFFICES ASSUME NEW q \in Queues
             PROVE  /\ queue'[q] \in Seq(Packets)
                    /\ HasInit(queue'[q]) <=> HasInit(queue[q])
                    /\ OneInit(queue[q]) => OneInit(queue'[q])
                    /\ Plain(queue[q]) => Plain(queue'[q])
  OBVIOUS
<1> DEFINE f == WithFrame(q)
<1>1. /\ f \in Seq(Packets)
      /\ HasInit(f) <=> HasInit(queue[q])
      /\ OneInit(queue[q]) => OneInit(f)
      /\ Plain(queue[q]) => Plain(f)
  <2>1. queue[q] \in Seq(Packets)
    BY DEF Inv, TypeOK
  <2>2. CASE f = queue[q]
    BY <2>1, <2>2
  <2>3. CASE queue[q] = <<>> /\ f = <<Packet("FRAME", 0)>>
    <3>1. f = Append(<<>>, Packet("FRAME", 0))
      BY <2>3
    <3>2. f \in Seq(Packets) /\ ~HasInit(f) /\ OneInit(f) /\ Plain(f)
      <4> DEFINE p == Packet("FRAME", 0)
      <4>1. p \in Packets /\ p.type = "FRAME"
        BY PacketTypes
      <4> HIDE DEF p
      <4>2. /\ Append(<<>>, p) \in Seq(Packets) /\ ~HasInit(Append(<<>>, p))
            /\ OneInit(Append(<<>>, p)) /\ Plain(Append(<<>>, p))
        BY <4>1, AppendFacts, EmptyFacts
      <4> QED
        BY <3>1, <4>2 DEF p
    <3> QED
      BY <2>3, <3>2, EmptyFacts
  <2> QED
    BY <2>2, <2>3 DEF WithFrame
<1>2. queue'[q] = f \/ queue'[q] = Append(f, Packet("LISTEN_FAIL", 0))
  BY DEF NetProcess
<1> DEFINE p == Packet("LISTEN_FAIL", 0)
<1>3. p \in Packets /\ p.type = "LISTEN_FAIL"
  BY PacketTypes
<1>4. queue'[q] = f \/ queue'[q] = Append(f, p)
  BY <1>2
<1> HIDE DEF f, p
<1>5. p.type # "INIT" /\ p.type \in {"FRAME", "LISTEN_FAIL"}
  BY <1>3
<1>6. CASE queue'[q] = Append(f, p)
  BY <1>1, <1>3, <1>5, <1>6, AppendFacts
<1> QED
  BY <1>1, <1>4, <1>6

\* The net thread keeps the types.
LEMMA NetType == ASSUME Inv, NetProcess PROVE TypeOK'
<1>1. queue' \in [Queues -> Seq(Packets)]
  <2>1. queue' = [q \in Queues |-> queue'[q]]
    BY DEF NetProcess
  <2> QED
    BY <2>1, NetQueues
<1> QED
  BY <1>1 DEF Inv, TypeOK, NetProcess, Stages

\* The steps of the logic threads keep the types.
LEMMA LogicType ==
  ASSUME Inv, NEW w \in Logic, LogicStep(w)
  PROVE  TypeOK'
<1> USE Constants DEF Inv, Order
<1>1. ASSUME NEW q \in Queues, Take(w, q) PROVE TypeOK'
  BY <1>1, EmptyFacts DEF Take, TypeOK, Stages, Threads
<1>2. CASE DispatchInit(w)
  <2> DEFINE s == cur[w]
  <2>1. s \in Services /\ batch' \in [Logic -> Seq(Packets)]
    <3>1. Dispatching(w, "INIT")
      BY <1>2 DEF DispatchInit
    <3> QED
      BY <3>1, Dispatched
  <2>2. run' \in [Services -> RunStates]
    BY <1>2, <2>1 DEF DispatchInit, TypeOK, RunStates
  <2>3. queue' \in [Queues -> Seq(Packets)]
    <3>1. \A q \in Queues : Append(queue[q], Packet("SERVICE_CONNECT", s)) \in Seq(Packets)
      BY <2>1, AppendFacts, PacketTypes DEF TypeOK
    <3> QED
      BY <1>2, <3>1 DEF DispatchInit, TypeOK
  <2> QED
    BY <1>2, <2>1, <2>2, <2>3 DEF DispatchInit, TypeOK
<1>3. CASE DispatchInitFail(w) \/ DispatchListenFail(w)
  <2>1. batch' \in [Logic -> Seq(Packets)]
    BY <1>3, Dispatched DEF DispatchInitFail, DispatchListenFail
  <2>2. call' \in [Logic \cup {Main} -> 0..(NService + 1)]
    <3>1. 0 \in 0..(NService + 1) /\ 1 \in 0..(NService + 1)
      OBVIOUS
    <3>2. EnterDoQuit(w)
      BY <1>3 DEF DispatchInitFail, DispatchListenFail
    <3> QED
      BY <3>1, <3>2 DEF EnterDoQuit, TypeOK
  <2> QED
    BY <1>3, <2>1, <2>2 DEF DispatchInitFail, DispatchListenFail, TypeOK
<1>4. CASE DispatchConnect(w)
  <2>1. /\ batch' \in [Logic -> Seq(Packets)]
        /\ Head(batch[w]) \in Packets /\ Head(batch[w]).type = "SERVICE_CONNECT"
    BY <1>4, Dispatched DEF DispatchConnect
  <2>2. Head(batch[w]).from \in Services
    BY <2>1, ConnectFrom
  <2>3. seen' \in [Services -> SUBSET Services]
    BY <1>4, <2>2 DEF DispatchConnect, TypeOK
  <2> QED
    BY <1>4, <2>1, <2>3 DEF DispatchConnect, TypeOK
<1>5. CASE DispatchFrame(w)
  <2>1. batch' \in [Logic -> Seq(Packets)]
    BY <1>5, Dispatched DEF DispatchFrame
  <2> QED
    BY <1>5, <2>1 DEF DispatchFrame, TypeOK
<1>6. CASE DispatchQuit(w)
  <2>1. batch' \in [Logic -> Seq(Packets)]
    BY <1>6, Dispatched DEF DispatchQuit
  <2>2. run' \in [Services -> RunStates] /\ pc' \in [Threads -> Stages]
    BY <1>6 DEF DispatchQuit, TypeOK, RunStates, Stages
  <2> QED
    BY <1>6, <2>1, <2>2 DEF DispatchQuit, TypeOK
<1>7. CASE ServiceDoQuit(w)
  BY <1>7 DEF ServiceDoQuit, TypeOK, RunStates, Stages
<1>8. CASE NotifyQuit(w)
  <2>1. main' \in [at : Steps, i : 1..(NLogic + NService)]
    BY <1>8 DEF NotifyQuit, TypeOK, Steps
  <2> QED
    BY <1>8, <2>1 DEF NotifyQuit, TypeOK, Stages
<1>9. CASE ProcessEnd(w)
  BY <1>9 DEF ProcessEnd, TypeOK, Stages
<1> QED
  BY <1>1, <1>2, <1>3, <1>4, <1>5, <1>6, <1>7, <1>8, <1>9 DEF LogicStep, DispatchStep

\* Every step keeps the types.
LEMMA StepType == ASSUME Inv, [Next]_vars PROVE TypeOK'
<1>1. CASE UNCHANGED vars
  BY <1>1 DEF vars, Inv, TypeOK
<1>2. CASE Terminated
  BY <1>1, <1>2 DEF Terminated
<1> QED
  BY <1>1, <1>2, MainType, DoQuitType, ThreadType, NetType, LogicType DEF Next

-----------------------------------------------------------------------------
(* Each action keeps the order of start and shutdown.                      *)

\* Nothing but the threads' own bookkeeping: what the order speaks of is the
\* same, or pc changes outside of the stages it speaks of.
LEMMA ThreadOrder ==
  ASSUME Inv, NEW t \in Threads, ThreadStep(t), TypeOK'
  PROVE  Order'
<1> USE Constants DEF Inv, Order
<1>1. /\ UNCHANGED <<main, call, cur, batch, queue, run>>
      /\ \A u \in Threads : pc'[u] = IF u = t THEN pc'[t] ELSE pc[u]
      /\ pc[t] \in {"created", "loop"}
      /\ pc'[t] \in {"loop", "process", "ended"}
  BY DEF ThreadStep, ThreadStart, ThreadLoop, TypeOK
<1>2. MainInRange' /\ QuitBehind'
  BY <1>1 DEF MainInRange, QuitBehind
<1>3. Holding'
  BY <1>1 DEF Holding, ToCreate, Busy, Threads
<1>4. InitOnce'
  BY <1>1 DEF InitOnce, NotYet, Threads
<1>5. JoinedEnded'
  BY <1>1 DEF JoinedEnded, Threads
<1> QED
  BY <1>2, <1>3, <1>4, <1>5

\* The net thread adds no INIT and leaves the global queue plain.
LEMMA NetOrder ==
  ASSUME Inv, NetProcess, TypeOK'
  PROVE  Order'
<1> USE Constants DEF Inv, Order
<1>1. /\ UNCHANGED <<main, call, cur, batch, run>>
      /\ pc[Net] = "process" /\ pc'[Net] = "loop"
      /\ \A w \in Logic : pc'[w] = pc[w]
  BY DEF NetProcess, TypeOK, Threads
<1>2. MainInRange' /\ QuitBehind' /\ JoinedEnded'
  BY <1>1 DEF MainInRange, QuitBehind, JoinedEnded
<1>3. Holding'
  BY <1>1, NetQueues DEF Holding, ToCreate, Queues
<1>4. InitOnce'
  BY <1>1, NetQueues DEF InitOnce, NotYet, Queues
<1> QED
  BY <1>2, <1>3, <1>4

\* A QUIT goes to the queue of a service, and is no INIT.
LEMMA DoQuitOrder ==
  ASSUME Inv, Signal \/ \E t \in Logic \cup {Main} : DoQuitStep(t), TypeOK'
  PROVE  Order'
<1> USE Constants DEF Inv, Order
<1>1. UNCHANGED <<main, pc, cur, batch, run>>
  BY DEF Signal, DoQuitStep, SetQuiting, SendQuit
<1>2. \A w \in Logic : call'[w] # 0 => call[w] # 0
  BY DEF Signal, EnterDoQuit, DoQuitStep, SetQuiting, SendQuit, TypeOK
<1>3. /\ queue'[Global] = queue[Global]
      /\ \A s \in Services : /\ HasInit(queue'[s]) <=> HasInit(queue[s])
                             /\ OneInit(queue[s]) => OneInit(queue'[s])
  <2>1. CASE queue' = queue
    BY <2>1
  <2>2. ASSUME NEW t \in Logic \cup {Main}, SendQuit(t)
        PROVE  /\ queue'[Global] = queue[Global]
               /\ \A s \in Services : /\ HasInit(queue'[s]) <=> HasInit(queue[s])
                                      /\ OneInit(queue[s]) => OneInit(queue'[s])
    <3> DEFINE p == Packet("QUIT", 0)
    <3>1. p \in Packets /\ p.type # "INIT"
      BY PacketTypes
    <3>2. call[t] - 1 \in Services
      BY <2>2 DEF SendQuit, TypeOK, Services
    <3>3. queue' = [queue EXCEPT ![call[t] - 1] = Append(@, p)]
      BY <2>2 DEF SendQuit, Push
    <3>4. \A s \in Services : queue[s] \in Seq(Packets) /\ (queue'[s] = queue[s] \/ queue'[s] = Append(queue[s], p))
      BY <3>3 DEF TypeOK, Queues
    <3>5. queue'[Global] = queue[Global]
      BY <3>2, <3>3 DEF TypeOK
    <3> HIDE DEF p
    <3>6. ASSUME NEW s \in Services
          PROVE  /\ HasInit(queue'[s]) <=> HasInit(queue[s])
                 /\ OneInit(queue[s]) => OneInit(queue'[s])
      <4>1. /\ HasInit(Append(queue[s], p)) <=> HasInit(queue[s])
            /\ OneInit(queue[s]) => OneInit(Append(queue[s], p))
        BY <3>1, <3>4, AppendFacts
      <4> QED
        BY <3>4, <4>1
    <3> QED
      BY <3>5, <3>6
  <2> QED
    BY <2>1, <2>2 DEF Signal, DoQuitStep, SetQuiting
<1>4. MainInRange' /\ QuitBehind' /\ JoinedEnded'
  BY <1>1 DEF MainInRange, QuitBehind, JoinedEnded
<1>5. Holding'
  BY <1>1, <1>2, <1>3 DEF Holding, ToCreate
<1>6. InitOnce'
  BY <1>1, <1>3 DEF InitOnce, NotYet
<1> QED
  BY <1>4, <1>5, <1>6

\* A step of the main thread that creates no thread and sends nothing.
LEMMA WaitOrder ==
  ASSUME Inv, TypeOK',
         Listen \/ WaitQuit \/ QuitThread \/ JoinThread \/ QuitNet \/ JoinNet \/ Destroy
  PROVE  Order'
<1> USE Constants DEF Inv, Order
<1>1. UNCHANGED <<call, pc, cur, batch, queue, run>>
  BY DEF Listen, WaitQuit, QuitThread, JoinThread, QuitNet, JoinNet, Destroy
<1>2. main.i \in Nat /\ main'.i \in Nat
  BY DEF TypeOK
<1>3. \/ main.at = "listen" /\ main' = [at |-> "create", i |-> 1]
      \/ main.at \in {"waitQuit", "quit", "join", "quitNet", "joinNet", "destroy"}
           /\ main'.at \in Waits \cup AfterWait
  BY DEF Listen, WaitQuit, QuitThread, JoinThread, QuitNet, JoinNet, Destroy, MainAt, Goto,
         Waits, AfterWait, Joins, TypeOK
<1>4. MainInRange'
  <2>1. main.at \in {"quit", "join"} => main.i <= NLogic
    BY DEF MainInRange
  <2>2. main.at = "waitQuit" => main.i <= NService
    BY DEF MainInRange, Waits
  <2> QED
    BY <1>2, <2>1, <2>2
    DEF MainInRange, Listen, WaitQuit, QuitThread, JoinThread, QuitNet, JoinNet, Destroy,
        MainAt, Goto, Waits, TypeOK
<1>5. Holding'
  BY <1>1, <1>3 DEF Holding, ToCreate, Waits, AfterWait, Joins, Logic
<1>6. InitOnce'
  BY <1>1, <1>3 DEF InitOnce, NotYet, Waits, AfterWait, Joins
<1>7. QuitBehind'
  <2>1. CASE WaitQuit
    <3>1. main.at = "waitQuit" /\ main.i <= NService
      BY <2>1 DEF WaitQuit, MainAt, MainInRange, Waits
    <3>2. \A s \in Services : s < main.i => run[s] = "eSRS_Quit"
      BY <3>1 DEF QuitBehind, Waits
    <3>3. \/ main' = [main EXCEPT !.at = "asleep"]
          \/ run[main.i] = "eSRS_Quit" /\ main.i = NService
          \/ run[main.i] = "eSRS_Quit" /\ main' = [main EXCEPT !.i = @ + 1]
      BY <2>1 DEF WaitQuit, HasQuit
    <3>4. \A s \in Services : s = main.i \/ s < main.i \/ s > main.i
      BY <1>2 DEF Services
    <3> QED
      BY <1>1, <1>2, <3>1, <3>2, <3>3, <3>4 DEF QuitBehind, AfterWait, Waits, Joins, Services, TypeOK
  <2>2. CASE Listen
    BY <1>1, <2>2 DEF Listen, Goto, QuitBehind, AfterWait, Waits, Joins
  <2>3. CASE QuitThread \/ JoinThread \/ QuitNet \/ JoinNet \/ Destroy
    BY <1>1, <2>3 DEF QuitThread, JoinThread, QuitNet, JoinNet, Destroy, MainAt, Goto,
                      QuitBehind, AfterWait, Joins
  <2> QED
    BY <2>1, <2>2, <2>3
<1>8. JoinedEnded'
  <2>1. CASE JoinThread
    <3>1. main.at = "join" /\ main.i <= NLogic /\ pc[main.i] = "ended"
      BY <2>1 DEF JoinThread, MainAt, Joined, MainInRange
    <3>2. \A w \in Logic : w < main.i => pc[w] = "ended"
      BY <3>1 DEF JoinedEnded
    <3>3. \/ main.i = NLogic /\ main' = [at |-> "quitNet", i |-> 1]
          \/ main' = [main EXCEPT !.i = @ + 1]
      BY <2>1 DEF JoinThread, Goto
    <3>4. \A w \in Logic : w = main.i \/ w < main.i \/ w > main.i
      BY <1>2 DEF Logic
    <3>5. \/ main.i = NLogic /\ main'.at = "quitNet"
          \/ main'.at = "join" /\ main'.i = main.i + 1
      BY <3>1, <3>3 DEF TypeOK
    <3> QED
      BY <1>1, <1>2, <3>1, <3>2, <3>4, <3>5 DEF JoinedEnded, Joins, Logic
  <2>2. CASE QuitThread
    <3>1. main'.at = "quit" \/ (main'.at = "join" /\ main'.i = 1)
      BY <2>2 DEF QuitThread, MainAt, Goto, TypeOK
    <3> QED
      BY <1>1, <3>1 DEF JoinedEnded, Joins, Logic
  <2>3. CASE JoinNet
    BY <1>1, <2>3 DEF JoinNet, MainAt, Goto, Joined, JoinedEnded, Joins
  <2>4. CASE QuitNet \/ Destroy
    BY <1>1, <2>4 DEF QuitNet, Destroy, MainAt, Goto, JoinedEnded, Joins
  <2>5. CASE Listen \/ WaitQuit
    <3>1. main'.at \in {"create", "asleep", "waitQuit", "quit"}
      BY <2>5 DEF Listen, WaitQuit, MainAt, Goto, TypeOK
    <3> QED
      BY <1>1, <3>1 DEF JoinedEnded, Joins
  <2> QED
    BY <2>1, <2>2, <2>3, <2>4, <2>5
<1> QED
  BY <1>4, <1>5, <1>6, <1>7, <1>8

\* The thread that is created was absent and has no queue.
LEMMA CreateOrder ==
  ASSUME Inv, TypeOK', CreateThread
  PROVE  Order'
<1> USE Constants DEF Inv, Order
<1>1. /\ UNCHANGED <<call, cur, batch, queue, run>>
      /\ main.at = "create" /\ main.i \in Logic
      /\ pc' = [pc EXCEPT ![main.i] = BornStage]
      /\ \/ main.i = NLogic /\ main' = [at |-> "init", i |-> 1]
         \/ main.i < NLogic /\ main' = [main EXCEPT !.i = @ + 1]
  BY DEF CreateThread, MainAt, Goto, MainInRange, TypeOK, Logic
<1>2. BornStage \in {"created", "loop"}
  BY DEF BornStage
<1>3. \A t \in Threads : pc'[t] = IF t = main.i THEN BornStage ELSE pc[t]
  BY <1>1 DEF TypeOK
<1>4. pc[main.i] = "absent"
  BY <1>1 DEF Holding, ToCreate, Logic
<1>5. MainInRange' /\ QuitBehind' /\ JoinedEnded'
  <2>1. \/ main'.at = "init" /\ main'.i = 1
        \/ main'.at = "create" /\ main'.i <= NLogic
    BY <1>1 DEF Logic, TypeOK
  <2>2. MainInRange'
    BY <2>1 DEF MainInRange, Waits
  <2>3. QuitBehind' /\ JoinedEnded'
    BY <2>1 DEF QuitBehind, JoinedEnded, Waits, AfterWait, Joins
  <2> QED
    BY <2>2, <2>3
<1>6. Holding'
  <2>1. \A w \in Logic : ToCreate(w)' => ToCreate(w) /\ w # main.i
    <3>1. \/ main'.at = "init"
          \/ main'.at = "create" /\ main'.i = main.i + 1 /\ main.i \in Nat
      BY <1>1 DEF TypeOK
    <3> QED
      BY <1>1, <3>1 DEF ToCreate, Logic
  <2> QED
    BY <1>1, <1>2, <1>3, <1>4, <2>1 DEF Holding, Busy, Threads
<1>7. InitOnce'
  <2>1. \A s \in Services : NotYet(s)' => NotYet(s)
    BY <1>1 DEF NotYet
  <2>2. \A w \in Logic : pc'[w] = "onQuit" => pc[w] = "onQuit"
    BY <1>2, <1>3 DEF Threads
  <2>3. \A s \in Services : NotYet(s)
    BY <1>1 DEF NotYet
  <2> QED
    BY <1>1, <2>1, <2>2, <2>3 DEF InitOnce
<1> QED
  BY <1>5, <1>6, <1>7

\* INIT goes to a service that has none and has not started.
LEMMA SendInitOrder ==
  ASSUME Inv, TypeOK', SendInit
  PROVE  Order'
<1> USE Constants DEF Inv, Order
<1> DEFINE p == Packet("INIT", 0)
<1>1. /\ UNCHANGED <<call, pc, cur, batch, run>>
      /\ main.at = "init" /\ main.i \in Services
      /\ queue' = [queue EXCEPT ![main.i] = Append(@, p)]
      /\ \/ main.i = NService /\ main' = [at |-> "waitQuit", i |-> 1]
         \/ main.i < NService /\ main' = [main EXCEPT !.i = @ + 1]
  BY DEF SendInit, MainAt, Goto, Push, MainInRange, Waits, TypeOK, Services
<1>2. \A q \in Queues : queue'[q] = IF q = main.i THEN Append(queue[q], p) ELSE queue[q]
  BY <1>1 DEF TypeOK
<1>3. p \in Packets /\ queue[main.i] \in Seq(Packets)
  BY <1>1, PacketTypes DEF TypeOK, Queues
<1> HIDE DEF p
<1>a. /\ main.i \in Nat /\ main.i <= NService
      /\ \/ main.i = NService /\ main'.at = "waitQuit" /\ main'.i = 1
         \/ main.i < NService /\ main'.at = "init" /\ main'.i = main.i + 1
  BY <1>1 DEF TypeOK, Services
<1>4. NotYet(main.i) /\ ~HasInit(queue[main.i]) /\ run[main.i] = "eSRS_Start"
  BY <1>1 DEF NotYet, InitOnce, Services
<1>5. OneInit(queue'[main.i])
  BY <1>1, <1>2, <1>3, <1>4, AppendFacts DEF Queues
<1>6. \A s \in Services : NotYet(s)' => NotYet(s) /\ s # main.i
  BY <1>1 DEF NotYet, Services, TypeOK
<1>7. MainInRange' /\ QuitBehind' /\ JoinedEnded'
  <2>1. MainInRange'
    BY <1>a DEF MainInRange, Waits
  <2>2. QuitBehind'
    BY <1>a DEF QuitBehind, Waits, AfterWait, Joins, Services
  <2>3. JoinedEnded'
    BY <1>a DEF JoinedEnded, Joins
  <2> QED
    BY <2>1, <2>2, <2>3
<1>8. Holding'
  <2>1. queue'[Global] = queue[Global]
    BY <1>1, <1>2 DEF Queues
  <2>2. \A w \in Logic : ~ToCreate(w)'
    BY <1>a DEF ToCreate
  <2> QED
    BY <1>1, <2>1, <2>2 DEF Holding
<1>9. InitOnce'
  <2>1. \A w \in Logic : cur[w] = main.i => ~HasInit(batch[w])
    BY <1>1, <1>4 DEF InitOnce
  <2> QED
    BY <1>1, <1>2, <1>4, <1>5, <1>6, <2>1 DEF InitOnce, Queues
<1> QED
  BY <1>7, <1>8, <1>9

\* A running logic thread moves neither the main thread nor what it waits for,
\* but for waking it up.
LEMMA RunningThread ==
  ASSUME Inv, TypeOK', NEW w \in Logic,
         pc[w] \notin {"absent", "ended"},
         \A v \in Threads : v # w => pc'[v] = pc[v],
         main' = main \/ (main.at = "asleep" /\ main' = [main EXCEPT !.at = "waitQuit"]),
         \A s \in Services : run[s] = "eSRS_Quit" => run'[s] = "eSRS_Quit"
  PROVE  /\ MainInRange' /\ QuitBehind' /\ JoinedEnded'
         /\ ~ToCreate(w)
         /\ \A v \in Logic : ToCreate(v)' <=> ToCreate(v)
         /\ \A s \in Services : NotYet(s)' <=> NotYet(s)
<1> USE Constants DEF Inv, Order
<1>1. \/ main'.at = main.at /\ main'.i = main.i
      \/ main.at = "asleep" /\ main'.at = "waitQuit" /\ main'.i = main.i
  BY DEF TypeOK
<1>2. MainInRange'
  BY <1>1 DEF MainInRange, Waits
<1>3. QuitBehind'
  BY <1>1 DEF QuitBehind, Waits, AfterWait, Joins
<1>4. JoinedEnded'
  BY <1>1 DEF JoinedEnded, Joins, Threads
<1>5. ~ToCreate(w)
  BY DEF Holding
<1>6. \A v \in Logic : ToCreate(v)' <=> ToCreate(v)
  BY <1>1 DEF ToCreate
<1>7. \A s \in Services : NotYet(s)' <=> NotYet(s)
  BY <1>1 DEF NotYet
<1> QED
  BY <1>2, <1>3, <1>4, <1>5, <1>6, <1>7

\* A logic thread takes a queue that nobody holds.
LEMMA TakeOrder ==
  ASSUME Inv, TypeOK', NEW w \in Logic, NEW q \in Queues, Take(w, q)
  PROVE  Order'
<1> USE Constants, EmptyFacts DEF Inv, Order
<1>1. /\ UNCHANGED <<main, call, run>>
      /\ pc[w] = "process"
      /\ \A v \in Logic : cur[v] # q
      /\ \A v \in Logic : cur'[v] = IF v = w THEN q ELSE cur[v]
      /\ \A v \in Logic : batch'[v] = IF v = w THEN queue[q] ELSE batch[v]
      /\ \A r \in Queues : queue'[r] = IF r = q THEN <<>> ELSE queue[r]
      /\ \A v \in Threads : pc'[v] = IF v = w THEN "dispatch" ELSE pc[v]
  BY DEF Take, Held, TypeOK
<1>2. /\ MainInRange' /\ QuitBehind' /\ JoinedEnded'
      /\ ~ToCreate(w)
      /\ \A v \in Logic : ToCreate(v)' <=> ToCreate(v)
      /\ \A s \in Services : NotYet(s)' <=> NotYet(s)
  BY <1>1, RunningThread
<1>3. Holding'
  BY <1>1, <1>2 DEF Holding, Busy, Threads, Queues
<1>4. InitOnce'
  BY <1>1, <1>2 DEF InitOnce, Threads, Queues
<1> QED
  BY <1>2, <1>3, <1>4

\* INIT is handled once, by a service that has not started.
LEMMA InitOrder ==
  ASSUME Inv, TypeOK', NEW w \in Logic, DispatchInit(w)
  PROVE  Order'
<1> USE Constants DEF Inv, Order
<1> DEFINE s == cur[w]
<1> DEFINE p == Packet("SERVICE_CONNECT", s)
<1>1. Dispatching(w, "INIT")
  BY DEF DispatchInit
<1>2. /\ s \in Services /\ pc[w] = "dispatch"
      /\ batch[w] \in Seq(Packets) /\ batch[w] # <<>> /\ Head(batch[w]).type = "INIT"
      /\ batch' = [batch EXCEPT ![w] = Tail(batch[w])]
  BY <1>1, Dispatched
<1>3. HasInit(batch[w]) /\ OneInit(batch[w])
  BY <1>2, TailFacts DEF InitOnce
<1>4. ~HasInit(Tail(batch[w])) /\ OneInit(Tail(batch[w]))
  BY <1>2, <1>3, TailFacts
<1>5. run[s] = "eSRS_Start" /\ ~NotYet(s) /\ ~HasInit(queue[s])
  BY <1>2, <1>3 DEF InitOnce
<1>6. /\ UNCHANGED <<main, call, pc, cur>>
      /\ \A v \in Logic : batch'[v] = IF v = w THEN Tail(batch[w]) ELSE batch[v]
      /\ \A r \in Services : run'[r] = IF r = s THEN "eSRS_Normal" ELSE run[r]
  BY <1>2 DEF DispatchInit, TypeOK
<1>7. p \in Packets /\ p.type = "SERVICE_CONNECT"
  BY <1>2, PacketTypes
<1>8. /\ queue'[s] = queue[s] /\ queue'[Global] = queue[Global]
      /\ \A r \in Services : queue'[r] = queue[r] \/ queue'[r] = Append(queue[r], p)
      /\ \A r \in Services : queue[r] \in Seq(Packets)
  BY <1>2 DEF DispatchInit, TypeOK, Queues
<1> HIDE DEF p
<1>9. \A r \in Services : /\ HasInit(queue'[r]) <=> HasInit(queue[r])
                          /\ OneInit(queue[r]) => OneInit(queue'[r])
  <2> SUFFICES ASSUME NEW r \in Services
               PROVE  /\ HasInit(queue'[r]) <=> HasInit(queue[r])
                      /\ OneInit(queue[r]) => OneInit(queue'[r])
    OBVIOUS
  <2>1. p.type # "INIT"
    BY <1>7
  <2>2. /\ HasInit(Append(queue[r], p)) <=> HasInit(queue[r])
        /\ OneInit(queue[r]) => OneInit(Append(queue[r], p))
    BY <1>7, <1>8, <2>1, AppendFacts
  <2> QED
    BY <1>8, <2>2
<1> HIDE DEF s
<1>10. /\ MainInRange' /\ QuitBehind' /\ JoinedEnded'
       /\ ~ToCreate(w)
       /\ \A v \in Logic : ToCreate(v)' <=> ToCreate(v)
       /\ \A r \in Services : NotYet(r)' <=> NotYet(r)
  BY <1>2, <1>5, <1>6, RunningThread
<1>11. Holding'
  BY <1>2, <1>6, <1>8, <1>10 DEF Holding, Busy, s
<1>12. InitOnce'
  <2>1. \A v \in Logic : cur[v] = s => v = w
    BY <1>2 DEF Holding, s, Queues
  <2> QED
    BY <1>2, <1>4, <1>5, <1>6, <1>8, <1>9, <1>10, <2>1 DEF InitOnce, s
<1> QED
  BY <1>10, <1>11, <1>12

\* The other packets send nothing; QUIT may begin the end of a service.
LEMMA OtherOrder ==
  ASSUME Inv, TypeOK', NEW w \in Logic,
         \/ DispatchInitFail(w) \/ DispatchConnect(w) \/ DispatchFrame(w)
         \/ DispatchListenFail(w) \/ DispatchQuit(w)
  PROVE  Order'
<1> USE Constants DEF Inv, Order
<1>1. PICK type : Dispatching(w, type) /\ (DispatchQuit(w) => type = "QUIT")
  BY DEF DispatchInitFail, DispatchConnect, DispatchFrame, DispatchListenFail, DispatchQuit
<1>2. /\ batch[w] \in Seq(Packets) /\ batch[w] # <<>> /\ Head(batch[w]).type = type
      /\ batch' = [batch EXCEPT ![w] = Tail(batch[w])]
      /\ pc[w] = "dispatch" /\ cur[w] \in Queues
      /\ type = "QUIT" => cur[w] \in Services
  BY <1>1, Dispatched
<1>3. /\ HasInit(Tail(batch[w])) => HasInit(batch[w])
      /\ OneInit(batch[w]) => OneInit(Tail(batch[w]))
      /\ Plain(batch[w]) => Plain(Tail(batch[w])) /\ type \in {"FRAME", "LISTEN_FAIL"}
  BY <1>2, TailFacts
<1>4. /\ UNCHANGED <<main, cur, queue>>
      /\ \A v \in Logic : batch'[v] = IF v = w THEN Tail(batch[w]) ELSE batch[v]
      /\ \A v \in Logic : call'[v] # 0 => call[v] # 0 \/ v = w
  BY <1>2 DEF DispatchInitFail, DispatchConnect, DispatchFrame, DispatchListenFail,
              DispatchQuit, EnterDoQuit, TypeOK
<1>5. \/ UNCHANGED <<pc, run>>
      \/ /\ cur[w] \in Services /\ run[cur[w]] = "eSRS_Normal"
         /\ \A t \in Threads : pc'[t] = IF t = w THEN "onQuit" ELSE pc[t]
         /\ \A s \in Services : run'[s] = IF s = cur[w] THEN "eSRS_Quitting" ELSE run[s]
         /\ UNCHANGED call
  BY <1>1, <1>2 DEF DispatchInitFail, DispatchConnect, DispatchFrame, DispatchListenFail,
                    DispatchQuit, MayQuit, TypeOK
<1>6. /\ MainInRange' /\ QuitBehind' /\ JoinedEnded'
      /\ ~ToCreate(w)
      /\ \A v \in Logic : ToCreate(v)' <=> ToCreate(v)
      /\ \A s \in Services : NotYet(s)' <=> NotYet(s)
  <2>1. \A v \in Threads : v # w => pc'[v] = pc[v]
    BY <1>5
  <2>2. \A s \in Services : run[s] = "eSRS_Quit" => run'[s] = "eSRS_Quit"
    BY <1>5
  <2> QED
    BY <1>2, <1>4, <2>1, <2>2, RunningThread
<1>7. call[w] = 0
  BY <1>1 DEF Dispatching
<1>8. Holding'
  <2>1. \A v \in Logic : v # w => pc'[v] = pc[v]
    BY <1>5 DEF Threads
  <2>2. pc'[w] \in {"dispatch", "onQuit"} /\ (pc'[w] = "onQuit" => cur[w] \in Services)
    BY <1>2, <1>5 DEF Threads
  <2>3. pc'[w] = "onQuit" => call' = call
    BY <1>2, <1>5
  <2> QED
    BY <1>2, <1>3, <1>4, <1>6, <1>7, <2>1, <2>2, <2>3 DEF Holding, Busy
<1>9. InitOnce'
  <2>1. \A v \in Logic : cur[v] = cur[w] => v = w
    BY <1>2 DEF Holding, Queues
  <2>2. CASE UNCHANGED <<pc, run>>
    BY <1>2, <1>3, <1>4, <1>6, <2>2 DEF InitOnce
  <2>3. CASE ~UNCHANGED <<pc, run>>
    <3>1. /\ cur[w] \in Services /\ run[cur[w]] = "eSRS_Normal"
          /\ \A v \in Logic : pc'[v] = IF v = w THEN "onQuit" ELSE pc[v]
          /\ \A s \in Services : run'[s] = IF s = cur[w] THEN "eSRS_Quitting" ELSE run[s]
      BY <1>5, <2>3 DEF Threads
    <3> QED
      BY <1>3, <1>4, <1>6, <2>1, <3>1 DEF InitOnce
  <2> QED
    BY <2>2, <2>3
<1> QED
  BY <1>6, <1>8, <1>9

\* onQuit and the notification: the service has quit, its queue stays.
LEMMA QuitOrder ==
  ASSUME Inv, TypeOK', NEW w \in Logic, ServiceDoQuit(w) \/ NotifyQuit(w)
  PROVE  Order'
<1> USE Constants DEF Inv, Order
<1>1. /\ UNCHANGED <<call, cur, batch, queue>>
      /\ pc[w] \in {"onQuit", "notify"} /\ pc'[w] \in {"notify", "dispatch"}
      /\ \A t \in Threads : t # w => pc'[t] = pc[t]
      /\ main' = main \/ (main.at = "asleep" /\ main' = [main EXCEPT !.at = "waitQuit"])
  BY DEF ServiceDoQuit, NotifyQuit, TypeOK, Threads
<1>2. cur[w] \in Services /\ call[w] = 0
  BY <1>1 DEF Holding
<1>3. /\ pc[w] = "onQuit" => run[cur[w]] = "eSRS_Quitting"
      /\ \/ run' = run
         \/ /\ pc[w] = "onQuit"
            /\ \A s \in Services : run'[s] = IF s = cur[w] THEN "eSRS_Quit" ELSE run[s]
  BY <1>2 DEF ServiceDoQuit, NotifyQuit, InitOnce, TypeOK
<1>4. /\ MainInRange' /\ QuitBehind' /\ JoinedEnded'
      /\ ~ToCreate(w)
      /\ \A v \in Logic : ToCreate(v)' <=> ToCreate(v)
      /\ \A s \in Services : NotYet(s)' <=> NotYet(s)
  <2>1. \A s \in Services : run[s] = "eSRS_Quit" => run'[s] = "eSRS_Quit"
    BY <1>3
  <2> QED
    BY <1>1, <2>1, RunningThread
<1>5. Holding'
  BY <1>1, <1>2, <1>4 DEF Holding, Busy, Threads
<1>6. InitOnce'
  <2>1. \A v \in Logic : cur[v] = cur[w] => v = w
    BY <1>2 DEF Holding, Queues
  <2>2. \A v \in Logic : pc'[v] = "onQuit" => pc[v] = "onQuit" /\ v # w
    BY <1>1 DEF Threads
  <2>3. \A s \in Services : run'[s] # run[s] => s = cur[w] /\ run[s] = "eSRS_Quitting"
    BY <1>3
  <2> QED
    BY <1>1, <1>4, <2>1, <2>2, <2>3 DEF InitOnce
<1> QED
  BY <1>4, <1>5, <1>6

\* A thread that has dispatched its batch gives the queue back.
LEMMA EndOrder ==
  ASSUME Inv, TypeOK', NEW w \in Logic, ProcessEnd(w)
  PROVE  Order'
<1> USE Constants DEF Inv, Order
<1>1. /\ UNCHANGED <<main, call, batch, queue, run>>
      /\ pc[w] = "dispatch" /\ call[w] = 0 /\ batch[w] = <<>>
      /\ \A v \in Logic : cur'[v] = IF v = w THEN NoQueue ELSE cur[v]
      /\ \A t \in Threads : pc'[t] = IF t = w THEN "loop" ELSE pc[t]
  BY DEF ProcessEnd, TypeOK
<1>2. /\ MainInRange' /\ QuitBehind' /\ JoinedEnded'
      /\ ~ToCreate(w)
      /\ \A v \in Logic : ToCreate(v)' <=> ToCreate(v)
      /\ \A s \in Services : NotYet(s)' <=> NotYet(s)
  BY <1>1, RunningThread
<1>3. Holding'
  BY <1>1, <1>2 DEF Holding, Busy, Threads, Queues
<1>4. InitOnce'
  BY <1>1, <1>2 DEF InitOnce, Threads, Queues
<1> QED
  BY <1>2, <1>3, <1>4

\* Every step keeps the invariant.
LEMMA StepInv == Inv /\ [Next]_vars => Inv'
<1> SUFFICES ASSUME Inv, [Next]_vars PROVE Inv'
  OBVIOUS
<1>1. TypeOK'
  BY StepType
<1>2. CASE MainStep
  BY <1>1, <1>2, WaitOrder, CreateOrder, SendInitOrder DEF MainStep, Inv
<1>3. CASE Signal \/ \E t \in Logic \cup {Main} : DoQuitStep(t)
  BY <1>1, <1>3, DoQuitOrder DEF Inv
<1>4. CASE NetProcess
  BY <1>1, <1>4, NetOrder DEF Inv
<1>5. ASSUME NEW t \in Threads, ThreadStep(t) PROVE Inv'
  BY <1>1, <1>5, ThreadOrder DEF Inv
<1>6. ASSUME NEW w \in Logic, LogicStep(w) PROVE Inv'
  BY <1>1, <1>6, TakeOrder, InitOrder, OtherOrder, QuitOrder, EndOrder
  DEF LogicStep, DispatchStep, Inv
<1>7. CASE UNCHANGED vars
  BY <1>1, <1>7 DEF vars, Inv, Order, MainInRange, Holding, ToCreate, InitOnce, NotYet,
                    QuitBehind, JoinedEnded
<1> QED
  BY <1>2, <1>3, <1>4, <1>5, <1>6, <1>7 DEF Next, Terminated

\* The invariant holds in every state of the process.
LEMMA Invariance == SafeSpec => []Inv
BY InitInv, StepInv, PTL DEF SafeSpec

-----------------------------------------------------------------------------
(* The theorems.                                                           *)

\* The type invariant, for any number of threads and services.
THEOREM TypeCorrect == SafeSpec => []TypeOK
<1>1. Inv => TypeOK
  BY DEF Inv
<1> QED
  BY <1>1, Invariance, PTL

\* The logic threads are told to quit only when every service has quit
\* (runAndServe), whatever fails and whoever calls doQuit.
THEOREM OrderlyQuit == SafeSpec => []ServicesQuitFirst
<1>1. Inv => ServicesQuitFirst
  BY DEF Inv, Order, QuitBehind, AfterWait, Joins, ServicesQuitFirst
<1> QED
  BY <1>1, Invariance, PTL

\* destroy runs when every thread has ended with nothing in its hands
\* (runAndServe).
THEOREM NothingAfterDestroy == SafeSpec => []DestroyIsLast
<1>1. Inv => DestroyIsLast
  BY Constants DEF Inv, Order, JoinedEnded, Joins, Holding, Busy, DestroyIsLast, Threads
<1> QED
  BY <1>1, Invariance, PTL

\* A service goes through its run states one by one, however many QUIT packets
\* reach it (CCoreService::run, quit, doQuit).
THEOREM StatesForward == SafeSpec => RunStateForward
<1> DEFINE Forward(s) ==
      <<run[s], run'[s]>> \in {<<r, r>> : r \in RunStates}
        \cup {<<"eSRS_Start", "eSRS_Normal">>, <<"eSRS_Normal", "eSRS_Quitting">>,
              <<"eSRS_Quitting", "eSRS_Quit">>}
<1>1. ASSUME Inv, [Next]_vars PROVE [\A s \in Services : Forward(s)]_vars
  <2> SUFFICES ASSUME NEW s \in Services PROVE Forward(s)
    OBVIOUS
  <2>1. run[s] \in RunStates
    BY <1>1 DEF Inv, TypeOK
  <2>2. CASE run'[s] = run[s]
    BY <2>1, <2>2
  <2>3. ASSUME NEW w \in Logic, DispatchInit(w) PROVE Forward(s)
    <3>1. Dispatching(w, "INIT")
      BY <2>3 DEF DispatchInit
    <3>2. cur[w] \in Services /\ HasInit(batch[w])
      BY <1>1, <3>1, Dispatched, TailFacts
    <3>3. run[cur[w]] = "eSRS_Start"
      BY <1>1, <3>2 DEF Inv, Order, InitOnce
    <3>4. run'[s] = run[s] \/ (s = cur[w] /\ run'[s] = "eSRS_Normal")
      BY <1>1, <2>3 DEF DispatchInit, Inv, TypeOK
    <3> QED
      BY <2>2, <3>3, <3>4
  <2>4. ASSUME NEW w \in Logic, DispatchQuit(w) PROVE Forward(s)
    <3>1. run'[s] = run[s] \/ (run[s] = "eSRS_Normal" /\ run'[s] = "eSRS_Quitting")
      BY <1>1, <2>4 DEF DispatchQuit, MayQuit, Inv, TypeOK
    <3> QED
      BY <2>2, <3>1
  <2>5. ASSUME NEW w \in Logic, ServiceDoQuit(w) PROVE Forward(s)
    <3>1. cur[w] \in Services /\ run[cur[w]] = "eSRS_Quitting"
      BY <1>1, <2>5 DEF ServiceDoQuit, Inv, Order, Holding, InitOnce
    <3>2. run'[s] = run[s] \/ (s = cur[w] /\ run'[s] = "eSRS_Quit")
      BY <1>1, <2>5 DEF ServiceDoQuit, Inv, TypeOK
    <3> QED
      BY <2>2, <3>1, <3>2
  <2>6. \/ run' = run
        \/ \E w \in Logic : DispatchInit(w) \/ DispatchQuit(w) \/ ServiceDoQuit(w)
    BY <1>1 DEF Next, vars, MainStep, Listen, CreateThread, SendInit, WaitQuit, QuitThread,
                JoinThread, QuitNet, JoinNet, Destroy, Signal, NetProcess, DoQuitStep,
                SetQuiting, SendQuit, ThreadStep, ThreadStart, ThreadLoop, LogicStep, Take,
                DispatchStep, DispatchInitFail, DispatchConnect, DispatchFrame,
                DispatchListenFail, NotifyQuit, ProcessEnd, Terminated
  <2> QED
    BY <2>2, <2>3, <2>4, <2>5, <2>6
<1> QED
  BY <1>1, Invariance, PTL DEF SafeSpec, RunStateForward
=============================================================================
