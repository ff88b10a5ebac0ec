---------------------------- MODULE AppLifecycle ----------------------------
(***************************************************************************)
(* Start and shutdown of a node process: CCoreApp::runAndServe on the main *)
(* thread, the net thread and the logic threads (CThreadBase), the run     *)
(* state of each service (CCoreService) and the packets INIT, QUIT, FRAME, *)
(* SERVICE_CONNECT and LISTEN_FAIL they exchange.                          *)
(*                                                                         *)
(* A logic thread takes a whole queue that no other thread holds: this is  *)
(* what LogicMessageQueue guarantees.                                      *)
(***************************************************************************)
EXTENDS Naturals, Sequences

CONSTANTS NLogic,   \* m_nLogicThreadCount
          NService, \* the services of the node, in the order of m_vecCoreService
          Faults    \* what may go wrong outside of the program, of FaultKinds

\* slowStart: a new thread runs its first statement late.  initFails: onInit
\* of a service returns false.  listenFails: the port of the node is taken.
\* earlySignal: SIGUSR1 comes before the main thread has sent every INIT.
FaultKinds == {"slowStart", "initFails", "listenFails", "earlySignal"}

ASSUME LifecycleAssumption ==
  /\ NLogic \in Nat \ {0}
  /\ NService \in Nat \ {0}
  /\ Faults \subseteq FaultKinds

Net == 0
Logic == 1..NLogic
Threads == {Net} \cup Logic
Main == NLogic + 1
Global == 0
Services == 1..NService
Queues == {Global} \cup Services

\* `from' is the service that is now connected, 0 for the other packets
Packet(type, from) == [type |-> type, from |-> from]
Packets == {Packet(t, 0) : t \in {"INIT", "QUIT", "FRAME", "LISTEN_FAIL"}}
             \cup {Packet("SERVICE_CONNECT", s) : s \in Services}

VARIABLES
  main,     \* where the main thread is, and the index of its loop
  quiting,  \* m_nQuiting
  call,     \* doQuit: 0 outside, 1 past its check, n + 1 about to send to n
  signals,  \* how many SIGUSR1 came (bound: one)
  state,    \* m_nState of each thread
  pc,       \* where each thread is
  cur,      \* the queue a logic thread holds, NoQueue for none
  batch,    \* the packets it has left to dispatch
  queue,    \* the packets of each queue
  listen,   \* the listen request in the queue of the net thread
  run,      \* m_eRunState of each service
  seen      \* history: the services each service's connect callback got

vars == <<main, quiting, call, signals, state, pc, cur, batch, queue, listen, run, seen>>

NoQueue == NService + 1
Steps == {"listen", "create", "init", "waitQuit", "asleep", "quit", "join",
          "quitNet", "joinNet", "destroy", "end"}
Stages == {"absent", "created", "loop", "process", "dispatch", "onQuit", "notify", "ended"}
RunStates == {"eSRS_Start", "eSRS_Normal", "eSRS_Quitting", "eSRS_Quit"}

Held(q) == \E w \in Logic : cur[w] = q
Push(f, q, p) == [f EXCEPT ![q] = Append(@, p)]

\* A new thread: std::thread has been constructed, m_nState is still eTS_None.
\* A prompt thread has stored eTS_Normal before anyone looks.
BornState == IF "slowStart" \in Faults THEN "eTS_None" ELSE "eTS_Normal"
BornStage == IF "slowStart" \in Faults THEN "created" ELSE "loop"

\* The main thread has created the net thread and is about to listen.
Init ==
  /\ main = [at |-> "listen", i |-> 1]
  /\ quiting = FALSE
  /\ call = [t \in Logic \cup {Main} |-> 0]
  /\ signals = 0
  /\ state = [t \in Threads |-> IF t = Net THEN BornState ELSE "eTS_None"]
  /\ pc = [t \in Threads |-> IF t = Net THEN BornStage ELSE "absent"]
  /\ cur = [w \in Logic |-> NoQueue]
  /\ batch = [w \in Logic |-> <<>>]
  /\ queue = [q \in Queues |-> <<>>]
  /\ listen = FALSE
  /\ run = [s \in Services |-> "eSRS_Start"]
  /\ seen = [s \in Services |-> {}]

-----------------------------------------------------------------------------
(* Mutants: the same steps with a bug such code could have.                *)

\* the loop over the threads stops one short
JoinsAllButLast(t) == t = NLogic \/ pc[t] = "ended"
\* quit() without its assertion on the run state
QuitsAnyState(s) == TRUE
\* doQuit sends one packet too many
LoopsOnceMore(t) == call[t] = NService + 2
\* doQuit forgets the last service
LoopsOneShort(t) == call[t] = NService
\* the main thread looks at the first service only
FirstServiceOnly(s) == s > 1 \/ run[s] = "eSRS_Quit"

-----------------------------------------------------------------------------
(* CCoreApp::init and runAndServe: the main thread.                        *)

\* The signal handler runs on the main thread, which goes on when it is done.
MainAt(at) == main.at = at /\ call[Main] = 0
Goto(at) == main' = [at |-> at, i |-> 1]

Listen ==
  /\ MainAt("listen")
  /\ listen' = TRUE
  /\ Goto("create")
  /\ UNCHANGED <<quiting, call, signals, state, pc, cur, batch, queue, run, seen>>

CreateThread ==
  /\ MainAt("create")
  /\ state' = [state EXCEPT ![main.i] = BornState]
  /\ pc' = [pc EXCEPT ![main.i] = BornStage]
  /\ IF main.i = NLogic THEN Goto("init") ELSE main' = [main EXCEPT !.i = @ + 1]
  /\ UNCHANGED <<quiting, call, signals, cur, batch, queue, listen, run, seen>>

SendInit ==
  /\ MainAt("init")
  /\ queue' = Push(queue, main.i, Packet("INIT", 0))
  /\ IF main.i = NService THEN Goto("waitQuit") ELSE main' = [main EXCEPT !.i = @ + 1]
  /\ UNCHANGED <<quiting, call, signals, state, pc, cur, batch, listen, run, seen>>

HasQuit(s) == run[s] = "eSRS_Quit"

\* waitQuit holds m_lockQuit from its check to the wait
WaitQuit ==
  /\ MainAt("waitQuit")
  /\ main' = IF ~HasQuit(main.i) THEN [main EXCEPT !.at = "asleep"]
             ELSE IF main.i = NService THEN [at |-> "quit", i |-> 1]
             ELSE [main EXCEPT !.i = @ + 1]
  /\ UNCHANGED <<quiting, call, signals, state, pc, cur, batch, queue, listen, run, seen>>

\* CThreadBase::quit does nothing when the thread has no state yet
Quit(t) ==
  state' = [state EXCEPT ![t] = IF @ = "eTS_None" THEN @ ELSE "eTS_Quit"]

QuitThread ==
  /\ MainAt("quit")
  /\ Quit(main.i)
  /\ IF main.i = NLogic THEN Goto("join") ELSE main' = [main EXCEPT !.i = @ + 1]
  /\ UNCHANGED <<quiting, call, signals, pc, cur, batch, queue, listen, run, seen>>

Joined(t) == pc[t] = "ended"

JoinThread ==
  /\ MainAt("join")
  /\ Joined(main.i)
  /\ IF main.i = NLogic THEN Goto("quitNet") ELSE main' = [main EXCEPT !.i = @ + 1]
  /\ UNCHANGED <<quiting, call, signals, state, pc, cur, batch, queue, listen, run, seen>>

QuitNet ==
  /\ MainAt("quitNet")
  /\ Quit(Net)
  /\ Goto("joinNet")
  /\ UNCHANGED <<quiting, call, signals, pc, cur, batch, queue, listen, run, seen>>

JoinNet ==
  /\ MainAt("joinNet")
  /\ Joined(Net)
  /\ Goto("destroy")
  /\ UNCHANGED <<quiting, call, signals, state, pc, cur, batch, queue, listen, run, seen>>

\* destroy deletes the queues, the services and the connections
Destroy ==
  /\ MainAt("destroy")
  /\ Goto("end")
  /\ UNCHANGED <<quiting, call, signals, state, pc, cur, batch, queue, listen, run, seen>>

-----------------------------------------------------------------------------
(* CCoreApp::doQuit: from the signal handler, or from a logic thread.      *)

\* its first statement asserts that nobody is quitting yet
EnterDoQuit(t) == call' = [call EXCEPT ![t] = IF quiting THEN 0 ELSE 1]

Signal ==
  /\ signals = 0
  /\ main.at \notin {"destroy", "end"}
  /\ main.at \in {"listen", "create", "init"} => "earlySignal" \in Faults
  /\ signals' = 1
  /\ EnterDoQuit(Main)
  /\ UNCHANGED <<main, quiting, state, pc, cur, batch, queue, listen, run, seen>>

SetQuiting(t) ==
  /\ call[t] = 1
  /\ quiting' = TRUE
  /\ call' = [call EXCEPT ![t] = 2]
  /\ UNCHANGED <<main, signals, state, pc, cur, batch, queue, listen, run, seen>>

SentAll(t) == call[t] = NService + 1

SendQuit(t) ==
  /\ call[t] > 1
  /\ queue' = Push(queue, call[t] - 1, Packet("QUIT", 0))
  /\ call' = [call EXCEPT ![t] = IF SentAll(t) THEN 0 ELSE @ + 1]
  /\ UNCHANGED <<main, quiting, signals, state, pc, cur, batch, listen, run, seen>>

-----------------------------------------------------------------------------
(* CThreadBase: the thread function.                                       *)

ThreadStart(t) ==
  /\ pc[t] = "created"
  /\ state' = [state EXCEPT ![t] = "eTS_Normal"]
  /\ pc' = [pc EXCEPT ![t] = "loop"]
  /\ UNCHANGED <<main, quiting, call, signals, cur, batch, queue, listen, run, seen>>

ThreadLoop(t) ==
  /\ pc[t] = "loop"
  /\ \/ /\ state[t] = "eTS_Quit"
        /\ pc' = [pc EXCEPT ![t] = "ended"]
        /\ state' = [state EXCEPT ![t] = "eTS_None"]
     \/ /\ state[t] # "eTS_Quit"
        /\ pc' = [pc EXCEPT ![t] = "process"]
        /\ UNCHANGED state
  /\ UNCHANGED <<main, quiting, call, signals, cur, batch, queue, listen, run, seen>>

\* Frames do nothing here but bring a logic thread to a queue.  Bound: a frame
\* for a queue that a thread has, or that has packets, is not kept.
WithFrame(q) ==
  IF queue[q] # <<>> \/ Held(q) THEN queue[q] ELSE <<Packet("FRAME", 0)>>

\* One onProcess of the net thread: the frames, then its own queue.  Sends
\* to different queues by the same thread commute, so it is one step.
NetProcess ==
  /\ pc[Net] = "process"
  /\ pc' = [pc EXCEPT ![Net] = "loop"]
  /\ listen' = FALSE
  /\ \E failed \in {l \in {listen} : "listenFails" \in Faults} \cup {FALSE} :
       queue' = [q \in Queues |->
         IF failed /\ q = Global THEN Append(WithFrame(q), Packet("LISTEN_FAIL", 0))
                                 ELSE WithFrame(q)]
  /\ UNCHANGED <<main, quiting, call, signals, state, cur, batch, run, seen>>

-----------------------------------------------------------------------------
(* CLogicRunnable: onProcess and dispatch.                                 *)

Take(w, q) ==
  /\ pc[w] = "process"
  /\ queue[q] # <<>>
  /\ ~Held(q)
  /\ cur' = [cur EXCEPT ![w] = q]
  /\ batch' = [batch EXCEPT ![w] = queue[q]]
  /\ queue' = [queue EXCEPT ![q] = <<>>]
  /\ pc' = [pc EXCEPT ![w] = "dispatch"]
  /\ UNCHANGED <<main, quiting, call, signals, state, listen, run, seen>>

\* The packet w is about to dispatch, and what every case does with it
Dispatching(w, type) ==
  /\ w \in Logic
  /\ pc[w] = "dispatch"
  /\ call[w] = 0
  /\ batch[w] # <<>>
  /\ Head(batch[w]).type = type
  /\ batch' = [batch EXCEPT ![w] = Tail(@)]

\* onInit of the service succeeds; the other services of the node are told.
DispatchInit(w) ==
  LET s == cur[w] IN
  /\ Dispatching(w, "INIT")
  /\ run' = [run EXCEPT ![s] = "eSRS_Normal"]
  /\ queue' = [q \in Queues |-> IF q \in Services \ {s}
                 THEN Append(queue[q], Packet("SERVICE_CONNECT", s)) ELSE queue[q]]
  /\ UNCHANGED <<main, quiting, call, signals, state, pc, cur, listen, seen>>

DispatchInitFail(w) ==
  /\ "initFails" \in Faults
  /\ Dispatching(w, "INIT")
  /\ EnterDoQuit(w)
  /\ UNCHANGED <<main, quiting, signals, state, pc, cur, queue, listen, run, seen>>

\* the callback is set by onInit of the service; without one the event is lost
DispatchConnect(w) ==
  LET s == cur[w] IN
  /\ Dispatching(w, "SERVICE_CONNECT")
  /\ seen' = [seen EXCEPT ![s] = IF run[s] = "eSRS_Start" THEN @
                                 ELSE @ \cup {Head(batch[w]).from}]
  /\ UNCHANGED <<main, quiting, call, signals, state, pc, cur, queue, listen, run>>

DispatchFrame(w) ==
  /\ Dispatching(w, "FRAME")
  /\ UNCHANGED <<main, quiting, call, signals, state, pc, cur, queue, listen, run, seen>>

DispatchListenFail(w) ==
  /\ Dispatching(w, "LISTEN_FAIL")
  /\ EnterDoQuit(w)
  /\ UNCHANGED <<main, quiting, signals, state, pc, cur, queue, listen, run, seen>>

\* the assertion of CCoreService::quit
MayQuit(s) == run[s] = "eSRS_Normal"

DispatchQuit(w) ==
  LET s == cur[w] IN
  /\ Dispatching(w, "QUIT")
  /\ IF MayQuit(s)
       THEN /\ run' = [run EXCEPT ![s] = "eSRS_Quitting"]
            /\ pc' = [pc EXCEPT ![w] = "onQuit"]
       ELSE UNCHANGED <<run, pc>>
  /\ UNCHANGED <<main, quiting, call, signals, state, cur, queue, listen, seen>>

\* onQuit of a service ends with doQuit, which sets the state before it locks
ServiceDoQuit(w) ==
  /\ pc[w] = "onQuit"
  /\ run' = [run EXCEPT ![cur[w]] = "eSRS_Quit"]
  /\ pc' = [pc EXCEPT ![w] = "notify"]
  /\ UNCHANGED <<main, quiting, call, signals, state, cur, batch, queue, listen, seen>>

\* m_condQuit.notify_one wakes the main thread if it waits for this service
NotifyQuit(w) ==
  /\ pc[w] = "notify"
  /\ pc' = [pc EXCEPT ![w] = "dispatch"]
  /\ main' = IF main.at = "asleep" /\ main.i = cur[w]
             THEN [main EXCEPT !.at = "waitQuit"] ELSE main
  /\ UNCHANGED <<quiting, call, signals, state, cur, batch, queue, listen, run, seen>>

ProcessEnd(w) ==
  /\ pc[w] = "dispatch"
  /\ call[w] = 0
  /\ batch[w] = <<>>
  /\ cur' = [cur EXCEPT ![w] = NoQueue]
  /\ pc' = [pc EXCEPT ![w] = "loop"]
  /\ UNCHANGED <<main, quiting, call, signals, state, batch, queue, listen, run, seen>>

-----------------------------------------------------------------------------

MainStep ==
  \/ Listen \/ CreateThread \/ SendInit \/ WaitQuit \/ QuitThread
  \/ JoinThread \/ QuitNet \/ JoinNet \/ Destroy

DoQuitStep(t) == SetQuiting(t) \/ SendQuit(t)

ThreadStep(t) == ThreadStart(t) \/ ThreadLoop(t)

DispatchStep(w) ==
  \/ DispatchInit(w) \/ DispatchInitFail(w) \/ DispatchConnect(w)
  \/ DispatchFrame(w) \/ DispatchListenFail(w) \/ DispatchQuit(w)

LogicStep(w) ==
  \/ \E q \in Queues : Take(w, q)
  \/ DispatchStep(w) \/ ServiceDoQuit(w) \/ NotifyQuit(w) \/ ProcessEnd(w)

\* The process has ended.
Terminated == main.at = "end" /\ UNCHANGED vars

Next ==
  \/ MainStep
  \/ Signal
  \/ NetProcess
  \/ \E t \in Logic \cup {Main} : DoQuitStep(t)
  \/ \E t \in Threads : ThreadStep(t)
  \/ \E w \in Logic : LogicStep(w)
  \/ Terminated

\* Every thread that can run does; only the signal need not come.  A queue
\* with packets is taken in the end: the manager's list is first in, first out.
Fairness ==
  /\ WF_vars(MainStep)
  /\ WF_vars(NetProcess)
  /\ \A t \in Logic \cup {Main} : WF_vars(DoQuitStep(t))
  /\ \A t \in Threads : WF_vars(ThreadStep(t))
  /\ \A w \in Logic : WF_vars(LogicStep(w))
  /\ \A q \in Queues : SF_vars(\E w \in Logic : Take(w, q))

SafeSpec == Init /\ [][Next]_vars
Spec == SafeSpec /\ Fairness

-----------------------------------------------------------------------------
(* Properties.                                                             *)

\* Every variable has the type its declaration in the code gives it.
TypeOK ==
  /\ main \in [at : Steps, i : 1..(NLogic + NService)]
  /\ quiting \in BOOLEAN
  /\ call \in [Logic \cup {Main} -> 0..(NService + 1)]
  /\ signals \in 0..1
  /\ state \in [Threads -> {"eTS_None", "eTS_Normal", "eTS_Quit"}]
  /\ pc \in [Threads -> Stages]
  /\ cur \in [Logic -> Queues \cup {NoQueue}]
  /\ batch \in [Logic -> Seq(Packets)]
  /\ queue \in [Queues -> Seq(Packets)]
  /\ listen \in BOOLEAN
  /\ run \in [Services -> RunStates]
  /\ seen \in [Services -> SUBSET Services]

\* destroy deletes queues and services only when no thread is left that could
\* touch them, and no handler is cut short: whatever a thread took off a queue
\* it has dispatched (runAndServe).
DestroyIsLast ==
  main.at \in {"destroy", "end"} =>
    /\ \A t \in Threads : pc[t] = "ended"
    /\ \A w \in Logic : batch[w] = <<>> /\ cur[w] = NoQueue /\ call[w] = 0

\* The logic threads are told to quit only when every service has quit, so
\* no service's onQuit is skipped (runAndServe).
ServicesQuitFirst ==
  main.at \in {"quit", "join", "quitNet", "joinNet", "destroy", "end"} =>
    \A s \in Services : run[s] = "eSRS_Quit"

\* A service goes through its run states in order, one at a time, however
\* many QUIT packets two racing doQuit calls send it (CCoreService::quit).
RunStateForward ==
  [][\A s \in Services :
       <<run[s], run'[s]>> \in {<<r, r>> : r \in RunStates}
         \cup {<<"eSRS_Start", "eSRS_Normal">>, <<"eSRS_Normal", "eSRS_Quitting">>,
               <<"eSRS_Quitting", "eSRS_Quit">>}]_vars

\* Once SIGUSR1 has come the process ends, whatever the threads are doing.
ShutdownCompletes == signals = 1 ~> main.at = "end"

-----------------------------------------------------------------------------
\* Three things comments and documents say and the code does not do: TLC
\* refutes each (the README says with which constants), so no run checks them.

\* core_app.cpp:152: the logic threads can certainly quit, because the frames
\* of the net thread keep waking them.
LogicThreadsQuit == main.at = "quit" ~> main.at = "quitNet"

\* core_app.cpp:143: first the services quit.  Once doQuit has begun, they do.
ServicesQuit == quiting ~> \A s \in Services : run[s] = "eSRS_Quit"

\* A service that is running hears of every other service of the same node
\* that is (the connect callback of CServiceBase).
LocalConnectSeen ==
  \A s, r \in Services : s # r =>
    (run[s] = "eSRS_Normal" /\ run[r] = "eSRS_Normal"
       ~> r \in seen[s] \/ run[s] # "eSRS_Normal")
=============================================================================
