------------------------- MODULE LogicMessageQueue -------------------------
(***************************************************************************)
(* The scheduler of a node: one CLogicMessageQueue per service (and one    *)
(* global queue), the CLogicMessageQueueMgr list of queues that have work, *)
(* and the logic threads that run CLogicRunnable::onProcess.               *)
(*                                                                         *)
(* A critical section of one mutex is one step.  send and dispatchEnd hold *)
(* the queue's mutex across putMessageQueue, which takes the manager's     *)
(* mutex: they are two steps, and between them `putting' says which thread *)
(* holds which queue's mutex.                                              *)
(***************************************************************************)
EXTENDS Naturals, Sequences, FiniteSets

CONSTANTS Workers,  \* the logic threads
          Others,   \* the other threads that send: main thread, net thread
          Queues,   \* the message queues
          MaxSend,  \* bound: packets one thread sends
          None      \* nullptr

ASSUME SchedulerAssumption ==
  /\ IsFiniteSet(Workers)
  /\ Workers \cap Others = {}
  /\ None \notin Queues
  /\ MaxSend \in Nat

Threads == Workers \cup Others
Packets == [from : Threads, num : 1..MaxSend]

VARIABLES
  flag,     \* m_nFlag of each queue
  vec,      \* m_vecMessagePacket of each queue
  list,     \* m_listMessageQueue of the manager
  pc,       \* where each logic thread is in onProcess
  cur,      \* pMessageQueue of each logic thread
  batch,    \* the part of its m_vecMessagePacket a logic thread has left
  putting,  \* the queue a thread is enlisting, whose mutex it holds
  sent,     \* how many packets each thread has sent
  done      \* history: the packets dispatched from each queue

vars == <<flag, vec, list, pc, cur, batch, putting, sent, done>>

Flags == {"eInList", "eNotInList", "eDispatch"}

(***************************************************************************)
(* get: about to lock the manager; wait: in m_cond.wait; recv: has taken a *)
(* queue off the list; dispatch: holds its packets; handle: inside the     *)
(* handler of a packet.                                                    *)
(***************************************************************************)
Stages == {"get", "wait", "recv", "dispatch", "handle"}

Running(w) == pc[w] \in {"dispatch", "handle"}
Unlocked(q) == \A t \in Threads : putting[t] # q
Waiting == {w \in Workers : pc[w] = "wait"}
Getting == {w \in Workers : pc[w] = "get"}

Init ==
  /\ flag = [q \in Queues |-> "eNotInList"]
  /\ vec = [q \in Queues |-> <<>>]
  /\ list = <<>>
  /\ pc = [w \in Workers |-> "get"]
  /\ cur = [w \in Workers |-> None]
  /\ batch = [w \in Workers |-> <<>>]
  /\ putting = [t \in Threads |-> None]
  /\ sent = [t \in Threads |-> 0]
  /\ done = [q \in Queues |-> <<>>]

-----------------------------------------------------------------------------
(* Mutants: the same steps with a bug such code could have.                *)

\* send enlists a queue that a logic thread is dispatching
EnlistWhileDispatched(q) == flag[q] # "eInList"
\* send enlists the queue whatever its flag says
EnlistAlways(q) == TRUE
\* put without notify
NotifyNobody == UNCHANGED pc
\* dispatchEnd ignores the packets that arrived during the dispatch
DropFromList(w, q) ==
  /\ flag' = [flag EXCEPT ![q] = "eNotInList"]
  /\ UNCHANGED putting
\* recv copies the packets instead of swapping them out
CopyPackets(q) == UNCHANGED vec
\* recv gives the queue up as soon as it has its packets
GiveUpQueue(q) == flag' = [flag EXCEPT ![q] = "eNotInList"]
\* `if' instead of `while' around the wait: front() of an empty list
FrontOfEmpty(w) ==
  /\ pc' = [pc EXCEPT ![w] = "recv"]
  /\ UNCHANGED <<list, cur>>

-----------------------------------------------------------------------------
(* Steps of every thread.                                                  *)

\* send enlists the queue only when nobody has it
MustEnlist(q) == flag[q] = "eNotInList"

\* A thread sends a packet: logic threads do so from inside a handler.
Send(t, q) ==
  /\ putting[t] = None
  /\ t \in Workers => pc[t] = "handle"
  /\ Unlocked(q)
  /\ sent[t] < MaxSend
  /\ sent' = [sent EXCEPT ![t] = @ + 1]
  /\ vec' = [vec EXCEPT ![q] = Append(@, [from |-> t, num |-> sent[t] + 1])]
  /\ IF MustEnlist(q)
       THEN /\ flag' = [flag EXCEPT ![q] = "eInList"]
            /\ putting' = [putting EXCEPT ![t] = q]
       ELSE UNCHANGED <<flag, putting>>
  /\ UNCHANGED <<list, pc, cur, batch, done>>

\* m_cond.notify_one: one of the waiting threads, if any, leaves the wait.
NotifyOne ==
  \/ /\ Waiting = {}
     /\ UNCHANGED pc
  \/ \E w \in Waiting : pc' = [pc EXCEPT ![w] = "get"]

PutMessageQueue(t) ==
  /\ putting[t] # None
  /\ list' = Append(list, putting[t])
  /\ NotifyOne
  /\ putting' = [putting EXCEPT ![t] = None]
  /\ UNCHANGED <<flag, vec, cur, batch, sent, done>>

-----------------------------------------------------------------------------
(* Steps of a logic thread.                                                *)

WaitForQueue(w) ==
  /\ pc' = [pc EXCEPT ![w] = "wait"]
  /\ UNCHANGED <<list, cur>>

GetMessageQueue(w) ==
  /\ pc[w] = "get"
  /\ putting[w] = None
  /\ \/ /\ list = <<>>
        /\ WaitForQueue(w)
     \/ /\ list # <<>>
        /\ list' = Tail(list)
        /\ cur' = [cur EXCEPT ![w] = Head(list)]
        /\ pc' = [pc EXCEPT ![w] = "recv"]
  /\ UNCHANGED <<flag, vec, batch, putting, sent, done>>

\* A condition variable may wake up without a notification.
SpuriousWakeup(w) ==
  /\ pc[w] = "wait"
  /\ pc' = [pc EXCEPT ![w] = "get"]
  /\ UNCHANGED <<flag, vec, list, cur, batch, putting, sent, done>>

SwapOut(q) == vec' = [vec EXCEPT ![q] = <<>>]
MarkDispatch(q) == flag' = [flag EXCEPT ![q] = "eDispatch"]

\* recv returns without packets when DebugAst finds another flag
Recv(w) ==
  LET q == cur[w] IN
  /\ pc[w] = "recv"
  /\ Unlocked(q)
  /\ pc' = [pc EXCEPT ![w] = "dispatch"]
  /\ \/ /\ flag[q] = "eInList"
        /\ batch' = [batch EXCEPT ![w] = vec[q]]
        /\ SwapOut(q)
        /\ MarkDispatch(q)
     \/ /\ flag[q] # "eInList"
        /\ batch' = [batch EXCEPT ![w] = <<>>]
        /\ UNCHANGED <<vec, flag>>
  /\ UNCHANGED <<list, cur, putting, sent, done>>

\* The loop of onProcess hands the next packet to its handler.
Dispatch(w) ==
  /\ Running(w)
  /\ putting[w] = None
  /\ batch[w] # <<>>
  /\ pc' = [pc EXCEPT ![w] = "handle"]
  /\ done' = [done EXCEPT ![cur[w]] = Append(@, Head(batch[w]))]
  /\ batch' = [batch EXCEPT ![w] = Tail(@)]
  /\ UNCHANGED <<flag, vec, list, cur, putting, sent>>

\* dispatchEnd enlists the queue again when packets arrived meanwhile
Reenlist(w, q) ==
  \/ /\ vec[q] # <<>>
     /\ flag' = [flag EXCEPT ![q] = "eInList"]
     /\ putting' = [putting EXCEPT ![w] = q]
  \/ /\ vec[q] = <<>>
     /\ flag' = [flag EXCEPT ![q] = "eNotInList"]
     /\ UNCHANGED putting

DispatchEnd(w) ==
  LET q == cur[w] IN
  /\ Running(w)
  /\ putting[w] = None
  /\ batch[w] = <<>>
  /\ Unlocked(q)
  /\ pc' = [pc EXCEPT ![w] = "get"]
  /\ cur' = [cur EXCEPT ![w] = None]
  /\ IF flag[q] = "eDispatch" THEN Reenlist(w, q) ELSE UNCHANGED <<flag, putting>>
  /\ UNCHANGED <<vec, list, batch, sent, done>>

-----------------------------------------------------------------------------

Next ==
  \/ \E t \in Threads : PutMessageQueue(t) \/ \E q \in Queues : Send(t, q)
  \/ \E w \in Workers :
       \/ GetMessageQueue(w)
       \/ SpuriousWakeup(w)
       \/ Recv(w)
       \/ Dispatch(w)
       \/ DispatchEnd(w)

\* A thread that can go on does; nobody has to send, and handlers return.
Fairness ==
  /\ \A t \in Threads : WF_vars(PutMessageQueue(t))
  /\ \A w \in Workers :
       /\ WF_vars(GetMessageQueue(w))
       /\ WF_vars(Recv(w))
       /\ WF_vars(Dispatch(w))
       /\ WF_vars(DispatchEnd(w))

SafeSpec == Init /\ [][Next]_vars
Spec == SafeSpec /\ Fairness

-----------------------------------------------------------------------------
(* Properties.                                                             *)

\* Every variable has the type its declaration in the code gives it, and a
\* logic thread has a queue exactly from getMessageQueue to dispatchEnd.
TypeOK ==
  /\ flag \in [Queues -> Flags]
  /\ vec \in [Queues -> Seq(Packets)]
  /\ list \in Seq(Queues)
  /\ pc \in [Workers -> Stages]
  /\ cur \in [Workers -> Queues \cup {None}]
  /\ batch \in [Workers -> Seq(Packets)]
  /\ putting \in [Threads -> Queues \cup {None}]
  /\ sent \in [Threads -> 0..MaxSend]
  /\ done \in [Queues -> Seq(Packets)]
  /\ \A w \in Workers : cur[w] = None <=> pc[w] \in {"get", "wait"}

\* Two logic threads never run handlers of the same service at once: the
\* services need no locks because of this (logic_message_queue.cpp).
ServiceSerial ==
  \A v, w \in Workers : Running(v) /\ Running(w) /\ cur[v] = cur[w] => v = w

\* A queue is in one place only: once on the list, or in the hands of one
\* thread that is enlisting it, or of one that has just taken it.
EnlistedOnce ==
  /\ \A i, j \in DOMAIN list : list[i] = list[j] => i = j
  /\ \A t \in Threads, i \in DOMAIN list : putting[t] # list[i]
  /\ \A t, u \in Threads : putting[t] = putting[u] => t = u \/ putting[t] = None
  /\ \A w \in Workers : pc[w] = "recv" =>
       /\ \A i \in DOMAIN list : list[i] # cur[w]
       /\ \A t \in Threads : putting[t] # cur[w]
       /\ \A v \in Workers : pc[v] = "recv" /\ cur[v] = cur[w] => v = w

\* m_nFlag tells the truth about where its queue is, so the DebugAst of recv
\* and of dispatchEnd never fire, and a queue with packets is scheduled.
FlagTruthful ==
  \A q \in Queues :
    /\ flag[q] = "eInList" <=> \/ \E i \in DOMAIN list : list[i] = q
                               \/ \E t \in Threads : putting[t] = q
                               \/ \E w \in Workers : pc[w] = "recv" /\ cur[w] = q
    /\ flag[q] = "eDispatch" <=> \E w \in Workers : Running(w) /\ cur[w] = q
    /\ vec[q] # <<>> => flag[q] # "eNotInList"

\* A queue with packets is on the list or on its way there, or a logic
\* thread holds it and will look at it again: no packet is stranded.
NoStranded ==
  \A q \in Queues : vec[q] # <<>> =>
    \/ \E i \in DOMAIN list : list[i] = q
    \/ \E t \in Threads : putting[t] = q
    \/ \E w \in Workers : cur[w] = q

\* Work never waits for a sleeping thread: while some logic thread sleeps in
\* getMessageQueue, at least as many threads are on their way to the list as
\* there are queues on it.  This is why one notify_one per put is enough.
WorkersWake == Waiting # {} => Len(list) <= Cardinality(Getting)

\* The queue as its users see it: ServiceMailbox, where the packets a thread
\* has taken but not yet dispatched are still in the mailbox.
Holders(q) == {w \in Workers : Running(w) /\ cur[w] = q}
Taken(q) == IF Holders(q) = {} THEN <<>> ELSE batch[CHOOSE w \in Holders(q) : TRUE]
Mailbox == INSTANCE ServiceMailbox
  WITH mailbox <- [q \in Queues |-> Taken(q) \o vec[q]]

\* Every service sees its packets in sending order, exactly once, and every
\* packet sent is dispatched in the end (refinement, with liveness).
MailboxSpec == Mailbox!Spec
=============================================================================
