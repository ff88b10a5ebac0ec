---------------------- MODULE LogicMessageQueueProofs ----------------------
(***************************************************************************)
(* The safety properties of the scheduler, for any number of logic         *)
(* threads, services and packets.                                          *)
(***************************************************************************)
EXTENDS LogicMessageQueue, FiniteSetTheorems, SequenceTheorems, TLAPS

\* The inductive invariant: mutual exclusion needs both that a queue is in
\* one place only and that its flag says which.
Inv == TypeOK /\ EnlistedOnce /\ FlagTruthful /\ ServiceSerial

\* The logic threads are threads.
LEMMA WorkersAreThreads == Workers \subseteq Threads
BY DEF Threads

\* The scheduler starts with empty queues that nobody holds (constructors of
\* CLogicMessageQueue and CLogicMessageQueueMgr).
LEMMA InitInv == Init => Inv
<1> SUFFICES ASSUME Init PROVE Inv
  OBVIOUS
<1> USE SchedulerAssumption DEF Init
<1>1. TypeOK
  BY DEF TypeOK, Flags, Stages
<1>2. EnlistedOnce
  BY DEF EnlistedOnce
<1>3. FlagTruthful
  BY DEF FlagTruthful, Running
<1>4. ServiceSerial
  BY DEF ServiceSerial, Running
<1> QED
  BY <1>1, <1>2, <1>3, <1>4 DEF Inv

\* Every step keeps the types.
LEMMA StepType == TypeOK /\ [Next]_vars => TypeOK'
<1> SUFFICES ASSUME TypeOK, [Next]_vars PROVE TypeOK'
  OBVIOUS
<1>1. ASSUME NEW t \in Threads, NEW q \in Queues, Send(t, q) PROVE TypeOK'
  <2>1. sent[t] \in 0..MaxSend /\ sent[t] < MaxSend /\ MaxSend \in Nat
    BY <1>1, SchedulerAssumption DEF Send, TypeOK
  <2>2. [from |-> t, num |-> sent[t] + 1] \in Packets
    BY <2>1 DEF Packets
  <2>3. vec' \in [Queues -> Seq(Packets)]
    BY <1>1, <2>2 DEF Send, TypeOK
  <2>4. sent' \in [Threads -> 0..MaxSend]
    BY <1>1, <2>1 DEF Send, TypeOK
  <2>5. flag' \in [Queues -> Flags]
    BY <1>1 DEF Send, TypeOK, Flags
  <2>6. putting' \in [Threads -> Queues \cup {None}]
    BY <1>1 DEF Send, TypeOK
  <2> QED
    BY <1>1, <2>3, <2>4, <2>5, <2>6 DEF Send, TypeOK
<1>2. ASSUME NEW t \in Threads, PutMessageQueue(t) PROVE TypeOK'
  <2>1. pc' \in [Workers -> Stages]
    BY <1>2 DEF PutMessageQueue, NotifyOne, TypeOK, Stages
  <2>2. \A w \in Workers : pc'[w] \in {"get", "wait"} <=> pc[w] \in {"get", "wait"}
    BY <1>2 DEF PutMessageQueue, NotifyOne, Waiting, TypeOK
  <2>3. list' \in Seq(Queues)
    BY <1>2 DEF PutMessageQueue, TypeOK
  <2>4. putting' \in [Threads -> Queues \cup {None}]
    BY <1>2 DEF PutMessageQueue, TypeOK
  <2> QED
    BY <1>2, <2>1, <2>2, <2>3, <2>4 DEF PutMessageQueue, TypeOK
<1>3. ASSUME NEW w \in Workers, GetMessageQueue(w) PROVE TypeOK'
  <2>1. CASE list = <<>>
    <3>1. pc' = [pc EXCEPT ![w] = "wait"] /\ UNCHANGED <<list, cur>> /\ pc[w] = "get"
      BY <1>3, <2>1 DEF GetMessageQueue, WaitForQueue
    <3> QED
      BY <1>3, <3>1 DEF GetMessageQueue, TypeOK, Stages
  <2>2. CASE list # <<>>
    <3>1. Head(list) \in Queues /\ Tail(list) \in Seq(Queues)
      BY <2>2 DEF TypeOK
    <3>2. /\ list' = Tail(list)
          /\ cur' = [cur EXCEPT ![w] = Head(list)]
          /\ pc' = [pc EXCEPT ![w] = "recv"]
      BY <1>3, <2>2 DEF GetMessageQueue
    <3>3. pc' \in [Workers -> Stages] /\ cur' \in [Workers -> Queues \cup {None}]
      BY <3>1, <3>2 DEF TypeOK, Stages
    <3>4. \A v \in Workers : cur'[v] = None <=> pc'[v] \in {"get", "wait"}
      BY <3>1, <3>2, SchedulerAssumption DEF TypeOK
    <3> QED
      BY <1>3, <3>1, <3>2, <3>3, <3>4 DEF GetMessageQueue, TypeOK
  <2> QED
    BY <2>1, <2>2
<1>4. ASSUME NEW w \in Workers, SpuriousWakeup(w) PROVE TypeOK'
  BY <1>4 DEF SpuriousWakeup, TypeOK, Stages
<1>5. ASSUME NEW w \in Workers, Recv(w) PROVE TypeOK'
  <2>1. cur[w] \in Queues
    BY <1>5 DEF Recv, TypeOK
  <2>a. \/ /\ batch' = [batch EXCEPT ![w] = vec[cur[w]]]
           /\ vec' = [vec EXCEPT ![cur[w]] = <<>>]
           /\ flag' = [flag EXCEPT ![cur[w]] = "eDispatch"]
        \/ batch' = [batch EXCEPT ![w] = <<>>] /\ UNCHANGED <<vec, flag>>
    BY <1>5 DEF Recv, SwapOut, MarkDispatch
  <2>b. <<>> \in Seq(Packets) /\ vec[cur[w]] \in Seq(Packets)
    BY <2>1 DEF TypeOK
  <2>2. flag' \in [Queues -> Flags]
    BY <2>a DEF TypeOK, Flags
  <2>3. vec' \in [Queues -> Seq(Packets)]
    <3> DEFINE S == Seq(Packets)
               e == <<>>
    <3>1. vec \in [Queues -> S] /\ e \in S /\ (vec' = vec \/ vec' = [vec EXCEPT ![cur[w]] = e])
      BY <2>a, <2>b DEF TypeOK
    <3> HIDE DEF S, e
    <3>2. vec' \in [Queues -> S]
      BY <3>1
    <3> QED
      BY <3>2 DEF S
  <2>4. batch' \in [Workers -> Seq(Packets)]
    <3> DEFINE S == Seq(Packets)
               e == <<>>
    <3>1. /\ batch \in [Workers -> S] /\ e \in S /\ vec[cur[w]] \in S
          /\ batch' = [batch EXCEPT ![w] = vec[cur[w]]] \/ batch' = [batch EXCEPT ![w] = e]
      BY <2>a, <2>b DEF TypeOK
    <3> HIDE DEF S, e
    <3>2. batch' \in [Workers -> S]
      BY <3>1
    <3> QED
      BY <3>2 DEF S
  <2>5. pc' = [pc EXCEPT ![w] = "dispatch"] /\ pc[w] = "recv"
    BY <1>5 DEF Recv
  <2> QED
    BY <1>5, <2>2, <2>3, <2>4, <2>5 DEF Recv, TypeOK, Stages
<1>6. ASSUME NEW w \in Workers, Dispatch(w) PROVE TypeOK'
  <2>1. cur[w] \in Queues
    BY <1>6 DEF Dispatch, Running, TypeOK
  <2>2. Head(batch[w]) \in Packets /\ Tail(batch[w]) \in Seq(Packets)
    BY <1>6 DEF Dispatch, TypeOK
  <2>3. done' \in [Queues -> Seq(Packets)]
    BY <1>6, <2>1, <2>2 DEF Dispatch, TypeOK
  <2>4. batch' \in [Workers -> Seq(Packets)]
    BY <1>6, <2>2 DEF Dispatch, TypeOK
  <2> QED
    BY <1>6, <2>3, <2>4 DEF Dispatch, Running, TypeOK, Stages
<1>7. ASSUME NEW w \in Workers, DispatchEnd(w) PROVE TypeOK'
  <2>1. cur[w] \in Queues
    BY <1>7 DEF DispatchEnd, Running, TypeOK
  <2>a. /\ \/ flag' = flag
           \/ flag' = [flag EXCEPT ![cur[w]] = "eInList"]
           \/ flag' = [flag EXCEPT ![cur[w]] = "eNotInList"]
        /\ putting' = putting \/ putting' = [putting EXCEPT ![w] = cur[w]]
    BY <1>7 DEF DispatchEnd, Reenlist
  <2>2. flag' \in [Queues -> Flags]
    BY <2>a DEF TypeOK, Flags
  <2>3. putting' \in [Threads -> Queues \cup {None}]
    BY <2>a DEF TypeOK
  <2>4. pc' = [pc EXCEPT ![w] = "get"] /\ cur' = [cur EXCEPT ![w] = None]
    BY <1>7 DEF DispatchEnd
  <2>5. pc' \in [Workers -> Stages] /\ cur' \in [Workers -> Queues \cup {None}]
    BY <2>4 DEF TypeOK, Stages
  <2>6. \A v \in Workers : cur'[v] = None <=> pc'[v] \in {"get", "wait"}
    BY <2>4 DEF TypeOK
  <2> QED
    BY <1>7, <2>2, <2>3, <2>5, <2>6 DEF DispatchEnd, TypeOK
<1>8. ASSUME UNCHANGED vars PROVE TypeOK'
  BY <1>8 DEF vars, TypeOK
<1> QED
  BY <1>1, <1>2, <1>3, <1>4, <1>5, <1>6, <1>7, <1>8 DEF Next

\* The scheduler's variables keep their types.
THEOREM TypeCorrect == SafeSpec => []TypeOK
<1>1. Init => TypeOK
  BY InitInv DEF Inv
<1> QED
  BY <1>1, StepType, PTL DEF SafeSpec

-----------------------------------------------------------------------------
(* Mutual exclusion.                                                       *)

\* A packet is sent: the sender takes the queue only when nobody has it.
LEMMA SendInv ==
  ASSUME Inv, NEW t \in Threads, NEW q \in Queues, Send(t, q), TypeOK'
  PROVE  Inv'
<1> USE DEF Inv
<1>1. q # None
  BY SchedulerAssumption
<1>2. UNCHANGED <<list, pc, cur>>
  BY DEF Send
<1>3. CASE flag[q] = "eNotInList"
  <2>1. /\ flag' = [flag EXCEPT ![q] = "eInList"]
        /\ putting' = [putting EXCEPT ![t] = q]
    BY <1>3 DEF Send, MustEnlist
  <2>2. /\ \A i \in DOMAIN list : list[i] # q
        /\ \A u \in Threads : putting[u] # q
        /\ \A w \in Workers : pc[w] = "recv" => cur[w] # q
    BY <1>3 DEF FlagTruthful
  <2>3. putting[t] = None
    BY DEF Send
  <2>4. EnlistedOnce'
    BY <1>1, <1>2, <2>1, <2>2, <2>3 DEF EnlistedOnce, TypeOK
  <2>5. FlagTruthful'
    <3>1. /\ flag'[q] = "eInList" /\ \A r \in Queues : r # q => flag'[r] = flag[r] /\ vec'[r] = vec[r]
          /\ putting'[t] = q /\ \A u \in Threads : u # t => putting'[u] = putting[u]
      BY <2>1 DEF Send, TypeOK
    <3> SUFFICES ASSUME NEW r \in Queues
        PROVE /\ flag'[r] = "eInList" <=>
                   \/ \E i \in DOMAIN list : list[i] = r
                   \/ \E u \in Threads : putting'[u] = r
                   \/ \E w \in Workers : pc[w] = "recv" /\ cur[w] = r
              /\ flag'[r] = "eDispatch" <=> \E w \in Workers : Running(w) /\ cur[w] = r
              /\ vec'[r] # <<>> => flag'[r] # "eNotInList"
      BY <1>2 DEF FlagTruthful, Running
    <3>2. CASE r = q
      <4>1. ~\E w \in Workers : Running(w) /\ cur[w] = q
        BY <1>3 DEF FlagTruthful
      <4> QED
        BY <3>1, <3>2, <4>1
    <3>3. CASE r # q
      <4>1. (\E u \in Threads : putting'[u] = r) <=> \E u \in Threads : putting[u] = r
        BY <2>3, <3>1, <3>3, SchedulerAssumption
      <4> QED
        BY <3>1, <3>3, <4>1 DEF FlagTruthful
    <3> QED
      BY <3>2, <3>3
  <2>6. ServiceSerial'
    BY <1>2 DEF ServiceSerial, Running
  <2> QED
    BY <2>4, <2>5, <2>6
<1>4. CASE flag[q] # "eNotInList"
  <2>1. UNCHANGED <<flag, putting>>
    BY <1>4 DEF Send, MustEnlist
  <2>2. \A r \in Queues : vec'[r] # <<>> => flag[r] # "eNotInList"
    <3>1. \A r \in Queues : r # q => vec'[r] = vec[r]
      BY DEF Send, TypeOK
    <3> QED
      BY <1>4, <3>1 DEF FlagTruthful
  <2>3. FlagTruthful'
    BY <1>2, <2>1, <2>2 DEF FlagTruthful, Running
  <2> QED
    BY <1>2, <2>1, <2>3 DEF EnlistedOnce, ServiceSerial, Running
<1> QED
  BY <1>3, <1>4

\* What push_back does to a list.
LEMMA Appended ==
  ASSUME NEW S, NEW s \in Seq(S), NEW e \in S
  PROVE  /\ Len(s) \in Nat
         /\ DOMAIN s = 1..Len(s)
         /\ DOMAIN Append(s, e) = 1..(Len(s) + 1)
         /\ Append(s, e)[Len(s) + 1] = e
         /\ \A i \in DOMAIN s : Append(s, e)[i] = s[i]
OBVIOUS

\* The queue goes from the enlisting thread to the list.
LEMMA PutInv ==
  ASSUME Inv, NEW t \in Threads, PutMessageQueue(t), TypeOK'
  PROVE  Inv'
<1> USE DEF Inv
<1>1. PICK q \in Queues : putting[t] = q
  BY DEF PutMessageQueue, TypeOK
<1>2. /\ list' = Append(list, q)
      /\ putting' = [putting EXCEPT ![t] = None]
      /\ UNCHANGED <<flag, vec, cur>>
  BY <1>1 DEF PutMessageQueue
<1>3. /\ DOMAIN list' = 1..(Len(list) + 1)
      /\ DOMAIN list = 1..Len(list)
      /\ Len(list) \in Nat
      /\ list'[Len(list) + 1] = q
      /\ \A i \in DOMAIN list : list'[i] = list[i]
  <2>1. list \in Seq(Queues)
    BY DEF TypeOK
  <2> QED
    BY <1>2, <2>1, Appended
<1>4. \A w \in Workers : /\ pc'[w] = "recv" <=> pc[w] = "recv"
                         /\ Running(w)' <=> Running(w)
  BY DEF PutMessageQueue, NotifyOne, Waiting, Running, TypeOK
<1>5. /\ \A i \in DOMAIN list : list[i] # q
      /\ \A u \in Threads : putting[u] = q => u = t
      /\ \A w \in Workers : pc[w] = "recv" => cur[w] # q
      /\ q # None
  BY <1>1, SchedulerAssumption DEF EnlistedOnce
<1>6. \A u \in Threads : putting'[u] = IF u = t THEN None ELSE putting[u]
  BY <1>2 DEF TypeOK
<1>7. \A i \in DOMAIN list : list[i] # None
  BY SchedulerAssumption DEF TypeOK
<1>8. EnlistedOnce'
  <2>1. \A i, j \in DOMAIN list' : list'[i] = list'[j] => i = j
    BY <1>3, <1>5 DEF EnlistedOnce
  <2>2. \A u \in Threads, i \in DOMAIN list' : putting'[u] # list'[i]
    BY <1>3, <1>5, <1>6, <1>7 DEF EnlistedOnce
  <2>3. \A u, v \in Threads : putting'[u] = putting'[v] => u = v \/ putting'[u] = None
    BY <1>6 DEF EnlistedOnce
  <2>4. ASSUME NEW w \in Workers, pc'[w] = "recv"
        PROVE  /\ \A i \in DOMAIN list' : list'[i] # cur'[w]
               /\ \A u \in Threads : putting'[u] # cur'[w]
               /\ \A v \in Workers : pc'[v] = "recv" /\ cur'[v] = cur'[w] => v = w
    <3>1. pc[w] = "recv" /\ cur[w] # None /\ cur' = cur
      BY <1>2, <1>4, <2>4 DEF TypeOK
    <3> QED
      BY <1>3, <1>4, <1>5, <1>6, <3>1 DEF EnlistedOnce
  <2> QED
    BY <2>1, <2>2, <2>3, <2>4 DEF EnlistedOnce
<1>9. FlagTruthful'
  <2> SUFFICES ASSUME NEW r \in Queues
      PROVE /\ flag[r] = "eInList" <=>
                 \/ \E i \in DOMAIN list' : list'[i] = r
                 \/ \E u \in Threads : putting'[u] = r
                 \/ \E w \in Workers : pc'[w] = "recv" /\ cur[w] = r
            /\ flag[r] = "eDispatch" <=> \E w \in Workers : Running(w)' /\ cur[w] = r
            /\ vec[r] # <<>> => flag[r] # "eNotInList"
    BY <1>2 DEF FlagTruthful
  <2>1. (\E i \in DOMAIN list' : list'[i] = r) <=> r = q \/ \E i \in DOMAIN list : list[i] = r
    BY <1>3
  <2>2. (\E u \in Threads : putting'[u] = r) <=> r # q /\ \E u \in Threads : putting[u] = r
    BY <1>1, <1>5, <1>6, SchedulerAssumption
  <2> QED
    BY <1>1, <1>4, <2>1, <2>2 DEF FlagTruthful
<1>10. ServiceSerial'
  BY <1>2, <1>4 DEF ServiceSerial
<1> QED
  BY <1>8, <1>9, <1>10

\* A logic thread takes the first queue off the list, or goes to sleep.
LEMMA GetInv ==
  ASSUME Inv, NEW w \in Workers, GetMessageQueue(w), TypeOK'
  PROVE  Inv'
<1> USE DEF Inv
<1>1. CASE list = <<>>
  <2>1. pc[w] = "get" /\ pc' = [pc EXCEPT ![w] = "wait"] /\ UNCHANGED <<flag, vec, list, cur, putting>>
    BY <1>1 DEF GetMessageQueue, WaitForQueue
  <2>2. \A v \in Workers : (pc'[v] = "recv" <=> pc[v] = "recv") /\ (Running(v)' <=> Running(v))
    BY <2>1 DEF Running, TypeOK
  <2> QED
    BY <2>1, <2>2 DEF EnlistedOnce, FlagTruthful, ServiceSerial
<1>2. CASE list # <<>>
  <2> DEFINE q == Head(list)
  <2>1. /\ pc[w] = "get"
        /\ list' = Tail(list)
        /\ cur' = [cur EXCEPT ![w] = q]
        /\ pc' = [pc EXCEPT ![w] = "recv"]
        /\ UNCHANGED <<flag, vec, putting>>
    BY <1>2 DEF GetMessageQueue
  <2>2. /\ Len(list) \in Nat \ {0}
        /\ DOMAIN list = 1..Len(list)
        /\ q = list[1] /\ q \in Queues
        /\ DOMAIN list' = 1..(Len(list) - 1)
        /\ \A i \in DOMAIN list' : list'[i] = list[i + 1]
    BY <1>2, <2>1 DEF TypeOK
  <2>3. /\ \A i \in DOMAIN list' : list'[i] # q
        /\ \A t \in Threads : putting[t] # q
        /\ \A v \in Workers : pc[v] = "recv" => cur[v] # q
    BY <2>2 DEF EnlistedOnce
  <2>4. /\ cur'[w] = q /\ pc'[w] = "recv" /\ ~Running(w)' /\ ~Running(w)
        /\ \A v \in Workers : v # w =>
             /\ cur'[v] = cur[v]
             /\ pc'[v] = pc[v]
             /\ Running(v)' <=> Running(v)
    BY <2>1 DEF Running, TypeOK
  <2> HIDE DEF q
  <2>5. EnlistedOnce'
    <3>1. \A i, j \in DOMAIN list' : list'[i] = list'[j] => i = j
      BY <2>2 DEF EnlistedOnce
    <3>2. \A t \in Threads, i \in DOMAIN list' : putting'[t] # list'[i]
      BY <2>1, <2>2 DEF EnlistedOnce
    <3>3. \A t, u \in Threads : putting'[t] = putting'[u] => t = u \/ putting'[t] = None
      BY <2>1 DEF EnlistedOnce
    <3>4. ASSUME NEW v \in Workers, pc'[v] = "recv"
          PROVE  /\ \A i \in DOMAIN list' : list'[i] # cur'[v]
                 /\ \A t \in Threads : putting'[t] # cur'[v]
                 /\ \A u \in Workers : pc'[u] = "recv" /\ cur'[u] = cur'[v] => u = v
      <4>1. CASE v = w
        BY <2>1, <2>3, <2>4, <4>1
      <4>2. CASE v # w
        BY <2>1, <2>2, <2>3, <2>4, <3>4, <4>2 DEF EnlistedOnce
      <4> QED
        BY <4>1, <4>2
    <3> QED
      BY <3>1, <3>2, <3>3, <3>4 DEF EnlistedOnce
  <2>6. FlagTruthful'
    <3> SUFFICES ASSUME NEW r \in Queues
        PROVE /\ flag[r] = "eInList" <=>
                   \/ \E i \in DOMAIN list' : list'[i] = r
                   \/ \E t \in Threads : putting[t] = r
                   \/ \E v \in Workers : pc'[v] = "recv" /\ cur'[v] = r
              /\ flag[r] = "eDispatch" <=> \E v \in Workers : Running(v)' /\ cur'[v] = r
              /\ vec[r] # <<>> => flag[r] # "eNotInList"
      BY <2>1 DEF FlagTruthful
    <3>1. (\E i \in DOMAIN list : list[i] = r) <=> r = q \/ \E i \in DOMAIN list' : list'[i] = r
      <4>1. ASSUME NEW i \in DOMAIN list, list[i] = r, r # q
            PROVE  \E j \in DOMAIN list' : list'[j] = r
        <5>1. i - 1 \in DOMAIN list' /\ list'[i - 1] = list[(i - 1) + 1] /\ (i - 1) + 1 = i
          BY <2>2, <4>1
        <5> QED
          BY <4>1, <5>1
      <4>2. ASSUME NEW j \in DOMAIN list', list'[j] = r
            PROVE  \E i \in DOMAIN list : list[i] = r
        BY <2>2, <4>2
      <4> QED
        BY <2>2, <4>1, <4>2
    <3>2. (\E v \in Workers : pc'[v] = "recv" /\ cur'[v] = r)
            <=> r = q \/ \E v \in Workers : pc[v] = "recv" /\ cur[v] = r
      BY <2>1, <2>4
    <3>3. (\E v \in Workers : Running(v)' /\ cur'[v] = r) <=> \E v \in Workers : Running(v) /\ cur[v] = r
      BY <2>4
    <3> QED
      BY <3>1, <3>2, <3>3 DEF FlagTruthful
  <2>7. ServiceSerial'
    BY <2>4 DEF ServiceSerial
  <2> QED
    BY <2>5, <2>6, <2>7
<1> QED
  BY <1>1, <1>2

\* The thread that took the queue marks it as being dispatched.
LEMMA RecvInv ==
  ASSUME Inv, NEW w \in Workers, Recv(w), TypeOK'
  PROVE  Inv'
<1> USE DEF Inv
<1> DEFINE q == cur[w]
<1>1. pc[w] = "recv" /\ q \in Queues /\ flag[q] = "eInList"
  BY DEF Recv, FlagTruthful, TypeOK
<1>2. /\ pc' = [pc EXCEPT ![w] = "dispatch"]
      /\ vec' = [vec EXCEPT ![q] = <<>>]
      /\ flag' = [flag EXCEPT ![q] = "eDispatch"]
      /\ UNCHANGED <<list, cur, putting>>
  BY <1>1 DEF Recv, SwapOut, MarkDispatch
<1>3. /\ \A i \in DOMAIN list : list[i] # q
      /\ \A t \in Threads : putting[t] # q
      /\ \A v \in Workers : pc[v] = "recv" /\ cur[v] = q => v = w
      /\ \A v \in Workers : Running(v) => cur[v] # q
  BY <1>1 DEF EnlistedOnce, FlagTruthful
<1>4. /\ pc'[w] = "dispatch" /\ Running(w)' /\ ~Running(w)
      /\ \A v \in Workers : v # w => pc'[v] = pc[v] /\ (Running(v)' <=> Running(v))
  BY <1>1, <1>2 DEF Running, TypeOK
<1>5. EnlistedOnce'
  BY <1>2, <1>4 DEF EnlistedOnce
<1>6. FlagTruthful'
  <2> SUFFICES ASSUME NEW r \in Queues
      PROVE /\ flag'[r] = "eInList" <=>
                 \/ \E i \in DOMAIN list : list[i] = r
                 \/ \E t \in Threads : putting[t] = r
                 \/ \E v \in Workers : pc'[v] = "recv" /\ cur[v] = r
            /\ flag'[r] = "eDispatch" <=> \E v \in Workers : Running(v)' /\ cur[v] = r
            /\ vec'[r] # <<>> => flag'[r] # "eNotInList"
    BY <1>2 DEF FlagTruthful
  <2> HIDE DEF q
  <2>1. CASE r = q
    <3>1. flag'[r] = "eDispatch"
      BY <1>2, <2>1 DEF TypeOK
    <3> QED
      BY <1>3, <1>4, <2>1, <3>1 DEF q
  <2>2. CASE r # q
    <3>1. flag'[r] = flag[r] /\ vec'[r] = vec[r]
      BY <1>2, <2>2 DEF TypeOK
    <3>2. (\E v \in Workers : pc'[v] = "recv" /\ cur[v] = r) <=> \E v \in Workers : pc[v] = "recv" /\ cur[v] = r
      BY <1>4, <2>2 DEF q
    <3>3. (\E v \in Workers : Running(v)' /\ cur[v] = r) <=> \E v \in Workers : Running(v) /\ cur[v] = r
      BY <1>4, <2>2 DEF q
    <3> QED
      BY <3>1, <3>2, <3>3 DEF FlagTruthful
  <2> QED
    BY <2>1, <2>2
<1>7. ServiceSerial'
  BY <1>2, <1>3, <1>4 DEF ServiceSerial
<1> QED
  BY <1>5, <1>6, <1>7

\* The thread that dispatched the queue enlists it again or lets it go.
LEMMA DispatchEndInv ==
  ASSUME Inv, NEW w \in Workers, DispatchEnd(w), TypeOK'
  PROVE  Inv'
<1> USE DEF Inv
<1> DEFINE q == cur[w]
<1>0. Running(w) /\ putting[w] = None
  BY DEF DispatchEnd
<1>1. q \in Queues /\ flag[q] = "eDispatch"
  <2>1. cur[w] # None /\ cur[w] \in Queues \cup {None}
    BY <1>0 DEF TypeOK, Running
  <2> QED
    BY <1>0, <2>1 DEF FlagTruthful
<1>2. /\ pc' = [pc EXCEPT ![w] = "get"]
      /\ cur' = [cur EXCEPT ![w] = None]
      /\ UNCHANGED <<list, vec>>
      /\ \/ /\ vec[q] # <<>>
            /\ flag' = [flag EXCEPT ![q] = "eInList"]
            /\ putting' = [putting EXCEPT ![w] = q]
         \/ /\ vec[q] = <<>>
            /\ flag' = [flag EXCEPT ![q] = "eNotInList"]
            /\ putting' = putting
  BY <1>1 DEF DispatchEnd, Reenlist
<1>3. /\ \A i \in DOMAIN list : list[i] # q
      /\ \A t \in Threads : putting[t] # q
      /\ \A v \in Workers : pc[v] = "recv" => cur[v] # q
      /\ \A v \in Workers : Running(v) /\ cur[v] = q => v = w
  BY <1>0, <1>1 DEF FlagTruthful, ServiceSerial
<1>4. /\ ~Running(w)' /\ pc'[w] = "get" /\ pc[w] # "recv"
      /\ \A v \in Workers : v # w => pc'[v] = pc[v] /\ cur'[v] = cur[v] /\ (Running(v)' <=> Running(v))
  BY <1>0, <1>2 DEF Running, TypeOK
<1>5. q # None /\ w \in Threads
  BY <1>1, SchedulerAssumption, WorkersAreThreads
<1>6. /\ \A t \in Threads : t # w => putting'[t] = putting[t]
      /\ putting'[w] = IF vec[q] # <<>> THEN q ELSE None
      /\ flag'[q] = IF vec[q] # <<>> THEN "eInList" ELSE "eNotInList"
      /\ \A r \in Queues : r # q => flag'[r] = flag[r]
  BY <1>0, <1>1, <1>2, <1>5 DEF TypeOK
<1> HIDE DEF q
<1>7. EnlistedOnce'
  <2>1. \A t \in Threads, i \in DOMAIN list : putting'[t] # list[i]
    <3>1. \A i \in DOMAIN list : list[i] # None
      BY SchedulerAssumption DEF TypeOK
    <3> QED
      BY <1>3, <1>6, <3>1 DEF EnlistedOnce
  <2>2. \A t, u \in Threads : putting'[t] = putting'[u] => t = u \/ putting'[t] = None
    BY <1>3, <1>5, <1>6 DEF EnlistedOnce
  <2>3. ASSUME NEW v \in Workers, pc'[v] = "recv"
        PROVE  /\ \A i \in DOMAIN list : list[i] # cur'[v]
               /\ \A t \in Threads : putting'[t] # cur'[v]
               /\ \A u \in Workers : pc'[u] = "recv" /\ cur'[u] = cur'[v] => u = v
    <3>1. v # w /\ pc[v] = "recv" /\ cur'[v] = cur[v] /\ cur[v] # None /\ cur[v] # q
      BY <1>3, <1>4, <2>3 DEF TypeOK
    <3> QED
      BY <1>4, <1>6, <3>1 DEF EnlistedOnce
  <2> QED
    BY <1>2, <2>1, <2>2, <2>3 DEF EnlistedOnce
<1>8. FlagTruthful'
  <2> SUFFICES ASSUME NEW r \in Queues
      PROVE /\ flag'[r] = "eInList" <=>
                 \/ \E i \in DOMAIN list : list[i] = r
                 \/ \E t \in Threads : putting'[t] = r
                 \/ \E v \in Workers : pc'[v] = "recv" /\ cur'[v] = r
            /\ flag'[r] = "eDispatch" <=> \E v \in Workers : Running(v)' /\ cur'[v] = r
            /\ vec[r] # <<>> => flag'[r] # "eNotInList"
    BY <1>2 DEF FlagTruthful
  <2>1. (\E v \in Workers : pc'[v] = "recv" /\ cur'[v] = r) <=> \E v \in Workers : pc[v] = "recv" /\ cur[v] = r
    BY <1>4
  <2>2. (\E v \in Workers : Running(v)' /\ cur'[v] = r) <=> r # q /\ \E v \in Workers : Running(v) /\ cur[v] = r
    BY <1>3, <1>4 DEF q
  <2>3. CASE r = q
    BY <1>3, <1>5, <1>6, <2>1, <2>2, <2>3
  <2>4. CASE r # q
    <3>1. (\E t \in Threads : putting'[t] = r) <=> \E t \in Threads : putting[t] = r
      BY <1>0, <1>5, <1>6, <2>4, SchedulerAssumption
    <3> QED
      BY <1>6, <2>1, <2>2, <2>4, <3>1 DEF FlagTruthful
  <2> QED
    BY <2>3, <2>4
<1>9. ServiceSerial'
  BY <1>4 DEF ServiceSerial
<1> QED
  BY <1>7, <1>8, <1>9

\* Every step of every thread keeps the inductive invariant.
LEMMA StepInv == Inv /\ [Next]_vars => Inv'
<1> SUFFICES ASSUME Inv, [Next]_vars PROVE Inv'
  OBVIOUS
<1>0. TypeOK'
  BY StepType DEF Inv
<1>1. ASSUME NEW t \in Threads, NEW q \in Queues, Send(t, q) PROVE Inv'
  BY <1>0, <1>1, SendInv
<1>2. ASSUME NEW t \in Threads, PutMessageQueue(t) PROVE Inv'
  BY <1>0, <1>2, PutInv
<1>3. ASSUME NEW w \in Workers, GetMessageQueue(w) PROVE Inv'
  BY <1>0, <1>3, GetInv
<1>4. ASSUME NEW w \in Workers, SpuriousWakeup(w) PROVE Inv'
  <2>1. \A v \in Workers : (pc'[v] = "recv" <=> pc[v] = "recv") /\ (Running(v)' <=> Running(v))
    BY <1>4 DEF SpuriousWakeup, Running, Inv, TypeOK
  <2> QED
    BY <1>0, <1>4, <2>1 DEF SpuriousWakeup, Inv, EnlistedOnce, FlagTruthful, ServiceSerial
<1>5. ASSUME NEW w \in Workers, Recv(w) PROVE Inv'
  BY <1>0, <1>5, RecvInv
<1>6. ASSUME NEW w \in Workers, Dispatch(w) PROVE Inv'
  <2>1. \A v \in Workers : (pc'[v] = "recv" <=> pc[v] = "recv") /\ (Running(v)' <=> Running(v))
    BY <1>6 DEF Dispatch, Running, Inv, TypeOK
  <2> QED
    BY <1>0, <1>6, <2>1 DEF Dispatch, Inv, EnlistedOnce, FlagTruthful, ServiceSerial
<1>7. ASSUME NEW w \in Workers, DispatchEnd(w) PROVE Inv'
  BY <1>0, <1>7, DispatchEndInv
<1>8. ASSUME UNCHANGED vars PROVE Inv'
  <2>1. \A v \in Workers : (pc'[v] = "recv" <=> pc[v] = "recv") /\ (Running(v)' <=> Running(v))
    BY <1>8 DEF vars, Running
  <2> QED
    BY <1>0, <1>8, <2>1 DEF vars, Inv, EnlistedOnce, FlagTruthful, ServiceSerial
<1> QED
  BY <1>1, <1>2, <1>3, <1>4, <1>5, <1>6, <1>7, <1>8 DEF Next

\* The invariant holds in every state of the scheduler.
LEMMA Invariance == SafeSpec => []Inv
BY InitInv, StepInv, PTL DEF SafeSpec

\* However many logic threads there are, the handlers of one service never
\* run on two of them at once (CLogicRunnable::onProcess).
THEOREM MutualExclusion == SafeSpec => []ServiceSerial
<1>1. Inv => ServiceSerial
  BY DEF Inv
<1> QED
  BY <1>1, Invariance, PTL

\* A queue is never on the manager's list twice, nor in the hands of two
\* threads that are enlisting it or have taken it (putMessageQueue, recv).
THEOREM OnePlace == SafeSpec => []EnlistedOnce
<1>1. Inv => EnlistedOnce
  BY DEF Inv
<1> QED
  BY <1>1, Invariance, PTL

\* m_nFlag is right in every state: the assertions of recv and dispatchEnd
\* hold, and a queue with packets is never in the state eNotInList.
THEOREM FlagCorrect == SafeSpec => []FlagTruthful
<1>1. Inv => FlagTruthful
  BY DEF Inv
<1> QED
  BY <1>1, Invariance, PTL

\* No packet is left in a queue that no thread will look at again (send,
\* dispatchEnd).
THEOREM NothingStranded == SafeSpec => []NoStranded
<1>1. ASSUME Inv PROVE NoStranded
  <2> SUFFICES ASSUME NEW q \in Queues, vec[q] # <<>>
               PROVE  \/ \E i \in DOMAIN list : list[i] = q
                      \/ \E t \in Threads : putting[t] = q
                      \/ \E w \in Workers : cur[w] = q
    BY DEF NoStranded
  <2>1. flag[q] \in Flags
    BY <1>1 DEF Inv, TypeOK
  <2>2. flag[q] = "eInList" \/ flag[q] = "eDispatch"
    BY <1>1, <2>1 DEF Inv, FlagTruthful, Flags
  <2> QED
    BY <1>1, <2>2 DEF Inv, FlagTruthful
<1> QED
  BY <1>1, Invariance, PTL
-----------------------------------------------------------------------------
(* Sleeping threads.                                                       *)

\* What a step does to the number of threads on their way to the list.
LEMMA GettingCounts ==
  /\ IsFiniteSet(Getting) /\ IsFiniteSet(Getting)'
  /\ Cardinality(Getting) \in Nat /\ Cardinality(Getting)' \in Nat
  /\ Getting \subseteq Getting' => Cardinality(Getting) <= Cardinality(Getting)'
  /\ \A w \in Workers :
       /\ w \notin Getting /\ Getting' = Getting \cup {w}
             => Cardinality(Getting)' = Cardinality(Getting) + 1
       /\ w \in Getting /\ Getting' = Getting \ {w}
             => Cardinality(Getting)' = Cardinality(Getting) - 1
<1> USE SchedulerAssumption
<1>1. Getting \subseteq Workers /\ Getting' \subseteq Workers
  BY DEF Getting
<1>2. IsFiniteSet(Getting) /\ IsFiniteSet(Getting)'
  BY <1>1, FS_Subset
<1>3. Cardinality(Getting) \in Nat /\ Cardinality(Getting)' \in Nat
  BY <1>2, FS_CardinalityType
<1>4. Getting \subseteq Getting' => Cardinality(Getting) <= Cardinality(Getting)'
  BY <1>2, FS_Subset
<1>5. ASSUME NEW w \in Workers, w \notin Getting, Getting' = Getting \cup {w}
      PROVE  Cardinality(Getting)' = Cardinality(Getting) + 1
  BY <1>2, <1>5, FS_AddElement
<1>6. ASSUME NEW w \in Workers, w \in Getting, Getting' = Getting \ {w}
      PROVE  Cardinality(Getting)' = Cardinality(Getting) - 1
  BY <1>2, <1>6, FS_RemoveElement
<1> QED
  BY <1>2, <1>3, <1>4, <1>5, <1>6

\* Every step keeps a thread awake for each queue on the list: put wakes one,
\* and a thread that goes to the list takes a queue off it or finds it empty.
LEMMA StepWake == TypeOK /\ WorkersWake /\ [Next]_vars => WorkersWake'
<1> SUFFICES ASSUME TypeOK, WorkersWake, [Next]_vars, (Waiting # {})'
             PROVE  Len(list') <= Cardinality(Getting)'
  BY DEF WorkersWake
<1>0. Len(list) \in Nat /\ (Waiting # {} => Len(list) <= Cardinality(Getting))
  BY DEF WorkersWake, TypeOK
<1>1. ASSUME UNCHANGED <<list, pc>> PROVE Len(list') <= Cardinality(Getting)'
  BY <1>0, <1>1 DEF Waiting, Getting
<1>2. ASSUME NEW t \in Threads, PutMessageQueue(t) PROVE Len(list') <= Cardinality(Getting)'
  <2>1. Len(list') = Len(list) + 1
    BY <1>2 DEF PutMessageQueue, TypeOK
  <2>2. Waiting # {}
    BY <1>2 DEF PutMessageQueue, NotifyOne, Waiting
  <2>3. PICK w \in Waiting : pc' = [pc EXCEPT ![w] = "get"]
    BY <1>2, <2>2 DEF PutMessageQueue, NotifyOne
  <2>4. w \in Workers /\ w \notin Getting /\ Getting' = Getting \cup {w}
    BY <2>3 DEF Waiting, Getting, TypeOK
  <2>5. Cardinality(Getting)' = Cardinality(Getting) + 1
    BY <2>4, GettingCounts
  <2> QED
    BY <1>0, <2>1, <2>2, <2>5, GettingCounts
<1>3. ASSUME NEW w \in Workers, GetMessageQueue(w) PROVE Len(list') <= Cardinality(Getting)'
  <2>1. CASE list = <<>>
    <3>1. Len(list') = 0
      BY <1>3, <2>1 DEF GetMessageQueue, WaitForQueue
    <3> QED
      BY <3>1, GettingCounts
  <2>2. CASE list # <<>>
    <3>1. Len(list') = Len(list) - 1
      BY <1>3, <2>2 DEF GetMessageQueue, TypeOK
    <3>2. pc' = [pc EXCEPT ![w] = "recv"] /\ pc[w] = "get"
      BY <1>3, <2>2 DEF GetMessageQueue
    <3>3. w \in Getting /\ Getting' = Getting \ {w} /\ Waiting # {}
      BY <3>2 DEF Getting, Waiting, TypeOK
    <3>4. Cardinality(Getting)' = Cardinality(Getting) - 1
      BY <3>3, GettingCounts
    <3> QED
      BY <1>0, <3>1, <3>3, <3>4, GettingCounts
  <2> QED
    BY <2>1, <2>2
<1>4. ASSUME NEW w \in Workers, list' = list, pc[w] # "get",
             pc' = [pc EXCEPT ![w] = "get"] \/ pc' = [pc EXCEPT ![w] = "dispatch"]
                \/ pc' = [pc EXCEPT ![w] = "handle"]
      PROVE  Len(list') <= Cardinality(Getting)'
  <2>1. Getting \subseteq Getting' /\ Waiting # {}
    BY <1>4 DEF Getting, Waiting, TypeOK
  <2> QED
    BY <1>0, <1>4, <2>1, GettingCounts
<1>5. ASSUME NEW t \in Threads, NEW q \in Queues, Send(t, q) PROVE UNCHANGED <<list, pc>>
  BY <1>5 DEF Send
<1>6. ASSUME NEW w \in Workers, SpuriousWakeup(w) \/ Recv(w) \/ Dispatch(w) \/ DispatchEnd(w)
      PROVE  Len(list') <= Cardinality(Getting)'
  BY <1>4, <1>6 DEF SpuriousWakeup, Recv, Dispatch, DispatchEnd, Running
<1> QED
  BY <1>1, <1>2, <1>3, <1>5, <1>6 DEF Next, vars

\* While a logic thread sleeps in getMessageQueue, at least as many others are
\* on their way to the list as there are queues on it (one notify_one per put).
THEOREM NobodyOversleeps == SafeSpec => []WorkersWake
<1>1. Init => WorkersWake
  BY DEF Init, WorkersWake, Waiting
<1> QED
  BY <1>1, TypeCorrect, StepWake, PTL DEF SafeSpec
-----------------------------------------------------------------------------
(* The scheduler implements the mailboxes of ServiceMailbox.               *)

\* The mailbox of q: what its thread has taken, and what is still in the queue
Box(q) == Taken(q) \o vec[q]

\* A queue nobody dispatches has nothing taken; else the packets its one thread
\* has left are what is taken.
LEMMA TakenIs ==
  ASSUME NEW q, ServiceSerial
  PROVE  /\ (\A w \in Workers : ~(Running(w) /\ cur[w] = q)) => Taken(q) = <<>>
         /\ \A w \in Workers : Running(w) /\ cur[w] = q => Taken(q) = batch[w]
<1>1. ASSUME \A w \in Workers : ~(Running(w) /\ cur[w] = q) PROVE Taken(q) = <<>>
  <2>1. Holders(q) = {}
    BY <1>1 DEF Holders
  <2> QED
    BY <2>1 DEF Taken
<1>2. ASSUME NEW w \in Workers, Running(w), cur[w] = q PROVE Taken(q) = batch[w]
  <2>1. Holders(q) = {w}
    BY <1>2 DEF Holders, ServiceSerial
  <2> QED
    BY <2>1 DEF Taken
<1> QED
  BY <1>1, <1>2

\* The same of the next state.
LEMMA TakenNext ==
  ASSUME NEW q, ServiceSerial'
  PROVE  /\ (\A w \in Workers : ~(Running(w)' /\ cur'[w] = q)) => Taken(q)' = <<>>
         /\ \A w \in Workers : Running(w)' /\ cur'[w] = q => Taken(q)' = batch'[w]
<1>1. ASSUME \A w \in Workers : ~(Running(w)' /\ cur'[w] = q) PROVE Taken(q)' = <<>>
  <2>1. Holders(q)' = {}
    BY <1>1 DEF Holders
  <2> QED
    BY <2>1 DEF Taken
<1>2. ASSUME NEW w \in Workers, Running(w)', cur'[w] = q PROVE Taken(q)' = batch'[w]
  <2>1. Holders(q)' = {w}
    BY <1>2 DEF Holders, ServiceSerial
  <2> QED
    BY <2>1 DEF Taken
<1> QED
  BY <1>1, <1>2

\* What is taken from a queue is a sequence of packets, as is its mailbox.
LEMMA TakenType ==
  ASSUME NEW q \in Queues, TypeOK, ServiceSerial
  PROVE  Taken(q) \in Seq(Packets) /\ vec[q] \in Seq(Packets)
<1>1. Taken(q) = <<>> \/ \E w \in Workers : Taken(q) = batch[w]
  BY TakenIs
<1>2. <<>> \in Seq(Packets) /\ vec[q] \in Seq(Packets) /\ \A w \in Workers : batch[w] \in Seq(Packets)
  BY DEF TypeOK
<1> QED
  BY <1>1, <1>2

\* What is taken from a queue stays the same when its thread and what this has
\* left do.
LEMMA TakenSame ==
  ASSUME NEW q, ServiceSerial, ServiceSerial',
         \A v \in Workers : Running(v) /\ cur[v] = q <=> Running(v)' /\ cur'[v] = q,
         \A v \in Workers : Running(v) /\ cur[v] = q => batch'[v] = batch[v]
  PROVE  Taken(q)' = Taken(q)
<1>1. CASE \E v \in Workers : Running(v) /\ cur[v] = q
  <2>1. PICK v \in Workers : Running(v) /\ cur[v] = q
    BY <1>1
  <2>2. Running(v)' /\ cur'[v] = q /\ batch'[v] = batch[v]
    BY <2>1
  <2>3. Taken(q) = batch[v]
    BY <2>1, TakenIs
  <2>4. Taken(q)' = batch'[v]
    BY <2>2, TakenNext
  <2> QED
    BY <2>2, <2>3, <2>4
<1>2. CASE \A v \in Workers : ~(Running(v) /\ cur[v] = q)
  <2>1. \A v \in Workers : ~(Running(v)' /\ cur'[v] = q)
    BY <1>2
  <2>2. Taken(q) = <<>>
    BY <1>2, TakenIs
  <2>3. Taken(q)' = <<>>
    BY <2>1, TakenNext
  <2> QED
    BY <2>2, <2>3
<1> QED
  BY <1>1, <1>2

\* push_back on what follows another sequence.
LEMMA ConcatAppend ==
  ASSUME NEW S, NEW s \in Seq(S), NEW t \in Seq(S), NEW e \in S
  PROVE  s \o Append(t, e) = Append(s \o t, e)
<1>1. <<e>> \in Seq(S) /\ s \o t \in Seq(S)
  BY ConcatProperties
<1>2. Append(t, e) = t \o <<e>> /\ Append(s \o t, e) = (s \o t) \o <<e>>
  BY <1>1, AppendIsConcat
<1>3. (s \o t) \o <<e>> = s \o (t \o <<e>>)
  BY <1>1, ConcatAssociative
<1> QED
  BY <1>2, <1>3

\* A packet that is sent goes to the end of the mailbox.
LEMMA SendRefines ==
  ASSUME Inv, Inv', NEW t \in Threads, NEW q \in Queues, Send(t, q)
  PROVE  Mailbox!Next
<1> USE DEF Inv
<1>1. PICK p \in Packets : p = [from |-> t, num |-> sent[t] + 1]
  BY SchedulerAssumption DEF Send, TypeOK, Packets
<1>2. vec' = [vec EXCEPT ![q] = Append(@, p)] /\ UNCHANGED <<pc, cur, batch, done>>
  BY <1>1 DEF Send
<1>3. \A r \in Queues : Taken(r)' = Taken(r)
  BY <1>2 DEF Taken, Holders, Running
<1>4. \A r \in Queues : Box(r)' = IF r = q THEN Append(Box(r), p) ELSE Box(r)
  <2> SUFFICES ASSUME NEW r \in Queues
               PROVE  Box(r)' = IF r = q THEN Append(Box(r), p) ELSE Box(r)
    OBVIOUS
  <2>1. Taken(r) \in Seq(Packets) /\ vec[r] \in Seq(Packets)
    BY TakenType
  <2>2. CASE r = q
    <3>1. vec'[q] = Append(vec[q], p)
      BY <1>2 DEF TypeOK
    <3>2. Taken(r) \o Append(vec[r], p) = Append(Taken(r) \o vec[r], p)
      BY <2>1, ConcatAppend
    <3> QED
      BY <1>3, <2>2, <3>1, <3>2 DEF Box
  <2>3. CASE r # q
    BY <1>2, <1>3, <2>3 DEF Box, TypeOK
  <2> QED
    BY <2>2, <2>3
<1>5. Mailbox!Send(q, p)
  BY <1>2, <1>4 DEF Mailbox!Send, Box
<1> QED
  BY <1>5 DEF Mailbox!Next

\* The packets that recv swaps out stay in the mailbox.
LEMMA RecvRefines ==
  ASSUME Inv, Inv', NEW w \in Workers, Recv(w)
  PROVE  UNCHANGED Mailbox!vars
<1> USE DEF Inv
<1>1. PICK q \in Queues : q = cur[w] /\ pc[w] = "recv" /\ flag[q] = "eInList"
  BY DEF Recv, FlagTruthful, TypeOK
<1>2. /\ pc' = [pc EXCEPT ![w] = "dispatch"]
      /\ vec' = [vec EXCEPT ![q] = <<>>]
      /\ batch' = [batch EXCEPT ![w] = vec[q]]
      /\ UNCHANGED <<cur, done>>
  BY <1>1 DEF Recv, SwapOut
<1>3. \A v \in Workers : ~(Running(v) /\ cur[v] = q)
  BY <1>1 DEF FlagTruthful
<1>4. /\ Running(w)' /\ cur'[w] = q /\ batch'[w] = vec[q] /\ ~Running(w)
      /\ \A v \in Workers : v # w =>
           (Running(v)' <=> Running(v)) /\ cur'[v] = cur[v] /\ batch'[v] = batch[v]
  BY <1>1, <1>2 DEF Running, TypeOK
<1>5. vec'[q] = <<>> /\ \A r \in Queues : r # q => vec'[r] = vec[r]
  BY <1>1, <1>2 DEF TypeOK
<1>6. \A r \in Queues : Box(r)' = Box(r)
  <2> SUFFICES ASSUME NEW r \in Queues PROVE Box(r)' = Box(r)
    OBVIOUS
  <2>1. CASE r = q
    <3>1. Taken(q) = <<>>
      BY <1>3, TakenIs
    <3>2. Taken(q)' = vec[q]
      BY <1>4, TakenNext
    <3>3. vec[q] \in Seq(Packets)
      BY <1>1 DEF TypeOK
    <3> QED
      BY <1>5, <2>1, <3>1, <3>2, <3>3, ConcatEmptySeq DEF Box
  <2>2. CASE r # q
    <3>1. Taken(r)' = Taken(r)
      BY <1>1, <1>4, <2>2, TakenSame
    <3> QED
      BY <1>5, <2>2, <3>1 DEF Box
  <2> QED
    BY <2>1, <2>2
<1> QED
  BY <1>2, <1>6 DEF Mailbox!vars, Box

\* The packet a logic thread hands to its handler is the first of the mailbox.
LEMMA DispatchRefines ==
  ASSUME Inv, Inv', NEW w \in Workers, Dispatch(w)
  PROVE  Mailbox!Next
<1> USE DEF Inv
<1>1. PICK q \in Queues : q = cur[w] /\ Running(w) /\ batch[w] # <<>> /\ batch[w] \in Seq(Packets)
  BY DEF Dispatch, Running, TypeOK
<1>2. /\ pc' = [pc EXCEPT ![w] = "handle"]
      /\ done' = [done EXCEPT ![q] = Append(@, Head(batch[w]))]
      /\ batch' = [batch EXCEPT ![w] = Tail(@)]
      /\ UNCHANGED <<vec, cur>>
  BY <1>1 DEF Dispatch
<1>3. /\ Running(w)' /\ cur'[w] = q /\ batch'[w] = Tail(batch[w])
      /\ \A v \in Workers : v # w =>
           (Running(v)' <=> Running(v)) /\ cur'[v] = cur[v] /\ batch'[v] = batch[v]
  BY <1>1, <1>2 DEF Running, TypeOK
<1>4. Taken(q) = batch[w]
  BY <1>1, TakenIs
<1>5. Taken(q)' = Tail(batch[w])
  BY <1>3, TakenNext
<1>6. vec[q] \in Seq(Packets)
  BY <1>1 DEF TypeOK
<1>7. /\ Box(q) # <<>>
      /\ Head(Box(q)) = Head(batch[w])
      /\ Box(q)' = Tail(Box(q))
  <2> DEFINE b == batch[w]
             e == vec[q]
  <2>1. b \in Seq(Packets) /\ b # <<>> /\ e \in Seq(Packets)
    BY <1>1, <1>6
  <2>2. Box(q) = b \o e /\ Box(q)' = Tail(b) \o e
    BY <1>2, <1>4, <1>5 DEF Box
  <2> HIDE DEF b, e
  <2>3. /\ b \o e # <<>>
        /\ Head(b \o e) = Head(b)
        /\ Tail(b) \o e = Tail(b \o e)
    BY <2>1
  <2> QED
    BY <2>2, <2>3 DEF b
<1>8. \A r \in Queues : r # q => Box(r)' = Box(r)
  <2> SUFFICES ASSUME NEW r \in Queues, r # q PROVE Box(r)' = Box(r)
    OBVIOUS
  <2>1. Taken(r)' = Taken(r)
    BY <1>1, <1>3, TakenSame
  <2> QED
    BY <1>2, <2>1 DEF Box
<1>9. done' = [done EXCEPT ![q] = Append(@, Head(Box(q)))]
  BY <1>2, <1>7
<1>10. [r \in Queues |-> Box(r)]' = [[r \in Queues |-> Box(r)] EXCEPT ![q] = Tail(Box(q))]
  BY <1>7, <1>8
<1>11. Mailbox!Handle(q)
  BY <1>7, <1>9, <1>10 DEF Mailbox!Handle, Box
<1> QED
  BY <1>11 DEF Mailbox!Next

\* The thread gives the queue back when it has handled what it took.
LEMMA DispatchEndRefines ==
  ASSUME Inv, Inv', NEW w \in Workers, DispatchEnd(w)
  PROVE  UNCHANGED Mailbox!vars
<1> USE DEF Inv
<1>1. Running(w) /\ batch[w] = <<>>
  BY DEF DispatchEnd
<1>2. pc' = [pc EXCEPT ![w] = "get"] /\ cur' = [cur EXCEPT ![w] = None] /\ UNCHANGED <<vec, batch, done>>
  BY DEF DispatchEnd
<1>3. /\ ~Running(w)'
      /\ \A v \in Workers : v # w =>
           (Running(v)' <=> Running(v)) /\ cur'[v] = cur[v] /\ batch'[v] = batch[v]
  BY <1>1, <1>2 DEF Running, TypeOK
<1>4. ASSUME NEW r \in Queues PROVE Taken(r)' = Taken(r)
  <2>1. CASE r = cur[w]
    <3>1. Taken(r) = <<>>
      BY <1>1, <2>1, TakenIs
    <3>2. \A v \in Workers : ~(Running(v)' /\ cur'[v] = r)
      BY <1>1, <1>3, <2>1 DEF ServiceSerial
    <3>3. Taken(r)' = <<>>
      BY <3>2, TakenNext
    <3> QED
      BY <3>1, <3>3
  <2>2. CASE r # cur[w]
    BY <1>3, <1>1, <2>2, TakenSame
  <2> QED
    BY <2>1, <2>2
<1> QED
  BY <1>2, <1>4 DEF Mailbox!vars

\* Steps that touch no packet.
LEMMA OtherRefines ==
  ASSUME ServiceSerial, ServiceSerial',
         \A v \in Workers : (Running(v)' <=> Running(v)) /\ (Running(v) => cur'[v] = cur[v]),
         UNCHANGED <<vec, batch, done>>
  PROVE  UNCHANGED Mailbox!vars
<1>1. ASSUME NEW r \in Queues PROVE Taken(r)' = Taken(r)
  BY TakenSame
<1> QED
  BY <1>1 DEF Mailbox!vars

\* The scheduler, whatever its threads do, is a set of mailboxes: each service
\* gets each packet sent to it once, in the order of sending (send, recv,
\* onProcess).  That every packet is handled in the end is not part of this.
THEOREM ImplementsMailbox == SafeSpec => Mailbox!SafeSpec
<1>1. Init => Mailbox!Init
  <2> SUFFICES ASSUME Init PROVE Mailbox!Init
    OBVIOUS
  <2>1. \A q \in Queues : Taken(q) = <<>> /\ vec[q] = <<>>
    BY DEF Init, Taken, Holders, Running
  <2>2. <<>> \o <<>> = <<>>
    BY ConcatEmptySeq, EmptySeq
  <2> QED
    BY <2>1, <2>2 DEF Init, Mailbox!Init
<1>2. Inv /\ Inv' /\ [Next]_vars => [Mailbox!Next]_(Mailbox!vars)
  <2> SUFFICES ASSUME Inv, Inv', [Next]_vars
               PROVE  Mailbox!Next \/ UNCHANGED Mailbox!vars
    OBVIOUS
  <2>1. ASSUME NEW t \in Threads, NEW q \in Queues, Send(t, q) PROVE Mailbox!Next
    BY <2>1, SendRefines
  <2>2. ASSUME NEW t \in Threads, PutMessageQueue(t) PROVE UNCHANGED Mailbox!vars
    <3>1. \A v \in Workers : Running(v)' <=> Running(v)
      BY <2>2 DEF PutMessageQueue, NotifyOne, Waiting, Running, Inv, TypeOK
    <3> QED
      BY <2>2, <3>1, OtherRefines DEF Inv, PutMessageQueue
  <2>3. ASSUME NEW w \in Workers, GetMessageQueue(w) PROVE UNCHANGED Mailbox!vars
    <3>1. \A v \in Workers : (Running(v)' <=> Running(v)) /\ (Running(v) => cur'[v] = cur[v])
      BY <2>3 DEF GetMessageQueue, WaitForQueue, Running, Inv, TypeOK
    <3> QED
      BY <2>3, <3>1, OtherRefines DEF Inv, GetMessageQueue
  <2>4. ASSUME NEW w \in Workers, SpuriousWakeup(w) PROVE UNCHANGED Mailbox!vars
    <3>1. \A v \in Workers : Running(v)' <=> Running(v)
      BY <2>4 DEF SpuriousWakeup, Running, Inv, TypeOK
    <3> QED
      BY <2>4, <3>1, OtherRefines DEF Inv, SpuriousWakeup
  <2>5. ASSUME NEW w \in Workers, Recv(w) PROVE UNCHANGED Mailbox!vars
    BY <2>5, RecvRefines
  <2>6. ASSUME NEW w \in Workers, Dispatch(w) PROVE Mailbox!Next
    BY <2>6, DispatchRefines
  <2>7. ASSUME NEW w \in Workers, DispatchEnd(w) PROVE UNCHANGED Mailbox!vars
    BY <2>7, DispatchEndRefines
  <2>8. ASSUME UNCHANGED vars PROVE UNCHANGED Mailbox!vars
    <3>1. \A v \in Workers : Running(v)' <=> Running(v)
      BY <2>8 DEF vars, Running
    <3> QED
      BY <2>8, <3>1, OtherRefines DEF Inv, vars
  <2> QED
    BY <2>1, <2>2, <2>3, <2>4, <2>5, <2>6, <2>7, <2>8 DEF Next
<1> QED
  BY <1>1, <1>2, Invariance, PTL DEF SafeSpec, Mailbox!SafeSpec
=============================================================================
