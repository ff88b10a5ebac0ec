------------------------------ MODULE AsyncProofs ------------------------------
(***************************************************************************)
(* The two ways in which a program waits for an answer.  Coroutines:       *)
(* stacks, the pool and the answers to calls stay exact, for any number of *)
(* threads, services, coroutines and calls.  Futures: callbacks, then_r    *)
(* and whenAll stand for what they were made of, for any program.          *)
(***************************************************************************)
EXTENDS Coroutine, FuturePromise, FiniteSetTheorems, SequenceTheorems, TLAPS

-----------------------------------------------------------------------------
(* Coroutines.                                                             *)

Types ==
  /\ state \in [Co -> States]
  /\ mapped \subseteq Co
  /\ recycle \in Seq(Co)
  /\ owner \in [Co -> Services \cup {None}]
  /\ waits \in [Co -> Calls \cup {None}]
  /\ data \in [Co -> Calls \cup {None}]
  /\ refers \in [Co -> Calls \cup {None}]
  /\ call \in [Calls -> {"free", "waiting", "taken", "deleted", "dropped"}]
  /\ waiter \in [Calls -> Co \cup {None}]
  /\ caller \in [Calls -> Services \cup {None}]
  /\ current \in [Threads -> Co \cup {None}]
  /\ stack \in [Threads -> Co \cup {None}]
  /\ serves \in [Threads -> Services \cup {None}]
  /\ resumed \in [Threads -> Co \cup {None}]
  /\ taken \in [Threads -> Calls \cup {None}]

\* A packet with an answer lies in the queue of the service that made the call.
InboxInv ==
  /\ inbox \in [Services -> Seq(Calls \cup {None})]
  /\ \A s \in Services : \A i \in 1 .. Len(inbox[s]) :
       inbox[s][i] # None => caller[inbox[s][i]] = s /\ call[inbox[s][i]] # "free"

\* A thread is on the stack of the coroutine it resumed or on its own, and the
\* coroutine works for the service the thread serves: no other thread has it.
ThreadOk(t) ==
  /\ current[t] # None => stack[t] = current[t]
  /\ stack[t] # None => resumed[t] = stack[t]
  /\ resumed[t] # None =>
       /\ resumed[t] \in mapped
       /\ serves[t] = owner[resumed[t]] /\ serves[t] # None
       /\ current[t] # None => state[resumed[t]] = "eCS_RUNNING"
       /\ current[t] = None => state[resumed[t]] \in {"eCS_SUSPEND", "eCS_DEAD"}
  /\ resumed[t] = None => serves[t] = None /\ taken[t] = None
  /\ taken[t] # None => call[taken[t]] = "taken"
ThreadInv ==
  \A t \in Threads :
    /\ ThreadOk(t)
    /\ \A u \in Threads : u # t => /\ serves[t] # None => serves[u] # serves[t]
                                   /\ taken[t] # None => taken[u] # taken[t]

\* Coroutines are numbered as they are made; the list has each once, and none
\* that is still found by its id.
PoolInv ==
  /\ \E n \in 0 .. MaxCo : Made = 1 .. n
  /\ mapped \subseteq Made
  /\ Len(recycle) <= MaxRecycle + 1
  /\ \A i \in 1 .. Len(recycle) :
       /\ state[recycle[i]] = "eCS_DEAD" /\ recycle[i] \notin mapped
       /\ \A j \in 1 .. Len(recycle) : recycle[j] = recycle[i] => i = j

CoInv ==
  \A c \in Co :
    /\ state[c] = "eCS_RUNNING" => \E t \in Threads : current[t] = c
    /\ state[c] = "eCS_RUNNING" /\ waits[c] # None => data[c] = waits[c]
    /\ data[c] # None => state[c] = "eCS_RUNNING" /\ waits[c] = data[c]
    /\ state[c] \in {"eCS_NONE", "eCS_DEAD"} => waits[c] = None

\* A pending call and the coroutine that waits for it know each other, and work
\* for the same service.
CallInv ==
  \A k \in Calls :
    /\ call[k] = "waiting" /\ waiter[k] # None =>
         /\ waiter[k] \in mapped /\ state[waiter[k]] = "eCS_SUSPEND"
         /\ waits[waiter[k]] = k /\ caller[k] = owner[waiter[k]]
    /\ call[k] # "free" => caller[k] \in Services

\* The callback of a coroutine lives in the call its thread deletes afterwards.
RefersInv ==
  ~CallbackYields =>
    /\ \A c \in Co : state[c] = "eCS_SUSPEND" => refers[c] = None
    /\ \A t \in Threads : resumed[t] # None /\ refers[resumed[t]] # None => taken[t] = refers[resumed[t]]

\* The inductive invariant.
Inv == Types /\ InboxInv /\ ThreadInv /\ PoolInv /\ CoInv /\ CallInv /\ RefersInv

\* No coroutine and no call is called None.
LEMMA NoneApart == None \notin Co /\ None \notin Calls
BY DEF None, Co, Calls

\* The invariant implies what the runs check of the stacks and the pool ...
LEMMA InvStacks == Inv => StacksExact
<1> SUFFICES ASSUME Inv PROVE StacksExact
  OBVIOUS
<1> USE DEF Inv
<1>1. recycle \in Seq(Made)
  <2>1. \A i \in 1 .. Len(recycle) : recycle[i] \in Made
    BY DEF PoolInv, Types, Made
  <2> QED
    BY <2>1 DEF Types
<1>2. TypeOK
  BY <1>1 DEF TypeOK, Types, PoolInv, InboxInv
<1>3. OneStack
  <2> SUFFICES ASSUME NEW t \in Threads, stack[t] # None
               PROVE  /\ stack[t] \in mapped
                      /\ \A i \in 1 .. Len(recycle) : recycle[i] # stack[t]
                      /\ \A u \in Threads : u # t => stack[u] # stack[t]
    BY DEF OneStack
  <2>1. stack[t] \in mapped /\ resumed[t] = stack[t]
    BY DEF ThreadInv, ThreadOk
  <2>2. \A u \in Threads : u # t => stack[u] # stack[t]
    BY <2>1 DEF ThreadInv, ThreadOk
  <2> QED
    BY <2>1, <2>2 DEF PoolInv
<1>4. PoolClean
  <2> SUFFICES ASSUME NEW i \in 1 .. Len(recycle)
               PROVE  /\ state[recycle[i]] = "eCS_DEAD" /\ recycle[i] \notin mapped
                      /\ data[recycle[i]] = None /\ waits[recycle[i]] = None
                      /\ \A k \in Calls : call[k] = "waiting" => waiter[k] # recycle[i]
                      /\ \A j \in 1 .. Len(recycle) : recycle[j] = recycle[i] => i = j
    BY DEF PoolClean
  <2>1. /\ state[recycle[i]] = "eCS_DEAD" /\ recycle[i] \notin mapped
        /\ \A j \in 1 .. Len(recycle) : recycle[j] = recycle[i] => i = j
    BY DEF PoolInv
  <2>2. recycle[i] \in Co /\ recycle[i] # None
    BY NoneApart DEF Types
  <2> QED
    BY <2>1, <2>2 DEF CoInv, CallInv
<1> QED
  BY <1>2, <1>3, <1>4 DEF StacksExact

\* ... and of the answers; the callback is safe when no callback waits.
LEMMA InvAnswer == Inv => OwnAnswer /\ (~CallbackYields => AnswerSafe)
<1> SUFFICES ASSUME Inv PROVE OwnAnswer /\ (~CallbackYields => CallbackAlive)
  BY DEF AnswerSafe
<1> USE DEF Inv
<1>1. OwnAnswer
  BY NoneApart DEF OwnAnswer, CoInv, CallInv
<1>2. ASSUME ~CallbackYields, NEW c \in Co, refers[c] # None, state[c] \in {"eCS_RUNNING", "eCS_SUSPEND"}
      PROVE  call[refers[c]] = "taken"
  <2>1. state[c] = "eCS_RUNNING"
    BY <1>2 DEF RefersInv
  <2>2. PICK t \in Threads : current[t] = c
    BY <2>1 DEF CoInv
  <2>3. resumed[t] = c /\ c # None
    BY <2>2, NoneApart DEF ThreadInv, ThreadOk
  <2>4. taken[t] = refers[c]
    BY <1>2, <2>3 DEF RefersInv
  <2> QED
    BY <1>2, <2>4 DEF ThreadInv, ThreadOk
<1> QED
  BY <1>1, <1>2 DEF CallbackAlive

\* At the start there is no coroutine, no call and no packet.
LEMMA InitInv == Init => Inv
<1> SUFFICES ASSUME Init PROVE Inv
  OBVIOUS
<1>1. Types /\ InboxInv
  BY DEF Init, Types, InboxInv, States
<1>2. ThreadInv /\ CoInv /\ CallInv /\ RefersInv
  BY DEF Init, ThreadInv, ThreadOk, CoInv, CallInv, RefersInv, None, Co
<1>3. PoolInv
  <2>1. Made = 1 .. 0 /\ 0 \in 0 .. MaxCo
    BY CoroutineAssumption DEF Init, Made
  <2>2. mapped = {} /\ recycle = <<>> /\ Len(recycle) = 0 /\ 0 <= MaxRecycle + 1
    BY CoroutineAssumption DEF Init
  <2>3. Len(recycle) <= MaxRecycle + 1 /\ 1 .. Len(recycle) = {}
    BY <2>2
  <2> QED
    BY <2>1, <2>2, <2>3 DEF PoolInv
<1> QED
  BY <1>1, <1>2, <1>3 DEF Inv

-----------------------------------------------------------------------------
(* Queues.                                                                 *)

\* What Append and Tail do to the packets of a queue.
LEMMA QueueOps ==
  ASSUME NEW S, NEW q \in Seq(S), NEW e \in S
  PROVE  /\ Append(q, e) \in Seq(S)
         /\ \A i \in 1 .. Len(Append(q, e)) :
              \/ i \in 1 .. Len(q) /\ Append(q, e)[i] = q[i]
              \/ i = Len(q) + 1 /\ Append(q, e)[i] = e
         /\ q # <<>> => /\ Tail(q) \in Seq(S) /\ Head(q) \in S /\ Head(q) = q[1] /\ 1 \in 1 .. Len(q)
                        /\ \A i \in 1 .. Len(Tail(q)) : i + 1 \in 1 .. Len(q) /\ Tail(q)[i] = q[i + 1]
                        /\ Len(Tail(q)) = Len(q) - 1
OBVIOUS

\* A packet is put into a queue or taken out of it.
LEMMA InboxStep ==
  ASSUME Inv, NEW s \in Services, NEW p \in Calls \cup {None},
         p # None => caller[p] = s /\ call[p] # "free",
         \/ inbox' = inbox
         \/ inbox' = [inbox EXCEPT ![s] = Append(@, p)]
         \/ inbox[s] # <<>> /\ inbox' = [inbox EXCEPT ![s] = Tail(@)],
         \A k \in Calls : call[k] # "free" => call'[k] # "free" /\ caller'[k] = caller[k]
  PROVE  InboxInv'
<1> USE DEF Inv
<1>1. inbox \in [Services -> Seq(Calls \cup {None})] /\ inbox[s] \in Seq(Calls \cup {None})
  BY DEF InboxInv
<1>2. \A u \in Services : u # s => inbox'[u] = inbox[u]
  BY <1>1
<1>3. /\ inbox' \in [Services -> Seq(Calls \cup {None})]
      /\ \A i \in 1 .. Len(inbox'[s]) :
           inbox'[s][i] # None => caller[inbox'[s][i]] = s /\ call[inbox'[s][i]] # "free"
  <2>1. CASE inbox' = inbox
    BY <2>1, <1>1 DEF InboxInv
  <2>2. CASE inbox' = [inbox EXCEPT ![s] = Append(@, p)]
    <3>1. inbox'[s] = Append(inbox[s], p)
      BY <2>2, <1>1
    <3> QED
      BY <2>2, <3>1, <1>1, QueueOps DEF InboxInv
  <2>3. CASE inbox[s] # <<>> /\ inbox' = [inbox EXCEPT ![s] = Tail(@)]
    <3>1. inbox'[s] = Tail(inbox[s]) /\ inbox[s] # <<>>
      BY <2>3, <1>1
    <3> QED
      BY <2>3, <3>1, <1>1, QueueOps DEF InboxInv
  <2> QED
    BY <2>1, <2>2, <2>3
<1>4. \A u \in Services : \A i \in 1 .. Len(inbox'[u]) :
        inbox'[u][i] # None => caller[inbox'[u][i]] = u /\ call[inbox'[u][i]] # "free"
  BY <1>1, <1>2, <1>3 DEF InboxInv
<1>5. \A u \in Services : \A i \in 1 .. Len(inbox'[u]) : inbox'[u][i] \in Calls \cup {None}
  BY <1>3
<1> QED
  BY <1>3, <1>4, <1>5, ZenonT(60) DEF InboxInv

\* The rest of the invariant is not about the queues.
LEMMA RestSame ==
  ASSUME Inv, InboxInv', UNCHANGED <<coVars, poolVars, callVars, threadVars>>
  PROVE  Inv'
<1>1. Types' /\ ThreadInv' /\ CoInv' /\ CallInv' /\ RefersInv'
  BY DEF Inv, coVars, poolVars, callVars, threadVars, Types, ThreadInv, ThreadOk, CoInv, CallInv, RefersInv
<1>2. PoolInv'
  BY DEF Inv, coVars, poolVars, PoolInv, Made
<1> QED
  BY <1>1, <1>2 DEF Inv

\* A request or an answer comes.
LEMMA ArriveInv ==
  ASSUME Inv, (\E s \in Services : Request(s)) \/ (\E k \in Calls : Answer(k))
  PROVE  Inv'
<1>1. PICK s \in Services, p \in Calls \cup {None} :
        /\ p # None => caller[p] = s /\ call[p] # "free"
        /\ inbox' = [inbox EXCEPT ![s] = Append(@, p)]
  <2>1. ASSUME NEW k \in Calls, Answer(k)
        PROVE  caller[k] \in Services /\ call[k] # "free"
               /\ inbox' = [inbox EXCEPT ![caller[k]] = Append(@, k)]
    BY <2>1 DEF Answer, Inv, CallInv
  <2>2. ASSUME NEW s \in Services, Request(s)
        PROVE  inbox' = [inbox EXCEPT ![s] = Append(@, None)]
    BY <2>2 DEF Request
  <2> QED
    BY <2>1, <2>2
<1>2. UNCHANGED <<coVars, poolVars, callVars, threadVars>>
  BY DEF Request, Answer
<1>3. InboxInv'
  BY <1>1, <1>2, InboxStep DEF callVars
<1> QED
  BY <1>2, <1>3, RestSame

\* The packet a thread takes; the service is served by no other thread.
LEMMA ServeInbox ==
  ASSUME Inv, NEW t \in Threads, NEW s \in Services, Serve(t, s),
         \A k \in Calls : call[k] # "free" => call'[k] # "free"
  PROVE  /\ InboxInv'
         /\ Head(inbox[s]) \in Calls \cup {None}
         /\ Head(inbox[s]) # None => caller[Head(inbox[s])] = s /\ call[Head(inbox[s])] # "free"
<1>1. inbox[s] \in Seq(Calls \cup {None}) /\ inbox[s] # <<>>
  BY DEF Inv, InboxInv, Serve
<1>2. Head(inbox[s]) \in Calls \cup {None} /\ Head(inbox[s]) = inbox[s][1] /\ 1 \in 1 .. Len(inbox[s])
  BY <1>1, QueueOps
<1>3. caller' = caller /\ inbox' = [inbox EXCEPT ![s] = Tail(@)]
  BY DEF Serve
<1>4. InboxInv'
  <2>1. None \in Calls \cup {None}
    OBVIOUS
  <2> QED
    BY <1>1, <1>3, <2>1, InboxStep
<1> QED
  BY <1>2, <1>4 DEF Inv, InboxInv

\* The coroutine that createCoroutine returns is nobody's.
LEMMA CreatedFree ==
  ASSUME Inv, CanCreate
  PROVE  /\ Created \in Co /\ Created \notin mapped
         /\ state[Created] \in {"eCS_NONE", "eCS_DEAD"}
         /\ waits[Created] = None /\ data[Created] = None
         /\ \A t \in Threads : resumed[t] # Created /\ stack[t] # Created /\ current[t] # Created
         /\ \A k \in Calls : call[k] = "waiting" => waiter[k] # Created
<1> USE DEF Inv
<1>1. PICK n \in 0 .. MaxCo : Made = 1 .. n
  BY DEF PoolInv
<1>2. Cardinality(Made) = n
  <2>1. n \in Nat /\ 1 \in Int /\ n \in Int
    OBVIOUS
  <2>2. Cardinality(1 .. n) = IF 1 > n THEN 0 ELSE n - 1 + 1
    BY <2>1, FS_Interval
  <2> QED
    BY <1>1, <2>1, <2>2
<1>3. Created \in Co /\ Created \notin mapped /\ state[Created] \in {"eCS_NONE", "eCS_DEAD"}
  <2>1. CASE recycle # <<>>
    <3>1. Created = recycle[1] /\ 1 \in 1 .. Len(recycle) /\ recycle[1] \in Co
      BY <2>1, QueueOps DEF Created, Types
    <3> QED
      BY <3>1 DEF PoolInv
  <2>2. CASE recycle = <<>>
    <3>1. Created = n + 1 /\ n < MaxCo
      BY <1>2, <2>2 DEF Created, CanCreate
    <3>2. Created \in Co /\ Created \notin 1 .. n
      BY <3>1, CoroutineAssumption DEF Co
    <3>3. Created \notin Made
      BY <1>1, <3>2
    <3> QED
      BY <3>2, <3>3 DEF Made, PoolInv
  <2> QED
    BY <2>1, <2>2
<1>4. waits[Created] = None /\ data[Created] = None
  BY <1>3 DEF CoInv
<1>5. \A t \in Threads : resumed[t] # Created /\ stack[t] # Created /\ current[t] # Created
  BY <1>3, NoneApart DEF ThreadInv, ThreadOk
<1>6. \A k \in Calls : call[k] = "waiting" => waiter[k] # Created
  BY <1>3, NoneApart DEF CallInv
<1> QED
  BY <1>3, <1>4, <1>5, <1>6

-----------------------------------------------------------------------------
(* The dispatcher.                                                         *)

\* The pool when a coroutine is taken out of it.
LEMMA CreatePool ==
  ASSUME Inv, CanCreate, Create(Created), state' = [state EXCEPT ![Created] = "eCS_RUNNING"]
  PROVE  PoolInv' /\ recycle' \in Seq(Co) /\ mapped' = mapped \cup {Created}
<1> USE DEF Inv
<1> DEFINE c == Created
<1>0. /\ c \in Co /\ c \notin mapped /\ state \in [Co -> States]
      /\ state'[c] = "eCS_RUNNING" /\ \A d \in Co : d # c => state'[d] = state[d]
  BY CreatedFree DEF Types
<1>1. Made' = Made \cup {c}
  BY <1>0 DEF Made
<1>2. PICK n \in 0 .. MaxCo : Made = 1 .. n
  BY DEF PoolInv
<1>3. \E m \in 0 .. MaxCo : Made' = 1 .. m
  <2>1. CASE recycle # <<>>
    <3>1. c = recycle[1] /\ 1 \in 1 .. Len(recycle)
      BY <2>1, QueueOps DEF Types, Created
    <3>2. c \in Made
      BY <1>0, <3>1 DEF PoolInv, Made
    <3> QED
      BY <1>1, <1>2, <3>2
  <2>2. CASE recycle = <<>>
    <3>1. n \in Nat /\ 1 \in Int /\ n \in Int
      OBVIOUS
    <3>2. Cardinality(1 .. n) = IF 1 > n THEN 0 ELSE n - 1 + 1
      BY <3>1, FS_Interval
    <3>3. c = n + 1 /\ n + 1 \in 0 .. MaxCo
      BY <1>2, <2>2, <3>1, <3>2, CoroutineAssumption DEF Created, CanCreate
    <3>4. Made' = 1 .. (n + 1)
      BY <1>1, <1>2, <3>1, <3>3
    <3> QED
      BY <3>3, <3>4
  <2> QED
    BY <2>1, <2>2
<1>4. mapped' = mapped \cup {c}
  BY DEF Create
<1>5. /\ recycle' \in Seq(Co) /\ Len(recycle') <= MaxRecycle + 1
      /\ \A i \in 1 .. Len(recycle') :
           /\ recycle'[i] # c
           /\ state[recycle'[i]] = "eCS_DEAD" /\ recycle'[i] \notin mapped
           /\ \A j \in 1 .. Len(recycle') : recycle'[j] = recycle'[i] => i = j
  <2>1. CASE recycle # <<>>
    <3>1. /\ recycle' = Tail(recycle) /\ recycle' \in Seq(Co) /\ Len(recycle') = Len(recycle) - 1
          /\ c = recycle[1] /\ 1 \in 1 .. Len(recycle)
          /\ \A i \in 1 .. Len(recycle') : i + 1 \in 1 .. Len(recycle) /\ recycle'[i] = recycle[i + 1]
      BY <2>1, QueueOps DEF Types, Created, Create
    <3>2. Len(recycle) <= MaxRecycle + 1 /\ Len(recycle) \in Nat /\ MaxRecycle \in Nat
      BY CoroutineAssumption DEF PoolInv, Types
    <3>3. Len(recycle') <= MaxRecycle + 1
      BY <3>1, <3>2
    <3>4. \A i \in 1 .. Len(recycle') :
            /\ recycle'[i] # c
            /\ state[recycle'[i]] = "eCS_DEAD" /\ recycle'[i] \notin mapped
            /\ \A j \in 1 .. Len(recycle') : recycle'[j] = recycle'[i] => i = j
      BY <3>1 DEF PoolInv
    <3> QED
      BY <3>1, <3>3, <3>4
  <2>2. CASE recycle = <<>>
    <3>1. recycle' = <<>> /\ recycle = <<>>
      BY <2>2 DEF Create
    <3> QED
      BY <3>1, CoroutineAssumption
  <2> QED
    BY <2>1, <2>2
<1>6. \A i \in 1 .. Len(recycle') : recycle'[i] \in Co
  BY <1>5
<1>7. PoolInv'
  BY <1>0, <1>1, <1>3, <1>4, <1>5, <1>6 DEF PoolInv
<1> QED
  BY <1>4, <1>5, <1>7

\* A coroutine starts: with a request, or with the callback of call k.
LEMMA StartInv ==
  ASSUME Inv, NEW t \in Threads, NEW s \in Services, NEW k \in Calls \cup {None},
         Serve(t, s), Start(t, s, k), data' = data,
         \/ k = None /\ call' = call /\ taken' = taken
         \/ k # None /\ call[k] = "waiting" /\ waiter[k] = None /\ TakeCall(k, t)
  PROVE  Inv'
<1> USE DEF Inv
<1> DEFINE c == Created
<1>0. /\ c \in Co /\ c \notin mapped /\ c # None
      /\ state[c] \in {"eCS_NONE", "eCS_DEAD"} /\ waits[c] = None /\ data[c] = None
      /\ \A u \in Threads : resumed[u] # c /\ stack[u] # c /\ current[u] # c
      /\ \A j \in Calls : call[j] = "waiting" => waiter[j] # c
  BY CreatedFree, NoneApart DEF Start
<1>1. /\ state' = [state EXCEPT ![c] = "eCS_RUNNING"]
      /\ current' = [current EXCEPT ![t] = c] /\ stack' = [stack EXCEPT ![t] = c]
      /\ resumed' = [resumed EXCEPT ![t] = c] /\ serves' = [serves EXCEPT ![t] = s]
      /\ owner' = [owner EXCEPT ![c] = s] /\ refers' = [refers EXCEPT ![c] = k]
      /\ waiter' = waiter /\ caller' = caller /\ waits' = waits /\ data' = data
  BY DEF Start, Run, Serve
<1>2. serves[t] = None /\ resumed[t] = None /\ taken[t] = None /\ s # None /\ \A u \in Threads : serves[u] # s
  BY NoneApart DEF Serve, MayServe, ThreadInv, ThreadOk
<1>3. /\ call' \in [Calls -> {"free", "waiting", "taken", "deleted", "dropped"}]
      /\ taken' \in [Threads -> Calls \cup {None}]
      /\ \A j \in Calls : call'[j] = IF j = k THEN "taken" ELSE call[j]
      /\ taken'[t] = k /\ \A u \in Threads : u # t => taken'[u] = taken[u]
      /\ k # None => call[k] = "waiting"
  <2>1. CASE k = None /\ call' = call /\ taken' = taken
    BY <2>1, <1>2, NoneApart DEF Types
  <2>2. CASE k # None /\ call[k] = "waiting" /\ TakeCall(k, t)
    BY <2>2 DEF TakeCall, Types
  <2> QED
    BY <2>1, <2>2
<1>4. PoolInv' /\ recycle' \in Seq(Co) /\ mapped' = mapped \cup {c}
  BY <1>1, CreatePool DEF Start
<1>5. Types'
  BY <1>0, <1>1, <1>3, <1>4 DEF Types, States
<1>6. InboxInv'
  BY <1>3, ServeInbox
<1>7. /\ state'[c] = "eCS_RUNNING" /\ \A d \in Co : d # c => state'[d] = state[d]
      /\ owner'[c] = s /\ \A d \in Co : d # c => owner'[d] = owner[d]
      /\ refers'[c] = k /\ \A d \in Co : d # c => refers'[d] = refers[d]
      /\ current'[t] = c /\ stack'[t] = c /\ resumed'[t] = c /\ serves'[t] = s
      /\ \A u \in Threads : u # t =>
           current'[u] = current[u] /\ stack'[u] = stack[u] /\ resumed'[u] = resumed[u] /\ serves'[u] = serves[u]
  BY <1>0, <1>1 DEF Types
<1>8. ThreadInv'
  <2>1. \A u \in Threads : u # t => resumed[u] # c /\ (resumed[u] # None => resumed[u] \in Co)
    BY <1>0 DEF Types
  <2>2. \A u \in Threads : taken[u] # None => call[taken[u]] = "taken" /\ taken[u] \in Calls
    BY DEF ThreadInv, ThreadOk, Types
  <2>3. \A u \in Threads : u # t /\ taken[u] # None => taken[u] # k
    BY <2>2, <1>3
  <2> QED
    BY <1>0, <1>2, <1>3, <1>4, <1>7, <2>1, <2>2, <2>3 DEF ThreadInv, ThreadOk
<1>9. CoInv'
  BY <1>0, <1>1, <1>2, <1>7, NoneApart DEF CoInv, ThreadInv, ThreadOk
<1>10. CallInv'
  <2>1. \A j \in Calls : call'[j] = "waiting" /\ waiter'[j] # None => waiter[j] # c /\ waiter[j] \in Co
    BY <1>0, <1>1, <1>3 DEF Types
  <2> QED
    BY <1>1, <1>3, <1>4, <1>7, <2>1 DEF CallInv
<1>11. RefersInv'
  <2>1. \A d \in Co : state'[d] = "eCS_SUSPEND" => d # c /\ state[d] = "eCS_SUSPEND"
    BY <1>7
  <2>2. \A u \in Threads : u # t => resumed[u] # c /\ (resumed[u] # None => resumed[u] \in Co)
    BY <1>0 DEF Types
  <2> QED
    BY <1>3, <1>7, <2>1, <2>2 DEF RefersInv
<1> QED
  BY <1>4, <1>5, <1>6, <1>8, <1>9, <1>10, <1>11

\* The answer resumes the coroutine that waits for it.
LEMMA ResumeInv ==
  ASSUME Inv, NEW t \in Threads, NEW s \in Services, DispatchResponse(t, s),
         waiter[Head(inbox[s])] # None
  PROVE  Inv'
<1> USE DEF Inv
<1>a. Serve(t, s) /\ Head(inbox[s]) \in Calls /\ call[Head(inbox[s])] = "waiting"
  BY QueueOps DEF DispatchResponse, Serve, InboxInv
<1>b. PICK k \in Calls, c \in Co :
        /\ k = Head(inbox[s]) /\ c = waiter[k] /\ call[k] = "waiting" /\ TakeCall(k, t)
        /\ data' = [data EXCEPT ![c] = k] /\ serves' = [serves EXCEPT ![t] = s]
        /\ Run(t, c) /\ UNCHANGED <<poolVars, owner, refers>>
  BY <1>a DEF DispatchResponse, Types
<1>0. /\ c # None /\ k # None
      /\ c \in mapped /\ state[c] = "eCS_SUSPEND" /\ waits[c] = k /\ caller[k] = owner[c]
  BY <1>b, NoneApart DEF CallInv
<1>1. /\ state' = [state EXCEPT ![c] = "eCS_RUNNING"]
      /\ current' = [current EXCEPT ![t] = c] /\ stack' = [stack EXCEPT ![t] = c]
      /\ resumed' = [resumed EXCEPT ![t] = c] /\ serves' = [serves EXCEPT ![t] = s]
      /\ data' = [data EXCEPT ![c] = k]
      /\ waiter' = waiter /\ caller' = caller /\ waits' = waits
      /\ owner' = owner /\ refers' = refers /\ mapped' = mapped /\ recycle' = recycle
  BY <1>a, <1>b DEF Run, Serve, poolVars
<1>2. serves[t] = None /\ resumed[t] = None /\ taken[t] = None /\ s # None /\ \A u \in Threads : serves[u] # s
  BY <1>a, NoneApart DEF Serve, MayServe, ThreadInv, ThreadOk
<1>3. /\ call' \in [Calls -> {"free", "waiting", "taken", "deleted", "dropped"}]
      /\ taken' \in [Threads -> Calls \cup {None}]
      /\ call'[k] = "taken" /\ \A j \in Calls : j # k => call'[j] = call[j]
      /\ taken'[t] = k /\ \A u \in Threads : u # t => taken'[u] = taken[u]
  BY <1>b DEF TakeCall, Types
<1>4. InboxInv' /\ caller[k] = s
  <2>1. \A j \in Calls : call[j] # "free" => call'[j] # "free"
    BY <1>3
  <2>2. InboxInv' /\ (Head(inbox[s]) # None => caller[Head(inbox[s])] = s)
    BY <1>a, <2>1, ServeInbox
  <2> QED
    BY <1>0, <1>b, <2>2
<1>5. \A u \in Threads : resumed[u] # c /\ stack[u] # c /\ current[u] # c
  <2>1. ASSUME NEW u \in Threads PROVE resumed[u] # c
    <3>1. resumed[u] # None => serves[u] = owner[resumed[u]]
      BY DEF ThreadInv, ThreadOk
    <3>2. serves[u] # s /\ owner[c] = s /\ c # None
      BY <1>0, <1>2, <1>4
    <3> QED
      BY <3>1, <3>2
  <2>2. ASSUME NEW u \in Threads PROVE stack[u] # c /\ current[u] # c
    BY <1>0, <2>1 DEF ThreadInv, ThreadOk
  <2> QED
    BY <2>1, <2>2
<1>6. Types'
  <2>1. data' \in [Co -> Calls \cup {None}] /\ state' \in [Co -> States]
    BY <1>1 DEF Types, States
  <2>2. /\ current' \in [Threads -> Co \cup {None}] /\ stack' \in [Threads -> Co \cup {None}]
        /\ resumed' \in [Threads -> Co \cup {None}] /\ serves' \in [Threads -> Services \cup {None}]
    BY <1>1 DEF Types
  <2> QED
    BY <1>1, <1>3, <2>1, <2>2 DEF Types
<1>7. /\ state'[c] = "eCS_RUNNING" /\ \A d \in Co : d # c => state'[d] = state[d]
      /\ owner' = owner /\ waits' = waits /\ refers' = refers /\ mapped' = mapped
      /\ waiter' = waiter /\ caller' = caller
      /\ data'[c] = k /\ \A d \in Co : d # c => data'[d] = data[d]
      /\ current'[t] = c /\ stack'[t] = c /\ resumed'[t] = c /\ serves'[t] = s
      /\ \A u \in Threads : u # t =>
           current'[u] = current[u] /\ stack'[u] = stack[u] /\ resumed'[u] = resumed[u] /\ serves'[u] = serves[u]
  BY <1>1 DEF Types
<1>8. ThreadInv'
  <2>1. \A u \in Threads : u # t => resumed[u] # c /\ (resumed[u] # None => resumed[u] \in Co)
    BY <1>5 DEF Types
  <2>2. \A u \in Threads : taken[u] # None => call[taken[u]] = "taken" /\ taken[u] \in Calls
    BY DEF ThreadInv, ThreadOk, Types
  <2>3. \A u \in Threads : u # t /\ taken[u] # None => taken[u] # k
    BY <1>b, <2>2
  <2>4. ThreadOk(t)' /\ \A u \in Threads : u # t => serves'[u] # serves'[t] /\ taken'[u] # taken'[t]
    <3>1. c # None /\ k # None /\ s # None /\ c \in mapped /\ owner[c] = s
      BY <1>0, <1>2, <1>4, NoneApart
    <3>2. ThreadOk(t)'
      BY <1>3, <1>7, <3>1 DEF ThreadOk
    <3>3. ASSUME NEW u \in Threads, u # t PROVE serves'[u] # serves'[t] /\ taken'[u] # taken'[t]
      BY <1>2, <1>3, <1>7, <2>3, <3>1, <3>3
    <3> QED
      BY <3>2, <3>3
  <2>5. ASSUME NEW u \in Threads, u # t PROVE ThreadOk(u)'
    <3>1. ThreadOk(u) /\ taken'[u] = taken[u]
      BY <1>3, <2>5 DEF ThreadInv
    <3>2. /\ current'[u] = current[u] /\ stack'[u] = stack[u]
          /\ resumed'[u] = resumed[u] /\ serves'[u] = serves[u] /\ mapped' = mapped
      BY <1>7, <2>5
    <3>3. resumed[u] # None => state'[resumed[u]] = state[resumed[u]] /\ owner'[resumed[u]] = owner[resumed[u]]
      BY <1>7, <2>1, <2>5
    <3>4. taken[u] # None => call'[taken[u]] = "taken"
      BY <1>3, <2>2, <2>3, <2>5
    <3> QED
      BY <3>1, <3>2, <3>3, <3>4 DEF ThreadOk
  <2>6. ASSUME NEW u \in Threads, NEW v \in Threads, v # u
        PROVE  /\ serves'[u] # None => serves'[v] # serves'[u]
               /\ taken'[u] # None => taken'[v] # taken'[u]
    BY <1>0, <1>3, <1>7, <2>4, <2>6 DEF ThreadInv
  <2> QED
    BY <2>4, <2>5, <2>6 DEF ThreadInv
<1>9. CoInv'
  BY <1>0, <1>1, <1>2, <1>7, NoneApart DEF CoInv, ThreadInv, ThreadOk
<1>10. CallInv'
  <2>1. \A j \in Calls : call'[j] = "waiting" => j # k /\ waiter[j] # c
    BY <1>0, <1>3 DEF CallInv
  <2>2. \A j \in Calls : waiter[j] # None => waiter[j] \in Co
    BY DEF Types
  <2> QED
    BY <1>3, <1>4, <1>7, <2>1, <2>2 DEF CallInv
<1>11. RefersInv'
  BY <1>0, <1>1, <1>3, <1>7 DEF RefersInv, Types
<1>12. PoolInv'
  <2>1. Made' = Made
    BY <1>0, <1>7 DEF Made
  <2>2. \A i \in 1 .. Len(recycle) : recycle[i] \in Co /\ recycle[i] # c
    BY <1>0 DEF PoolInv, Types
  <2> QED
    BY <1>1, <1>7, <2>1, <2>2 DEF PoolInv
<1> QED
  BY <1>4, <1>6, <1>8, <1>9, <1>10, <1>11, <1>12

\* A packet nobody waits for is taken and forgotten; the rest are the two above.
LEMMA DispatchInv ==
  ASSUME Inv, NEW t \in Threads, NEW s \in Services, Dispatch(t, s)
  PROVE  Inv'
<1>1. CASE DispatchRequest(t, s)
  <2>1. /\ Serve(t, s) /\ Start(t, s, None) /\ data' = data /\ call' = call /\ taken' = taken
        /\ None \in Calls \cup {None}
    BY <1>1 DEF DispatchRequest
  <2> QED
    BY <2>1, StartInv
<1>2. CASE DispatchResponse(t, s) /\ waiter[Head(inbox[s])] = None
  <2>1. PICK k \in Calls : k = Head(inbox[s])
    BY <1>2, QueueOps DEF DispatchResponse, Serve, Inv, InboxInv
  <2>2. /\ k \in Calls \cup {None} /\ Serve(t, s) /\ Start(t, s, k) /\ data' = data
        /\ k # None /\ call[k] = "waiting" /\ waiter[k] = None /\ TakeCall(k, t)
    BY <1>2, <2>1 DEF DispatchResponse
  <2> QED
    BY <2>2, StartInv
<1>3. CASE DispatchResponse(t, s) /\ waiter[Head(inbox[s])] # None
  BY <1>3, ResumeInv
<1>4. CASE DispatchLate(t, s)
  <2>1. Serve(t, s) /\ UNCHANGED <<coVars, poolVars, callVars, threadVars>>
    BY <1>4 DEF DispatchLate, Serve, coVars, callVars
  <2>2. InboxInv'
    BY <2>1, ServeInbox DEF callVars
  <2> QED
    BY <2>1, <2>2, RestSame
<1> QED
  BY <1>1, <1>2, <1>3, <1>4 DEF Dispatch

-----------------------------------------------------------------------------
(* A coroutine, on its own stack.                                          *)

\* Who runs is on its own stack, and no other thread has it.
LEMMA RunsAlone ==
  ASSUME Inv, NEW t \in Threads, NEW c \in Co, Runs(t, c)
  PROVE  /\ c # None /\ c \in mapped /\ state[c] = "eCS_RUNNING"
         /\ current[t] = c /\ stack[t] = c /\ resumed[t] = c
         /\ serves[t] = owner[c] /\ owner[c] \in Services
         /\ \A u \in Threads : u # t => resumed[u] # c /\ current[u] # c /\ stack[u] # c
         /\ \A k \in Calls : call[k] = "waiting" => waiter[k] # c
<1> USE DEF Inv
<1>1. /\ c # None /\ current[t] = c /\ stack[t] = c /\ resumed[t] = c
      /\ c \in mapped /\ serves[t] = owner[c] /\ serves[t] # None /\ state[c] = "eCS_RUNNING"
  BY NoneApart DEF Runs, ThreadInv, ThreadOk
<1>2. \A u \in Threads : u # t => resumed[u] # c /\ current[u] # c /\ stack[u] # c
  BY <1>1 DEF ThreadInv, ThreadOk
<1>3. owner[c] \in Services
  BY <1>1 DEF Types
<1>4. \A k \in Calls : call[k] = "waiting" => waiter[k] # c
  BY <1>1 DEF CallInv
<1> QED
  BY <1>1, <1>2, <1>3, <1>4

\* The pool, when a coroutine of no state the list knows changes its state.
LEMMA PoolSame ==
  ASSUME Inv, UNCHANGED poolVars,
         \/ state' = state
         \/ \E c \in mapped : \E v \in States \ {"eCS_NONE"} : state' = [state EXCEPT ![c] = v]
  PROVE  PoolInv'
<1> USE DEF Inv
<1>1. Made' = Made
  BY DEF Made, Types, PoolInv
<1>2. \A i \in 1 .. Len(recycle) : recycle[i] \in Co
  BY DEF Types
<1>3. \A i \in 1 .. Len(recycle) : state[recycle[i]] = "eCS_DEAD" => state'[recycle[i]] = "eCS_DEAD"
  <2>1. \A d \in Co : d \notin mapped => state'[d] = state[d]
    BY DEF Types
  <2> QED
    BY <1>2, <2>1 DEF PoolInv
<1>4. mapped' = mapped /\ recycle' = recycle
  BY DEF poolVars
<1> QED
  BY <1>1, <1>3, <1>4 DEF PoolInv

\* A call is made: of sync_invoke, whose coroutine waits, or of async_invoke.
LEMMA NewCallFacts ==
  ASSUME Inv, NEW k \in Calls, NEW c \in Co, NEW by \in {None, c}, NewCall(k, c, by), owner[c] \in Services
  PROVE  /\ call[k] = "free"
         /\ call' \in [Calls -> {"free", "waiting", "taken", "deleted", "dropped"}]
         /\ waiter' \in [Calls -> Co \cup {None}] /\ caller' \in [Calls -> Services \cup {None}]
         /\ call'[k] = "waiting" /\ waiter'[k] = by /\ caller'[k] = owner[c]
         /\ \A j \in Calls : j # k => call'[j] = call[j] /\ waiter'[j] = waiter[j] /\ caller'[j] = caller[j]
         /\ \A j \in Calls : call[j] # "free" => call'[j] # "free" /\ caller'[j] = caller[j]
<1>1. /\ call[k] = "free" /\ call' = [call EXCEPT ![k] = "waiting"]
      /\ waiter' = [waiter EXCEPT ![k] = by] /\ caller' = [caller EXCEPT ![k] = owner[c]]
  BY DEF NewCall, Free
<1> QED
  BY <1>1 DEF Inv, Types

\* The queues, when only calls change.
LEMMA InboxSame ==
  ASSUME Inv, inbox' = inbox, \A k \in Calls : call[k] # "free" => call'[k] # "free" /\ caller'[k] = caller[k]
  PROVE  InboxInv'
<1>1. \A s \in Services : \A i \in 1 .. Len(inbox[s]) : inbox[s][i] \in Calls \cup {None}
  BY DEF Inv, InboxInv
<1> QED
  BY <1>1 DEF Inv, InboxInv

\* A coroutine that makes a call and yields is the one that waits for the answer.
LEMMA SyncInvokeInv ==
  ASSUME Inv, NEW t \in Threads, NEW k \in Calls, SyncInvoke(t, k)
  PROVE  Inv'
<1> USE DEF Inv
<1>1. PICK c \in Co :
        /\ Runs(t, c) /\ waits[c] = None /\ (refers[c] = None \/ CallbackYields) /\ NewCall(k, c, c)
        /\ waits' = [waits EXCEPT ![c] = k] /\ state' = [state EXCEPT ![c] = "eCS_SUSPEND"]
        /\ current' = [current EXCEPT ![t] = None]
        /\ UNCHANGED <<owner, data, refers, poolVars, inbox, stack, serves, resumed, taken, bounds>>
  BY DEF SyncInvoke
<1>2. /\ c # None /\ c \in mapped /\ state[c] = "eCS_RUNNING"
      /\ current[t] = c /\ stack[t] = c /\ resumed[t] = c
      /\ serves[t] = owner[c] /\ owner[c] \in Services
      /\ \A u \in Threads : u # t => resumed[u] # c /\ current[u] # c /\ stack[u] # c
      /\ \A j \in Calls : call[j] = "waiting" => waiter[j] # c
  BY <1>1, RunsAlone
<1>3. /\ call[k] = "free"
      /\ call' \in [Calls -> {"free", "waiting", "taken", "deleted", "dropped"}]
      /\ waiter' \in [Calls -> Co \cup {None}] /\ caller' \in [Calls -> Services \cup {None}]
      /\ call'[k] = "waiting" /\ waiter'[k] = c /\ caller'[k] = owner[c]
      /\ \A j \in Calls : j # k => call'[j] = call[j] /\ waiter'[j] = waiter[j] /\ caller'[j] = caller[j]
      /\ \A j \in Calls : call[j] # "free" => call'[j] # "free" /\ caller'[j] = caller[j]
  BY <1>1, <1>2, NewCallFacts
<1>4. /\ state'[c] = "eCS_SUSPEND" /\ \A d \in Co : d # c => state'[d] = state[d]
      /\ waits'[c] = k /\ \A d \in Co : d # c => waits'[d] = waits[d]
      /\ current'[t] = None /\ \A u \in Threads : u # t => current'[u] = current[u]
      /\ owner' = owner /\ data' = data /\ refers' = refers /\ mapped' = mapped /\ recycle' = recycle
      /\ stack' = stack /\ serves' = serves /\ resumed' = resumed /\ taken' = taken /\ inbox' = inbox
  BY <1>1 DEF Types, poolVars
<1>5. Types'
  <2>1. /\ state' \in [Co -> States] /\ waits' \in [Co -> Calls \cup {None}]
        /\ current' \in [Threads -> Co \cup {None}]
    BY <1>1 DEF Types, States
  <2> QED
    BY <1>3, <1>4, <2>1 DEF Types
<1>6. InboxInv'
  BY <1>3, <1>4, InboxSame
<1>7. ThreadInv'
  <2>1. ASSUME NEW u \in Threads PROVE ThreadOk(u)'
    <3>1. taken[u] # None => call'[taken[u]] = "taken"
      BY <1>3 DEF ThreadInv, ThreadOk, Types
    <3>2. u # t /\ resumed[u] # None => state'[resumed[u]] = state[resumed[u]]
      BY <1>2, <1>4 DEF Types
    <3> QED
      BY <1>2, <1>4, <3>1, <3>2 DEF ThreadInv, ThreadOk
  <2> QED
    BY <1>4, <2>1 DEF ThreadInv
<1>8. PoolInv'
  BY <1>1, <1>2, PoolSame DEF States
<1>9. CoInv'
  <2>1. data[c] = None
    BY <1>1, NoneApart DEF CoInv
  <2>2. ASSUME NEW d \in Co, d # c, state[d] = "eCS_RUNNING" PROVE \E u \in Threads : current'[u] = d
    BY <1>2, <1>4, <2>2 DEF CoInv
  <2> QED
    BY <1>4, <2>1, <2>2 DEF CoInv
<1>10. CallInv'
  <2>1. \A j \in Calls : waiter[j] # None => waiter[j] \in Co
    BY DEF Types
  <2> QED
    BY <1>2, <1>3, <1>4, <2>1 DEF CallInv
<1>11. RefersInv'
  BY <1>1, <1>4 DEF RefersInv
<1> QED
  BY <1>5, <1>6, <1>7, <1>8, <1>9, <1>10, <1>11

\* A call with a callback has no coroutine that waits for it.
LEMMA AsyncInvokeInv ==
  ASSUME Inv, NEW t \in Threads, NEW k \in Calls, AsyncInvoke(t, k)
  PROVE  Inv'
<1> USE DEF Inv
<1>1. PICK c \in Co :
        /\ Runs(t, c) /\ NewCall(k, c, None)
        /\ UNCHANGED <<coVars, poolVars, inbox, threadVars, bounds>>
  BY DEF AsyncInvoke
<1>2. owner[c] \in Services
  BY <1>1, RunsAlone
<1>3. /\ call[k] = "free"
      /\ call' \in [Calls -> {"free", "waiting", "taken", "deleted", "dropped"}]
      /\ waiter' \in [Calls -> Co \cup {None}] /\ caller' \in [Calls -> Services \cup {None}]
      /\ call'[k] = "waiting" /\ waiter'[k] = None /\ caller'[k] = owner[c]
      /\ \A j \in Calls : j # k => call'[j] = call[j] /\ waiter'[j] = waiter[j] /\ caller'[j] = caller[j]
      /\ \A j \in Calls : call[j] # "free" => call'[j] # "free" /\ caller'[j] = caller[j]
  BY <1>1, <1>2, NewCallFacts
<1>4. UNCHANGED <<state, owner, waits, data, refers, mapped, recycle, inbox, current, stack, serves, resumed, taken>>
  BY <1>1 DEF coVars, poolVars, threadVars
<1>5. Types'
  BY <1>3, <1>4 DEF Types
<1>6. InboxInv'
  BY <1>3, <1>4, InboxSame
<1>7. ThreadInv'
  <2>1. ASSUME NEW u \in Threads, taken[u] # None PROVE call'[taken[u]] = "taken"
    BY <1>3, <2>1 DEF ThreadInv, ThreadOk, Types
  <2> QED
    BY <1>4, <2>1 DEF ThreadInv, ThreadOk
<1>8. PoolInv'
  BY <1>1, <1>4, PoolSame
<1>9. CoInv'
  BY <1>4 DEF CoInv
<1>10. CallInv'
  BY <1>2, <1>3, <1>4 DEF CallInv
<1>11. RefersInv'
  BY <1>4 DEF RefersInv
<1> QED
  BY <1>5, <1>6, <1>7, <1>8, <1>9, <1>10, <1>11

\* A coroutine that runs on after its call uses the answer and forgets the call.
LEMMA ReadAnswerInv ==
  ASSUME Inv, NEW t \in Threads, ReadAnswer(t)
  PROVE  Inv'
<1> USE DEF Inv
<1>1. PICK c \in Co :
        /\ Runs(t, c) /\ waits[c] # None
        /\ waits' = [waits EXCEPT ![c] = None] /\ data' = [data EXCEPT ![c] = None]
        /\ UNCHANGED <<state, owner, refers, poolVars, callVars, inbox, threadVars, bounds>>
  BY DEF ReadAnswer, DelAnswer
<1>2. /\ state[c] = "eCS_RUNNING" /\ \A j \in Calls : call[j] = "waiting" => waiter[j] # c
  BY <1>1, RunsAlone
<1>3. /\ UNCHANGED <<state, owner, refers, mapped, recycle, call, waiter, caller, inbox>>
      /\ UNCHANGED <<current, stack, serves, resumed, taken>>
      /\ waits'[c] = None /\ \A d \in Co : d # c => waits'[d] = waits[d]
      /\ data'[c] = None /\ \A d \in Co : d # c => data'[d] = data[d]
  BY <1>1 DEF Types, poolVars, callVars, threadVars
<1>4. Types'
  <2>1. waits' \in [Co -> Calls \cup {None}] /\ data' \in [Co -> Calls \cup {None}]
    BY <1>1 DEF Types
  <2> QED
    BY <1>3, <2>1 DEF Types
<1>5. InboxInv' /\ ThreadInv' /\ RefersInv'
  BY <1>3 DEF InboxInv, ThreadInv, ThreadOk, RefersInv
<1>6. PoolInv'
  BY <1>1, <1>3, PoolSame
<1>7. CoInv'
  BY <1>2, <1>3 DEF CoInv
<1>8. CallInv'
  <2>1. \A j \in Calls : waiter[j] # None => waiter[j] \in Co
    BY DEF Types
  <2> QED
    BY <1>2, <1>3, <2>1 DEF CallInv
<1> QED
  BY <1>4, <1>5, <1>6, <1>7, <1>8

\* A call that is dropped is not pending any more, and wakes nobody.
LEMMA DestroyHolderInv ==
  ASSUME Inv, NEW t \in Threads, DestroyHolder(t)
  PROVE  Inv'
<1> USE DEF Inv
<1>1. PICK c \in Co :
        /\ call' = [k \in Calls |-> IF call[k] = "waiting" /\ caller[k] = owner[c] THEN "dropped" ELSE call[k]]
        /\ UNCHANGED <<coVars, poolVars, waiter, caller, inbox, threadVars, bounds>>
  BY DEF DestroyHolder
<1>2. /\ UNCHANGED <<state, owner, waits, data, refers, mapped, recycle, waiter, caller, inbox>>
      /\ UNCHANGED <<current, stack, serves, resumed, taken>>
      /\ \A k \in Calls : call'[k] = call[k] \/ (call[k] = "waiting" /\ call'[k] = "dropped")
      /\ call' \in [Calls -> {"free", "waiting", "taken", "deleted", "dropped"}]
  BY <1>1 DEF Types, coVars, poolVars, threadVars
<1>3. Types'
  BY <1>2 DEF Types
<1>4. InboxInv'
  BY <1>2, InboxSame
<1>5. ThreadInv'
  <2>1. ASSUME NEW u \in Threads, taken[u] # None PROVE call'[taken[u]] = "taken"
    BY <1>2, <2>1 DEF ThreadInv, ThreadOk, Types
  <2> QED
    BY <1>2, <2>1 DEF ThreadInv, ThreadOk
<1>6. PoolInv'
  BY <1>1, <1>2, PoolSame
<1>7. CoInv' /\ RefersInv'
  BY <1>2 DEF CoInv, RefersInv
<1>8. CallInv'
  BY <1>2 DEF CallInv
<1> QED
  BY <1>3, <1>4, <1>5, <1>6, <1>7, <1>8

\* A coroutine that ends waits for nothing and is not found by its id any more.
LEMMA FinishInv ==
  ASSUME Inv, NEW t \in Threads, Finish(t)
  PROVE  Inv'
<1> USE DEF Inv
<1>1. PICK c \in Co :
        /\ Runs(t, c) /\ waits[c] = None
        /\ state' = [state EXCEPT ![c] = "eCS_DEAD"] /\ refers' = [refers EXCEPT ![c] = None]
        /\ current' = [current EXCEPT ![t] = None]
        /\ UNCHANGED <<poolVars, owner, waits, data, callVars, inbox, stack, serves, resumed, taken, bounds>>
  BY DEF Finish, AtEnd
<1>2. /\ c # None /\ c \in mapped /\ state[c] = "eCS_RUNNING"
      /\ current[t] = c /\ stack[t] = c /\ resumed[t] = c
      /\ \A u \in Threads : u # t => resumed[u] # c /\ current[u] # c /\ stack[u] # c
      /\ \A j \in Calls : call[j] = "waiting" => waiter[j] # c
  BY <1>1, RunsAlone
<1>3. /\ UNCHANGED <<mapped, recycle, owner, waits, data, call, waiter, caller, inbox>>
      /\ UNCHANGED <<stack, serves, resumed, taken>>
      /\ state'[c] = "eCS_DEAD" /\ \A d \in Co : d # c => state'[d] = state[d]
      /\ refers'[c] = None /\ \A d \in Co : d # c => refers'[d] = refers[d]
      /\ current'[t] = None /\ \A u \in Threads : u # t => current'[u] = current[u]
  BY <1>1 DEF Types, poolVars, callVars
<1>4. Types'
  <2>1. /\ state' \in [Co -> States] /\ refers' \in [Co -> Calls \cup {None}]
        /\ current' \in [Threads -> Co \cup {None}]
    BY <1>1 DEF Types, States
  <2> QED
    BY <1>3, <2>1 DEF Types
<1>5. InboxInv'
  BY <1>3 DEF InboxInv
<1>6. ThreadInv'
  <2>1. ASSUME NEW u \in Threads PROVE ThreadOk(u)'
    <3>1. u # t /\ resumed[u] # None => state'[resumed[u]] = state[resumed[u]]
      BY <1>2, <1>3 DEF Types
    <3> QED
      BY <1>2, <1>3, <3>1 DEF ThreadInv, ThreadOk
  <2> QED
    BY <1>3, <2>1 DEF ThreadInv
<1>7. PoolInv'
  BY <1>1, <1>2, PoolSame DEF States
<1>8. CoInv'
  <2>1. data[c] = None
    BY <1>1, NoneApart DEF CoInv
  <2>2. ASSUME NEW d \in Co, d # c, state[d] = "eCS_RUNNING" PROVE \E u \in Threads : current'[u] = d
    BY <1>2, <1>3, <2>2 DEF CoInv
  <2> QED
    BY <1>1, <1>3, <2>1, <2>2 DEF CoInv
<1>9. CallInv'
  <2>1. \A j \in Calls : waiter[j] # None => waiter[j] \in Co
    BY DEF Types
  <2> QED
    BY <1>2, <1>3, <2>1 DEF CallInv
<1>10. RefersInv'
  <2>1. \A u \in Threads : resumed[u] # None => resumed[u] \in Co
    BY DEF Types
  <2> QED
    BY <1>3, <2>1 DEF RefersInv
<1> QED
  BY <1>4, <1>5, <1>6, <1>7, <1>8, <1>9, <1>10

\* The thread goes back to its own stack; the coroutine stays as it left it.
LEMMA SwitchBackInv ==
  ASSUME Inv, NEW t \in Threads, SwitchBack(t)
  PROVE  Inv'
<1> USE DEF Inv
<1>1. /\ current[t] = None /\ stack' = [stack EXCEPT ![t] = None]
      /\ UNCHANGED <<coVars, poolVars, callVars, inbox, current, serves, resumed, taken, bounds>>
  BY DEF SwitchBack
<1>2. /\ UNCHANGED <<state, owner, waits, data, refers, mapped, recycle, call, waiter, caller, inbox>>
      /\ UNCHANGED <<current, serves, resumed, taken>>
      /\ stack'[t] = None /\ \A u \in Threads : u # t => stack'[u] = stack[u]
      /\ stack' \in [Threads -> Co \cup {None}]
  BY <1>1 DEF Types, coVars, poolVars, callVars
<1>3. Types' /\ InboxInv' /\ CoInv' /\ CallInv' /\ RefersInv'
  BY <1>2 DEF Types, InboxInv, CoInv, CallInv, RefersInv
<1>4. PoolInv'
  BY <1>1, <1>2, PoolSame
<1>5. ThreadInv'
  <2>1. ASSUME NEW u \in Threads PROVE ThreadOk(u)'
    BY <1>1, <1>2 DEF ThreadInv, ThreadOk
  <2> QED
    BY <1>2, <2>1 DEF ThreadInv
<1> QED
  BY <1>3, <1>4, <1>5

-----------------------------------------------------------------------------
(* Back on the main context.                                               *)

\* A coroutine that has ended goes on the list or is deleted.
LEMMA RecyclePool ==
  ASSUME Inv, NEW c \in Co, c \in mapped, state[c] = "eCS_DEAD",
         RecycleOrDelete(c), mapped' = mapped \ {c}
  PROVE  /\ PoolInv' /\ recycle' \in Seq(Co) /\ state' \in [Co -> States]
         /\ \A d \in Co : d # c => state'[d] = state[d]
         /\ state'[c] \in {"eCS_DEAD", "deleted"}
<1> USE DEF Inv
<1>1. recycle \in Seq(Co) /\ Len(recycle) \in Nat /\ state \in [Co -> States]
  BY DEF Types
<1>2. /\ state' \in [Co -> States] /\ state'[c] \in {"eCS_DEAD", "deleted"}
      /\ \A d \in Co : d # c => state'[d] = state[d]
  BY <1>1 DEF RecycleOrDelete, States
<1>3. Made' = Made
  BY <1>2 DEF Made
<1>4. \A i \in 1 .. Len(recycle) : recycle[i] \in Co /\ recycle[i] # c
  BY <1>1 DEF PoolInv
<1>5. /\ recycle' \in Seq(Co) /\ Len(recycle') <= MaxRecycle + 1
      /\ \A i \in 1 .. Len(recycle') :
           /\ state'[recycle'[i]] = "eCS_DEAD" /\ recycle'[i] \notin mapped'
           /\ \A j \in 1 .. Len(recycle') : recycle'[j] = recycle'[i] => i = j
  <2>1. CASE Len(recycle) > MaxRecycle
    <3>1. recycle' = recycle
      BY <2>1 DEF RecycleOrDelete
    <3> QED
      BY <1>1, <1>2, <1>4, <3>1 DEF PoolInv
  <2>2. CASE ~(Len(recycle) > MaxRecycle)
    <3>1. recycle' = Append(recycle, c) /\ state' = state
      BY <2>2 DEF RecycleOrDelete
    <3>2. Len(recycle') = Len(recycle) + 1 /\ recycle' \in Seq(Co)
      BY <1>1, <3>1
    <3>3. Len(recycle') <= MaxRecycle + 1
      BY <1>1, <2>2, <3>2, CoroutineAssumption
    <3>4. \A i \in 1 .. Len(recycle') : \/ i \in 1 .. Len(recycle) /\ recycle'[i] = recycle[i]
                                        \/ i = Len(recycle) + 1 /\ recycle'[i] = c
      BY <1>1, <3>1, QueueOps
    <3>5. \A i \in 1 .. Len(recycle') : state'[recycle'[i]] = "eCS_DEAD" /\ recycle'[i] \notin mapped'
      BY <3>1, <3>4 DEF PoolInv
    <3>6. \A i, j \in 1 .. Len(recycle') : recycle'[j] = recycle'[i] => i = j
      BY <1>4, <3>4 DEF PoolInv
    <3> QED
      BY <3>2, <3>3, <3>5, <3>6
  <2> QED
    BY <2>1, <2>2
<1>6. PoolInv'
  BY <1>3, <1>5 DEF PoolInv
<1> QED
  BY <1>2, <1>5, <1>6

\* After the return the call that was taken is deleted and a dead coroutine goes to
\* the list, if there is room, so that no thread has either any longer.
LEMMA ReturnInv ==
  ASSUME Inv, NEW t \in Threads, Return(t)
  PROVE  Inv'
<1> USE DEF Inv
<1>1. PICK c \in Co : c = resumed[t] /\ c # None
  BY DEF Return, Types
<1>2. /\ c \in mapped /\ current[t] = None /\ stack[t] = None
      /\ state[c] \in {"eCS_SUSPEND", "eCS_DEAD"} /\ serves[t] = owner[c] /\ serves[t] # None
  BY <1>1 DEF Return, ThreadInv, ThreadOk
<1>3. \A u \in Threads : u # t => resumed[u] # c
  BY <1>1, <1>2 DEF ThreadInv, ThreadOk
<1>4. /\ call' = [k \in Calls |-> IF k = taken[t] THEN "deleted" ELSE call[k]]
      /\ taken' = [taken EXCEPT ![t] = None] /\ resumed' = [resumed EXCEPT ![t] = None]
      /\ serves' = [serves EXCEPT ![t] = None]
      /\ UNCHANGED <<owner, waits, data, refers, waiter, caller, inbox, current, stack, bounds>>
  BY DEF Return
<1>5. /\ PoolInv' /\ recycle' \in Seq(Co) /\ state' \in [Co -> States]
      /\ mapped' \subseteq mapped /\ \A d \in mapped : d # c => d \in mapped'
      /\ \A d \in Co : d # c => state'[d] = state[d]
      /\ \/ state[c] = "eCS_SUSPEND" /\ state' = state /\ mapped' = mapped
         \/ state[c] = "eCS_DEAD" /\ state'[c] \in {"eCS_DEAD", "deleted"}
  <2>1. CASE state[c] = "eCS_DEAD"
    <3>1. RecycleOrDelete(c) /\ mapped' = mapped \ {c}
      BY <1>1, <2>1 DEF Return
    <3> QED
      BY <1>2, <2>1, <3>1, RecyclePool
  <2>2. CASE state[c] # "eCS_DEAD"
    <3>1. UNCHANGED <<state, mapped, recycle>>
      BY <1>1, <2>2 DEF Return, poolVars
    <3>2. PoolInv'
      BY <3>1, PoolSame DEF poolVars
    <3> QED
      BY <1>2, <2>2, <3>1, <3>2 DEF Types
  <2> QED
    BY <2>1, <2>2
<1>6. /\ call' \in [Calls -> {"free", "waiting", "taken", "deleted", "dropped"}]
      /\ \A k \in Calls : call'[k] = IF k = taken[t] THEN "deleted" ELSE call[k]
      /\ taken'[t] = None /\ resumed'[t] = None /\ serves'[t] = None
      /\ \A u \in Threads : u # t => taken'[u] = taken[u] /\ resumed'[u] = resumed[u] /\ serves'[u] = serves[u]
  BY <1>4 DEF Types
<1>7. Types'
  <2>1. /\ taken' \in [Threads -> Calls \cup {None}] /\ resumed' \in [Threads -> Co \cup {None}]
        /\ serves' \in [Threads -> Services \cup {None}]
    BY <1>4 DEF Types
  <2>2. mapped' \subseteq Co
    BY <1>5 DEF Types
  <2> QED
    BY <1>4, <1>5, <1>6, <2>1, <2>2 DEF Types
<1>8. InboxInv'
  <2>1. \A k \in Calls : call[k] # "free" => call'[k] # "free" /\ caller'[k] = caller[k]
    BY <1>4, <1>6
  <2> QED
    BY <1>4, <2>1, InboxSame
<1>9. ThreadInv'
  <2>1. ThreadOk(t)'
    BY <1>2, <1>4, <1>6, NoneApart DEF ThreadOk
  <2>2. ASSUME NEW u \in Threads, u # t PROVE ThreadOk(u)'
    <3>1. taken[u] # None => call'[taken[u]] = "taken"
      BY <1>6, <2>2 DEF ThreadInv, ThreadOk, Types
    <3>2. resumed[u] # None => resumed[u] \in mapped' /\ state'[resumed[u]] = state[resumed[u]]
      BY <1>3, <1>5, <2>2 DEF ThreadInv, ThreadOk, Types
    <3> QED
      BY <1>4, <1>6, <2>2, <3>1, <3>2 DEF ThreadInv, ThreadOk
  <2> QED
    BY <1>6, <2>1, <2>2 DEF ThreadInv
<1>10. CoInv'
  <2>1. data[c] = None /\ (state[c] = "eCS_DEAD" => waits[c] = None)
    BY <1>2 DEF CoInv
  <2>2. \A d \in Co : d # c => state'[d] = state[d]
    BY <1>5
  <2>3. state'[c] # "eCS_RUNNING" /\ (state'[c] \in {"eCS_NONE", "eCS_DEAD"} => waits[c] = None)
    BY <1>2, <1>5, <2>1
  <2> QED
    BY <1>4, <2>1, <2>2, <2>3 DEF CoInv
<1>11. CallInv'
  <2>1. \A k \in Calls : call'[k] = "waiting" => call[k] = "waiting"
    BY <1>6
  <2>2. \A k \in Calls : call[k] = "waiting" /\ waiter[k] # None =>
          waiter[k] \in mapped' /\ state'[waiter[k]] = "eCS_SUSPEND"
    BY <1>5 DEF CallInv, Types
  <2>3. \A k \in Calls : call'[k] # "free" => call[k] # "free"
    <3>1. taken[t] # None => call[taken[t]] = "taken"
      BY DEF ThreadInv, ThreadOk
    <3> QED
      BY <1>6, <3>1, NoneApart
  <2> QED
    BY <1>4, <2>1, <2>2, <2>3 DEF CallInv
<1>12. RefersInv'
  <2>1. \A d \in Co : state'[d] = "eCS_SUSPEND" => state[d] = "eCS_SUSPEND"
    BY <1>5
  <2> QED
    BY <1>4, <1>6, <2>1 DEF RefersInv
<1> QED
  BY <1>5, <1>7, <1>8, <1>9, <1>10, <1>11, <1>12

-----------------------------------------------------------------------------

\* Every step keeps the invariant.
LEMMA StepInv == Inv /\ [Next]_vars => Inv'
<1> SUFFICES ASSUME Inv, [Next]_vars PROVE Inv'
  OBVIOUS
<1>1. CASE (\E s \in Services : Request(s)) \/ (\E k \in Calls : Answer(k))
  BY <1>1, ArriveInv
<1>2. ASSUME NEW t \in Threads, NEW s \in Services, Dispatch(t, s) PROVE Inv'
  BY <1>2, DispatchInv
<1>3. ASSUME NEW t \in Threads, Body(t) PROVE Inv'
  BY <1>3, SyncInvokeInv, AsyncInvokeInv, ReadAnswerInv, DestroyHolderInv, FinishInv DEF Body
<1>4. ASSUME NEW t \in Threads, SwitchBack(t) PROVE Inv'
  BY <1>4, SwitchBackInv
<1>5. ASSUME NEW t \in Threads, Return(t) PROVE Inv'
  BY <1>5, ReturnInv
<1>6. CASE UNCHANGED vars
  <2>1. UNCHANGED <<coVars, poolVars, callVars, threadVars>> /\ inbox' = inbox
    BY <1>6 DEF vars
  <2>2. InboxInv'
    BY <2>1, InboxSame DEF callVars
  <2> QED
    BY <2>1, <2>2, RestSame
<1> QED
  BY <1>1, <1>2, <1>3, <1>4, <1>5, <1>6 DEF Next

\* Whatever threads, services and coroutines there are, two threads are never on
\* one stack, a coroutine in use is not on the list, and what is on the list has
\* ended and belongs to nobody (createCoroutine, addRecycleCoroutine, resume).
THEOREM StacksKept == Spec => []StacksExact
BY InitInv, StepInv, InvStacks, PTL DEF Spec

\* A coroutine is resumed by the answer to its own call and by nothing else, also
\* when callbacks make calls that wait (sync_invoke, dispatch).
THEOREM AnswersOwned == Spec => []OwnAnswer
<1>1. Inv => OwnAnswer
  BY InvAnswer
<1> QED
  BY InitInv, StepInv, <1>1, PTL DEF Spec

\* As long as no callback makes a call that waits, the call a callback lives in
\* outlives it (dispatch deletes the call when the coroutine returns or yields).
THEOREM AnswersKept == ASSUME ~CallbackYields PROVE Spec => []AnswerSafe
<1>1. Inv => AnswerSafe
  BY InvAnswer
<1> QED
  BY InitInv, StepInv, <1>1, PTL DEF Spec

-----------------------------------------------------------------------------
(* Futures.                                                                *)

\* What may be in a context and in a future.
Callbacks ==
  {NoCall} \cup [to : {"user"}, user : Users]
           \cup [to : {"then_r", "whenAll"}, f : 1 .. MaxHandle]
ContextType ==
  [ready : BOOLEAN, val : Values \cup {0}, callback : Callbacks, waited : BOOLEAN]
FutureType ==
  [kind : {"promise", "then_r", "whenAll"}, ctx : 1 .. MaxContext, inner : 0 .. Invalid,
   of : SUBSET (1 .. MaxHandle), used : BOOLEAN, user : Users \cup {0}]

\* What a context and a future hold.
Ready(c) == context[c].ready
Val(c) == context[c].val
CallAt(c) == context[c].callback
Waited(c) == context[c].waited
Kind(f) == future[f].kind
Ctx(f) == future[f].ctx
Inner(f) == future[f].inner
Of(f) == future[f].of
Used(f) == future[f].used
User(f) == future[f].user

\* The callback of a future, and the context from which it will be called: the
\* one it was moved to, or its own.
Call(f) == CallAt(Ctx(f))
HasInner(f) == Inner(f) \in Contexts
Where(f) == IF HasInner(f) /\ CallAt(Inner(f)) # NoCall THEN Inner(f) ELSE Ctx(f)
Result(f) == Val(Where(f))
Stopped(f) == Waited(Ctx(f))
\* It has not been called yet.
Pending(f) == ~Ready(Where(f)) \/ todo = Where(f)
Owes(f) == IF Pending(f) THEN 1 ELSE 0

Shape ==
  /\ context \in Seq(ContextType) /\ Len(context) <= MaxContext
  /\ future \in Seq(FutureType) /\ Len(future) <= MaxHandle
  /\ left \in [1 .. MaxHandle -> 0 .. 2]
  /\ todo \in 0 .. Len(context)
  /\ heard \in [Users -> Seq(Values)]
  /\ \A c \in Contexts : Ready(c) => Val(c) \in Values

\* A context belongs to one future, as its own or as the one its function returned.
Owned ==
  \A f \in Futures :
    /\ Ctx(f) \in Contexts
    /\ Inner(f) \in Contexts \cup {0, Invalid}
    /\ Inner(f) # 0 => Kind(f) = "then_r"
    /\ \A g \in Futures : g # f => /\ Ctx(g) # Ctx(f) /\ Ctx(g) # Inner(f)
                                   /\ Inner(g) = Inner(f) => ~HasInner(f)

\* The two contexts of a future have the same callback, or one of them has it.
Slot(f) ==
  /\ Call(f) # NoCall => Used(f)
  /\ User(f) # 0 => Call(f) = UserCall(User(f)) /\ User(f) \in Users
  /\ HasInner(f) => CallAt(Inner(f)) \in {NoCall, Call(f)}
  /\ HasInner(f) /\ Inner(f) # Ctx(f) => ~Waited(Inner(f))
  /\ Kind(f) = "then_r" /\ ~HasInner(f) => ~Ready(Ctx(f))
  /\ ~LateThen /\ HasInner(f) /\ Call(f) # NoCall => CallAt(Inner(f)) # NoCall

\* The callback called next is one that waits for the result there is now.
TodoInv ==
  todo # 0 => Ready(todo) /\ \E f \in Futures : Where(f) = todo /\ Call(f) # NoCall

ContextsInv == Shape /\ Owned /\ (\A f \in Futures : Slot(f)) /\ TodoInv

\* A callback of the program is called once, with the result.
UserInv ==
  /\ \A f \in Futures : Call(f).to = "user" =>
       LET u == Call(f).user
       IN  /\ User(f) = u
           /\ Pending(f) => heard[u] = <<>>
           /\ ~Pending(f) => heard[u] \in {<<>>, <<Result(f)>>}
           /\ ~Pending(f) /\ ~Stopped(f) => heard[u] # <<>>
           /\ \A g \in Futures : Call(f) = Call(g) => f = g
  /\ \A u \in Users : (\A f \in Futures : User(f) # u) => heard[u] = <<>>

\* A function of then_r is called once.
ChainInv ==
  \A f \in Futures : Call(f).to = "then_r" =>
    /\ Call(f).f \in Futures /\ Kind(Call(f).f) = "then_r"
    /\ Pending(f) => Inner(Call(f).f) = 0
    /\ ~Pending(f) /\ ~Stopped(f) => Inner(Call(f).f) # 0
    /\ \A g \in Futures : Call(f) = Call(g) => f = g

\* whenAll counts the futures whose callback has not been called.
Counts(h, f, g) ==
  /\ f # g /\ Of(h) = {f, g} /\ Call(f) = AllCall(h) /\ Call(g) = AllCall(h)
  /\ left[h] >= Owes(f) + Owes(g)
  /\ ~Stopped(f) /\ ~Stopped(g) => left[h] = Owes(f) + Owes(g)
AllInv ==
  /\ \A f \in Futures : Call(f).to = "whenAll" =>
       Call(f).f \in Futures /\ Kind(Call(f).f) = "whenAll" /\ f \in Of(Call(f).f)
  /\ \A h \in Futures : Kind(h) = "whenAll" =>
       /\ left[h] = 0 <=> Ready(Ctx(h))
       /\ \E f, g \in Futures : Counts(h, f, g)

\* The inductive invariant of futures.
FutureInv == ContextsInv /\ UserInv /\ ChainInv /\ AllInv

-----------------------------------------------------------------------------
(* Callbacks and contexts.                                                 *)

\* The callbacks are told apart by whom they call.
LEMMA CallbackKinds ==
  /\ NoCall.to = "nobody" /\ NoCall \in Callbacks
  /\ \A u : UserCall(u).to = "user" /\ UserCall(u).user = u /\ (u \in Users => UserCall(u) \in Callbacks)
  /\ \A f : /\ ChainCall(f).to = "then_r" /\ ChainCall(f).f = f
            /\ AllCall(f).to = "whenAll" /\ AllCall(f).f = f
            /\ f \in 1 .. MaxHandle => ChainCall(f) \in Callbacks /\ AllCall(f) \in Callbacks
  /\ \A k \in Callbacks :
       /\ k.to \in {"nobody", "user", "then_r", "whenAll"}
       /\ k.to = "nobody" <=> k = NoCall
       /\ k.to = "user" => k.user \in Users /\ k = UserCall(k.user)
       /\ k.to = "then_r" => k.f \in 1 .. MaxHandle /\ k = ChainCall(k.f)
       /\ k.to = "whenAll" => k.f \in 1 .. MaxHandle /\ k = AllCall(k.f)
BY DEF NoCall, UserCall, ChainCall, AllCall, Callbacks

\* What is in a context and in a future.
LEMMA Fields ==
  ASSUME Shape
  PROVE  /\ \A c \in Contexts : /\ context[c] \in ContextType
                                /\ Ready(c) \in BOOLEAN /\ Waited(c) \in BOOLEAN
                                /\ Val(c) \in Values \cup {0} /\ CallAt(c) \in Callbacks
         /\ \A f \in Futures : /\ future[f] \in FutureType
                               /\ Kind(f) \in {"promise", "then_r", "whenAll"}
                               /\ Ctx(f) \in 1 .. MaxContext /\ Inner(f) \in 0 .. Invalid
                               /\ Of(f) \in SUBSET (1 .. MaxHandle) /\ Used(f) \in BOOLEAN
                               /\ User(f) \in Users \cup {0}
         /\ Len(context) \in Nat /\ Len(future) \in Nat
         /\ 0 \notin Contexts /\ Invalid \notin Contexts /\ Invalid # 0 /\ Futures \subseteq 1 .. MaxHandle
<1>1. \A c \in Contexts : context[c] \in ContextType
  BY DEF Shape, Contexts
<1>2. \A f \in Futures : future[f] \in FutureType
  BY DEF Shape, Futures
<1>3. \A c \in Contexts : Ready(c) \in BOOLEAN /\ Waited(c) \in BOOLEAN
                          /\ Val(c) \in Values \cup {0} /\ CallAt(c) \in Callbacks
  BY <1>1 DEF ContextType, Ready, Waited, Val, CallAt
<1>4. \A f \in Futures : /\ Kind(f) \in {"promise", "then_r", "whenAll"}
                         /\ Ctx(f) \in 1 .. MaxContext /\ Inner(f) \in 0 .. Invalid
                         /\ Of(f) \in SUBSET (1 .. MaxHandle) /\ Used(f) \in BOOLEAN
                         /\ User(f) \in Users \cup {0}
  BY <1>2 DEF FutureType, Kind, Ctx, Inner, Of, Used, User
<1>5. /\ Len(context) \in Nat /\ Len(future) \in Nat
      /\ 0 \notin Contexts /\ Invalid \notin Contexts /\ Invalid # 0 /\ Futures \subseteq 1 .. MaxHandle
  BY FutureAssumption DEF Shape, Contexts, Futures, Invalid
<1> QED BY <1>1, <1>2, <1>3, <1>4, <1>5

\* A callback waits in one context, and that context is its future's.
LEMMA WhereIs ==
  ASSUME ContextsInv
  PROVE  /\ \A f \in Futures : /\ Where(f) \in Contexts /\ Where(f) # 0
                               /\ Where(f) = Ctx(f) \/ (HasInner(f) /\ Where(f) = Inner(f))
                               /\ CallAt(Where(f)) = Call(f)
                               /\ Call(f) \in Callbacks
         /\ \A f, g \in Futures : Where(f) = Where(g) => f = g
<1>1. ASSUME NEW f \in Futures
      PROVE  /\ Where(f) = Ctx(f) \/ (HasInner(f) /\ Where(f) = Inner(f))
             /\ Where(f) \in Contexts
             /\ CallAt(Where(f)) = Call(f)
  BY DEF ContextsInv, Owned, Slot, Where, Call, HasInner
<1>2. 0 \notin Contexts /\ \A c \in Contexts : CallAt(c) \in Callbacks
  BY Fields DEF ContextsInv
<1>3. ASSUME NEW f \in Futures, NEW g \in Futures, Where(f) = Where(g), f # g PROVE FALSE
  BY <1>1, <1>3 DEF ContextsInv, Owned, HasInner
<1>4. \A f \in Futures : Call(f) \in Callbacks
  BY <1>1, <1>2
<1>5. \A f \in Futures : Where(f) # 0
  BY <1>1, <1>2
<1> QED BY <1>1, <1>3, <1>4, <1>5

-----------------------------------------------------------------------------
(* Futures that a step leaves alone.                                       *)

\* The callback of f stays and is not called; if a coroutine waits it may be
\* passed over.
Quiet(f) ==
  /\ Call(f)' = Call(f) /\ User(f)' = User(f)
  /\ Stopped(f) => Stopped(f)'
  /\ Pending(f)' => Pending(f)
  /\ Pending(f) => Pending(f)' \/ Stopped(f)
  /\ ~Pending(f) => Result(f)' = Result(f)

\* The callbacks of the program stay.
LEMMA UserKept ==
  ASSUME UserInv, Futures \subseteq Futures', heard' = heard,
         \A f \in Futures : User(f)' = User(f),
         \A f \in Futures : Call(f).to = "user" \/ Call(f)'.to = "user" => Quiet(f),
         \A f \in Futures' : f \notin Futures => Call(f)'.to # "user"
  PROVE  UserInv'
<1>1. ASSUME NEW f \in Futures', Call(f)'.to = "user"
      PROVE  LET u == Call(f)'.user
             IN  /\ User(f)' = u
                 /\ Pending(f)' => heard'[u] = <<>>
                 /\ ~Pending(f)' => heard'[u] \in {<<>>, <<Result(f)'>>}
                 /\ ~Pending(f)' /\ ~Stopped(f)' => heard'[u] # <<>>
                 /\ \A g \in Futures' : Call(f)' = Call(g)' => f = g
  <2>1. f \in Futures /\ Quiet(f) /\ Call(f)' = Call(f) /\ Call(f).to = "user"
    BY <1>1 DEF Quiet
  <2>2. \A g \in Futures' : Call(f)' = Call(g)' => f = g
    <3>1. ASSUME NEW g \in Futures', Call(g)' = Call(f)' PROVE f = g
      <4>1. g \in Futures /\ Call(g)'.to = "user"
        BY <1>1, <3>1
      <4>2. Call(g) = Call(f)
        BY <2>1, <3>1, <4>1 DEF Quiet
      <4> QED BY <2>1, <4>1, <4>2 DEF UserInv
    <3> QED BY <3>1
  <2>3. LET u == Call(f).user
        IN  /\ User(f) = u
            /\ Pending(f) => heard[u] = <<>>
            /\ ~Pending(f) => heard[u] \in {<<>>, <<Result(f)>>}
            /\ ~Pending(f) /\ ~Stopped(f) => heard[u] # <<>>
    BY <2>1 DEF UserInv
  <2> QED BY <2>1, <2>2, <2>3 DEF Quiet
<1>2. ASSUME NEW u \in Users, \A f \in Futures' : User(f)' # u PROVE heard'[u] = <<>>
  <2>1. \A f \in Futures : User(f) # u
    BY <1>2
  <2> QED BY <2>1 DEF UserInv
<1> QED BY <1>1, <1>2 DEF UserInv

\* The functions of then_r stay, and none is called.
LEMMA ChainKept ==
  ASSUME ChainInv, Futures \subseteq Futures',
         \A f \in Futures : Kind(f)' = Kind(f) /\ (Inner(f)' = 0 <=> Inner(f) = 0),
         \A f \in Futures : Call(f).to = "then_r" \/ Call(f)'.to = "then_r" => Quiet(f),
         \A f \in Futures' : f \notin Futures => Call(f)'.to # "then_r"
  PROVE  ChainInv'
<1>1. ASSUME NEW f \in Futures', Call(f)'.to = "then_r"
      PROVE  /\ Call(f)'.f \in Futures' /\ Kind(Call(f).f)' = "then_r"
             /\ Pending(f)' => Inner(Call(f).f)' = 0
             /\ ~Pending(f)' /\ ~Stopped(f)' => Inner(Call(f).f)' # 0
             /\ \A g \in Futures' : Call(f)' = Call(g)' => f = g
  <2>1. f \in Futures /\ Quiet(f) /\ Call(f)' = Call(f) /\ Call(f).to = "then_r"
    BY <1>1 DEF Quiet
  <2>2. \A g \in Futures' : Call(f)' = Call(g)' => f = g
    <3>1. ASSUME NEW g \in Futures', Call(g)' = Call(f)' PROVE f = g
      <4>1. g \in Futures /\ Call(g)'.to = "then_r"
        BY <1>1, <3>1
      <4>2. Call(g) = Call(f)
        BY <2>1, <3>1, <4>1 DEF Quiet
      <4> QED BY <2>1, <4>1, <4>2 DEF ChainInv
    <3> QED BY <3>1
  <2>3. PICK j : j = Call(f).f
    OBVIOUS
  <2>4. /\ j \in Futures /\ Kind(j) = "then_r"
        /\ Pending(f) => Inner(j) = 0
        /\ ~Pending(f) /\ ~Stopped(f) => Inner(j) # 0
    BY <2>1, <2>3 DEF ChainInv
  <2>5. Kind(j)' = "then_r" /\ (Inner(j)' = 0 <=> Inner(j) = 0)
    BY <2>4
  <2> QED BY <2>1, <2>2, <2>3, <2>4, <2>5 DEF Quiet
<1> QED BY <1>1 DEF ChainInv

\* What the futures joined by h stand for stays, if they are left alone.
LEMMA CountsKept ==
  ASSUME NEW h, NEW f, NEW g, Counts(h, f, g), Of(h)' = Of(h), left'[h] = left[h], left[h] \in 0 .. 2,
         Quiet(f), Quiet(g)
  PROVE  Counts(h, f, g)'
<1>1. Call(f)' = AllCall(h) /\ Call(g)' = AllCall(h) /\ f # g /\ Of(h)' = {f, g}
  BY DEF Counts, Quiet
<1>2. Owes(f) \in 0 .. 1 /\ Owes(g) \in 0 .. 1 /\ Owes(f)' \in 0 .. 1 /\ Owes(g)' \in 0 .. 1
  BY DEF Owes
<1>3. /\ Owes(f)' <= Owes(f) /\ Owes(g)' <= Owes(g)
      /\ ~Stopped(f)' => ~Stopped(f) /\ Owes(f)' = Owes(f)
      /\ ~Stopped(g)' => ~Stopped(g) /\ Owes(g)' = Owes(g)
  BY DEF Owes, Quiet
<1>4. /\ left[h] >= Owes(f) + Owes(g)
      /\ ~Stopped(f) /\ ~Stopped(g) => left[h] = Owes(f) + Owes(g)
  BY DEF Counts
<1>5. /\ left[h] >= Owes(f)' + Owes(g)'
      /\ ~Stopped(f)' /\ ~Stopped(g)' => left[h] = Owes(f)' + Owes(g)'
  BY <1>2, <1>3, <1>4
<1> QED BY <1>1, <1>5 DEF Counts

\* The futures of whenAll stay, and so does what they wait for.
LEMMA AllKept ==
  ASSUME AllInv, Shape, Futures \subseteq Futures', left' = left,
         \A f \in Futures : Kind(f)' = Kind(f) /\ Of(f)' = Of(f),
         \A f \in Futures : Kind(f) = "whenAll" => (Ready(Ctx(f))' <=> Ready(Ctx(f))),
         \A f \in Futures : Call(f).to = "whenAll" \/ Call(f)'.to = "whenAll" => Quiet(f),
         \A f \in Futures' : f \notin Futures => Call(f)'.to # "whenAll" /\ Kind(f)' # "whenAll"
  PROVE  AllInv'
<1>1. ASSUME NEW f \in Futures', Call(f)'.to = "whenAll"
      PROVE  Call(f)'.f \in Futures' /\ Kind(Call(f).f)' = "whenAll" /\ f \in Of(Call(f).f)'
  <2>1. f \in Futures /\ Call(f)' = Call(f) /\ Call(f).to = "whenAll"
    BY <1>1 DEF Quiet
  <2>2. PICK j : j = Call(f).f
    OBVIOUS
  <2>3. j \in Futures /\ Kind(j) = "whenAll" /\ f \in Of(j)
    BY <2>1, <2>2 DEF AllInv
  <2>4. Kind(j)' = "whenAll" /\ Of(j)' = Of(j) /\ j \in Futures'
    BY <2>3
  <2> QED BY <2>1, <2>2, <2>3, <2>4
<1>2. ASSUME NEW h \in Futures', Kind(h)' = "whenAll"
      PROVE  (left'[h] = 0 <=> Ready(Ctx(h))') /\ \E f, g \in Futures' : Counts(h, f, g)'
  <2>1. h \in Futures /\ Kind(h) = "whenAll" /\ Of(h)' = Of(h) /\ left[h] \in 0 .. 2
    BY <1>2, Fields DEF Shape
  <2>2. PICK f \in Futures, g \in Futures : Counts(h, f, g)
    BY <2>1 DEF AllInv
  <2>3. Quiet(f) /\ Quiet(g)
    BY <2>2, CallbackKinds DEF Counts
  <2>4. Counts(h, f, g)'
    BY <2>1, <2>2, <2>3, CountsKept
  <2>5. left[h] = 0 <=> Ready(Ctx(h))
    BY <2>1 DEF AllInv
  <2>6. Ready(Ctx(h))' <=> Ready(Ctx(h))
    BY <2>1
  <2>7. f \in Futures' /\ g \in Futures'
    BY <2>2
  <2> QED BY <2>4, <2>5, <2>6, <2>7
<1> QED BY <1>1, <1>2 DEF AllInv

-----------------------------------------------------------------------------
(* Changes to one context.                                                 *)

\* A sequence in which one element is replaced.
LEMMA SetIn ==
  ASSUME NEW S, NEW q \in Seq(S), NEW i \in 1 .. Len(q), NEW e \in S
  PROVE  /\ [q EXCEPT ![i] = e] \in Seq(S) /\ Len([q EXCEPT ![i] = e]) = Len(q)
         /\ [q EXCEPT ![i] = e][i] = e
         /\ \A j \in 1 .. Len(q) : j # i => [q EXCEPT ![i] = e][j] = q[j]
OBVIOUS

\* A sequence that is longer by one element.
LEMMA AppendTo ==
  ASSUME NEW S, NEW q \in Seq(S), NEW e \in S
  PROVE  /\ Append(q, e) \in Seq(S) /\ Len(Append(q, e)) = Len(q) + 1
         /\ Append(q, e)[Len(q) + 1] = e
         /\ \A j \in 1 .. Len(q) : Append(q, e)[j] = q[j]
OBVIOUS

\* A context is resolved.
LEMMA ResolveFacts ==
  ASSUME Shape, NEW p \in Contexts, NEW v \in Values,
         context' = [context EXCEPT ![p].ready = TRUE, ![p].val = v]
  PROVE  /\ context' \in Seq(ContextType) /\ Len(context') = Len(context)
         /\ \A c \in Contexts : CallAt(c)' = CallAt(c) /\ Waited(c)' = Waited(c)
         /\ \A c \in Contexts : c # p => Ready(c)' = Ready(c) /\ Val(c)' = Val(c)
         /\ Ready(p)' = TRUE /\ Val(p)' = v
<1>1. PICK k \in ContextType : k = context[p]
  BY Fields
<1>2. PICK e : e = [k EXCEPT !.ready = TRUE, !.val = v]
  OBVIOUS
<1>3. e \in ContextType /\ e.ready = TRUE /\ e.val = v /\ e.callback = k.callback /\ e.waited = k.waited
  BY <1>1, <1>2 DEF ContextType
<1>4. context' = [context EXCEPT ![p] = e]
  BY <1>1, <1>2
<1>5. /\ context' \in Seq(ContextType) /\ Len(context') = Len(context)
      /\ context'[p] = e /\ \A c \in Contexts : c # p => context'[c] = context[c]
  <2>1. Contexts = 1 .. Len(context) /\ context \in Seq(ContextType)
    BY DEF Shape, Contexts
  <2>2. PICK q : q = context
    OBVIOUS
  <2>3. q \in Seq(ContextType) /\ p \in 1 .. Len(q) /\ e \in ContextType
    BY <1>3, <2>1, <2>2
  <2>4. /\ [q EXCEPT ![p] = e] \in Seq(ContextType) /\ Len([q EXCEPT ![p] = e]) = Len(q)
        /\ [q EXCEPT ![p] = e][p] = e
        /\ \A j \in 1 .. Len(q) : j # p => [q EXCEPT ![p] = e][j] = q[j]
    BY ONLY <2>3, SetIn
  <2> QED BY <1>4, <2>1, <2>2, <2>4
<1>6. Ready(p)' = TRUE /\ Val(p)' = v
  BY <1>3, <1>5 DEF Ready, Val
<1>7. \A c \in Contexts : c # p => Ready(c)' = Ready(c) /\ Val(c)' = Val(c)
  BY <1>5 DEF Ready, Val
<1>8. \A c \in Contexts : CallAt(c)' = CallAt(c) /\ Waited(c)' = Waited(c)
  BY <1>1, <1>3, <1>5 DEF CallAt, Waited
<1> QED BY <1>5, <1>6, <1>7, <1>8

\* The future stays what it is, with the callback it has.
SameFuture(f) ==
  /\ Kind(f)' = Kind(f) /\ Ctx(f)' = Ctx(f) /\ Inner(f)' = Inner(f) /\ Of(f)' = Of(f)
  /\ Used(f)' = Used(f) /\ User(f)' = User(f) /\ Call(f)' = Call(f)

\* What does not depend on results and on waiting.
LEMMA SamePlaces ==
  ASSUME ContextsInv, future' = future, Len(context') = Len(context),
         \A c \in Contexts : CallAt(c)' = CallAt(c)
  PROVE  /\ Contexts' = Contexts /\ Futures' = Futures /\ Owned'
         /\ \A f \in Futures : /\ SameFuture(f)
                               /\ (HasInner(f)' <=> HasInner(f)) /\ Where(f)' = Where(f)
<1>1. Contexts' = Contexts /\ Futures' = Futures
  BY DEF Contexts, Futures
<1>2. \A f : /\ Kind(f)' = Kind(f) /\ Ctx(f)' = Ctx(f) /\ Inner(f)' = Inner(f) /\ Of(f)' = Of(f)
             /\ Used(f)' = Used(f) /\ User(f)' = User(f)
  BY DEF Kind, Ctx, Inner, Of, Used, User
<1>3. \A f : HasInner(f)' <=> HasInner(f)
  BY <1>1, <1>2 DEF HasInner
<1>4. Owned'
  BY <1>1, <1>2, <1>3 DEF ContextsInv, Owned
<1>5. ASSUME NEW f \in Futures PROVE Call(f)' = Call(f) /\ Where(f)' = Where(f)
  <2>1. Ctx(f) \in Contexts
    BY DEF ContextsInv, Owned
  <2>2. Call(f)' = Call(f)
    BY <1>2, <2>1 DEF Call
  <2>3. HasInner(f) => CallAt(Inner(f))' = CallAt(Inner(f))
    BY <1>2 DEF HasInner
  <2> QED BY <1>2, <1>3, <2>2, <2>3 DEF Where
<1> QED BY <1>1, <1>2, <1>3, <1>4, <1>5 DEF SameFuture

-----------------------------------------------------------------------------
(* Resolving a context, and calling what waits for it.                     *)

\* The callback of f is called: it had not been, and now it has.
Passed(f) ==
  /\ Call(f)' = Call(f) /\ User(f)' = User(f) /\ (Stopped(f)' <=> Stopped(f))
  /\ Pending(f) /\ ~Pending(f)' /\ Result(f)' = Result(f)

\* A context that a promise of the program, or of whenAll, may still resolve.
Open(p) ==
  /\ p \in Contexts /\ ~Ready(p)
  /\ \E o \in Futures : (Inner(o) = p) \/ (Ctx(o) = p /\ Kind(o) # "then_r")

\* Its future, and where the future's callback waits.
LEMMA OpenOwner ==
  ASSUME ContextsInv, NEW p, Open(p)
  PROVE  /\ \A f \in Futures : Ctx(f) = p /\ Kind(f) = "then_r" => HasInner(f)
         /\ CallAt(p) # NoCall => \E f \in Futures : Where(f) = p /\ Call(f) # NoCall
<1>1. PICK o \in Futures : (Inner(o) = p) \/ (Ctx(o) = p /\ Kind(o) # "then_r")
  BY DEF Open
<1>2. p \in Contexts
  BY DEF Open
<1>3. ASSUME NEW f \in Futures, Ctx(f) = p, Kind(f) = "then_r" PROVE HasInner(f)
  BY <1>1, <1>2, <1>3 DEF ContextsInv, Owned, HasInner
<1>4. ASSUME CallAt(p) # NoCall PROVE Where(o) = p /\ Call(o) # NoCall
  <2>1. CASE Inner(o) = p
    <3>1. HasInner(o) /\ Where(o) = p
      BY <1>2, <1>4, <2>1 DEF HasInner, Where
    <3> QED BY <1>4, <3>1, WhereIs
  <2>2. CASE Ctx(o) = p /\ Kind(o) # "then_r"
    <3>1. Inner(o) = 0
      BY <2>2 DEF ContextsInv, Owned
    <3>2. ~HasInner(o)
      BY <3>1, Fields DEF ContextsInv, HasInner
    <3> QED BY <1>4, <2>2, <3>2 DEF Where, Call
  <2> QED BY <1>1, <2>1, <2>2
<1> QED BY <1>3, <1>4

\* A context is resolved: its callback is called next, the one that was is called.
LEMMA Resolves ==
  ASSUME ContextsInv, NEW p, Open(p), NEW v \in Values, future' = future,
         context' = [context EXCEPT ![p].ready = TRUE, ![p].val = v], todo' = CallOf(p)
  PROVE  /\ context' \in Seq(ContextType) /\ Len(context') = Len(context)
         /\ \A c \in Contexts' : Ready(c)' => Val(c)' \in Values
         /\ \A c \in Contexts : Ready(c) => Ready(c)' /\ Val(c)' = Val(c)
         /\ todo' \in 0 .. Len(context')
         /\ Contexts' = Contexts /\ Futures' = Futures /\ Owned' /\ TodoInv'
         /\ \A f \in Futures : Slot(f)' /\ SameFuture(f)
         /\ Ready(p)' /\ \A c \in Contexts : c # p => (Ready(c)' <=> Ready(c))
         /\ \A f \in Futures : Call(f) # NoCall /\ Where(f) # todo => Quiet(f)
         /\ \A f \in Futures : Where(f) = todo => Passed(f)
<1>1. p \in Contexts /\ ~Ready(p) /\ Shape
  BY DEF Open, ContextsInv
<1>2. /\ context' \in Seq(ContextType) /\ Len(context') = Len(context)
      /\ \A c \in Contexts : CallAt(c)' = CallAt(c) /\ Waited(c)' = Waited(c)
      /\ \A c \in Contexts : c # p => Ready(c)' = Ready(c) /\ Val(c)' = Val(c)
      /\ Ready(p)' = TRUE /\ Val(p)' = v
  BY <1>1, ResolveFacts
<1>3. /\ Contexts' = Contexts /\ Futures' = Futures /\ Owned'
      /\ \A f \in Futures : SameFuture(f)
      /\ \A f \in Futures :
           /\ Kind(f)' = Kind(f) /\ Ctx(f)' = Ctx(f) /\ Inner(f)' = Inner(f) /\ Of(f)' = Of(f)
           /\ Used(f)' = Used(f) /\ User(f)' = User(f)
           /\ Call(f)' = Call(f) /\ (HasInner(f)' <=> HasInner(f)) /\ Where(f)' = Where(f)
  <2>1. /\ Contexts' = Contexts /\ Futures' = Futures /\ Owned'
        /\ \A f \in Futures : SameFuture(f) /\ (HasInner(f)' <=> HasInner(f)) /\ Where(f)' = Where(f)
    BY <1>2, SamePlaces
  <2> QED BY <2>1 DEF SameFuture
<1>4. CallOf(p) = IF Waited(p) \/ CallAt(p) = NoCall THEN 0 ELSE p
  BY DEF CallOf, Waited, CallAt
<1>5. 0 \notin Contexts /\ \A f \in Futures : Ctx(f) \in Contexts
  BY <1>1, Fields DEF ContextsInv, Owned
<1>6. \A f \in Futures : Stopped(f)' <=> Stopped(f)
  BY <1>2, <1>3, <1>5 DEF Stopped
<1>7. todo # p
  BY <1>1, <1>5 DEF ContextsInv, TodoInv
<1>8. ASSUME NEW f \in Futures PROVE Slot(f)'
  <2>0. PICK i : i = Inner(f)
    OBVIOUS
  <2>1. HasInner(f) => CallAt(i)' = CallAt(i) /\ Waited(i)' = Waited(i)
    BY <1>2, <2>0 DEF HasInner
  <2>2. Kind(f) = "then_r" /\ ~HasInner(f) => Ctx(f) # p
    BY OpenOwner
  <2>3. PICK c : c = Ctx(f)
    OBVIOUS
  <2>4. Kind(f) = "then_r" /\ ~HasInner(f) => ~Ready(c)'
    BY <1>2, <1>5, <2>2, <2>3 DEF ContextsInv, Slot
  <2> QED BY <1>3, <2>0, <2>1, <2>3, <2>4 DEF ContextsInv, Slot
<1>9. ASSUME NEW f \in Futures, Call(f) # NoCall, Where(f) # todo PROVE Quiet(f)
  <2>1. Where(f) \in Contexts /\ Where(f) # 0 /\ CallAt(Where(f)) = Call(f)
    BY WhereIs
  <2>2. CASE Where(f) # p
    <3>0. PICK w : w = Where(f)
      OBVIOUS
    <3>1. Ready(w)' = Ready(w) /\ Val(w)' = Val(w)
      BY <1>2, <2>1, <2>2, <3>0
    <3>2. todo' # Where(f)
      BY <1>4, <2>1, <2>2
    <3>3. Pending(f)' <=> Pending(f)
      BY <1>3, <1>9, <3>0, <3>1, <3>2 DEF Pending
    <3>4. Result(f)' = Result(f)
      BY <1>3, <3>0, <3>1 DEF Result
    <3> QED BY <1>3, <1>6, <3>3, <3>4 DEF Quiet
  <2>3. CASE Where(f) = p
    <3>1. Pending(f)
      BY <1>1, <2>3 DEF Pending
    <3>2. Waited(p) => Stopped(f)
      BY <2>3, WhereIs DEF ContextsInv, Slot, Stopped
    <3>3. Pending(f)' \/ Stopped(f)
      BY <1>3, <1>4, <1>9, <2>1, <2>3, <3>2 DEF Pending
    <3> QED BY <1>3, <1>6, <3>1, <3>3 DEF Quiet
  <2> QED BY <2>2, <2>3
<1>10. ASSUME NEW f \in Futures, Where(f) = todo PROVE Passed(f)
  <2>1. todo \in Contexts /\ todo # 0
    BY <1>10, WhereIs
  <2>2. Ready(todo)
    BY <2>1 DEF ContextsInv, TodoInv
  <2>3. PICK t : t = todo
    OBVIOUS
  <2>8. Ready(t)' = TRUE /\ Val(t)' = Val(t)
    BY <1>2, <1>7, <2>1, <2>2, <2>3
  <2>4. Pending(f)
    BY <1>10 DEF Pending
  <2>5. Where(f)' = todo /\ todo' # todo
    BY <1>3, <1>4, <1>7, <1>10, <2>1
  <2>6. Where(f) = t /\ Where(f)' = t /\ todo' # t
    BY <1>10, <2>3, <2>5
  <2>7. ~Pending(f)' /\ Result(f)' = Result(f)
    BY <2>6, <2>8 DEF Pending, Result
  <2> QED BY <1>3, <1>6, <2>4, <2>7 DEF Passed
<1>11. TodoInv'
  <2>1. ASSUME todo' # 0 PROVE Ready(todo)' /\ \E f \in Futures' : Where(f)' = todo' /\ Call(f)' # NoCall
    <3>1. todo' = p /\ CallAt(p) # NoCall
      BY <1>4, <2>1
    <3>2. PICK f \in Futures : Where(f) = p /\ Call(f) # NoCall
      BY <3>1, OpenOwner
    <3>3. Where(f)' = todo' /\ Call(f)' # NoCall
      BY <1>3, <3>1, <3>2
    <3>4. Ready(todo)'
      BY <1>2, <3>1
    <3> QED BY <1>3, <3>3, <3>4
  <2> QED BY <2>1 DEF TodoInv
<1>12. \A c \in Contexts' : Ready(c)' => Val(c)' \in Values
  BY <1>1, <1>2, <1>3 DEF Shape
<1>13. \A c \in Contexts : Ready(c) => Ready(c)' /\ Val(c)' = Val(c)
  BY <1>1, <1>2
<1>14. todo' \in 0 .. Len(context')
  BY <1>1, <1>2, <1>4, Fields DEF Contexts
<1> QED BY <1>2, <1>3, <1>8, <1>9, <1>10, <1>11, <1>12, <1>13, <1>14

\* A call ends, and nothing is called next.
LEMMA Returns ==
  ASSUME ContextsInv, future' = future, context' = context, todo' = 0
  PROVE  /\ Contexts' = Contexts /\ Futures' = Futures /\ Owned' /\ TodoInv'
         /\ \A f \in Futures : Slot(f)' /\ SameFuture(f)
         /\ \A f \in Futures : Where(f) # todo => Quiet(f)
         /\ \A f \in Futures : Where(f) = todo => Passed(f)
<1>1. \A c : Ready(c)' = Ready(c) /\ Waited(c)' = Waited(c) /\ CallAt(c)' = CallAt(c) /\ Val(c)' = Val(c)
  BY DEF Ready, Waited, CallAt, Val
<1>2. Len(context') = Len(context)
  OBVIOUS
<1>3. /\ Contexts' = Contexts /\ Futures' = Futures /\ Owned'
      /\ \A f \in Futures : SameFuture(f) /\ (HasInner(f)' <=> HasInner(f)) /\ Where(f)' = Where(f)
  BY <1>1, <1>2, SamePlaces
<1>4. \A f \in Futures :
        /\ Kind(f)' = Kind(f) /\ Ctx(f)' = Ctx(f) /\ Inner(f)' = Inner(f)
        /\ Used(f)' = Used(f) /\ User(f)' = User(f) /\ Call(f)' = Call(f)
  BY <1>3 DEF SameFuture
<1>5. ASSUME NEW f \in Futures PROVE Slot(f)'
  BY <1>1, <1>3, <1>4 DEF ContextsInv, Slot
<1>6. \A f \in Futures : (Stopped(f)' <=> Stopped(f)) /\ Result(f)' = Result(f)
  BY <1>1, <1>3, <1>4 DEF Stopped, Result
<1>7. \A f \in Futures : Where(f) # 0
  BY WhereIs
<1>8. ASSUME NEW f \in Futures PROVE Pending(f)' <=> ~Ready(Where(f))
  BY <1>1, <1>3, <1>7 DEF Pending
<1>9. ASSUME NEW f \in Futures, Where(f) # todo PROVE Quiet(f)
  BY <1>4, <1>6, <1>8, <1>9 DEF Quiet, Pending
<1>10. ASSUME NEW f \in Futures, Where(f) = todo PROVE Passed(f)
  <2>1. Ready(todo)
    BY <1>7, <1>10 DEF ContextsInv, TodoInv
  <2> QED BY <1>4, <1>6, <1>8, <1>10, <2>1 DEF Passed, Pending
<1>11. TodoInv'
  BY DEF TodoInv
<1> QED BY <1>3, <1>5, <1>9, <1>10, <1>11

\* Nothing is being called, so all callbacks wait where they are.
LEMMA IdleWhere ==
  ASSUME ContextsInv, Idle
  PROVE  \A f \in Futures : Where(f) # todo
BY WhereIs DEF Idle

\* setValue.
LEMMA InvSetValue ==
  ASSUME FutureInv, NEW c, NEW v \in Values, SetValue(c, v)
  PROVE  FutureInv'
<1>1. /\ future' = future /\ left' = left /\ heard' = heard /\ todo' = CallOf(c)
      /\ context' = [context EXCEPT ![c].ready = TRUE, ![c].val = v]
      /\ c \in Promised /\ Takes(c) /\ Idle
  BY DEF SetValue
<1>2. ContextsInv /\ Shape
  BY DEF FutureInv, ContextsInv
<1>3. \E o \in Futures : \/ Kind(o) = "promise" /\ Ctx(o) = c
                         \/ Kind(o) = "then_r" /\ Inner(o) = c /\ HasInner(o)
  <2>1. c # 0 /\ c # Invalid
    BY <1>1 DEF Promised
  <2>2. \E o \in Futures : (Kind(o) = "promise" /\ Ctx(o) = c) \/ (Kind(o) = "then_r" /\ Inner(o) = c)
    BY <1>1 DEF Promised, Kind, Ctx, Inner
  <2> QED BY <1>2, <2>1, <2>2 DEF ContextsInv, Owned, HasInner
<1>4. Open(c)
  BY <1>1, <1>2, <1>3 DEF Open, ContextsInv, Owned, HasInner, Takes, Ready
<1>5. /\ context' \in Seq(ContextType) /\ Len(context') = Len(context)
      /\ \A d \in Contexts' : Ready(d)' => Val(d)' \in Values
      /\ todo' \in 0 .. Len(context')
      /\ Contexts' = Contexts /\ Futures' = Futures /\ Owned' /\ TodoInv'
      /\ \A f \in Futures : Slot(f)' /\ SameFuture(f)
      /\ Ready(c)' /\ \A d \in Contexts : d # c => (Ready(d)' <=> Ready(d))
      /\ \A f \in Futures : Call(f) # NoCall /\ Where(f) # todo => Quiet(f)
  BY <1>1, <1>2, <1>4, Resolves
<1>6. ContextsInv'
  BY <1>1, <1>2, <1>5 DEF ContextsInv, Shape
<1>7. \A f \in Futures : Call(f) # NoCall => Quiet(f)
  BY <1>1, <1>2, <1>5, IdleWhere
<1>8. /\ \A f \in Futures : Kind(f)' = Kind(f) /\ Inner(f)' = Inner(f) /\ Of(f)' = Of(f)
                            /\ User(f)' = User(f) /\ Call(f)' = Call(f)
      /\ NoCall.to = "nobody"
  BY <1>5, CallbackKinds DEF SameFuture
<1>9. UserInv'
  BY <1>1, <1>5, <1>7, <1>8, UserKept DEF FutureInv
<1>10. ChainInv'
  BY <1>5, <1>7, <1>8, ChainKept DEF FutureInv
<1>11. ASSUME NEW f \in Futures, Kind(f) = "whenAll" PROVE Ready(Ctx(f))' <=> Ready(Ctx(f))
  <2>1. PICK d : d = Ctx(f)
    OBVIOUS
  <2>2. d # c /\ d \in Contexts
    BY <1>2, <1>3, <1>11, <2>1 DEF ContextsInv, Owned
  <2>3. Ctx(f)' = d
    BY <1>5, <2>1 DEF SameFuture
  <2> QED BY <1>5, <2>1, <2>2, <2>3
<1>12. AllInv'
  BY <1>1, <1>2, <1>5, <1>7, <1>8, <1>11, AllKept DEF FutureInv
<1> QED BY <1>6, <1>9, <1>10, <1>12 DEF FutureInv

\* The future whose callback is called.
LEMMA Caller ==
  ASSUME ContextsInv, todo # 0
  PROVE  /\ todo \in Contexts /\ Ready(todo) /\ Val(todo) \in Values
         /\ \E x \in Futures : /\ Where(x) = todo /\ Call(x) # NoCall /\ CallAt(todo) = Call(x)
                               /\ Result(x) = Val(todo) /\ Pending(x)
                               /\ \A f \in Futures : f # x => Where(f) # todo
<1>1. Ready(todo)
  BY DEF ContextsInv, TodoInv
<1>2. PICK x \in Futures : Where(x) = todo /\ Call(x) # NoCall
  BY DEF ContextsInv, TodoInv
<1>3. todo \in Contexts /\ CallAt(todo) = Call(x) /\ \A f \in Futures : f # x => Where(f) # todo
  BY <1>2, WhereIs
<1>4. Result(x) = Val(todo) /\ Pending(x)
  BY <1>2 DEF Result, Pending
<1>5. Val(todo) \in Values
  BY <1>1, <1>3 DEF ContextsInv, Shape
<1> QED BY <1>1, <1>2, <1>3, <1>4, <1>5

\* The call of a callback of the program.
LEMMA InvCallUser ==
  ASSUME FutureInv, CallUser
  PROVE  FutureInv'
<1>1. PICK u : u = CallAt(todo).user
  OBVIOUS
<1>2. PICK v : v = Val(todo)
  OBVIOUS
<1>3. /\ future' = future /\ left' = left /\ context' = context /\ todo' = 0 /\ todo # 0
      /\ CallAt(todo).to = "user" /\ heard' = [heard EXCEPT ![u] = Append(heard[u], v)]
  BY <1>1, <1>2 DEF CallUser, CallAt, Val
<1>4. ContextsInv /\ Shape /\ UserInv
  BY DEF FutureInv, ContextsInv
<1>5. /\ todo \in Contexts /\ Ready(todo) /\ v \in Values
      /\ \E x \in Futures : /\ Where(x) = todo /\ Call(x) # NoCall /\ CallAt(todo) = Call(x)
                            /\ Result(x) = v /\ Pending(x)
                            /\ \A f \in Futures : f # x => Where(f) # todo
  BY <1>2, <1>3, <1>4, Caller
<1>6. PICK x \in Futures : /\ Where(x) = todo /\ Call(x) # NoCall /\ CallAt(todo) = Call(x)
                           /\ Result(x) = v /\ Pending(x)
                           /\ \A f \in Futures : f # x => Where(f) # todo
  BY <1>5
<1>7. /\ Contexts' = Contexts /\ Futures' = Futures /\ Owned' /\ TodoInv'
      /\ \A f \in Futures : Slot(f)' /\ SameFuture(f)
      /\ \A f \in Futures : Where(f) # todo => Quiet(f)
      /\ \A f \in Futures : Where(f) = todo => Passed(f)
  BY <1>3, <1>4, Returns
<1>8. \A f \in Futures : f # x => Quiet(f)
  BY <1>6, <1>7
<1>9. Passed(x) /\ Call(x).to = "user" /\ Call(x).user = u
  BY <1>1, <1>3, <1>6, <1>7
<1>10. u \in Users /\ \A f \in Futures : Call(f) \in Callbacks
  BY <1>4, <1>9, WhereIs, CallbackKinds
<1>11. User(x) = u /\ heard[u] = <<>> /\ \A g \in Futures : Call(x) = Call(g) => g = x
  BY <1>4, <1>6, <1>9 DEF UserInv
<1>12. /\ heard' \in [Users -> Seq(Values)] /\ heard'[u] = <<v>>
       /\ \A w : w # u => heard'[w] = heard[w]
  <2>1. heard \in [Users -> Seq(Values)]
    BY <1>4 DEF Shape
  <2>2. <<v>> \in Seq(Values) /\ Append(<<>>, v) = <<v>>
    BY <1>5
  <2>3. heard' = [heard EXCEPT ![u] = <<v>>]
    BY <1>3, <1>11, <2>2
  <2> QED BY <1>10, <2>1, <2>2, <2>3
<1>13. ContextsInv'
  <2>1. Shape'
    BY <1>3, <1>4, <1>12 DEF Shape, Contexts, Ready, Val
  <2> QED BY <1>7, <2>1 DEF ContextsInv
<1>14. \A f \in Futures : /\ Kind(f)' = Kind(f) /\ Inner(f)' = Inner(f) /\ Of(f)' = Of(f)
                          /\ User(f)' = User(f) /\ Call(f)' = Call(f) /\ Ctx(f)' = Ctx(f)
  BY <1>7 DEF SameFuture
<1>15. ChainInv'
  BY <1>7, <1>8, <1>9, <1>14, ChainKept DEF FutureInv
<1>16. AllInv'
  <2>1. \A f \in Futures : Ready(Ctx(f))' <=> Ready(Ctx(f))
    BY <1>3, <1>14 DEF Ready
  <2> QED BY <1>3, <1>4, <1>7, <1>8, <1>9, <1>14, <2>1, AllKept DEF FutureInv
<1>17. ASSUME NEW f \in Futures, Call(f).to = "user"
       PROVE  LET w == Call(f)'.user
              IN  /\ User(f)' = w
                  /\ Pending(f)' => heard'[w] = <<>>
                  /\ ~Pending(f)' => heard'[w] \in {<<>>, <<Result(f)'>>}
                  /\ ~Pending(f)' /\ ~Stopped(f)' => heard'[w] # <<>>
                  /\ \A g \in Futures' : Call(f)' = Call(g)' => f = g
  <2>0. PICK w : w = Call(f).user
    OBVIOUS
  <2>1. /\ User(f) = w
        /\ Pending(f) => heard[w] = <<>>
        /\ ~Pending(f) => heard[w] \in {<<>>, <<Result(f)>>}
        /\ ~Pending(f) /\ ~Stopped(f) => heard[w] # <<>>
        /\ \A g \in Futures : Call(f) = Call(g) => f = g
    BY <1>4, <1>17, <2>0 DEF UserInv
  <2>2. \A g \in Futures' : Call(f)' = Call(g)' => f = g
    BY <1>7, <1>14, <2>1
  <2>3. Call(f)'.user = w /\ User(f)' = w
    BY <1>14, <2>0, <2>1
  <2>4. CASE f = x
    <3>1. ~Pending(f)' /\ Result(f)' = v /\ w = u
      BY <1>6, <1>9, <2>0, <2>4 DEF Passed
    <3>3. heard'[w] = <<v>>
      BY <1>12, <3>1
    <3>4. <<v>> # <<>>
      OBVIOUS
    <3>2. heard'[w] = <<Result(f)'>> /\ heard'[w] # <<>>
      BY ONLY <3>1, <3>3, <3>4
    <3> QED BY <2>2, <2>3, <3>1, <3>2
  <2>5. CASE f # x
    <3>1. w # u
      BY <1>6, <1>9, <1>10, <1>17, <2>0, <2>1, <2>5, CallbackKinds
    <3>2. heard'[w] = heard[w]
      BY <1>12, <3>1
    <3>3. Quiet(f)
      BY <1>8, <2>5
    <3> QED BY <2>1, <2>2, <2>3, <3>2, <3>3 DEF Quiet
  <2> QED BY <2>4, <2>5
<1>18. ASSUME NEW w \in Users, \A f \in Futures' : User(f)' # w PROVE heard'[w] = <<>>
  <2>1. \A f \in Futures : User(f) # w
    BY <1>7, <1>14, <1>18
  <2>2. w # u /\ heard[w] = <<>>
    BY <1>4, <1>11, <2>1 DEF UserInv
  <2> QED BY <1>12, <2>2
<1>19. UserInv'
  BY <1>7, <1>14, <1>17, <1>18 DEF UserInv
<1> QED BY <1>13, <1>15, <1>16, <1>19 DEF FutureInv

\* One callback of h has been called, and the value is there when it was the last.
LEMMA Counted ==
  ASSUME FutureInv, NEW x \in Futures, NEW h \in Futures, Kind(h) = "whenAll", Call(x) = AllCall(h),
         Passed(x), \A f \in Futures : f # x /\ Call(f) # NoCall => Quiet(f),
         Futures' = Futures, \A f \in Futures : SameFuture(f),
         left'[h] = left[h] - 1, \A j \in Futures : j # h => left'[j] = left[j],
         \A c \in Contexts : c # Ctx(h) => (Ready(c)' <=> Ready(c)),
         Ready(Ctx(h))' <=> left'[h] = 0
  PROVE  AllInv'
<1>1. ContextsInv /\ AllInv /\ Shape
  BY DEF FutureInv, ContextsInv
<1>2. /\ \A f \in Futures : Kind(f)' = Kind(f) /\ Of(f)' = Of(f) /\ Call(f)' = Call(f) /\ Ctx(f)' = Ctx(f)
      /\ \A f \in Futures : Call(f) \in Callbacks
  BY <1>1, WhereIs DEF SameFuture
<1>3. \A j \in Futures : left[j] \in 0 .. 2
  BY <1>1, Fields DEF Shape
<1>4. ASSUME NEW f \in Futures', Call(f)'.to = "whenAll"
      PROVE  Call(f)'.f \in Futures' /\ Kind(Call(f).f)' = "whenAll" /\ f \in Of(Call(f).f)'
  <2>1. PICK j : j = Call(f).f
    OBVIOUS
  <2>2. f \in Futures /\ Call(f)' = Call(f) /\ Call(f).to = "whenAll"
    BY <1>2, <1>4
  <2>3. j \in Futures /\ Kind(j) = "whenAll" /\ f \in Of(j)
    BY <1>1, <2>1, <2>2 DEF AllInv
  <2> QED BY <1>2, <2>1, <2>2, <2>3
<1>5. ASSUME NEW j \in Futures, Kind(j) = "whenAll", j # h
      PROVE  (left'[j] = 0 <=> Ready(Ctx(j))') /\ \E f, g \in Futures : Counts(j, f, g)'
  <2>1. PICK f \in Futures, g \in Futures : Counts(j, f, g)
    BY <1>1, <1>5 DEF AllInv
  <2>2. Call(f) # NoCall /\ Call(g) # NoCall /\ f # x /\ g # x
    BY <1>5, <2>1, CallbackKinds DEF Counts
  <2>3. Quiet(f) /\ Quiet(g)
    BY <2>2
  <2>4. Counts(j, f, g)'
    BY <1>2, <1>3, <1>5, <2>1, <2>3, CountsKept
  <2>5. PICK c : c = Ctx(j)
    OBVIOUS
  <2>6. c \in Contexts /\ c # Ctx(h) /\ Ctx(j)' = c
    BY <1>1, <1>2, <1>5, <2>5 DEF ContextsInv, Owned
  <2>7. Ready(Ctx(j))' <=> Ready(c)
    BY <2>6
  <2> QED BY <1>1, <1>5, <2>1, <2>4, <2>5, <2>7 DEF AllInv
<1>6. \E f, g \in Futures : Counts(h, f, g)'
  <2>1. PICK f \in Futures, g \in Futures : Counts(h, f, g)
    BY <1>1 DEF AllInv
  <2>2. x \in Of(h)
    BY <1>1, CallbackKinds DEF AllInv
  <2>3. PICK y \in Futures : y # x /\ Of(h) = {x, y} /\ Call(y) = AllCall(h)
          /\ left[h] >= Owes(x) + Owes(y)
          /\ (~Stopped(x) /\ ~Stopped(y) => left[h] = Owes(x) + Owes(y))
    <3>1. Owes(f) \in 0 .. 1 /\ Owes(g) \in 0 .. 1
      BY DEF Owes
    <3>2. CASE x = f
      BY <2>1, <3>2 DEF Counts
    <3>3. CASE x = g
      BY <2>1, <3>1, <3>3 DEF Counts
    <3> QED BY <2>1, <2>2, <3>2, <3>3 DEF Counts
  <2>4. Owes(x) = 1 /\ Owes(x)' = 0 /\ Owes(y) \in 0 .. 1 /\ Owes(y)' \in 0 .. 1
        /\ (Stopped(x)' <=> Stopped(x))
    BY DEF Owes, Passed
  <2>5. Quiet(y)
    BY <2>3, CallbackKinds
  <2>6. Owes(y)' <= Owes(y) /\ (~Stopped(y)' => ~Stopped(y) /\ Owes(y)' = Owes(y))
    BY <2>5 DEF Quiet, Owes
  <2>7. /\ left'[h] >= Owes(x)' + Owes(y)'
        /\ ~Stopped(x)' /\ ~Stopped(y)' => left'[h] = Owes(x)' + Owes(y)'
    BY <1>3, <2>3, <2>4, <2>6
  <2>8. Of(h)' = {x, y} /\ Call(x)' = AllCall(h) /\ Call(y)' = AllCall(h)
    BY <1>2, <2>3
  <2>9. Counts(h, x, y)'
    BY <2>3, <2>7, <2>8 DEF Counts
  <2> QED BY <2>9
<1>7. Ready(Ctx(h))' <=> left'[h] = 0
  OBVIOUS
<1> QED BY <1>2, <1>4, <1>5, <1>6, <1>7, ZenonT(60) DEF AllInv

\* What whenAll is told: at least one callback is still to be called.
LEMMA OneLeft ==
  ASSUME FutureInv, NEW x \in Futures, Call(x).to = "whenAll", Pending(x)
  PROVE  LET h == Call(x).f
         IN  /\ h \in Futures /\ Kind(h) = "whenAll" /\ Call(x) = AllCall(h)
             /\ left[h] \in 1 .. 2 /\ ~Ready(Ctx(h)) /\ Ctx(h) \in Contexts
<1>1. PICK h : h = Call(x).f
  OBVIOUS
<1>2. ContextsInv /\ AllInv /\ Shape
  BY DEF FutureInv, ContextsInv
<1>3. h \in Futures /\ Kind(h) = "whenAll" /\ x \in Of(h)
  BY <1>1, <1>2 DEF AllInv
<1>4. Call(x) = AllCall(h) /\ Ctx(h) \in Contexts /\ left[h] \in 0 .. 2
  BY <1>1, <1>2, <1>3, WhereIs, CallbackKinds, Fields DEF ContextsInv, Owned, Shape
<1>5. PICK f \in Futures, g \in Futures : Counts(h, f, g)
  BY <1>2, <1>3 DEF AllInv
<1>6. x \in {f, g} /\ left[h] >= Owes(f) + Owes(g) /\ Owes(f) \in 0 .. 1 /\ Owes(g) \in 0 .. 1
  BY <1>3, <1>5 DEF Counts, Owes
<1>7. Owes(x) = 1
  BY DEF Owes
<1>8. left[h] \in 1 .. 2
  BY <1>4, <1>6, <1>7
<1>9. left[h] = 0 <=> Ready(Ctx(h))
  BY <1>2, <1>3 DEF AllInv
<1> QED BY <1>1, <1>3, <1>4, <1>8, <1>9

\* The call of onFuture, in both its outcomes.
LEMMA AllCalls ==
  ASSUME FutureInv, CallWhenAll
  PROVE  \E x, h \in Futures, v \in Values :
           /\ Where(x) = todo /\ todo # 0 /\ Call(x) = AllCall(h) /\ Kind(h) = "whenAll"
           /\ \A f \in Futures : f # x => Where(f) # todo
           /\ left[h] \in 1 .. 2 /\ Open(Ctx(h))
           /\ future' = future /\ heard' = heard /\ left' = [left EXCEPT ![h] = left[h] - 1]
           /\ \/ /\ left[h] - 1 = 0 /\ todo' = CallOf(Ctx(h))
                 /\ context' = [context EXCEPT ![Ctx(h)].ready = TRUE, ![Ctx(h)].val = v]
              \/ left[h] - 1 # 0 /\ todo' = 0 /\ context' = context
<1>1. PICK h : h = CallAt(todo).f
  OBVIOUS
<1>2. PICK v : v = CHOOSE w \in Values : TRUE
  OBVIOUS
<1>3. /\ todo # 0 /\ CallAt(todo).to = "whenAll"
      /\ left' = [left EXCEPT ![h] = left[h] - 1]
      /\ IF left[h] - 1 = 0 /\ Takes(Ctx(h))
         THEN /\ context' = [context EXCEPT ![Ctx(h)].ready = TRUE, ![Ctx(h)].val = v]
              /\ todo' = CallOf(Ctx(h))
         ELSE todo' = 0 /\ context' = context
      /\ future' = future /\ heard' = heard
  BY <1>1, <1>2, Zenon DEF CallWhenAll, CallAt, Ctx, Completes
<1>4. ContextsInv
  BY DEF FutureInv
<1>5. /\ Val(todo) \in Values
      /\ \E x \in Futures : /\ Where(x) = todo /\ CallAt(todo) = Call(x) /\ Pending(x)
                            /\ \A f \in Futures : f # x => Where(f) # todo
  BY <1>3, <1>4, Caller
<1>6. PICK x \in Futures : /\ Where(x) = todo /\ CallAt(todo) = Call(x) /\ Pending(x)
                           /\ \A f \in Futures : f # x => Where(f) # todo
  BY <1>5
<1>7. /\ h \in Futures /\ Kind(h) = "whenAll" /\ Call(x) = AllCall(h)
      /\ left[h] \in 1 .. 2 /\ ~Ready(Ctx(h)) /\ Ctx(h) \in Contexts
  BY <1>1, <1>3, <1>6, OneLeft
<1>8. Takes(Ctx(h))
  BY <1>7 DEF Takes, Ready
<1>9. Open(Ctx(h))
  BY <1>7 DEF Open
<1>10. v \in Values
  BY <1>2, <1>5
<1>11. \/ /\ left[h] - 1 = 0 /\ todo' = CallOf(Ctx(h))
          /\ context' = [context EXCEPT ![Ctx(h)].ready = TRUE, ![Ctx(h)].val = v]
       \/ left[h] - 1 # 0 /\ todo' = 0 /\ context' = context
  BY <1>3, <1>8
<1> QED BY <1>3, <1>6, <1>7, <1>9, <1>10, <1>11, Zenon

\* The call of onFuture.
LEMMA InvCallWhenAll ==
  ASSUME FutureInv, CallWhenAll
  PROVE  FutureInv'
<1>1. PICK x \in Futures, h \in Futures, v \in Values :
        /\ Where(x) = todo /\ todo # 0 /\ Call(x) = AllCall(h) /\ Kind(h) = "whenAll"
        /\ \A f \in Futures : f # x => Where(f) # todo
        /\ left[h] \in 1 .. 2 /\ Open(Ctx(h))
        /\ future' = future /\ heard' = heard /\ left' = [left EXCEPT ![h] = left[h] - 1]
        /\ \/ /\ left[h] - 1 = 0 /\ todo' = CallOf(Ctx(h))
              /\ context' = [context EXCEPT ![Ctx(h)].ready = TRUE, ![Ctx(h)].val = v]
           \/ left[h] - 1 # 0 /\ todo' = 0 /\ context' = context
  BY AllCalls
<1>2. ContextsInv /\ Shape /\ AllInv
  BY DEF FutureInv, ContextsInv
<1>3. PICK p : p = Ctx(h)
  OBVIOUS
<1>4. p \in Contexts /\ ~Ready(p)
  BY <1>1, <1>3 DEF Open
<1>5. /\ left' \in [1 .. MaxHandle -> 0 .. 2] /\ left'[h] = left[h] - 1
      /\ \A j \in Futures : j # h => left'[j] = left[j]
  BY <1>1, <1>2, Fields DEF Shape
<1>6. /\ context' \in Seq(ContextType) /\ Len(context') = Len(context)
      /\ \A d \in Contexts' : Ready(d)' => Val(d)' \in Values
      /\ todo' \in 0 .. Len(context')
      /\ Contexts' = Contexts /\ Futures' = Futures /\ Owned' /\ TodoInv'
      /\ \A f \in Futures : Slot(f)' /\ SameFuture(f)
      /\ (Ready(p)' <=> left'[h] = 0) /\ \A d \in Contexts : d # p => (Ready(d)' <=> Ready(d))
      /\ \A f \in Futures : Call(f) # NoCall /\ Where(f) # todo => Quiet(f)
      /\ \A f \in Futures : Where(f) = todo => Passed(f)
  <2>1. CASE left[h] - 1 = 0
    <3>1. /\ todo' = CallOf(p) /\ future' = future /\ Open(p)
          /\ context' = [context EXCEPT ![p].ready = TRUE, ![p].val = v]
      BY <1>1, <1>3, <2>1
    <3>2. left'[h] = 0
      BY <1>5, <2>1
    <3> HIDE <1>1
    <3> QED BY <1>2, <3>1, <3>2, Resolves
  <2>2. CASE left[h] - 1 # 0
    <3>1. todo' = 0 /\ future' = future /\ context' = context
      BY <1>1, <2>2
    <3>2. \A d : (Ready(d)' <=> Ready(d)) /\ Val(d)' = Val(d)
      BY <3>1 DEF Ready, Val
    <3>3. left'[h] # 0
      BY <1>5, <2>2
    <3>4. /\ Contexts' = Contexts /\ Futures' = Futures /\ Owned' /\ TodoInv'
          /\ \A f \in Futures : Slot(f)' /\ SameFuture(f)
          /\ \A f \in Futures : Where(f) # todo => Quiet(f)
          /\ \A f \in Futures : Where(f) = todo => Passed(f)
      BY <1>2, <3>1, Returns
    <3>5. \A d \in Contexts' : Ready(d)' => Val(d)' \in Values
      BY <1>2, <3>2, <3>4 DEF Shape
    <3>6. context' \in Seq(ContextType) /\ Len(context') = Len(context) /\ todo' \in 0 .. Len(context')
      BY <1>2, <3>1, Fields DEF Shape
    <3> QED BY <1>4, <3>2, <3>3, <3>4, <3>5, <3>6
  <2> QED BY <2>1, <2>2
<1>7. ContextsInv'
  BY <1>1, <1>2, <1>5, <1>6 DEF ContextsInv, Shape
<1>8. Passed(x) /\ \A f \in Futures : f # x /\ Call(f) # NoCall => Quiet(f)
  BY <1>1, <1>6
<1>9. /\ \A f \in Futures : Kind(f)' = Kind(f) /\ Inner(f)' = Inner(f)
                            /\ User(f)' = User(f) /\ Call(f)' = Call(f)
      /\ NoCall.to = "nobody" /\ Call(x).to = "whenAll"
  BY <1>1, <1>6, CallbackKinds DEF SameFuture
<1>10. UserInv'
  BY <1>1, <1>6, <1>8, <1>9, UserKept DEF FutureInv
<1>11. ChainInv'
  BY <1>6, <1>8, <1>9, ChainKept DEF FutureInv
<1>12. AllInv'
  <2>1. Ctx(h)' = p
    BY <1>3, <1>6 DEF SameFuture
  <2>2. Ready(Ctx(h))' <=> left'[h] = 0
    BY <1>6, <2>1
  <2> QED BY <1>1, <1>3, <1>5, <1>6, <1>8, <2>2, Counted
<1> QED BY <1>7, <1>10, <1>11, <1>12 DEF FutureInv

-----------------------------------------------------------------------------
(* Attaching a callback, and making a future.                              *)

WithCallback(p, k) == [context EXCEPT ![p].callback = k]

\* A callback is put into a context.
LEMMA CallbackIn ==
  ASSUME Shape, NEW p \in Contexts, NEW k \in Callbacks, NEW q, q = WithCallback(p, k)
  PROVE  /\ q \in Seq(ContextType) /\ Len(q) = Len(context) /\ q[p].callback = k
         /\ \A c \in Contexts :
              /\ q[c].ready = Ready(c) /\ q[c].val = Val(c) /\ q[c].waited = Waited(c)
              /\ c # p => q[c].callback = CallAt(c)
<1>1. PICK m \in ContextType : m = context[p]
  BY Fields
<1>2. PICK e : e = [m EXCEPT !.callback = k]
  OBVIOUS
<1>3. e \in ContextType /\ e.callback = k /\ e.ready = m.ready /\ e.val = m.val /\ e.waited = m.waited
  BY <1>1, <1>2 DEF ContextType
<1>4. PICK b : b = context
  OBVIOUS
<1>5. b \in Seq(ContextType) /\ p \in 1 .. Len(b) /\ Contexts = 1 .. Len(b)
  BY <1>4 DEF Shape, Contexts
<1>6. q = [b EXCEPT ![p] = e]
  BY <1>1, <1>2, <1>4 DEF WithCallback
<1>7. /\ [b EXCEPT ![p] = e] \in Seq(ContextType) /\ Len([b EXCEPT ![p] = e]) = Len(b)
      /\ [b EXCEPT ![p] = e][p] = e
      /\ \A j \in 1 .. Len(b) : j # p => [b EXCEPT ![p] = e][j] = b[j]
  BY ONLY <1>3, <1>5, SetIn
<1>8. q \in Seq(ContextType) /\ Len(q) = Len(b) /\ q[p] = e /\ \A c \in Contexts : c # p => q[c] = b[c]
  BY <1>5, <1>6, <1>7
<1>9. ASSUME NEW c \in Contexts
      PROVE  /\ q[c].ready = Ready(c) /\ q[c].val = Val(c) /\ q[c].waited = Waited(c)
             /\ c # p => q[c].callback = CallAt(c)
  BY <1>1, <1>3, <1>4, <1>8 DEF Ready, Val, Waited, CallAt
<1> QED BY <1>3, <1>4, <1>8, <1>9

\* A callback of the program, or another one, is attached to a future.
Put(f, d) == [future EXCEPT ![f] = d]
UsesUser(f, u) == [future EXCEPT ![f].used = TRUE, ![f].user = u]
Uses(f) == [future EXCEPT ![f].used = TRUE]

\* A future is replaced by one that differs in its callback.
LEMMA FutureIn ==
  ASSUME Shape, NEW f \in Futures, NEW d \in FutureType, d.used = TRUE,
         d.kind = Kind(f), d.ctx = Ctx(f), d.inner = Inner(f), d.of = Of(f)
  PROVE  /\ Put(f, d) \in Seq(FutureType) /\ Len(Put(f, d)) = Len(future)
         /\ Put(f, d)[f].used = TRUE /\ Put(f, d)[f].user = d.user
         /\ \A g \in Futures :
              /\ Put(f, d)[g].kind = Kind(g) /\ Put(f, d)[g].ctx = Ctx(g)
              /\ Put(f, d)[g].inner = Inner(g)
              /\ Put(f, d)[g].of = Of(g)
              /\ g # f => Put(f, d)[g].used = Used(g) /\ Put(f, d)[g].user = User(g)
<1>1. PICK b : b = future
  OBVIOUS
<1>2. PICK q : q = Put(f, d)
  OBVIOUS
<1>3. b \in Seq(FutureType) /\ f \in 1 .. Len(b) /\ Futures = 1 .. Len(b)
  BY <1>1 DEF Shape, Futures
<1>4. q = [b EXCEPT ![f] = d]
  BY <1>1, <1>2 DEF Put
<1>5. /\ [b EXCEPT ![f] = d] \in Seq(FutureType) /\ Len([b EXCEPT ![f] = d]) = Len(b)
      /\ [b EXCEPT ![f] = d][f] = d
      /\ \A j \in 1 .. Len(b) : j # f => [b EXCEPT ![f] = d][j] = b[j]
  BY ONLY <1>3, SetIn, d \in FutureType
<1>6. q \in Seq(FutureType) /\ Len(q) = Len(b) /\ q[f] = d /\ \A g \in Futures : g # f => q[g] = b[g]
  BY <1>3, <1>4, <1>5
<1>7. ASSUME NEW g \in Futures
      PROVE  /\ q[g].kind = Kind(g) /\ q[g].ctx = Ctx(g) /\ q[g].inner = Inner(g) /\ q[g].of = Of(g)
             /\ g # f => q[g].used = Used(g) /\ q[g].user = User(g)
  BY <1>1, <1>6 DEF Kind, Ctx, Inner, Of, Used, User
<1> QED BY <1>1, <1>2, <1>6, <1>7

\* A callback of the program is attached to a future.
LEMMA UserIn ==
  ASSUME Shape, NEW f \in Futures, NEW u \in Users
  PROVE  /\ UsesUser(f, u) \in Seq(FutureType) /\ Len(UsesUser(f, u)) = Len(future)
         /\ UsesUser(f, u)[f].used = TRUE /\ UsesUser(f, u)[f].user = u
         /\ \A g \in Futures :
              /\ UsesUser(f, u)[g].kind = Kind(g) /\ UsesUser(f, u)[g].ctx = Ctx(g)
              /\ UsesUser(f, u)[g].inner = Inner(g)
              /\ UsesUser(f, u)[g].of = Of(g)
              /\ g # f => UsesUser(f, u)[g].used = Used(g) /\ UsesUser(f, u)[g].user = User(g)
<1>1. PICK m \in FutureType : m = future[f]
  BY Fields
<1>2. PICK d : d = [m EXCEPT !.used = TRUE, !.user = u]
  OBVIOUS
<1>3. /\ d \in FutureType /\ d.used = TRUE /\ d.user = u
      /\ d.kind = Kind(f) /\ d.ctx = Ctx(f) /\ d.inner = Inner(f) /\ d.of = Of(f)
  BY <1>1, <1>2 DEF FutureType, Kind, Ctx, Inner, Of
<1>4. UsesUser(f, u) = Put(f, d)
  BY <1>1, <1>2 DEF UsesUser, Put
<1>5. /\ Put(f, d) \in Seq(FutureType) /\ Len(Put(f, d)) = Len(future)
      /\ Put(f, d)[f].used = TRUE /\ Put(f, d)[f].user = d.user
      /\ \A g \in Futures :
           /\ Put(f, d)[g].kind = Kind(g) /\ Put(f, d)[g].ctx = Ctx(g)
           /\ Put(f, d)[g].inner = Inner(g)
           /\ Put(f, d)[g].of = Of(g)
           /\ g # f => Put(f, d)[g].used = Used(g) /\ Put(f, d)[g].user = User(g)
  BY ONLY Shape, f \in Futures, <1>3, FutureIn
<1> QED BY <1>3, <1>4, <1>5

\* A function, or a whenAll, is attached to a future.
LEMMA UsedIn ==
  ASSUME Shape, NEW f \in Futures
  PROVE  /\ Uses(f) \in Seq(FutureType) /\ Len(Uses(f)) = Len(future)
         /\ Uses(f)[f].used = TRUE /\ Uses(f)[f].user = User(f)
         /\ \A g \in Futures :
              /\ Uses(f)[g].kind = Kind(g) /\ Uses(f)[g].ctx = Ctx(g)
              /\ Uses(f)[g].inner = Inner(g)
              /\ Uses(f)[g].of = Of(g)
              /\ g # f => Uses(f)[g].used = Used(g) /\ Uses(f)[g].user = User(g)
<1>1. PICK m \in FutureType : m = future[f]
  BY Fields
<1>2. PICK d : d = [m EXCEPT !.used = TRUE]
  OBVIOUS
<1>3. /\ d \in FutureType /\ d.used = TRUE /\ d.user = User(f)
      /\ d.kind = Kind(f) /\ d.ctx = Ctx(f) /\ d.inner = Inner(f) /\ d.of = Of(f)
  BY <1>1, <1>2 DEF FutureType, Kind, Ctx, Inner, Of, User
<1>4. Uses(f) = Put(f, d)
  BY <1>1, <1>2 DEF Uses, Put
<1>5. /\ Put(f, d) \in Seq(FutureType) /\ Len(Put(f, d)) = Len(future)
      /\ Put(f, d)[f].used = TRUE /\ Put(f, d)[f].user = d.user
      /\ \A g \in Futures :
           /\ Put(f, d)[g].kind = Kind(g) /\ Put(f, d)[g].ctx = Ctx(g)
           /\ Put(f, d)[g].inner = Inner(g)
           /\ Put(f, d)[g].of = Of(g)
           /\ g # f => Put(f, d)[g].used = Used(g) /\ Put(f, d)[g].user = User(g)
  BY ONLY Shape, f \in Futures, <1>3, FutureIn
<1> QED BY <1>3, <1>4, <1>5

\* A context is made.
LEMMA MoreContexts ==
  ASSUME Shape, NEW q \in Seq(ContextType), Len(q) = Len(context), NEW e \in ContextType,
         context' = Append(q, e), Len(context) < MaxContext
  PROVE  /\ context' \in Seq(ContextType) /\ Len(context') = Len(context) + 1 /\ Len(context') <= MaxContext
         /\ Len(context) + 1 \notin Contexts /\ Contexts' = Contexts \cup {Len(context) + 1}
         /\ 0 \notin Contexts' /\ Invalid \notin Contexts'
         /\ context'[Len(context) + 1] = e /\ \A c \in Contexts : context'[c] = q[c]
<1>1. Len(context) \in Nat /\ Contexts = 1 .. Len(q)
  BY Fields DEF Contexts
<1>2. PICK a : a = Append(q, e)
  OBVIOUS
<1>3. /\ a \in Seq(ContextType) /\ Len(a) = Len(q) + 1 /\ a[Len(q) + 1] = e
      /\ \A j \in 1 .. Len(q) : a[j] = q[j]
  BY ONLY <1>2, AppendTo
<1>4. Contexts' = 1 .. Len(a)
  BY <1>2 DEF Contexts
<1>5. Len(a) = Len(context) + 1
  BY <1>3
<1>6. /\ Len(context) + 1 \notin Contexts /\ Contexts' = Contexts \cup {Len(context) + 1}
      /\ 0 \notin Contexts' /\ Invalid \notin Contexts' /\ Len(a) <= MaxContext
  BY <1>1, <1>4, <1>5, FutureAssumption DEF Invalid
<1> QED BY <1>1, <1>2, <1>3, <1>5, <1>6

\* A future is made.
LEMMA MoreFutures ==
  ASSUME Shape, NEW q \in Seq(FutureType), Len(q) = Len(future), NEW e \in FutureType,
         future' = Append(q, e), Len(future) < MaxHandle
  PROVE  /\ future' \in Seq(FutureType) /\ Len(future') = Len(future) + 1 /\ Len(future') <= MaxHandle
         /\ Len(future) + 1 \notin Futures /\ Futures' = Futures \cup {Len(future) + 1}
         /\ Len(future) + 1 \in 1 .. MaxHandle
         /\ future'[Len(future) + 1] = e /\ \A f \in Futures : future'[f] = q[f]
<1>1. Len(future) \in Nat /\ Futures = 1 .. Len(q)
  BY Fields DEF Futures
<1>2. PICK a : a = Append(q, e)
  OBVIOUS
<1>3. /\ a \in Seq(FutureType) /\ Len(a) = Len(q) + 1 /\ a[Len(q) + 1] = e
      /\ \A j \in 1 .. Len(q) : a[j] = q[j]
  BY ONLY <1>2, AppendTo
<1>4. Futures' = 1 .. Len(a)
  BY <1>2 DEF Futures
<1>5. Len(a) = Len(future) + 1
  BY <1>3
<1>6. /\ Len(future) + 1 \notin Futures /\ Futures' = Futures \cup {Len(future) + 1}
      /\ Len(future) + 1 \in 1 .. MaxHandle /\ Len(a) <= MaxHandle
  BY <1>1, <1>4, <1>5, FutureAssumption
<1> QED BY <1>1, <1>2, <1>3, <1>5, <1>6

\* What a future is made of stays.
Carried(f) ==
  /\ Kind(f)' = Kind(f) /\ Ctx(f)' = Ctx(f) /\ Inner(f)' = Inner(f) /\ Of(f)' = Of(f)
  /\ Used(f) => Used(f)'

\* The futures in T, which have no callback, get one each.
LEMMA Attaches ==
  ASSUME ContextsInv, NEW T \in SUBSET Futures, \A f \in T : Attachable(f),
         Contexts \subseteq Contexts', 0 \notin Contexts', Invalid \notin Contexts',
         \A f \in Futures : Carried(f) /\ (f \notin T => User(f)' = User(f)),
         \A f \in T : /\ Used(f)' /\ Call(f)' # NoCall
                      /\ User(f)' # 0 => Call(f)' = UserCall(User(f)') /\ User(f)' \in Users,
         \A c \in Contexts : /\ Ready(c)' = Ready(c) /\ Val(c)' = Val(c) /\ Waited(c)' = Waited(c)
                             /\ (\A f \in T : c # Ctx(f)) => CallAt(c)' = CallAt(c)
  PROVE  \A f \in Futures :
           /\ Slot(f)' /\ Where(f)' = Where(f) /\ (HasInner(f)' <=> HasInner(f))
           /\ (Stopped(f)' <=> Stopped(f)) /\ Result(f)' = Result(f)
           /\ Pending(f)' <=> (~Ready(Where(f)) \/ todo' = Where(f))
           /\ f \notin T => Call(f)' = Call(f)
           /\ f \in T => Call(f) = NoCall /\ Where(f) = Ctx(f) /\ User(f) = 0
<1> SUFFICES ASSUME NEW f \in Futures
             PROVE  /\ Slot(f)' /\ Where(f)' = Where(f) /\ (HasInner(f)' <=> HasInner(f))
                    /\ (Stopped(f)' <=> Stopped(f)) /\ Result(f)' = Result(f)
                    /\ Pending(f)' <=> (~Ready(Where(f)) \/ todo' = Where(f))
                    /\ f \notin T => Call(f)' = Call(f)
                    /\ f \in T => Call(f) = NoCall /\ Where(f) = Ctx(f) /\ User(f) = 0
  OBVIOUS
<1>1. PICK c : c = Ctx(f)
  OBVIOUS
<1>2. PICK i : i = Inner(f)
  OBVIOUS
<1>3. /\ c \in Contexts /\ i \in Contexts \cup {0, Invalid}
      /\ Ctx(f)' = c /\ Inner(f)' = i /\ Kind(f)' = Kind(f)
  BY <1>1, <1>2 DEF ContextsInv, Owned, Carried
<1>4. \A g \in Futures : g # f => Ctx(g) # c /\ Ctx(g) # i
  BY <1>1, <1>2 DEF ContextsInv, Owned
<1>5. HasInner(f)' <=> HasInner(f)
  BY <1>2, <1>3 DEF HasInner
<1>6. f \notin T => Call(f)' = Call(f)
  BY <1>1, <1>3, <1>4 DEF Call
<1>7. HasInner(f) /\ i # c => CallAt(i)' = CallAt(i)
  BY <1>1, <1>2, <1>4 DEF HasInner
<1>8. Slot(f)
  BY DEF ContextsInv
<1>9. CASE f \in T
  <2>1. ~Used(f) /\ (LateThen \/ i = 0 \/ c = i)
    BY <1>1, <1>2, <1>9 DEF Attachable, Late, Used, Inner, Ctx
  <2>2. Call(f) = NoCall /\ User(f) = 0
    BY <1>8, <2>1 DEF Slot, UserCall, NoCall
  <2>3. Where(f) = c
    BY <1>1, <1>8, <2>2 DEF Where, Slot
  <2>4. HasInner(f) => CallAt(i) = NoCall
    BY <1>2, <1>8, <2>2 DEF Slot
  <2>5. HasInner(f) /\ i = c => CallAt(i)' = Call(f)'
    BY <1>3 DEF Call
  <2>6. Where(f)' = c
    BY <1>2, <1>3, <1>5, <1>7, <2>4 DEF Where
  <2>7. /\ Used(f)' /\ Call(f)' # NoCall
        /\ User(f)' # 0 => Call(f)' = UserCall(User(f)') /\ User(f)' \in Users
    BY <1>9
  <2>8. HasInner(f)' => CallAt(i)' \in {NoCall, Call(f)'}
    BY <1>5, <1>7, <2>4, <2>5
  <2>9. HasInner(f)' /\ i # c => ~Waited(i)'
    BY <1>1, <1>2, <1>5, <1>8 DEF Slot, HasInner
  <2>10. Kind(f)' = "then_r" /\ ~HasInner(f)' => ~Ready(c)'
    BY <1>1, <1>3, <1>5, <1>8 DEF Slot
  <2>11. ~LateThen /\ HasInner(f)' => CallAt(i)' # NoCall
    <3>1. HasInner(f) => i # 0
      BY <1>2, Fields DEF ContextsInv, HasInner
    <3> QED BY <1>5, <2>1, <2>5, <2>7, <3>1
  <2>12. Slot(f)'
    BY <1>3, <2>7, <2>8, <2>9, <2>10, <2>11 DEF Slot
  <2>13. Stopped(f)' <=> Stopped(f)
    BY <1>1, <1>3 DEF Stopped
  <2>14. Result(f)' = Result(f) /\ (Pending(f)' <=> (~Ready(Where(f)) \/ todo' = Where(f)))
    BY <1>3, <2>3, <2>6 DEF Result, Pending
  <2> QED BY <1>1, <1>5, <1>9, <2>2, <2>3, <2>6, <2>12, <2>13, <2>14
<1>10. CASE f \notin T
  <2>1. Call(f)' = Call(f) /\ User(f)' = User(f) /\ (Used(f) => Used(f)')
    BY <1>6, <1>10 DEF Carried
  <2>2. HasInner(f) => CallAt(i)' = CallAt(i)
    BY <1>2, <1>4, <1>10 DEF HasInner
  <2>3. Where(f)' = Where(f)
    BY <1>1, <1>2, <1>3, <1>5, <2>2 DEF Where
  <2>4. HasInner(f) => (Waited(i)' <=> Waited(i))
    BY <1>2 DEF HasInner
  <2>5. Ready(c)' = Ready(c) /\ Waited(c)' = Waited(c)
    BY <1>3
  <2>6. Slot(f)'
    BY <1>1, <1>2, <1>3, <1>5, <1>8, <2>1, <2>2, <2>4, <2>5 DEF Slot
  <2>7. PICK w : w = Where(f)
    OBVIOUS
  <2>8. w \in Contexts /\ Where(f)' = w
    BY <2>3, <2>7, WhereIs
  <2>9. Result(f)' = Result(f) /\ (Pending(f)' <=> (~Ready(Where(f)) \/ todo' = Where(f)))
    BY <2>7, <2>8 DEF Result, Pending
  <2>10. Stopped(f)' <=> Stopped(f)
    BY <1>1, <1>3 DEF Stopped
  <2> QED BY <1>5, <1>10, <2>1, <2>3, <2>6, <2>9, <2>10
<1> QED BY <1>9, <1>10

\* A future is made, with a context of its own.
LEMMA NewOwned ==
  ASSUME ContextsInv, NEW h, NEW s, h \notin Futures, s \notin Contexts,
         Futures' = Futures \cup {h}, Contexts' = Contexts \cup {s},
         0 \notin Contexts', Invalid \notin Contexts', \A f \in Futures : Carried(f),
         Ctx(h)' = s, Inner(h)' \in {0, Invalid, s}, Inner(h)' # 0 => Kind(h)' = "then_r",
         Used(h)' = FALSE, User(h)' = 0, CallAt(s)' = NoCall,
         Kind(h)' = "then_r" /\ Inner(h)' # s => ~Ready(s)'
  PROVE  Owned' /\ Slot(h)' /\ Call(h)' = NoCall
<1>1. Call(h)' = NoCall
  BY DEF Call
<1>2. HasInner(h)' <=> Inner(h)' = s
  BY DEF HasInner
<1>3. Slot(h)'
  <2>1. HasInner(h)' => CallAt(Inner(h))' = NoCall
    BY <1>2
  <2>2. HasInner(h)' => Inner(h)' = Ctx(h)'
    BY <1>2
  <2>3. Kind(h)' = "then_r" /\ ~HasInner(h)' => ~Ready(Ctx(h))'
    BY <1>2
  <2> QED BY <1>1, <2>1, <2>2, <2>3 DEF Slot
<1>4. ASSUME NEW f \in Futures
      PROVE  /\ Ctx(f)' = Ctx(f) /\ Inner(f)' = Inner(f) /\ Kind(f)' = Kind(f)
             /\ (HasInner(f)' => HasInner(f)) /\ Ctx(f) \in Contexts /\ Inner(f) \in Contexts \cup {0, Invalid}
             /\ (Inner(f) # 0 => Kind(f) = "then_r") /\ Ctx(f) # s /\ Inner(f) # s
  <2>1. Ctx(f)' = Ctx(f) /\ Inner(f)' = Inner(f) /\ Kind(f)' = Kind(f)
    BY DEF Carried
  <2>2. /\ Ctx(f) \in Contexts /\ Inner(f) \in Contexts \cup {0, Invalid}
        /\ (Inner(f) # 0 => Kind(f) = "then_r")
    BY DEF ContextsInv, Owned
  <2>3. s # 0 /\ s # Invalid
    OBVIOUS
  <2>4. HasInner(f)' => HasInner(f)
    BY <2>1, <2>2, <2>3 DEF HasInner
  <2> QED BY <2>1, <2>2, <2>3, <2>4
<1>5. ASSUME NEW f \in Futures', NEW g \in Futures', g # f
      PROVE  Ctx(g)' # Ctx(f)' /\ Ctx(g)' # Inner(f)' /\ (Inner(g)' = Inner(f)' => ~HasInner(f)')
  <2>1. CASE f \in Futures /\ g \in Futures
    <3>1. Ctx(g) # Ctx(f) /\ Ctx(g) # Inner(f) /\ (Inner(g) = Inner(f) => ~HasInner(f))
      BY <1>5, <2>1 DEF ContextsInv, Owned
    <3> QED BY <1>4, <2>1, <3>1
  <2>2. CASE f = h
    <3>1. g \in Futures
      BY <1>5, <2>2
    <3>2. Ctx(g)' # s /\ Inner(g)' # s /\ Ctx(g)' # 0 /\ Ctx(g)' # Invalid
      BY <1>4, <3>1
    <3> QED BY <1>2, <2>2, <3>2
  <2>3. CASE g = h /\ f \in Futures
    <3>1. Ctx(f)' # s /\ Inner(f)' # s /\ Inner(f)' = Inner(f)
      BY <1>4, <2>3
    <3>2. Inner(h)' = Inner(f)' => ~HasInner(f)'
      BY <3>1 DEF HasInner
    <3> QED BY <2>3, <3>1, <3>2
  <2> QED BY <2>1, <2>2, <2>3
<1>6. ASSUME NEW f \in Futures'
      PROVE  /\ Ctx(f)' \in Contexts' /\ Inner(f)' \in Contexts' \cup {0, Invalid}
             /\ Inner(f)' # 0 => Kind(f)' = "then_r"
  BY <1>4
<1>7. Owned'
  BY <1>5, <1>6 DEF Owned
<1> QED BY <1>1, <1>3, <1>7

\* A future h is made, with a context s; those in T get a callback.
LEMMA Grows ==
  ASSUME ContextsInv, NEW T \in SUBSET Futures, \A f \in T : Attachable(f), Idle, todo' = todo, Shape',
         NEW h, NEW s, h \notin Futures, s \notin Contexts,
         Futures' = Futures \cup {h}, Contexts' = Contexts \cup {s},
         0 \notin Contexts', Invalid \notin Contexts',
         \A f \in Futures : Carried(f) /\ (f \notin T => User(f)' = User(f)),
         \A f \in T : Used(f)' /\ Call(f)' # NoCall /\ User(f)' = 0,
         \A c \in Contexts : /\ Ready(c)' = Ready(c) /\ Val(c)' = Val(c) /\ Waited(c)' = Waited(c)
                             /\ (\A f \in T : c # Ctx(f)) => CallAt(c)' = CallAt(c),
         Ctx(h)' = s, Inner(h)' \in {0, Invalid, s}, Inner(h)' # 0 => Kind(h)' = "then_r",
         Used(h)' = FALSE, User(h)' = 0, CallAt(s)' = NoCall,
         Kind(h)' = "then_r" /\ Inner(h)' # s => ~Ready(s)'
  PROVE  /\ ContextsInv' /\ Call(h)' = NoCall
         /\ \A f \in Futures :
              /\ Kind(f)' = Kind(f) /\ Inner(f)' = Inner(f) /\ Of(f)' = Of(f) /\ User(f)' = User(f)
              /\ Ready(Ctx(f))' <=> Ready(Ctx(f))
              /\ f \notin T => Quiet(f) /\ Call(f)' = Call(f)
              /\ f \in T => Call(f) = NoCall /\ (Pending(f)' <=> ~Ready(Ctx(f)))
<1>1. \A f \in Futures : Carried(f)
  OBVIOUS
<1>2. Owned' /\ Slot(h)' /\ Call(h)' = NoCall
  BY <1>1, NewOwned
<1>3. \A f \in T : /\ Used(f)' /\ Call(f)' # NoCall
                   /\ User(f)' # 0 => Call(f)' = UserCall(User(f)') /\ User(f)' \in Users
  OBVIOUS
<1>4. Contexts \subseteq Contexts'
  OBVIOUS
<1>5. \A f \in Futures :
        /\ Slot(f)' /\ Where(f)' = Where(f) /\ (HasInner(f)' <=> HasInner(f))
        /\ (Stopped(f)' <=> Stopped(f)) /\ Result(f)' = Result(f)
        /\ Pending(f)' <=> (~Ready(Where(f)) \/ todo' = Where(f))
        /\ f \notin T => Call(f)' = Call(f)
        /\ f \in T => Call(f) = NoCall /\ Where(f) = Ctx(f) /\ User(f) = 0
  BY <1>3, <1>4, Attaches
<1>6. todo = 0 /\ todo' = 0 /\ \A f \in Futures : Where(f) # 0 /\ Ctx(f) \in Contexts
  BY WhereIs DEF Idle, ContextsInv, Owned
<1>7. ContextsInv'
  <2>1. TodoInv'
    BY <1>6 DEF TodoInv
  <2>2. \A f \in Futures' : Slot(f)'
    BY <1>2, <1>5
  <2> QED BY <1>2, <2>1, <2>2 DEF ContextsInv
<1>8. ASSUME NEW f \in Futures
      PROVE  /\ Kind(f)' = Kind(f) /\ Inner(f)' = Inner(f) /\ Of(f)' = Of(f) /\ User(f)' = User(f)
             /\ Ready(Ctx(f))' <=> Ready(Ctx(f))
  <2>1. PICK c : c = Ctx(f)
    OBVIOUS
  <2>2. c \in Contexts /\ Ctx(f)' = c
    BY <1>6, <2>1 DEF Carried
  <2>3. Ready(c)' = Ready(c)
    BY <2>2
  <2>4. Kind(f)' = Kind(f) /\ Inner(f)' = Inner(f) /\ Of(f)' = Of(f)
    BY DEF Carried
  <2>5. User(f)' = User(f)
    BY <1>5
  <2> QED BY <2>1, <2>2, <2>3, <2>4, <2>5
<1>9. ASSUME NEW f \in Futures, f \notin T PROVE Quiet(f) /\ Call(f)' = Call(f)
  <2>1. Pending(f)' <=> Pending(f)
    BY <1>5, <1>6 DEF Pending
  <2> QED BY <1>5, <1>8, <1>9, <2>1 DEF Quiet
<1>10. ASSUME NEW f \in Futures, f \in T PROVE Call(f) = NoCall /\ (Pending(f)' <=> ~Ready(Ctx(f)))
  BY <1>5, <1>6, <1>10
<1> QED BY <1>2, <1>7, <1>8, <1>9, <1>10

\* There is room for one more of each.
LEMMA RoomForOne ==
  ASSUME Shape, Room(1)
  PROVE  /\ Len(context) < MaxContext /\ Len(future) < MaxHandle
         /\ Len(context) + 1 \in 1 .. MaxContext /\ Len(context) \in Nat
         /\ Len(future) + 1 \in 1 .. MaxHandle
<1>1. Len(context) \in Nat /\ Len(future) \in Nat
  BY Fields
<1>2. Len(context) < MaxContext /\ Len(future) < MaxHandle
  BY <1>1, FutureAssumption DEF Room
<1> QED BY ONLY <1>1, <1>2, FutureAssumption

\* A context e is appended to q, and a future d to r: q and r are context and
\* future, but for callbacks.
Adds(q, e, r, d, s, h) ==
  /\ Idle /\ todo' = todo /\ Room(1) /\ heard' = heard /\ left' \in [1 .. MaxHandle -> 0 .. 2]
  /\ q \in Seq(ContextType) /\ Len(q) = Len(context) /\ e \in ContextType /\ context' = Append(q, e)
  /\ r \in Seq(FutureType) /\ Len(r) = Len(future) /\ d \in FutureType /\ future' = Append(r, d)
  /\ e.ready => e.val \in Values
  /\ \A c \in Contexts : q[c].ready = Ready(c) /\ q[c].val = Val(c) /\ q[c].waited = Waited(c)
  /\ \A f \in Futures : /\ r[f].kind = Kind(f) /\ r[f].ctx = Ctx(f) /\ r[f].inner = Inner(f)
                         /\ r[f].of = Of(f) /\ (Used(f) => r[f].used)
  /\ s = Len(context) + 1 /\ h = Len(future) + 1

\* What the variables are then.
LEMMA Appended ==
  ASSUME Shape, NEW q, NEW e, NEW r, NEW d, NEW s, NEW h, Adds(q, e, r, d, s, h)
  PROVE  /\ Shape' /\ h \notin Futures /\ h \in 1 .. MaxHandle /\ s \notin Contexts
         /\ Futures' = Futures \cup {h} /\ Contexts' = Contexts \cup {s}
         /\ 0 \notin Contexts' /\ Invalid \notin Contexts'
         /\ \A f \in Futures : Carried(f) /\ User(f)' = r[f].user /\ Used(f)' = r[f].used
         /\ \A c \in Contexts : /\ Ready(c)' = Ready(c) /\ Val(c)' = Val(c) /\ Waited(c)' = Waited(c)
                                /\ CallAt(c)' = q[c].callback
         /\ CallAt(s)' = e.callback /\ Ready(s)' = e.ready
         /\ Ctx(h)' = d.ctx /\ Inner(h)' = d.inner /\ Kind(h)' = d.kind /\ Of(h)' = d.of
         /\ User(h)' = d.user /\ Used(h)' = d.used
<1>0. /\ Idle /\ todo' = todo /\ Room(1) /\ heard' = heard /\ left' \in [1 .. MaxHandle -> 0 .. 2]
      /\ q \in Seq(ContextType) /\ Len(q) = Len(context) /\ e \in ContextType /\ context' = Append(q, e)
      /\ r \in Seq(FutureType) /\ Len(r) = Len(future) /\ d \in FutureType /\ future' = Append(r, d)
      /\ e.ready => e.val \in Values
      /\ \A c \in Contexts : q[c].ready = Ready(c) /\ q[c].val = Val(c) /\ q[c].waited = Waited(c)
      /\ \A f \in Futures : /\ r[f].kind = Kind(f) /\ r[f].ctx = Ctx(f) /\ r[f].inner = Inner(f)
                            /\ r[f].of = Of(f) /\ (Used(f) => r[f].used)
      /\ s = Len(context) + 1 /\ h = Len(future) + 1
  BY DEF Adds
<1>1. Len(context) < MaxContext /\ Len(future) < MaxHandle /\ Len(context) \in Nat
  BY <1>0, RoomForOne
<1>2. /\ context' \in Seq(ContextType) /\ Len(context') = Len(context) + 1 /\ Len(context') <= MaxContext
      /\ s \notin Contexts /\ Contexts' = Contexts \cup {s} /\ 0 \notin Contexts' /\ Invalid \notin Contexts'
      /\ context'[s] = e /\ \A c \in Contexts : context'[c] = q[c]
  BY <1>0, <1>1, MoreContexts
<1>3. /\ future' \in Seq(FutureType) /\ Len(future') = Len(future) + 1 /\ Len(future') <= MaxHandle
      /\ h \notin Futures /\ Futures' = Futures \cup {h} /\ h \in 1 .. MaxHandle
      /\ future'[h] = d /\ \A f \in Futures : future'[f] = r[f]
  BY <1>0, <1>1, MoreFutures
<1>4. \A c \in Contexts : /\ Ready(c)' = Ready(c) /\ Val(c)' = Val(c) /\ Waited(c)' = Waited(c)
                          /\ CallAt(c)' = q[c].callback
  <2>1. ASSUME NEW c \in Contexts
        PROVE  /\ context'[c].ready = Ready(c) /\ context'[c].val = Val(c)
               /\ context'[c].waited = Waited(c) /\ context'[c].callback = q[c].callback
    <3>1. context'[c] = q[c]
      BY <1>2
    <3> QED BY <1>0, <3>1
  <2> QED BY ONLY <2>1 DEF Ready, Val, Waited, CallAt
<1>5. \A f \in Futures : /\ Kind(f)' = r[f].kind /\ Ctx(f)' = r[f].ctx /\ Inner(f)' = r[f].inner
                         /\ Of(f)' = r[f].of /\ User(f)' = r[f].user /\ Used(f)' = r[f].used
  BY <1>3 DEF Kind, Ctx, Inner, Of, Used, User
<1>6. \A f \in Futures : Carried(f)
  BY <1>0, <1>5 DEF Carried
<1>7. CallAt(s)' = e.callback /\ Ready(s)' = e.ready /\ Val(s)' = e.val
  BY <1>2 DEF CallAt, Ready, Val
<1>8. /\ Ctx(h)' = d.ctx /\ Inner(h)' = d.inner /\ Kind(h)' = d.kind /\ Of(h)' = d.of
      /\ User(h)' = d.user /\ Used(h)' = d.used
  BY <1>3 DEF Ctx, Inner, Kind, Of, User, Used
<1>9. Shape'
  <2>1. \A c \in Contexts' : Ready(c)' => Val(c)' \in Values
    BY <1>0, <1>2, <1>4, <1>7 DEF Shape
  <2>2. todo' \in 0 .. Len(context')
    BY <1>0, <1>1, <1>2 DEF Idle
  <2>3. heard' \in [Users -> Seq(Values)]
    BY <1>0 DEF Shape
  <2> QED BY <1>0, <1>2, <1>3, <2>1, <2>2, <2>3 DEF Shape
<1> QED BY <1>2, <1>3, <1>4, <1>5, <1>6, <1>7, <1>8, <1>9

\* Contexts and futures as they are made.
LEMMA MadeContexts ==
  /\ NewContext \in ContextType /\ NewContext.callback = NoCall /\ NewContext.ready = FALSE
  /\ \A v \in Values : /\ ReadyContext(v) \in ContextType /\ ReadyContext(v).callback = NoCall
                       /\ ReadyContext(v).ready = TRUE /\ ReadyContext(v).val = v
                       /\ ReadyContext(v).waited = FALSE
  /\ NewContext.val = 0 /\ NewContext.waited = FALSE
BY CallbackKinds, Zenon DEF ContextType, NewContext, ReadyContext

\* A future without a callback that is not of whenAll is made, none gets one.
LEMMA Appends ==
  ASSUME FutureInv, Idle, todo' = todo, Room(1), heard' = heard, left' = left,
         NEW e \in ContextType, context' = Append(context, e),
         NEW r \in Seq(FutureType), Len(r) = Len(future), NEW d \in FutureType, future' = Append(r, d),
         e.ready => e.val \in Values, e.callback = NoCall,
         \A f \in Futures : /\ r[f].kind = Kind(f) /\ r[f].ctx = Ctx(f) /\ r[f].inner = Inner(f)
                            /\ r[f].of = Of(f) /\ (Used(f) => r[f].used) /\ r[f].user = User(f),
         NEW s, s = Len(context) + 1, d.ctx = s, d.inner \in {0, Invalid, s},
         d.inner # 0 => d.kind = "then_r", d.kind # "whenAll", d.used = FALSE, d.user = 0,
         d.kind = "then_r" /\ d.inner # s => ~e.ready
  PROVE  FutureInv'
<1>1. ContextsInv /\ Shape
  BY DEF FutureInv, ContextsInv
<1>0. PICK q : q = context
  OBVIOUS
<1>2. q \in Seq(ContextType) /\ Len(q) = Len(context) /\ left' \in [1 .. MaxHandle -> 0 .. 2]
      /\ context' = Append(q, e)
      /\ \A c \in Contexts : /\ q[c].ready = Ready(c) /\ q[c].val = Val(c)
                             /\ q[c].waited = Waited(c) /\ q[c].callback = CallAt(c)
  BY <1>0, <1>1 DEF Shape, Ready, Val, Waited, CallAt
<1>3. PICK h : h = Len(future) + 1
  OBVIOUS
<1>4. /\ Shape' /\ h \notin Futures /\ h \in 1 .. MaxHandle /\ s \notin Contexts
      /\ Futures' = Futures \cup {h} /\ Contexts' = Contexts \cup {s}
      /\ 0 \notin Contexts' /\ Invalid \notin Contexts'
      /\ \A f \in Futures : Carried(f) /\ User(f)' = r[f].user /\ Used(f)' = r[f].used
      /\ \A c \in Contexts : /\ Ready(c)' = Ready(c) /\ Val(c)' = Val(c) /\ Waited(c)' = Waited(c)
                             /\ CallAt(c)' = q[c].callback
      /\ CallAt(s)' = e.callback /\ Ready(s)' = e.ready
      /\ Ctx(h)' = d.ctx /\ Inner(h)' = d.inner /\ Kind(h)' = d.kind /\ Of(h)' = d.of
      /\ User(h)' = d.user /\ Used(h)' = d.used
  <2>1. Adds(q, e, r, d, s, h)
    BY <1>2, <1>3 DEF Adds
  <2> QED BY ONLY <1>1, <2>1, Appended
<1>5. /\ ContextsInv' /\ Call(h)' = NoCall
      /\ \A f \in Futures :
           /\ Kind(f)' = Kind(f) /\ Inner(f)' = Inner(f) /\ Of(f)' = Of(f) /\ User(f)' = User(f)
           /\ Ready(Ctx(f))' <=> Ready(Ctx(f))
           /\ Quiet(f)
  <2>1. PICK T : T = {}
    OBVIOUS
  <2>2. T \in SUBSET Futures /\ \A f : f \notin T
    BY <2>1
  <2>3. /\ \A f \in Futures : User(f)' = User(f)
        /\ \A c \in Contexts : CallAt(c)' = CallAt(c)
    BY <1>2, <1>4
  <2>4. /\ Ctx(h)' = s /\ Inner(h)' \in {0, Invalid, s} /\ (Inner(h)' # 0 => Kind(h)' = "then_r")
        /\ Used(h)' = FALSE /\ User(h)' = 0 /\ CallAt(s)' = NoCall
        /\ Kind(h)' = "then_r" /\ Inner(h)' # s => ~Ready(s)'
    BY <1>4
  <2> QED BY <1>1, <1>4, <2>2, <2>3, <2>4, Grows
<1>6. NoCall.to = "nobody"
  BY CallbackKinds
<1>7. UserInv' /\ ChainInv'
  BY <1>4, <1>5, <1>6, UserKept, ChainKept DEF FutureInv
<1>8. AllInv'
  BY <1>1, <1>4, <1>5, <1>6, AllKept DEF FutureInv
<1> QED BY <1>5, <1>7, <1>8 DEF FutureInv

\* CPromise.
LEMMA InvNewPromise ==
  ASSUME FutureInv, NewPromise
  PROVE  FutureInv'
<1>1. PICK s : s = Len(context) + 1
  OBVIOUS
<1>2. PICK d : d = NewFuture("promise", s)
  OBVIOUS
<1>3. /\ context' = Append(context, NewContext) /\ future' = Append(future, d)
      /\ left' = left /\ todo' = todo /\ heard' = heard /\ Idle /\ Room(1)
  BY <1>1, <1>2 DEF NewPromise
<1>4. Shape
  BY DEF FutureInv, ContextsInv
<1>5. s \in 1 .. MaxContext /\ {} \in SUBSET (1 .. MaxHandle)
  BY <1>1, <1>3, <1>4, RoomForOne
<1>6. /\ d \in FutureType /\ d.kind = "promise" /\ d.ctx = s /\ d.inner = 0
      /\ d.used = FALSE /\ d.user = 0
  <2>1. /\ d.kind = "promise" /\ d.ctx = s /\ d.inner = 0 /\ d.used = FALSE /\ d.user = 0
    BY <1>2 DEF NewFuture
  <2>2. d \in FutureType
    BY <1>2, <1>5, FutureAssumption DEF NewFuture, FutureType, Invalid
  <2> QED BY <2>1, <2>2
<1>7. PICK r : r = future
  OBVIOUS
<1>8. /\ r \in Seq(FutureType) /\ Len(r) = Len(future)
      /\ \A f \in Futures : /\ r[f].kind = Kind(f) /\ r[f].ctx = Ctx(f)
                            /\ r[f].inner = Inner(f) /\ r[f].of = Of(f)
                            /\ (Used(f) => r[f].used) /\ r[f].user = User(f)
  BY <1>4, <1>7 DEF Shape, Kind, Ctx, Inner, Of, Used, User
<1>9. PICK e : e = NewContext
  OBVIOUS
<1>10. /\ FutureInv /\ e \in ContextType /\ (e.ready => e.val \in Values) /\ e.callback = NoCall
       /\ context' = Append(context, e) /\ future' = Append(r, d)
  BY <1>3, <1>7, <1>9, MadeContexts
<1>11. /\ d.inner \in {0, Invalid, s} /\ d.kind # "whenAll"
       /\ (d.inner # 0 => d.kind = "then_r") /\ (d.kind = "then_r" /\ d.inner # s => ~e.ready)
  BY <1>6
<1> QED BY ONLY <1>1, <1>3, <1>6, <1>8, <1>10, <1>11, Appends

\* then_r of a future that has its value.
LEMMA InvThenRReady ==
  ASSUME FutureInv, NEW f \in Futures, NEW new \in Returned, ThenRReady(f, new)
  PROVE  FutureInv'
<1>1. PICK s : s = Len(context) + 1
  OBVIOUS
<1>2. PICK d : d = [NewFuture("then_r", s) EXCEPT !.inner = IF new = <<>> THEN Invalid ELSE s]
  OBVIOUS
<1>3. PICK e : e = IF new = <<>> THEN NewContext ELSE Head(new)
  OBVIOUS
<1>4. PICK r : r = Uses(f)
  OBVIOUS
<1>5. /\ context' = Append(context, e) /\ future' = Append(r, d)
      /\ left' = left /\ todo' = todo /\ heard' = heard /\ Idle /\ Room(1)
  BY <1>1, <1>2, <1>3, <1>4 DEF ThenRReady, Attachable, Uses
<1>6. Shape
  BY DEF FutureInv, ContextsInv
<1>7. s \in 1 .. MaxContext /\ {} \in SUBSET (1 .. MaxHandle)
  BY <1>1, <1>5, <1>6, RoomForOne
<1>8. PICK i \in {Invalid, s} : i = IF new = <<>> THEN Invalid ELSE s
  OBVIOUS
<1>9. /\ d \in FutureType /\ d.kind = "then_r" /\ d.ctx = s /\ d.inner = i
      /\ d.used = FALSE /\ d.user = 0
  <2>1. /\ d.kind = "then_r" /\ d.ctx = s /\ d.inner = i /\ d.used = FALSE /\ d.user = 0
    BY <1>2, <1>8 DEF NewFuture
  <2>2. i \in 0 .. Invalid
    BY <1>7, <1>8, FutureAssumption DEF Invalid
  <2>3. d \in FutureType
    BY <1>2, <1>7, <1>8, <2>2 DEF NewFuture, FutureType
  <2> QED BY <2>1, <2>3
<1>10. e \in ContextType /\ e.callback = NoCall /\ (e.ready => e.val \in Values) /\ (i # s => ~e.ready)
  <2>1. CASE new = <<>>
    BY <1>3, <2>1, MadeContexts
  <2>2. CASE new = <<NewContext>>
    BY <1>3, <2>2, MadeContexts
  <2>3. ASSUME NEW v \in Values, new = <<ReadyContext(v)>>
        PROVE  e \in ContextType /\ e.callback = NoCall /\ (e.ready => e.val \in Values) /\ (i # s => ~e.ready)
    <3>1. new # <<>> /\ Head(new) = ReadyContext(v)
      BY <2>3
    <3> QED BY <1>3, <1>8, <3>1, MadeContexts
  <2> QED BY <2>1, <2>2, <2>3 DEF Returned
<1>11. /\ r \in Seq(FutureType) /\ Len(r) = Len(future)
       /\ \A g \in Futures : /\ r[g].kind = Kind(g) /\ r[g].ctx = Ctx(g) /\ r[g].inner = Inner(g)
                             /\ r[g].of = Of(g) /\ (Used(g) => r[g].used) /\ r[g].user = User(g)
  <2>1. /\ r \in Seq(FutureType) /\ Len(r) = Len(future) /\ r[f].used = TRUE /\ r[f].user = User(f)
        /\ \A g \in Futures :
             /\ r[g].kind = Kind(g) /\ r[g].ctx = Ctx(g) /\ r[g].inner = Inner(g) /\ r[g].of = Of(g)
             /\ g # f => r[g].used = Used(g) /\ r[g].user = User(g)
    BY <1>4, <1>6, UsedIn
  <2> QED BY <2>1
<1> QED BY <1>1, <1>5, <1>8, <1>9, <1>10, <1>11, Appends

\* then_r of a future without a value.
LEMMA InvThenR ==
  ASSUME FutureInv, NEW f \in Futures, ThenR(f)
  PROVE  FutureInv'
<1>1. PICK s : s = Len(context) + 1
  OBVIOUS
<1>2. PICK h : h = Len(future) + 1
  OBVIOUS
<1>3. PICK p : p = Ctx(f)
  OBVIOUS
<1>4. PICK k : k = ChainCall(h)
  OBVIOUS
<1>5. PICK q : q = WithCallback(p, k)
  OBVIOUS
<1>6. PICK r : r = Uses(f)
  OBVIOUS
<1>7. PICK d : d = NewFuture("then_r", s)
  OBVIOUS
<1>8. /\ context' = Append(q, NewContext) /\ future' = Append(r, d) /\ ~Ready(p)
      /\ left' = left /\ todo' = todo /\ heard' = heard /\ Idle /\ Room(1) /\ Attachable(f)
  BY <1>1, <1>2, <1>3, <1>4, <1>5, <1>6, <1>7
  DEF ThenR, Attachable, WithCallback, Uses, Ctx, Ready
<1>9. ContextsInv /\ Shape
  BY DEF FutureInv, ContextsInv
<1>10. s \in 1 .. MaxContext /\ Len(future) < MaxHandle /\ h \in 1 .. MaxHandle
  BY <1>1, <1>2, <1>8, <1>9, RoomForOne
<1>11. p \in Contexts /\ k \in Callbacks /\ k.to = "then_r" /\ k.f = h /\ k # NoCall
  BY <1>3, <1>4, <1>9, <1>10, CallbackKinds DEF ContextsInv, Owned
<1>12. /\ q \in Seq(ContextType) /\ Len(q) = Len(context) /\ q[p].callback = k
       /\ \A c \in Contexts :
            /\ q[c].ready = Ready(c) /\ q[c].val = Val(c) /\ q[c].waited = Waited(c)
            /\ c # p => q[c].callback = CallAt(c)
  BY <1>5, <1>9, <1>11, CallbackIn
<1>13. /\ r \in Seq(FutureType) /\ Len(r) = Len(future) /\ r[f].used = TRUE /\ r[f].user = User(f)
       /\ \A g \in Futures :
            /\ r[g].kind = Kind(g) /\ r[g].ctx = Ctx(g) /\ r[g].inner = Inner(g) /\ r[g].of = Of(g)
            /\ g # f => r[g].used = Used(g) /\ r[g].user = User(g)
  BY <1>6, <1>9, UsedIn
<1>14. /\ d.kind = "then_r" /\ d.ctx = s /\ d.inner = 0 /\ d.used = FALSE /\ d.user = 0
       /\ d \in FutureType
  BY <1>7, <1>10, FutureAssumption DEF NewFuture, FutureType, Invalid
<1>15. Adds(q, NewContext, r, d, s, h)
  <2>1. left' \in [1 .. MaxHandle -> 0 .. 2]
    BY <1>8, <1>9 DEF Shape
  <2>2. \A g \in Futures : Used(g) => r[g].used
    BY <1>13
  <2> QED BY <1>1, <1>2, <1>8, <1>12, <1>13, <1>14, <2>1, <2>2, MadeContexts DEF Adds
<1>16. /\ Shape' /\ h \notin Futures /\ h \in 1 .. MaxHandle /\ s \notin Contexts
       /\ Futures' = Futures \cup {h} /\ Contexts' = Contexts \cup {s}
       /\ 0 \notin Contexts' /\ Invalid \notin Contexts'
       /\ \A g \in Futures : Carried(g) /\ User(g)' = r[g].user /\ Used(g)' = r[g].used
       /\ \A c \in Contexts : /\ Ready(c)' = Ready(c) /\ Val(c)' = Val(c) /\ Waited(c)' = Waited(c)
                              /\ CallAt(c)' = q[c].callback
       /\ CallAt(s)' = NewContext.callback /\ Ready(s)' = NewContext.ready
       /\ Ctx(h)' = d.ctx /\ Inner(h)' = d.inner /\ Kind(h)' = d.kind /\ Of(h)' = d.of
       /\ User(h)' = d.user /\ Used(h)' = d.used
  BY <1>9, <1>15, Appended
<1>17. CallAt(s)' = NoCall /\ Ready(s)' = FALSE
  BY <1>16, MadeContexts
<1>18. Call(f)' = k
  <2>1. Ctx(f)' = p
    BY <1>3, <1>16 DEF Carried
  <2> QED BY <1>11, <1>12, <1>16, <2>1 DEF Call
<1>19. User(f) = 0
  BY <1>8, <1>9, CallbackKinds DEF ContextsInv, Slot, Attachable, Used
<1>20. PICK T \in SUBSET Futures : T = {f}
  OBVIOUS
<1>21. /\ ContextsInv' /\ Call(h)' = NoCall
       /\ \A g \in Futures :
            /\ Kind(g)' = Kind(g) /\ Inner(g)' = Inner(g) /\ Of(g)' = Of(g) /\ User(g)' = User(g)
            /\ Ready(Ctx(g))' <=> Ready(Ctx(g))
            /\ g \notin T => Quiet(g) /\ Call(g)' = Call(g)
            /\ g \in T => Call(g) = NoCall /\ (Pending(g)' <=> ~Ready(Ctx(g)))
  <2>1. \A g \in T : Attachable(g) /\ Used(g)' /\ Call(g)' # NoCall /\ User(g)' = 0
    BY <1>8, <1>11, <1>13, <1>16, <1>18, <1>19, <1>20
  <2>2. /\ \A g \in Futures : Carried(g) /\ (g \notin T => User(g)' = User(g))
        /\ \A c \in Contexts : /\ Ready(c)' = Ready(c) /\ Val(c)' = Val(c) /\ Waited(c)' = Waited(c)
                               /\ (\A g \in T : c # Ctx(g)) => CallAt(c)' = CallAt(c)
    BY <1>3, <1>12, <1>13, <1>16, <1>20
  <2>3. /\ Ctx(h)' = s /\ Inner(h)' \in {0, Invalid, s} /\ (Inner(h)' # 0 => Kind(h)' = "then_r")
        /\ Used(h)' = FALSE /\ User(h)' = 0 /\ CallAt(s)' = NoCall
        /\ Kind(h)' = "then_r" /\ Inner(h)' # s => ~Ready(s)'
    BY <1>14, <1>16, <1>17
  <2>4. Idle /\ todo' = todo
    BY <1>8
  <2> QED BY <1>9, <1>16, <2>1, <2>2, <2>3, <2>4, Grows
<1>22. /\ Call(f) = NoCall /\ Pending(f)' /\ NoCall.to = "nobody"
       /\ \A g \in Futures : g # f => Quiet(g) /\ Call(g)' = Call(g)
  BY <1>3, <1>8, <1>20, <1>21, CallbackKinds
<1>23. UserInv'
  BY <1>8, <1>11, <1>16, <1>18, <1>21, <1>22, UserKept DEF FutureInv
<1>24. AllInv'
  BY <1>8, <1>9, <1>11, <1>14, <1>16, <1>18, <1>21, <1>22, AllKept DEF FutureInv
<1>25. ASSUME NEW g \in Futures, Call(g).to = "then_r", g # f
       PROVE  /\ Call(g)'.f \in Futures' /\ Kind(Call(g).f)' = "then_r"
              /\ Pending(g)' => Inner(Call(g).f)' = 0
              /\ ~Pending(g)' /\ ~Stopped(g)' => Inner(Call(g).f)' # 0
              /\ \A o \in Futures' : Call(g)' = Call(o)' => g = o
  <2>1. PICK j : j = Call(g).f
    OBVIOUS
  <2>2. /\ j \in Futures /\ Kind(j) = "then_r"
        /\ Pending(g) => Inner(j) = 0
        /\ ~Pending(g) /\ ~Stopped(g) => Inner(j) # 0
        /\ \A o \in Futures : Call(g) = Call(o) => g = o
    BY <1>25, <2>1 DEF FutureInv, ChainInv
  <2>3. Quiet(g) /\ Call(g)' = Call(g) /\ Call(g)'.f = j
    BY <1>22, <1>25, <2>1
  <2>4. Kind(j)' = "then_r" /\ Inner(j)' = Inner(j) /\ j \in Futures' /\ j # h
    BY <1>16, <1>21, <2>2
  <2>5. Call(g)' # k
    BY <1>11, <2>3, <2>4
  <2>6. \A o \in Futures' : Call(g)' = Call(o)' => g = o
    BY <1>16, <1>18, <1>21, <1>22, <1>25, <2>2, <2>3, <2>5
  <2> QED BY <2>2, <2>3, <2>4, <2>6 DEF Quiet
<1>26. /\ Call(f)'.f \in Futures' /\ Kind(Call(f).f)' = "then_r"
       /\ Pending(f)' => Inner(Call(f).f)' = 0
       /\ ~Pending(f)' /\ ~Stopped(f)' => Inner(Call(f).f)' # 0
       /\ \A o \in Futures' : Call(f)' = Call(o)' => f = o
  <2>1. Call(f)'.f = h
    BY <1>11, <1>18
  <2>2. Kind(h)' = "then_r" /\ Inner(h)' = 0 /\ h \in Futures'
    BY <1>14, <1>16
  <2>3. ASSUME NEW o \in Futures', Call(o)' = k PROVE f = o
    <3>1. CASE o = h
      BY <1>11, <1>21, <2>3, <3>1
    <3>2. CASE o \in Futures /\ o # f
      <4>1. Call(o) = k
        BY <1>22, <2>3, <3>2
      <4>2. h \in Futures
        BY <1>11, <3>2, <4>1 DEF FutureInv, ChainInv
      <4> QED BY <1>16, <4>2
    <3> QED BY <1>16, <3>1, <3>2
  <2> QED BY <1>18, <1>22, <2>1, <2>2, <2>3
<1>27. ChainInv'
  <2>1. \A g \in Futures' :
          Call(g)'.to = "then_r" => g = f \/ (g \in Futures /\ Call(g).to = "then_r" /\ g # f)
    BY <1>16, <1>21, <1>22
  <2> QED BY <1>25, <1>26, <2>1 DEF ChainInv
<1> QED BY <1>21, <1>23, <1>24, <1>27 DEF FutureInv

\* then.
LEMMA InvThen ==
  ASSUME FutureInv, NEW f \in Futures, NEW u \in Users, Then(f, u)
  PROVE  FutureInv'
<1>1. PICK p : p = Ctx(f)
  OBVIOUS
<1>2. PICK k : k = UserCall(u)
  OBVIOUS
<1>3. /\ context' = WithCallback(p, k) /\ future' = UsesUser(f, u)
      /\ todo' = IF Ready(p) THEN p ELSE 0
      /\ left' = left /\ heard' = heard /\ Attachable(f) /\ Idle
      /\ \A g \in Futures : User(g) # u
  BY <1>1, <1>2 DEF Then, Attachable, WithCallback, UsesUser, Ctx, Ready, AtOnce, User
<1>4. ContextsInv /\ Shape /\ UserInv
  BY DEF FutureInv, ContextsInv
<1>5. p \in Contexts /\ k \in Callbacks /\ k.to = "user" /\ k.user = u /\ k # NoCall
  BY <1>1, <1>2, <1>4, CallbackKinds DEF ContextsInv, Owned
<1>6. /\ context' \in Seq(ContextType) /\ Len(context') = Len(context) /\ CallAt(p)' = k
      /\ \A c \in Contexts :
           /\ Ready(c)' = Ready(c) /\ Val(c)' = Val(c) /\ Waited(c)' = Waited(c)
           /\ c # p => CallAt(c)' = CallAt(c)
  <2>1. PICK q : q = WithCallback(p, k)
    OBVIOUS
  <2>2. /\ q \in Seq(ContextType) /\ Len(q) = Len(context) /\ q[p].callback = k
        /\ \A c \in Contexts :
             /\ q[c].ready = Ready(c) /\ q[c].val = Val(c) /\ q[c].waited = Waited(c)
             /\ c # p => q[c].callback = CallAt(c)
    BY <1>4, <1>5, <2>1, CallbackIn
  <2>3. context' = q
    BY <1>3, <2>1
  <2> QED BY <2>2, <2>3 DEF Ready, Val, Waited, CallAt
<1>7. /\ future' \in Seq(FutureType) /\ Len(future') = Len(future)
      /\ Used(f)' = TRUE /\ User(f)' = u
      /\ \A g \in Futures : Carried(g) /\ (g # f => User(g)' = User(g))
  <2>1. PICK r : r = UsesUser(f, u)
    OBVIOUS
  <2>2. /\ r \in Seq(FutureType) /\ Len(r) = Len(future) /\ r[f].used = TRUE /\ r[f].user = u
        /\ \A g \in Futures :
             /\ r[g].kind = Kind(g) /\ r[g].ctx = Ctx(g) /\ r[g].inner = Inner(g) /\ r[g].of = Of(g)
             /\ g # f => r[g].used = Used(g) /\ r[g].user = User(g)
    <3>1. /\ UsesUser(f, u) \in Seq(FutureType) /\ Len(UsesUser(f, u)) = Len(future)
          /\ UsesUser(f, u)[f].used = TRUE /\ UsesUser(f, u)[f].user = u
          /\ \A g \in Futures :
               /\ UsesUser(f, u)[g].kind = Kind(g) /\ UsesUser(f, u)[g].ctx = Ctx(g)
               /\ UsesUser(f, u)[g].inner = Inner(g)
               /\ UsesUser(f, u)[g].of = Of(g)
               /\ g # f => UsesUser(f, u)[g].used = Used(g) /\ UsesUser(f, u)[g].user = User(g)
      BY <1>4, UserIn
    <3> QED BY ONLY <2>1, <3>1
  <2>3. future' = r
    BY <1>3, <2>1
  <2> QED BY <2>2, <2>3 DEF Carried, Kind, Ctx, Inner, Of, Used, User
<1>8. Contexts' = Contexts /\ Futures' = Futures /\ 0 \notin Contexts /\ Invalid \notin Contexts
  BY <1>4, <1>6, <1>7, Fields DEF Contexts, Futures
<1>9. Call(f)' = k
  <2>1. Ctx(f)' = p
    BY <1>1, <1>7 DEF Carried
  <2> QED BY <1>6, <2>1 DEF Call
<1>10. PICK T \in SUBSET Futures : T = {f}
  OBVIOUS
<1>11. \A g \in Futures :
         /\ Slot(g)' /\ Where(g)' = Where(g) /\ (HasInner(g)' <=> HasInner(g))
         /\ (Stopped(g)' <=> Stopped(g)) /\ Result(g)' = Result(g)
         /\ Pending(g)' <=> (~Ready(Where(g)) \/ todo' = Where(g))
         /\ g \notin T => Call(g)' = Call(g)
         /\ g \in T => Call(g) = NoCall /\ Where(g) = Ctx(g) /\ User(g) = 0
  <2>1. \A g \in T : Attachable(g)
    BY <1>3, <1>10
  <2>2. \A g \in T : /\ Used(g)' /\ Call(g)' # NoCall
                     /\ User(g)' # 0 => Call(g)' = UserCall(User(g)') /\ User(g)' \in Users
    BY <1>2, <1>5, <1>7, <1>9, <1>10
  <2>3. /\ \A g \in Futures : Carried(g) /\ (g \notin T => User(g)' = User(g))
        /\ \A c \in Contexts : /\ Ready(c)' = Ready(c) /\ Val(c)' = Val(c) /\ Waited(c)' = Waited(c)
                               /\ (\A g \in T : c # Ctx(g)) => CallAt(c)' = CallAt(c)
    BY <1>1, <1>6, <1>7, <1>10
  <2>4. Contexts \subseteq Contexts' /\ 0 \notin Contexts' /\ Invalid \notin Contexts'
    BY <1>8
  <2> QED BY <1>4, <2>1, <2>2, <2>3, <2>4, Attaches
<1>12. /\ Call(f) = NoCall /\ Where(f) = p /\ Where(f)' = p /\ User(f) = 0 /\ NoCall.to = "nobody"
       /\ \A g \in Futures : Where(g) \in Contexts /\ (g # f => Where(g) # p)
  BY <1>1, <1>4, <1>10, <1>11, WhereIs, CallbackKinds
<1>13. Pending(f)'
  BY <1>3, <1>11, <1>12
<1>14. \A g \in Futures : Kind(g)' = Kind(g) /\ Inner(g)' = Inner(g) /\ Of(g)' = Of(g) /\ Ctx(g)' = Ctx(g)
  BY <1>7 DEF Carried
<1>15. ASSUME NEW g \in Futures, g # f PROVE Quiet(g) /\ Call(g)' = Call(g) /\ User(g)' = User(g)
  <2>1. g \notin T /\ todo' # Where(g) /\ todo # Where(g)
    BY <1>3, <1>8, <1>10, <1>12, <1>15 DEF Idle
  <2>2. Pending(g)' <=> Pending(g)
    BY <1>11, <2>1 DEF Pending
  <2>3. User(g)' = User(g)
    BY <1>7, <1>15
  <2> QED BY <1>11, <2>1, <2>2, <2>3 DEF Quiet
<1>16. ContextsInv'
  <2>1. Shape'
    <3>1. todo' \in 0 .. Len(context')
      BY <1>3, <1>4, <1>5, <1>6, Fields DEF Contexts
    <3>2. \A c \in Contexts' : Ready(c)' => Val(c)' \in Values
      BY <1>4, <1>6, <1>8 DEF Shape
    <3> QED BY <1>3, <1>4, <1>6, <1>7, <3>1, <3>2 DEF Shape
  <2>2. Owned'
    BY <1>4, <1>8, <1>11, <1>14 DEF ContextsInv, Owned
  <2>3. TodoInv'
    <3>1. ASSUME todo' # 0 PROVE Ready(todo)' /\ \E g \in Futures' : Where(g)' = todo' /\ Call(g)' # NoCall
      <4>1. todo' = p /\ Ready(p)
        BY <1>3, <3>1
      <4>2. Ready(todo)'
        BY <1>5, <1>6, <4>1
      <4> QED BY <1>5, <1>8, <1>9, <1>12, <4>1, <4>2
    <3> QED BY <3>1 DEF TodoInv
  <2> QED BY <1>8, <1>11, <2>1, <2>2, <2>3 DEF ContextsInv
<1>17. ChainInv'
  BY <1>5, <1>8, <1>9, <1>12, <1>14, <1>15, ChainKept DEF FutureInv
<1>18. AllInv'
  <2>1. ASSUME NEW g \in Futures PROVE Ready(Ctx(g))' <=> Ready(Ctx(g))
    <3>1. PICK c : c = Ctx(g)
      OBVIOUS
    <3>2. c \in Contexts /\ Ctx(g)' = c
      BY <1>4, <1>14, <3>1 DEF ContextsInv, Owned
    <3>3. Ready(c)' = Ready(c)
      BY <1>6, <3>2
    <3> QED BY <3>1, <3>2, <3>3
  <2> QED BY <1>3, <1>4, <1>5, <1>8, <1>9, <1>12, <1>14, <1>15, <2>1, AllKept DEF FutureInv
<1>19. \A g \in Futures : Call(g)' = k => g = f
  <2>1. ASSUME NEW g \in Futures, g # f, Call(g)' = k PROVE FALSE
    <3>1. Call(g) = k
      BY <1>15, <2>1
    <3>2. User(g) = u
      BY <1>4, <1>5, <3>1 DEF UserInv
    <3> QED BY <1>3, <3>2
  <2> QED BY <2>1
<1>20. heard[u] = <<>>
  BY <1>3, <1>4 DEF UserInv
<1>21. ASSUME NEW g \in Futures, Call(g)'.to = "user"
       PROVE  LET w == Call(g)'.user
              IN  /\ User(g)' = w
                  /\ Pending(g)' => heard'[w] = <<>>
                  /\ ~Pending(g)' => heard'[w] \in {<<>>, <<Result(g)'>>}
                  /\ ~Pending(g)' /\ ~Stopped(g)' => heard'[w] # <<>>
                  /\ \A o \in Futures' : Call(g)' = Call(o)' => g = o
  <2>1. CASE g = f
    BY <1>3, <1>5, <1>7, <1>8, <1>9, <1>13, <1>19, <1>20, <2>1
  <2>2. CASE g # f
    <3>1. Quiet(g) /\ Call(g)' = Call(g) /\ Call(g).to = "user" /\ Call(g)' # k
      BY <1>15, <1>19, <1>21, <2>2
    <3>2. PICK w : w = Call(g).user
      OBVIOUS
    <3>3. /\ User(g) = w
          /\ Pending(g) => heard[w] = <<>>
          /\ ~Pending(g) => heard[w] \in {<<>>, <<Result(g)>>}
          /\ ~Pending(g) /\ ~Stopped(g) => heard[w] # <<>>
          /\ \A o \in Futures : Call(g) = Call(o) => g = o
      BY <1>4, <3>1, <3>2 DEF UserInv
    <3>4. \A o \in Futures' : Call(g)' = Call(o)' => g = o
      BY <1>8, <1>9, <1>15, <3>1, <3>3
    <3>5. Call(g)'.user = w /\ heard'[w] = heard[w]
      BY <1>3, <3>1, <3>2
    <3> QED BY <3>1, <3>3, <3>4, <3>5 DEF Quiet
  <2> QED BY <2>1, <2>2
<1>22. ASSUME NEW w \in Users, \A g \in Futures' : User(g)' # w PROVE heard'[w] = <<>>
  <2>1. ASSUME NEW g \in Futures PROVE User(g) # w
    <3>1. CASE g # f
      BY <1>8, <1>15, <1>22, <3>1
    <3>2. CASE g = f
      BY <1>12, <3>2, FutureAssumption
    <3> QED BY <3>1, <3>2
  <2> QED BY <1>3, <1>4, <2>1 DEF UserInv
<1>23. UserInv'
  BY <1>8, <1>21, <1>22 DEF UserInv
<1> QED BY <1>16, <1>17, <1>18, <1>23 DEF FutureInv

\* How many callbacks whenAll still waits for.
LEMMA ReadyOf ==
  ASSUME NEW p, NEW t, p # t, NEW n, n = 2 - Cardinality({c \in {p, t} : context[c].ready}),
         Ready(p) \in BOOLEAN, Ready(t) \in BOOLEAN
  PROVE  n = (IF Ready(p) THEN 0 ELSE 1) + (IF Ready(t) THEN 0 ELSE 1)
<1>1. PICK R : R = {c \in {p, t} : context[c].ready}
  OBVIOUS
<1>2. R = {c \in {p, t} : Ready(c)}
  BY <1>1 DEF Ready
<1>3. n = 2 - Cardinality(R)
  BY <1>1
<1>4. Cardinality({p}) = 1 /\ Cardinality({t}) = 1 /\ Cardinality({}) = 0 /\ IsFiniteSet({p})
  BY FS_Singleton, FS_EmptySet
<1>5. Cardinality({p} \cup {t}) = 2
  <2>1. PICK R1 : R1 = {p}
    OBVIOUS
  <2>2. IsFiniteSet(R1) /\ Cardinality(R1) = 1 /\ t \notin R1
    BY <1>4, <2>1
  <2>3. Cardinality(R1 \cup {t}) = Cardinality(R1) + 1
    BY <2>2, FS_AddElement
  <2>4. Cardinality(R1 \cup {t}) = 2
    <3>1. PICK m : m = Cardinality(R1 \cup {t})
      OBVIOUS
    <3>2. PICK o : o = Cardinality(R1)
      OBVIOUS
    <3>3. m = o + 1 /\ o = 1
      BY ONLY <2>2, <2>3, <3>1, <3>2
    <3>4. m = 2
      BY ONLY <3>3
    <3> QED BY ONLY <3>1, <3>4
  <2> QED BY ONLY <2>1, <2>4
<1>6. CASE Ready(p) /\ Ready(t)
  <2>1. R = {p} \cup {t}
    BY <1>2, <1>6
  <2>2. Cardinality(R) = 2
    BY <1>5, <2>1
  <2>3. n = 0
    BY <1>3, <2>2
  <2> QED BY <1>6, <2>3
<1>7. CASE Ready(p) /\ ~Ready(t)
  <2>1. R = {p}
    BY <1>2, <1>7
  <2>2. Cardinality(R) = 1
    BY <1>4, <2>1
  <2>3. n = 1
    BY <1>3, <2>2
  <2> QED BY <1>7, <2>3
<1>8. CASE ~Ready(p) /\ Ready(t)
  <2>1. R = {t}
    BY <1>2, <1>8
  <2>2. Cardinality(R) = 1
    BY <1>4, <2>1
  <2>3. n = 1
    BY <1>3, <2>2
  <2> QED BY <1>8, <2>3
<1>9. CASE ~Ready(p) /\ ~Ready(t)
  <2>1. R = {}
    BY <1>2, <1>9
  <2>2. Cardinality(R) = 0
    BY <1>4, <2>1
  <2>3. n = 2
    BY <1>3, <2>2
  <2> QED BY <1>9, <2>3
<1> QED BY <1>6, <1>7, <1>8, <1>9

\* onFuture is put into two contexts, and attached to two futures.
AllBack(p, t, k) ==
  [c \in Contexts |-> IF c \in {p, t} THEN [context[c] EXCEPT !.callback = k] ELSE context[c]]
UsesBoth(f, g) == [future EXCEPT ![f].used = TRUE, ![g].used = TRUE]

\* onFuture is put into two contexts.
LEMMA CallbacksIn ==
  ASSUME Shape, NEW p, NEW t, NEW k \in Callbacks, NEW q, q = AllBack(p, t, k)
  PROVE  /\ q \in Seq(ContextType) /\ Len(q) = Len(context)
         /\ \A c \in Contexts :
              /\ q[c].ready = Ready(c) /\ q[c].val = Val(c) /\ q[c].waited = Waited(c)
              /\ q[c].callback = IF c \in {p, t} THEN k ELSE CallAt(c)
<1>1. PICK n \in Nat : n = Len(context)
  BY Fields
<1>2. Contexts = 1 .. n
  BY <1>1 DEF Contexts
<1>3. ASSUME NEW c \in Contexts
      PROVE  /\ q[c] \in ContextType
             /\ q[c].ready = Ready(c) /\ q[c].val = Val(c) /\ q[c].waited = Waited(c)
             /\ q[c].callback = IF c \in {p, t} THEN k ELSE CallAt(c)
  <2>1. PICK m \in ContextType : m = context[c]
    BY Fields
  <2>2. PICK e : e = [m EXCEPT !.callback = k]
    OBVIOUS
  <2>3. e \in ContextType /\ e.callback = k /\ e.ready = m.ready /\ e.val = m.val /\ e.waited = m.waited
    BY <2>1, <2>2 DEF ContextType
  <2>4. q[c] = IF c \in {p, t} THEN [context[c] EXCEPT !.callback = k] ELSE context[c]
    BY DEF AllBack
  <2>5. q[c] = IF c \in {p, t} THEN e ELSE m
    BY <2>1, <2>2, <2>4
  <2> QED BY <2>1, <2>3, <2>5 DEF Ready, Val, Waited, CallAt
<1>4. DOMAIN q = 1 .. n /\ q = [c \in 1 .. n |-> q[c]]
  BY <1>2 DEF AllBack
<1>5. q \in [1 .. n -> ContextType]
  BY <1>2, <1>3, <1>4
<1>6. q \in Seq(ContextType) /\ Len(q) = n
  BY <1>4, <1>5
<1> QED BY <1>1, <1>3, <1>6

\* onFuture is attached to two futures.
LEMMA BothIn ==
  ASSUME Shape, NEW f \in Futures, NEW g \in Futures, f # g
  PROVE  /\ UsesBoth(f, g) \in Seq(FutureType) /\ Len(UsesBoth(f, g)) = Len(future)
         /\ UsesBoth(f, g)[f].used = TRUE /\ UsesBoth(f, g)[g].used = TRUE
         /\ \A o \in Futures :
              /\ UsesBoth(f, g)[o].kind = Kind(o) /\ UsesBoth(f, g)[o].ctx = Ctx(o)
              /\ UsesBoth(f, g)[o].inner = Inner(o)
              /\ UsesBoth(f, g)[o].of = Of(o) /\ UsesBoth(f, g)[o].user = User(o)
              /\ o \notin {f, g} => UsesBoth(f, g)[o].used = Used(o)
<1>0. PICK r : r = UsesBoth(f, g)
  OBVIOUS
<1>1. PICK q : q = Uses(f)
  OBVIOUS
<1>2. /\ q \in Seq(FutureType) /\ Len(q) = Len(future) /\ q[f].used = TRUE /\ q[f].user = User(f)
      /\ \A o \in Futures :
           /\ q[o].kind = Kind(o) /\ q[o].ctx = Ctx(o) /\ q[o].inner = Inner(o) /\ q[o].of = Of(o)
           /\ o # f => q[o].used = Used(o) /\ q[o].user = User(o)
  BY <1>1, UsedIn
<1>3. Futures = 1 .. Len(q)
  BY <1>2 DEF Futures
<1>4. PICK m \in FutureType : m = q[g]
  BY <1>2, <1>3
<1>5. PICK d : d = [m EXCEPT !.used = TRUE]
  OBVIOUS
<1>6. /\ d \in FutureType /\ d.used = TRUE /\ d.kind = m.kind /\ d.ctx = m.ctx
      /\ d.inner = m.inner /\ d.of = m.of /\ d.user = m.user
  BY <1>5 DEF FutureType
<1>7. r = [q EXCEPT ![g] = d]
  <2>1. r = [q EXCEPT ![g].used = TRUE]
    BY <1>0, <1>1 DEF UsesBoth, Uses
  <2> QED BY <1>4, <1>5, <2>1
<1>8. PICK a : a = [q EXCEPT ![g] = d]
  OBVIOUS
<1>9. a \in Seq(FutureType) /\ Len(a) = Len(q) /\ a[g] = d /\ \A o \in 1 .. Len(q) : o # g => a[o] = q[o]
  <2>1. q \in Seq(FutureType) /\ g \in 1 .. Len(q) /\ d \in FutureType
    BY <1>2, <1>3, <1>6
  <2> QED BY ONLY <1>8, <2>1, SetIn
<1>10. r = a
  BY <1>7, <1>8
<1>11. r \in Seq(FutureType) /\ Len(r) = Len(future) /\ r[g] = d /\ \A o \in Futures : o # g => r[o] = q[o]
  BY <1>2, <1>3, <1>9, <1>10
<1> QED BY <1>0, <1>2, <1>4, <1>6, <1>11

\* whenAll.
LEMMA InvWhenAll ==
  ASSUME FutureInv, NEW f \in Futures, NEW g \in Futures, WhenAll(f, g)
  PROVE  FutureInv'
<1>1. PICK s : s = Len(context) + 1
  OBVIOUS
<1>2. PICK h : h = Len(future) + 1
  OBVIOUS
<1>3. PICK p : p = Ctx(f)
  OBVIOUS
<1>4. PICK t : t = Ctx(g)
  OBVIOUS
<1>5. PICK k : k = AllCall(h)
  OBVIOUS
<1>6. PICK q : q = AllBack(p, t, k)
  OBVIOUS
<1>7. PICK r : r = UsesBoth(f, g)
  OBVIOUS
<1>8. PICK d : d = [NewFuture("whenAll", s) EXCEPT !.of = {f, g}]
  OBVIOUS
<1>9. PICK n : n = 2 - Cardinality({c \in {p, t} : context[c].ready})
  OBVIOUS
<1>10. PICK v : v = CHOOSE w \in Values : TRUE
  OBVIOUS
<1>11. PICK e : e = IF n = 0 THEN ReadyContext(v) ELSE NewContext
  OBVIOUS
<1>12. /\ context' = Append(q, e) /\ future' = Append(r, d) /\ left' = [left EXCEPT ![h] = n]
       /\ todo' = todo /\ heard' = heard /\ Idle /\ Room(1) /\ Attachable(f) /\ Attachable(g) /\ f < g
  BY <1>1, <1>2, <1>3, <1>4, <1>5, <1>6, <1>7, <1>8, <1>9, <1>10, <1>11
  DEF WhenAll, Attachable, AllBack, UsesBoth, Ctx
<1>13. ContextsInv /\ Shape /\ AllInv
  BY DEF FutureInv, ContextsInv
<1>14. f # g
  BY <1>12 DEF Futures
<1>15. s \in 1 .. MaxContext /\ h \in 1 .. MaxHandle
  BY <1>1, <1>2, <1>12, <1>13, RoomForOne
<1>16. /\ p \in Contexts /\ t \in Contexts /\ p # t /\ Ready(p) \in BOOLEAN /\ Ready(t) \in BOOLEAN
       /\ k \in Callbacks /\ k.to = "whenAll" /\ k.f = h /\ k # NoCall
  BY <1>3, <1>4, <1>5, <1>13, <1>14, <1>15, CallbackKinds, Fields DEF ContextsInv, Owned
<1>17. n = (IF Ready(p) THEN 0 ELSE 1) + (IF Ready(t) THEN 0 ELSE 1)
  BY <1>9, <1>16, ReadyOf
<1>18. n \in 0 .. 2 /\ (n = 0 => Ready(p))
  BY <1>17
<1>19. /\ e \in ContextType /\ e.callback = NoCall /\ (e.ready <=> n = 0) /\ (e.ready => e.val \in Values)
       /\ e.ready \in BOOLEAN
  <2>1. CASE n = 0
    <3>1. Val(p) \in Values
      BY <1>13, <1>16, <1>18, <2>1 DEF Shape
    <3>2. v \in Values
      BY <1>10, <3>1
    <3> QED BY <1>11, <2>1, <3>2, MadeContexts
  <2>2. CASE n # 0
    BY <1>11, <2>2, MadeContexts
  <2> QED BY <2>1, <2>2
<1>20. /\ q \in Seq(ContextType) /\ Len(q) = Len(context)
       /\ \A c \in Contexts :
            /\ q[c].ready = Ready(c) /\ q[c].val = Val(c) /\ q[c].waited = Waited(c)
            /\ q[c].callback = IF c \in {p, t} THEN k ELSE CallAt(c)
  BY <1>6, <1>13, <1>16, CallbacksIn
<1>21. /\ r \in Seq(FutureType) /\ Len(r) = Len(future)
       /\ r[f].used = TRUE /\ r[g].used = TRUE
       /\ \A o \in Futures :
            /\ r[o].kind = Kind(o) /\ r[o].ctx = Ctx(o) /\ r[o].inner = Inner(o)
            /\ r[o].of = Of(o) /\ r[o].user = User(o)
            /\ o \notin {f, g} => r[o].used = Used(o)
  <2>1. /\ UsesBoth(f, g) \in Seq(FutureType) /\ Len(UsesBoth(f, g)) = Len(future)
        /\ UsesBoth(f, g)[f].used = TRUE /\ UsesBoth(f, g)[g].used = TRUE
        /\ \A o \in Futures :
             /\ UsesBoth(f, g)[o].kind = Kind(o) /\ UsesBoth(f, g)[o].ctx = Ctx(o)
             /\ UsesBoth(f, g)[o].inner = Inner(o)
             /\ UsesBoth(f, g)[o].of = Of(o) /\ UsesBoth(f, g)[o].user = User(o)
             /\ o \notin {f, g} => UsesBoth(f, g)[o].used = Used(o)
    BY <1>13, <1>14, BothIn
  <2> QED BY ONLY <1>7, <2>1
<1>22. /\ d.kind = "whenAll" /\ d.ctx = s /\ d.inner = 0 /\ d.used = FALSE /\ d.user = 0 /\ d.of = {f, g}
       /\ d \in FutureType
  <2>1. {f, g} \in SUBSET (1 .. MaxHandle) /\ 0 \in 0 .. Invalid
    BY <1>13, Fields, FutureAssumption DEF Invalid
  <2>2. d = [kind |-> "whenAll", ctx |-> s, inner |-> 0, of |-> {f, g}, used |-> FALSE, user |-> 0]
    BY <1>8 DEF NewFuture
  <2> QED BY <1>15, <2>1, <2>2 DEF FutureType
<1>23. left' \in [1 .. MaxHandle -> 0 .. 2] /\ left'[h] = n /\ \A o \in 1 .. MaxHandle : o # h => left'[o] = left[o]
  BY <1>12, <1>13, <1>15, <1>18 DEF Shape
<1>24. Adds(q, e, r, d, s, h)
  <2>1. \A o \in Futures : Used(o) => r[o].used
    BY <1>21
  <2> QED BY <1>1, <1>2, <1>12, <1>19, <1>20, <1>21, <1>22, <1>23, <2>1 DEF Adds
<1>25. /\ Shape' /\ h \notin Futures /\ h \in 1 .. MaxHandle /\ s \notin Contexts
       /\ Futures' = Futures \cup {h} /\ Contexts' = Contexts \cup {s}
       /\ 0 \notin Contexts' /\ Invalid \notin Contexts'
       /\ \A o \in Futures : Carried(o) /\ User(o)' = r[o].user /\ Used(o)' = r[o].used
       /\ \A c \in Contexts : /\ Ready(c)' = Ready(c) /\ Val(c)' = Val(c) /\ Waited(c)' = Waited(c)
                              /\ CallAt(c)' = q[c].callback
       /\ CallAt(s)' = e.callback /\ Ready(s)' = e.ready
       /\ Ctx(h)' = d.ctx /\ Inner(h)' = d.inner /\ Kind(h)' = d.kind /\ Of(h)' = d.of
       /\ User(h)' = d.user /\ Used(h)' = d.used
  BY <1>13, <1>24, Appended
<1>26. Call(f)' = k /\ Call(g)' = k
  <2>1. Ctx(f)' = p /\ Ctx(g)' = t
    BY <1>3, <1>4, <1>25 DEF Carried
  <2> QED BY <1>16, <1>20, <1>25, <2>1 DEF Call
<1>27. User(f) = 0 /\ User(g) = 0
  BY <1>12, <1>13, CallbackKinds DEF ContextsInv, Slot, Attachable, Used
<1>28. PICK T \in SUBSET Futures : T = {f, g}
  OBVIOUS
<1>29. /\ ContextsInv' /\ Call(h)' = NoCall
       /\ \A o \in Futures :
            /\ Kind(o)' = Kind(o) /\ Inner(o)' = Inner(o) /\ Of(o)' = Of(o) /\ User(o)' = User(o)
            /\ Ready(Ctx(o))' <=> Ready(Ctx(o))
            /\ o \notin T => Quiet(o) /\ Call(o)' = Call(o)
            /\ o \in T => Call(o) = NoCall /\ (Pending(o)' <=> ~Ready(Ctx(o)))
  <2>1. \A o \in T : Attachable(o) /\ Used(o)' /\ Call(o)' # NoCall /\ User(o)' = 0
    BY <1>12, <1>16, <1>21, <1>25, <1>26, <1>27, <1>28
  <2>2. /\ \A o \in Futures : Carried(o) /\ (o \notin T => User(o)' = User(o))
        /\ \A c \in Contexts : /\ Ready(c)' = Ready(c) /\ Val(c)' = Val(c) /\ Waited(c)' = Waited(c)
                               /\ (\A o \in T : c # Ctx(o)) => CallAt(c)' = CallAt(c)
    BY <1>3, <1>4, <1>20, <1>21, <1>25, <1>28
  <2>3. /\ Ctx(h)' = s /\ Inner(h)' \in {0, Invalid, s} /\ (Inner(h)' # 0 => Kind(h)' = "then_r")
        /\ Used(h)' = FALSE /\ User(h)' = 0 /\ CallAt(s)' = NoCall
        /\ Kind(h)' = "then_r" /\ Inner(h)' # s => ~Ready(s)'
    BY <1>19, <1>22, <1>25
  <2>4. Idle /\ todo' = todo
    BY <1>12
  <2> QED BY <1>13, <1>25, <2>1, <2>2, <2>3, <2>4, Grows
<1>30. /\ Call(f) = NoCall /\ Call(g) = NoCall /\ NoCall.to = "nobody"
       /\ (Pending(f)' <=> ~Ready(p)) /\ (Pending(g)' <=> ~Ready(t))
       /\ \A o \in Futures : o \notin {f, g} => Quiet(o) /\ Call(o)' = Call(o)
  BY <1>3, <1>4, <1>28, <1>29, CallbackKinds
<1>31. UserInv'
  BY <1>12, <1>16, <1>25, <1>26, <1>29, <1>30, UserKept DEF FutureInv
<1>32. ChainInv'
  BY <1>16, <1>25, <1>26, <1>29, <1>30, ChainKept DEF FutureInv
<1>33. Counts(h, f, g)' /\ (left'[h] = 0 <=> Ready(Ctx(h))')
  <2>1. Owes(f)' = (IF Ready(p) THEN 0 ELSE 1) /\ Owes(g)' = (IF Ready(t) THEN 0 ELSE 1)
    BY <1>30 DEF Owes
  <2>2. left'[h] = Owes(f)' + Owes(g)' /\ left'[h] >= Owes(f)' + Owes(g)'
    BY <1>17, <1>18, <1>23, <2>1
  <2>3. Of(h)' = {f, g} /\ Ready(Ctx(h))' = e.ready
    BY <1>22, <1>25
  <2> QED BY <1>5, <1>14, <1>19, <1>23, <1>26, <2>2, <2>3 DEF Counts
<1>34. ASSUME NEW j \in Futures, Kind(j) = "whenAll"
       PROVE  (left'[j] = 0 <=> Ready(Ctx(j))') /\ \E a, b \in Futures : Counts(j, a, b)'
  <2>1. j # h /\ left'[j] = left[j] /\ left[j] \in 0 .. 2
    BY <1>13, <1>23, <1>25, Fields DEF Shape
  <2>2. PICK a \in Futures, b \in Futures : Counts(j, a, b)
    BY <1>13, <1>34 DEF AllInv
  <2>3. a \notin {f, g} /\ b \notin {f, g}
    BY <1>30, <2>2, CallbackKinds DEF Counts
  <2>4. Quiet(a) /\ Quiet(b)
    BY <1>30, <2>3
  <2>5. Of(j)' = Of(j)
    BY <1>29
  <2>6. Counts(j, a, b)'
    BY <2>1, <2>2, <2>4, <2>5, CountsKept
  <2>7. left[j] = 0 <=> Ready(Ctx(j))
    BY <1>13, <1>34 DEF AllInv
  <2>8. Ready(Ctx(j))' <=> Ready(Ctx(j))
    BY <1>29
  <2> QED BY <2>1, <2>6, <2>7, <2>8
<1>35. ASSUME NEW o \in Futures', Call(o)'.to = "whenAll"
       PROVE  Call(o)'.f \in Futures' /\ Kind(Call(o).f)' = "whenAll" /\ o \in Of(Call(o).f)'
  <2>1. CASE o \in {f, g}
    <3>1. Call(o)'.f = h /\ Kind(h)' = "whenAll" /\ Of(h)' = {f, g} /\ h \in Futures'
      BY <1>16, <1>22, <1>25, <1>26, <2>1
    <3> QED BY <2>1, <3>1
  <2>2. CASE o \notin {f, g}
    <3>1. o \in Futures /\ Call(o)' = Call(o)
      BY <1>25, <1>29, <1>30, <1>35, <2>2
    <3>2. PICK j : j = Call(o).f
      OBVIOUS
    <3>3. j \in Futures /\ Kind(j) = "whenAll" /\ o \in Of(j)
      BY <1>13, <1>35, <3>1, <3>2 DEF AllInv
    <3>4. Kind(j)' = "whenAll" /\ Of(j)' = Of(j) /\ j \in Futures'
      BY <1>25, <1>29, <3>3
    <3> QED BY <3>1, <3>2, <3>3, <3>4
  <2> QED BY <2>1, <2>2
<1>36. AllInv'
  <2>1. ASSUME NEW j \in Futures', Kind(j)' = "whenAll"
        PROVE  (left'[j] = 0 <=> Ready(Ctx(j))') /\ \E a, b \in Futures' : Counts(j, a, b)'
    <3>1. CASE j = h
      BY <1>25, <1>33, <3>1
    <3>2. CASE j \in Futures
      <4>1. Kind(j) = "whenAll"
        BY <1>29, <2>1, <3>2
      <4> QED BY <1>25, <1>34, <3>2, <4>1
    <3> QED BY <1>25, <3>1, <3>2
  <2> QED BY <1>35, <2>1 DEF AllInv
<1> QED BY <1>29, <1>31, <1>32, <1>36 DEF FutureInv

\* A coroutine waits for a future.
WaitsAt(p) == [context EXCEPT ![p].waited = TRUE]

\* What changes then.
LEMMA WaitedIn ==
  ASSUME Shape, NEW p \in Contexts, context' = WaitsAt(p)
  PROVE  /\ context' \in Seq(ContextType) /\ Len(context') = Len(context) /\ Waited(p)' = TRUE
         /\ \A c \in Contexts : Ready(c)' = Ready(c) /\ Val(c)' = Val(c) /\ CallAt(c)' = CallAt(c)
         /\ \A c \in Contexts : c # p => Waited(c)' = Waited(c)
<1>1. PICK m \in ContextType : m = context[p]
  BY Fields
<1>2. PICK e : e = [m EXCEPT !.waited = TRUE]
  OBVIOUS
<1>3. e \in ContextType /\ e.waited = TRUE /\ e.ready = m.ready /\ e.val = m.val /\ e.callback = m.callback
  BY <1>1, <1>2 DEF ContextType
<1>4. PICK b : b = context
  OBVIOUS
<1>5. b \in Seq(ContextType) /\ p \in 1 .. Len(b) /\ Contexts = 1 .. Len(b)
  BY <1>4 DEF Shape, Contexts
<1>6. context' = [b EXCEPT ![p] = e]
  BY <1>1, <1>2, <1>4 DEF WaitsAt
<1>7. /\ [b EXCEPT ![p] = e] \in Seq(ContextType) /\ Len([b EXCEPT ![p] = e]) = Len(b)
      /\ [b EXCEPT ![p] = e][p] = e
      /\ \A j \in 1 .. Len(b) : j # p => [b EXCEPT ![p] = e][j] = b[j]
  BY ONLY <1>3, <1>5, SetIn
<1>8. /\ context' \in Seq(ContextType) /\ Len(context') = Len(b) /\ context'[p] = e
      /\ \A c \in Contexts : c # p => context'[c] = b[c]
  BY <1>5, <1>6, <1>7
<1>9. ASSUME NEW c \in Contexts
      PROVE  /\ Ready(c)' = Ready(c) /\ Val(c)' = Val(c) /\ CallAt(c)' = CallAt(c)
             /\ c # p => Waited(c)' = Waited(c)
  BY <1>1, <1>3, <1>4, <1>8 DEF Ready, Val, Waited, CallAt
<1>10. Waited(p)' = TRUE
  BY <1>3, <1>8 DEF Waited
<1> QED BY <1>4, <1>8, <1>9, <1>10

\* wait.
LEMMA InvWait ==
  ASSUME FutureInv, NEW f \in Futures, Wait(f)
  PROVE  FutureInv'
<1>1. PICK p : p = Ctx(f)
  OBVIOUS
<1>2. /\ context' = WaitsAt(p) /\ future' = future /\ left' = left /\ todo' = todo /\ heard' = heard /\ Idle
  BY <1>1 DEF Wait, WaitsAt, Ctx
<1>3. ContextsInv /\ Shape
  BY DEF FutureInv, ContextsInv
<1>4. p \in Contexts /\ \A g \in Futures : Ctx(g) \in Contexts
  BY <1>1, <1>3 DEF ContextsInv, Owned
<1>5. /\ context' \in Seq(ContextType) /\ Len(context') = Len(context) /\ Waited(p)' = TRUE
      /\ \A c \in Contexts : Ready(c)' = Ready(c) /\ Val(c)' = Val(c) /\ CallAt(c)' = CallAt(c)
      /\ \A c \in Contexts : c # p => Waited(c)' = Waited(c)
  BY <1>2, <1>3, <1>4, WaitedIn
<1>6. /\ Contexts' = Contexts /\ Futures' = Futures /\ Owned'
      /\ \A g \in Futures : SameFuture(g) /\ (HasInner(g)' <=> HasInner(g)) /\ Where(g)' = Where(g)
  BY <1>2, <1>3, <1>5, SamePlaces
<1>7. \A g \in Futures :
        /\ Kind(g)' = Kind(g) /\ Ctx(g)' = Ctx(g) /\ Inner(g)' = Inner(g) /\ Of(g)' = Of(g)
        /\ Used(g)' = Used(g) /\ User(g)' = User(g) /\ Call(g)' = Call(g)
  BY <1>6 DEF SameFuture
<1>8. ASSUME NEW g \in Futures PROVE Slot(g)'
  <2>1. PICK i : i = Inner(g)
    OBVIOUS
  <2>2. PICK c : c = Ctx(g)
    OBVIOUS
  <2>3. c \in Contexts /\ Ready(c)' = Ready(c)
    BY <1>4, <1>5, <2>2
  <2>4. HasInner(g) => CallAt(i)' = CallAt(i)
    BY <1>5, <2>1 DEF HasInner
  <2>5. HasInner(g) /\ i # c => i # p
    BY <1>1, <1>3, <2>1, <2>2 DEF ContextsInv, Owned
  <2>6. HasInner(g) /\ i # c => ~Waited(i)'
    BY <1>3, <1>5, <2>1, <2>2, <2>5 DEF ContextsInv, Slot, HasInner
  <2> QED BY <1>3, <1>6, <1>7, <2>1, <2>2, <2>3, <2>4, <2>6 DEF ContextsInv, Slot
<1>9. ASSUME NEW g \in Futures PROVE Quiet(g)
  <2>1. PICK w : w = Where(g)
    OBVIOUS
  <2>2. w \in Contexts /\ Where(g)' = w
    BY <1>3, <1>6, <2>1, WhereIs
  <2>3. (Pending(g)' <=> Pending(g)) /\ Result(g)' = Result(g)
    BY <1>2, <1>5, <2>1, <2>2 DEF Pending, Result
  <2>4. PICK c : c = Ctx(g)
    OBVIOUS
  <2>5. c \in Contexts /\ Ctx(g)' = c /\ (Waited(c) => Waited(c)')
    BY <1>4, <1>5, <1>7, <2>4
  <2>6. Stopped(g) => Stopped(g)'
    BY <2>4, <2>5 DEF Stopped
  <2> QED BY <1>7, <2>3, <2>6 DEF Quiet
<1>10. ContextsInv'
  <2>1. \A c \in Contexts' : Ready(c)' => Val(c)' \in Values
    BY <1>3, <1>5, <1>6 DEF Shape
  <2>2. Shape'
    BY <1>2, <1>3, <1>5, <2>1 DEF Shape
  <2>3. TodoInv'
    BY <1>2 DEF Idle, TodoInv
  <2> QED BY <1>6, <1>8, <2>2, <2>3 DEF ContextsInv
<1>11. UserInv' /\ ChainInv'
  BY <1>2, <1>6, <1>7, <1>9, CallbackKinds, UserKept, ChainKept DEF FutureInv
<1>12. AllInv'
  <2>1. ASSUME NEW g \in Futures PROVE Ready(Ctx(g))' <=> Ready(Ctx(g))
    <3>1. PICK c : c = Ctx(g)
      OBVIOUS
    <3>2. c \in Contexts /\ Ctx(g)' = c
      BY <1>4, <1>7, <3>1
    <3>3. Ready(c)' = Ready(c)
      BY <1>5, <3>2
    <3> QED BY <3>1, <3>2, <3>3
  <2> QED BY <1>2, <1>3, <1>6, <1>7, <1>9, <2>1, AllKept DEF FutureInv
<1> QED BY <1>10, <1>11, <1>12 DEF FutureInv

-----------------------------------------------------------------------------
(* The call of a function of then_r.                                       *)

\* What the function of a future has returned, and a value that is copied back.
Yields(j, i) == [future EXCEPT ![j].inner = i]
Copies(p, a, v) == [context EXCEPT ![p].ready = a, ![p].val = v]

\* The future of then_r has its inner future.
LEMMA ReturnedIn ==
  ASSUME Shape, NEW j \in Futures, NEW i \in 0 .. Invalid, future' = Yields(j, i)
  PROVE  /\ future' \in Seq(FutureType) /\ Len(future') = Len(future) /\ Inner(j)' = i
         /\ \A f \in Futures :
              /\ Kind(f)' = Kind(f) /\ Ctx(f)' = Ctx(f) /\ Of(f)' = Of(f)
              /\ Used(f)' = Used(f) /\ User(f)' = User(f)
              /\ f # j => Inner(f)' = Inner(f)
<1>1. PICK m \in FutureType : m = future[j]
  BY Fields
<1>2. PICK e : e = [m EXCEPT !.inner = i]
  OBVIOUS
<1>3. /\ e \in FutureType /\ e.inner = i /\ e.kind = m.kind /\ e.ctx = m.ctx
      /\ e.of = m.of /\ e.used = m.used /\ e.user = m.user
  BY <1>1, <1>2 DEF FutureType
<1>4. PICK b : b = future
  OBVIOUS
<1>5. b \in Seq(FutureType) /\ j \in 1 .. Len(b) /\ Futures = 1 .. Len(b)
  BY <1>4 DEF Shape, Futures
<1>6. future' = [b EXCEPT ![j] = e]
  BY <1>1, <1>2, <1>4 DEF Yields
<1>7. /\ [b EXCEPT ![j] = e] \in Seq(FutureType) /\ Len([b EXCEPT ![j] = e]) = Len(b)
      /\ [b EXCEPT ![j] = e][j] = e
      /\ \A n \in 1 .. Len(b) : n # j => [b EXCEPT ![j] = e][n] = b[n]
  BY ONLY <1>3, <1>5, SetIn
<1>8. /\ future' \in Seq(FutureType) /\ Len(future') = Len(b) /\ future'[j] = e
      /\ \A f \in Futures : f # j => future'[f] = b[f]
  BY <1>5, <1>6, <1>7
<1>9. ASSUME NEW f \in Futures
      PROVE  /\ Kind(f)' = Kind(f) /\ Ctx(f)' = Ctx(f) /\ Of(f)' = Of(f)
             /\ Used(f)' = Used(f) /\ User(f)' = User(f)
             /\ f # j => Inner(f)' = Inner(f)
  BY <1>1, <1>3, <1>4, <1>8 DEF Kind, Ctx, Inner, Of, Used, User
<1>10. Inner(j)' = i
  BY <1>3, <1>8 DEF Inner
<1> QED BY <1>4, <1>8, <1>9, <1>10

\* A result is copied back.
LEMMA CopiedIn ==
  ASSUME Shape, NEW p \in Contexts, NEW a \in BOOLEAN, NEW v \in Values \cup {0},
         NEW q, q = Copies(p, a, v)
  PROVE  /\ q \in Seq(ContextType) /\ Len(q) = Len(context) /\ q[p].ready = a /\ q[p].val = v
         /\ \A c \in Contexts :
              /\ q[c].callback = CallAt(c) /\ q[c].waited = Waited(c)
              /\ c # p => q[c].ready = Ready(c) /\ q[c].val = Val(c)
<1>1. PICK m \in ContextType : m = context[p]
  BY Fields
<1>2. PICK e : e = [m EXCEPT !.ready = a, !.val = v]
  OBVIOUS
<1>3. e \in ContextType /\ e.ready = a /\ e.val = v /\ e.callback = m.callback /\ e.waited = m.waited
  BY <1>1, <1>2 DEF ContextType
<1>4. PICK b : b = context
  OBVIOUS
<1>5. b \in Seq(ContextType) /\ p \in 1 .. Len(b) /\ Contexts = 1 .. Len(b)
  BY <1>4 DEF Shape, Contexts
<1>6. q = [b EXCEPT ![p] = e]
  BY <1>1, <1>2, <1>4 DEF Copies
<1>7. /\ [b EXCEPT ![p] = e] \in Seq(ContextType) /\ Len([b EXCEPT ![p] = e]) = Len(b)
      /\ [b EXCEPT ![p] = e][p] = e
      /\ \A n \in 1 .. Len(b) : n # p => [b EXCEPT ![p] = e][n] = b[n]
  BY ONLY <1>3, <1>5, SetIn
<1>8. q \in Seq(ContextType) /\ Len(q) = Len(b) /\ q[p] = e /\ \A c \in Contexts : c # p => q[c] = b[c]
  BY <1>5, <1>6, <1>7
<1>9. ASSUME NEW c \in Contexts
      PROVE  /\ q[c].callback = CallAt(c) /\ q[c].waited = Waited(c)
             /\ c # p => q[c].ready = Ready(c) /\ q[c].val = Val(c)
  BY <1>1, <1>3, <1>4, <1>8 DEF Ready, Val, Waited, CallAt
<1> QED BY <1>3, <1>4, <1>8, <1>9

\* The function of j has been called.
LEMMA Ran ==
  ASSUME FutureInv, NEW x \in Futures, NEW j \in Futures, Kind(j) = "then_r", Call(x) = ChainCall(j),
         Passed(x), \A f \in Futures : f # x /\ Call(f) # NoCall => Quiet(f),
         Futures' = Futures, left' = left, heard' = heard,
         \A f \in Futures : /\ Kind(f)' = Kind(f) /\ Of(f)' = Of(f) /\ User(f)' = User(f)
                            /\ Call(f)' = Call(f) /\ (f # j => Inner(f)' = Inner(f)),
         Inner(j)' # 0,
         \A f \in Futures : Kind(f) = "whenAll" => (Ready(Ctx(f))' <=> Ready(Ctx(f)))
  PROVE  UserInv' /\ ChainInv' /\ AllInv'
<1>1. ContextsInv /\ Shape
  BY DEF FutureInv, ContextsInv
<1>2. Call(x).to = "then_r" /\ Call(x).f = j /\ NoCall.to = "nobody"
  BY CallbackKinds
<1>3. UserInv'
  BY <1>2, UserKept DEF FutureInv
<1>4. AllInv'
  BY <1>1, <1>2, AllKept DEF FutureInv
<1>5. ASSUME NEW g \in Futures, Call(g).to = "then_r"
      PROVE  /\ Call(g)'.f \in Futures' /\ Kind(Call(g).f)' = "then_r"
             /\ Pending(g)' => Inner(Call(g).f)' = 0
             /\ ~Pending(g)' /\ ~Stopped(g)' => Inner(Call(g).f)' # 0
             /\ \A o \in Futures' : Call(g)' = Call(o)' => g = o
  <2>1. PICK i : i = Call(g).f
    OBVIOUS
  <2>2. /\ i \in Futures /\ Kind(i) = "then_r"
        /\ Pending(g) => Inner(i) = 0
        /\ ~Pending(g) /\ ~Stopped(g) => Inner(i) # 0
        /\ \A o \in Futures : Call(g) = Call(o) => g = o
    BY <1>5, <2>1 DEF FutureInv, ChainInv
  <2>3. Call(g)'.f = i /\ \A o \in Futures' : Call(g)' = Call(o)' => g = o
    BY <2>1, <2>2
  <2>4. CASE g = x
    <3>1. i = j /\ ~Pending(g)'
      BY <1>2, <2>1, <2>4 DEF Passed
    <3> QED BY <2>2, <2>3, <3>1
  <2>5. CASE g # x
    <3>1. Call(g) = ChainCall(i)
      BY <1>1, <1>5, <2>1, WhereIs, CallbackKinds
    <3>2. i # j
      BY <2>2, <2>5, <3>1
    <3>3. Inner(i)' = Inner(i) /\ Kind(i)' = "then_r"
      BY <2>2, <3>2
    <3>4. Quiet(g)
      BY <1>2, <1>5, <2>5
    <3> QED BY <2>2, <2>3, <3>3, <3>4 DEF Quiet
  <2> QED BY <2>4, <2>5
<1>6. ChainInv'
  BY <1>5 DEF ChainInv
<1> QED BY <1>3, <1>4, <1>6

\* Who is called, and the future it belongs to.
LEMMA ChainCaller ==
  ASSUME FutureInv, todo # 0, CallAt(todo).to = "then_r"
  PROVE  \E x, j \in Futures :
           /\ j = CallAt(todo).f /\ Where(x) = todo /\ Call(x) = ChainCall(j) /\ Ready(todo)
           /\ Kind(j) = "then_r" /\ Inner(j) = 0 /\ ~HasInner(j) /\ Where(j) = Ctx(j)
           /\ Ctx(j) \in Contexts /\ ~Ready(Ctx(j)) /\ x # j
           /\ \A f \in Futures : f # x => Where(f) # todo
           /\ \A f \in Futures : f # j => Where(f) # Ctx(j)
<1>1. ContextsInv /\ Shape
  BY DEF FutureInv, ContextsInv
<1>2. /\ Ready(todo)
      /\ \E x \in Futures : /\ Where(x) = todo /\ CallAt(todo) = Call(x) /\ Pending(x)
                            /\ \A f \in Futures : f # x => Where(f) # todo
  BY <1>1, Caller
<1>3. PICK x \in Futures : /\ Where(x) = todo /\ CallAt(todo) = Call(x) /\ Pending(x)
                           /\ \A f \in Futures : f # x => Where(f) # todo
  BY <1>2
<1>4. PICK j : j = Call(x).f
  OBVIOUS
<1>5. j \in Futures /\ Kind(j) = "then_r" /\ Inner(j) = 0
  BY <1>3, <1>4 DEF FutureInv, ChainInv
<1>6. Call(x) = ChainCall(j)
  BY <1>1, <1>3, <1>4, WhereIs, CallbackKinds
<1>7. ~HasInner(j)
  BY <1>1, <1>5, Fields DEF HasInner
<1>8. Where(j) = Ctx(j) /\ Ctx(j) \in Contexts /\ ~Ready(Ctx(j))
  BY <1>1, <1>5, <1>7 DEF Where, ContextsInv, Owned, Slot
<1>9. x # j
  BY <1>2, <1>3, <1>8
<1>10. \A f \in Futures : f # j => Where(f) # Ctx(j)
  BY <1>1, <1>5, <1>8, WhereIs
<1> QED BY <1>2, <1>3, <1>4, <1>5, <1>6, <1>7, <1>8, <1>9, <1>10

\* The function of then_r returns no future.
LEMMA InvChainNone ==
  ASSUME FutureInv, NEW x \in Futures, NEW j \in Futures,
         Where(x) = todo, Call(x) = ChainCall(j), Kind(j) = "then_r", ~HasInner(j),
         Where(j) = Ctx(j), ~Ready(Ctx(j)), \A f \in Futures : f # x => Where(f) # todo,
         future' = Yields(j, Invalid), context' = context, todo' = 0, left' = left, heard' = heard
  PROVE  FutureInv'
<1>1. ContextsInv /\ Shape
  BY DEF FutureInv, ContextsInv
<1>2. /\ future' \in Seq(FutureType) /\ Len(future') = Len(future) /\ Inner(j)' = Invalid
      /\ \A f \in Futures :
           /\ Kind(f)' = Kind(f) /\ Ctx(f)' = Ctx(f) /\ Of(f)' = Of(f)
           /\ Used(f)' = Used(f) /\ User(f)' = User(f)
           /\ f # j => Inner(f)' = Inner(f)
  <2>1. Invalid \in 0 .. Invalid
    BY FutureAssumption DEF Invalid
  <2> QED BY <1>1, <2>1, ReturnedIn
<1>3. \A c : Ready(c)' = Ready(c) /\ Waited(c)' = Waited(c) /\ CallAt(c)' = CallAt(c) /\ Val(c)' = Val(c)
  BY DEF Ready, Waited, CallAt, Val
<1>4. Contexts' = Contexts /\ Futures' = Futures /\ Invalid \notin Contexts /\ 0 \notin Contexts /\ Invalid # 0
  BY <1>1, <1>2, Fields DEF Contexts, Futures
<1>5. \A f \in Futures : HasInner(f)' <=> HasInner(f)
  BY <1>2, <1>4 DEF HasInner
<1>6. \A f \in Futures : Call(f)' = Call(f) /\ (Stopped(f)' <=> Stopped(f))
  BY <1>2, <1>3 DEF Call, Stopped
<1>7. \A f \in Futures : Where(f)' = Where(f)
  <2>1. ASSUME NEW f \in Futures PROVE Where(f)' = Where(f)
    <3>1. CASE f = j
      BY <1>2, <1>5, <3>1 DEF Where
    <3>2. CASE f # j
      BY <1>2, <1>3, <1>5, <3>2 DEF Where
    <3> QED BY <3>1, <3>2
  <2> QED BY <2>1
<1>8. \A f \in Futures : Where(f) # 0
  BY <1>1, WhereIs
<1>9. \A f \in Futures : (Pending(f)' <=> ~Ready(Where(f))) /\ Result(f)' = Result(f)
  BY <1>3, <1>7, <1>8 DEF Pending, Result
<1>10. \A f \in Futures : f # x => Quiet(f)
  BY <1>2, <1>6, <1>9 DEF Quiet, Pending
<1>11. Passed(x)
  <2>1. Ready(todo)
    BY <1>1, <1>8 DEF ContextsInv, TodoInv
  <2> QED BY <1>2, <1>6, <1>9, <2>1 DEF Passed, Pending
<1>12. ASSUME NEW f \in Futures PROVE Slot(f)'
  <2>1. CASE f = j
    BY <1>1, <1>2, <1>3, <1>5, <1>6, <2>1 DEF ContextsInv, Slot
  <2>2. CASE f # j
    BY <1>1, <1>2, <1>3, <1>5, <1>6, <2>2 DEF ContextsInv, Slot
  <2> QED BY <2>1, <2>2
<1>13. Owned'
  <2>1. ASSUME NEW f \in Futures
        PROVE  /\ Ctx(f)' \in Contexts' /\ Inner(f)' \in Contexts' \cup {0, Invalid}
               /\ Inner(f)' # 0 => Kind(f)' = "then_r"
    BY <1>1, <1>2, <1>4 DEF ContextsInv, Owned
  <2>2. ASSUME NEW f \in Futures, NEW g \in Futures, g # f
        PROVE  Ctx(g)' # Ctx(f)' /\ Ctx(g)' # Inner(f)' /\ (Inner(g)' = Inner(f)' => ~HasInner(f)')
    <3>1. /\ Ctx(g) # Ctx(f) /\ Ctx(g) # Inner(f) /\ (Inner(g) = Inner(f) => ~HasInner(f))
          /\ Ctx(g) \in Contexts
      BY <1>1, <2>2 DEF ContextsInv, Owned
    <3>2. CASE f = j
      BY <1>2, <1>4, <1>5, <2>2, <3>1, <3>2
    <3>3. CASE f # j /\ g = j
      <4>1. HasInner(f) => Inner(f) # Invalid
        BY <1>4 DEF HasInner
      <4> QED BY <1>2, <1>5, <3>1, <3>3, <4>1
    <3>4. CASE f # j /\ g # j
      BY <1>2, <1>5, <3>1, <3>4
    <3> QED BY <3>2, <3>3, <3>4
  <2> QED BY <1>4, <2>1, <2>2 DEF Owned
<1>14. ContextsInv'
  <2>1. Shape'
    BY <1>1, <1>2, <1>3, <1>4 DEF Shape
  <2>2. TodoInv'
    BY DEF TodoInv
  <2> QED BY <1>4, <1>12, <1>13, <2>1, <2>2 DEF ContextsInv
<1>15. UserInv' /\ ChainInv' /\ AllInv'
  <2>1. \A f \in Futures : Ready(Ctx(f))' <=> Ready(Ctx(f))
    BY <1>2, <1>3
  <2> QED BY <1>2, <1>4, <1>6, <1>10, <1>11, <2>1, Ran
<1> QED BY <1>14, <1>15 DEF FutureInv

\* The context of the future that the function returns, and what it does to
\* the context of j.
Moves(j, s, r) ==
  /\ r \in ContextType /\ r.callback = Call(j) /\ r.waited = FALSE /\ (r.ready => r.val \in Values)
  /\ s = Len(context) + 1 /\ Len(context) < MaxContext
  /\ context' = Append(Copies(Ctx(j), r.ready, r.val), r)
  /\ future' = Yields(j, s) /\ todo' = RunNow(s, r)
  /\ left' = left /\ heard' = heard

\* The contexts after the function of j has returned a future.
LEMMA MovedContexts ==
  ASSUME FutureInv, NEW j \in Futures, NEW s, NEW r, Moves(j, s, r), ~HasInner(j), ~Ready(Ctx(j)),
         Ctx(j) \in Contexts, Kind(j) = "then_r"
  PROVE  /\ Shape' /\ Owned' /\ s \notin Contexts /\ s # 0
         /\ Contexts' = Contexts \cup {s} /\ Futures' = Futures /\ HasInner(j)'
         /\ Inner(j)' = s /\ CallAt(s)' = Call(j) /\ ~Waited(s)' /\ (Ready(s)' <=> r.ready)
         /\ \A c \in Contexts : CallAt(c)' = CallAt(c) /\ Waited(c)' = Waited(c)
         /\ \A c \in Contexts : c # Ctx(j) => Ready(c)' = Ready(c) /\ Val(c)' = Val(c)
         /\ \A f \in Futures :
              /\ Kind(f)' = Kind(f) /\ Ctx(f)' = Ctx(f) /\ Of(f)' = Of(f)
              /\ Used(f)' = Used(f) /\ User(f)' = User(f)
              /\ f # j => Inner(f)' = Inner(f) /\ (HasInner(f)' <=> HasInner(f))
<1>1. ContextsInv /\ Shape
  BY DEF FutureInv, ContextsInv
<1>2. /\ r \in ContextType /\ r.callback = Call(j) /\ r.waited = FALSE /\ (r.ready => r.val \in Values)
      /\ s = Len(context) + 1 /\ Len(context) < MaxContext
      /\ context' = Append(Copies(Ctx(j), r.ready, r.val), r)
      /\ future' = Yields(j, s) /\ todo' = RunNow(s, r) /\ left' = left /\ heard' = heard
  BY DEF Moves
<1>3. PICK p : p = Ctx(j)
  OBVIOUS
<1>4. PICK q : q = Copies(p, r.ready, r.val)
  OBVIOUS
<1>5. r.ready \in BOOLEAN /\ r.val \in Values \cup {0}
  BY <1>2 DEF ContextType
<1>6. /\ q \in Seq(ContextType) /\ Len(q) = Len(context) /\ q[p].ready = r.ready /\ q[p].val = r.val
      /\ \A c \in Contexts :
           /\ q[c].callback = CallAt(c) /\ q[c].waited = Waited(c)
           /\ c # p => q[c].ready = Ready(c) /\ q[c].val = Val(c)
  BY <1>1, <1>3, <1>4, <1>5, CopiedIn
<1>7. /\ context' \in Seq(ContextType) /\ Len(context') = Len(context) + 1 /\ Len(context') <= MaxContext
      /\ s \notin Contexts /\ Contexts' = Contexts \cup {s}
      /\ 0 \notin Contexts' /\ Invalid \notin Contexts'
      /\ context'[s] = r /\ \A c \in Contexts : context'[c] = q[c]
  <2>1. context' = Append(q, r)
    BY <1>2, <1>3, <1>4
  <2> QED BY <1>1, <1>2, <1>6, <2>1, MoreContexts
<1>8. s \in 0 .. Invalid /\ s # 0 /\ s # Invalid /\ Len(context) \in Nat
  BY <1>1, <1>2, Fields, FutureAssumption DEF Invalid
<1>9. /\ future' \in Seq(FutureType) /\ Len(future') = Len(future) /\ Inner(j)' = s
      /\ \A f \in Futures :
           /\ Kind(f)' = Kind(f) /\ Ctx(f)' = Ctx(f) /\ Of(f)' = Of(f)
           /\ Used(f)' = Used(f) /\ User(f)' = User(f)
           /\ f # j => Inner(f)' = Inner(f)
  BY <1>1, <1>2, <1>8, ReturnedIn
<1>10. Futures' = Futures
  BY <1>9 DEF Futures
<1>11. \A c \in Contexts : CallAt(c)' = CallAt(c) /\ Waited(c)' = Waited(c)
  BY <1>6, <1>7 DEF CallAt, Waited
<1>12. \A c \in Contexts : c # p => Ready(c)' = Ready(c) /\ Val(c)' = Val(c)
  BY <1>6, <1>7 DEF Ready, Val
<1>13. /\ CallAt(s)' = Call(j) /\ ~Waited(s)' /\ (Ready(s)' <=> r.ready) /\ Val(s)' = r.val
       /\ (Ready(p)' <=> r.ready) /\ Val(p)' = r.val
  <2>1. context'[p] = q[p]
    BY <1>3, <1>7
  <2> QED BY <1>2, <1>6, <1>7, <2>1 DEF CallAt, Waited, Ready, Val
<1>14. \A f \in Futures : Ctx(f) \in Contexts /\ Inner(f) \in Contexts \cup {0, Invalid}
                          /\ (Inner(f) # 0 => Kind(f) = "then_r")
  BY <1>1 DEF ContextsInv, Owned
<1>15. \A f \in Futures : f # j => (HasInner(f)' <=> HasInner(f))
  BY <1>7, <1>8, <1>9, <1>14 DEF HasInner
<1>16. HasInner(j)'
  BY <1>7, <1>9 DEF HasInner
<1>17. Shape'
  <2>1. ASSUME NEW c \in Contexts', Ready(c)' PROVE Val(c)' \in Values
    <3>1. CASE c = s \/ c = p
      BY <1>2, <1>13, <2>1, <3>1
    <3>2. CASE c \in Contexts /\ c # p
      BY <1>1, <1>12, <2>1, <3>2 DEF Shape
    <3> QED BY <1>7, <3>1, <3>2
  <2>2. todo' \in 0 .. Len(context')
    BY <1>2, <1>7, <1>8 DEF RunNow
  <2> QED BY <1>1, <1>2, <1>7, <1>9, <2>1, <2>2 DEF Shape
<1>18. Owned'
  <2>1. ASSUME NEW f \in Futures
        PROVE  /\ Ctx(f)' \in Contexts' /\ Inner(f)' \in Contexts' \cup {0, Invalid}
               /\ Inner(f)' # 0 => Kind(f)' = "then_r"
    <3>1. CASE f = j
      BY <1>7, <1>9, <1>14, <3>1
    <3>2. CASE f # j
      BY <1>7, <1>9, <1>14, <3>2
    <3> QED BY <3>1, <3>2
  <2>2. ASSUME NEW f \in Futures, NEW g \in Futures, g # f
        PROVE  Ctx(g)' # Ctx(f)' /\ Ctx(g)' # Inner(f)' /\ (Inner(g)' = Inner(f)' => ~HasInner(f)')
    <3>1. /\ Ctx(g) # Ctx(f) /\ Ctx(g) # Inner(f) /\ (Inner(g) = Inner(f) => ~HasInner(f))
          /\ Ctx(g) # s /\ Inner(g) # s /\ Inner(f) # s
      BY <1>1, <1>7, <1>8, <1>14, <2>2 DEF ContextsInv, Owned
    <3>2. CASE f = j
      BY <1>9, <2>2, <3>1, <3>2
    <3>3. CASE f # j /\ g = j
      BY <1>9, <3>1, <3>3
    <3>4. CASE f # j /\ g # j
      BY <1>9, <1>15, <3>1, <3>4
    <3> QED BY <3>2, <3>3, <3>4
  <2> QED BY <1>10, <2>1, <2>2 DEF Owned
<1> QED BY <1>3, <1>7, <1>8, <1>9, <1>10, <1>11, <1>12, <1>13, <1>15, <1>16, <1>17, <1>18

\* The function of then_r returns a future, to which the callback of j moves.
LEMMA InvChainSome ==
  ASSUME FutureInv, NEW x \in Futures, NEW j \in Futures, NEW s, NEW r, Moves(j, s, r),
         Where(x) = todo, todo # 0, Ready(todo), Call(x) = ChainCall(j), Kind(j) = "then_r", ~HasInner(j),
         Where(j) = Ctx(j), ~Ready(Ctx(j)), Ctx(j) \in Contexts, x # j,
         \A f \in Futures : f # x => Where(f) # todo,
         \A f \in Futures : f # j => Where(f) # Ctx(j)
  PROVE  FutureInv'
<1>1. ContextsInv /\ Shape
  BY DEF FutureInv, ContextsInv
<1>2. PICK p : p = Ctx(j)
  OBVIOUS
<1>3. PICK t : t = todo
  OBVIOUS
<1>4. /\ Shape' /\ Owned' /\ s \notin Contexts /\ s # 0
      /\ Contexts' = Contexts \cup {s} /\ Futures' = Futures /\ HasInner(j)'
      /\ Inner(j)' = s /\ CallAt(s)' = Call(j) /\ ~Waited(s)' /\ (Ready(s)' <=> r.ready)
      /\ \A c \in Contexts : CallAt(c)' = CallAt(c) /\ Waited(c)' = Waited(c)
      /\ \A c \in Contexts : c # p => Ready(c)' = Ready(c) /\ Val(c)' = Val(c)
      /\ \A f \in Futures :
           /\ Kind(f)' = Kind(f) /\ Ctx(f)' = Ctx(f) /\ Of(f)' = Of(f)
           /\ Used(f)' = Used(f) /\ User(f)' = User(f)
           /\ f # j => Inner(f)' = Inner(f) /\ (HasInner(f)' <=> HasInner(f))
  BY <1>2, MovedContexts
<1>5. /\ todo' = IF r.ready /\ Call(j) # NoCall THEN s ELSE 0
      /\ left' = left /\ heard' = heard
  BY DEF Moves, RunNow
<1>6. \A f \in Futures : Ctx(f) \in Contexts /\ Where(f) \in Contexts /\ Where(f) # 0
  BY <1>1, WhereIs DEF ContextsInv, Owned
<1>7. ASSUME NEW f \in Futures PROVE Call(f)' = Call(f) /\ (Stopped(f)' <=> Stopped(f))
  <2>1. PICK c : c = Ctx(f)
    OBVIOUS
  <2>2. c \in Contexts /\ Ctx(f)' = c
    BY <1>4, <1>6, <2>1
  <2>3. CallAt(c)' = CallAt(c) /\ Waited(c)' = Waited(c)
    BY <1>4, <2>2
  <2> QED BY <2>1, <2>2, <2>3 DEF Call, Stopped
<1>8. ASSUME NEW f \in Futures, f # j PROVE Where(f)' = Where(f)
  <2>1. PICK i : i = Inner(f)
    OBVIOUS
  <2>2. Inner(f)' = i /\ (HasInner(f)' <=> HasInner(f)) /\ Ctx(f)' = Ctx(f)
    BY <1>4, <1>8, <2>1
  <2>3. HasInner(f) => CallAt(i)' = CallAt(i)
    BY <1>4, <2>1 DEF HasInner
  <2> QED BY <2>1, <2>2, <2>3 DEF Where
<1>9. Where(j)' = IF Call(j) # NoCall THEN s ELSE p
  BY <1>2, <1>4 DEF Where
<1>10. ASSUME NEW f \in Futures, f # j
       PROVE  (Pending(f)' <=> ~Ready(Where(f))) /\ Result(f)' = Result(f)
  <2>1. PICK w : w = Where(f)
    OBVIOUS
  <2>2. w \in Contexts /\ w # p /\ w # 0 /\ w # s /\ Where(f)' = w
    BY <1>2, <1>4, <1>6, <1>8, <1>10, <2>1
  <2>3. Ready(w)' = Ready(w) /\ Val(w)' = Val(w)
    BY <1>4, <2>2
  <2>4. todo' # w
    BY <1>5, <2>2
  <2> QED BY <2>1, <2>2, <2>3, <2>4 DEF Pending, Result
<1>11. Passed(x)
  <2>1. Pending(x) /\ ~Pending(x)'
    BY <1>10 DEF Pending
  <2> QED BY <1>4, <1>7, <1>10, <2>1 DEF Passed
<1>12. ASSUME NEW f \in Futures, f # x, Call(f) # NoCall PROVE Quiet(f)
  <2>1. Call(f)' = Call(f) /\ User(f)' = User(f) /\ (Stopped(f)' <=> Stopped(f))
    BY <1>4, <1>7
  <2>2. CASE f = j
    <3>1. Pending(j)
      BY DEF Pending
    <3>2. Where(j)' = s
      BY <1>9, <1>12, <2>2
    <3>3. Pending(j)'
      BY <1>4, <1>5, <1>12, <2>2, <3>2 DEF Pending
    <3> QED BY <2>1, <2>2, <3>1, <3>3 DEF Quiet
  <2>3. CASE f # j
    <3>1. Pending(f) <=> ~Ready(Where(f))
      BY <1>12 DEF Pending
    <3> QED BY <1>10, <2>1, <2>3, <3>1 DEF Quiet
  <2> QED BY <2>2, <2>3
<1>13. ASSUME NEW f \in Futures PROVE Slot(f)'
  <2>1. Slot(f)
    BY <1>1 DEF ContextsInv
  <2>2. PICK c : c = Ctx(f)
    OBVIOUS
  <2>3. c \in Contexts /\ Ctx(f)' = c
    BY <1>4, <1>6, <2>2
  <2>4. CASE f = j
    BY <1>4, <1>7, <2>1, <2>4 DEF Slot
  <2>5. CASE f # j
    <3>1. PICK i : i = Inner(f)
      OBVIOUS
    <3>2. Inner(f)' = i /\ (HasInner(f)' <=> HasInner(f)) /\ Kind(f)' = Kind(f) /\ Used(f)' = Used(f)
          /\ User(f)' = User(f)
      BY <1>4, <2>5, <3>1
    <3>3. HasInner(f) => CallAt(i)' = CallAt(i) /\ (Waited(i)' <=> Waited(i))
      BY <1>4, <3>1 DEF HasInner
    <3>4. c # p
      BY <1>1, <1>2, <2>2, <2>5 DEF ContextsInv, Owned
    <3>5. Ready(c)' = Ready(c)
      BY <1>4, <2>3, <3>4
    <3> QED BY <1>7, <2>1, <2>2, <2>3, <3>1, <3>2, <3>3, <3>5 DEF Slot
  <2> QED BY <2>4, <2>5
<1>14. TodoInv'
  <2>1. ASSUME todo' # 0 PROVE Ready(todo)' /\ \E f \in Futures' : Where(f)' = todo' /\ Call(f)' # NoCall
    <3>1. todo' = s /\ r.ready /\ Call(j) # NoCall
      BY <1>5, <2>1
    <3>2. Ready(todo)' /\ Where(j)' = todo' /\ Call(j)' # NoCall
      BY <1>4, <1>7, <1>9, <3>1
    <3> QED BY <1>4, <3>2
  <2> QED BY <2>1 DEF TodoInv
<1>15. ContextsInv'
  BY <1>4, <1>13, <1>14 DEF ContextsInv
<1>16. ASSUME NEW f \in Futures, Kind(f) = "whenAll" PROVE Ready(Ctx(f))' <=> Ready(Ctx(f))
  <2>1. PICK c : c = Ctx(f)
    OBVIOUS
  <2>2. c \in Contexts /\ Ctx(f)' = c
    BY <1>4, <1>6, <2>1
  <2>3. c # p
    BY <1>1, <1>2, <1>16, <2>1 DEF ContextsInv, Owned
  <2>4. Ready(c)' = Ready(c)
    BY <1>4, <2>2, <2>3
  <2> QED BY <2>1, <2>2, <2>4
<1>17. UserInv' /\ ChainInv' /\ AllInv'
  <2>1. \A f \in Futures : /\ Kind(f)' = Kind(f) /\ Of(f)' = Of(f) /\ User(f)' = User(f)
                           /\ Call(f)' = Call(f) /\ (f # j => Inner(f)' = Inner(f))
    BY <1>4, <1>7
  <2>2. Inner(j)' # 0 /\ Futures' = Futures
    BY <1>4
  <2> QED BY <1>5, <1>11, <1>12, <1>16, <2>1, <2>2, Ran
<1> QED BY <1>15, <1>17 DEF FutureInv

\* The call of callback_1.
LEMMA InvCallThenR ==
  ASSUME FutureInv, NEW new \in Returned, CallThenR(new)
  PROVE  FutureInv'
<1>1. todo # 0 /\ CallAt(todo).to = "then_r" /\ left' = left /\ heard' = heard /\ Len(context) < MaxContext
  BY Zenon DEF CallThenR, CallAt
<1>2. PICK x \in Futures, j \in Futures :
        /\ j = CallAt(todo).f /\ Where(x) = todo /\ Call(x) = ChainCall(j) /\ Ready(todo)
        /\ Kind(j) = "then_r" /\ Inner(j) = 0 /\ ~HasInner(j) /\ Where(j) = Ctx(j)
        /\ Ctx(j) \in Contexts /\ ~Ready(Ctx(j)) /\ x # j
        /\ \A f \in Futures : f # x => Where(f) # todo
        /\ \A f \in Futures : f # j => Where(f) # Ctx(j)
  BY <1>1, ChainCaller
<1>3. ContextsInv /\ Shape
  BY DEF FutureInv, ContextsInv
<1>4. CASE new = <<>>
  <2>1. future' = Yields(j, Invalid) /\ context' = context /\ todo' = 0
    BY <1>2, <1>4 DEF CallThenR, CallAt, Yields
  <2> QED BY <1>1, <1>2, <2>1, InvChainNone
<1>5. CASE new # <<>>
  <2>1. PICK r : r = [Head(new) EXCEPT !.callback = Call(j)]
    BY Zenon
  <2>2. PICK s : s = Len(context) + 1
    OBVIOUS
  <2>3. /\ context' = Append(Copies(Ctx(j), r.ready, r.val), r)
        /\ future' = Yields(j, s) /\ todo' = RunNow(s, r)
    BY <1>2, <1>5, <2>1, <2>2, Zenon DEF CallThenR, CallAt, Copies, Yields, Ctx, Call, Moved
  <2>4. PICK m : m = Head(new)
    OBVIOUS
  <2>5. m \in ContextType /\ m.waited = FALSE /\ (m.ready => m.val \in Values)
    <3>1. CASE new = <<NewContext>>
      BY <2>4, <3>1, MadeContexts
    <3>2. ASSUME NEW v \in Values, new = <<ReadyContext(v)>>
          PROVE  m \in ContextType /\ m.waited = FALSE /\ (m.ready => m.val \in Values)
      <4>1. m = ReadyContext(v)
        BY <2>4, <3>2
      <4> QED BY <4>1, MadeContexts
    <3> QED BY <1>5, <3>1, <3>2 DEF Returned
  <2>6. Call(j) \in Callbacks
    BY <1>3, WhereIs
  <2>7. r = [m EXCEPT !.callback = Call(j)]
    BY <2>1, <2>4
  <2>8. /\ r \in ContextType /\ r.callback = Call(j) /\ r.waited = FALSE
        /\ r.ready = m.ready /\ r.val = m.val
    BY <2>5, <2>6, <2>7 DEF ContextType
  <2>9. Moves(j, s, r)
    BY <1>1, <2>2, <2>3, <2>5, <2>8 DEF Moves
  <2> QED BY <1>1, <1>2, <2>9, InvChainSome
<1> QED BY <1>4, <1>5, Zenon

-----------------------------------------------------------------------------
(* The invariant, and what follows from it.                                *)

\* It holds before a program has made a promise.
LEMMA FutureInitInv ==
  ASSUME FutureInit
  PROVE  FutureInv
<1>1. context = <<>> /\ future = <<>> /\ todo = 0
  BY DEF FutureInit
<1>2. Contexts = {} /\ Futures = {}
  BY <1>1 DEF Contexts, Futures
<1>3. Shape
  <2>1. /\ context \in Seq(ContextType) /\ Len(context) = 0
        /\ future \in Seq(FutureType) /\ Len(future) = 0
    BY <1>1
  <2>2. left \in [1 .. MaxHandle -> 0 .. 2] /\ heard \in [Users -> Seq(Values)]
    BY DEF FutureInit
  <2> QED BY <1>1, <1>2, <2>1, <2>2, FutureAssumption DEF Shape
<1>4. ContextsInv
  BY <1>1, <1>2, <1>3 DEF ContextsInv, Owned, TodoInv
<1>5. UserInv
  BY <1>2 DEF UserInv, FutureInit
<1> QED BY <1>2, <1>4, <1>5 DEF FutureInv, ChainInv, AllInv

\* Nothing changes in a step that stutters.
LEMMA FutureStutters ==
  ASSUME FutureInv, UNCHANGED futureVars
  PROVE  FutureInv'
<1>1. context' = context /\ future' = future /\ left' = left /\ todo' = todo /\ heard' = heard
  BY DEF futureVars
<1>2. /\ Contexts' = Contexts /\ Futures' = Futures
      /\ \A c : Ready(c)' = Ready(c) /\ Val(c)' = Val(c) /\ CallAt(c)' = CallAt(c) /\ Waited(c)' = Waited(c)
      /\ \A f : /\ Kind(f)' = Kind(f) /\ Ctx(f)' = Ctx(f) /\ Inner(f)' = Inner(f) /\ Of(f)' = Of(f)
                /\ Used(f)' = Used(f) /\ User(f)' = User(f)
  BY <1>1 DEF Contexts, Futures, Ready, Val, CallAt, Waited, Kind, Ctx, Inner, Of, Used, User
<1>3. \A f : /\ Call(f)' = Call(f) /\ (HasInner(f)' <=> HasInner(f)) /\ Where(f)' = Where(f)
             /\ (Stopped(f)' <=> Stopped(f)) /\ Result(f)' = Result(f)
  BY <1>2 DEF Call, HasInner, Where, Stopped, Result
<1>4. \A f : Pending(f)' <=> Pending(f)
  BY <1>1, <1>2, <1>3 DEF Pending
<1>5. \A f : Quiet(f)
  BY <1>2, <1>3, <1>4 DEF Quiet
<1>6. ContextsInv'
  <2>1. Shape' /\ Owned'
    BY <1>1, <1>2, <1>3 DEF FutureInv, ContextsInv, Shape, Owned
  <2>2. \A f \in Futures' : Slot(f)'
    BY <1>2, <1>3 DEF FutureInv, ContextsInv, Slot
  <2>3. TodoInv'
    BY <1>1, <1>2, <1>3 DEF FutureInv, ContextsInv, TodoInv
  <2> QED BY <2>1, <2>2, <2>3 DEF ContextsInv
<1>7. UserInv' /\ ChainInv'
  BY <1>1, <1>2, <1>5, UserKept, ChainKept DEF FutureInv
<1>8. AllInv'
  BY <1>1, <1>2, <1>5, AllKept DEF FutureInv, ContextsInv
<1> QED BY <1>6, <1>7, <1>8 DEF FutureInv

\* It is kept by every step.
LEMMA FutureStepInv ==
  ASSUME FutureInv, [FutureNext]_futureVars
  PROVE  FutureInv'
<1>1. CASE NewPromise
  BY <1>1, InvNewPromise
<1>2. ASSUME NEW c \in Contexts, NEW v \in Values, SetValue(c, v) PROVE FutureInv'
  BY <1>2, InvSetValue
<1>3. ASSUME NEW f \in Futures, NEW u \in Users, Then(f, u) PROVE FutureInv'
  BY <1>3, InvThen
<1>4. ASSUME NEW f \in Futures, ThenR(f) PROVE FutureInv'
  BY <1>4, InvThenR
<1>5. ASSUME NEW f \in Futures, NEW new \in Returned, ThenRReady(f, new) PROVE FutureInv'
  BY <1>5, InvThenRReady
<1>6. ASSUME NEW f \in Futures, NEW g \in Futures, WhenAll(f, g) PROVE FutureInv'
  BY <1>6, InvWhenAll
<1>7. ASSUME NEW f \in Futures, Wait(f) PROVE FutureInv'
  BY <1>7, InvWait
<1>8. CASE CallUser
  BY <1>8, InvCallUser
<1>9. ASSUME NEW new \in Returned, CallThenR(new) PROVE FutureInv'
  BY <1>9, InvCallThenR
<1>10. CASE CallWhenAll
  BY <1>10, InvCallWhenAll
<1>11. CASE UNCHANGED futureVars
  BY <1>11, FutureStutters
<1> QED BY <1>1, <1>2, <1>3, <1>4, <1>5, <1>6, <1>7, <1>8, <1>9, <1>10, <1>11 DEF FutureNext

\* A callback that was attached in time waits in the context of the result.
LEMMA WaitsAtSource ==
  ASSUME ContextsInv, ~LateThen, NEW f \in Futures, Call(f) # NoCall
  PROVE  /\ Ready(Where(f)) <=> Resolved(f)
         /\ Resolved(f) => Where(f) = Source(f)
         /\ Ctx(f) \in {Ctx(f), Source(f)} \ {0}
<1>1. Slot(f) /\ Ctx(f) \in Contexts /\ Inner(f) \in Contexts \cup {0, Invalid}
      /\ (Inner(f) # 0 => Kind(f) = "then_r")
  BY DEF ContextsInv, Owned
<1>2. 0 \notin Contexts /\ Invalid \notin Contexts
  BY Fields DEF ContextsInv
<1>3. Source(f) = IF Kind(f) = "then_r" THEN (IF Inner(f) = Invalid THEN 0 ELSE Inner(f)) ELSE Ctx(f)
  BY DEF Source, Kind, Inner, Ctx
<1>4. Resolved(f) <=> Source(f) # 0 /\ Ready(Source(f))
  BY DEF Resolved, Ready
<1>5. CASE Kind(f) # "then_r"
  <2>1. ~HasInner(f)
    BY <1>1, <1>2, <1>5 DEF HasInner
  <2>2. Where(f) = Ctx(f)
    BY <2>1 DEF Where
  <2> QED BY <1>1, <1>2, <1>3, <1>4, <1>5, <2>2
<1>6. CASE Kind(f) = "then_r" /\ HasInner(f)
  <2>1. Where(f) = Inner(f)
    BY <1>1, <1>6 DEF Slot, Where
  <2>2. Source(f) = Inner(f)
    BY <1>2, <1>3, <1>6 DEF HasInner
  <2>3. Source(f) # 0
    BY <1>2, <1>6, <2>2 DEF HasInner
  <2> QED BY <1>1, <1>2, <1>4, <2>1, <2>2, <2>3
<1>7. CASE Kind(f) = "then_r" /\ ~HasInner(f)
  <2>1. Where(f) = Ctx(f) /\ ~Ready(Ctx(f))
    BY <1>1, <1>7 DEF Slot, Where
  <2>2. Source(f) = 0
    BY <1>1, <1>3, <1>7 DEF HasInner
  <2> QED BY <1>1, <1>2, <1>4, <2>1, <2>2
<1> QED BY <1>5, <1>6, <1>7

\* What the invariant says when nothing is being called.
LEMMA FutureInvExact ==
  ASSUME FutureInv, ~LateThen
  PROVE  FuturesExact
<1>1. ContextsInv /\ Shape /\ Owned /\ UserInv /\ AllInv
  BY DEF FutureInv, ContextsInv
<1>2. FutureTypes
  <2>1. ASSUME NEW c \in Contexts
        PROVE  /\ context[c].ready \in BOOLEAN /\ context[c].waited \in BOOLEAN
               /\ context[c].val \in Values \cup {0}
               /\ context[c].callback.to \in {"nobody", "user", "then_r", "whenAll"}
    BY <1>1, Fields, CallbackKinds DEF Ready, Waited, Val, CallAt
  <2>2. ASSUME NEW f \in Futures
        PROVE  /\ future[f].kind \in {"promise", "then_r", "whenAll"}
               /\ future[f].ctx \in Contexts
               /\ future[f].inner \in Contexts \cup {0, Invalid}
    BY <1>1, Fields DEF Kind, Ctx, Inner, Owned
  <2>3. /\ Len(context) <= MaxContext /\ Len(future) <= MaxHandle
        /\ \A f \in 1 .. MaxHandle : left[f] \in 0 .. 2
    BY <1>1 DEF Shape
  <2>4. todo \in Contexts \cup {0}
    BY <1>1, Fields DEF Shape, Contexts
  <2> QED BY <2>1, <2>2, <2>3, <2>4 DEF FutureTypes
<1>3. ASSUME Idle, NEW f \in Futures PROVE Pending(f) <=> ~Ready(Where(f))
  BY <1>1, <1>3, WhereIs DEF Idle, Pending
<1>4. ASSUME NEW f \in Futures, Call(f) # NoCall, ~Waits(f) PROVE ~Stopped(f)
  <2>1. Ctx(f) \in {Ctx(f), Source(f)} \ {0}
    BY <1>1, <1>4, WaitsAtSource
  <2> QED BY <1>4, <2>1 DEF Waits, Stopped, Waited, Ctx
<1>5. ASSUME Idle, NEW f \in Futures, User(f) # 0, ~Waits(f)
      PROVE  heard[User(f)] = IF Resolved(f) THEN <<Val(Source(f))>> ELSE <<>>
  <2>1. PICK u : u = User(f)
    OBVIOUS
  <2>2. Call(f) = UserCall(u)
    BY <1>1, <1>5, <2>1 DEF ContextsInv, Slot
  <2>3. Call(f) # NoCall /\ Call(f).to = "user" /\ Call(f).user = u
    BY <2>2, CallbackKinds
  <2>4. ~Stopped(f)
    BY <1>4, <1>5, <2>3
  <2>5. /\ Pending(f) => heard[u] = <<>>
        /\ ~Pending(f) => heard[u] = <<Result(f)>>
    BY <1>1, <2>3, <2>4 DEF UserInv
  <2>6. Ready(Where(f)) <=> Resolved(f)
    BY <1>1, <2>3, WaitsAtSource
  <2>7. Resolved(f) => Result(f) = Val(Source(f))
    <3>1. Resolved(f) => Where(f) = Source(f)
      BY <1>1, <2>3, WaitsAtSource
    <3> QED BY <3>1 DEF Result
  <2> QED BY <1>3, <1>5, <2>1, <2>5, <2>6, <2>7
<1>6. CalledExactly
  BY <1>5 DEF CalledExactly, User, Val
<1>7. ASSUME Idle, NEW h \in Futures, Kind(h) = "whenAll", \A g \in Of(h) : ~Waits(g)
      PROVE  Resolved(h) <=> \A g \in Of(h) : Resolved(g)
  <2>1. PICK a \in Futures, b \in Futures : Counts(h, a, b)
    BY <1>1, <1>7 DEF AllInv
  <2>2. Of(h) = {a, b} /\ Call(a) # NoCall /\ Call(b) # NoCall
    BY <2>1, CallbackKinds DEF Counts
  <2>3. ~Stopped(a) /\ ~Stopped(b)
    BY <1>4, <1>7, <2>2
  <2>4. left[h] = Owes(a) + Owes(b)
    BY <2>1, <2>3 DEF Counts
  <2>5. (Pending(a) <=> ~Resolved(a)) /\ (Pending(b) <=> ~Resolved(b))
    BY <1>1, <1>3, <1>7, <2>2, WaitsAtSource
  <2>6. left[h] = 0 <=> Resolved(a) /\ Resolved(b)
    BY <2>4, <2>5 DEF Owes
  <2>7. left[h] = 0 <=> Ready(Ctx(h))
    BY <1>1, <1>7 DEF AllInv
  <2>8. Resolved(h) <=> Ready(Ctx(h))
    <3>1. Ctx(h) # 0
      BY <1>1, Fields DEF Owned
    <3> QED BY <1>7, <3>1 DEF Resolved, Source, Kind, Ctx, Ready
  <2> QED BY <2>2, <2>6, <2>7, <2>8
<1>8. AllExact
  BY <1>7 DEF AllExact, Kind, Of
<1> QED BY <1>2, <1>6, <1>8 DEF FuturesExact

\* A result that is there stays.
ResultsKept == \A c \in Contexts : Ready(c) => Ready(c)' /\ Val(c)' = Val(c)
\* What a callback of the program was called with stays.
HeardKept == \A u \in Users : heard[u] # <<>> => heard'[u] = heard[u]
\* A function of then_r that has run is not run again, for another future.
InnerKept == \A f \in Futures : Inner(f) # 0 => Inner(f)' = Inner(f)

\* A context is made, and results are not touched.
LEMMA KeptAppended ==
  ASSUME Shape, NEW q \in Seq(ContextType), Len(q) = Len(context),
         \A c \in Contexts : Ready(c) => q[c].ready /\ q[c].val = Val(c),
         NEW e, context' = Append(q, e)
  PROVE  ResultsKept
<1>1. Contexts = 1 .. Len(q)
  BY DEF Contexts
<1>2. ASSUME NEW c \in Contexts PROVE context'[c] = q[c]
  BY <1>1
<1> QED BY <1>2 DEF ResultsKept, Ready, Val

\* A future is made.
LEMMA InnerAppended ==
  ASSUME NEW q \in Seq(FutureType), Len(q) = Len(future),
         \A f \in Futures : q[f].inner = Inner(f), NEW e, future' = Append(q, e)
  PROVE  InnerKept
<1>1. Futures = 1 .. Len(q)
  BY DEF Futures
<1>2. ASSUME NEW f \in Futures PROVE future'[f] = q[f]
  BY <1>1
<1> QED BY <1>2 DEF InnerKept, Inner

\* What whenAll asks for.
LEMMA WhenAllGuard ==
  ASSUME NEW f, NEW g, WhenAll(f, g)
  PROVE  heard' = heard /\ Room(1) /\ f < g
BY Zenon DEF WhenAll

\* The steps that make a promise or a future.
LEMMA KeptMaking ==
  ASSUME FutureInv,
         \/ NewPromise
         \/ \E f \in Futures : ThenR(f)
         \/ \E f \in Futures, new \in Returned : ThenRReady(f, new)
         \/ \E f, g \in Futures : WhenAll(f, g)
  PROVE  ResultsKept /\ HeardKept /\ InnerKept
<1>1. Shape /\ ContextsInv
  BY DEF FutureInv, ContextsInv
<1>2. PICK b : b = context
  OBVIOUS
<1>3. b \in Seq(ContextType) /\ Len(b) = Len(context) /\ \A c \in Contexts : b[c].ready = Ready(c) /\ b[c].val = Val(c)
  BY <1>1, <1>2 DEF Shape, Ready, Val
<1>4. PICK a : a = future
  OBVIOUS
<1>5. a \in Seq(FutureType) /\ Len(a) = Len(future) /\ \A f \in Futures : a[f].inner = Inner(f)
  BY <1>1, <1>4 DEF Shape, Inner
<1>6. CASE NewPromise
  <2>1. PICK d : d = NewFuture("promise", Len(context) + 1)
    OBVIOUS
  <2>2. context' = Append(b, NewContext) /\ future' = Append(a, d) /\ heard' = heard
    BY <1>2, <1>4, <1>6, <2>1 DEF NewPromise
  <2> QED BY <1>1, <1>3, <1>5, <2>2, KeptAppended, InnerAppended DEF HeardKept
<1>7. ASSUME NEW f \in Futures, ThenR(f) PROVE ResultsKept /\ HeardKept /\ InnerKept
  <2>1. PICK k : k = ChainCall(Len(future) + 1)
    OBVIOUS
  <2>2. PICK q : q = WithCallback(Ctx(f), k)
    OBVIOUS
  <2>3. PICK r : r = Uses(f)
    OBVIOUS
  <2>4. PICK d : d = NewFuture("then_r", Len(context) + 1)
    BY Zenon
  <2>5. context' = Append(q, NewContext) /\ future' = Append(r, d) /\ heard' = heard /\ Room(1)
    BY <1>7, <2>1, <2>2, <2>3, <2>4 DEF ThenR, WithCallback, Uses, Ctx
  <2>6. k \in Callbacks /\ Ctx(f) \in Contexts
    <3>1. Len(future) + 1 \in 1 .. MaxHandle
      BY <1>1, <2>5, RoomForOne
    <3> QED BY <1>1, <2>1, <3>1, CallbackKinds DEF ContextsInv, Owned
  <2>7. q \in Seq(ContextType) /\ Len(q) = Len(context) /\ \A c \in Contexts : q[c].ready = Ready(c) /\ q[c].val = Val(c)
    BY <1>1, <2>2, <2>6, CallbackIn
  <2>8. r \in Seq(FutureType) /\ Len(r) = Len(future) /\ \A g \in Futures : r[g].inner = Inner(g)
    BY <1>1, <2>3, UsedIn
  <2> QED BY <1>1, <2>5, <2>7, <2>8, KeptAppended, InnerAppended DEF HeardKept
<1>8. ASSUME NEW f \in Futures, NEW new \in Returned, ThenRReady(f, new) PROVE ResultsKept /\ HeardKept /\ InnerKept
  <2>1. PICK e : e = IF new = <<>> THEN NewContext ELSE Head(new)
    OBVIOUS
  <2>2. PICK d : d = [NewFuture("then_r", Len(context) + 1) EXCEPT !.inner = IF new = <<>> THEN Invalid ELSE Len(context) + 1]
    OBVIOUS
  <2>3. PICK r : r = Uses(f)
    OBVIOUS
  <2>4. context' = Append(b, e) /\ future' = Append(r, d) /\ heard' = heard
    BY <1>2, <1>8, <2>1, <2>2, <2>3 DEF ThenRReady, Uses
  <2>5. r \in Seq(FutureType) /\ Len(r) = Len(future) /\ \A g \in Futures : r[g].inner = Inner(g)
    BY <1>1, <2>3, UsedIn
  <2> QED BY <1>1, <1>3, <2>4, <2>5, KeptAppended, InnerAppended DEF HeardKept
<1>9. ASSUME NEW f \in Futures, NEW g \in Futures, WhenAll(f, g) PROVE ResultsKept /\ HeardKept /\ InnerKept
  <2>1. PICK k : k = AllCall(Len(future) + 1)
    OBVIOUS
  <2>2. PICK q : q = AllBack(Ctx(f), Ctx(g), k)
    OBVIOUS
  <2>3. PICK r : r = UsesBoth(f, g)
    BY Zenon
  <2>4. \E e, d : context' = Append(q, e) /\ future' = Append(r, d)
    BY <1>9, <2>1, <2>2, <2>3, Zenon DEF WhenAll, AllBack, UsesBoth, Ctx
  <2>5. heard' = heard /\ Room(1) /\ f # g
    <3>1. heard' = heard /\ Room(1) /\ f < g
      BY <1>9, WhenAllGuard
    <3> QED BY ONLY <3>1 DEF Futures
  <2>6. k \in Callbacks
    <3>1. Len(future) + 1 \in 1 .. MaxHandle
      BY <1>1, <2>5, RoomForOne
    <3> QED BY <2>1, <3>1, CallbackKinds
  <2>7. q \in Seq(ContextType) /\ Len(q) = Len(context) /\ \A c \in Contexts : q[c].ready = Ready(c) /\ q[c].val = Val(c)
    BY <1>1, <2>2, <2>6, CallbacksIn
  <2>8. r \in Seq(FutureType) /\ Len(r) = Len(future) /\ \A o \in Futures : r[o].inner = Inner(o)
    <3>1. /\ UsesBoth(f, g) \in Seq(FutureType) /\ Len(UsesBoth(f, g)) = Len(future)
          /\ \A o \in Futures : UsesBoth(f, g)[o].inner = Inner(o)
      BY <1>1, <2>5, BothIn, ZenonT(60)
    <3> QED BY ONLY <2>3, <3>1
  <2> QED BY <1>1, <2>4, <2>5, <2>7, <2>8, KeptAppended, InnerAppended DEF HeardKept
<1> QED BY <1>6, <1>7, <1>8, <1>9

\* The steps that resolve a context, attach a callback or wait.
LEMMA KeptInPlace ==
  ASSUME FutureInv,
         \/ \E c \in Contexts, v \in Values : SetValue(c, v)
         \/ CallWhenAll
         \/ \E f \in Futures, u \in Users : Then(f, u)
         \/ \E f \in Futures : Wait(f)
  PROVE  ResultsKept /\ HeardKept /\ InnerKept
<1>1. Shape /\ ContextsInv
  BY DEF FutureInv, ContextsInv
<1>2. ASSUME NEW p \in Contexts, ~Ready(p), NEW v \in Values,
             context' = [context EXCEPT ![p].ready = TRUE, ![p].val = v]
      PROVE  ResultsKept
  BY <1>1, <1>2, ResolveFacts DEF ResultsKept
<1>3. future' = future => InnerKept
  BY DEF InnerKept, Inner
<1>4. ASSUME NEW c \in Contexts, NEW v \in Values, SetValue(c, v) PROVE ResultsKept /\ HeardKept /\ InnerKept
  <2>1. /\ context' = [context EXCEPT ![c].ready = TRUE, ![c].val = v] /\ ~Ready(c)
        /\ heard' = heard /\ future' = future
    BY <1>4 DEF SetValue, Takes, Ready
  <2> QED BY <1>2, <1>3, <2>1 DEF HeardKept
<1>5. ASSUME CallWhenAll PROVE ResultsKept /\ HeardKept /\ InnerKept
  <2>1. PICK x \in Futures, h \in Futures, v \in Values :
          /\ Where(x) = todo /\ todo # 0 /\ Call(x) = AllCall(h) /\ Kind(h) = "whenAll"
          /\ \A f \in Futures : f # x => Where(f) # todo
          /\ left[h] \in 1 .. 2 /\ Open(Ctx(h))
          /\ future' = future /\ heard' = heard /\ left' = [left EXCEPT ![h] = left[h] - 1]
          /\ \/ /\ left[h] - 1 = 0 /\ todo' = CallOf(Ctx(h))
                /\ context' = [context EXCEPT ![Ctx(h)].ready = TRUE, ![Ctx(h)].val = v]
             \/ left[h] - 1 # 0 /\ todo' = 0 /\ context' = context
    BY <1>5, AllCalls
  <2>2. HeardKept /\ InnerKept /\ Ctx(h) \in Contexts /\ ~Ready(Ctx(h))
    BY <1>3, <2>1 DEF HeardKept, Open
  <2>3. CASE context' = context
    BY <2>2, <2>3 DEF ResultsKept, Ready, Val
  <2>4. CASE context' = [context EXCEPT ![Ctx(h)].ready = TRUE, ![Ctx(h)].val = v]
    BY <1>2, <2>2, <2>4
  <2> QED BY <2>1, <2>2, <2>3, <2>4
<1>6. ASSUME NEW f \in Futures, NEW u \in Users, Then(f, u) PROVE ResultsKept /\ HeardKept /\ InnerKept
  <2>1. PICK k : k = UserCall(u)
    OBVIOUS
  <2>2. PICK q : q = WithCallback(Ctx(f), k)
    OBVIOUS
  <2>3. PICK r : r = UsesUser(f, u)
    BY Zenon
  <2>4. context' = q /\ future' = r /\ heard' = heard
    BY <1>6, <2>1, <2>2, <2>3 DEF Then, WithCallback, UsesUser, Ctx
  <2>5. k \in Callbacks /\ Ctx(f) \in Contexts
    BY <1>1, <2>1, CallbackKinds DEF ContextsInv, Owned
  <2>6. \A c \in Contexts : q[c].ready = Ready(c) /\ q[c].val = Val(c)
    BY <1>1, <2>2, <2>5, CallbackIn
  <2>7. \A g \in Futures : r[g].inner = Inner(g)
    <3>1. \A g \in Futures : UsesUser(f, u)[g].inner = Inner(g)
      BY <1>1, UserIn
    <3> QED BY ONLY <2>3, <3>1
  <2> QED BY <2>4, <2>6, <2>7 DEF ResultsKept, HeardKept, InnerKept, Ready, Val, Inner
<1>7. ASSUME NEW f \in Futures, Wait(f) PROVE ResultsKept /\ HeardKept /\ InnerKept
  <2>1. context' = WaitsAt(Ctx(f)) /\ future' = future /\ heard' = heard
    BY <1>7 DEF Wait, WaitsAt, Ctx
  <2>2. Ctx(f) \in Contexts
    BY <1>1 DEF ContextsInv, Owned
  <2>3. \A c \in Contexts : Ready(c)' = Ready(c) /\ Val(c)' = Val(c)
    BY <1>1, <2>1, <2>2, WaitedIn
  <2> QED BY <1>3, <2>1, <2>3 DEF ResultsKept, HeardKept
<1> QED BY <1>4, <1>5, <1>6, <1>7

\* The calls of callbacks of the program and of then_r.
LEMMA KeptCalling ==
  ASSUME FutureInv, CallUser \/ \E new \in Returned : CallThenR(new)
  PROVE  ResultsKept /\ HeardKept /\ InnerKept
<1>1. Shape /\ ContextsInv
  BY DEF FutureInv, ContextsInv
<1>2. CASE CallUser
  <2>1. PICK u : u = CallAt(todo).user
    OBVIOUS
  <2>2. /\ context' = context /\ future' = future /\ todo # 0 /\ CallAt(todo).to = "user"
        /\ heard' = [heard EXCEPT ![u] = Append(heard[u], context[todo].val)]
    BY <1>2, <2>1 DEF CallUser, CallAt
  <2>3. ResultsKept /\ InnerKept
    BY <2>2 DEF ResultsKept, InnerKept, Ready, Val, Inner
  <2>4. \E x \in Futures : CallAt(todo) = Call(x) /\ Pending(x)
    BY <1>1, <2>2, Caller
  <2>5. heard[u] = <<>>
    BY <2>1, <2>2, <2>4 DEF FutureInv, UserInv
  <2>6. \A w \in Users : w # u => heard'[w] = heard[w]
    BY <1>1, <2>2 DEF Shape
  <2> QED BY <2>3, <2>5, <2>6 DEF HeardKept
<1>3. ASSUME NEW new \in Returned, CallThenR(new) PROVE ResultsKept /\ HeardKept /\ InnerKept
  <2>1. todo # 0 /\ CallAt(todo).to = "then_r" /\ heard' = heard
    BY <1>3, Zenon DEF CallThenR, CallAt
  <2>2. PICK j \in Futures : /\ j = CallAt(todo).f /\ Inner(j) = 0
                             /\ Ctx(j) \in Contexts /\ ~Ready(Ctx(j))
    BY <2>1, ChainCaller, Zenon
  <2>3. Len(context) \in Nat /\ Len(context) < MaxContext
    BY <1>1, <1>3, Fields, Zenon DEF CallThenR
  <2>4. CASE new = <<>>
    <3>1. future' = Yields(j, Invalid) /\ context' = context
      BY <2>2, <2>4, <1>3, Zenon DEF CallThenR, CallAt, Yields
    <3>2. Invalid \in 0 .. Invalid
      BY FutureAssumption DEF Invalid
    <3>3. InnerKept
      BY <1>1, <2>2, <3>1, <3>2, ReturnedIn DEF InnerKept
    <3> QED BY <2>1, <3>1, <3>3, Zenon DEF ResultsKept, HeardKept, Ready, Val
  <2>5. CASE new # <<>>
    <3>1. PICK r : r = [Head(new) EXCEPT !.callback = Call(j)]
      BY Zenon
    <3>2. PICK s : s = Len(context) + 1
      OBVIOUS
    <3>3. PICK p : p = Ctx(j)
      OBVIOUS
    <3>4. context' = Append(Copies(p, r.ready, r.val), r) /\ future' = Yields(j, s)
      BY <1>3, <2>2, <2>5, <3>1, <3>2, <3>3, Zenon DEF CallThenR, CallAt, Copies, Yields, Ctx, Call, Moved
    <3>5. r.ready \in BOOLEAN /\ r.val \in Values \cup {0}
      <4>1. PICK m : m = Head(new)
        OBVIOUS
      <4>2. m \in ContextType
        <5>1. CASE new = <<NewContext>>
          BY <4>1, <5>1, MadeContexts
        <5>2. ASSUME NEW v \in Values, new = <<ReadyContext(v)>> PROVE m \in ContextType
          <6>1. m = ReadyContext(v)
            BY <4>1, <5>2
          <6> QED BY <6>1, MadeContexts
        <5> QED BY <2>5, <5>1, <5>2 DEF Returned
      <4>3. r = [m EXCEPT !.callback = Call(j)]
        BY <3>1, <4>1
      <4>4. r.ready = m.ready /\ r.val = m.val
        BY <4>2, <4>3 DEF ContextType
      <4> QED BY <4>2, <4>4 DEF ContextType
    <3>6. PICK q : q = Copies(p, r.ready, r.val)
      OBVIOUS
    <3>7. q \in Seq(ContextType) /\ Len(q) = Len(context)
          /\ \A c \in Contexts : c # p => q[c].ready = Ready(c) /\ q[c].val = Val(c)
      BY <1>1, <2>2, <3>3, <3>5, <3>6, CopiedIn
    <3>8. ResultsKept
      BY <1>1, <2>2, <3>3, <3>4, <3>6, <3>7, KeptAppended
    <3>9. s \in 0 .. Invalid
      BY <2>3, <3>2, FutureAssumption DEF Invalid
    <3>10. InnerKept
      BY <1>1, <2>2, <3>4, <3>9, ReturnedIn DEF InnerKept
    <3> QED BY <2>1, <3>8, <3>10 DEF HeardKept
  <2> QED BY <2>4, <2>5, Zenon
<1> QED BY <1>2, <1>3

\* Every step keeps what is known.
LEMMA KeptByStep ==
  ASSUME FutureInv, [FutureNext]_futureVars
  PROVE  ResultsKept /\ HeardKept /\ InnerKept
<1>1. CASE UNCHANGED futureVars
  BY <1>1 DEF futureVars, ResultsKept, HeardKept, InnerKept, Ready, Val, Inner
<1>2. CASE FutureNext
  <2>1. \/ NewPromise
        \/ \E f \in Futures : ThenR(f)
        \/ \E f \in Futures, new \in Returned : ThenRReady(f, new)
        \/ \E f, g \in Futures : WhenAll(f, g)
        \/ \E c \in Contexts, v \in Values : SetValue(c, v)
        \/ CallWhenAll
        \/ \E f \in Futures, u \in Users : Then(f, u)
        \/ \E f \in Futures : Wait(f)
        \/ CallUser
        \/ \E new \in Returned : CallThenR(new)
    BY <1>2 DEF FutureNext
  <2> QED BY <2>1, KeptMaking, KeptInPlace, KeptCalling
<1> QED BY <1>1, <1>2

\* The invariant holds in every state.
LEMMA FutureInvAlways == FutureSpec => []FutureInv
BY FutureInitInv, FutureStepInv, PTL DEF FutureSpec

\* The callback of a future is called when and only when the future has its
\* result, once and with it, and whenAll has its value when and only when all
\* its futures have theirs, if callbacks are attached to a future of then_r
\* before its function has run (CFuture::then, then_r, whenAll,
\* CPromise::setValue).
THEOREM FuturesKept ==
  ASSUME ~LateThen
  PROVE  FutureSpec => []FuturesExact
<1>1. FutureInv => FuturesExact
  BY FutureInvExact
<1> QED BY <1>1, FutureInvAlways, PTL

\* A result does not change, and a callback of the program is called at most
\* once, whenever it was attached (CPromise::setValue, callback_0, callback_1).
THEOREM ResultsStay == FutureSpec => ResultStays
<1>1. FutureInv /\ [FutureNext]_futureVars
        => [/\ \A c \in Contexts : context[c].ready => context'[c].ready /\ context'[c].val = context[c].val
            /\ \A u \in Users : heard[u] # <<>> => heard'[u] = heard[u]]_futureVars
  BY KeptByStep DEF ResultsKept, HeardKept, Ready, Val
<1> QED BY <1>1, FutureInvAlways, PTL DEF FutureSpec, ResultStays

\* The function of a then_r is run once: the future that it returned is never
\* replaced (callback_1).
RunOnce == [][\A f \in Futures : future[f].inner # 0 => future'[f].inner = future[f].inner]_futureVars

\* The function of a then_r is run at most once, whatever a program does with
\* the futures (callback_1).
THEOREM FunctionsRunOnce == FutureSpec => RunOnce
<1>1. FutureInv /\ [FutureNext]_futureVars
        => [\A f \in Futures : future[f].inner # 0 => future'[f].inner = future[f].inner]_futureVars
  BY KeptByStep DEF InnerKept, Inner
<1> QED BY <1>1, FutureInvAlways, PTL DEF FutureSpec, RunOnce
=============================================================================
