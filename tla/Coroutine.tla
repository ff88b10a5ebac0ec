------------------------------ MODULE Coroutine ------------------------------
(***************************************************************************)
(* Coroutines.  The dispatcher of a service runs each request, and each    *)
(* callback of an answer, in a coroutine of its own, taken from a pool     *)
(* that all logic threads share.  A coroutine that calls another service   *)
(* (sync_invoke) yields; the answer resumes it, perhaps on another thread. *)
(* A thread executes on its own stack (its main context) or on that of one *)
(* coroutine, and changes over in steps.  A service is dispatched by one   *)
(* thread at a time: this is what LogicMessageQueue guarantees.            *)
(***************************************************************************)
EXTENDS Naturals, Sequences, FiniteSets, Functions

CONSTANTS Threads,       \* the logic threads
          Services,
          MaxCo,         \* bound: coroutines ever made
          MaxRequests,   \* bound: requests the services get
          MaxCalls,      \* bound: calls they make
          MaxRecycle,    \* the pool takes one more than _MAX_CO_RECYCLE_COUNT
          CallbackYields \* callbacks make calls that wait

ASSUME CoroutineAssumption ==
  /\ MaxCo \in Nat /\ MaxRequests \in Nat /\ MaxCalls \in Nat /\ MaxRecycle \in Nat
  /\ CallbackYields \in BOOLEAN

Co == 1 .. MaxCo       \* m_nNextCoroutineID counts them
Calls == 1 .. MaxCalls \* sessions
None == 0              \* no coroutine, call or service

VARIABLES
  state,   \* m_eState of each coroutine
  mapped,  \* m_mapCoroutine
  recycle, \* m_listRecycleCoroutine
  owner,   \* the service a coroutine works for
  waits,   \* the call a coroutine yields for, in sync_invoke
  data,    \* its local data "response": the call it answers
  refers,  \* the pending call its callback lives in
  call,    \* the pending calls: free, waiting, taken (dispatched), deleted;
           \* or dropped, when its holder died
  waiter,  \* nCoroutineID of a pending call
  caller,  \* the service that made it
  inbox,   \* the queue of each service: None, a request, or the call that is answered
  current, \* m_pCurrentCoroutine of each thread
  stack,   \* the coroutine on whose stack the thread executes, or None
  serves,  \* the service a thread dispatches for
  resumed, \* the coroutine the dispatcher resumed
  taken,   \* the pending call it deletes when it returns
  sent, answers  \* bounds: requests, answers of each call

coVars == <<state, owner, waits, data, refers>>
poolVars == <<mapped, recycle>>
callVars == <<call, waiter, caller>>
threadVars == <<current, stack, serves, resumed, taken>>
bounds == <<sent, answers>>
vars == <<coVars, poolVars, callVars, inbox, threadVars, bounds>>

States == {"eCS_NONE", "eCS_READY", "eCS_SUSPEND", "eCS_RUNNING", "eCS_DEAD", "deleted"}

Init ==
  /\ state = [c \in Co |-> "eCS_NONE"]
  /\ mapped = {}
  /\ recycle = <<>>
  /\ owner = [c \in Co |-> None]
  /\ waits = [c \in Co |-> None]
  /\ data = [c \in Co |-> None]
  /\ refers = [c \in Co |-> None]
  /\ call = [k \in Calls |-> "free"]
  /\ waiter = [k \in Calls |-> None]
  /\ caller = [k \in Calls |-> None]
  /\ inbox = [s \in Services |-> <<>>]
  /\ current = [t \in Threads |-> None]
  /\ stack = [t \in Threads |-> None]
  /\ serves = [t \in Threads |-> None]
  /\ resumed = [t \in Threads |-> None]
  /\ taken = [t \in Threads |-> None]
  /\ sent = 0
  /\ answers = [k \in Calls |-> 0]

-----------------------------------------------------------------------------
(* Mutants: the same steps with a bug such code could have.                *)

\* a coroutine that ends is put on the list at once, on its own stack
RecyclesAtEnd(c) == mapped' = mapped \ {c} /\ recycle' = Append(recycle, c)
\* the answer is left in the local data
KeepsAnswer(c) == UNCHANGED data
\* the list takes what it is given, and the caller deletes when it is long
ListsAndDeletes(c) ==
  /\ recycle' = Append(recycle, c)
  /\ state' = IF Len(recycle) > MaxRecycle THEN [state EXCEPT ![c] = "deleted"] ELSE state
\* the call is deleted before its callback runs
DeletesFirst(k, t) ==
  /\ call' = [call EXCEPT ![k] = "deleted"]
  /\ UNCHANGED taken
\* a call stays pending while its answer is handled
KeepsPending(k, t) == taken' = [taken EXCEPT ![t] = k] /\ UNCHANGED call
\* the call does not know the coroutine that waits for it
ForgetsWaiter(k, c, by) ==
  /\ call[k] = "free" /\ \A j \in Calls : j < k => call[j] # "free"
  /\ call' = [call EXCEPT ![k] = "waiting"]
  /\ caller' = [caller EXCEPT ![k] = owner[c]]
  /\ UNCHANGED waiter

-----------------------------------------------------------------------------
(* The pool (CCoroutineMgr).                                               *)

Made == {c \in Co : state[c] # "eCS_NONE"}
\* The coroutine createCoroutine returns: one of the list, or a new one
Created == IF recycle # <<>> THEN Head(recycle) ELSE Cardinality(Made) + 1
CanCreate == recycle # <<>> \/ Cardinality(Made) < MaxCo
Create(c) ==
  /\ recycle' = IF recycle # <<>> THEN Tail(recycle) ELSE recycle
  /\ mapped' = mapped \cup {c}

\* addRecycleCoroutine, and the caller deletes what does not fit
RecycleOrDelete(c) ==
  IF Len(recycle) > MaxRecycle
  THEN state' = [state EXCEPT ![c] = "deleted"] /\ UNCHANGED recycle
  ELSE recycle' = Append(recycle, c) /\ UNCHANGED state

\* CCoroutineImpl::resume, up to the switch to the stack of the coroutine
Run(t, c) ==
  /\ state' = [state EXCEPT ![c] = "eCS_RUNNING"]
  /\ current' = [current EXCEPT ![t] = c]
  /\ stack' = [stack EXCEPT ![t] = c]
  /\ resumed' = [resumed EXCEPT ![t] = c]

-----------------------------------------------------------------------------
(* What the other services and the clients do.                             *)

Request(s) ==
  /\ sent < MaxRequests
  /\ sent' = sent + 1
  /\ inbox' = [inbox EXCEPT ![s] = Append(@, None)]
  /\ UNCHANGED <<coVars, poolVars, callVars, threadVars, answers>>

\* The answer to a call, and a second packet of its session: a handler may answer
\* twice, and a timeout would come so if tickers kept their context (ServiceRpc)
Answer(k) ==
  /\ call[k] # "free"
  /\ answers[k] < 2
  /\ answers' = [answers EXCEPT ![k] = @ + 1]
  /\ inbox' = [inbox EXCEPT ![caller[k]] = Append(@, k)]
  /\ UNCHANGED <<coVars, poolVars, callVars, threadVars, sent>>

-----------------------------------------------------------------------------
(* The dispatcher, on the main context of a thread.                        *)

\* One thread at a time takes packets of a service
MayServe(t, s) == serves[t] = None /\ \A u \in Threads : serves[u] # s
Serve(t, s) ==
  /\ MayServe(t, s)
  /\ inbox[s] # <<>>
  /\ inbox' = [inbox EXCEPT ![s] = Tail(@)]
  /\ UNCHANGED <<waiter, caller, waits, bounds>>

\* A coroutine for a request, or for the callback of call k
Start(t, s, k) ==
  /\ CanCreate
  /\ LET c == Created
     IN  /\ Create(c)
         /\ owner' = [owner EXCEPT ![c] = s]
         /\ refers' = [refers EXCEPT ![c] = k]
         /\ Run(t, c)
  /\ serves' = [serves EXCEPT ![t] = s]

DispatchRequest(t, s) ==
  /\ Serve(t, s)
  /\ Head(inbox[s]) = None
  /\ Start(t, s, None)
  /\ UNCHANGED <<data, call, taken>>

\* getPendingResponseInfo, to be deleted when the dispatcher returns
TakeCall(k, t) ==
  /\ call' = [call EXCEPT ![k] = "taken"]
  /\ taken' = [taken EXCEPT ![t] = k]

DispatchResponse(t, s) ==
  /\ Serve(t, s)
  /\ LET k == Head(inbox[s])
         c == waiter[k]
     IN  /\ k # None
         /\ call[k] = "waiting"
         /\ TakeCall(k, t)
         /\ IF c = None
            THEN Start(t, s, k) /\ UNCHANGED data
            ELSE \* the callback of sync_invoke: setLocalData, resume
                 /\ data' = [data EXCEPT ![c] = k]
                 /\ serves' = [serves EXCEPT ![t] = s]
                 /\ Run(t, c)
                 /\ UNCHANGED <<poolVars, owner, refers>>

\* Nobody waits for the answer any more
DispatchLate(t, s) ==
  /\ Serve(t, s)
  /\ Head(inbox[s]) # None
  /\ call[Head(inbox[s])] # "waiting"
  /\ UNCHANGED <<state, owner, data, refers, poolVars, call, threadVars>>

\* The switch came back: coroutine::resume looks at the state, the dispatcher
\* deletes the call it took
Return(t) ==
  /\ resumed[t] # None
  /\ stack[t] = None
  /\ LET c == resumed[t]
     IN  IF state[c] = "eCS_DEAD"
         THEN RecycleOrDelete(c) /\ mapped' = mapped \ {c}
         ELSE UNCHANGED <<state, poolVars>>
  /\ call' = [k \in Calls |-> IF k = taken[t] THEN "deleted" ELSE call[k]]
  /\ taken' = [taken EXCEPT ![t] = None]
  /\ resumed' = [resumed EXCEPT ![t] = None]
  /\ serves' = [serves EXCEPT ![t] = None]
  /\ UNCHANGED <<owner, waits, data, refers, waiter, caller, inbox, current, stack, bounds>>

-----------------------------------------------------------------------------
(* A coroutine, on its own stack.                                          *)

Runs(t, c) == current[t] = c /\ c # None /\ stack[t] = c
Free(k) == call[k] = "free" /\ \A j \in Calls : j < k => call[j] # "free"

NewCall(k, c, by) ==
  /\ Free(k)
  /\ call' = [call EXCEPT ![k] = "waiting"]
  /\ waiter' = [waiter EXCEPT ![k] = by]
  /\ caller' = [caller EXCEPT ![k] = owner[c]]

\* sync_invoke: the call, then yield up to the switch
SyncInvoke(t, k) ==
  \E c \in Co :
    /\ Runs(t, c)
    /\ waits[c] = None
    /\ refers[c] = None \/ CallbackYields
    /\ NewCall(k, c, c)
    /\ waits' = [waits EXCEPT ![c] = k]
    /\ state' = [state EXCEPT ![c] = "eCS_SUSPEND"]
    /\ current' = [current EXCEPT ![t] = None]
    /\ UNCHANGED <<owner, data, refers, poolVars, inbox, stack, serves, resumed, taken, bounds>>

AsyncInvoke(t, k) ==
  \E c \in Co :
    /\ Runs(t, c)
    /\ waits[c] = None
    /\ NewCall(k, c, None)
    /\ UNCHANGED <<coVars, poolVars, inbox, threadVars, bounds>>

\* getLocalData and delLocalData, when sync_invoke goes on
DelAnswer(c) == data' = [data EXCEPT ![c] = None]
ReadAnswer(t) ==
  \E c \in Co :
    /\ Runs(t, c)
    /\ waits[c] # None
    /\ waits' = [waits EXCEPT ![c] = None]
    /\ DelAnswer(c)
    /\ UNCHANGED <<state, owner, refers, poolVars, callVars, inbox, threadVars, bounds>>

\* The holder of the calls is destroyed: delPendingResponseInfo
DestroyHolder(t) ==
  \E c \in Co :
    /\ Runs(t, c)
    /\ waits[c] = None
    /\ \E k \in Calls : call[k] = "waiting" /\ caller[k] = owner[c]
    /\ call' = [k \in Calls |-> IF call[k] = "waiting" /\ caller[k] = owner[c]
                                THEN "dropped" ELSE call[k]]
    /\ UNCHANGED <<coVars, poolVars, waiter, caller, inbox, threadVars, bounds>>

\* The callback returns; the coroutine is not put on the list yet, because the
\* thread still is on its stack
AtEnd(c) == UNCHANGED poolVars
Finish(t) ==
  \E c \in Co :
    /\ Runs(t, c)
    /\ waits[c] = None
    /\ state' = [state EXCEPT ![c] = "eCS_DEAD"]
    /\ refers' = [refers EXCEPT ![c] = None]
    /\ current' = [current EXCEPT ![t] = None]
    /\ AtEnd(c)
    /\ UNCHANGED <<owner, waits, data, callVars, inbox, stack, serves, resumed, taken, bounds>>

\* restore_context of the main context
SwitchBack(t) ==
  /\ current[t] = None
  /\ stack[t] # None
  /\ stack' = [stack EXCEPT ![t] = None]
  /\ UNCHANGED <<coVars, poolVars, callVars, inbox, current, serves, resumed, taken, bounds>>

-----------------------------------------------------------------------------
Body(t) ==
  \/ \E k \in Calls : SyncInvoke(t, k)
  \/ \E k \in Calls : AsyncInvoke(t, k)
  \/ ReadAnswer(t)
  \/ DestroyHolder(t)
  \/ Finish(t)
Dispatch(t, s) == DispatchRequest(t, s) \/ DispatchResponse(t, s) \/ DispatchLate(t, s)

Next ==
  \/ \E s \in Services : Request(s)
  \/ \E k \in Calls : Answer(k)
  \/ \E t \in Threads, s \in Services : Dispatch(t, s)
  \/ \E t \in Threads : Body(t)
  \/ \E t \in Threads : SwitchBack(t)
  \/ \E t \in Threads : Return(t)

\* Threads go on, queues are served, every service called answers: no timeout
\* would help (ServiceRpc)
Fairness ==
  /\ \A s \in Services : WF_vars(\E t \in Threads : Dispatch(t, s))
  /\ \A t \in Threads : WF_vars(Body(t) \/ SwitchBack(t) \/ Return(t))
  /\ \A k \in Calls : WF_vars(answers[k] = 0 /\ Answer(k))

Spec == Init /\ [][Next]_vars /\ Fairness

-----------------------------------------------------------------------------
(* Properties.                                                             *)

\* Types of the state of the coroutines and of what refers to them.
TypeOK ==
  /\ state \in [Co -> States]
  /\ mapped \subseteq Made
  /\ recycle \in Seq(Made) /\ Len(recycle) <= MaxRecycle + 1
  /\ owner \in [Co -> Services \cup {None}]
  /\ waits \in [Co -> Calls \cup {None}]
  /\ data \in [Co -> Calls \cup {None}]
  /\ refers \in [Co -> Calls \cup {None}]
  /\ call \in [Calls -> {"free", "waiting", "taken", "deleted", "dropped"}]
  /\ waiter \in [Calls -> Co \cup {None}]
  /\ caller \in [Calls -> Services \cup {None}]
  /\ \A s \in Services : inbox[s] \in Seq(Calls \cup {None})
  /\ current \in [Threads -> Co \cup {None}]
  /\ stack \in [Threads -> Co \cup {None}]
  /\ serves \in [Threads -> Services \cup {None}]
  /\ resumed \in [Threads -> Co \cup {None}]
  /\ taken \in [Threads -> Calls \cup {None}]

\* Two threads are never on the stack of one coroutine, and the coroutine whose
\* stack a thread is on is not free for others: coroutines wander between
\* threads, and leave a stack in several steps.
OneStack ==
  \A t \in Threads : stack[t] # None =>
    /\ stack[t] \in mapped
    /\ \A i \in 1 .. Len(recycle) : recycle[i] # stack[t]
    /\ \A u \in Threads : u # t => stack[u] # stack[t]

\* A coroutine on the list has ended and belongs to nobody: it is not found by
\* its id, no call will resume it, and it keeps no answer for its next user.
PoolClean ==
  \A i \in 1 .. Len(recycle) :
    LET c == recycle[i]
    IN  /\ state[c] = "eCS_DEAD"
        /\ c \notin mapped
        /\ data[c] = None /\ waits[c] = None
        /\ \A k \in Calls : call[k] = "waiting" => waiter[k] # c
        /\ \A j \in 1 .. Len(recycle) : recycle[j] = c => i = j

\* A coroutine is resumed by the answer to the call it waits for and by nothing
\* else, although coroutine ids are used again, answers come late, and the
\* answer is handed over through its local data.
OwnAnswer ==
  \A c \in Co :
    /\ state[c] = "eCS_RUNNING" /\ waits[c] # None => data[c] = waits[c]
    /\ data[c] # None => state[c] = "eCS_RUNNING" /\ waits[c] = data[c]
    /\ \A k \in Calls : call[k] = "waiting" /\ waiter[k] = c =>
         c \in mapped /\ state[c] = "eCS_SUSPEND" /\ waits[c] = k

\* The call in which the callback of a running coroutine lives is not deleted
\* before the callback ends (message_dispatcher.cpp: "the lifetime is that of
\* the coroutine").
CallbackAlive ==
  \A c \in Co : refers[c] # None /\ state[c] \in {"eCS_RUNNING", "eCS_SUSPEND"} =>
                 call[refers[c]] = "taken"

\* Stacks and the pool stay apart although coroutines wander between threads.
\* (CCoroutineMgr::createCoroutine, addRecycleCoroutine, coroutine::resume.)
StacksExact == TypeOK /\ OneStack /\ PoolClean

\* What a coroutine uses of a call is its own and still there.
\* (CMessageDispatcher::dispatch, CServiceInvoker::sync_invoke.)
AnswerSafe == OwnAnswer /\ CallbackAlive

\* A coroutine that waits in sync_invoke goes on, unless the holder of its call
\* dies: then nobody resumes it.
WaiterWakes ==
  \A c \in Co : waits[c] # None ~> (waits[c] = None \/ call[waits[c]] = "dropped")
=============================================================================
