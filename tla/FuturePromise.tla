---------------------------- MODULE FuturePromise ----------------------------
(***************************************************************************)
(* Futures, promises, then_r and whenAll.  A future is a pointer to a      *)
(* context that it shares with a promise, or with the callback of an       *)
(* earlier future: then_r gives out a context of its own and, when the     *)
(* earlier future has its value, moves the callback over to the context of *)
(* the future its function returns.  Everything runs on one thread; the    *)
(* call of a callback is the last thing setValue, then, then_r and the     *)
(* callbacks themselves do, so it is a step of its own.                    *)
(***************************************************************************)
EXTENDS Naturals, Sequences, FiniteSets, SequencesExt

CONSTANTS Users,      \* callbacks of the program
          Values,     \* results and error codes
          MaxContext, \* bound: contexts ever made
          MaxHandle,  \* bound: futures the program gets
          LateThen    \* a callback may be attached to the future of then_r after
                      \* the function of then_r has run

ASSUME FutureAssumption ==
  /\ MaxContext \in Nat /\ MaxHandle \in Nat /\ LateThen \in BOOLEAN
  /\ 0 \notin Values /\ 0 \notin Users

VARIABLES
  context, \* SFutureContext: bReady, val, callback, and whether a coroutine waits
  future,  \* the futures the program has, and where they come from
  left,    \* pendingCount of a whenAll
  todo,    \* the context whose callback is called next
  heard    \* history: what each callback of the program was called with

futureVars == <<context, future, left, todo, heard>>

Contexts == 1 .. Len(context)
Futures == 1 .. Len(future)

\* A callback: of the program, callback_1 of the then_r that made future f, or
\* onFuture of the whenAll that made future f
NoCall == [to |-> "nobody"]
UserCall(u) == [to |-> "user", user |-> u]
ChainCall(f) == [to |-> "then_r", f |-> f]
AllCall(f) == [to |-> "whenAll", f |-> f]

NewContext == [ready |-> FALSE, val |-> 0, callback |-> NoCall, waited |-> FALSE]
ReadyContext(v) == [NewContext EXCEPT !.ready = TRUE, !.val = v]

\* kind: promise, then_r or whenAll; ctx: m_pContext; inner: the context of the
\* future the function returned, 0 before it has run; of: the futures it joins;
\* used: a callback was attached; user: which one
NewFuture(kind, c) ==
  [kind |-> kind, ctx |-> c, inner |-> 0, of |-> {}, used |-> FALSE, user |-> 0]
Invalid == MaxContext + 1

FutureInit ==
  /\ context = <<>>
  /\ future = <<>>
  /\ left = [f \in 1 .. MaxHandle |-> 0]
  /\ todo = 0
  /\ heard = [u \in Users |-> <<>>]

-----------------------------------------------------------------------------
(* Mutants: the same steps with a bug such code could have.                *)

\* a value that is there is overwritten
SetsAgain(c) == TRUE
\* then leaves it to setValue to call
NeverAtOnce(c) == 0
\* the callback stays with the context of then_r
ForgetsCallback(f) == NoCall
\* the last future but one completes whenAll
OneShort(f, n) == left[f] - n <= 1

-----------------------------------------------------------------------------
(* A program makes promises, and resolves them.                            *)

Idle == todo = 0
Room(n) == Len(context) + n <= MaxContext /\ Len(future) < MaxHandle

\* CPromise, getFuture
NewPromise ==
  /\ Idle /\ Room(1)
  /\ context' = Append(context, NewContext)
  /\ future' = Append(future, NewFuture("promise", Len(context) + 1))
  /\ UNCHANGED <<left, todo, heard>>

\* The contexts a promise of the program resolves: those of its futures, and
\* those of the futures its functions return
Promised ==
  ({future[f].ctx : f \in {g \in Futures : future[g].kind = "promise"}}
    \cup {future[f].inner : f \in {g \in Futures : future[g].kind = "then_r"}}) \ {0, Invalid}

\* CPromise::setValue: once; a coroutine that waits keeps the callback away
Takes(c) == ~context[c].ready
CallOf(c) == IF context[c].waited \/ context[c].callback = NoCall THEN 0 ELSE c
SetValue(c, v) ==
  /\ Idle
  /\ c \in Promised
  /\ Takes(c)
  /\ context' = [context EXCEPT ![c].ready = TRUE, ![c].val = v]
  /\ todo' = CallOf(c)
  /\ UNCHANGED <<future, left, heard>>

-----------------------------------------------------------------------------
(* A program attaches callbacks: one to a future, since the last one wins. *)

Late(f) == future[f].inner # 0 /\ future[f].ctx # future[f].inner
Attachable(f) == Idle /\ ~future[f].used /\ (LateThen \/ ~Late(f))

\* In time when the value is there
AtOnce(c) == IF context[c].ready THEN c ELSE 0
Then(f, u) ==
  /\ Attachable(f)
  /\ \A g \in Futures : future[g].user # u
  /\ future' = [future EXCEPT ![f].used = TRUE, ![f].user = u]
  /\ context' = [context EXCEPT ![future[f].ctx].callback = UserCall(u)]
  /\ todo' = AtOnce(future[f].ctx)
  /\ UNCHANGED <<left, heard>>

\* then_r of a future without a value: callback_1 will run the function
ThenR(f) ==
  /\ Attachable(f) /\ Room(1)
  /\ ~context[future[f].ctx].ready
  /\ context' = Append([context EXCEPT ![future[f].ctx].callback = ChainCall(Len(future) + 1)],
                       NewContext)
  /\ future' = Append([future EXCEPT ![f].used = TRUE], NewFuture("then_r", Len(context) + 1))
  /\ UNCHANGED <<left, todo, heard>>

\* then_r of a future with a value: callback_0 runs the function at once, and
\* the future is the one the function returns; or nothing, if it returns none
ThenRReady(f, new) ==
  /\ Attachable(f) /\ Room(1)
  /\ context[future[f].ctx].ready
  /\ LET c == Len(context) + 1
     IN  /\ context' = Append(context, IF new = <<>> THEN NewContext ELSE Head(new))
         /\ future' = Append([future EXCEPT ![f].used = TRUE],
                        [NewFuture("then_r", c) EXCEPT
                           !.inner = IF new = <<>> THEN Invalid ELSE c])
  /\ UNCHANGED <<left, todo, heard>>

\* whenAll: then on each future, which counts those with a value at once
Completes(f, n) == left[f] - n = 0
WhenAll(f, g) ==
  /\ f < g /\ Attachable(f) /\ Attachable(g) /\ Room(1)
  /\ LET h == Len(future) + 1
         cs == {future[f].ctx, future[g].ctx}
         n == 2 - Cardinality({c \in cs : context[c].ready})
     IN  /\ context' = Append([c \in Contexts |->
                                 IF c \in cs THEN [context[c] EXCEPT !.callback = AllCall(h)]
                                 ELSE context[c]],
                              IF n = 0 THEN ReadyContext(CHOOSE v \in Values : TRUE) ELSE NewContext)
         /\ future' = Append([future EXCEPT ![f].used = TRUE, ![g].used = TRUE],
                             [NewFuture("whenAll", Len(context) + 1) EXCEPT !.of = {f, g}])
         /\ left' = [left EXCEPT ![h] = n]
  /\ UNCHANGED <<todo, heard>>

\* CFuture::wait, in a coroutine that yields
Wait(f) ==
  /\ Idle
  /\ ~context[future[f].ctx].waited
  /\ context' = [context EXCEPT ![future[f].ctx].waited = TRUE]
  /\ UNCHANGED <<future, left, todo, heard>>

-----------------------------------------------------------------------------
(* The call of a callback.                                                 *)

CallUser ==
  /\ todo # 0
  /\ context[todo].callback.to = "user"
  /\ heard' = [heard EXCEPT ![context[todo].callback.user] = Append(@, context[todo].val)]
  /\ todo' = 0
  /\ UNCHANGED <<context, future, left>>

\* callback_1: the function makes a call and returns its future, which may have
\* its value already.  The callback moves to it, a value it has is copied back.
Moved(f) == context[future[f].ctx].callback
RunNow(s, r) == IF r.ready /\ r.callback # NoCall THEN s ELSE 0
CallThenR(new) ==
  /\ todo # 0
  /\ context[todo].callback.to = "then_r"
  /\ Len(context) < MaxContext
  /\ LET f == context[todo].callback.f
         s == Len(context) + 1
         p == future[f].ctx
     IN  IF new = <<>>
         THEN /\ future' = [future EXCEPT ![f].inner = Invalid]
              /\ todo' = 0
              /\ UNCHANGED context
         ELSE LET r == [Head(new) EXCEPT !.callback = Moved(f)]
              IN  /\ context' = Append([context EXCEPT ![p].ready = r.ready, ![p].val = r.val], r)
                  /\ future' = [future EXCEPT ![f].inner = s]
                  /\ todo' = RunNow(s, r)
  /\ UNCHANGED <<left, heard>>

\* onFuture: the last one resolves the promise of whenAll
CallWhenAll ==
  /\ todo # 0
  /\ context[todo].callback.to = "whenAll"
  /\ LET f == context[todo].callback.f
         p == future[f].ctx
     IN  /\ left' = [left EXCEPT ![f] = @ - 1]
         /\ IF Completes(f, 1) /\ Takes(p)
            THEN /\ context' = [context EXCEPT ![p].ready = TRUE,
                                               ![p].val = CHOOSE v \in Values : TRUE]
                 /\ todo' = CallOf(p)
            ELSE /\ todo' = 0
                 /\ UNCHANGED context
  /\ UNCHANGED <<future, heard>>

\* What a function may return: no future, one without or with a value
Returned == {<<>>, <<NewContext>>} \cup {<<ReadyContext(v)>> : v \in Values}

FutureNext ==
  \/ NewPromise
  \/ \E c \in Contexts, v \in Values : SetValue(c, v)
  \/ \E f \in Futures, u \in Users : Then(f, u)
  \/ \E f \in Futures : ThenR(f)
  \/ \E f \in Futures, new \in Returned : ThenRReady(f, new)
  \/ \E f, g \in Futures : WhenAll(f, g)
  \/ \E f \in Futures : Wait(f)
  \/ CallUser
  \/ \E new \in Returned : CallThenR(new)
  \/ CallWhenAll

FutureSpec == FutureInit /\ [][FutureNext]_futureVars

-----------------------------------------------------------------------------
(* Properties.                                                             *)

\* Types of contexts and futures.
FutureTypes ==
  /\ Len(context) <= MaxContext /\ Len(future) <= MaxHandle
  /\ \A c \in Contexts : /\ context[c].ready \in BOOLEAN /\ context[c].waited \in BOOLEAN
                         /\ context[c].val \in Values \cup {0}
                         /\ context[c].callback.to \in {"nobody", "user", "then_r", "whenAll"}
  /\ \A f \in Futures : /\ future[f].kind \in {"promise", "then_r", "whenAll"}
                        /\ future[f].ctx \in Contexts
                        /\ future[f].inner \in Contexts \cup {0, Invalid}
  /\ \A f \in 1 .. MaxHandle : left[f] \in 0 .. 2
  /\ todo \in Contexts \cup {0}

\* The context that holds the result a future stands for: its own, or that of
\* the future which the function of then_r returned; 0 when there is none yet
Source(f) ==
  IF future[f].kind = "then_r" THEN (IF future[f].inner = Invalid THEN 0 ELSE future[f].inner)
  ELSE future[f].ctx
Resolved(f) == Source(f) # 0 /\ context[Source(f)].ready
\* wait takes the callback of its context away
Waits(f) == \E c \in {future[f].ctx, Source(f)} \ {0} : context[c].waited

\* A callback is called when and only when the future it was attached to has a
\* result, once and with that result, whichever came first and however many
\* then_r the result came through.
CalledExactly ==
  Idle => \A f \in Futures : future[f].user # 0 /\ ~Waits(f) =>
            heard[future[f].user] = IF Resolved(f) THEN <<context[Source(f)].val>> ELSE <<>>

\* The future of whenAll has its value when all the futures it joins have
\* theirs: not one earlier, and not never.
AllExact ==
  Idle => \A f \in Futures :
    future[f].kind = "whenAll" /\ (\A g \in future[f].of : ~Waits(g)) =>
      (Resolved(f) <=> \A g \in future[f].of : Resolved(g))

\* Every future stands for what it was made of, to its callback and to whenAll.
\* (CPromise::setValue, CFuture::then, then_r, whenAll.)
FuturesExact == FutureTypes /\ CalledExactly /\ AllExact

\* A result that was seen does not change, whatever is resolved later or twice,
\* and what a callback was called with it was called with once.
ResultStays ==
  [][/\ \A c \in Contexts : context[c].ready => context'[c].ready /\ context'[c].val = context[c].val
     /\ \A u \in Users : heard[u] # <<>> => heard'[u] = heard[u]]_futureVars
=============================================================================
