--------------------------- MODULE ServiceMailbox ---------------------------
(***************************************************************************)
(* What the scheduler of a node promises to a service, whatever the number *)
(* of logic threads: the packets sent to one service form one mailbox that *)
(* is handled one packet at a time, in the order in which they were sent,  *)
(* each packet exactly once.  LogicMessageQueue implements it.             *)
(***************************************************************************)
EXTENDS Naturals, Sequences

CONSTANTS Queues,   \* the services of the node and its global queue
          Packets   \* the packets that may be sent

VARIABLES mailbox,  \* per queue: packets sent and not yet handed to a handler
          done      \* per queue: packets handed to a handler, oldest first

vars == <<mailbox, done>>

Init ==
  /\ mailbox = [q \in Queues |-> <<>>]
  /\ done = [q \in Queues |-> <<>>]

Send(q, p) ==
  /\ mailbox' = [mailbox EXCEPT ![q] = Append(@, p)]
  /\ UNCHANGED done

Handle(q) ==
  /\ mailbox[q] # <<>>
  /\ mailbox' = [mailbox EXCEPT ![q] = Tail(@)]
  /\ done' = [done EXCEPT ![q] = Append(@, Head(mailbox[q]))]

Next == \E q \in Queues : Handle(q) \/ \E p \in Packets : Send(q, p)

SafeSpec == Init /\ [][Next]_vars

Spec == SafeSpec /\ \A q \in Queues : WF_vars(Handle(q))
=============================================================================
