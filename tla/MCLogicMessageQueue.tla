------------------------ MODULE MCLogicMessageQueue ------------------------
(***************************************************************************)
(* The scheduler with two logic threads, the net thread and two services.  *)
(***************************************************************************)
EXTENDS LogicMessageQueue, TLC

=============================================================================
