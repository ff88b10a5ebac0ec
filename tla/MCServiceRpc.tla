---------------------------- MODULE MCServiceRpc ----------------------------
(* Calls of one service, for TLC; the health limits are scaled down. *)
EXTENDS ServiceRpc
=============================================================================
