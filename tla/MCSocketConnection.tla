------------------------- MODULE MCSocketConnection -------------------------
(* Connections of one service, for TLC. *)
EXTENDS SocketConnection
=============================================================================
