--------------------------- MODULE MCAppLifecycle ---------------------------
(* The life cycle of a small node, for TLC. *)
EXTENDS AppLifecycle, TLC
=============================================================================
