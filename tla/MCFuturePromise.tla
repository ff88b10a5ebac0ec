--------------------------- MODULE MCFuturePromise ---------------------------
(* Small programs over futures, for TLC. *)
EXTENDS FuturePromise
=============================================================================
