----------------------------- MODULE MCCoroutine -----------------------------
(* Logic threads, services and their coroutines, for TLC. *)
EXTENDS Coroutine
=============================================================================
