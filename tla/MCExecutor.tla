----------------------------- MODULE MCExecutor -----------------------------
(* A finite instance of Executor for TLC. *)
EXTENDS Executor
=============================================================================
