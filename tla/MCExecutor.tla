----------------------------- MODULE MCExecutor -----------------------------
(* An instance of Executor for TLC.                                        *)
EXTENDS Executor
=============================================================================
