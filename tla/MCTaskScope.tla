---------------------------- MODULE MCTaskScope ----------------------------
(* Instances of TaskScope for TLC.                                         *)
EXTENDS TaskScope
=============================================================================
