----------------------------- MODULE MCChannel -----------------------------
(* Instances of Channel for TLC; the constants are in the .cfg files.      *)
EXTENDS Channel
=============================================================================
