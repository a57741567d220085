---------------------------- MODULE MCTaskResult ----------------------------
(* Instances of TaskResult for TLC; the constants are in the .cfg files.   *)
EXTENDS TaskResult, TLC

\* The helpers differ in nothing but their names.
HelperSymmetry == Permutations(Helpers)
=============================================================================
