----------------------------- MODULE MCTaskWait -----------------------------
(* Instances of TaskWait for TLC; the constants are in the .cfg files.     *)
EXTENDS TaskWait, TLC

\* The threads differ in nothing but their names.
ThreadSymmetry == Permutations(Threads)
=============================================================================
