----------------------------- MODULE MCFileLock -----------------------------
(* An instance of FileLock for TLC: two processes.                          *)
EXTENDS FileLock, TLC

Processes == Permutations(Proc)
=============================================================================
