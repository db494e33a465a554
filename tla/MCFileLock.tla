----------------------------- MODULE MCFileLock -----------------------------
(* FileLock on small instances. *)
EXTENDS FileLock, TLC

ProcSymmetry == Permutations(Procs)
=============================================================================
