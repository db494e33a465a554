--------------------------- MODULE MCMultiProcess ---------------------------
(* MultiProcess on small instances. *)
EXTENDS MultiProcess, TLC

\* Nothing is promised further on, and so nothing is explored.
Promised == ~excused

PeerSymmetry == Permutations(Procs) \cup Permutations(Keys)
=============================================================================
