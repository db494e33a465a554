------------------------- MODULE MCQuickStoreWriter -------------------------
(* QuickStoreWriter on small instances. *)
EXTENDS QuickStoreWriter, TLC

KeySymmetry == Permutations(Keys)
WriterSymmetry == Permutations(Keys) \cup Permutations(Values)
=============================================================================
