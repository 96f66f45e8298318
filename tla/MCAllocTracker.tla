--------------------------- MODULE MCAllocTracker ---------------------------
(* Small instances of AllocTracker for TLC. *)
EXTENDS AllocTracker, TLC

Alike == Permutations(Context) \union Permutations(Block)
=============================================================================
