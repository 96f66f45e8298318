----------------------------- MODULE MCHeapLife -----------------------------
(* Small instances of HeapLife, and of CycleControl in it, for TLC. *)
EXTENDS HeapLife, TLC
=============================================================================
