------------------------------ MODULE MCGcLock ------------------------------
(* Small instances of GcLock for TLC. *)
EXTENDS GcLock, TLC
=============================================================================
