---------------------------- MODULE MCStatistics ----------------------------
(* Small instances of Statistics for TLC. *)
EXTENDS Statistics, TLC
=============================================================================
