------------------------------ MODULE MCMarker ------------------------------
(* Small instances of Marker for TLC. *)
EXTENDS Marker, TLC

CONSTANTS a, b, c

(* A block with two fields and an array of one, one with a field, a leaf. *)
ChainFieldCount == (a :> 2) @@ (b :> 1) @@ (c :> 0)
ChainFlexCount == (a :> 1) @@ (b :> 0) @@ (c :> 0)

(* A block that is an array of two references, and two leaves. *)
ArrayFieldCount == (a :> 0) @@ (b :> 0) @@ (c :> 0)
ArrayFlexCount == (a :> 2) @@ (b :> 0) @@ (c :> 0)

(* Three blocks with two fields each. *)
PairFieldCount == (a :> 2) @@ (b :> 2) @@ (c :> 2)
NoFlexCount == (a :> 0) @@ (b :> 0) @@ (c :> 0)
=============================================================================
