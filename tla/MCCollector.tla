---------------------------- MODULE MCCollector ----------------------------
(* Small instances of Collector for TLC. *)
EXTENDS Collector, TLC

(* Blocks are alike: one field each, and no flexible array. *)
OneField == [o \in Obj |-> 1]
NoFlex == [o \in Obj |-> 0]

Alike == Permutations(Obj) \union Permutations(Thread)
=============================================================================
