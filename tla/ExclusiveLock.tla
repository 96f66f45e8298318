--------------------------- MODULE ExclusiveLock ---------------------------
(***************************************************************************)
(* What gc/gc_lock.h promises of every GC lock, whatever implements it:    *)
(* mutator threads "block the GC" (any number at once), the GC thread      *)
(* enters an exclusive section, and the GC is preferred: from the moment   *)
(* it asks, no further thread gets to block it.                            *)
(***************************************************************************)
CONSTANT Mutators

VARIABLES
    holders,    \* the mutators between gc_lock_block_gc and gc_lock_unblock_gc
    gcPhase     \* where the GC thread is: "idle", "waiting" or "exclusive"

lockVars == <<holders, gcPhase>>

LockTypeOK ==
    /\ holders \subseteq Mutators
    /\ gcPhase \in {"idle", "waiting", "exclusive"}

LockInit ==
    /\ holders = {}
    /\ gcPhase = "idle"

(* gc_lock_enter_gc_exclusive, from the call ... *)
Request ==
    /\ gcPhase = "idle"
    /\ gcPhase' = "waiting"
    /\ UNCHANGED holders

(* ... to the return. *)
Grant ==
    /\ gcPhase = "waiting"
    /\ holders = {}
    /\ gcPhase' = "exclusive"
    /\ UNCHANGED holders

(* gc_lock_exit_gc_exclusive *)
Release ==
    /\ gcPhase = "exclusive"
    /\ gcPhase' = "idle"
    /\ UNCHANGED holders

(* gc_lock_block_gc; not to be nested (heap/heap.h) *)
Block(t) ==
    /\ t \notin holders
    /\ gcPhase = "idle"
    /\ holders' = holders \union {t}
    /\ UNCHANGED gcPhase

(* gc_lock_unblock_gc *)
Unblock(t) ==
    /\ t \in holders
    /\ holders' = holders \ {t}
    /\ UNCHANGED gcPhase

LockNext ==
    \/ Request
    \/ Grant
    \/ Release
    \/ \E t \in Mutators : Block(t) \/ Unblock(t)

LockSpec == LockInit /\ [][LockNext]_lockVars
=============================================================================
