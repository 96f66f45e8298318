---------------------------- MODULE ObjectStore ----------------------------
(***************************************************************************)
(* What memory/alloc_tracker.h promises the collector: it remembers every  *)
(* block that was allocated, a snapshot holds all blocks there are, and    *)
(* the filter decides of each of them whether it stays or goes.            *)
(***************************************************************************)
CONSTANT Block

VARIABLES
    blocks,     \* the blocks allocated and not freed
    snapshot    \* those of the snapshot the filter has not yet been asked about

storeVars == <<blocks, snapshot>>

StoreInit ==
    /\ blocks = {}
    /\ snapshot = {}

Add(block) ==
    /\ block \notin blocks
    /\ blocks' = blocks \union {block}
    /\ UNCHANGED snapshot

TakeAll ==
    /\ snapshot = {}
    /\ snapshot' = blocks
    /\ UNCHANGED blocks

Keep(block) ==
    /\ block \in snapshot
    /\ snapshot' = snapshot \ {block}
    /\ UNCHANGED blocks

Drop(block) ==
    /\ block \in snapshot
    /\ snapshot' = snapshot \ {block}
    /\ blocks' = blocks \ {block}

StoreNext == TakeAll \/ \E block \in Block : Add(block) \/ Keep(block) \/ Drop(block)

StoreSpec == StoreInit /\ [][StoreNext]_storeVars
=============================================================================
