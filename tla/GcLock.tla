------------------------------- MODULE GcLock -------------------------------
(***************************************************************************)
(* The Linux GC lock, platform/linux/gc/gc_lock.c: a write-preferring      *)
(* reader/writer lock made of one shared word (gcState, written by the GC  *)
(* thread) and one word per mutator thread (mutatorState, written by that  *)
(* thread).  Each action is one access to a shared word.                   *)
(*                                                                         *)
(* Every access in the C code is memory_order_relaxed.  On x86 (TSO) such  *)
(* a store waits in the storing CPU's FIFO store buffer, and later loads   *)
(* of that CPU may overtake it.  StoreBufferSize is the length of that     *)
(* buffer; 0 is sequential consistency, where a store is in memory at      *)
(* once.  Taking a mutex is an atomic read-modify-write and drains it.     *)
(*                                                                         *)
(* futex_wait passes FUTEX_WAKE_PRIVATE to the kernel, so it returns at    *)
(* once: both waiting loops spin, and the futex wake-ups have no waiter to *)
(* wake.  A turn of a spinning loop that does not end it is a stuttering   *)
(* step and needs no action.                                               *)
(***************************************************************************)
EXTENDS Naturals, Sequences

CONSTANTS
    Mutators,       \* the mutator threads
    StoreBufferSize \* stores a CPU can hold back; 0: sequential consistency

ASSUME StoreBufferAssumption == StoreBufferSize \in Nat

VARIABLES
    gcState,            \* the shared word, as memory holds it
    gcBuffer,           \* stores to gcState still in the GC thread's buffer
    gcPc,               \* where the GC thread is
    toCheck,            \* list entries the GC thread has still to wait for
    mutatorState,       \* the per-thread words, as memory holds them
    mutatorBuffer,      \* stores to mutatorState[t] still in t's buffer
    mutatorPc,          \* where each mutator is
    mutatorThreadsList, \* the threads with an entry in the lock's list
    overtook            \* history: a mutator looked at gcState before its raised
                        \* hand was in memory

gcVars == <<gcState, gcBuffer, gcPc, toCheck>>
mutatorVars == <<mutatorState, mutatorBuffer, mutatorPc>>
lockVars == <<mutatorThreadsList, overtook>>
vars == <<gcVars, mutatorVars, lockVars>>

(* enum gc_state and enum mutator_state; the GC compares the latter as     *)
(* numbers.                                                                *)
GC_UNUSED == 0
GC_ACTIVE_OR_WAIT == 1

MUTATOR_UNUSED == 0
MUTATOR_WAITING == 1
MUTATOR_PREPARING == 2
MUTATOR_ACTIVE == 3

GcPcs == {"out", "lockList", "check", "in"}
MutatorPcs == {"detached", "out", "test", "retreat", "wait", "prepare", "activate", "in"}

-----------------------------------------------------------------------------
(* A store goes to memory when there is no buffer, and else to the buffer, *)
(* once it has room.                                                       *)
StoreGcState(v) ==
    \/ /\ StoreBufferSize = 0
       /\ gcState' = v
       /\ UNCHANGED gcBuffer
    \/ /\ Len(gcBuffer) < StoreBufferSize
       /\ gcBuffer' = Append(gcBuffer, v)
       /\ UNCHANGED gcState

StoreMutatorState(t, v) ==
    \/ /\ StoreBufferSize = 0
       /\ mutatorState' = [mutatorState EXCEPT ![t] = v]
       /\ UNCHANGED mutatorBuffer
    \/ /\ Len(mutatorBuffer[t]) < StoreBufferSize
       /\ mutatorBuffer' = [mutatorBuffer EXCEPT ![t] = Append(@, v)]
       /\ UNCHANGED mutatorState

(* The oldest buffered store reaches memory. *)
DrainGc ==
    /\ gcBuffer # <<>>
    /\ gcState' = Head(gcBuffer)
    /\ gcBuffer' = Tail(gcBuffer)
    /\ UNCHANGED <<gcPc, toCheck, mutatorVars, lockVars>>

DrainMutator(t) ==
    /\ mutatorBuffer[t] # <<>>
    /\ mutatorState' = [mutatorState EXCEPT ![t] = Head(mutatorBuffer[t])]
    /\ mutatorBuffer' = [mutatorBuffer EXCEPT ![t] = Tail(@)]
    /\ UNCHANGED <<gcVars, mutatorPc, lockVars>>

-----------------------------------------------------------------------------
(* The GC thread. *)

(* gc_lock_enter_gc_exclusive: announce, ... *)
Announce ==
    /\ gcPc = "out"
    /\ gcPc' = "lockList"
    /\ StoreGcState(GC_ACTIVE_OR_WAIT)
    /\ UNCHANGED <<toCheck, mutatorVars, lockVars>>

(* ... take mutatorThreadsListLock, ... *)
LockList ==
    /\ gcPc = "lockList"
    /\ gcBuffer = <<>>
    /\ gcPc' = "check"
    /\ toCheck' = mutatorThreadsList
    /\ UNCHANGED <<gcState, gcBuffer, mutatorVars, lockVars>>

(* Mutant of SeeOut: takes a raised hand for a retreat. *)
MutSeeOut(t) ==
    /\ gcPc = "check"
    /\ t \in toCheck
    /\ mutatorState[t] <= MUTATOR_PREPARING
    /\ toCheck' = toCheck \ {t}
    /\ UNCHANGED <<gcState, gcBuffer, gcPc, mutatorVars, lockVars>>

(* ... see each listed mutator out of the lock (the list order plays no    *)
(* part), ...                                                              *)
SeeOut(t) ==
    /\ gcPc = "check"
    /\ t \in toCheck
    /\ mutatorState[t] <= MUTATOR_WAITING
    /\ toCheck' = toCheck \ {t}
    /\ UNCHANGED <<gcState, gcBuffer, gcPc, mutatorVars, lockVars>>

(* Mutant of Enter: does not wait for the mutators it found. *)
MutEnter ==
    /\ gcPc = "check"
    /\ gcPc' = "in"
    /\ UNCHANGED <<gcState, gcBuffer, toCheck, mutatorVars, lockVars>>

(* ... release the list lock and return. *)
Enter ==
    /\ gcPc = "check"
    /\ toCheck = {}
    /\ gcPc' = "in"
    /\ UNCHANGED <<gcState, gcBuffer, toCheck, mutatorVars, lockVars>>

(* Mutant of Exit: forgets to clear gcState. *)
MutExit ==
    /\ gcPc = "in"
    /\ gcPc' = "out"
    /\ UNCHANGED <<gcState, gcBuffer, toCheck, mutatorVars, lockVars>>

(* gc_lock_exit_gc_exclusive *)
Exit ==
    /\ gcPc = "in"
    /\ gcPc' = "out"
    /\ StoreGcState(GC_UNUSED)
    /\ UNCHANGED <<toCheck, mutatorVars, lockVars>>

-----------------------------------------------------------------------------
(* A mutator thread. *)
Goto(t, from, to) ==
    /\ mutatorPc[t] = from
    /\ mutatorPc' = [mutatorPc EXCEPT ![t] = to]

(* gc_lock_block_gc: raise the hand, ... *)
BlockGc(t) ==
    /\ Goto(t, "out", "test")
    /\ StoreMutatorState(t, MUTATOR_PREPARING)
    /\ UNCHANGED <<gcVars, lockVars>>

(* The load of gcState is relaxed: nothing keeps it behind the store       *)
(* before it.                                                              *)
LookAtGcState(t) ==
    /\ overtook' = (overtook \/ mutatorBuffer[t] # <<>>)
    /\ UNCHANGED <<gcVars, mutatorState, mutatorBuffer, mutatorThreadsList>>

(* Mutant of TestGcState: does not look at gcState. *)
MutTestGcState(t) ==
    /\ Goto(t, "test", "activate")
    /\ LookAtGcState(t)

(* ... look whether the GC wants in, ... *)
TestGcState(t) ==
    /\ \/ gcState = GC_ACTIVE_OR_WAIT /\ Goto(t, "test", "retreat")
       \/ gcState # GC_ACTIVE_OR_WAIT /\ Goto(t, "test", "activate")
    /\ LookAtGcState(t)

Retreat(t) ==
    /\ Goto(t, "retreat", "wait")
    /\ StoreMutatorState(t, MUTATOR_WAITING)
    /\ UNCHANGED <<gcVars, lockVars>>

(* ... spin until it has left, ... *)
EndWait(t) ==
    /\ gcState # GC_ACTIVE_OR_WAIT
    /\ Goto(t, "wait", "prepare")
    /\ UNCHANGED <<gcVars, mutatorState, mutatorBuffer, lockVars>>

(* ... raise the hand again, ... *)
Prepare(t) ==
    /\ Goto(t, "prepare", "test")
    /\ StoreMutatorState(t, MUTATOR_PREPARING)
    /\ UNCHANGED <<gcVars, lockVars>>

(* ... or go in and return. *)
Activate(t) ==
    /\ Goto(t, "activate", "in")
    /\ StoreMutatorState(t, MUTATOR_ACTIVE)
    /\ UNCHANGED <<gcVars, lockVars>>

(* gc_lock_unblock_gc; the load of gcState that follows only decides       *)
(* whether to call futex_wake_one, which wakes nobody.                     *)
UnblockGc(t) ==
    /\ Goto(t, "in", "out")
    /\ StoreMutatorState(t, MUTATOR_UNUSED)
    /\ UNCHANGED <<gcVars, lockVars>>

(* The list is only touched under its lock, which the GC thread holds      *)
(* while it checks.                                                        *)
ListLockFree == gcPc # "check"

(* Mutant of NewThread: the new entry's state is not initialised.          *)
MutNewThread(t) ==
    /\ ListLockFree
    /\ Goto(t, "detached", "out")
    /\ mutatorState' = [mutatorState EXCEPT ![t] = MUTATOR_ACTIVE + 1]
    /\ mutatorThreadsList' = mutatorThreadsList \union {t}
    /\ UNCHANGED <<gcVars, mutatorBuffer, overtook>>

(* gc_lock_new_thread; the entry it allocates starts MUTATOR_UNUSED *)
NewThread(t) ==
    /\ ListLockFree
    /\ Goto(t, "detached", "out")
    /\ mutatorState' = [mutatorState EXCEPT ![t] = MUTATOR_UNUSED]
    /\ mutatorThreadsList' = mutatorThreadsList \union {t}
    /\ UNCHANGED <<gcVars, mutatorBuffer, overtook>>

(* gc_lock_free_thread; taking the list lock drains the caller's buffer *)
FreeThread(t) ==
    /\ ListLockFree
    /\ mutatorBuffer[t] = <<>>
    /\ Goto(t, "out", "detached")
    /\ mutatorThreadsList' = mutatorThreadsList \ {t}
    /\ UNCHANGED <<gcVars, mutatorState, mutatorBuffer, overtook>>

-----------------------------------------------------------------------------
(* gc_lock_new: no mutator, no GC activity *)
Init ==
    /\ gcState = GC_UNUSED
    /\ gcBuffer = <<>>
    /\ gcPc = "out"
    /\ toCheck = {}
    /\ mutatorState = [t \in Mutators |-> MUTATOR_UNUSED]
    /\ mutatorBuffer = [t \in Mutators |-> <<>>]
    /\ mutatorPc = [t \in Mutators |-> "detached"]
    /\ mutatorThreadsList = {}
    /\ overtook = FALSE

GcStep == Announce \/ LockList \/ (\E t \in Mutators : SeeOut(t)) \/ Enter \/ Exit

(* What a mutator does inside gc_lock_block_gc, up to its return *)
BlockStep(t) ==
    TestGcState(t) \/ Retreat(t) \/ EndWait(t) \/ Prepare(t) \/ Activate(t)

MutatorStep(t) ==
    BlockGc(t) \/ BlockStep(t) \/ UnblockGc(t) \/ NewThread(t) \/ FreeThread(t)

Next ==
    \/ GcStep
    \/ DrainGc
    \/ \E t \in Mutators : MutatorStep(t) \/ DrainMutator(t)

Spec == Init /\ [][Next]_vars

(* Threads inside the lock's operations keep running, critical sections    *)
(* are finite code, and store buffers drain.  Nobody has to call           *)
(* gc_lock_enter_gc_exclusive or gc_lock_block_gc, attach or detach.       *)
Fairness ==
    /\ WF_vars(LockList) /\ WF_vars(Enter) /\ WF_vars(Exit) /\ WF_vars(DrainGc)
    /\ \A t \in Mutators :
        /\ WF_vars(SeeOut(t))
        /\ WF_vars(BlockStep(t))
        /\ WF_vars(UnblockGc(t))
        /\ WF_vars(DrainMutator(t))

FairSpec == Spec /\ Fairness

-----------------------------------------------------------------------------
TypeOK ==
    /\ gcState \in {GC_UNUSED, GC_ACTIVE_OR_WAIT}
    /\ gcBuffer \in Seq({GC_UNUSED, GC_ACTIVE_OR_WAIT})
    /\ gcPc \in GcPcs
    /\ toCheck \subseteq Mutators
    /\ mutatorState \in [Mutators -> MUTATOR_UNUSED .. MUTATOR_ACTIVE]
    /\ mutatorBuffer \in [Mutators -> Seq(MUTATOR_UNUSED .. MUTATOR_ACTIVE)]
    /\ mutatorPc \in [Mutators -> MutatorPcs]
    /\ mutatorThreadsList \subseteq Mutators
    /\ overtook \in BOOLEAN

(* The lock excludes: while the GC thread is between the return of         *)
(* gc_lock_enter_gc_exclusive and gc_lock_exit_gc_exclusive, no mutator is *)
(* between the return of gc_lock_block_gc and gc_lock_unblock_gc.  This is *)
(* what every "stop the world" section of gc.c rests on.                   *)
Exclusion == gcPc = "in" => \A t \in Mutators : mutatorPc[t] # "in"

(* What Exclusion takes: as long as no mutator's look at gcState has       *)
(* overtaken the hand it raised (a fence between the two accesses of       *)
(* gc_lock_block_gc would see to that), the lock excludes, however long    *)
(* every other store is held back.                                         *)
ExclusionUnlessOvertaken == ~overtook => Exclusion

(* The GC is preferred (gc_lock.h): however often mutators come and go, a  *)
(* GC thread that called gc_lock_enter_gc_exclusive gets in.               *)
GcEnters == gcPc \in {"lockList", "check"} ~> gcPc = "in"

(* No wake-up is lost: if the GC at some point stops asking for the lock,  *)
(* every mutator inside gc_lock_block_gc gets through.                     *)
MutatorsResume ==
    <>[](gcPc = "out")
        => \A t \in Mutators :
             mutatorPc[t] \in {"test", "retreat", "wait", "prepare"} ~> mutatorPc[t] = "in"

(* The lock as gc_lock.h describes it: a mutator holds it from the moment  *)
(* it has seen the GC absent, and the GC waits for it from the moment its  *)
(* announcement is in memory.                                              *)
Holders == {t \in Mutators : mutatorPc[t] \in {"activate", "in"}}
Announced ==
    \/ gcPc = "check"
    \/ gcPc = "lockList" /\ gcBuffer = <<>>
GcPhase == CASE gcPc = "in" -> "exclusive"
             [] Announced -> "waiting"
             [] OTHER -> "idle"

Abstract == INSTANCE ExclusiveLock WITH holders <- Holders, gcPhase <- GcPhase

(* Up to the first look that overtakes a raised hand, the lock of          *)
(* gc_lock.c implements that one.                                          *)
ImplementsUnlessOvertaken ==
    /\ Abstract!LockInit
    /\ [][overtook' \/ [Abstract!LockNext]_(Abstract!lockVars)]_vars
=============================================================================
