------------------------------ MODULE HeapLife ------------------------------
(***************************************************************************)
(* How a heap comes to be and how it goes: heap_new and heap_free          *)
(* (heap/heap.c) with the constructors and destructors they call, around   *)
(* the threads of CycleControl.  What a constructor acquires, memory, a    *)
(* mutex, a thread, ..., is a resource; acquiring one may fail, and then   *)
(* the constructors under way undo their work from the inside out.         *)
(*                                                                         *)
(* A constructor X_new is the sequence of what it acquires, the objects it *)
(* makes included; X_free gives all of that back.                          *)
(***************************************************************************)
EXTENDS CycleControl, Sequences, SequencesExt

VARIABLES
    acquired,   \* how many resources heap_new has acquired
    freed,      \* those that have been given back
    life        \* "building", "up", "done", "crashed", or the object
                \* whose destructor is next

lifeVars == <<acquired, freed, life>>

-----------------------------------------------------------------------------
StatCollectorNew == <<"statCollector", "allocRateSamples", "statThread">>

GcDriverNew ==
    <<"gcDriver", "triggerThresholdSamples">> \o StatCollectorNew \o <<"driverThread">>

GcLockNew == <<"gcLock", "mutatorThreadsListLock">>

GcStateNew ==
    <<"gcState", "cycleTimeSamples">> \o GcLockNew \o
    <<"needRemarkQueue", "cycleStatusLock", "invokeCycleDoneEvent",
      "gcRequestLock", "gcRequestedCond", "statsLock", "gcMarkQueueUwU",
      "deferredMarkQueue", "gcThread">> \o GcDriverNew

AllocTrackerNew == <<"allocTracker", "arena", "listOfContextLock">>

GenerationNew == <<"generation">> \o AllocTrackerNew \o GcStateNew

ThreadNew == <<"thread", "allocContext", "mimallocHeap", "gcLockPerThread">>

(* The generation's pointer to its heap is set here, which cannot fail. *)
HeapNew ==
    <<"heap", "threadListLock">> \o GenerationNew \o
    <<"ownerHeap", "currentThread">> \o ThreadNew

New == [statCollector |-> StatCollectorNew, gcDriver |-> GcDriverNew,
        gcLock |-> GcLockNew, gcState |-> GcStateNew,
        allocTracker |-> AllocTrackerNew, generation |-> GenerationNew,
        thread |-> ThreadNew, heap |-> HeapNew]

Object == DOMAIN New
Resource == ToSet(HeapNew)
Parts == [o \in Object |-> ToSet(New[o])]

(* mimalloc's arena and its heap of a thread are never given back. *)
Kept == {"arena", "mimallocHeap"}

(* The object whose constructor acquires a resource other than the heap. *)
Owner == [r \in Resource \ {"heap"} |->
    CHOOSE o \in Object \ {r} :
        /\ r \in Parts[o]
        /\ \A p \in Object \ {r} : r \in Parts[p] => Parts[o] \subseteq Parts[p]]

FirstOf == [n \in 0 .. Len(HeapNew) |-> {HeapNew[i] : i \in 1 .. n}]
Begun == FirstOf[acquired]
Built == Begun \ freed
Wanted == HeapNew[acquired + 1]

-----------------------------------------------------------------------------
Acquire ==
    /\ life = "building" /\ acquired < Len(HeapNew)
    /\ acquired' = acquired + 1
    /\ UNCHANGED <<vars, freed, life>>

(* An allocation fails, and the constructor that asked for it undoes what  *)
(* it has done; that of the heap itself just returns NULL.                 *)
Fail ==
    /\ life = "building" /\ acquired < Len(HeapNew) /\ Wanted # "ownerHeap"
    /\ life' = IF Wanted = "heap" THEN "done" ELSE Owner[Wanted]
    /\ UNCHANGED <<vars, acquired, freed>>

(* Mutant of GiveBack: leaves the objects inside as they are. *)
MutGiveBack(o) ==
    freed' = freed \union ({r \in Parts[o] \intersect Begun :
                               r = o \/ Owner[r] = o} \ Kept)

GiveBack(o) == freed' = freed \union ((Parts[o] \intersect Begun) \ Kept)

(* gc_lock_free takes a mutex that may be missing, and panics while there  *)
(* is a thread on its list.                                                *)
GcLockFreeCrashes(o) ==
    /\ o # "heap" /\ "gcLock" \in Parts[o] \intersect Built
    /\ \/ "mutatorThreadsListLock" \notin Built
       \/ "gcLockPerThread" \in Built

(* thread_free passes the gcLockPerThread it may not have to               *)
(* gc_lock_free_thread, which unlinks it.                                  *)
ThreadFreeCrashes(o) == o = "thread" /\ "gcLockPerThread" \notin Built

(* stat_collector_free frees its thread even if there is none, which the   *)
(* destructors of the GC state and of the driver take care not to do.      *)
StatCollectorFreeMayCrash(o) ==
    o = "statCollector" /\ "statThread" \notin Built

(* heap_free goes through self->gen without a look at it. *)
HeapFreeCrashes(o) ==
    o = "heap" /\ mainPc = "new" /\ "generation" \notin Built

Crash(o) ==
    /\ life = o
    /\ \/ GcLockFreeCrashes(o)
       \/ ThreadFreeCrashes(o)
       \/ StatCollectorFreeMayCrash(o)
       \/ HeapFreeCrashes(o)
    /\ life' = "crashed"
    /\ UNCHANGED <<vars, acquired, freed>>

(* The destructor of an object other than the heap, then its owner's turn. *)
FreeObject(o) ==
    /\ life = o
    /\ ~GcLockFreeCrashes(o) /\ ~ThreadFreeCrashes(o)
    /\ GiveBack(o)
    /\ life' = Owner[o]
    /\ UNCHANGED <<vars, acquired>>

(* The end of heap_new, and of the pause it had the driver in. *)
HeapNewReturns ==
    /\ life = "building" /\ acquired = Len(HeapNew)
    /\ HeapReady
    /\ life' = "up"
    /\ UNCHANGED <<acquired, freed>>

(* heap_free, called by the program or by heap_new: the shutdown goes as   *)
(* in CycleControl, ...                                                    *)
HeapFreeCalled ==
    /\ \/ life = "up"
       \/ life = "heap" /\ mainPc = "new" /\ ~HeapFreeCrashes("heap")
    /\ HeapFree
    /\ life' = "heap"
    /\ UNCHANGED <<acquired, freed>>

(* Mutant of FreeThreads: leaves the threads attached. *)
MutFreeThreads ==
    /\ life = "heap" /\ mainPc = "stopped" /\ "generation" \in Built
    /\ freed' = freed \union ({"currentThread"} \intersect Begun)
    /\ life' = "generation"
    /\ UNCHANGED <<vars, acquired>>

(* ... then the threads still attached are removed, ... *)
FreeThreads ==
    /\ life = "heap" /\ mainPc = "stopped" /\ "generation" \in Built
    /\ freed' = freed \union
          ((({"currentThread"} \union Parts["thread"]) \intersect Begun) \ Kept)
    /\ life' = "generation"
    /\ UNCHANGED <<vars, acquired>>

(* ... the generation is freed, by FreeObject, and at last the heap. *)
FreeHeap ==
    /\ life = "heap" /\ mainPc = "stopped" /\ "generation" \notin Built
    /\ freed' = freed \union {"heap", "threadListLock", "ownerHeap"}
    /\ life' = "done"
    /\ UNCHANGED <<vars, acquired>>

(* Everything else: the threads of CycleControl, as soon as they exist. *)
Serve ==
    /\ life # "crashed"
    /\ Next
    /\ mainPc = "new" => mainPc' = "new"
    /\ mainPc' = "unpaused" => mainPc = "unpaused"
    /\ gcPc' # gcPc => "gcThread" \in Begun
    /\ pc'[driver] # pc[driver] => "driverThread" \in Begun
    /\ statPc' # statPc => "statThread" \in Begun
    /\ UNCHANGED lifeVars

-----------------------------------------------------------------------------
LifeInit ==
    /\ Init
    /\ acquired = 0 /\ freed = {} /\ life = "building"

LifeStep ==
    \/ Acquire \/ Fail \/ HeapNewReturns
    \/ \E o \in Object : Crash(o)
    \/ \E o \in Object \ {"heap"} : FreeObject(o)
    \/ FreeThreads \/ FreeHeap

LifeNext == LifeStep \/ HeapFreeCalled \/ Serve

(* heap_new and heap_free go on, as do the threads of CycleControl. *)
LifeSpec ==
    /\ LifeInit /\ [][LifeNext]_<<vars, lifeVars>>
    /\ WF_<<vars, lifeVars>>(LifeStep)
    /\ \A c \in Caller : WF_vars(CallStep(c))
    /\ \A m \in Mutator : WF_vars(AllocStep(m))
    /\ WF_vars(DriverStep) /\ WF_vars(CycleStep) /\ WF_vars(ShutdownStep)

-----------------------------------------------------------------------------
(* heap_new has failed with a thread started that nobody stops:            *)
(* gc_per_generation_state_free and stat_collector_free, which then run,   *)
(* are written for threads that have ended.                                *)
Abandoned ==
    /\ life # "building"
    /\ "gcThread" \in Begun /\ "driverThread" \notin Begun

(* What each thread uses, in the state it is in. *)
GcUses ==
    IF gcPc \in {"take", "asleep"}
    THEN {"gcState", "gcRequestLock", "gcRequestedCond"}
    ELSE {"heap", "threadListLock", "generation", "ownerHeap"} \union Parts["allocTracker"]
         \union (Parts["gcState"] \ Parts["gcDriver"])

DriverUses ==
    IF paused /\ pc[driver] = "poll" THEN {"gcDriver"}
    ELSE {"generation", "allocTracker", "gcState", "cycleStatusLock",
          "invokeCycleDoneEvent", "gcRequestLock", "gcRequestedCond",
          "gcDriver", "triggerThresholdSamples", "statCollector"}

StatCollectorUses ==
    IF paused THEN {"statCollector"}
    ELSE {"generation", "allocTracker", "gcState", "statCollector", "allocRateSamples"}

ThreadUses == {"heap", "ownerHeap", "generation", "allocTracker", "listOfContextLock",
               "gcState", "gcLock", "mutatorThreadsListLock", "allocContext"}

(* An object that is given back takes all it owns with it: no constructor  *)
(* or destructor loses anything but what mimalloc keeps.                   *)
LifeTypeOK ==
    /\ TypeOK
    /\ acquired \in 0 .. Len(HeapNew) /\ freed \subseteq Begun
    /\ life \in Object \union {"building", "up", "done", "crashed"}
    /\ \A o \in Object \intersect freed : Parts[o] \intersect Built \subseteq Kept

(* The GC thread, the driver and the statistics thread, which start while  *)
(* the heap is still being built, never use what is not there yet, nor     *)
(* what heap_free has given back already; a cycle finds the whole heap.    *)
(* A thread attached to the heap can always be detached.                   *)
ThreadsUseWhatExists ==
    ~Abandoned =>
        /\ "gcThread" \in Begun /\ gcPc # "exit" => GcUses \subseteq Built
        /\ "driverThread" \in Begun /\ pc[driver] # "exit" => DriverUses \subseteq Built
        /\ "statThread" \in Begun /\ statPc # "exit" => StatCollectorUses \subseteq Built
        /\ "gcLockPerThread" \in Built => ThreadUses \subseteq Built

(* Once heap_new has made everything but the calling thread's own data,    *)
(* heap_free, whoever calls it, does not crash or panic ("Not all mutator  *)
(* stopped!").                                                             *)
FreeNeverCrashes == life = "crashed" => mainPc = "new"

(* heap_free comes to an end, also when heap_new calls it: it stops all    *)
(* the threads and leaves nothing behind.                                  *)
EverythingFreed == mainPc = "unpaused" ~> life = "done" /\ Built \subseteq Kept
=============================================================================
