---------------------------- MODULE CycleControl ----------------------------
(***************************************************************************)
(* Who starts a collection cycle, who waits for it, and how it all ends:   *)
(* gc_start_cycle_async, gc_wait_cycle, callGCAsync and gcThread (gc/gc.c),*)
(* the retry loop of heap_alloc and heap_free (heap/heap.c), the driver    *)
(* thread (gc/driver.c) and the statistics thread (gc/stat_collector.c).   *)
(*                                                                         *)
(* A critical section under cycleStatusLock, gcRequestLock or statsLock is *)
(* one step, and waiting on a condition variable is a state of its own     *)
(* that only a wake-up (or a timeout) ends.  The heap is reduced to which  *)
(* units of memory are in use: a cycle frees the units that were garbage   *)
(* when it took its snapshot, except those allocated since the previous    *)
(* cycle began, which gc_on_allocate has left marked (see Collector).      *)
(***************************************************************************)
EXTENDS Naturals

CONSTANTS
    Mutator,        \* the threads that allocate
    driver,         \* the driver thread
    Unit,           \* what the heap has room for
    RetryCount      \* HEAP_ALLOC_RETRY_COUNT

ASSUME CallerAssumption == driver \notin Mutator
ASSUME RetryAssumption == RetryCount \in Nat

VARIABLES
    gcRequest,          \* "GC_NOOP", "GC_START_CYCLE" or "GC_SHUTDOWN"
    cycleWasInvoked,
    current,            \* callers whose last cycleID still equals cycleID
    gcPc,               \* the GC thread
    pc,                 \* each mutator and the driver
    retries,            \* of each mutator, in heap_alloc
    pacing,             \* is pacingMicrosec other than 0?
    paused, quitRequested,  \* of the driver
    statPc,             \* the statistics thread: "run", "quit" or "exit"
    mainPc,             \* heap_new, and heap_free
    live, dead,         \* units that hold an object in use, and garbage
    recent,             \* ... allocated since the previous cycle began
    doomed,             \* what the cycle under way is going to free
    cycled,             \* has any cycle begun?
    undisturbed         \* history: mutators in heap_alloc during which no other
                        \* mutator has allocated or dropped anything

requestVars == <<gcRequest, cycleWasInvoked, current>>
driverVars == <<pacing, paused, quitRequested>>
endVars == <<statPc, mainPc>>
heapVars == <<live, dead, recent, doomed, cycled, undisturbed>>
vars == <<requestVars, gcPc, pc, retries, driverVars, endVars, heapVars>>

Caller == Mutator \union {driver}

(* In gc_start_cycle: "start" and "post" are gc_start_cycle_async, "wait"  *)
(* and "asleep" gc_wait_cycle.                                             *)
InCall == {"start", "post", "wait", "asleep"}

Go(c, from, to) == pc[c] = from /\ pc' = [pc EXCEPT ![c] = to]

-----------------------------------------------------------------------------
(* callGCAsync: sets the request and wakes the GC thread if it waits. *)
CallGCAsync(request) ==
    /\ gcRequest' = request
    /\ gcPc' = IF gcPc = "asleep" THEN "take" ELSE gcPc

(* Mutant of StartCycleAsync: asks for a cycle even if one is under way. *)
MutStartCycleAsync(c) ==
    /\ Go(c, "start", "post")
    /\ current' = current \union {c}
    /\ cycleWasInvoked' = TRUE
    /\ UNCHANGED <<gcRequest, gcPc, retries, driverVars, endVars, heapVars>>

(* gc_start_cycle_async, up to the unlocking of cycleStatusLock ... *)
StartCycleAsync(c) ==
    /\ Go(c, "start", IF cycleWasInvoked THEN "wait" ELSE "post")
    /\ current' = current \union {c}
    /\ cycleWasInvoked' = TRUE
    /\ UNCHANGED <<gcRequest, gcPc, retries, driverVars, endVars, heapVars>>

(* ... and the call of the GC thread. *)
PostRequest(c) ==
    /\ Go(c, "post", "wait")
    /\ CallGCAsync("GC_START_CYCLE")
    /\ UNCHANGED <<cycleWasInvoked, current, retries, driverVars, endVars,
                   heapVars>>

(* gc_wait_cycle tests, and waits while the cycle ID is the one it got. *)
SleepOnCycle(c) ==
    /\ c \in current
    /\ Go(c, "wait", "asleep")
    /\ UNCHANGED <<requestVars, gcPc, retries, driverVars, endVars, heapVars>>

(* flup_cond_wait may also return without a wake-up. *)
WakeSpuriously(c) ==
    /\ Go(c, "asleep", "wait")
    /\ UNCHANGED <<requestVars, gcPc, retries, driverVars, endVars, heapVars>>

-----------------------------------------------------------------------------
(* heap_alloc.  The thread blocks the GC while it is "inside", which it    *)
(* cannot get when the GC thread waits for a pause (ExclusiveLock).        *)
Inside(m) == pc[m] = "inside"
GcAsks == gcPc \in {"pause", "finish"}

BeginAlloc(m) ==
    /\ mainPc = "running"
    /\ Go(m, "idle", "enter")
    /\ retries' = [retries EXCEPT ![m] = 0]
    /\ undisturbed' = undisturbed \union {m}
    /\ UNCHANGED <<requestVars, gcPc, driverVars, endVars, live, dead,
                   recent, doomed, cycled>>

BlockGc(m) ==
    /\ ~GcAsks
    /\ Go(m, "enter", "inside")
    /\ UNCHANGED <<requestVars, gcPc, retries, driverVars, endVars, heapVars>>

(* Without a free unit generation_alloc fails.  With one it may fail too:  *)
(* the memory accounted for is more than the blocks take, because whole    *)
(* reservations are taken, other threads have theirs, and that of a thread *)
(* that has gone is lost (see AllocTracker).                               *)
Free == Unit \ (live \union dead)

AllocUnit(m) ==
    /\ Go(m, "inside", "idle")
    /\ \E u \in Free :
          /\ live' = live \union {u}
          /\ recent' = IF cycled THEN recent \union {u} ELSE recent
    /\ undisturbed' = {}
    /\ UNCHANGED <<requestVars, gcPc, retries, driverVars, endVars, dead,
                   doomed, cycled>>

(* generation_alloc has failed: unblocks the GC and calls gc_start_cycle. *)
RetryAlloc(m) ==
    /\ retries[m] < RetryCount
    /\ Go(m, "inside", "start")
    /\ retries' = [retries EXCEPT ![m] = @ + 1]
    /\ UNCHANGED <<requestVars, gcPc, driverVars, endVars, heapVars>>

(* Mutant of CycleDone: does not wait for the cycle. *)
MutCycleDone(m) ==
    /\ Go(m, "wait", "enter")
    /\ UNCHANGED <<requestVars, gcPc, retries, driverVars, endVars, heapVars>>

(* gc_start_cycle returns to heap_alloc. *)
CycleDone(m) ==
    /\ m \notin current
    /\ Go(m, "wait", "enter")
    /\ UNCHANGED <<requestVars, gcPc, retries, driverVars, endVars, heapVars>>

(* "Heap is actually OOM-ed": heap_alloc returns NULL. *)
FailAlloc(m) ==
    /\ retries[m] = RetryCount
    /\ Go(m, "inside", "idle")
    /\ undisturbed' = undisturbed \ {m}
    /\ UNCHANGED <<requestVars, gcPc, retries, driverVars, endVars, live,
                   dead, recent, doomed, cycled>>

(* heap_root_unref of the only root of an object. *)
DropObject(m) ==
    /\ mainPc = "running" /\ pc[m] = "idle"
    /\ \E u \in live : live' = live \ {u} /\ dead' = dead \union {u}
    /\ undisturbed' = {}
    /\ UNCHANGED <<requestVars, gcPc, pc, retries, driverVars, endVars,
                   recent, doomed, cycled>>

-----------------------------------------------------------------------------
(* The driver thread.  Which rule of pollHeapState fires, if any, depends  *)
(* on measured times and rates: either way may be taken.                   *)
Collect ==
    /\ ~quitRequested /\ ~paused
    /\ Go(driver, "poll", "start")
    /\ pacing' = FALSE
    /\ UNCHANGED <<requestVars, gcPc, retries, paused, quitRequested, endVars,
                   heapVars>>

(* flup_cond_wait may return -ETIMEDOUT at any time ... *)
TimeOut ==
    /\ Go(driver, "asleep", "pace")
    /\ UNCHANGED <<requestVars, gcPc, retries, driverVars, endVars, heapVars>>

(* ... and the driver slows allocation down, if memory is getting short. *)
Pace ==
    /\ Go(driver, "pace", "wait")
    /\ pacing' \in {pacing, TRUE}
    /\ UNCHANGED <<requestVars, gcPc, retries, paused, quitRequested, endVars,
                   heapVars>>

CollectDone ==
    /\ driver \notin current
    /\ Go(driver, "wait", "poll")
    /\ pacing' = FALSE
    /\ UNCHANGED <<requestVars, gcPc, retries, paused, quitRequested, endVars,
                   heapVars>>

DriverQuit ==
    /\ quitRequested
    /\ Go(driver, "poll", "exit")
    /\ UNCHANGED <<requestVars, gcPc, retries, driverVars, endVars, heapVars>>

StatQuit ==
    /\ statPc = "quit"
    /\ statPc' = "exit"
    /\ UNCHANGED <<requestVars, gcPc, pc, retries, driverVars, mainPc,
                   heapVars>>

-----------------------------------------------------------------------------
(* gcThread and cycleRunner.                                               *)
GoGc(from, to) == gcPc = from /\ gcPc' = to

(* The wait for a request; flup_cond_wait may also wake up without one. *)
AwaitRequest ==
    /\ gcRequest = "GC_NOOP"
    /\ GoGc("take", "asleep") \/ GoGc("asleep", "take")
    /\ UNCHANGED <<requestVars, pc, retries, driverVars, endVars, heapVars>>

TakeRequest ==
    /\ gcRequest # "GC_NOOP"
    /\ GoGc("take", IF gcRequest = "GC_SHUTDOWN" THEN "exit" ELSE "begin")
    /\ gcRequest' = "GC_NOOP"
    /\ UNCHANGED <<cycleWasInvoked, current, pc, retries, driverVars, endVars,
                   heapVars>>

(* pauseAppThreads, from the call: the GC thread waits for the lock. *)
AskPause ==
    /\ GoGc("begin", "pause") \/ GoGc("swept", "finish")
    /\ UNCHANGED <<requestVars, pc, retries, driverVars, endVars, heapVars>>

(* The first pause, once no mutator is inside. *)
TakeSnapshot ==
    /\ GoGc("pause", "sweep")
    /\ \A m \in Mutator : ~Inside(m)
    /\ doomed' = dead \ recent
    /\ recent' = {} /\ cycled' = TRUE
    /\ UNCHANGED <<requestVars, pc, retries, driverVars, endVars, live, dead,
                   undisturbed>>

Sweep ==
    /\ GoGc("sweep", "swept")
    /\ dead' = dead \ doomed /\ doomed' = {}
    /\ UNCHANGED <<requestVars, pc, retries, driverVars, endVars, live,
                   recent, cycled, undisturbed>>

(* The second pause. *)
FinishCycle ==
    /\ GoGc("finish", "announce")
    /\ \A m \in Mutator : ~Inside(m)
    /\ UNCHANGED <<requestVars, pc, retries, driverVars, endVars, heapVars>>

(* Mutant of AnnounceCycle: wakes one waiter only. *)
MutAnnounceCycle ==
    /\ GoGc("announce", "stats")
    /\ cycleWasInvoked' = FALSE /\ current' = {}
    /\ LET asleep == {c \in Caller : pc[c] = "asleep"} IN
       \/ asleep = {} /\ UNCHANGED pc
       \/ \E c \in asleep : pc' = [pc EXCEPT ![c] = "wait"]
    /\ UNCHANGED <<gcRequest, retries, driverVars, endVars, heapVars>>

(* cycleID moves on, and all who wait for that are woken. *)
AnnounceCycle ==
    /\ GoGc("announce", "stats")
    /\ cycleWasInvoked' = FALSE /\ current' = {}
    /\ pc' = [c \in Caller |-> IF pc[c] = "asleep" THEN "wait" ELSE pc[c]]
    /\ UNCHANGED <<gcRequest, retries, driverVars, endVars, heapVars>>

(* The statistics of the cycle are stored when its waiters run already. *)
StoreStats ==
    /\ GoGc("stats", "take")
    /\ UNCHANGED <<requestVars, pc, retries, driverVars, endVars, heapVars>>

-----------------------------------------------------------------------------
(* The end of heap_new. *)
HeapReady ==
    /\ mainPc = "new" /\ mainPc' = "running"
    /\ paused' = FALSE
    /\ UNCHANGED <<requestVars, gcPc, pc, retries, pacing, quitRequested,
                   statPc, heapVars>>

(* heap_free, when no thread uses the heap any more, or when heap_new      *)
(* fails: lets the driver go on ...                                        *)
HeapFree ==
    /\ mainPc \in {"new", "running"} /\ mainPc' = "unpaused"
    /\ \A m \in Mutator : pc[m] = "idle"
    /\ paused' = FALSE
    /\ UNCHANGED <<requestVars, gcPc, pc, retries, pacing, quitRequested,
                   statPc, heapVars>>

(* ... and tells it to quit, ... *)
QuitDriver ==
    /\ mainPc = "unpaused" /\ mainPc' = "joinDriver"
    /\ quitRequested' = TRUE
    /\ UNCHANGED <<requestVars, gcPc, pc, retries, pacing, paused, statPc,
                   heapVars>>

(* Mutant of StopStatCollector: does not wait for the driver. *)
MutStopStatCollector ==
    /\ mainPc = "joinDriver" /\ mainPc' = "joinStat"
    /\ statPc' = "quit"
    /\ UNCHANGED <<requestVars, gcPc, pc, retries, driverVars, heapVars>>

(* ... stops the statistics thread when the driver is gone, ... *)
StopStatCollector ==
    /\ mainPc = "joinDriver" /\ mainPc' = "joinStat"
    /\ pc[driver] = "exit"
    /\ statPc' = "quit"
    /\ UNCHANGED <<requestVars, gcPc, pc, retries, driverVars, heapVars>>

(* ... then the GC thread ... *)
StopGc ==
    /\ mainPc = "joinStat" /\ mainPc' = "joinGc"
    /\ statPc = "exit"
    /\ CallGCAsync("GC_SHUTDOWN")
    /\ UNCHANGED <<cycleWasInvoked, current, pc, retries, driverVars, statPc,
                   heapVars>>

(* Mutant of JoinGc: does not wait for the GC thread. *)
MutJoinGc ==
    /\ mainPc = "joinGc" /\ mainPc' = "stopped"
    /\ UNCHANGED <<requestVars, gcPc, pc, retries, driverVars, statPc,
                   heapVars>>

(* ... and waits for that too.  What follows is in HeapLife. *)
JoinGc ==
    /\ mainPc = "joinGc" /\ mainPc' = "stopped"
    /\ gcPc = "exit"
    /\ UNCHANGED <<requestVars, gcPc, pc, retries, driverVars, statPc,
                   heapVars>>

-----------------------------------------------------------------------------
Init ==
    /\ gcRequest = "GC_NOOP" /\ cycleWasInvoked = FALSE /\ current = {}
    /\ gcPc = "take"
    /\ pc = [c \in Caller |-> IF c = driver THEN "poll" ELSE "idle"]
    /\ retries = [m \in Mutator |-> 0]
    /\ pacing = FALSE /\ paused = TRUE /\ quitRequested = FALSE
    /\ statPc = "run" /\ mainPc = "new"
    /\ live = {} /\ dead = {} /\ recent = {} /\ doomed = {} /\ cycled = FALSE
    /\ undisturbed = {}

(* How a caller goes on with what it began. *)
CallStep(c) == StartCycleAsync(c) \/ PostRequest(c) \/ SleepOnCycle(c)

AllocStep(m) ==
    BlockGc(m) \/ AllocUnit(m) \/ RetryAlloc(m) \/ CycleDone(m) \/ FailAlloc(m)

DriverStep == Pace \/ CollectDone \/ DriverQuit

CycleStep ==
    \/ TakeRequest \/ AskPause \/ TakeSnapshot \/ Sweep \/ FinishCycle
    \/ AnnounceCycle \/ StoreStats

ShutdownStep == QuitDriver \/ StatQuit \/ StopStatCollector \/ StopGc \/ JoinGc

Next ==
    \/ \E c \in Caller : CallStep(c) \/ WakeSpuriously(c)
    \/ \E m \in Mutator : BeginAlloc(m) \/ DropObject(m) \/ AllocStep(m)
    \/ Collect \/ TimeOut \/ DriverStep
    \/ AwaitRequest \/ CycleStep
    \/ HeapReady \/ HeapFree \/ ShutdownStep

Spec == Init /\ [][Next]_vars

(* Threads in the middle of something keep running. *)
FairSpec ==
    /\ Spec
    /\ \A c \in Caller : WF_vars(CallStep(c))
    /\ \A m \in Mutator : WF_vars(AllocStep(m))
    /\ WF_vars(DriverStep) /\ WF_vars(CycleStep) /\ WF_vars(ShutdownStep)

-----------------------------------------------------------------------------
Requests == {"GC_NOOP", "GC_START_CYCLE", "GC_SHUTDOWN"}
CallerPcs == InCall \union {"idle", "enter", "inside", "poll", "pace", "exit"}
GcPcs == {"take", "asleep", "begin", "pause", "sweep", "swept", "finish",
          "announce", "stats", "exit"}
MainPcs == {"new", "running", "unpaused", "joinDriver", "joinStat", "joinGc",
            "stopped"}

(* The variables hold what their C counterparts can hold, and what is to   *)
(* be freed is garbage.                                                    *)
TypeOK ==
    /\ gcRequest \in Requests
    /\ cycleWasInvoked \in BOOLEAN /\ current \subseteq Caller
    /\ gcPc \in GcPcs
    /\ pc \in [Caller -> CallerPcs]
    /\ retries \in [Mutator -> 0 .. RetryCount]
    /\ pacing \in BOOLEAN /\ paused \in BOOLEAN /\ quitRequested \in BOOLEAN
    /\ statPc \in {"run", "quit", "exit"} /\ mainPc \in MainPcs
    /\ live \subseteq Unit /\ dead \subseteq Unit /\ recent \subseteq Unit
    /\ doomed \subseteq dead /\ cycled \in BOOLEAN /\ undisturbed \subseteq Mutator

(* cycleWasInvoked, which keeps further callers from asking, is set        *)
(* exactly while somebody is about to post the request, or the request is  *)
(* posted, or the GC thread is at work on it: were it set otherwise, no    *)
(* caller would ever ask for a cycle again (gc_start_cycle_async).         *)
Posting == {c \in Caller : pc[c] = "post"}
Requested == gcRequest = "GC_START_CYCLE"
Collecting == gcPc \in {"begin", "pause", "sweep", "swept", "finish", "announce"}

InvokedMeansServed ==
    /\ cycleWasInvoked <=> (Posting # {} \/ Requested \/ Collecting)
    /\ \A c, d \in Posting : c = d
    /\ Requested => Posting = {} /\ ~Collecting
    /\ Collecting => Posting = {}

(* callGCAsync never overwrites a request that the GC thread has not       *)
(* taken: not a cycle by a shutdown, nor the other way round.              *)
RequestsKept == [][gcRequest # "GC_NOOP" => gcRequest' \in {gcRequest, "GC_NOOP"}]_vars

(* When heap_alloc returns NULL no garbage is left to collect, unless      *)
(* other threads allocated or dropped something meanwhile: the retries     *)
(* outlast a cycle that was under way already and one that spares recent   *)
(* garbage.  (It does not mean that objects in use take all the memory.)   *)
NullMeansNoGarbage ==
    [][\A m \in undisturbed : FailAlloc(m) => dead = {}]_vars

(* Whoever waits for a cycle gets to go on, the driver also when its wait  *)
(* times out again and again and when the heap is being freed.             *)
CallsReturn == \A c \in Caller : pc[c] \in InCall ~> pc[c] \notin InCall \union {"pace"}
=============================================================================
