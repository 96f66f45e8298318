# FluffyGC in TLA+

FluffyGC is a concurrent mark-and-sweep garbage collector in C: one GC thread
traces the heap from a snapshot of the roots while mutator threads go on
allocating and moving references, and stops them only for two short pauses.
This directory models it, checks it on small instances with TLC, and proves what
matters of the lock, the tracer, the collection cycle with its barriers, the allocation
tracker, the request handshake, the life cycle of a heap, the moving windows and the figures
of a cycle for every instance with TLAPS.

Paths below are relative to `src/` of the repository.

## 1. The system

| Component | Code | State | Operations |
|---|---|---|---|
| GC lock | `platform/linux/gc/gc_lock.c`, `gc/gc_lock.h` | `gcState`; per thread `mutatorState`; `mutatorThreadsList` under its mutex | enter/exit exclusive (GC thread), block/unblock GC (mutator), new/free thread |
| Tracer | `gc/gc.c:129-231` | `gcMarkQueueUwU`, `deferredMarkQueue` (both bounded), mark bits | `doMark`, `processMarkQueue`, `doMarkInner`, `markOneItem` |
| Collection cycle | `gc/gc.c:233-434` | `mutatorMarkedBitValue`, `GCMarkedBitValue`, `markingInProgress`, root snapshot, heap snapshot, `cycleID` | `cycleRunner` and its phases: root snapshot, marking, remark queue, local buffers, sweep, flip |
| Barriers, mutator operations | `gc/gc.c:28-78`, `heap/heap.c`, `heap/thread.c`, `object/helper.c` | per thread: roots, local remark buffer; shared `needRemarkQueue` | `gc_need_remark`, `gc_on_allocate`, read/write reference, new/unref root, allocate, attach, detach |
| Allocation tracker | `memory/alloc_tracker.c`, `memory/alloc_context.c` | `currentUsage`, lock-free global list, per context list and reservation | alloc, add block, snapshot, filter, new/free context |
| Cycle requests | `gc/gc.c:80-128, 436-535`, `heap/heap.c:96-150` | `gcRequest`, `cycleWasInvoked`, `cycleID`, a condition variable | start cycle, wait for it, GC thread's loop, `heap_alloc`'s retries, shutdown |
| Driver, statistics thread | `gc/driver.c`, `gc/stat_collector.c`, `util/moving_window.c` | `paused`, `quitRequested`, pacing, windows of samples, the average rate | poll, collect with timeouts, pace allocation, sample, quit |
| A cycle's figures | `gc/gc.c:364-376, 407-429` | `stats`, `bytesUsedRightBeforeSweeping`, `liveSetSize`, `cycleTimeSamples` | the GC thread stores them, the driver takes them up |
| Heap life cycle | `heap/heap.c`, `heap/generation.c`, every `X_new` and `X_free` | everything above | `heap_new`, `heap_free`, failures of either |
| Bitmap, descriptors, platform glue, test program | `util/bitmap.c`, `object/descriptor.c`, `platform/`, `test/` | - | - |

How they interact:

- A mutator brackets each operation with `heap_block_gc` / `heap_unblock_gc`,
  so an operation never straddles one of the GC's two exclusive sections. It
  does run at the same time as marking, the remark phase and the sweep.
- Mutator and tracer share the heap's reference fields, the mark bits (which
  both exchange atomically) and `needRemarkQueue`. What the mutator's barrier
  marked it puts into its local buffer, and full buffers go to the shared queue.
- The GC thread takes every thread's allocation list in the first pause and
  filters it without a lock; ending threads push to the same global list.
- `heap_alloc` that finds no memory unblocks the GC, asks for a cycle, waits
  for it and retries. The driver asks for cycles too, and its wait times out.
- The GC thread lets waiters go before it stores the cycle's figures, which the
  driver takes up when it has been let go. The statistics thread reads the
  tracker's counter while mutators add to it.
- `heap_new` starts the GC thread, the statistics thread and the driver while it
  is still building, the latter two paused. `heap_free` stops driver,
  statistics thread and GC thread in that order; `heap_new` calls it when it fails.

What is hard here, and what has to hold:

| Component | Hazard | Property |
|---|---|---|
| GC lock | store-then-load on both sides; new arrivals against a waiting GC; a lost wake-up | mutual exclusion; the GC gets in; mutators resume |
| Tracer | bounded queues: a visit cut short and taken up later | marks exactly what is reachable; terminates |
| Cycle | phase changes between any two steps of a barrier; the mark bit changes its meaning each cycle | no edge of the snapshot is lost; what is swept was garbage; garbage does not survive |
| Threads | detach at any moment of a cycle, with roots, marks and a part-filled buffer | whole buffers in the queue; the cycle ends; no use after free but by the ways listed |
| Tracker | two lock-free pushers; accounting by reservation | no block is lost; the counter is exact and stays within the limit |
| Requests | two locks for one fact; callers sharing a cycle; time-outs; shutdown | no request lost; every wait ends; NULL means that no garbage is left |
| Life cycle | threads that run during construction and destruction; a failure at any point | no thread uses what is not there; everything is given back |
| Figures | read before they are stored; a ring that goes round | never more than one cycle behind; the latest samples and no others |

`PROJECT.json` lists each hazard at its line with the properties that cover it.

## 2. Modules

| Module | Models | Extends / uses |
|---|---|---|
| `ExclusiveLock` | what `gc/gc_lock.h` promises | - |
| `GcLock` | the Linux lock, one action per access to a shared word, with x86-TSO store buffers | implements `ExclusiveLock` |
| `Marker` | the tracer, one action per step of a scan | - |
| `Collector` | cycle, barriers, mutator operations, threads that come and go | INSTANCEs `Marker` and `ExclusiveLock` |
| `ObjectStore` | what the cycle needs of the tracker | - |
| `AllocTracker` | the tracker, one action per access to shared data | implements `ObjectStore` |
| `CycleControl` | requests, retries, driver, shutdown | - |
| `HeapLife` | `heap_new` and `heap_free` with all they construct and destroy, around those threads | extends `CycleControl` |
| `MovingWindow` | the ring of `util/moving_window.c`, as operators | - |
| `SampleWindow` | what the ring's users rely on: the latest samples | - |
| `Statistics` | rate, figures of a cycle, samples and pace | extends `MovingWindow`; its windows implement `SampleWindow` |
| `GcLockProofs`, `MarkerProofs`, `CollectorTypeProofs`, `CollectorProofs`, `AllocTrackerProofs`, `HeapLifeProofs` (with those of `CycleControl`), `StatisticsProofs` (with the window's) | theorems | each extends its module, `CollectorProofs` extends `CollectorTypeProofs` |
| `SumLemmas` | lemmas on sums over finite sets and on minimal sets | extended by the proofs of the collector, of the tracker and of the statistics |
| `MC*` | constants, symmetry and bounds for TLC | - |

`Collector` relies on the lock and on the tracer as they are: it instantiates
the very `Marker` of the tracer's theorems and steps through it while mutators
run, and uses the `ExclusiveLock` that `GcLock` is shown to implement. `status`
in `Collector` plays the set of blocks of `ObjectStore`, which `AllocTracker` is
shown to implement. `HeapLife` adds to `CycleControl` what there is for its threads to
use: every step of `HeapLife` is a step of `CycleControl` or leaves it alone, with the
guard that a thread runs only once it has been started.

### Correspondence with the code

**GcLock.** A `gcPc` or `mutatorPc` value is the place between two accesses.
`Announce, LockList, SeeOut, Enter` are `gc_lock_enter_gc_exclusive`; `Exit` is
the matching exit; `BlockGc, TestGcState, Retreat, EndWait, Prepare, Activate`
are `gc_lock_block_gc`; `UnblockGc`, `NewThread`, `FreeThread` the rest. All
accesses are `memory_order_relaxed`, so a store goes through a FIFO buffer of
`StoreBufferSize` that `DrainGc`/`DrainMutator` empty, and taking a mutex needs an
empty buffer. With `StoreBufferSize = 0` memory is sequentially consistent. The
history variable `overtook` is set by a `TestGcState` whose thread still has its
raised hand in its buffer, which a fence between the two accesses would exclude.
In the refinement a mutator holds the lock from the moment it has seen the GC absent,
and the GC waits from the moment its announcement is in memory (`Announced`).
`futex_wait` passes `FUTEX_WAKE_PRIVATE` (`gc_lock.c:89`, where the comment on :87
describes a wait), so it returns at once and both loops spin: a turn that does not
end the loop stutters.

**Marker.** `MarkRoot` is an iteration of the root loop of `markingPhase`; then
`VisitQueued` and `VisitDeferred` take an item from one of the queues
(`doMarkInner`), `SkipNull`, `Enqueue`, `Defer` and `Panic` are what `markOneItem`
does with one slot, `EndScan` and `EndMark` finish. A slot is a number: first
the `FieldCount` fields of the descriptor, then the `FlexCount` elements of the
flexible array. `AfterSlot` translates that the array loop starts at 0 when a
visit is resumed (`gc.c:197`).

**Collector.** The GC thread: `StartCycle, CountRoots, CopyRoots` are the first
pause with the two passes over the roots; `MarkRoot, MarkStep, EndMarking` marking
(the last clears `markingInProgress`); `ReadChunk, RemarkNext, EndDrain` the shared
remark queue; `ReadLocal, ResetLocal, EndLocal` the local buffers; `SweepBlock,
EndSweep` the sweep; `FinishCycle` the second pause with the flip. A thread:
`WriteRef, ReadRef, Unref, NewRoot, Alloc, AttachThread, DetachThread` begin an
operation; `LoadMarkingInProgress, ExchangeMarkBit, CompareMarkBit, Push, Bump, Flush` are
`gc_need_remark` step by step; `InitFields, PublishDesc`, `DropRoot`, `FreeThread` go on with
the others. `gc_need_remark` reads `GCMarkedBitValue` twice, for the exchange and for the
comparison after it. The flip needs the lock, so for a thread that has it the two are one
step; for a thread off the list the cycle may end in between. `heap_alloc_with_descriptor` writes the fields and then
publishes the descriptor, both outside the lock; memory is not initialised before. `heap_block_gc` is one step with the first access after it: while
the GC thread waits it touches nothing. `fault` records a step that touches freed
memory, reads a field not yet written (`ReadsUninitialised`), follows a null root, fails a `BUG_ON`, or may panic
(`MayReserveNothing`), and ends the behaviour.
Three history variables say what a cycle met: `lateBarrier`, a barrier that ran, or was
caught, between the end of marking and the end of the remark phase; `strayThread`, a
thread off the list that had roots at the snapshot, took a part-filled buffer with it,
or marked a block; and `breached`, which remembers over all cycles that either happened,
or that a block in use lay behind blocks marked beforehand (`HidesBlock`).

**AllocTracker.** `Malloc, FastDoSmallAccounting, LoadUsage, CasUsage, AddBlock,
FailAlloc` are an allocation; `LoadHead, CasHead` the push of one block by a context
that ends (`RemoveContext, PushBlock, FreeContext`); `TakeSnapshot` joins the lists (`HeadAfter(i)`
is what `appendToSnapshot` puts behind the list of the i-th context);
`KeepBlock, PushKept, FreeBlock, EndFilter` are the filter. The history variable
`lostUsage` adds up the reservations that ended contexts took with them.

**CycleControl.** A critical section is a step, a condition variable a state that
a wake-up or a time-out ends. Cycle IDs are only ever compared for equality with
the current one, so `current` is the set of callers whose ID is still current.
The heap is reduced to which units of memory are used: a cycle frees the units
that were garbage at its snapshot, except those allocated since the previous cycle
began, which `gc_on_allocate` left marked. An attempt to allocate may fail whatever
is used: the tracker also fails when a 2 MiB reservation does not fit, which other contexts' reservations
and those of ended contexts bring about in a heap with few objects (`alloc_tracker.c:105, 118`). The driver's rules compare floating-point
predictions from measured times, so any poll may or may not collect.

**HeapLife.** A constructor `X_new` is the sequence of what it acquires, the sequences of
the objects it makes included (`HeapNew` is the whole); `Acquire` gets the next, `Fail` does not, and then
the destructors run from the inside out (`FreeObject`, by `Owner`), which for the heap is
`heap_free`: `HeapFreeCalled`, the shutdown of `CycleControl`, `FreeThreads`,
the generation, `FreeHeap`. `Crash` is a destructor that takes a mutex or
follows a pointer that was never set, or meets the panic of `gc_lock_free`. `Serve` is
every other step of `CycleControl`, by a thread that exists. `GcUses`, `DriverUses`,
`StatCollectorUses` and `ThreadUses` are the resources each thread touches in its state.

**MovingWindow, Statistics.** A window is the C structure as a record; `Entries` is what
`moving_window_next` yields from the start to FALSE. `ReadLifetimeBytes, AppendRate` are
`collectData`; `BeginCycle, AnnounceCycle, StoreStats, StorePeak, StoreLiveSet, StoreTime` the
accesses of `cycleRunner` to what others read, in its order; `Collect, AwaitCycle, Pace,
CollectDone, TakePeak, TakeLiveSet` are `doCollection`. A figure of a cycle is represented by the
number of that cycle, since what matters is which cycle a reader gets a figure of.
The delay is in nanoseconds, rounded down at each multiplication by 1.3.

### What is abstracted

Addresses, offsets and sizes of objects are slot numbers and a few sizes; a root
entry is the block it refers to (a thread's roots are a set); the order of lists
that nothing depends on is dropped; once the heap is built, `malloc` is not let fail except
through the tracker's limit. `flup` (mutexes, condition variables, the bounded queue, futexes)
and `mimalloc` are outside `src/`: a mutex is the atomicity of its critical
section, a condition variable may wake spuriously, and the remark queue is a FIFO with room
for every flush (`flup_buffer_write_no_fail`).

## 3. Runs

| Run | Module | Instance | Shows |
|---|---|---|---|
| `gclock` | GcLock | 2 mutators, buffers of 2 | `ExclusionUnlessOvertaken`, `ImplementsUnlessOvertaken`, `GcEnters`, `MutatorsResume` |
| `gclock_tso` | GcLock | 1 mutator, buffers of 2 | *violated*: `Exclusion` |
| `marker` | Marker | every graph on 3 blocks (3, 1 and 0 slots), any roots, any marks beforehand, queues of 1 and 2 | marks all that is reachable and nothing else; ends; `DeferredResumes` |
| `marker_array` | Marker | an array of 2, mark queue of 1 | *violated*: `MarkingEnds` |
| `collector` | Collector | 1 thread that comes and goes, 2 blocks, buffers of 2, 2 cycles, 2 operations begun at any moments of them | `SnapshotEdges`, `SweepKeepsSnapshot`, `SweepFreesGarbage`, `SurvivorsUnmarked`, `RemarkQueueWhole`, `MemorySafe`, `RootsFrozen` |
| `collector_threads` | Collector | 2 threads, 1 block, buffers of 1, 1 cycle, no bound on operations | `MemorySafe`, `CycleEnds` |
| `collector_late` | Collector | 1 thread, 2 blocks, 1 cycle | *violated*: `NoDangling` |
| `collector_white` | Collector | 1 thread, 2 blocks, 2 cycles, 3 operations | *violated*: `WhiteIsDead` |
| `tracker` | AllocTracker | 2 contexts, 2 blocks, reservations of 4, limit 8 | `EveryBlockOnce`, `UsageExact`, `WithinMaxSize`, implements `ObjectStore`, `PushersEnd` |
| `cycle` | HeapLife | a failure at any point of `heap_new` or none; 2 mutators and the driver, 1 unit, 3 retries | `InvokedMeansServed`, `RequestsKept`, `NullMeansNoGarbage`; `ThreadsUseWhatExists`, `FreeNeverCrashes` |
| `cycle_calls` | HeapLife | the same with 1 retry | `CallsReturn`, `EverythingFreed` |
| `statistics` | Statistics | windows of 2 and of 1, 3 cycles, 2 bytes allocated | `RateIsAllocated`, `AtMostOneBehind`, `CountsTellProgress`, `KeepsLatest`, `PaceIsCapped` |

Four of these are sharper than they look.

- `MemorySafe` says over all cycles that a use after free only ever follows a late
  barrier, a stray thread, or a block hidden behind blocks marked beforehand. These are
  the divergences of section 5; every other interleaving of the barriers with the
  phases, of attaching and of detaching is safe. It also says that the tracer reads no field
  before it is written, although it may meet a block from the moment it is allocated: that
  rests on the order of the two writes at `heap.c:103-104` (`MutPublishDesc` swaps them).
- `NullMeansNoGarbage` says nothing about how full the heap is. "Heap is actually OOM-ed"
  (`heap.c:125`) would be wrong: reservations can take the room (`UsageSlack`, section 5).
- `ImplementsUnlessOvertaken` says that the relaxed load of `gc_lock.c:183` is the only
  one of the lock's relaxed accesses that matters on x86: stores held back anywhere
  else, the retreat and the GC's exit among them, do no harm.
- `ThreadsUseWhatExists` holds of every failure but those between the start of the
  GC thread and the start of the driver (`Abandoned`; section 5), and needs the
  driver's pause: without `paused` a poll during construction starts a cycle on a
  heap without `ownerHeap`.

The safety properties of these runs are theorems for every size (section 4). The runs are
there to show that the interesting cases occur, and that a mutant of the code is caught, so
they are as small as that allows. For liveness, which only TLC checks, the bounds matter more.
Why they are enough for the interesting cases:

- *Lock.* The GC waits for threads one by one and each thread only looks at
  `gcState`, so two threads give a first and a last, and one can attach or leave while
  the other is waited for. Two buffered stores are needed for
  a raised hand and the retreat behind it.
- *Tracer.* A mark queue of one and a block with three slots put a visit off twice.
  It is the only block whose visit can be put off there, so the deferred queue does not fill and
  the panic is not reached; `PanicIsAbsurd` in section 5 is about it. Arrays are no longer than
  the mark queue; `marker_array` is about the others.
- *Collector.* Two blocks make the shortest chain in which a reference can be moved
  from a slot not yet visited to one already visited, or to a root. Every heap graph on them is an
  initial state, so two operations are enough for the move: read the reference, overwrite the
  slot. Two cycles are what the mark bit needs to change its meaning and be read under it. Local
  buffers of two can be half full when their thread leaves; buffers of one, in
  `collector_threads`, flush with every barrier. There the two threads
  operate as often as they like, and barriers still under way when marking ends fill the
  remark queue while it is drained, which is what could keep a cycle from ending.
- *Tracker.* Two contexts and the filter push onto the same list, each with a block of its
  own in hand. The reservation holds two small blocks, and the limit lets
  two reservations fill the heap, so both ways to fail occur.
- *Life cycle.* The resources are those of the code, none left out, and each can be the one
  that fails.
- *Statistics.* Windows of two cycle times and two rates, and of one threshold: three cycles
  send every window round. The
  driver may lag behind, or a cycle of its own may follow at once on one that a
  mutator asked for. All delays up to the cap are reached.
- *Requests.* Two mutators share a cycle that one of them asked for, and the driver
  takes part. One unit is either used, garbage or free. Three
  retries are the least for which `NullMeansNoGarbage` holds (with two it does not: a cycle
  already under way frees nothing new, the next spares recent garbage, the one after
  frees it); the code has five (`heap.c`, `HEAP_ALLOC_RETRY_COUNT`). For liveness one retry is
  enough: each is the same wait again, and their number only falls.

Bounds in guards: `MaxCycles` (Collector, Statistics), `MaxBytes` (Statistics), `MaxOps` (MCCollectorBounded, which
also has all threads attached at the start and begins operations only while a cycle is under way), the sizes of
the constant sets. Nothing else is cut. `CHECK_DEADLOCK FALSE` is in the runs whose
system stops: marking ends, the last cycle of the bound ends, a fault ends the
process, the heap is freed. Symmetry is used in safety runs only, over sets no action orders.

Each property is paired in `PROJECT.json` with a mutant: an altered action, such as
`MutSweepBlock`, kept beside the one it alters. Substituted for it, it breaks the
property under the same configuration.

### Fairness

Weak fairness throughout, for what a running thread does by itself: the GC thread in
a cycle, a thread inside an operation, store buffers, the driver between polls, `heap_new` and
`heap_free` once called. Nobody
is obliged to start an operation, to attach, to detach, to ask for a cycle, or to call
`heap_free`. Critical sections of mutators are assumed finite
(`WF_vars(UnblockGc(t))` in GcLock), which `heap_block_gc`'s users satisfy. Liveness
in `Collector` is checked with mutators that operate without a pause (`collector_threads`).

## 4. What is proved

All theorems hold for every value of the constants that satisfies the module's
`ASSUME`s. Liveness and ENABLED stay with TLC.

**GcLockProofs.** For any number of threads and any store buffers: `TypeCorrect`,
`LockExcludes`, `LockImplements`, the last two as long as no look at `gcState` has
overtaken a raised hand (`overtook`). `Exclusion` is not inductive: that the GC is in says
nothing of a mutator about to be. The inductive `LockInv` adds that buffers fit, that the
GC's announcement is the last thing it stored and is in memory when it looks at the
mutators (`AnnouncedInv`), that the same is true of a mutator's hand, and that memory
shows the hand or more while a mutator goes in (`HandsRaised`), that the list is the set
of attached threads (`ListMatchesPcs`), and `SeenOut`: a thread the checking GC has ticked
off, and every thread once the GC is in, is not past its own test of `gcState`. The refinement
(`LockStep`) uses it for the steps that take or grant the lock. Without `overtook` both
are false, as `gclock_tso` shows. The code's relaxed accesses do not exclude it, so
this is as much as can be said of the lock as it is.

**MarkerProofs.** `TypeCorrect`, `DeferredResumed`, `MarkingComplete`, `MarkingSound`: for
any heap graph, any queue capacities and any blocks marked beforehand. The
inductive `TraceInv` is the tricolour argument with queues: each target of a marked
block that was not marked before is marked, queued, or owed by a visit (a slot the visit
under way, or a put-off one, will still come to: `EdgesInv`); a root is marked, queued
or left to do (`RootsInv`); a put-off visit resumes at an index other than 0 and its
block is marked (`DeferredInv`); and a visit at its first slot finds room in the mark
queue, because its block just left it (`ScanInv`). At the end the queues are empty, so
`EdgesInv` is the closure. Soundness is a separate induction: what is marked or queued
lies in every closed set that holds the roots.

**CollectorTypeProofs, CollectorProofs.** All safety properties of `Collector`, for any threads that attach, operate and
detach at any moment, any blocks, queues and buffers, and any number of cycles: `CollectorTypes`,
`ChunksAreWhole` and `RootsStayFrozen` in the first module, `SnapshotEdgesKept`, `SweepKeepsWhatWasReachable`,
`SweepFreesAllGarbage`, `SurvivorsStartUnmarked`, `NothingInUseIsFreed` in the second. `MarkerProofs` cannot be used
here: its heap stands still. Each step of a thread is first brought to one form, `StepOf` (whose
references it can have got hold of, what it overwrites, what becomes of its buffer), each step of
the GC thread to `GcEffect`. Then, each resting on those before it:

- `BaseInv`: who may be where in which phase. A barrier is under way exactly if its thread holds the
  lock or has left the list; a local buffer holds blocks up to what is counted, and one more
  between `Push` and `Bump`; the tracer's queues are empty when it is idle.
- `KnownInv`: every reference leads to a block that was allocated at some time, a block is
  blank when it comes into use, and one thread initialises it, whose work nobody reads before the descriptor
  is published (`InitInv`). `QuietInv`: which barriers can
  still be under way when. Without a late barrier none is past its load of
  `markingInProgress` after the phase in which it was set, and the buffers empty out in turn; and a
  thread off the list that compares mark bits does so in the cycle in which it exchanged them.
- `TraceInv`: no edge of the snapshot is lost from the snapshot to the sweep (`EdgesInv`, of which
  `SnapshotEdges` is the part for `markingPhase`). Its target is marked, in a queue, in a buffer
  still to be read or in the hand of a barrier; or the edge is still there and the tracer has yet
  to read it. At the end of the remark phase all of these are empty but the mark (`MarkedAtEnd`).
- `SweepInv` and `SoundInv`. For every set S closed at the snapshot: references, queues and hands stay
  within S and what is newer, and a block that is marked is in S or was marked beforehand. That all
  closed sets are meant, and not the least, is what makes it inductive without
  reachability, for which induction would be needed.
- `KeepInv`: while nothing was breached, some closed set K is covered by whatever a tracer that
  stops at blocks marked beforehand can reach, hence is marked when the sweep begins. K is what
  is reachable from the roots of the snapshot; that it is covered is `~HidesBlock`.
- `GoodInv`: some set G of blocks not freed holds all roots, all in hand, and what they refer to. It
  is needed because `MemorySafe` says only that no fault has occurred yet. When the
  sweep frees a block, G is cut down to K and what is newer, which by `SoundInv` is closed.

**AllocTrackerProofs.** For any number of contexts and blocks and any sizes that
`TrackerSizes` allows (a small block fits a reservation): `TrackerTypes`, `UsageIsExact`,
`HeapWithinMaxSize`, `BlocksAreOnce`, and `TrackerImplementsStore`, the refinement of
`ObjectStore`. `EveryBlockOnce` is not inductive: it counts places, and says nothing of how a
list could close on itself. The inductive `TrackerInv` (`TrackerInvariant`) replaces it by
`PlaceInv`: there is a map from each block to the one place where it is (free, a list, a
hand), and every set of listed blocks has one whose `next` leaves the set, so no list is a
cycle. To it belong `LockInv` (a context is on the tracker's list unless it is being freed by
the holder of the lock), `HandInv` (who has a block in hand, and that a block being added has
`next = NULL`), `TailInv` (a context's tail ends its list, which joining the lists relies on)
and `SizeInv` (who is about to reserve has too little left). `ListFrom` is the least
set closed under `next`, and the lemmas on `Chain` say what putting a block before a
list, at its tail, taking its first one or joining two lists makes of it. The limit and the exact
count need each other: `currentUsage` is never reduced by more than is in it.

**SumLemmas.** The library has no theorems about its folds and no induction over data can be
used, so `SumRemove`, `SumChange` and `SumOfDifferences` are shown by a minimal
counterexample: a family of subsets of a finite set has a minimal member
(`FS_StrictSubsetOrderingWellFounded`), and the fold's equation has one solution.

**HeapLifeProofs, on CycleControl.** `TypeCorrect`, `InvokedServed`, `NoRequestLost` for any number of
mutators, any heap and any `RetryCount`. The inductive `CallInv` adds to `InvokedMeansServed` that
`cycleWasInvoked` implies some caller holds the current cycle's ID, that such callers are
inside a call or its pacing, and how far `heap_free` has got: once it has begun no mutator
is in a call, and before it posts `GC_SHUTDOWN` the driver has ended. So at that
moment no request can be pending, for it would have a caller.

`NullWhenClean` assumes `RetryCount >= 3` (`HEAP_ALLOC_RETRY_COUNT` is 5) and shows that
`heap_alloc` returns NULL only with no garbage left, unless another thread allocated or dropped
something since it was called, and whatever the attempts failed for. `QuietInv` counts, from `retries` and `current`, the cycles that
have ended since then (`Waited`): the first may have taken its snapshot before, the second
makes old garbage of the recent, the third leaves none.

**HeapLifeProofs, on HeapLife.** `LifeRefines`: the threads of a heap that is being built, freed, or given
up half built take only steps of `CycleControl`; each action of `HeapLife` is one or
leaves its variables alone. `LifeKeepsRequests` and `LifeNullWhenClean` carry the theorems above
over. `ThreadsAreSafe`, `FreeingIsSafe` and `LifeTypes` are about the resources:

- `Place` numbers the 31 resources in the order of `heap_new`; every constructor is a stretch of
  that order (`Stretches`), so what an object owns is an interval (`PartsAre`), intervals nest
  (`PartsNest`), and each resource has one smallest object around it (`OwnerIs`).
- `LifeInv` makes the invariants inductive. `RestInv`: until `heap_new` is done the threads
  it has started are at rest, and `heap_free` goes on only when each has ended. `WholeInv` and
  `FailInv`: if a constructor fails before the generation has its pointer to the heap, there is
  no driver thread yet, and the generation is gone when it is the heap's turn; if one fails later
  it is that of the thread or the heap, and nothing has been given back when `heap_free` is called.
  `FreeInv`: what has been given back at each point of `heap_free`.

**StatisticsProofs.** `WindowHoldsLatest`: for any size, any kind of entry and any ring that
appends can have led to, iterating yields as many entries as there are, and after an
append the old ones with the new one behind them, less the oldest if there are too many. The
lemmas say that `startIndex` is where the oldest is, and that indices go round at most once.

`NeverTwoBehind`, `CountsCorrect`, `WindowsKeepLatest`, `PaceCapped`, `RateExact` and `StatisticsTypes`, for
windows of any size and any number of cycles. The inductive `StatInv` says which cycle each figure
is of at each place of the GC thread (`FigureInv`, `CountInv`) and what the driver has
taken up at each of its own (`DriverInv`: when it takes figures, `lastCycleID` is behind `cycleID`).
`WindowsKeepLatest` reduces three refinements to `WindowHoldsLatest`. The delay's own invariant,
`PaceInv`, is that it is at most 5 ms or exactly 10. For the rate, `MarkInv` relates the window to what
has been read of the counter (`marks`): the entries are the differences of neighbours there, so
their sum is what lies between the oldest and the newest (`SumOfDifferences`).

Only model-checked: all liveness (`GcEnters`, `MutatorsResume`, `MarkingEnds`, `CycleEnds`,
`PushersEnd`, `CallsReturn`, `EverythingFreed`), which rests on fairness. Assumed of `Collector`'s
constants: its own types (`CollectorAssumption`, `TracerAssumption`: buffers and queues have room for
one entry at least, null is no block), and that threads and blocks are finitely many
(`CollectorFinite`), which the sum over the threads' roots needs.

## 5. Where the code differs from what it says

With a run:

1. `gclock_tso`. The store to `mutatorState` (`gc_lock.c:182`) is relaxed, so the load of `gcState`
   after it (:183) may overtake it. GC thread and mutator
   are then inside together, against `gc_lock.c:153-154`. The GC's own store (:155) is relaxed too,
   but on x86 it is in memory once the GC thread has locked the list's mutex, before it looks at a mutator.
2. `marker_array`. The array loop of a resumed visit starts at 0 (`gc.c:197`), so an
   array longer than the mark queue is restarted for ever.
3. `collector_late`. `markingInProgress` is cleared before the remark phase
   (`gc.c:391`), and a reference overwritten from then on is not remembered. A
   thread may end with a root of a freed block, against `gc.h:37-41, 45-49`.
4. `collector_white`. `gc_on_allocate` (`gc.c:36`) leaves a block unmarked in the running
   cycle and marked in the next. There the tracer does not enter it, and what only it
   refers to is freed, against `gc.h:26-28, 45-47, 52-54`. The properties that pass
   therefore speak of blocks not marked beforehand (`premarked`).

Stated in the modules and not given a run of their own. Each is violated in under a
minute when it replaces the INVARIANTs and PROPERTYs of the configuration named:

| Configuration | Invariant | Why |
|---|---|---|
| `collector.cfg` | `RootCountStable` | a thread detaches between the two passes over the roots (`heap.c:64`, `gc.c:265-275`), and `BUG_ON` fails |
| the same | `SnapshotEdges` without its `~strayThread`, `SweepKeepsSnapshot` without that of `Undisturbed` | a detaching thread takes its local buffer with it (`thread.c:45`) |
| the same | `SurvivorsUnmarked` without its `~strayThread` | its barriers run outside the lock (`thread.c:43`), across the flip |
| `cycle.cfg` | `life # "crashed"`; `ThreadsUseWhatExists` without its `~Abandoned` | failures of `heap_new`, see below |
| the same | `NoPanic` | with no roots from the second cycle on, `realloc(snapshotOfRootSet, 0)` may return NULL, and `gc.c:255-257` panics. glibc's `realloc` does so, mimalloc's does not; the model leaves it open |
| `collector_late.cfg` | `NoNullDeref` | reading a null reference makes a root without a block (`helper.c:21`) |
| `collector_late.cfg` | `LocalBuffersQuiet` | a barrier that loaded `markingInProgress` in time still writes its buffer while the GC thread reads it (`gc.c:300-304`) |
| `tracker.cfg` | `UsageSlack` | the reservation of a context that ends is never returned (`alloc_context.c:44`, `alloc_tracker.h:21-22`), so `heap_alloc` can fail where the objects leave room, against "Heap is actually OOM-ed" (`heap.c:125`) |
| `marker.cfg` with `PairFieldCount`, `NoFlexCount`, mark queue 2, deferred queue 1 | `PanicIsAbsurd` | the deferred queue overflows in heaps smaller than the message at `gc.c:158-162` says, because the mark queue is partly taken |

A thread that drops its roots after it left the list can also read a block that was freed
meanwhile (`thread.c:61`): one of the ways `MemorySafe` excludes as a stray thread, met within the
first cycle and without a late barrier. `collector_threads`, `collector_late` and
`collector_white` have `Detaching = FALSE`, so that what they show is not due to it.

What `cycle.cfg` shows of failures of `heap_new` when those properties are weakened or dropped:

- Only a failure to get the heap itself, the calling thread's structure or its key
  ends cleanly. `generation_new` or `threadListLock` failing makes `heap_free`
  follow a null `gen`; `thread_new` failing passes a null to `gc_lock_free_thread`;
  `gc_lock_new` failing takes a mutex that is not there; `stat_collector_free` frees a null thread.
  `FreeNeverCrashes` therefore speaks of a heap that has been built completely but for the thread's data.
- When `gc_driver_new` fails, the GC thread runs, and perhaps the statistics thread, while what
  they use is freed (`Abandoned`).
- The arena of mimalloc and its heap per context are never given back (`Kept`). A thread's
  cached root entries (`thread.c:45`) are below the resources of `EverythingFreed`.

Of the figures (`statistics`):

- They are stored after the cycle's waiters were woken (`gc.c:404-428`), so the driver may take
  up those of the cycle before, and of no earlier one (`AtMostOneBehind`). A cycle that is
  over counts as under way until its counts are stored (`gc.c:415-420`).
- `gc.h:198` says the pace starts at 2 ms and grows at a "cubic rate"; it starts at 0.5 ms and grows by 1.3.

Read in the code, not modelled:

- `driver.h:11` says the driver checks 50 times a second, line 12 defines 30;
- `bytesUsedRightBeforeSweeping` is the usage after the sweep plus what was freed, so it includes what
  was allocated since the snapshot and leaves out the headers of the blocks freed;
- `bitmap_set` exchanges the word for the truth value and takes `&` for `|`
  (`util/bitmap.c:37-53`); nothing uses the bitmap;
- `heap_free` requires that no thread uses the heap: a guard of `HeapFree`.

## 6. Not modelled

- `gc/gc_lock_posix.c`: forwards to flup's rwlock; it has to provide `ExclusiveLock`.
- `util/bitmap.c`: nothing uses it.
- The driver's rules: they compare floating-point predictions made from measured times. What
  they may cause (any poll collects or not) is in `CycleControl`, what they are made from in `Statistics`.
- The cache of root entries and the growth of a thread's root array, `platform.c`, the test
  program and its printer, the build files.

## 7. Plan

Done, in this order: `GcLock` with `ExclusiveLock`, `Marker`, `Collector`, `AllocTracker` with
`ObjectStore`, `CycleControl`, `HeapLife`, `MovingWindow` with `SampleWindow`, `Statistics`; proofs
about the lock with any store buffers, the tracer, the requests and their retries, the life
cycle and its resources, the windows, the figures and the rate, the allocation tracker, and the
collection cycle with its barriers. Every invariant and action property of the runs is a theorem.

Next, most important first:

1. `GcLock` with a fence as a parameter, so that a theorem covers the repaired lock with buffers.
