----------------------------- MODULE Statistics -----------------------------
(***************************************************************************)
(* The figures that the GC's parts measure and hand to one another: the    *)
(* allocation rate, which the statistics thread derives from a counter     *)
(* (gc/stat_collector.c); the figures of a cycle, which the GC thread      *)
(* stores one by one when the cycle is already over for its waiters        *)
(* (cycleRunner, gc/gc.c); and the driver, which takes them up and sets    *)
(* the pace of allocation while it waits (gc/driver.c).                    *)
(*                                                                         *)
(* What matters of a cycle's figure is which cycle it is of: a figure is   *)
(* the number of its cycle, counted by cycleID, and 0 is what the zeroed   *)
(* structure holds.  Locks and requests are in CycleControl.               *)
(***************************************************************************)
EXTENDS MovingWindow, Functions

CONSTANTS
    Hz,                 \* STAT_COLLECTOR_HZ
    AllocRateCount,     \* STAT_COLLECTOR_ALLOC_RATE_SAMPLES
    ThresholdCount,     \* DRIVER_TRIGGER_THRESHOLD_SAMPLES
    CycleTimeCount,     \* GC_CYCLE_TIME_SAMPLE_COUNT
    Amount,             \* sizes that are allocated
    MaxBytes, MaxCycles \* bounds on what is allocated and collected

ASSUME CountAssumption ==
    /\ AllocRateCount \in Nat \ {0} /\ ThresholdCount \in Nat \ {0}
    /\ CycleTimeCount \in Nat \ {0} /\ Hz \in Nat
    /\ Amount \subseteq Nat /\ MaxBytes \in Nat /\ MaxCycles \in Nat

VARIABLES
    lifetimeBytesAllocated,
    statPc, current, lastLifetimeBytes, allocRateSamples,
    averageAllocRatePerSecond,
    marks,              \* history: what the counter was at the latest samples
    cycleID, cycleWasInvoked,
    gcPc, stats, cycleStats,        \* ... self->stats, and state.stats
    bytesUsedRightBeforeSweeping, liveSetSize, cycleTimeSamples,
    driverPc, lastCycleID, delay, pacingMicrosec,
    triggerThresholdSamples, lastCycleHeapUsage

rateVars == <<statPc, current, lastLifetimeBytes, allocRateSamples,
              averageAllocRatePerSecond, marks>>
invokeVars == <<cycleID, cycleWasInvoked>>
figureVars == <<bytesUsedRightBeforeSweeping, liveSetSize, cycleTimeSamples>>
gcVars == <<gcPc, stats, cycleStats, figureVars>>
paceVars == <<delay, pacingMicrosec>>
driverVars == <<driverPc, lastCycleID, paceVars, triggerThresholdSamples,
                lastCycleHeapUsage>>
vars == <<lifetimeBytesAllocated, rateVars, invokeVars, gcVars, driverVars>>

-----------------------------------------------------------------------------
(* A mutator accounts for what it allocates. *)
Account(n) ==
    /\ lifetimeBytesAllocated + n <= MaxBytes
    /\ lifetimeBytesAllocated' = lifetimeBytesAllocated + n
    /\ UNCHANGED <<rateVars, invokeVars, gcVars, driverVars>>

(* collectData reads the counter ... *)
ReadLifetimeBytes ==
    /\ statPc = "read" /\ statPc' = "append"
    /\ current' = lifetimeBytesAllocated
    /\ UNCHANGED <<lifetimeBytesAllocated, lastLifetimeBytes, allocRateSamples,
                   averageAllocRatePerSecond, marks, invokeVars, gcVars,
                   driverVars>>

(* The newest so many of a sequence that has just been appended to. *)
Newest(s, count) == IF Len(s) > count THEN Tail(s) ELSE s

(* Mutant of AppendRate: takes the first value of the counter as the last. *)
MutAppendRate ==
    /\ statPc = "append" /\ statPc' = "read"
    /\ lastLifetimeBytes' = IF lastLifetimeBytes = 0 THEN current ELSE lastLifetimeBytes
    /\ allocRateSamples' = WindowAppend(allocRateSamples, current - lastLifetimeBytes)
    /\ averageAllocRatePerSecond' =
          (SumFunction(Entries(allocRateSamples')) * Hz) \div allocRateSamples'.entryCount
    /\ marks' = Newest(Append(marks, current), AllocRateCount + 1)
    /\ UNCHANGED <<lifetimeBytesAllocated, current, invokeVars, gcVars, driverVars>>

(* ... and stores the average of the latest differences. *)
AppendRate ==
    /\ statPc = "append" /\ statPc' = "read"
    /\ lastLifetimeBytes' = current
    /\ allocRateSamples' = WindowAppend(allocRateSamples, current - lastLifetimeBytes)
    /\ averageAllocRatePerSecond' =
          (SumFunction(Entries(allocRateSamples')) * Hz) \div allocRateSamples'.entryCount
    /\ marks' = Newest(Append(marks, current), AllocRateCount + 1)
    /\ UNCHANGED <<lifetimeBytesAllocated, current, invokeVars, gcVars, driverVars>>

-----------------------------------------------------------------------------
(* gc_start_cycle_async, called by a mutator that has run out of memory.   *)
Invoke ==
    /\ ~cycleWasInvoked /\ cycleID < MaxCycles
    /\ cycleWasInvoked' = TRUE
    /\ UNCHANGED <<lifetimeBytesAllocated, rateVars, cycleID, gcVars, driverVars>>

(* cycleRunner.                                                            *)
GoGc(from, to) == gcPc = from /\ gcPc' = to

(* Mutant of BeginCycle: copies the counts before it counts the cycle. *)
MutBeginCycle ==
    /\ cycleWasInvoked
    /\ GoGc("idle", "cycle")
    /\ stats' = [stats EXCEPT !.started = @ + 1]
    /\ cycleStats' = stats
    /\ UNCHANGED <<lifetimeBytesAllocated, rateVars, invokeVars, figureVars, driverVars>>

BeginCycle ==
    /\ cycleWasInvoked
    /\ GoGc("idle", "cycle")
    /\ stats' = [stats EXCEPT !.started = @ + 1]
    /\ cycleStats' = stats'
    /\ UNCHANGED <<lifetimeBytesAllocated, rateVars, invokeVars, figureVars, driverVars>>

(* The waiters are let go ... *)
AnnounceCycle ==
    /\ GoGc("cycle", "stats")
    /\ cycleID' = cycleID + 1 /\ cycleWasInvoked' = FALSE
    /\ UNCHANGED <<lifetimeBytesAllocated, rateVars, stats, cycleStats,
                   figureVars, driverVars>>

(* ... before self->stats is brought up to date ... *)
StoreStats ==
    /\ GoGc("stats", "peak")
    /\ cycleStats' = [cycleStats EXCEPT !.completed = @ + 1]
    /\ stats' = cycleStats'
    /\ UNCHANGED <<lifetimeBytesAllocated, rateVars, invokeVars, figureVars, driverVars>>

(* ... and the cycle's figures are stored. *)
StorePeak ==
    /\ GoGc("peak", "live")
    /\ bytesUsedRightBeforeSweeping' = cycleID
    /\ UNCHANGED <<lifetimeBytesAllocated, rateVars, invokeVars, stats, cycleStats,
                   liveSetSize, cycleTimeSamples, driverVars>>

(* Mutant of StoreLiveSet: leaves it to the next cycle if there is one. *)
MutStoreLiveSet ==
    /\ GoGc("live", "time")
    /\ liveSetSize' = IF cycleWasInvoked THEN liveSetSize ELSE cycleID
    /\ UNCHANGED <<lifetimeBytesAllocated, rateVars, invokeVars, stats, cycleStats,
                   bytesUsedRightBeforeSweeping, cycleTimeSamples, driverVars>>

StoreLiveSet ==
    /\ GoGc("live", "time")
    /\ liveSetSize' = cycleID
    /\ UNCHANGED <<lifetimeBytesAllocated, rateVars, invokeVars, stats, cycleStats,
                   bytesUsedRightBeforeSweeping, cycleTimeSamples, driverVars>>

StoreTime ==
    /\ GoGc("time", "idle")
    /\ cycleTimeSamples' = WindowAppend(cycleTimeSamples, cycleID)
    /\ UNCHANGED <<lifetimeBytesAllocated, rateVars, invokeVars, stats, cycleStats,
                   bytesUsedRightBeforeSweeping, liveSetSize, driverVars>>

-----------------------------------------------------------------------------
(* doCollection.                                                           *)
Drive(from, to) == driverPc = from /\ driverPc' = to

(* 500 microseconds, in nanoseconds as all that are fractions here. *)
FirstDelay == 500000

Collect ==
    /\ cycleID < MaxCycles
    /\ Drive("poll", "wait")
    /\ pacingMicrosec' = 0 /\ delay' = FirstDelay
    /\ lastCycleID' = cycleID /\ cycleWasInvoked' = TRUE
    /\ UNCHANGED <<lifetimeBytesAllocated, rateVars, cycleID, gcVars,
                   triggerThresholdSamples, lastCycleHeapUsage>>

(* gc_wait_cycle, and a wake-up, or a timeout with memory to spare. *)
AwaitCycle ==
    /\ \/ Drive("wait", "asleep") /\ cycleID = lastCycleID
       \/ Drive("asleep", "wait")
    /\ UNCHANGED <<lifetimeBytesAllocated, rateVars, invokeVars, gcVars, lastCycleID,
                   paceVars, triggerThresholdSamples, lastCycleHeapUsage>>

(* Mutant of NextDelay: without its cap. *)
MutNextDelay(d) == (d * 13) \div 10

(* 1.3 times as long, capped "by 10 milisec". *)
NextDelay(d) ==
    LET longer == (d * 13) \div 10
    IN  IF longer > 5000000 THEN 10000000 ELSE longer

(* A timeout with memory getting short: slows allocation down. *)
Pace ==
    /\ Drive("asleep", "wait")
    /\ delay' = NextDelay(delay)
    /\ pacingMicrosec' = delay' \div 1000
    /\ UNCHANGED <<lifetimeBytesAllocated, rateVars, invokeVars, gcVars, lastCycleID,
                   triggerThresholdSamples, lastCycleHeapUsage>>

(* The delay is a variable of the call that ends here. *)
CollectDone ==
    /\ cycleID # lastCycleID
    /\ Drive("wait", "peak")
    /\ pacingMicrosec' = 0 /\ delay' = FirstDelay
    /\ UNCHANGED <<lifetimeBytesAllocated, rateVars, invokeVars, gcVars, lastCycleID,
                   triggerThresholdSamples, lastCycleHeapUsage>>

TakePeak ==
    /\ Drive("peak", "live")
    /\ triggerThresholdSamples' =
          WindowAppend(triggerThresholdSamples, bytesUsedRightBeforeSweeping)
    /\ UNCHANGED <<lifetimeBytesAllocated, rateVars, invokeVars, gcVars, lastCycleID,
                   paceVars, lastCycleHeapUsage>>

TakeLiveSet ==
    /\ Drive("live", "poll")
    /\ lastCycleHeapUsage' = liveSetSize
    /\ UNCHANGED <<lifetimeBytesAllocated, rateVars, invokeVars, gcVars, lastCycleID,
                   paceVars, triggerThresholdSamples>>

-----------------------------------------------------------------------------
Init ==
    /\ lifetimeBytesAllocated = 0
    /\ statPc = "read" /\ current = 0 /\ lastLifetimeBytes = 0
    /\ allocRateSamples = MovingWindowNew(AllocRateCount)
    /\ averageAllocRatePerSecond = 0 /\ marks = <<0>>
    /\ cycleID = 0 /\ cycleWasInvoked = FALSE
    /\ gcPc = "idle"
    /\ stats = [started |-> 0, completed |-> 0] /\ cycleStats = stats
    /\ bytesUsedRightBeforeSweeping = 0 /\ liveSetSize = 0
    /\ cycleTimeSamples = MovingWindowNew(CycleTimeCount)
    /\ driverPc = "poll" /\ lastCycleID = 0
    /\ delay = FirstDelay /\ pacingMicrosec = 0
    /\ triggerThresholdSamples = MovingWindowNew(ThresholdCount)
    /\ lastCycleHeapUsage = 0

StatCollectorStep == ReadLifetimeBytes \/ AppendRate

GcStep ==
    \/ BeginCycle \/ AnnounceCycle \/ StoreStats
    \/ StorePeak \/ StoreLiveSet \/ StoreTime

DriverStep ==
    \/ Collect \/ AwaitCycle \/ Pace \/ CollectDone
    \/ TakePeak \/ TakeLiveSet

Next ==
    \/ \E n \in Amount : Account(n)
    \/ Invoke
    \/ StatCollectorStep \/ GcStep \/ DriverStep

Spec == Init /\ [][Next]_vars

-----------------------------------------------------------------------------
CycleNumber == 0 .. MaxCycles

(* The variables hold what their C counterparts can hold; the windows are  *)
(* windows, whose entries have all been written.                           *)
TypeOK ==
    /\ lifetimeBytesAllocated \in 0 .. MaxBytes /\ current \in 0 .. MaxBytes
    /\ lastLifetimeBytes \in 0 .. MaxBytes
    /\ statPc \in {"read", "append"}
    /\ allocRateSamples \in Window(AllocRateCount, 0 .. MaxBytes)
    /\ averageAllocRatePerSecond \in Nat
    /\ cycleID \in CycleNumber /\ cycleWasInvoked \in BOOLEAN
    /\ gcPc \in {"idle", "cycle", "stats", "peak", "live", "time"}
    /\ bytesUsedRightBeforeSweeping \in CycleNumber /\ liveSetSize \in CycleNumber
    /\ cycleTimeSamples \in Window(CycleTimeCount, CycleNumber)
    /\ driverPc \in {"poll", "wait", "asleep", "peak", "live"}
    /\ lastCycleID \in CycleNumber /\ lastCycleHeapUsage \in CycleNumber
    /\ triggerThresholdSamples \in Window(ThresholdCount, CycleNumber)

(* averageAllocRatePerSecond is what was allocated in the latest second,   *)
(* or since the start, whatever was allocated between the reading of the   *)
(* counter and the storing of the average: no byte is counted twice or     *)
(* left out (collectData).                                                 *)
RateIsAllocated ==
    LET samples == Len(marks) - 1 IN
    samples > 0 =>
        averageAllocRatePerSecond = ((marks[samples + 1] - marks[1]) * Hz) \div samples

RateWindow == INSTANCE SampleWindow
    WITH Size <- AllocRateCount, Sample <- 0 .. MaxBytes, samples <- Entries(allocRateSamples)
ThresholdWindow == INSTANCE SampleWindow
    WITH Size <- ThresholdCount, Sample <- CycleNumber, samples <- Entries(triggerThresholdSamples)
TimeWindow == INSTANCE SampleWindow
    WITH Size <- CycleTimeCount, Sample <- CycleNumber, samples <- Entries(cycleTimeSamples)

(* What the statistics thread, the driver and the GC thread find when they *)
(* iterate over their samples is the latest of them, "where oldest one get *)
(* pushed away" (moving_window.h).                                         *)
KeepsLatest == RateWindow!Spec /\ ThresholdWindow!Spec /\ TimeWindow!Spec

(* The driver may take up figures before the GC thread has stored those of *)
(* the cycle the driver has waited for, and one figure of one cycle with   *)
(* another of the next; but it never gets any that is older than the cycle *)
(* before (doCollection, cycleRunner).                                     *)
AtMostOneBehind ==
    /\ driverPc = "poll" => lastCycleHeapUsage >= lastCycleID
    /\ driverPc \in {"live", "poll"} /\ triggerThresholdSamples.entryCount > 0 =>
          LET taken == Entries(triggerThresholdSamples)
          IN  taken[Len(taken)] >= lastCycleID

(* "complete count > start count = must not happen", and what a reader of  *)
(* both concludes from them: they differ by one exactly while the GC       *)
(* thread is in a cycle.  The comment in gc.h says no more than this; a    *)
(* caller of gc_start_cycle may find its own cycle not yet counted, but    *)
(* every earlier one.                                                      *)
CountsTellProgress ==
    /\ stats.completed <= stats.started /\ stats.started <= stats.completed + 1
    /\ stats.started = stats.completed <=> gcPc \in {"idle", "peak", "live", "time"}
    /\ stats.completed <= cycleID /\ cycleID <= stats.completed + 1

(* While the driver waits, the pace it sets only ever slows down, and a    *)
(* mutator sleeps 10 milliseconds at the most: clock_nanosleep takes no    *)
(* second or more in tv_nsec (gc_on_preallocate).                          *)
PaceIsCapped ==
    [][/\ pacingMicrosec' \in 0 .. 10000
       /\ pacingMicrosec' # 0 => pacingMicrosec' >= pacingMicrosec]_pacingMicrosec
=============================================================================
