-------------------------- MODULE StatisticsProofs --------------------------
(***************************************************************************)
(* What is proved of Statistics and of its moving windows, for any size of *)
(* them and any number of cycles: what the windows hold, what the rate is, *)
(* how far the driver can be behind, what the counts of cycles tell, and   *)
(* how the pace goes.                                                      *)
(***************************************************************************)
EXTENDS Statistics, SumLemmas, SequenceTheorems

(* For every size and every kind of entry: a moving window holds the       *)
(* latest entries appended to it, in their order, and nothing else.        *)
Latest(max, s) == IF Len(s) > max THEN Tail(s) ELSE s

(* An index at most one round too far is brought back by that round. *)
LEMMA WrapsOnce ==
    ASSUME NEW n \in Nat \ {0}, NEW a \in 0 .. 2 * n - 1
    PROVE  a % n = IF a < n THEN a ELSE a - n
  OBVIOUS

LEMMA NewIsWindow ==
    ASSUME NEW max \in Nat \ {0}, NEW Entry
    PROVE  /\ MovingWindowNew(max) \in Window(max, Entry)
           /\ Entries(MovingWindowNew(max)) = <<>>
  BY DEF MovingWindowNew, Window, Entries

(* What is known of the fields of a window. *)
LEMMA WindowFields ==
    ASSUME NEW max \in Nat \ {0}, NEW Entry, NEW w \in Window(max, Entry)
    PROVE  /\ w.nextWindowIndex \in 0 .. max - 1 /\ w.entryCount \in 0 .. max
           /\ w.maxEntryCount = max
           /\ w.data \in [0 .. max - 1 -> Entry \union {Unset}]
           /\ w.entryCount < max => w.nextWindowIndex = w.entryCount
           /\ \A i \in 0 .. w.entryCount - 1 : w.data[i] \in Entry
  BY DEF Window

(* What append does, field by field. *)
LEMMA AppendFields ==
    ASSUME NEW max \in Nat \ {0}, NEW Entry, NEW w \in Window(max, Entry), NEW e
    PROVE  /\ WindowAppend(w, e).maxEntryCount = max
           /\ WindowAppend(w, e).nextWindowIndex =
                 IF w.nextWindowIndex + 1 = max THEN 0 ELSE w.nextWindowIndex + 1
           /\ WindowAppend(w, e).entryCount =
                 IF w.entryCount < max THEN w.entryCount + 1 ELSE max
           /\ WindowAppend(w, e).data = [w.data EXCEPT ![w.nextWindowIndex] = e]
<1>1. /\ w.nextWindowIndex \in 0 .. max - 1 /\ w.entryCount \in 0 .. max
      /\ w.maxEntryCount = max
  BY WindowFields
<1>2. (w.nextWindowIndex + 1) % max =
        IF w.nextWindowIndex + 1 < max THEN w.nextWindowIndex + 1
        ELSE w.nextWindowIndex + 1 - max
  <2> DEFINE a == w.nextWindowIndex + 1
  <2>1. a \in 0 .. 2 * max - 1
    BY <1>1
  <2> HIDE DEF a
  <2>2. a % max = IF a < max THEN a ELSE a - max
    BY <2>1, WrapsOnce
  <2> QED
    BY <1>1, <2>2 DEF a
<1> QED
  BY <1>1, <1>2 DEF WindowAppend

(* The oldest entry is the first ever while the ring fills up, and then    *)
(* the one that the next append overwrites.                                *)
LEMMA StartIndexIs ==
    ASSUME NEW max \in Nat \ {0}, NEW Entry, NEW w \in Window(max, Entry)
    PROVE  StartIndex(w) = IF w.entryCount < max THEN 0 ELSE w.nextWindowIndex
  BY DEF StartIndex, Window

(* Append keeps the window a window, whatever is in it. *)
LEMMA AppendIsWindow ==
    ASSUME NEW max \in Nat \ {0}, NEW Entry, NEW w \in Window(max, Entry), NEW e \in Entry
    PROVE  WindowAppend(w, e) \in Window(max, Entry)
<1> DEFINE v == WindowAppend(w, e)
<1>1. /\ w.nextWindowIndex \in 0 .. max - 1 /\ w.entryCount \in 0 .. max
      /\ w.data \in [0 .. max - 1 -> Entry \union {Unset}]
      /\ w.entryCount < max => w.nextWindowIndex = w.entryCount
      /\ \A i \in 0 .. w.entryCount - 1 : w.data[i] \in Entry
  BY WindowFields
<1>2. /\ v.maxEntryCount = max
      /\ v.nextWindowIndex =
            IF w.nextWindowIndex + 1 = max THEN 0 ELSE w.nextWindowIndex + 1
      /\ v.entryCount = IF w.entryCount < max THEN w.entryCount + 1 ELSE max
      /\ v.data = [w.data EXCEPT ![w.nextWindowIndex] = e]
  BY AppendFields
<1>3. v = [nextWindowIndex |-> v.nextWindowIndex, entryCount |-> v.entryCount,
           maxEntryCount |-> v.maxEntryCount, data |-> v.data]
  BY DEF WindowAppend
<1> HIDE DEF v
<1>4. v.nextWindowIndex \in 0 .. max - 1 /\ v.entryCount \in 0 .. max
  BY <1>1, <1>2
<1>5. v.data \in [0 .. max - 1 -> Entry \union {Unset}]
  BY <1>1, <1>2
<1>6. v.entryCount < max => v.nextWindowIndex = v.entryCount
  BY <1>1, <1>2
<1>7. ASSUME NEW i \in 0 .. v.entryCount - 1 PROVE v.data[i] \in Entry
  <2>1. CASE i = w.nextWindowIndex
    BY <1>1, <1>2, <2>1
  <2>2. CASE i # w.nextWindowIndex
    <3>1. i \in 0 .. w.entryCount - 1 /\ i \in 0 .. max - 1
      BY <1>1, <1>2, <2>2
    <3> QED
      BY <1>1, <1>2, <2>2, <3>1
  <2> QED
    BY <2>1, <2>2
<1>8. v \in Window(max, Entry)
  BY <1>2, <1>3, <1>4, <1>5, <1>6, <1>7 DEF Window
<1> QED
  BY <1>8 DEF v

(* An iterator finds as many entries as are counted, all of them appended  *)
(* ones.                                                                   *)
LEMMA EntriesOfWindow ==
    ASSUME NEW max \in Nat \ {0}, NEW Entry, NEW w \in Window(max, Entry)
    PROVE  Entries(w) \in Seq(Entry) /\ Len(Entries(w)) = w.entryCount
<1>1. /\ w.nextWindowIndex \in 0 .. max - 1 /\ w.entryCount \in 0 .. max
      /\ w.maxEntryCount = max
      /\ w.entryCount < max => w.nextWindowIndex = w.entryCount
      /\ \A i \in 0 .. w.entryCount - 1 : w.data[i] \in Entry
  BY WindowFields
<1>2. StartIndex(w) = IF w.entryCount < max THEN 0 ELSE w.nextWindowIndex
  BY StartIndexIs
<1>3. ASSUME NEW n \in 0 .. w.entryCount - 1 PROVE EntryAfter(w, n) \in Entry
  <2> DEFINE a == StartIndex(w) + n
  <2>1. a \in 0 .. 2 * max - 1
    BY <1>1, <1>2
  <2>2. w.entryCount < max => a \in 0 .. w.entryCount - 1
    BY <1>1, <1>2
  <2> HIDE DEF a
  <2>3. a % max = IF a < max THEN a ELSE a - max
    BY <2>1, WrapsOnce
  <2>4. a % max \in 0 .. w.entryCount - 1
    BY <1>1, <2>1, <2>2, <2>3
  <2> QED
    BY <1>1, <2>4 DEF EntryAfter, a
<1>4. Entries(w) \in [1 .. w.entryCount -> Entry]
  BY <1>1, <1>3 DEF Entries
<1> QED
  BY <1>1, <1>4

(* A moving window holds the latest entries appended, the oldest first: an *)
(* iterator finds what it found before, without the oldest if the window   *)
(* was full, and then the new entry (moving_window_append, _next).         *)
THEOREM WindowHoldsLatest ==
    ASSUME NEW max \in Nat \ {0}, NEW Entry, NEW w \in Window(max, Entry), NEW e \in Entry
    PROVE  Entries(WindowAppend(w, e)) = Latest(max, Append(Entries(w), e))
<1> DEFINE v == WindowAppend(w, e)
           old == Entries(w)
           s == Append(old, e)
           index == w.nextWindowIndex
           count == w.entryCount
           At(n) == IF n < max THEN n ELSE n - max
<1>1. /\ index \in 0 .. max - 1 /\ count \in 0 .. max
      /\ w.maxEntryCount = max
      /\ w.data \in [0 .. max - 1 -> Entry \union {Unset}]
      /\ count < max => index = count
  BY WindowFields
<1>2. /\ v.maxEntryCount = max
      /\ v.nextWindowIndex = IF index + 1 = max THEN 0 ELSE index + 1
      /\ v.entryCount = IF count < max THEN count + 1 ELSE max
      /\ v.data = [w.data EXCEPT ![index] = e]
  BY AppendFields
<1>3. StartIndex(w) = IF count < max THEN 0 ELSE index
  BY StartIndexIs
<1>4. StartIndex(v) = IF count + 1 < max THEN 0
                      ELSE IF index + 1 = max THEN 0 ELSE index + 1
  <2>1. v \in Window(max, Entry)
    BY AppendIsWindow
  <2>2. StartIndex(v) = IF v.entryCount < max THEN 0 ELSE v.nextWindowIndex
    BY <2>1, StartIndexIs
  <2> HIDE DEF v
  <2> QED
    BY <1>1, <1>2, <2>2
<1>5. ASSUME NEW n \in 0 .. max - 1
      PROVE  EntryAfter(w, n) = w.data[At(StartIndex(w) + n)]
  <2>1. StartIndex(w) \in 0 .. max - 1
    BY <1>1, <1>3
  <2> DEFINE a == StartIndex(w) + n
  <2>2. a \in 0 .. 2 * max - 1
    BY <2>1
  <2> HIDE DEF a
  <2>3. a % max = At(a)
    BY <2>2, WrapsOnce
  <2> HIDE DEF At
  <2> QED
    BY <1>1, <2>3 DEF EntryAfter, a
<1>6. ASSUME NEW n \in 0 .. max - 1
      PROVE  EntryAfter(v, n) = v.data[At(StartIndex(v) + n)]
  <2>1. StartIndex(v) \in 0 .. max - 1
    BY <1>1, <1>4
  <2> HIDE DEF v
  <2> DEFINE a == StartIndex(v) + n
  <2>2. a \in 0 .. 2 * max - 1
    BY <2>1
  <2> HIDE DEF a
  <2>3. a % max = At(a)
    BY <2>2, WrapsOnce
  <2> HIDE DEF At
  <2> QED
    BY <1>2, <2>3 DEF EntryAfter, a
<1>7. /\ old = [i \in 1 .. count |-> EntryAfter(w, i - 1)]
      /\ Entries(v) = [i \in 1 .. v.entryCount |-> EntryAfter(v, i - 1)]
  BY DEF Entries
<1> HIDE DEF v, old, index, count
<1>8. \A i \in 1 .. count : old[i] = w.data[At(StartIndex(w) + (i - 1))]
  BY <1>1, <1>5, <1>7
<1>9. old \in Seq(Entry \union {Unset}) /\ Len(old) = count
  <2>1. ASSUME NEW i \in 1 .. count PROVE old[i] \in Entry \union {Unset}
    BY <1>1, <1>3, <1>8, SMTT(60)
  <2>2. old \in [1 .. count -> Entry \union {Unset}] /\ count \in Nat
    BY <1>1, <1>7, <2>1
  <2> QED
    BY <2>2
<1>s. /\ s \in Seq(Entry \union {Unset}) /\ Len(s) = count + 1 /\ s[count + 1] = e
      /\ \A i \in 1 .. count : s[i] = old[i]
  BY <1>1, <1>9
<1> HIDE DEF s
<1>10. ASSUME count < max PROVE Entries(v) = Latest(max, s)
  <2>1. Latest(max, s) = s
    BY <1>1, <1>s, <1>10 DEF Latest
  <2>2. StartIndex(w) = 0 /\ StartIndex(v) = 0 /\ index = count
    BY <1>1, <1>3, <1>4, <1>10
  <2>3. ASSUME NEW i \in 1 .. count + 1 PROVE EntryAfter(v, i - 1) = s[i]
    <3>1. EntryAfter(v, i - 1) = v.data[i - 1]
      BY <1>1, <1>6, <1>10, <2>2
    <3>2. CASE i = count + 1
      BY <1>1, <1>2, <1>s, <2>2, <3>1, <3>2
    <3>3. CASE i \in 1 .. count
      BY <1>1, <1>2, <1>8, <1>10, <1>s, <2>2, <3>1, <3>3
    <3> QED
      BY <1>1, <3>2, <3>3
  <2>4. Entries(v) = s
    BY <1>1, <1>2, <1>7, <1>10, <1>s, <2>3
  <2> QED
    BY <2>1, <2>4
<1>11. ASSUME count = max PROVE Entries(v) = Latest(max, s)
  <2>1. Latest(max, s) = Tail(s) /\ Tail(s) = [i \in 1 .. max |-> s[i + 1]]
    <3>1. Len(s) = max + 1 /\ s # <<>>
      BY <1>s, <1>11
    <3>2. /\ Tail(s) \in Seq(Entry \union {Unset}) /\ Len(Tail(s)) = max
          /\ \A i \in 1 .. max : Tail(s)[i] = s[i + 1]
      BY <1>s, <3>1, HeadTailProperties
    <3>3. Tail(s) \in [1 .. max -> Entry \union {Unset}]
      BY <3>2, LenProperties
    <3>4. Latest(max, s) = Tail(s)
      BY <3>1 DEF Latest
    <3> DEFINE t == Tail(s)
    <3> HIDE DEF t
    <3>5. t = [i \in 1 .. max |-> s[i + 1]]
      BY <3>2, <3>3 DEF t
    <3> QED
      BY <3>4, <3>5 DEF t
  <2>2. /\ StartIndex(w) = index
        /\ StartIndex(v) = IF index + 1 = max THEN 0 ELSE index + 1
    BY <1>1, <1>3, <1>4, <1>11
  <2>3. ASSUME NEW i \in 1 .. max PROVE EntryAfter(v, i - 1) = s[i + 1]
    <3>1. At(StartIndex(v) + (i - 1)) = At(index + i)
      BY <1>1, <2>2
    <3>2. EntryAfter(v, i - 1) = v.data[At(index + i)]
      BY <1>6, <3>1
    <3>3. CASE i = max
      BY <1>1, <1>2, <1>11, <1>s, <3>2, <3>3
    <3>4. CASE i < max
      <4>1. At(index + i) \in (0 .. max - 1) \ {index}
        BY <1>1, <3>4
      <4>2. s[i + 1] = w.data[At(index + i)]
        <5>1. i + 1 \in 1 .. count
          BY <1>1, <1>11, <3>4
        <5>2. s[i + 1] = w.data[At(StartIndex(w) + (i + 1 - 1))]
          BY <1>8, <1>s, <5>1
        <5>3. StartIndex(w) + (i + 1 - 1) = index + i
          BY <1>1, <2>2
        <5> HIDE DEF At
        <5> QED
          BY <5>2, <5>3
      <4> QED
        BY <1>1, <1>2, <3>2, <4>1, <4>2
    <3> QED
      BY <3>3, <3>4
  <2>4. Entries(v) = Tail(s)
    BY <1>1, <1>2, <1>7, <1>11, <2>1, <2>3, SMTT(60)
  <2> QED
    BY <2>1, <2>4
<1>12. Entries(v) = Latest(max, s)
  BY <1>1, <1>10, <1>11
<1> QED
  BY <1>12 DEF v, s, old

-----------------------------------------------------------------------------
(* The counter only grows, and the statistics thread follows it. *)
RateInv ==
    /\ lifetimeBytesAllocated \in 0 .. MaxBytes
    /\ current \in 0 .. lifetimeBytesAllocated
    /\ lastLifetimeBytes \in 0 .. current
    /\ statPc \in {"read", "append"}
    /\ allocRateSamples \in Window(AllocRateCount, 0 .. MaxBytes)

(* Where the GC thread is tells which cycle each of its figures is of. *)
FigureInv ==
    /\ cycleID \in CycleNumber /\ cycleWasInvoked \in BOOLEAN
    /\ gcPc \in {"idle", "cycle", "stats", "peak", "live", "time"}
    /\ gcPc = "cycle" => cycleWasInvoked
    /\ cycleWasInvoked => cycleID < MaxCycles
    /\ gcPc \in {"stats", "peak", "live", "time"} => cycleID > 0
    /\ bytesUsedRightBeforeSweeping =
          IF gcPc \in {"stats", "peak"} THEN cycleID - 1 ELSE cycleID
    /\ liveSetSize =
          IF gcPc \in {"stats", "peak", "live"} THEN cycleID - 1 ELSE cycleID
    /\ cycleTimeSamples \in Window(CycleTimeCount, CycleNumber)

(* ... and what the counts are. *)
CountInv ==
    /\ cycleStats = stats
    /\ stats = [started |-> IF gcPc = "cycle" THEN cycleID + 1 ELSE cycleID,
                completed |-> IF gcPc = "stats" THEN cycleID - 1 ELSE cycleID]

(* The driver has waited for a cycle when it takes up figures. *)
Taken(w) == Entries(w)[w.entryCount]

DriverInv ==
    /\ driverPc \in {"poll", "wait", "asleep", "peak", "live"}
    /\ lastCycleID \in 0 .. cycleID
    /\ driverPc \in {"peak", "live"} => lastCycleID < cycleID
    /\ triggerThresholdSamples \in Window(ThresholdCount, CycleNumber)
    /\ driverPc \in {"live", "poll"} /\ triggerThresholdSamples.entryCount > 0 =>
          Taken(triggerThresholdSamples) >= lastCycleID
    /\ lastCycleHeapUsage \in CycleNumber
    /\ driverPc = "poll" => lastCycleHeapUsage >= lastCycleID

StatInv == RateInv /\ FigureInv /\ CountInv /\ DriverInv

(* The delays doCollection goes through, in nanoseconds. *)
Longest == 10000000
Delay(d) ==
    /\ d \in Int /\ d >= FirstDelay
    /\ d <= 5000000 \/ d = Longest

Microsec == 0 .. 10000

(* The pace is the delay, in microseconds. *)
PaceInv ==
    /\ Delay(delay)
    /\ pacingMicrosec \in {0, delay \div 1000}

-----------------------------------------------------------------------------
(* The newest entry is the one that has just been appended. *)
LEMMA NewestIsTaken ==
    ASSUME NEW max \in Nat \ {0}, NEW Entry, NEW w \in Window(max, Entry), NEW e \in Entry
    PROVE  /\ WindowAppend(w, e).entryCount > 0
           /\ Taken(WindowAppend(w, e)) = e
<1> DEFINE v == WindowAppend(w, e)
           s == Append(Entries(w), e)
<1>1. /\ v \in Window(max, Entry)
      /\ Entries(v) = Latest(max, s)
  BY AppendIsWindow, WindowHoldsLatest
<1>2. /\ v.entryCount = IF w.entryCount < max THEN w.entryCount + 1 ELSE max
      /\ w.entryCount \in 0 .. max
  <2>1. /\ v.maxEntryCount = max
        /\ v.nextWindowIndex =
              IF w.nextWindowIndex + 1 = max THEN 0 ELSE w.nextWindowIndex + 1
        /\ v.entryCount = IF w.entryCount < max THEN w.entryCount + 1 ELSE max
        /\ v.data = [w.data EXCEPT ![w.nextWindowIndex] = e]
    BY AppendFields
  <2>2. w.entryCount \in 0 .. max
    BY WindowFields
  <2> QED
    BY <2>1, <2>2
<1>3. Entries(w) \in Seq(Entry) /\ Len(Entries(w)) = w.entryCount
  BY EntriesOfWindow
<1>4. s \in Seq(Entry) /\ Len(s) = w.entryCount + 1 /\ s[Len(s)] = e
  BY <1>3, AppendProperties
<1> HIDE DEF v, s
<1>5. CASE w.entryCount < max
  BY <1>1, <1>2, <1>4, <1>5 DEF Latest, Taken, v
<1>6. CASE w.entryCount = max
  <2>1. Entries(v) = Tail(s) /\ v.entryCount = max
    BY <1>1, <1>2, <1>4, <1>6 DEF Latest
  <2>2. Tail(s)[max] = s[max + 1]
    BY <1>4, <1>6, HeadTailProperties
  <2> QED
    BY <1>4, <1>6, <2>1, <2>2 DEF Taken, v
<1> QED
  BY <1>2, <1>5, <1>6

LEMMA StatInit == Init => StatInv /\ PaceInv
<1> SUFFICES ASSUME Init PROVE StatInv /\ PaceInv
  OBVIOUS
<1>1. ASSUME NEW max \in Nat \ {0}, NEW Entry
      PROVE  /\ MovingWindowNew(max) \in Window(max, Entry)
             /\ MovingWindowNew(max).entryCount = 0
  <2>1. MovingWindowNew(max) \in Window(max, Entry)
    BY NewIsWindow
  <2> QED
    BY <2>1 DEF MovingWindowNew
<1>2. /\ lifetimeBytesAllocated = 0 /\ current = 0 /\ lastLifetimeBytes = 0
      /\ statPc = "read" /\ allocRateSamples = MovingWindowNew(AllocRateCount)
      /\ cycleID = 0 /\ cycleWasInvoked = FALSE /\ gcPc = "idle"
      /\ bytesUsedRightBeforeSweeping = 0 /\ liveSetSize = 0
      /\ cycleTimeSamples = MovingWindowNew(CycleTimeCount)
      /\ driverPc = "poll" /\ lastCycleID = 0 /\ lastCycleHeapUsage = 0
      /\ triggerThresholdSamples = MovingWindowNew(ThresholdCount)
      /\ delay = FirstDelay /\ pacingMicrosec = 0
  BY Zenon DEF Init
<1>3. /\ stats = [started |-> 0, completed |-> 0] /\ cycleStats = stats
  BY Zenon DEF Init
<1>4. RateInv
  <2>1. allocRateSamples \in Window(AllocRateCount, 0 .. MaxBytes)
    BY <1>1, <1>2, CountAssumption, Zenon
  <2> QED
    BY <1>2, <2>1, CountAssumption DEF RateInv
<1>5. FigureInv
  <2>1. cycleTimeSamples \in Window(CycleTimeCount, CycleNumber)
    BY <1>1, <1>2, CountAssumption, Zenon
  <2>2. cycleWasInvoked \in BOOLEAN /\ (cycleWasInvoked => cycleID < MaxCycles)
    BY <1>2, Zenon
  <2> QED
    BY <1>2, <2>1, <2>2, CountAssumption DEF FigureInv, CycleNumber
<1>6. CountInv
  BY <1>2, <1>3, Zenon DEF CountInv
<1>7. DriverInv
  BY <1>1, <1>2, CountAssumption DEF DriverInv, CycleNumber
<1>8. PaceInv
  BY <1>2, SMT DEF PaceInv, Delay, FirstDelay
<1> QED
  BY <1>4, <1>5, <1>6, <1>7, <1>8 DEF StatInv

(* The statistics thread and the allocating threads. *)
LEMMA RateStep == StatInv /\ [Next]_vars => RateInv'
<1> SUFFICES ASSUME RateInv, [Next]_vars PROVE RateInv'
  BY DEF StatInv
<1> USE CountAssumption DEF RateInv
<1>1. ASSUME NEW n \in Amount, Account(n) PROVE RateInv'
  BY <1>1 DEF Account, rateVars
<1>2. CASE ReadLifetimeBytes
  BY <1>2 DEF ReadLifetimeBytes
<1>3. CASE AppendRate
  <2>1. current - lastLifetimeBytes \in 0 .. MaxBytes
    OBVIOUS
  <2>2. allocRateSamples' \in Window(AllocRateCount, 0 .. MaxBytes)
    BY <1>3, <2>1, AppendIsWindow DEF AppendRate
  <2> QED
    BY <1>3, <2>2 DEF AppendRate
<1>4. CASE UNCHANGED <<lifetimeBytesAllocated, rateVars>>
  BY <1>4 DEF rateVars
<1>5. CASE Invoke \/ GcStep \/ DriverStep \/ UNCHANGED vars
  BY <1>4, <1>5
     DEF Invoke, GcStep, BeginCycle, AnnounceCycle, StoreStats, StorePeak, StoreLiveSet,
         StoreTime, DriverStep, Collect, AwaitCycle, Pace, CollectDone, TakePeak,
         TakeLiveSet, vars
<1> QED
  BY <1>1, <1>2, <1>3, <1>5 DEF Next, StatCollectorStep

(* The GC thread, and those who ask for cycles. *)
LEMMA GcThreadStep == StatInv /\ [Next]_vars => (FigureInv /\ CountInv)'
<1> SUFFICES ASSUME FigureInv, CountInv, [Next]_vars PROVE (FigureInv /\ CountInv)'
  BY DEF StatInv
<1> USE CountAssumption DEF FigureInv, CountInv, CycleNumber, GoGc
<1>1. CASE Invoke
  BY <1>1 DEF Invoke, gcVars, figureVars
<1>2. CASE BeginCycle
  BY <1>2 DEF BeginCycle, invokeVars, figureVars
<1>3. CASE AnnounceCycle
  <2>1. /\ gcPc = "cycle" /\ gcPc' = "stats" /\ cycleID' = cycleID + 1
        /\ cycleWasInvoked' = FALSE /\ cycleID < MaxCycles
        /\ UNCHANGED <<stats, cycleStats, figureVars>>
    BY <1>3 DEF AnnounceCycle
  <2>2. (cycleWasInvoked \in BOOLEAN /\ (cycleWasInvoked => cycleID < MaxCycles))'
    BY <2>1, Zenon
  <2>3. FigureInv'
    BY <2>1, <2>2 DEF figureVars
  <2>4. CountInv'
    BY <2>1
  <2> QED
    BY <2>3, <2>4
<1>4. CASE StoreStats
  BY <1>4 DEF StoreStats, invokeVars, figureVars
<1>5. CASE StorePeak
  BY <1>5 DEF StorePeak, invokeVars
<1>6. CASE StoreLiveSet
  BY <1>6 DEF StoreLiveSet, invokeVars
<1>7. CASE StoreTime
  <2>1. cycleTimeSamples' \in Window(CycleTimeCount, CycleNumber)
    BY <1>7, AppendIsWindow DEF StoreTime
  <2> QED
    BY <1>7, <2>1 DEF StoreTime, invokeVars
<1>8. CASE Collect
  BY <1>8 DEF Collect, gcVars, figureVars
<1>9. CASE UNCHANGED <<invokeVars, gcVars>>
  BY <1>9 DEF invokeVars, gcVars, figureVars
<1>10. CASE \/ \E n \in Amount : Account(n)
            \/ StatCollectorStep \/ AwaitCycle \/ Pace \/ CollectDone
            \/ TakePeak \/ TakeLiveSet \/ UNCHANGED vars
  BY <1>9, <1>10
     DEF Account, StatCollectorStep, ReadLifetimeBytes, AppendRate, AwaitCycle, Pace,
         CollectDone, TakePeak, TakeLiveSet, vars
<1> QED
  BY <1>1, <1>2, <1>3, <1>4, <1>5, <1>6, <1>7, <1>8, <1>10
     DEF Next, GcStep, DriverStep

(* The driver: a cycle that it has waited for has ended, so what it takes  *)
(* is of that cycle or the one before.                                     *)
LEMMA DriverThreadStep == StatInv /\ [Next]_vars => DriverInv'
<1> SUFFICES ASSUME FigureInv, DriverInv, [Next]_vars PROVE DriverInv'
  BY DEF StatInv
<1> USE CountAssumption DEF DriverInv, CycleNumber, Drive
<1>f. /\ cycleID \in CycleNumber
      /\ bytesUsedRightBeforeSweeping \in cycleID - 1 .. cycleID
      /\ bytesUsedRightBeforeSweeping \in CycleNumber
      /\ liveSetSize \in cycleID - 1 .. cycleID /\ liveSetSize \in CycleNumber
  BY DEF FigureInv
<1>1. CASE Collect
  BY <1>f, <1>1 DEF Collect
<1>2. CASE AwaitCycle
  BY <1>f, <1>2 DEF AwaitCycle, invokeVars
<1>3. CASE Pace
  BY <1>f, <1>3 DEF Pace, invokeVars
<1>4. CASE CollectDone
  BY <1>f, <1>4 DEF CollectDone, invokeVars
<1>5. CASE TakePeak
  <2>1. /\ triggerThresholdSamples' \in Window(ThresholdCount, CycleNumber)
        /\ Taken(triggerThresholdSamples') = bytesUsedRightBeforeSweeping
    BY <1>f, <1>5, AppendIsWindow, NewestIsTaken DEF TakePeak
  <2> QED
    BY <1>f, <1>5, <2>1 DEF TakePeak, invokeVars
<1>6. CASE TakeLiveSet
  BY <1>f, <1>6 DEF TakeLiveSet, invokeVars
<1>7. CASE AnnounceCycle
  BY <1>f, <1>7 DEF AnnounceCycle, driverVars
<1>8. CASE UNCHANGED <<cycleID, driverVars>>
  BY <1>8 DEF driverVars
<1>9. CASE \/ \E n \in Amount : Account(n)
           \/ Invoke \/ StatCollectorStep
           \/ BeginCycle \/ StoreStats \/ StorePeak \/ StoreLiveSet \/ StoreTime
           \/ UNCHANGED vars
  BY <1>8, <1>9
     DEF Account, Invoke, StatCollectorStep, ReadLifetimeBytes, AppendRate, BeginCycle,
         StoreStats, StorePeak, StoreLiveSet, StoreTime, invokeVars, vars
<1> QED
  BY <1>1, <1>2, <1>3, <1>4, <1>5, <1>6, <1>7, <1>9 DEF Next, GcStep, DriverStep

LEMMA StatInvariant == Spec => []StatInv
<1>1. StatInv /\ [Next]_vars => StatInv'
  BY RateStep, GcThreadStep, DriverThreadStep DEF StatInv
<1> QED
  BY <1>1, StatInit, PTL DEF Spec

-----------------------------------------------------------------------------
(* AtMostOneBehind: whenever the driver takes up figures, and however many *)
(* cycles others ask for meanwhile, what it gets is of the cycle it has    *)
(* waited for, of the one before, or newer (doCollection, cycleRunner).    *)
THEOREM NeverTwoBehind == Spec => []AtMostOneBehind
<1>1. StatInv => AtMostOneBehind
  <2> SUFFICES ASSUME StatInv PROVE AtMostOneBehind
    OBVIOUS
  <2> DEFINE w == triggerThresholdSamples
  <2>1. Len(Entries(w)) = w.entryCount
    BY EntriesOfWindow, CountAssumption DEF StatInv, DriverInv
  <2> QED
    BY <2>1 DEF StatInv, DriverInv, AtMostOneBehind, Taken
<1> QED
  BY <1>1, StatInvariant, PTL

(* CountsTellProgress: the two counts of cycles that gc_get_stats copies   *)
(* differ by one exactly while the GC thread is in a cycle, and no finished*)
(* cycle but the last can be missing from them.                            *)
THEOREM CountsCorrect == Spec => []CountsTellProgress
<1>1. StatInv => CountsTellProgress
  BY DEF StatInv, FigureInv, CountInv, CountsTellProgress, CycleNumber
<1> QED
  BY <1>1, StatInvariant, PTL

-----------------------------------------------------------------------------
(* The window of rates holds the differences between the values that the   *)
(* counter had at the latest samples, so that they add up to the           *)
(* difference between the newest and the oldest of those.                  *)
Differences(m, w) ==
    /\ m \in Seq(Nat) /\ Len(m) = w.entryCount + 1
    /\ \A i \in 1 .. w.entryCount : m[i] <= m[i + 1] /\ Entries(w)[i] = m[i + 1] - m[i]

MarkInv ==
    /\ Differences(marks, allocRateSamples)
    /\ marks[Len(marks)] = lastLifetimeBytes
    /\ LET n == allocRateSamples.entryCount
       IN  averageAllocRatePerSecond =
               IF n = 0 THEN 0 ELSE ((marks[n + 1] - marks[1]) * Hz) \div n

LEMMA DifferencesAdded ==
    ASSUME NEW max \in Nat \ {0}, NEW Entry \in SUBSET Nat, NEW w \in Window(max, Entry),
           NEW m, Differences(m, w)
    PROVE  SumFunction(Entries(w)) = m[w.entryCount + 1] - m[1]
<1> DEFINE n == w.entryCount
           f == Entries(w)
<1>1. n \in Nat
  BY WindowFields
<1>2. DOMAIN f = 1 .. n
  BY DEF Entries
<1>3. /\ \A i \in 1 .. n + 1 : m[i] \in Nat
      /\ \A i \in 1 .. n : m[i] <= m[i + 1] /\ f[i] = m[i + 1] - m[i]
  BY <1>1 DEF Differences
<1> HIDE DEF n, f
<1>4. SumFunctionOnSet(f, 1 .. n) = m[n + 1] - m[1]
  BY <1>1, <1>3, SumOfDifferences
<1> QED
  BY <1>2, <1>4 DEF SumFunction, n, f

LEMMA NextDifference ==
    ASSUME NEW max \in Nat \ {0}, NEW Entry \in SUBSET Nat, NEW w \in Window(max, Entry),
           NEW m, Differences(m, w), NEW c \in Nat, m[Len(m)] <= c,
           NEW e \in Entry, e = c - m[Len(m)]
    PROVE  LET k == Newest(Append(m, c), max + 1)
           IN  Differences(k, WindowAppend(w, e)) /\ k[Len(k)] = c
<1> DEFINE v == WindowAppend(w, e)
           n == w.entryCount
           a == Append(m, c)
           b == Append(Entries(w), e)
           k == Newest(a, max + 1)
<1>0. /\ n \in 0 .. max /\ n \in Nat /\ m \in Seq(Nat) /\ Len(m) = n + 1
      /\ Entries(w) \in Seq(Entry) /\ Len(Entries(w)) = n
  BY WindowFields, EntriesOfWindow DEF Differences
<1>a. v.entryCount = IF n < max THEN n + 1 ELSE max
  <2>1. /\ v.maxEntryCount = max
        /\ v.nextWindowIndex =
              IF w.nextWindowIndex + 1 = max THEN 0 ELSE w.nextWindowIndex + 1
        /\ v.entryCount = IF n < max THEN n + 1 ELSE max
        /\ v.data = [w.data EXCEPT ![w.nextWindowIndex] = e]
    BY AppendFields
  <2> QED
    BY <2>1
<1>b. Entries(v) = Latest(max, b)
  BY WindowHoldsLatest
<1>2. /\ a \in Seq(Nat) /\ Len(a) = n + 2 /\ a[n + 2] = c /\ \A i \in 1 .. n + 1 : a[i] = m[i]
      /\ b \in Seq(Entry) /\ Len(b) = n + 1 /\ b[n + 1] = e
      /\ \A i \in 1 .. n : b[i] = Entries(w)[i]
  BY <1>0, AppendProperties, SMTT(60)
<1>3. \A i \in 1 .. n + 1 : a[i] <= a[i + 1] /\ b[i] = a[i + 1] - a[i]
  <2> TAKE i \in 1 .. n + 1
  <2> HIDE DEF a, b
  <2>1. CASE i = n + 1
    <3>1. n + 1 \in 1 .. n + 1 /\ i + 1 = n + 2
      BY <1>0, <2>1
    <3>2. a[i] = m[n + 1] /\ a[i + 1] = c /\ b[i] = e
      BY <1>2, <2>1, <3>1
    <3>3. m[n + 1] = m[Len(m)]
      BY <1>0
    <3> QED
      BY <3>2, <3>3
  <2>2. CASE i # n + 1
    <3> HIDE DEF n
    <3>1. i \in 1 .. n /\ i + 1 \in 1 .. n + 1
      BY <1>0, <2>2
    <3>2. a[i] = m[i] /\ a[i + 1] = m[i + 1] /\ b[i] = Entries(w)[i]
      BY <1>0, <1>2, <3>1
    <3> QED
      BY <3>1, <3>2 DEF Differences, n
  <2> QED
    BY <2>1, <2>2
<1> HIDE DEF a, b, n, v
<1>4. CASE n < max
  <2>1. k = a /\ Entries(v) = b /\ v.entryCount = n + 1
    BY <1>0, <1>a, <1>b, <1>2, <1>4 DEF Newest, Latest
  <2>2. Differences(k, v)
    <3>1. \A i \in 1 .. v.entryCount : k[i] <= k[i + 1] /\ Entries(v)[i] = k[i + 1] - k[i]
      BY <1>3, <2>1, Zenon
    <3>2. k \in Seq(Nat) /\ Len(k) = v.entryCount + 1
      BY <1>0, <1>2, <2>1
    <3> HIDE DEF k
    <3> QED
      BY <3>1, <3>2 DEF Differences
  <2> QED
    BY <1>0, <1>2, <2>1, <2>2 DEF a, v
<1>5. CASE n = max
  <2>1. k = Tail(a) /\ Entries(v) = Tail(b) /\ v.entryCount = n
    BY <1>0, <1>a, <1>b, <1>2, <1>5 DEF Newest, Latest
  <2>2. /\ k \in Seq(Nat) /\ Len(k) = n + 1 /\ \A i \in 1 .. n + 1 : k[i] = a[i + 1]
        /\ \A i \in 1 .. n : Entries(v)[i] = b[i + 1]
    <3>1. a # <<>> /\ b # <<>>
      BY <1>0, <1>2
    <3>2. /\ Tail(a) \in Seq(Nat) /\ Len(Tail(a)) = n + 1
          /\ \A i \in 1 .. n + 1 : Tail(a)[i] = a[i + 1]
      BY <1>0, <1>2, <3>1, HeadTailProperties
    <3>3. \A i \in 1 .. n : Tail(b)[i] = b[i + 1]
      BY <1>0, <1>2, <3>1, HeadTailProperties
    <3> QED
      BY <2>1, <3>2, <3>3
  <2>3. \A i \in 1 .. n : k[i] <= k[i + 1] /\ Entries(v)[i] = k[i + 1] - k[i]
    <3> TAKE i \in 1 .. n
    <3>1. i \in 1 .. n + 1 /\ i + 1 \in 1 .. n + 1
      BY <1>0
    <3>2. k[i] = a[i + 1] /\ k[i + 1] = a[i + 1 + 1] /\ Entries(v)[i] = b[i + 1]
      BY <2>2, <3>1
    <3> HIDE DEF k
    <3> QED
      BY <1>3, <3>1, <3>2
  <2>4. Differences(k, v)
    BY <2>1, <2>2, <2>3 DEF Differences
  <2>5. k[Len(k)] = c
    <3>1. n + 1 \in 1 .. n + 1 /\ n + 1 + 1 = n + 2
      BY <1>0
    <3> HIDE DEF k
    <3> QED
      BY <1>2, <2>2, <3>1, SMTT(60)
  <2> QED
    BY <2>4, <2>5 DEF a, v
<1> QED
  BY <1>0, <1>4, <1>5

LEMMA MarkInit == Init => MarkInv
<1> SUFFICES ASSUME Init PROVE MarkInv
  OBVIOUS
<1>1. /\ allocRateSamples = MovingWindowNew(AllocRateCount) /\ marks = <<0>>
      /\ lastLifetimeBytes = 0 /\ averageAllocRatePerSecond = 0
  BY Zenon DEF Init
<1>2. allocRateSamples.entryCount = 0
  BY <1>1 DEF MovingWindowNew
<1>3. Differences(marks, allocRateSamples)
  BY <1>1, <1>2 DEF Differences
<1> QED
  BY <1>1, <1>2, <1>3 DEF MarkInv

LEMMA MarkStep == StatInv /\ MarkInv /\ [Next]_vars => MarkInv'
<1> SUFFICES ASSUME StatInv, MarkInv, [Next]_vars PROVE MarkInv'
  OBVIOUS
<1>1. CASE AppendRate
  <2>1. /\ current \in Nat /\ lastLifetimeBytes \in Nat /\ lastLifetimeBytes <= current
        /\ current - lastLifetimeBytes \in 0 .. MaxBytes
        /\ allocRateSamples \in Window(AllocRateCount, 0 .. MaxBytes)
    BY CountAssumption DEF StatInv, RateInv
  <2>2. /\ allocRateSamples' = WindowAppend(allocRateSamples, current - lastLifetimeBytes)
        /\ marks' = Newest(Append(marks, current), AllocRateCount + 1)
        /\ lastLifetimeBytes' = current
        /\ averageAllocRatePerSecond' =
              (SumFunction(Entries(allocRateSamples')) * Hz) \div allocRateSamples'.entryCount
    BY <1>1, Zenon DEF AppendRate
  <2> DEFINE Bytes == 0 .. MaxBytes
             rate == current - lastLifetimeBytes
  <2>3. /\ Bytes \in SUBSET Nat /\ rate \in Bytes /\ rate = current - marks[Len(marks)]
        /\ marks[Len(marks)] <= current /\ Differences(marks, allocRateSamples)
    BY <2>1 DEF MarkInv
  <2>4. allocRateSamples \in Window(AllocRateCount, Bytes)
    BY <2>1
  <2>5. allocRateSamples' = WindowAppend(allocRateSamples, rate)
    BY <2>2
  <2> HIDE DEF Bytes, rate
  <2>6. Differences(marks', allocRateSamples') /\ marks'[Len(marks')] = lastLifetimeBytes'
    BY <2>1, <2>2, <2>3, <2>4, <2>5, NextDifference, CountAssumption, SMTT(60)
  <2>7. /\ allocRateSamples' \in Window(AllocRateCount, Bytes)
        /\ allocRateSamples'.entryCount > 0
    BY <2>3, <2>4, <2>5, AppendIsWindow, NewestIsTaken, CountAssumption
  <2> DEFINE n == allocRateSamples'.entryCount
             total == SumFunction(Entries(allocRateSamples'))
  <2>8. total = marks'[n + 1] - marks'[1]
    BY <2>3, <2>6, <2>7, DifferencesAdded, CountAssumption
  <2>9. n # 0 /\ averageAllocRatePerSecond' = (total * Hz) \div n
    BY <2>2, <2>7
  <2> HIDE DEF n, total
  <2>10. averageAllocRatePerSecond' =
            IF n = 0 THEN 0 ELSE ((marks'[n + 1] - marks'[1]) * Hz) \div n
    BY <2>8, <2>9, Zenon
  <2> QED
    BY <2>6, <2>10, Zenon DEF MarkInv, n
<1>2. CASE ~AppendRate
  <2>1. UNCHANGED <<marks, allocRateSamples, lastLifetimeBytes, averageAllocRatePerSecond>>
    BY <1>2
       DEF Next, Account, Invoke, StatCollectorStep, ReadLifetimeBytes, GcStep, BeginCycle,
           AnnounceCycle, StoreStats, StorePeak, StoreLiveSet, StoreTime, DriverStep,
           Collect, AwaitCycle, Pace, CollectDone, TakePeak, TakeLiveSet, rateVars, vars
  <2> QED
    BY <2>1 DEF MarkInv, Differences
<1> QED
  BY <1>1, <1>2

LEMMA MarkInvariant == Spec => []MarkInv
  BY MarkInit, MarkStep, StatInvariant, PTL DEF Spec

(* averageAllocRatePerSecond is what the counter has grown by since the    *)
(* oldest sample of the window, per second: no byte is counted twice or    *)
(* left out, whatever is allocated between the reading of the counter and  *)
(* the storing of the average, and however often the window has gone round *)
(* (collectData, moving_window_append).                                    *)
THEOREM RateExact == Spec => []RateIsAllocated
<1>1. StatInv /\ MarkInv => RateIsAllocated
  <2> SUFFICES ASSUME StatInv, MarkInv PROVE RateIsAllocated
    OBVIOUS
  <2> DEFINE n == allocRateSamples.entryCount
  <2>1. n \in Nat /\ Len(marks) = n + 1
    BY WindowFields, CountAssumption DEF StatInv, RateInv, MarkInv, Differences
  <2>2. averageAllocRatePerSecond =
            IF n = 0 THEN 0 ELSE ((marks[n + 1] - marks[1]) * Hz) \div n
    BY Zenon DEF MarkInv
  <2> HIDE DEF n
  <2>3. Len(marks) - 1 = n
    BY <2>1
  <2> QED
    BY <2>1, <2>2, <2>3 DEF RateIsAllocated
<1> QED
  BY <1>1, StatInvariant, MarkInvariant, PTL

LEMMA RateType ==
    ASSUME NEW d \in Nat, NEW hz \in Nat, NEW n \in Nat \ {0}
    PROVE  (d * hz) \div n \in Nat
<1> DEFINE p == d * hz
<1>1. p \in Nat
  BY SMTT(30)
<1> HIDE DEF p
<1>2. p \div n \in Nat
  BY <1>1, SMTT(30)
<1> QED
  BY <1>2 DEF p

LEMMA Rising ==
    ASSUME NEW m, NEW w, Differences(m, w), w.entryCount \in Nat
    PROVE  m[w.entryCount + 1] - m[1] \in Nat
<1> DEFINE n == w.entryCount
           Bad == {i \in 1 .. n + 1 : m[i] < m[1]}
<1>1. /\ n \in Nat /\ \A i \in 1 .. n + 1 : m[i] \in Nat
      /\ \A i \in 1 .. n : m[i] <= m[i + 1]
  <2>1. n \in Nat /\ m \in Seq(Nat) /\ Len(m) = n + 1 /\ \A i \in 1 .. n : m[i] <= m[i + 1]
    BY DEF Differences
  <2> HIDE DEF n
  <2>2. \A i \in 1 .. n + 1 : m[i] \in Nat
    BY <2>1, ElementOfSeq
  <2> QED
    BY <2>1, <2>2
<1> HIDE DEF n
<1>2. Bad = {}
  <2> SUFFICES ASSUME Bad # {} PROVE FALSE
    OBVIOUS
  <2>1. PICK k \in Bad : \A j \in Bad : k <= j
    <3>1. Bad \in SUBSET (0 .. n + 1) /\ n + 1 \in Nat
      BY <1>1
    <3> HIDE DEF Bad
    <3> QED
      BY <3>1, LeastNumber
  <2>2. k \in 1 .. n + 1 /\ m[k] < m[1] /\ m[1] \in Nat
    BY <1>1
  <2>3. k - 1 \in 1 .. n /\ k - 1 \in 1 .. n + 1 /\ (k - 1) + 1 = k
    BY <1>1, <2>2
  <2>4. m[k - 1] \in Nat /\ m[k - 1] <= m[k] /\ m[k] \in Nat
    BY <1>1, <2>2, <2>3
  <2>5. k - 1 \in Bad
    BY <2>2, <2>3, <2>4
  <2> QED
    BY <2>1, <2>2, <2>5
<1>3. n + 1 \in 1 .. n + 1 /\ 1 \in 1 .. n + 1
  BY <1>1
<1>4. m[n + 1] \in Nat /\ m[1] \in Nat /\ ~(m[n + 1] < m[1])
  BY <1>1, <1>2, <1>3
<1> QED
  BY <1>4 DEF n

(* Every variable keeps its type, and what is in a window's ring beyond    *)
(* the entries that have been written is never taken for one.              *)
THEOREM StatisticsTypes == Spec => []TypeOK
<1>1. StatInv /\ MarkInv => TypeOK
  <2> SUFFICES ASSUME StatInv, MarkInv PROVE TypeOK
    OBVIOUS
  <2> DEFINE n == allocRateSamples.entryCount
             d == marks[n + 1] - marks[1]
  <2>1. n \in Nat
    BY WindowFields, CountAssumption DEF StatInv, RateInv
  <2>2. d \in Nat
    BY <2>1, Rising DEF MarkInv
  <2>3. averageAllocRatePerSecond = IF n = 0 THEN 0 ELSE (d * Hz) \div n
    BY Zenon DEF MarkInv
  <2> HIDE DEF n, d
  <2>4. averageAllocRatePerSecond \in Nat
    <3>1. CASE n = 0
      BY <2>3, <3>1
    <3>2. CASE n # 0
      <4>1. (d * Hz) \div n \in Nat
        BY <2>1, <2>2, <3>2, RateType, CountAssumption
      <4> QED
        BY <2>3, <3>2, <4>1, Zenon
    <3> QED
      BY <3>1, <3>2
  <2>5. /\ lifetimeBytesAllocated \in 0 .. MaxBytes /\ current \in 0 .. MaxBytes
        /\ lastLifetimeBytes \in 0 .. MaxBytes
    BY CountAssumption DEF StatInv, RateInv
  <2>6. lastCycleID \in CycleNumber
    BY CountAssumption DEF StatInv, FigureInv, DriverInv, CycleNumber
  <2>7. /\ bytesUsedRightBeforeSweeping \in CycleNumber /\ liveSetSize \in CycleNumber
    BY CountAssumption DEF StatInv, FigureInv, CycleNumber
  <2> QED
    BY <2>4, <2>5, <2>6, <2>7, Zenon DEF TypeOK, StatInv, RateInv, FigureInv, DriverInv
<1> QED
  BY <1>1, StatInvariant, MarkInvariant, PTL

-----------------------------------------------------------------------------
LEMMA LongerDelay ==
    ASSUME NEW d, Delay(d)
    PROVE  Delay(NextDelay(d)) /\ NextDelay(d) >= d
  BY SMTT(60) DEF Delay, NextDelay, FirstDelay, Longest

LEMMA Microseconds ==
    ASSUME NEW d \in Int, NEW e \in Int, d >= 0, d <= e, e <= Longest
    PROVE  /\ d \div 1000 \in 0 .. 10000 /\ e \div 1000 \in 0 .. 10000
           /\ d \div 1000 <= e \div 1000
  BY SMTT(60) DEF Longest

LEMMA LongerPace ==
    ASSUME NEW d, NEW e, Delay(d), Delay(e), d <= e
    PROVE  /\ d \div 1000 \in Microsec /\ e \div 1000 \in Microsec
           /\ d \div 1000 <= e \div 1000
<1> DEFINE p == d \div 1000
           q == e \div 1000
<1>1. d \in Int /\ e \in Int /\ d >= 0 /\ e <= Longest
  BY SMT DEF Delay, FirstDelay, Longest
<1>2. p \in 0 .. 10000 /\ q \in 0 .. 10000 /\ p <= q
  BY <1>1, Microseconds, SMTT(60)
<1> HIDE DEF p, q
<1>3. p \in Microsec /\ q \in Microsec /\ p <= q
  BY <1>2 DEF Microsec
<1> QED
  BY <1>3 DEF p, q

(* During a collection the pace only slows down, up to 10 milliseconds,    *)
(* which clock_nanosleep takes (doCollection, gc_on_preallocate).          *)
THEOREM PaceCapped == Spec => PaceIsCapped
<1> DEFINE Slower ==
        [/\ pacingMicrosec' \in 0 .. 10000
         /\ pacingMicrosec' # 0 => pacingMicrosec' >= pacingMicrosec]_pacingMicrosec
<1>1. Init => PaceInv
  BY StatInit
<1>2. PaceInv /\ [Next]_vars => PaceInv' /\ Slower
  <2> SUFFICES ASSUME PaceInv, [Next]_vars PROVE PaceInv' /\ Slower
    OBVIOUS
  <2>1. CASE UNCHANGED paceVars
    BY <2>1, SMT DEF paceVars, PaceInv, Delay
  <2>2. CASE Collect \/ CollectDone
    <3>1. delay' = FirstDelay /\ pacingMicrosec' = 0
      BY <2>2, SMTT(60) DEF Collect, CollectDone
    <3> QED
      BY <3>1, SMT DEF PaceInv, Delay, FirstDelay
  <2>3. CASE Pace
    <3>1. delay' = NextDelay(delay) /\ pacingMicrosec' = delay' \div 1000
      BY <2>3, SMT DEF Pace
    <3>2. Delay(delay) /\ pacingMicrosec \in {0, delay \div 1000}
      BY SMT DEF PaceInv
    <3>3. Delay(delay') /\ delay <= delay'
      <4>1. delay \in Int /\ Delay(NextDelay(delay)) /\ NextDelay(delay) >= delay
        BY <3>2, LongerDelay, SMT DEF Delay
      <4>2. NextDelay(delay) \in Int
        BY <4>1, SMT DEF Delay
      <4> QED
        BY <3>1, <4>1, <4>2, SMT
    <3>4. /\ delay \div 1000 \in Microsec /\ delay' \div 1000 \in Microsec
          /\ delay \div 1000 <= delay' \div 1000
      BY <3>2, <3>3, LongerPace, SMTT(60)
    <3>5. pacingMicrosec' \in Microsec /\ pacingMicrosec' >= pacingMicrosec
      <4> DEFINE m == delay \div 1000
                 n == delay' \div 1000
      <4>1. m \in Microsec /\ n \in Microsec /\ m <= n
        BY <3>4, Zenon
      <4>2. pacingMicrosec \in {0, m} /\ pacingMicrosec' = n
        BY <3>1, <3>2, ZenonT(120)
      <4> HIDE DEF m, n
      <4> QED
        BY <4>1, <4>2, SMT DEF Microsec
    <3>6. PaceInv'
      BY <3>1, <3>3, ZenonT(60) DEF PaceInv
    <3> QED
      BY <3>5, <3>6, SMT DEF Microsec
  <2>4. CASE \/ \E n \in Amount : Account(n)
             \/ Invoke \/ StatCollectorStep \/ GcStep
             \/ AwaitCycle \/ TakePeak \/ TakeLiveSet \/ UNCHANGED vars
    BY <2>1, <2>4, SMT
       DEF Account, Invoke, StatCollectorStep, ReadLifetimeBytes, AppendRate, GcStep,
           BeginCycle, AnnounceCycle, StoreStats, StorePeak, StoreLiveSet, StoreTime,
           AwaitCycle, TakePeak, TakeLiveSet, driverVars, vars
  <2> QED
    BY <2>2, <2>3, <2>4, SMTT(60) DEF Next, DriverStep
<1> QED
  BY <1>1, <1>2, PTL DEF Spec, PaceIsCapped

-----------------------------------------------------------------------------
(* To append to a window is to record a sample. *)
LEMMA AppendRecords ==
    ASSUME NEW max \in Nat \ {0}, NEW Entry, NEW w \in Window(max, Entry), NEW e \in Entry
    PROVE  \E x \in Entry :
               Entries(WindowAppend(w, e)) =
                   (IF Len(Append(Entries(w), x)) > max THEN Tail(Append(Entries(w), x))
                                                        ELSE Append(Entries(w), x))
  BY WindowHoldsLatest DEF Latest

(* KeepsLatest: the windows of allocation rates, of trigger thresholds and *)
(* of cycle times each hold the latest samples, however many there have    *)
(* been (moving_window_append, moving_window_next).                        *)
THEOREM WindowsKeepLatest == Spec => KeepsLatest
<1>1. Init => RateWindow!Init /\ ThresholdWindow!Init /\ TimeWindow!Init
  <2> SUFFICES ASSUME Init PROVE RateWindow!Init /\ ThresholdWindow!Init /\ TimeWindow!Init
    OBVIOUS
  <2>1. /\ allocRateSamples = MovingWindowNew(AllocRateCount)
        /\ triggerThresholdSamples = MovingWindowNew(ThresholdCount)
        /\ cycleTimeSamples = MovingWindowNew(CycleTimeCount)
    BY Zenon DEF Init
  <2> QED
    BY <2>1, NewIsWindow, CountAssumption
       DEF RateWindow!Init, ThresholdWindow!Init, TimeWindow!Init
<1>2. StatInv /\ [Next]_vars => [RateWindow!Record]_(Entries(allocRateSamples))
  <2> SUFFICES ASSUME StatInv, [Next]_vars
               PROVE  RateWindow!Record \/ UNCHANGED allocRateSamples
    OBVIOUS
  <2>1. CASE AppendRate
    <3>1. /\ current - lastLifetimeBytes \in 0 .. MaxBytes
          /\ allocRateSamples \in Window(AllocRateCount, 0 .. MaxBytes)
      BY CountAssumption DEF StatInv, RateInv
    <3>2. allocRateSamples' = WindowAppend(allocRateSamples, current - lastLifetimeBytes)
      BY <2>1 DEF AppendRate
    <3> DEFINE rate == current - lastLifetimeBytes
               Bytes == 0 .. MaxBytes
    <3> HIDE DEF rate, Bytes
    <3>4. /\ rate \in Bytes /\ allocRateSamples \in Window(AllocRateCount, Bytes)
          /\ allocRateSamples' = WindowAppend(allocRateSamples, rate)
      BY <3>1, <3>2, Zenon DEF rate, Bytes
    <3>5. \E x \in Bytes :
             Entries(allocRateSamples') =
                 (IF Len(Append(Entries(allocRateSamples), x)) > AllocRateCount
                  THEN Tail(Append(Entries(allocRateSamples), x))
                  ELSE Append(Entries(allocRateSamples), x))
      BY <3>4, AppendRecords, CountAssumption, SMTT(60)
    <3> QED
      BY <3>5 DEF RateWindow!Record, RateWindow!Latest, Bytes
  <2>2. CASE ~AppendRate
    BY <2>2
       DEF Next, Account, Invoke, StatCollectorStep, ReadLifetimeBytes, GcStep, BeginCycle,
           AnnounceCycle, StoreStats, StorePeak, StoreLiveSet, StoreTime, DriverStep,
           Collect, AwaitCycle, Pace, CollectDone, TakePeak, TakeLiveSet, rateVars, vars
  <2> QED
    BY <2>1, <2>2
<1>3. StatInv /\ [Next]_vars => [ThresholdWindow!Record]_(Entries(triggerThresholdSamples))
  <2> SUFFICES ASSUME StatInv, [Next]_vars
               PROVE  ThresholdWindow!Record \/ UNCHANGED triggerThresholdSamples
    OBVIOUS
  <2>1. CASE TakePeak
    <3>1. /\ bytesUsedRightBeforeSweeping \in CycleNumber
          /\ triggerThresholdSamples \in Window(ThresholdCount, CycleNumber)
      BY CountAssumption DEF StatInv, FigureInv, DriverInv, CycleNumber
    <3>2. triggerThresholdSamples' =
             WindowAppend(triggerThresholdSamples, bytesUsedRightBeforeSweeping)
      BY <2>1 DEF TakePeak
    <3>3. \E x \in CycleNumber :
             Entries(triggerThresholdSamples') =
                 (IF Len(Append(Entries(triggerThresholdSamples), x)) > ThresholdCount
                  THEN Tail(Append(Entries(triggerThresholdSamples), x))
                  ELSE Append(Entries(triggerThresholdSamples), x))
      BY <3>1, <3>2, AppendRecords, CountAssumption, SMTT(60)
    <3> QED
      BY <3>3 DEF ThresholdWindow!Record, ThresholdWindow!Latest
  <2>2. CASE ~TakePeak
    BY <2>2
       DEF Next, Account, Invoke, StatCollectorStep, ReadLifetimeBytes, AppendRate, GcStep,
           BeginCycle, AnnounceCycle, StoreStats, StorePeak, StoreLiveSet, StoreTime,
           DriverStep, Collect, AwaitCycle, Pace, CollectDone, TakeLiveSet, driverVars, vars
  <2> QED
    BY <2>1, <2>2
<1>4. StatInv /\ [Next]_vars => [TimeWindow!Record]_(Entries(cycleTimeSamples))
  <2> SUFFICES ASSUME StatInv, [Next]_vars
               PROVE  TimeWindow!Record \/ UNCHANGED cycleTimeSamples
    OBVIOUS
  <2>1. CASE StoreTime
    <3>1. cycleID \in CycleNumber /\ cycleTimeSamples \in Window(CycleTimeCount, CycleNumber)
      BY DEF StatInv, FigureInv
    <3>2. cycleTimeSamples' = WindowAppend(cycleTimeSamples, cycleID)
      BY <2>1 DEF StoreTime
    <3>3. \E x \in CycleNumber :
             Entries(cycleTimeSamples') =
                 (IF Len(Append(Entries(cycleTimeSamples), x)) > CycleTimeCount
                  THEN Tail(Append(Entries(cycleTimeSamples), x))
                  ELSE Append(Entries(cycleTimeSamples), x))
      BY <3>1, <3>2, AppendRecords, CountAssumption, SMTT(60)
    <3> QED
      BY <3>3 DEF TimeWindow!Record, TimeWindow!Latest
  <2>2. CASE ~StoreTime
    BY <2>2
       DEF Next, Account, Invoke, StatCollectorStep, ReadLifetimeBytes, AppendRate, GcStep,
           BeginCycle, AnnounceCycle, StoreStats, StorePeak, StoreLiveSet, DriverStep,
           Collect, AwaitCycle, Pace, CollectDone, TakePeak, TakeLiveSet, gcVars, figureVars,
           vars
  <2> QED
    BY <2>1, <2>2
<1> QED
  BY <1>1, <1>2, <1>3, <1>4, StatInvariant, PTL
     DEF Spec, KeepsLatest, RateWindow!Spec, ThresholdWindow!Spec, TimeWindow!Spec
=============================================================================
