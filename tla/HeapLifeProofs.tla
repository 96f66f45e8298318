--------------------------- MODULE HeapLifeProofs ---------------------------
(***************************************************************************)
(* For any number of mutators and any RetryCount: the type invariant of    *)
(* CycleControl, that cycleWasInvoked is set exactly while a cycle is on   *)
(* its way, that no request overwrites another, and, if RetryCount is 3 at *)
(* least, that heap_alloc does not return NULL with garbage left to        *)
(* collect.                                                                *)
(*                                                                         *)
(* Then, while a heap is built, used and freed, whatever fails:            *)
(*   - what is proved of CycleControl holds: the life cycle never makes a  *)
(*     thread do what the request handshake does not provide for;          *)
(*   - no thread uses what is not there yet or not there any more,         *)
(*     heap_free does not crash once heap_new has returned, and what is    *)
(*     given back is given back with all it owns.                          *)
(***************************************************************************)
EXTENDS HeapLife, SequenceTheorems, TLAPS

(* A caller that goes from one place to another is somewhere it can be. *)
LEMMA GoType ==
    ASSUME TypeOK, NEW c \in Caller, NEW from, NEW to \in CallerPcs, Go(c, from, to)
    PROVE  pc' \in [Caller -> CallerPcs]
BY DEF TypeOK, Go

(* The program starts with what its variables can hold. *)
LEMMA InitTypes == Init => TypeOK
<1> SUFFICES ASSUME Init PROVE TypeOK
  OBVIOUS
<1>1. pc \in [Caller -> CallerPcs]
  BY DEF Init, CallerPcs, InCall
<1>2. retries \in [Mutator -> 0 .. RetryCount]
  BY RetryAssumption DEF Init
<1> QED
  BY <1>1, <1>2 DEF Init, TypeOK, GcPcs, MainPcs, Requests

(* The variables always hold what their C counterparts can hold, and what  *)
(* is to be freed is garbage: every step of every thread keeps TypeOK.     *)
THEOREM TypeCorrect == Spec => []TypeOK
<1>1. TypeOK /\ [Next]_vars => TypeOK'
  <2> SUFFICES ASSUME TypeOK, [Next]_vars PROVE TypeOK'
    OBVIOUS
  <2> USE DEF requestVars, driverVars, endVars, heapVars
  <2>1. ASSUME NEW c \in Caller, StartCycleAsync(c) PROVE TypeOK'
    <3>1. pc' \in [Caller -> CallerPcs]
      BY <2>1, GoType DEF StartCycleAsync, CallerPcs, InCall
    <3> QED
      BY <2>1, <3>1 DEF StartCycleAsync, TypeOK
  <2>2. ASSUME NEW c \in Caller, PostRequest(c) PROVE TypeOK'
    <3>1. pc' \in [Caller -> CallerPcs]
      BY <2>2, GoType DEF PostRequest, CallerPcs, InCall
    <3> QED
      BY <2>2, <3>1 DEF PostRequest, TypeOK, CallGCAsync, Requests, GcPcs
  <2>3. ASSUME NEW c \in Caller, SleepOnCycle(c) PROVE TypeOK'
    <3>1. pc' \in [Caller -> CallerPcs]
      BY <2>3, GoType DEF SleepOnCycle, CallerPcs, InCall
    <3> QED
      BY <2>3, <3>1 DEF SleepOnCycle, TypeOK
  <2>4. ASSUME NEW c \in Caller, WakeSpuriously(c) PROVE TypeOK'
    <3>1. pc' \in [Caller -> CallerPcs]
      BY <2>4, GoType DEF WakeSpuriously, CallerPcs, InCall
    <3> QED
      BY <2>4, <3>1 DEF WakeSpuriously, TypeOK
  <2>5. ASSUME NEW m \in Mutator, BeginAlloc(m) PROVE TypeOK'
    <3>1. pc' \in [Caller -> CallerPcs]
      BY <2>5, GoType DEF BeginAlloc, CallerPcs, InCall, Caller
    <3>2. retries' \in [Mutator -> 0 .. RetryCount]
      <4>1. 0 \in 0 .. RetryCount
        BY RetryAssumption
      <4> QED
        BY <2>5, <4>1 DEF BeginAlloc, TypeOK
    <3> QED
      BY <2>5, <3>1, <3>2 DEF BeginAlloc, TypeOK
  <2>6. ASSUME NEW m \in Mutator, BlockGc(m) PROVE TypeOK'
    <3>1. pc' \in [Caller -> CallerPcs]
      BY <2>6, GoType DEF BlockGc, CallerPcs, InCall, Caller
    <3> QED
      BY <2>6, <3>1 DEF BlockGc, TypeOK
  <2>7. ASSUME NEW m \in Mutator, AllocUnit(m) PROVE TypeOK'
    <3>1. pc' \in [Caller -> CallerPcs]
      BY <2>7, GoType DEF AllocUnit, CallerPcs, InCall, Caller
    <3> QED
      BY <2>7, <3>1 DEF AllocUnit, TypeOK, Free
  <2>8. ASSUME NEW m \in Mutator, RetryAlloc(m) PROVE TypeOK'
    <3>1. pc' \in [Caller -> CallerPcs]
      BY <2>8, GoType DEF RetryAlloc, CallerPcs, InCall, Caller
    <3> QED
      BY <2>8, <3>1, RetryAssumption DEF RetryAlloc, TypeOK
  <2>9. ASSUME NEW m \in Mutator, CycleDone(m) PROVE TypeOK'
    <3>1. pc' \in [Caller -> CallerPcs]
      BY <2>9, GoType DEF CycleDone, CallerPcs, InCall, Caller
    <3> QED
      BY <2>9, <3>1 DEF CycleDone, TypeOK
  <2>10. ASSUME NEW m \in Mutator, FailAlloc(m) PROVE TypeOK'
    <3>1. pc' \in [Caller -> CallerPcs]
      BY <2>10, GoType DEF FailAlloc, CallerPcs, InCall, Caller
    <3> QED
      BY <2>10, <3>1 DEF FailAlloc, TypeOK
  <2>11. ASSUME NEW m \in Mutator, DropObject(m) PROVE TypeOK'
    BY <2>11 DEF DropObject, TypeOK
  <2>12. ASSUME Collect PROVE TypeOK'
    <3>1. pc' \in [Caller -> CallerPcs]
      BY <2>12, GoType DEF Collect, CallerPcs, InCall, Caller
    <3> QED
      BY <2>12, <3>1 DEF Collect, TypeOK
  <2>13. ASSUME TimeOut PROVE TypeOK'
    <3>1. pc' \in [Caller -> CallerPcs]
      BY <2>13, GoType DEF TimeOut, CallerPcs, InCall, Caller
    <3> QED
      BY <2>13, <3>1 DEF TimeOut, TypeOK
  <2>14. ASSUME Pace PROVE TypeOK'
    <3>1. pc' \in [Caller -> CallerPcs]
      BY <2>14, GoType DEF Pace, CallerPcs, InCall, Caller
    <3> QED
      BY <2>14, <3>1 DEF Pace, TypeOK
  <2>15. ASSUME CollectDone PROVE TypeOK'
    <3>1. pc' \in [Caller -> CallerPcs]
      BY <2>15, GoType DEF CollectDone, CallerPcs, InCall, Caller
    <3> QED
      BY <2>15, <3>1 DEF CollectDone, TypeOK
  <2>16. ASSUME DriverQuit PROVE TypeOK'
    <3>1. pc' \in [Caller -> CallerPcs]
      BY <2>16, GoType DEF DriverQuit, CallerPcs, InCall, Caller
    <3> QED
      BY <2>16, <3>1 DEF DriverQuit, TypeOK
  <2>17. ASSUME StatQuit PROVE TypeOK'
    BY <2>17 DEF StatQuit, TypeOK
  <2>18. ASSUME AwaitRequest PROVE TypeOK'
    BY <2>18 DEF AwaitRequest, TypeOK, GoGc, GcPcs
  <2>19. ASSUME TakeRequest PROVE TypeOK'
    BY <2>19 DEF TakeRequest, TypeOK, GoGc, GcPcs, Requests
  <2>20. ASSUME AskPause PROVE TypeOK'
    BY <2>20 DEF AskPause, TypeOK, GoGc, GcPcs
  <2>21. ASSUME TakeSnapshot PROVE TypeOK'
    BY <2>21 DEF TakeSnapshot, TypeOK, GoGc, GcPcs
  <2>22. ASSUME Sweep PROVE TypeOK'
    BY <2>22 DEF Sweep, TypeOK, GoGc, GcPcs
  <2>23. ASSUME FinishCycle PROVE TypeOK'
    BY <2>23 DEF FinishCycle, TypeOK, GoGc, GcPcs
  <2>24. ASSUME AnnounceCycle PROVE TypeOK'
    <3>1. pc' \in [Caller -> CallerPcs]
      BY <2>24, GoType DEF AnnounceCycle, CallerPcs, InCall, Caller, TypeOK
    <3> QED
      BY <2>24, <3>1 DEF AnnounceCycle, TypeOK, GoGc, GcPcs
  <2>25. ASSUME StoreStats PROVE TypeOK'
    BY <2>25 DEF StoreStats, TypeOK, GoGc, GcPcs
  <2>26. ASSUME HeapReady PROVE TypeOK'
    BY <2>26 DEF HeapReady, TypeOK, MainPcs
  <2>27. ASSUME HeapFree PROVE TypeOK'
    BY <2>27 DEF HeapFree, TypeOK, MainPcs
  <2>28. ASSUME StopStatCollector PROVE TypeOK'
    BY <2>28 DEF StopStatCollector, TypeOK, MainPcs
  <2>29. ASSUME StopGc PROVE TypeOK'
    BY <2>29 DEF StopGc, TypeOK, CallGCAsync, Requests, GcPcs, MainPcs
  <2>30. ASSUME JoinGc PROVE TypeOK'
    BY <2>30 DEF JoinGc, TypeOK, MainPcs
  <2>31. ASSUME QuitDriver PROVE TypeOK'
    BY <2>31 DEF QuitDriver, TypeOK, MainPcs
  <2>32. CASE UNCHANGED vars
    BY <2>32 DEF vars, TypeOK
  <2> QED
    BY <2>1, <2>2, <2>3, <2>4, <2>5, <2>6, <2>7, <2>8, <2>9, <2>10, <2>11, <2>12,
       <2>13, <2>14, <2>15, <2>16, <2>17, <2>18, <2>19, <2>20, <2>21, <2>22, <2>23,
       <2>24, <2>25, <2>26, <2>27, <2>28, <2>29, <2>30, <2>31, <2>32
    DEF Next, CallStep, AllocStep, DriverStep, CycleStep, ShutdownStep
<1> QED
  BY <1>1, InitTypes, PTL DEF Spec

-----------------------------------------------------------------------------
(* What makes InvokedMeansServed inductive, and says who the request is    *)
(* for: a caller that holds the present cycle ID is still in the call, and *)
(* while a cycle is invoked there is one.  So when heap_free has seen the  *)
(* mutators idle and the driver gone, nothing is invoked any more.         *)
Waiting == {"post", "wait", "asleep", "pace"}

CallInv ==
    /\ InvokedMeansServed
    /\ \A c \in current : pc[c] \in Waiting
    /\ \A c \in Posting : c \in current
    /\ cycleWasInvoked => current # {}
    /\ mainPc \in {"unpaused", "joinDriver", "joinStat", "joinGc", "stopped"} =>
          \A m \in Mutator : pc[m] = "idle"
    /\ mainPc \in {"joinStat", "joinGc", "stopped"} => pc[driver] = "exit"
    /\ gcRequest = "GC_SHUTDOWN" => mainPc \in {"joinGc", "stopped"}

(* It leaves the other callers where they are.                             *)
LEMMA GoEffect ==
    ASSUME TypeOK, NEW c \in Caller, NEW from, NEW to, Go(c, from, to)
    PROVE  /\ pc[c] = from /\ pc'[c] = to
           /\ \A d \in Caller : d # c => pc'[d] = pc[d]
BY DEF TypeOK, Go

(* When the driver is gone, no cycle is invoked. *)
LEMMA QuietAtTheEnd ==
    ASSUME TypeOK, CallInv, mainPc = "joinStat"
    PROVE  ~cycleWasInvoked /\ gcRequest = "GC_NOOP"
<1>1. ASSUME NEW c \in current PROVE FALSE
  BY <1>1 DEF TypeOK, CallInv, Waiting, Caller
<1>2. ~cycleWasInvoked
  BY <1>1 DEF CallInv
<1> QED
  BY <1>2 DEF TypeOK, CallInv, InvokedMeansServed, Requested, Requests

(* At first nobody is in a call.                                           *)
LEMMA CallInvInit == Init => CallInv
BY CallerAssumption DEF Init, CallInv, InvokedMeansServed, Posting, Requested, Collecting,
   Caller

(* Every step of every thread keeps CallInv.                               *)
LEMMA CallInvNext == TypeOK /\ CallInv /\ [Next]_vars => CallInv'
<1> SUFFICES ASSUME TypeOK, CallInv, [Next]_vars PROVE CallInv'
  OBVIOUS
<1> USE DEF CallInv, InvokedMeansServed, Posting, Requested, Collecting, requestVars,
            driverVars, endVars
<1>a. driver \in Caller /\ driver \notin Mutator /\ Mutator \subseteq Caller
  BY CallerAssumption DEF Caller
<1>b. current \subseteq Caller /\ \A c \in Caller : c # driver => c \in Mutator
  BY DEF TypeOK, Caller
<1>1. ASSUME NEW c \in Caller, StartCycleAsync(c) PROVE CallInv'
  BY <1>1, <1>a, <1>b, GoEffect DEF StartCycleAsync, Waiting
<1>2. ASSUME NEW c \in Caller, PostRequest(c) PROVE CallInv'
  BY <1>2, <1>a, <1>b, GoEffect DEF PostRequest, CallGCAsync, Waiting
<1>3. ASSUME NEW c \in Caller, SleepOnCycle(c) PROVE CallInv'
  BY <1>3, <1>a, <1>b, GoEffect DEF SleepOnCycle, Waiting
<1>4. ASSUME NEW c \in Caller, WakeSpuriously(c) PROVE CallInv'
  BY <1>4, <1>a, <1>b, GoEffect DEF WakeSpuriously, Waiting
<1>5. ASSUME NEW m \in Mutator, BeginAlloc(m) PROVE CallInv'
  BY <1>5, <1>a, <1>b, GoEffect DEF BeginAlloc, Waiting
<1>6. ASSUME NEW m \in Mutator, BlockGc(m) PROVE CallInv'
  BY <1>6, <1>a, <1>b, GoEffect DEF BlockGc, Waiting
<1>7. ASSUME NEW m \in Mutator, AllocUnit(m) PROVE CallInv'
  BY <1>7, <1>a, <1>b, GoEffect DEF AllocUnit, Waiting
<1>8. ASSUME NEW m \in Mutator, RetryAlloc(m) PROVE CallInv'
  BY <1>8, <1>a, <1>b, GoEffect DEF RetryAlloc, Waiting
<1>9. ASSUME NEW m \in Mutator, CycleDone(m) PROVE CallInv'
  BY <1>9, <1>a, <1>b, GoEffect DEF CycleDone, Waiting
<1>10. ASSUME NEW m \in Mutator, FailAlloc(m) PROVE CallInv'
  BY <1>10, <1>a, <1>b, GoEffect DEF FailAlloc, Waiting
<1>11. ASSUME NEW m \in Mutator, DropObject(m) PROVE CallInv'
  BY <1>11, <1>a, <1>b DEF DropObject
<1>12. ASSUME Collect PROVE CallInv'
  BY <1>12, <1>a, <1>b, GoEffect DEF Collect, Waiting
<1>13. ASSUME TimeOut PROVE CallInv'
  BY <1>13, <1>a, <1>b, GoEffect DEF TimeOut, Waiting
<1>14. ASSUME Pace PROVE CallInv'
  BY <1>14, <1>a, <1>b, GoEffect DEF Pace, Waiting
<1>15. ASSUME CollectDone PROVE CallInv'
  BY <1>15, <1>a, <1>b, GoEffect DEF CollectDone, Waiting
<1>16. ASSUME DriverQuit PROVE CallInv'
  BY <1>16, <1>a, <1>b, GoEffect DEF DriverQuit, Waiting
<1>17. ASSUME StatQuit PROVE CallInv'
  BY <1>17, <1>a, <1>b DEF StatQuit
<1>18. ASSUME AwaitRequest PROVE CallInv'
  BY <1>18, <1>a, <1>b DEF AwaitRequest, GoGc
<1>19. ASSUME TakeRequest PROVE CallInv'
  BY <1>19, <1>a, <1>b DEF TakeRequest, GoGc, TypeOK, Requests
<1>20. ASSUME AskPause PROVE CallInv'
  BY <1>20, <1>a, <1>b DEF AskPause, GoGc
<1>21. ASSUME TakeSnapshot PROVE CallInv'
  BY <1>21, <1>a, <1>b DEF TakeSnapshot, GoGc
<1>22. ASSUME Sweep PROVE CallInv'
  BY <1>22, <1>a, <1>b DEF Sweep, GoGc
<1>23. ASSUME FinishCycle PROVE CallInv'
  BY <1>23, <1>a, <1>b DEF FinishCycle, GoGc
<1>24. ASSUME AnnounceCycle PROVE CallInv'
  BY <1>24, <1>a, <1>b DEF AnnounceCycle, GoGc, TypeOK, Waiting
<1>25. ASSUME StoreStats PROVE CallInv'
  BY <1>25, <1>a, <1>b DEF StoreStats, GoGc
<1>26. ASSUME HeapReady PROVE CallInv'
  BY <1>26, <1>a, <1>b DEF HeapReady
<1>27. ASSUME HeapFree PROVE CallInv'
  BY <1>27, <1>a, <1>b DEF HeapFree
<1>28. ASSUME StopStatCollector PROVE CallInv'
  BY <1>28, <1>a, <1>b DEF StopStatCollector
<1>29. ASSUME StopGc PROVE CallInv'
  <2>1. ~cycleWasInvoked /\ gcRequest = "GC_NOOP"
    BY <1>29, QuietAtTheEnd DEF StopGc
  <2> QED
    BY <1>29, <2>1 DEF StopGc, CallGCAsync
<1>30. ASSUME JoinGc PROVE CallInv'
  BY <1>30, <1>a, <1>b DEF JoinGc
<1>31. ASSUME QuitDriver PROVE CallInv'
  BY <1>31, <1>a, <1>b DEF QuitDriver
<1>32. CASE UNCHANGED vars
  BY <1>32 DEF vars
<1> QED
  BY <1>1, <1>2, <1>3, <1>4, <1>5, <1>6, <1>7, <1>8, <1>9, <1>10, <1>11, <1>12,
     <1>13, <1>14, <1>15, <1>16, <1>17, <1>18, <1>19, <1>20, <1>21, <1>22, <1>23,
     <1>24, <1>25, <1>26, <1>27, <1>28, <1>29, <1>30, <1>31, <1>32
  DEF Next, CallStep, AllocStep, DriverStep, CycleStep, ShutdownStep

(* So CallInv always holds. *)
LEMMA CallInvariant == Spec => []CallInv
BY CallInvInit, CallInvNext, TypeCorrect, PTL DEF Spec

(* cycleWasInvoked is set exactly while somebody is about to post the      *)
(* request, or it is posted, or the GC thread is at work on it.            *)
THEOREM InvokedServed == Spec => []InvokedMeansServed
<1>1. CallInv => InvokedMeansServed
  BY DEF CallInv
<1> QED
  BY <1>1, CallInvariant, PTL

(* callGCAsync never finds another request in place: a cycle is asked for  *)
(* only when none is invoked, and the shutdown when nobody waits for one.  *)
THEOREM NoRequestLost == Spec => RequestsKept
<1>1. TypeOK /\ CallInv /\ [Next]_vars =>
        [gcRequest # "GC_NOOP" => gcRequest' \in {gcRequest, "GC_NOOP"}]_vars
  <2> SUFFICES ASSUME TypeOK, CallInv, Next, gcRequest # "GC_NOOP"
               PROVE  gcRequest' \in {gcRequest, "GC_NOOP"}
    OBVIOUS
  <2>1. ASSUME NEW c \in Caller, PostRequest(c) PROVE FALSE
    <3>1. c \in Posting
      BY <2>1, GoEffect DEF PostRequest, Posting
    <3>2. gcRequest = "GC_SHUTDOWN"
      BY <3>1 DEF CallInv, InvokedMeansServed, Requested, TypeOK, Requests
    <3> QED
      BY <3>1, <3>2, CallerAssumption DEF CallInv, Posting, Caller
  <2>2. ASSUME StopGc PROVE FALSE
    BY <2>2, QuietAtTheEnd DEF StopGc
  <2> QED
    BY <2>1, <2>2 DEF Next, CallStep, StartCycleAsync, SleepOnCycle, WakeSpuriously,
       AllocStep, BeginAlloc, DropObject, BlockGc, AllocUnit, RetryAlloc, CycleDone,
       FailAlloc, Collect, TimeOut, DriverStep, Pace, CollectDone, DriverQuit,
       AwaitRequest, CycleStep, TakeRequest, AskPause, TakeSnapshot, Sweep, FinishCycle,
       AnnounceCycle, StoreStats, HeapReady, HeapFree, QuitDriver, ShutdownStep,
       StatQuit, StopStatCollector, JoinGc, requestVars
<1> QED
  BY <1>1, TypeCorrect, CallInvariant, PTL DEF Spec, RequestsKept

-----------------------------------------------------------------------------
(* At least so many cycles have ended since m entered heap_alloc: all that *)
(* it has asked for, but the one it still has to get or to wait for.       *)
Waited(m) == IF pc[m] = "start" \/ m \in current THEN retries[m] - 1 ELSE retries[m]

(* What the cycles leave of garbage while nobody allocates or drops        *)
(* anything: the one under way may have its snapshot from before that, the *)
(* next takes the recent garbage for old, and the third leaves none.       *)
QuietInv ==
    \A m \in undisturbed :
        /\ Waited(m) >= 1 /\ gcPc \in {"sweep", "swept", "finish", "announce"} =>
              recent = {}
        /\ Waited(m) >= 2 =>
              /\ recent = {}
              /\ gcPc = "sweep" => doomed = dead
              /\ gcPc \in {"swept", "finish", "announce"} => dead = {}
        /\ Waited(m) >= 3 => dead = {}

(* Nobody is in heap_alloc at first. *)
LEMMA QuietInit == Init => QuietInv
BY DEF Init, QuietInv

(* A cycle that ends brings each waiter one further in QuietInv, and what  *)
(* it has left is what QuietInv says then; allocating and dropping objects *)
(* end all claims.                                                         *)
LEMMA QuietNext == TypeOK /\ CallInv /\ QuietInv /\ [Next]_vars => QuietInv'
<1> SUFFICES ASSUME TypeOK, CallInv, QuietInv, [Next]_vars PROVE QuietInv'
  OBVIOUS
<1> USE DEF QuietInv, Waited, requestVars, driverVars, endVars, heapVars
<1>a. driver \in Caller /\ driver \notin Mutator /\ Mutator \subseteq Caller
  BY CallerAssumption DEF Caller
<1>b. /\ undisturbed \subseteq Mutator /\ retries \in [Mutator -> 0 .. RetryCount]
      /\ RetryCount \in Nat /\ pc \in [Caller -> CallerPcs]
      /\ \A c \in current : c \in Caller /\ pc[c] \in {"post", "wait", "asleep", "pace"}
  BY RetryAssumption DEF TypeOK, CallInv, Waiting
<1>1. ASSUME NEW c \in Caller, StartCycleAsync(c) PROVE QuietInv'
  BY <1>1, <1>a, <1>b, GoEffect DEF StartCycleAsync
<1>2. ASSUME NEW c \in Caller, PostRequest(c) PROVE QuietInv'
  BY <1>2, <1>a, <1>b, GoEffect DEF PostRequest, CallGCAsync
<1>3. ASSUME NEW c \in Caller, SleepOnCycle(c) PROVE QuietInv'
  BY <1>3, <1>a, <1>b, GoEffect DEF SleepOnCycle
<1>4. ASSUME NEW c \in Caller, WakeSpuriously(c) PROVE QuietInv'
  BY <1>4, <1>a, <1>b, GoEffect DEF WakeSpuriously
<1>5. ASSUME NEW m \in Mutator, BeginAlloc(m) PROVE QuietInv'
  BY <1>5, <1>a, <1>b, GoEffect DEF BeginAlloc
<1>6. ASSUME NEW m \in Mutator, BlockGc(m) PROVE QuietInv'
  BY <1>6, <1>a, <1>b, GoEffect DEF BlockGc
<1>7. ASSUME NEW m \in Mutator, AllocUnit(m) PROVE QuietInv'
  BY <1>7, <1>a, <1>b, GoEffect DEF AllocUnit
<1>8. ASSUME NEW m \in Mutator, RetryAlloc(m) PROVE QuietInv'
  BY <1>8, <1>a, <1>b, GoEffect DEF RetryAlloc
<1>9. ASSUME NEW m \in Mutator, CycleDone(m) PROVE QuietInv'
  BY <1>9, <1>a, <1>b, GoEffect DEF CycleDone
<1>10. ASSUME NEW m \in Mutator, FailAlloc(m) PROVE QuietInv'
  BY <1>10, <1>a, <1>b, GoEffect DEF FailAlloc
<1>11. ASSUME NEW m \in Mutator, DropObject(m) PROVE QuietInv'
  BY <1>11, <1>a, <1>b DEF DropObject
<1>12. ASSUME Collect PROVE QuietInv'
  BY <1>12, <1>a, <1>b, GoEffect DEF Collect
<1>13. ASSUME TimeOut PROVE QuietInv'
  BY <1>13, <1>a, <1>b, GoEffect DEF TimeOut
<1>14. ASSUME Pace PROVE QuietInv'
  BY <1>14, <1>a, <1>b, GoEffect DEF Pace
<1>15. ASSUME CollectDone PROVE QuietInv'
  BY <1>15, <1>a, <1>b, GoEffect DEF CollectDone
<1>16. ASSUME DriverQuit PROVE QuietInv'
  BY <1>16, <1>a, <1>b, GoEffect DEF DriverQuit
<1>17. ASSUME StatQuit PROVE QuietInv'
  BY <1>17, <1>a, <1>b DEF StatQuit
<1>18. ASSUME AwaitRequest PROVE QuietInv'
  BY <1>18, <1>a, <1>b DEF AwaitRequest, GoGc
<1>19. ASSUME TakeRequest PROVE QuietInv'
  BY <1>19, <1>a, <1>b DEF TakeRequest, GoGc
<1>20. ASSUME AskPause PROVE QuietInv'
  BY <1>20, <1>a, <1>b DEF AskPause, GoGc
<1>21. ASSUME TakeSnapshot PROVE QuietInv'
  BY <1>21, <1>a, <1>b DEF TakeSnapshot, GoGc
<1>22. ASSUME Sweep PROVE QuietInv'
  BY <1>22, <1>a, <1>b DEF Sweep, GoGc
<1>23. ASSUME FinishCycle PROVE QuietInv'
  BY <1>23, <1>a, <1>b DEF FinishCycle, GoGc
<1>24. ASSUME AnnounceCycle PROVE QuietInv'
  BY <1>24, <1>a, <1>b DEF AnnounceCycle, GoGc
<1>25. ASSUME StoreStats PROVE QuietInv'
  BY <1>25, <1>a, <1>b DEF StoreStats, GoGc
<1>26. ASSUME HeapReady PROVE QuietInv'
  BY <1>26, <1>a, <1>b DEF HeapReady
<1>27. ASSUME HeapFree PROVE QuietInv'
  BY <1>27, <1>a, <1>b DEF HeapFree
<1>28. ASSUME StopStatCollector PROVE QuietInv'
  BY <1>28, <1>a, <1>b DEF StopStatCollector
<1>29. ASSUME StopGc PROVE QuietInv'
  BY <1>29, <1>a, <1>b DEF StopGc, CallGCAsync
<1>30. ASSUME JoinGc PROVE QuietInv'
  BY <1>30, <1>a, <1>b DEF JoinGc
<1>31. ASSUME QuitDriver PROVE QuietInv'
  BY <1>31, <1>a, <1>b DEF QuitDriver
<1>32. CASE UNCHANGED vars
  BY <1>32 DEF vars
<1> QED
  BY <1>1, <1>2, <1>3, <1>4, <1>5, <1>6, <1>7, <1>8, <1>9, <1>10, <1>11, <1>12,
     <1>13, <1>14, <1>15, <1>16, <1>17, <1>18, <1>19, <1>20, <1>21, <1>22, <1>23,
     <1>24, <1>25, <1>26, <1>27, <1>28, <1>29, <1>30, <1>31, <1>32
  DEF Next, CallStep, AllocStep, DriverStep, CycleStep, ShutdownStep

(* So QuietInv always holds. *)
LEMMA QuietInvariant == Spec => []QuietInv
BY QuietInit, QuietNext, TypeCorrect, CallInvariant, PTL DEF Spec

(* When heap_alloc returns NULL no garbage is left, unless other threads   *)
(* allocated or dropped something meanwhile: three retries are enough for  *)
(* that, whatever the driver does and whyever generation_alloc fails.      *)
THEOREM NullWhenClean == ASSUME RetryCount >= 3 PROVE Spec => NullMeansNoGarbage
<1>1. ASSUME TypeOK, CallInv, QuietInv, NEW m \in undisturbed, FailAlloc(m) PROVE dead = {}
  <2>1. m \in Caller /\ pc[m] = "inside" /\ retries[m] = RetryCount
    BY <1>1 DEF FailAlloc, Go, TypeOK, Caller
  <2>2. m \notin current
    BY <1>1, <2>1 DEF CallInv, Waiting
  <2> QED
    BY <1>1, <2>1, <2>2, RetryAssumption DEF QuietInv, Waited
<1>2. TypeOK /\ CallInv /\ QuietInv /\ [Next]_vars =>
        [\A m \in undisturbed : FailAlloc(m) => dead = {}]_vars
  BY <1>1
<1> QED
  BY <1>2, TypeCorrect, CallInvariant, QuietInvariant, PTL DEF Spec, NullMeansNoGarbage

-----------------------------------------------------------------------------
(* Every step of the life cycle is a step of CycleControl, or leaves it as *)
(* it is (heap_new and heap_free among the threads they start and stop).   *)
LEMMA LifeStepIs == [LifeNext]_<<vars, lifeVars>> => [Next]_vars
<1> SUFFICES ASSUME [LifeNext]_<<vars, lifeVars>> PROVE [Next]_vars
  OBVIOUS
<1>1. CASE Acquire \/ Fail \/ FreeThreads \/ FreeHeap
  BY <1>1 DEF Acquire, Fail, FreeThreads, FreeHeap
<1>2. ASSUME NEW o \in Object, Crash(o) \/ FreeObject(o) PROVE [Next]_vars
  BY <1>2 DEF Crash, FreeObject
<1>3. CASE HeapNewReturns
  BY <1>3 DEF HeapNewReturns, Next, ShutdownStep
<1>4. CASE HeapFreeCalled
  BY <1>4 DEF HeapFreeCalled, Next
<1>5. CASE Serve
  BY <1>5 DEF Serve
<1>6. CASE UNCHANGED <<vars, lifeVars>>
  BY <1>6
<1> QED
  BY <1>1, <1>2, <1>3, <1>4, <1>5, <1>6 DEF LifeNext, LifeStep

(* So the life cycle of a heap implements CycleControl. *)
THEOREM LifeRefines == LifeSpec => Spec
<1>1. LifeInit => Init
  BY DEF LifeInit
<1> QED
  BY <1>1, LifeStepIs, PTL DEF LifeSpec, Spec

(* So no request is lost and no cycle is promised that nobody serves, also *)
(* when heap_new fails with the threads running and shuts them down.       *)
THEOREM LifeKeepsRequests ==
    LifeSpec => [](TypeOK /\ InvokedMeansServed) /\ RequestsKept
  BY LifeRefines, TypeCorrect, InvokedServed, NoRequestLost, PTL

(* And heap_alloc does not give up before all garbage is collected.        *)
THEOREM LifeNullWhenClean == ASSUME RetryCount >= 3 PROVE LifeSpec => NullMeansNoGarbage
  BY LifeRefines, NullWhenClean, PTL

-----------------------------------------------------------------------------
(* The place of each resource in the order in which heap_new acquires them *)
Place ==
    [heap |-> 1, threadListLock |-> 2, generation |-> 3, allocTracker |-> 4,
     arena |-> 5, listOfContextLock |-> 6, gcState |-> 7, cycleTimeSamples |-> 8,
     gcLock |-> 9, mutatorThreadsListLock |-> 10, needRemarkQueue |-> 11,
     cycleStatusLock |-> 12, invokeCycleDoneEvent |-> 13, gcRequestLock |-> 14,
     gcRequestedCond |-> 15, statsLock |-> 16, gcMarkQueueUwU |-> 17,
     deferredMarkQueue |-> 18, gcThread |-> 19, gcDriver |-> 20,
     triggerThresholdSamples |-> 21, statCollector |-> 22, allocRateSamples |-> 23,
     statThread |-> 24, driverThread |-> 25, ownerHeap |-> 26, currentThread |-> 27,
     thread |-> 28, allocContext |-> 29, mimallocHeap |-> 30, gcLockPerThread |-> 31]

Names == DOMAIN Place

(* No two resources have the same place.                                   *)
LEMMA Places ==
    /\ \A r \in Names : Place[r] \in 1 .. 31
    /\ \A r, q \in Names : Place[r] = Place[q] => r = q
BY DEF Place, Names

(* s acquires the resources at the places from a to b, in order.           *)
Stretch(s, a, b) ==
    /\ s \in Seq(Names) /\ Len(s) = b - a + 1
    /\ \A i \in 1 .. Len(s) : Place[s[i]] = a + i - 1

(* A constructor made of two stretches, one after the other, is a stretch. *)
LEMMA Join ==
    ASSUME NEW a \in Nat, NEW b \in Nat, NEW c \in Nat, NEW s, NEW t,
           Stretch(s, a, b), Stretch(t, b + 1, c)
    PROVE  Stretch(s \o t, a, c)
<1>1. /\ s \o t \in Seq(Names) /\ Len(s \o t) = Len(s) + Len(t)
      /\ Len(s) \in Nat /\ Len(t) \in Nat
      /\ \A i \in 1 .. Len(s) + Len(t) :
            (s \o t)[i] = IF i <= Len(s) THEN s[i] ELSE t[i - Len(s)]
  BY ConcatProperties, LenProperties DEF Stretch
<1>2. ASSUME NEW i \in 1 .. Len(s \o t) PROVE Place[(s \o t)[i]] = a + i - 1
  <2>1. CASE i <= Len(s)
    BY <1>1, <2>1 DEF Stretch
  <2>2. CASE ~(i <= Len(s))
    <3>1. i - Len(s) \in 1 .. Len(t)
      BY <1>1, <2>2
    <3> QED
      BY <1>1, <2>2, <3>1, SMTT(60) DEF Stretch
  <2> QED
    BY <2>1, <2>2
<1>3. Len(s \o t) = c - a + 1
  BY <1>1 DEF Stretch
<1> QED
  BY <1>1, <1>2, <1>3, Zenon DEF Stretch

(* What a stretch acquires is what has its place in it.                    *)
LEMMA StretchSet ==
    ASSUME NEW a \in 1 .. 31, NEW b \in 1 .. 31, NEW s, Stretch(s, a, b)
    PROVE  ToSet(s) = {r \in Names : a <= Place[r] /\ Place[r] <= b}
<1>1. ToSet(s) = {s[i] : i \in 1 .. Len(s)} /\ \A i \in 1 .. Len(s) : s[i] \in Names
  BY DEF ToSet, Stretch
<1>2. ASSUME NEW i \in 1 .. Len(s) PROVE a <= Place[s[i]] /\ Place[s[i]] <= b
  <2>1. Len(s) = b - a + 1 /\ Place[s[i]] = a + i - 1
    BY DEF Stretch
  <2>2. i \in 1 .. b - a + 1
    BY <2>1
  <2>3. a <= a + i - 1 /\ a + i - 1 <= b
    BY <2>2
  <2> QED
    BY <2>1, <2>3
<1>3. ASSUME NEW p \in a .. b PROVE \E i \in 1 .. Len(s) : Place[s[i]] = p
  <2>1. Len(s) = b - a + 1 /\ p - a + 1 \in 1 .. b - a + 1 /\ a + (p - a + 1) - 1 = p
    BY DEF Stretch
  <2> QED
    BY <2>1 DEF Stretch
<1>4. ASSUME NEW r \in Names, a <= Place[r], Place[r] <= b
      PROVE  \E i \in 1 .. Len(s) : s[i] = r
  <2>1. Place[r] \in a .. b
    BY <1>4, Places
  <2> QED
    BY <2>1, <1>1, <1>3, Places
<1> QED
  BY <1>1, <1>2, <1>4

(* Each constructor is a stretch of what heap_new acquires.                *)
LEMMA Stretches ==
    /\ Stretch(StatCollectorNew, 22, 24) /\ Stretch(GcDriverNew, 20, 25)
    /\ Stretch(GcLockNew, 9, 10) /\ Stretch(GcStateNew, 7, 25)
    /\ Stretch(AllocTrackerNew, 4, 6) /\ Stretch(GenerationNew, 3, 25)
    /\ Stretch(ThreadNew, 28, 31) /\ Stretch(HeapNew, 1, 31)
<1> DEFINE Queues == <<"needRemarkQueue", "cycleStatusLock", "invokeCycleDoneEvent",
                     "gcRequestLock", "gcRequestedCond", "statsLock", "gcMarkQueueUwU",
                     "deferredMarkQueue", "gcThread">>
<1>1. /\ Stretch(StatCollectorNew, 22, 24) /\ Stretch(GcLockNew, 9, 10)
      /\ Stretch(AllocTrackerNew, 4, 6) /\ Stretch(ThreadNew, 28, 31)
  BY DEF Stretch, Place, Names, StatCollectorNew, GcLockNew, AllocTrackerNew, ThreadNew
<1>2. /\ Stretch(<<"gcDriver", "triggerThresholdSamples">>, 20, 21)
      /\ Stretch(<<"driverThread">>, 25, 25)
  BY DEF Stretch, Place, Names
<1>3. /\ Stretch(<<"gcState", "cycleTimeSamples">>, 7, 8)
      /\ Stretch(Queues, 11, 19)
  BY DEF Stretch, Place, Names
<1>4. /\ Stretch(<<"generation">>, 3, 3) /\ Stretch(<<"heap", "threadListLock">>, 1, 2)
      /\ Stretch(<<"ownerHeap", "currentThread">>, 26, 27)
  BY DEF Stretch, Place, Names
<1> HIDE DEF Queues
<1>5. Stretch(GcDriverNew, 20, 25)
  <2>1. Stretch(<<"gcDriver", "triggerThresholdSamples">> \o StatCollectorNew, 20, 24)
    BY <1>1, <1>2, Join
  <2> QED
    BY <1>2, <2>1, Join DEF GcDriverNew
<1>6. Stretch(GcStateNew, 7, 25)
  <2>1. Stretch(<<"gcState", "cycleTimeSamples">> \o GcLockNew, 7, 10)
    BY <1>1, <1>3, Join
  <2>2. Stretch(<<"gcState", "cycleTimeSamples">> \o GcLockNew \o Queues, 7, 19)
    BY <1>3, <2>1, Join
  <2> QED
    BY <1>5, <2>2, Join DEF GcStateNew, Queues
<1>7. Stretch(GenerationNew, 3, 25)
  <2>1. Stretch(<<"generation">> \o AllocTrackerNew, 3, 6)
    BY <1>1, <1>4, Join
  <2> QED
    BY <1>6, <2>1, Join DEF GenerationNew
<1>8. Stretch(HeapNew, 1, 31)
  <2>1. Stretch(<<"heap", "threadListLock">> \o GenerationNew, 1, 25)
    BY <1>4, <1>7, Join
  <2>2. Stretch(<<"heap", "threadListLock">> \o GenerationNew \o
                <<"ownerHeap", "currentThread">>, 1, 27)
    BY <1>4, <2>1, Join
  <2> QED
    BY <1>1, <2>2, Join DEF HeapNew
<1> QED
  BY <1>1, <1>5, <1>6, <1>7, <1>8

(* In particular that of the heap is the stretch of them all.              *)
LEMMA HeapNewPlaces ==
    /\ Len(HeapNew) = 31
    /\ \A i \in 1 .. 31 : HeapNew[i] \in Names /\ Place[HeapNew[i]] = i
<1>1. Stretch(HeapNew, 1, 31)
  BY Stretches
<1>2. HeapNew \in Seq(Names) /\ Len(HeapNew) = 31
  BY <1>1 DEF Stretch
<1>3. ASSUME NEW i \in 1 .. 31 PROVE HeapNew[i] \in Names /\ Place[HeapNew[i]] = i
  <2>1. Place[HeapNew[i]] = 1 + i - 1
    BY <1>1, <1>2 DEF Stretch
  <2>2. HeapNew[i] \in Names
    BY <1>2, ElementOfSeq
  <2> QED
    BY <2>1, <2>2
<1> QED
  BY <1>2, <1>3

(* The first n resources are those at the places up to n.                  *)
LEMMA First == \A n \in 0 .. 31 : FirstOf[n] = {r \in Names : Place[r] <= n}
<1> SUFFICES ASSUME NEW n \in 0 .. 31 PROVE FirstOf[n] = {r \in Names : Place[r] <= n}
  OBVIOUS
<1>1. FirstOf[n] = {HeapNew[i] : i \in 1 .. n}
  BY HeapNewPlaces DEF FirstOf
<1>2. ASSUME NEW i \in 1 .. n PROVE HeapNew[i] \in Names /\ Place[HeapNew[i]] <= n
  BY HeapNewPlaces
<1>3. ASSUME NEW r \in Names, Place[r] <= n PROVE \E i \in 1 .. n : HeapNew[i] = r
  BY <1>3, HeapNewPlaces, Places
<1> QED
  BY <1>1, <1>2, <1>3

-----------------------------------------------------------------------------
(* The places of the resources that the invariant mentions                 *)
LEMMA LandmarkPlaces ==
    /\ Place["heap"] = 1 /\ Place["threadListLock"] = 2 /\ Place["generation"] = 3
    /\ Place["gcThread"] = 19 /\ Place["statThread"] = 24 /\ Place["driverThread"] = 25
    /\ Place["ownerHeap"] = 26 /\ Place["gcLockPerThread"] = 31
BY DEF Place

(* The place of the last resource of each object                           *)
LastPlace ==
    [heap |-> 31, generation |-> 25, allocTracker |-> 6, gcState |-> 25, gcLock |-> 10,
     gcDriver |-> 25, statCollector |-> 24, thread |-> 31]

(* The objects are resources, and end after they begin.                    *)
LEMMA Objects ==
    /\ Object = {"heap", "generation", "allocTracker", "gcState", "gcLock", "gcDriver",
                  "statCollector", "thread"}
    /\ Object \subseteq Names /\ Resource = Names
    /\ \A o \in Object : LastPlace[o] \in Place[o] .. 31
<1>1. Object = {"heap", "generation", "allocTracker", "gcState", "gcLock", "gcDriver",
               "statCollector", "thread"}
  BY SMTT(60) DEF Object, New
<1>2. Resource = {r \in Names : 1 <= Place[r] /\ Place[r] <= 31}
  BY Stretches, StretchSet DEF Resource
<1>3. \A o \in Object : LastPlace[o] \in Place[o] .. 31
  BY <1>1 DEF LastPlace, Place
<1> QED
  BY <1>1, <1>2, <1>3, Places DEF Names, Place

(* What a constructor acquires lies between the object itself and its last *)
(* resource.                                                               *)
LEMMA PartsAre ==
    \A o \in Object :
        Parts[o] = {r \in Names : Place[o] <= Place[r] /\ Place[r] <= LastPlace[o]}
<1> SUFFICES ASSUME NEW o \in Object
             PROVE  Parts[o] =
                      {r \in Names : Place[o] <= Place[r] /\ Place[r] <= LastPlace[o]}
  OBVIOUS
<1>1. Stretch(New[o], Place[o], LastPlace[o])
  BY Stretches, Objects DEF New, Place, LastPlace
<1>2. Place[o] \in 1 .. 31 /\ LastPlace[o] \in 1 .. 31
  BY Objects, Places
<1> QED
  BY <1>1, <1>2, StretchSet DEF Parts

(* The parts of a part are parts.                                          *)
LEMMA PartsNest ==
    ASSUME NEW o \in Object, NEW p \in Object, p \in Parts[o]
    PROVE  Parts[p] \subseteq Parts[o]
<1>1. LastPlace[p] <= LastPlace[o]
  <2>1. Place[o] <= Place[p] /\ Place[p] <= LastPlace[o]
    BY PartsAre
  <2> QED
    BY <2>1, Objects DEF Place, LastPlace
<1>2. p \in Names /\ o \in Names
  BY Objects
<1>3. Place[o] <= Place[p]
  BY PartsAre
<1>4. \A x \in Names : Place[x] \in 1 .. 31
  BY Places
<1>5. LastPlace[p] \in 1 .. 31 /\ LastPlace[o] \in 1 .. 31
  BY Objects, Places, SMTT(60)
<1>6. ASSUME NEW x \in Parts[p] PROVE x \in Parts[o]
  <2>1. x \in Names /\ Place[p] <= Place[x] /\ Place[x] <= LastPlace[p]
    BY PartsAre
  <2>2. Place[o] <= Place[x] /\ Place[x] <= LastPlace[o]
    BY <2>1, <1>1, <1>2, <1>3, <1>4, <1>5
  <2> QED
    BY <2>1, <2>2, PartsAre
<1> QED
  BY <1>6

(* The owners, written out                                                 *)
OwnerOf ==
    [threadListLock |-> "heap", generation |-> "heap",
     allocTracker |-> "generation", arena |-> "allocTracker",
     listOfContextLock |-> "allocTracker", gcState |-> "generation",
     cycleTimeSamples |-> "gcState", gcLock |-> "gcState",
     mutatorThreadsListLock |-> "gcLock", needRemarkQueue |-> "gcState",
     cycleStatusLock |-> "gcState", invokeCycleDoneEvent |-> "gcState",
     gcRequestLock |-> "gcState", gcRequestedCond |-> "gcState",
     statsLock |-> "gcState", gcMarkQueueUwU |-> "gcState",
     deferredMarkQueue |-> "gcState", gcThread |-> "gcState", gcDriver |-> "gcState",
     triggerThresholdSamples |-> "gcDriver", statCollector |-> "gcDriver",
     allocRateSamples |-> "statCollector", statThread |-> "statCollector",
     driverThread |-> "gcDriver", ownerHeap |-> "heap", currentThread |-> "heap",
     thread |-> "heap", allocContext |-> "thread", mimallocHeap |-> "thread",
     gcLockPerThread |-> "thread"]

(* The smallest object around a resource is the only one that meets the    *)
(* definition of Owner.                                                    *)
LEMMA OwnerIs ==
    \A r \in Names \ {"heap"} : Owner[r] = OwnerOf[r] /\ OwnerOf[r] \in Object
<1> SUFFICES ASSUME NEW r \in Names \ {"heap"}
             PROVE  Owner[r] = OwnerOf[r] /\ OwnerOf[r] \in Object
  OBVIOUS
<1> DEFINE Owns(o) ==
             /\ r \in Parts[o]
             /\ \A p \in Object \ {r} : r \in Parts[p] => Parts[o] \subseteq Parts[p]
<1>1. OwnerOf[r] \in Object \ {r}
  BY Objects DEF OwnerOf, Names, Place
<1>2. r \in Parts[OwnerOf[r]]
  <2>1. Place[OwnerOf[r]] <= Place[r] /\ Place[r] <= LastPlace[OwnerOf[r]]
    BY DEF OwnerOf, Names, Place, LastPlace
  <2> QED
    BY <1>1, <2>1, PartsAre
<1>3. ASSUME NEW p \in Object \ {r}, r \in Parts[p]
      PROVE  Place[p] <= Place[OwnerOf[r]] /\ LastPlace[OwnerOf[r]] <= LastPlace[p]
  <2>1. Place[p] <= Place[r] /\ Place[r] <= LastPlace[p]
    BY <1>3, PartsAre
  <2> QED
    BY <2>1, Objects DEF OwnerOf, Names, Place, LastPlace
<1>4. Owns(OwnerOf[r])
  <2> SUFFICES ASSUME NEW p \in Object \ {r}, r \in Parts[p],
                      NEW x \in Parts[OwnerOf[r]]
               PROVE  x \in Parts[p]
    BY <1>2
  <2>1. /\ x \in Names /\ Place[OwnerOf[r]] <= Place[x]
        /\ Place[x] <= LastPlace[OwnerOf[r]]
    BY <1>1, PartsAre
  <2>2. p \in Names /\ OwnerOf[r] \in Names
    BY <1>1, Objects
  <2>3. LastPlace[p] \in Int /\ LastPlace[OwnerOf[r]] \in Int
    BY <1>1, Objects, Places
  <2>4. Place[p] <= Place[x] /\ Place[x] <= LastPlace[p]
    BY <2>1, <2>2, <2>3, <1>3, Places
  <2> QED
    BY <2>1, <2>4, PartsAre
<1>5. ASSUME NEW o \in Object \ {r}, Owns(o) PROVE o = OwnerOf[r]
  <2>1. Parts[o] = Parts[OwnerOf[r]]
    BY <1>1, <1>4, <1>5
  <2>2. /\ o \in Names /\ OwnerOf[r] \in Names
        /\ o \in Parts[o] /\ OwnerOf[r] \in Parts[OwnerOf[r]]
    BY <1>1, PartsAre, Objects, Places
  <2>3. Place[OwnerOf[r]] <= Place[o]
    BY <2>1, <2>2, <1>1, PartsAre
  <2>4. Place[o] <= Place[OwnerOf[r]]
    BY <2>1, <2>2, PartsAre
  <2> QED
    BY <2>2, <2>3, <2>4, Places
<1>6. Owner[r] = CHOOSE o \in Object \ {r} : Owns(o)
  BY Objects DEF Owner
<1> HIDE DEF Owns
<1> QED
  BY <1>1, <1>4, <1>5, <1>6

(* The owners that the invariant tells apart: after the generation the     *)
(* heap and the thread, in the generation itself only objects of the       *)
(* generation.                                                             *)
LEMMA OwnerFacts ==
    /\ \A r \in Names \ {"heap"} : Owner[r] \in Object
    /\ \A r \in Names : 27 <= Place[r] => Owner[r] \in {"heap", "thread"}
    /\ \A r \in Names : 2 <= Place[r] /\ Place[r] <= 25 =>
          /\ Owner[r] # "thread"
          /\ Owner[r] = "heap" => Place[r] <= 3
    /\ Owner["generation"] = "heap"
<1>1. ASSUME NEW r \in Names, r # "heap"
      PROVE  /\ OwnerOf[r] \in Object
             /\ 27 <= Place[r] => OwnerOf[r] \in {"heap", "thread"}
             /\ Place[r] <= 25 => /\ OwnerOf[r] # "thread"
                                  /\ OwnerOf[r] = "heap" => Place[r] <= 3
  BY <1>1, Objects DEF OwnerOf, Names, Place
<1>2. "generation" \in Names /\ OwnerOf["generation"] = "heap"
  BY DEF OwnerOf, Names, Place
<1>3. ASSUME NEW r \in Names, 2 <= Place[r] PROVE r # "heap"
  BY <1>3, LandmarkPlaces
<1> QED
  BY <1>1, <1>2, <1>3, OwnerIs, LandmarkPlaces

(* An object is none of the other values of life.                          *)
LEMMA ObjectsNot ==
    /\ Object \intersect {"building", "up", "done", "crashed", "currentThread"} = {}
    /\ {"heap", "generation", "thread"} \subseteq Object
BY Objects

(* What belongs to the thread, what to the generation, and what is left    *)
LEMMA ThreadAndGeneration ==
    /\ Parts["thread"] = {"thread", "allocContext", "mimallocHeap", "gcLockPerThread"}
    /\ Parts["generation"] =
          Names \ ({"heap", "threadListLock", "ownerHeap", "currentThread"}
                       \union Parts["thread"])
    /\ "generation" \in Parts["generation"]
<1>1. /\ Parts["thread"] = {r \in Names : 28 <= Place[r] /\ Place[r] <= 31}
      /\ Parts["generation"] = {r \in Names : 3 <= Place[r] /\ Place[r] <= 25}
  BY PartsAre, Objects DEF Place, LastPlace
<1>2. /\ {r \in Names : 28 <= Place[r] /\ Place[r] <= 31} =
            {"thread", "allocContext", "mimallocHeap", "gcLockPerThread"}
      /\ {r \in Names : 3 <= Place[r] /\ Place[r] <= 25} =
            Names \ {"heap", "threadListLock", "ownerHeap", "currentThread", "thread",
                     "allocContext", "mimallocHeap", "gcLockPerThread"}
  BY DEF Names, Place
<1>3. "generation" \in Names /\ Place["generation"] = 3
  BY DEF Names, Place
<1> QED
  BY <1>1, <1>2, <1>3

-----------------------------------------------------------------------------
(* Begun holds the resources at the places up to acquired ...              *)
LEMMA InBegun ==
    ASSUME acquired \in 0 .. 31
    PROVE  /\ Begun \subseteq Names
           /\ \A r \in Names : r \in Begun <=> Place[r] <= acquired
BY First DEF Begun

(* ... so these resources are acquired one after the other.                *)
LEMMA Landmarks ==
    ASSUME acquired \in 0 .. 31
    PROVE  /\ "heap" \in Begun <=> 1 <= acquired
           /\ "generation" \in Begun <=> 3 <= acquired
           /\ "gcThread" \in Begun <=> 19 <= acquired
           /\ "statThread" \in Begun <=> 24 <= acquired
           /\ "driverThread" \in Begun <=> 25 <= acquired
           /\ "ownerHeap" \in Begun <=> 26 <= acquired
           /\ "gcLockPerThread" \in Begun <=> 31 <= acquired
<1>1. {"heap", "generation", "gcThread", "statThread", "driverThread", "ownerHeap",
       "gcLockPerThread"} \subseteq Names
  BY DEF Names, Place
<1> QED
  BY <1>1, InBegun, LandmarkPlaces

(* What a constructor under way acquires next                              *)
LEMMA WantedIs ==
    ASSUME acquired \in 0 .. 30
    PROVE  Wanted \in Names /\ Place[Wanted] = acquired + 1
<1>1. acquired + 1 \in 1 .. 31
  OBVIOUS
<1> QED
  BY <1>1, HeapNewPlaces DEF Wanted

-----------------------------------------------------------------------------
(* Until heap_new is done, the threads it has started are at rest, and     *)
(* heap_free lets each end before it goes on.                              *)
RestInv ==
    /\ mainPc = "new" =>
          /\ paused /\ ~quitRequested /\ gcRequest = "GC_NOOP"
          /\ gcPc \in {"take", "asleep"}
          /\ statPc = "run" /\ pc[driver] = "poll" /\ \A m \in Mutator : pc[m] = "idle"
    /\ mainPc = "running" => ~quitRequested
    /\ mainPc \in {"joinStat", "joinGc", "stopped"} => pc[driver] = "exit"
    /\ mainPc \in {"joinGc", "stopped"} => statPc = "exit"
    /\ mainPc = "stopped" => gcPc = "exit"

(* What FreeThreads gives back                                             *)
Detached == (({"currentThread"} \union Parts["thread"]) \intersect Begun) \ Kept

(* Only heap_free frees anything of a heap that has got its generation.    *)
WholeInv ==
    /\ life = "building" => mainPc = "new"
    /\ life = "up" <=> mainPc = "running"
    /\ life = "up" => acquired = Len(HeapNew)
    /\ life \in {"building", "up"} => freed = {}
    /\ mainPc # "new" => "ownerHeap" \in Begun
    /\ mainPc \in {"new", "running"} /\ "ownerHeap" \in Begun => freed = {}

(* A constructor that fails before that ends without a generation and      *)
(* without the driver, and one that fails later is that of the thread.     *)
FailInv ==
    mainPc = "new" /\ life # "building" =>
        /\ "ownerHeap" \in Begun =>
              life \in {"heap", "thread", "crashed"} /\ "gcLockPerThread" \notin Begun
        /\ "ownerHeap" \notin Begun =>
              /\ "driverThread" \notin Begun /\ life # "thread"
              /\ life = "heap" => "generation" \notin Built
        /\ life = "done" => acquired = 0

(* heap_free goes on in its order, and has given back what that order      *)
(* says.                                                                   *)
FreeInv ==
    mainPc \notin {"new", "running"} =>
        /\ life \in {"heap", "generation", "done"}
        /\ freed # {} \/ life # "heap" => mainPc = "stopped"
        /\ life = "heap" /\ "generation" \in Built => freed = {}
        /\ life = "generation" => freed = Detached
        /\ life = "heap" /\ "generation" \notin Built =>
              freed = Detached \union (Parts["generation"] \ Kept)
        /\ life = "done" => Built \subseteq Kept

(* What makes the three invariants of the life cycle inductive             *)
LifeInv == LifeTypeOK /\ RestInv /\ WholeInv /\ FailInv /\ FreeInv

-----------------------------------------------------------------------------
(* The threads rest and end as RestInv says, whatever each of them does.   *)
LEMMA RestInvNext == TypeOK /\ RestInv /\ [Next]_vars => RestInv'
<1> SUFFICES ASSUME TypeOK, RestInv, [Next]_vars PROVE RestInv'
  OBVIOUS
<1> USE DEF RestInv, requestVars, driverVars, endVars
<1>a. driver \in Caller /\ driver \notin Mutator /\ Mutator \subseteq Caller
  BY CallerAssumption DEF Caller
<1>b. \A c \in Caller : c # driver => c \in Mutator
  BY DEF Caller
<1>1. ASSUME NEW c \in Caller, StartCycleAsync(c) PROVE RestInv'
  BY <1>1, <1>a, <1>b, GoEffect DEF StartCycleAsync
<1>2. ASSUME NEW c \in Caller, PostRequest(c) PROVE RestInv'
  BY <1>2, <1>a, <1>b, GoEffect DEF PostRequest, CallGCAsync
<1>3. ASSUME NEW c \in Caller, SleepOnCycle(c) PROVE RestInv'
  BY <1>3, <1>a, <1>b, GoEffect DEF SleepOnCycle
<1>4. ASSUME NEW c \in Caller, WakeSpuriously(c) PROVE RestInv'
  BY <1>4, <1>a, <1>b, GoEffect DEF WakeSpuriously
<1>5. ASSUME NEW m \in Mutator, BeginAlloc(m) PROVE RestInv'
  BY <1>5, <1>a, <1>b, GoEffect DEF BeginAlloc
<1>6. ASSUME NEW m \in Mutator, BlockGc(m) PROVE RestInv'
  BY <1>6, <1>a, <1>b, GoEffect DEF BlockGc
<1>7. ASSUME NEW m \in Mutator, AllocUnit(m) PROVE RestInv'
  BY <1>7, <1>a, <1>b, GoEffect DEF AllocUnit
<1>8. ASSUME NEW m \in Mutator, RetryAlloc(m) PROVE RestInv'
  BY <1>8, <1>a, <1>b, GoEffect DEF RetryAlloc
<1>9. ASSUME NEW m \in Mutator, CycleDone(m) PROVE RestInv'
  BY <1>9, <1>a, <1>b, GoEffect DEF CycleDone
<1>10. ASSUME NEW m \in Mutator, FailAlloc(m) PROVE RestInv'
  BY <1>10, <1>a, <1>b, GoEffect DEF FailAlloc
<1>11. ASSUME NEW m \in Mutator, DropObject(m) PROVE RestInv'
  BY <1>11, <1>a, <1>b DEF DropObject
<1>12. ASSUME Collect PROVE RestInv'
  BY <1>12, <1>a, <1>b, GoEffect DEF Collect
<1>13. ASSUME TimeOut PROVE RestInv'
  BY <1>13, <1>a, <1>b, GoEffect DEF TimeOut
<1>14. ASSUME Pace PROVE RestInv'
  BY <1>14, <1>a, <1>b, GoEffect DEF Pace
<1>15. ASSUME CollectDone PROVE RestInv'
  BY <1>15, <1>a, <1>b, GoEffect DEF CollectDone
<1>16. ASSUME DriverQuit PROVE RestInv'
  BY <1>16, <1>a, <1>b, GoEffect DEF DriverQuit
<1>17. ASSUME StatQuit PROVE RestInv'
  BY <1>17, <1>a, <1>b DEF StatQuit
<1>18. ASSUME AwaitRequest PROVE RestInv'
  BY <1>18, <1>a, <1>b DEF AwaitRequest, GoGc
<1>19. ASSUME TakeRequest PROVE RestInv'
  BY <1>19, <1>a, <1>b DEF TakeRequest, GoGc
<1>20. ASSUME AskPause PROVE RestInv'
  BY <1>20, <1>a, <1>b DEF AskPause, GoGc
<1>21. ASSUME TakeSnapshot PROVE RestInv'
  BY <1>21, <1>a, <1>b DEF TakeSnapshot, GoGc
<1>22. ASSUME Sweep PROVE RestInv'
  BY <1>22, <1>a, <1>b DEF Sweep, GoGc
<1>23. ASSUME FinishCycle PROVE RestInv'
  BY <1>23, <1>a, <1>b DEF FinishCycle, GoGc
<1>24. ASSUME AnnounceCycle PROVE RestInv'
  BY <1>24, <1>a, <1>b DEF AnnounceCycle, GoGc, TypeOK
<1>25. ASSUME StoreStats PROVE RestInv'
  BY <1>25, <1>a, <1>b DEF StoreStats, GoGc
<1>26. ASSUME HeapReady PROVE RestInv'
  BY <1>26, <1>a, <1>b DEF HeapReady
<1>27. ASSUME HeapFree PROVE RestInv'
  BY <1>27, <1>a, <1>b DEF HeapFree
<1>28. ASSUME StopStatCollector PROVE RestInv'
  BY <1>28, <1>a, <1>b DEF StopStatCollector
<1>29. ASSUME StopGc PROVE RestInv'
  BY <1>29, <1>a, <1>b DEF StopGc, CallGCAsync
<1>30. ASSUME JoinGc PROVE RestInv'
  BY <1>30, <1>a, <1>b DEF JoinGc
<1>31. ASSUME QuitDriver PROVE RestInv'
  BY <1>31, <1>a, <1>b DEF QuitDriver
<1>32. CASE UNCHANGED vars
  BY <1>32 DEF vars
<1> QED
  BY <1>1, <1>2, <1>3, <1>4, <1>5, <1>6, <1>7, <1>8, <1>9, <1>10, <1>11, <1>12, <1>13,
     <1>14, <1>15, <1>16, <1>17, <1>18, <1>19, <1>20, <1>21, <1>22, <1>23, <1>24,
     <1>25, <1>26, <1>27, <1>28, <1>29, <1>30, <1>31, <1>32
  DEF Next, CallStep, AllocStep, DriverStep, CycleStep, ShutdownStep

(* What a destructor gives back is given back with all it owns.            *)
LEMMA GivesBackWhole ==
    ASSUME LifeInv, NEW o \in Object, GiveBack(o), acquired' = acquired
    PROVE  /\ freed' \subseteq Begun
           /\ \A p \in Object \intersect freed' :
                 (Parts[p] \intersect Built)' \subseteq Kept
<1>1. Begun' = Begun
  BY DEF Begun
<1>2. freed' = freed \union ((Parts[o] \intersect Begun) \ Kept)
  BY DEF GiveBack
<1>3. freed \subseteq Begun
  BY DEF LifeInv, LifeTypeOK
<1>4. ASSUME NEW p \in Object \intersect freed'
      PROVE  Parts[p] \intersect (Begun \ freed') \subseteq Kept
  <2>1. CASE p \in freed
    <3>1. Parts[p] \intersect (Begun \ freed) \subseteq Kept
      BY <2>1 DEF LifeInv, LifeTypeOK, Built
    <3> QED
      BY <3>1, <1>2
  <2>2. CASE p \in Parts[o]
    <3>1. Parts[p] \subseteq Parts[o]
      BY <2>2, PartsNest
    <3> QED
      BY <3>1, <1>2
  <2> QED
    BY <2>1, <2>2, <1>2
<1> QED
  BY <1>1, <1>2, <1>3, <1>4 DEF Built

(* Nothing is acquired at first.                                           *)
LEMMA LifeInvInit == LifeInit => LifeInv
<1> SUFFICES ASSUME LifeInit PROVE LifeInv
  OBVIOUS
<1>1. TypeOK
  BY InitTypes DEF LifeInit
<1>2. RestInv
  BY CallerAssumption DEF LifeInit, Init, RestInv, Caller
<1> QED
  BY <1>1, <1>2, HeapNewPlaces
  DEF LifeInit, Init, LifeInv, LifeTypeOK, WholeInv, FailInv, FreeInv

(* Acquiring one more resource keeps the invariant.                        *)
LEMMA AcquireKeeps ==
    ASSUME LifeInv, TypeOK', RestInv', Acquire PROVE LifeInv'
<1>1. /\ acquired \in 0 .. 30 /\ acquired' = acquired + 1 /\ life = "building"
      /\ freed = {} /\ mainPc = "new"
  BY HeapNewPlaces DEF LifeInv, Acquire, LifeTypeOK, WholeInv
<1>2. freed' = {} /\ life' = "building" /\ mainPc' = "new" /\ acquired' \in 0 .. 31
  BY <1>1 DEF Acquire, vars, endVars
<1> QED
  BY <1>1, <1>2, HeapNewPlaces DEF LifeInv, LifeTypeOK, WholeInv, FailInv, FreeInv

(* A failure hands over to the destructor of the owner of what is missing, *)
(* which is not the heap's if there is a generation without its pointer to *)
(* the heap.                                                               *)
LEMMA FailKeeps ==
    ASSUME LifeInv, TypeOK', RestInv', Fail PROVE LifeInv'
<1>1. /\ acquired \in 0 .. 30 /\ acquired' = acquired /\ life = "building"
      /\ freed = {} /\ mainPc = "new"
  BY HeapNewPlaces DEF LifeInv, Fail, LifeTypeOK, WholeInv
<1>2. freed' = {} /\ mainPc' = "new" /\ Begun' = Begun /\ Built' = Begun
  BY <1>1 DEF Fail, vars, endVars, Begun, Built
<1>3. Wanted \in Names /\ Place[Wanted] = acquired + 1 /\ Wanted # "ownerHeap"
  BY <1>1, WantedIs DEF Fail
<1>a. "heap" \in Names /\ "ownerHeap" \in Names
  BY DEF Names, Place
<1>4. acquired # 25
  BY <1>1, <1>3, <1>a, Places, LandmarkPlaces
<1>5. life' = IF Wanted = "heap" THEN "done" ELSE Owner[Wanted]
  BY DEF Fail
<1>6. Wanted = "heap" <=> acquired = 0
  BY <1>1, <1>3, <1>a, Places, LandmarkPlaces
<1>7. life' \in Object \union {"done"} /\ (life' = "done" <=> acquired = 0)
  BY <1>3, <1>5, <1>6, OwnerFacts, ObjectsNot
<1>8. "ownerHeap" \in Begun =>
        life' \in {"heap", "thread"} /\ "gcLockPerThread" \notin Begun
  BY <1>1, <1>3, <1>5, <1>6, OwnerFacts, Landmarks
<1>9. "ownerHeap" \notin Begun =>
        /\ "driverThread" \notin Begun /\ life' # "thread"
        /\ life' = "heap" => "generation" \notin Begun
  BY <1>1, <1>3, <1>4, <1>5, <1>6, OwnerFacts, Landmarks
<1>10. FailInv'
  BY <1>1, <1>2, <1>7, <1>8, <1>9 DEF FailInv
<1>11. LifeTypeOK' /\ WholeInv' /\ FreeInv'
  BY <1>1, <1>2, <1>7, ObjectsNot, HeapNewPlaces DEF LifeTypeOK, WholeInv, FreeInv
<1> QED
  BY <1>10, <1>11 DEF LifeInv

(* A destructor crashes only before heap_new has returned: later it finds  *)
(* the mutex it takes, and no thread on the lock's list.                   *)
LEMMA CrashesWhen ==
    ASSUME LifeInv, NEW o \in Object, Crash(o)
    PROVE  mainPc = "new" /\ life \notin {"building", "up"}
<1>1. life = o /\ life \notin {"building", "up", "done"}
  BY ObjectsNot DEF Crash
<1>2. mainPc # "running"
  BY <1>1 DEF LifeInv, WholeInv
<1>3. ASSUME mainPc # "new" PROVE FALSE
  <2>1. life \in {"heap", "generation"}
    BY <1>1, <1>2, <1>3 DEF LifeInv, FreeInv
  <2>2. CASE life = "heap"
    BY <2>2, <1>1, <1>3
    DEF Crash, GcLockFreeCrashes, ThreadFreeCrashes, StatCollectorFreeMayCrash,
        HeapFreeCrashes
  <2>3. CASE life = "generation"
    <3>1. freed = Detached
      BY <2>3, <1>2, <1>3 DEF LifeInv, FreeInv
    <3>2. acquired \in 0 .. 31 /\ 26 <= acquired
      BY <1>3, HeapNewPlaces, Landmarks DEF LifeInv, LifeTypeOK, WholeInv
    <3>3. "mutatorThreadsListLock" \in Begun
      BY <3>2, InBegun DEF Names, Place
    <3>4. "mutatorThreadsListLock" \in Built
      BY <3>1, <3>3, ThreadAndGeneration DEF Built, Detached
    <3>5. "gcLockPerThread" \notin Built
      BY <3>1, ThreadAndGeneration DEF Built, Detached, Kept
    <3> QED
      BY <2>3, <3>4, <3>5, <1>1, <1>3
      DEF Crash, GcLockFreeCrashes, ThreadFreeCrashes, StatCollectorFreeMayCrash,
          HeapFreeCrashes
  <2> QED
    BY <2>1, <2>2, <2>3
<1> QED
  BY <1>1, <1>3

(* A crash before heap_new has returned keeps the invariant.               *)
LEMMA CrashKeeps ==
    ASSUME LifeInv, TypeOK', RestInv', NEW o \in Object, Crash(o) PROVE LifeInv'
<1>1. mainPc = "new" /\ life \notin {"building", "up"}
  BY CrashesWhen
<1>2. /\ mainPc' = mainPc /\ life' = "crashed" /\ acquired' = acquired
      /\ freed' = freed /\ Begun' = Begun /\ Built' = Built
  BY DEF Crash, vars, endVars, Begun, Built
<1>3. LifeTypeOK'
  BY <1>2 DEF LifeInv, LifeTypeOK
<1>4. WholeInv' /\ FailInv' /\ FreeInv'
  BY <1>1, <1>2 DEF LifeInv, WholeInv, FailInv, FreeInv
<1> QED
  BY <1>3, <1>4 DEF LifeInv

(* A destructor leaves all to its owner's: while heap_new fails that is    *)
(* the heap's only when the generation is gone, and in heap_free it is the *)
(* generation's that runs.                                                 *)
LEMMA FreeObjectKeeps ==
    ASSUME LifeInv, TypeOK', RestInv', NEW o \in Object \ {"heap"}, FreeObject(o)
    PROVE  LifeInv'
<1>1. life = o /\ life \notin {"building", "up", "done", "heap"}
  BY ObjectsNot DEF FreeObject
<1>2. /\ mainPc' = mainPc /\ life' = Owner[o] /\ acquired' = acquired
      /\ Begun' = Begun /\ Built' = Begun \ freed'
      /\ freed' = freed \union ((Parts[o] \intersect Begun) \ Kept)
  BY DEF FreeObject, GiveBack, vars, endVars, Begun, Built
<1>3. o \in Names /\ acquired \in 0 .. 31
  BY Objects, HeapNewPlaces DEF LifeInv, LifeTypeOK
<1>4. Owner[o] \in Object /\ life' \notin {"building", "up", "done", "crashed"}
  BY <1>2, <1>3, OwnerFacts, ObjectsNot
<1>5. LifeTypeOK'
  <2>1. acquired' \in 0 .. Len(HeapNew)
    BY <1>2 DEF LifeInv, LifeTypeOK
  <2>2. GiveBack(o)
    BY DEF FreeObject
  <2> QED
    BY <2>1, <2>2, <1>2, <1>4, GivesBackWhole DEF LifeTypeOK
<1>6. mainPc # "running"
  BY <1>1 DEF LifeInv, WholeInv
<1>7. CASE mainPc = "new"
  <2>1. "ownerHeap" \notin Begun
    <3> SUFFICES ASSUME "ownerHeap" \in Begun PROVE FALSE
      OBVIOUS
    <3>1. life = "thread" /\ "gcLockPerThread" \notin Begun
      BY <1>1, <1>7, ObjectsNot DEF LifeInv, FailInv, FreeObject
    <3> QED
      BY <3>1, <1>1 DEF FreeObject, ThreadFreeCrashes, Built
  <2>2. life # "thread" /\ "driverThread" \notin Begun
    BY <2>1, <1>1, <1>7 DEF LifeInv, FailInv
  <2>3. o # "thread" => Owner[o] # "thread" /\ (Owner[o] = "heap" => o = "generation")
    BY <1>3, Objects, OwnerIs DEF OwnerOf, Names, Place
  <2>4. life' = "heap" => "generation" \notin Built'
    <3>1. "generation" \in Parts["generation"] /\ "generation" \notin Kept
      BY ThreadAndGeneration DEF Kept
    <3> QED
      BY <3>1, <1>1, <1>2, <2>2, <2>3
  <2>5. FailInv'
    BY <1>2, <1>4, <2>1, <2>2, <2>3, <2>4, <1>1 DEF FailInv
  <2>6. WholeInv' /\ FreeInv'
    BY <1>2, <1>4, <1>7, <2>1 DEF LifeInv, WholeInv, FreeInv
  <2> QED
    BY <1>5, <2>5, <2>6 DEF LifeInv
<1>8. CASE mainPc # "new"
  <2>1. /\ life = "generation" /\ freed = Detached /\ mainPc = "stopped"
        /\ "ownerHeap" \in Begun
    BY <1>1, <1>6, <1>8 DEF LifeInv, FreeInv, WholeInv
  <2>2. life' = "heap"
    BY <2>1, <1>1, <1>2, OwnerFacts
  <2>3. Detached' = Detached
    BY <1>2 DEF Detached
  <2>4. Parts["generation"] \subseteq Begun
    <3>1. 26 <= acquired
      BY <2>1, <1>3, Landmarks
    <3>2. ASSUME NEW x \in Parts["generation"]
          PROVE  x \in Names /\ Place[x] <= 25 /\ Place[x] \in 1 .. 31
      BY PartsAre, ObjectsNot, Places DEF LastPlace
    <3> QED
      BY <3>1, <3>2, <1>3, InBegun
  <2>5. freed' = Detached \union (Parts["generation"] \ Kept)
    BY <2>1, <2>4, <1>1, <1>2
  <2>6. "generation" \notin Built'
    BY <2>5, <1>2, ThreadAndGeneration DEF Kept
  <2>7. WholeInv' /\ FailInv' /\ FreeInv'
    BY <1>2, <1>6, <1>8, <2>1, <2>2, <2>3, <2>5, <2>6
    DEF LifeInv, WholeInv, FailInv, FreeInv
  <2> QED
    BY <1>5, <2>7 DEF LifeInv
<1> QED
  BY <1>7, <1>8

(* The heap is up when all is acquired.                                    *)
LEMMA HeapNewReturnsKeeps ==
    ASSUME LifeInv, TypeOK', RestInv', HeapNewReturns PROVE LifeInv'
<1>1. /\ life = "building" /\ acquired = 31 /\ freed = {} /\ mainPc = "new"
      /\ mainPc' = "running" /\ life' = "up" /\ acquired' = 31 /\ freed' = {}
  BY HeapNewPlaces DEF LifeInv, WholeInv, HeapNewReturns, HeapReady
<1>2. Begun' = Begun /\ "ownerHeap" \in Begun
  BY <1>1, Landmarks DEF Begun
<1> QED
  BY <1>1, <1>2, HeapNewPlaces DEF LifeInv, LifeTypeOK, WholeInv, FailInv, FreeInv

(* heap_free begins with a heap of which nothing is given back.            *)
LEMMA HeapFreeCalledKeeps ==
    ASSUME LifeInv, TypeOK', RestInv', HeapFreeCalled PROVE LifeInv'
<1>1. /\ acquired' = acquired /\ freed' = freed /\ life' = "heap"
      /\ mainPc' = "unpaused" /\ Begun' = Begun /\ Built' = Built
  BY DEF HeapFreeCalled, HeapFree, Begun, Built
<1>2. acquired \in 0 .. 31
  BY HeapNewPlaces DEF LifeInv, LifeTypeOK
<1>3. "ownerHeap" \in Begun /\ freed = {}
  <2>1. CASE life = "up"
    BY <2>1, <1>2, HeapNewPlaces, Landmarks DEF LifeInv, WholeInv
  <2>2. CASE life = "heap" /\ mainPc = "new" /\ ~HeapFreeCrashes("heap")
    <3>1. "ownerHeap" \in Begun
      BY <2>2 DEF LifeInv, FailInv, HeapFreeCrashes
    <3> QED
      BY <3>1, <2>2 DEF LifeInv, WholeInv
  <2> QED
    BY <2>1, <2>2 DEF HeapFreeCalled
<1>4. "generation" \in Built
  BY <1>2, <1>3, Landmarks DEF Built
<1>5. LifeTypeOK'
  BY <1>1, <1>3, ObjectsNot DEF LifeInv, LifeTypeOK
<1> QED
  BY <1>1, <1>3, <1>4, <1>5, ObjectsNot DEF LifeInv, WholeInv, FailInv, FreeInv

(* Removing the threads gives back all of theirs.                          *)
LEMMA FreeThreadsKeeps ==
    ASSUME LifeInv, TypeOK', RestInv', FreeThreads PROVE LifeInv'
<1>1. /\ life = "heap" /\ mainPc = "stopped" /\ "generation" \in Built /\ freed = {}
      /\ "ownerHeap" \in Begun
  BY DEF LifeInv, WholeInv, FreeInv, FreeThreads
<1>2. /\ acquired' = acquired /\ freed' = Detached /\ life' = "generation"
      /\ mainPc' = "stopped" /\ Begun' = Begun
      /\ Built' = Begun \ freed' /\ Detached' = Detached
  BY <1>1 DEF FreeThreads, vars, endVars, Begun, Built, Detached
<1>3. \A o \in Object \intersect Detached : o = "thread"
  BY Objects, ThreadAndGeneration DEF Detached
<1>4. Parts["thread"] \intersect (Begun \ Detached) \subseteq Kept
  BY DEF Detached
<1>5. LifeTypeOK'
  BY <1>2, <1>3, <1>4, ObjectsNot DEF LifeInv, LifeTypeOK, Detached
<1>6. WholeInv' /\ FailInv' /\ FreeInv'
  BY <1>1, <1>2 DEF LifeInv, WholeInv, FailInv, FreeInv
<1> QED
  BY <1>5, <1>6 DEF LifeInv

(* After the threads and the generation only the heap's own things are     *)
(* left.                                                                   *)
LEMMA FreeHeapKeeps ==
    ASSUME LifeInv, TypeOK', RestInv', FreeHeap PROVE LifeInv'
<1>1. /\ life = "heap" /\ mainPc = "stopped" /\ "generation" \notin Built
      /\ "ownerHeap" \in Begun
      /\ freed = Detached \union (Parts["generation"] \ Kept)
  BY DEF LifeInv, WholeInv, FreeInv, FreeHeap
<1>2. /\ acquired' = acquired
      /\ freed' = freed \union {"heap", "threadListLock", "ownerHeap"}
      /\ life' = "done" /\ mainPc' = "stopped" /\ Begun' = Begun
      /\ Built' = Begun \ freed'
  BY <1>1 DEF FreeHeap, vars, endVars, Begun, Built
<1>3. acquired \in 0 .. 31 /\ freed \subseteq Begun
  BY HeapNewPlaces DEF LifeInv, LifeTypeOK
<1>4. {"heap", "threadListLock", "ownerHeap"} \subseteq Begun
  BY <1>1, <1>3, Landmarks, InBegun, LandmarkPlaces DEF Names, Place
<1>5. Begun \ freed' \subseteq Kept
  <2>1. Names \subseteq {"heap", "threadListLock", "ownerHeap", "currentThread"}
                          \union Parts["thread"] \union Parts["generation"]
    BY ThreadAndGeneration DEF Names, Place
  <2>2. Begun \subseteq Names
    BY <1>3, InBegun
  <2> QED
    BY <2>1, <2>2, <1>1, <1>2 DEF Detached
<1>6. LifeTypeOK'
  BY <1>2, <1>3, <1>4, <1>5 DEF LifeInv, LifeTypeOK
<1>7. WholeInv' /\ FailInv' /\ FreeInv'
  BY <1>1, <1>2, <1>5, ObjectsNot DEF LifeInv, WholeInv, FailInv, FreeInv
<1> QED
  BY <1>6, <1>7 DEF LifeInv

(* The threads leave heap_new where it is, and heap_free where it is or    *)
(* bring it closer to its end.                                             *)
LEMMA ServeMain ==
    ASSUME TypeOK, Serve
    PROVE  \/ mainPc' = mainPc
           \/ /\ mainPc \notin {"new", "running", "stopped"}
              /\ mainPc' \notin {"new", "running"}
<1> USE DEF endVars
<1>1. CASE UNCHANGED mainPc
  BY <1>1
<1>2. CASE ShutdownStep \/ HeapReady \/ HeapFree
  BY <1>2
  DEF ShutdownStep, HeapReady, HeapFree, QuitDriver, StatQuit, StopStatCollector,
      StopGc, JoinGc, Serve, TypeOK, MainPcs
<1> QED
  BY <1>1, <1>2
  DEF Serve, Next, CallStep, StartCycleAsync, PostRequest, SleepOnCycle,
      WakeSpuriously,
     AllocStep, BeginAlloc, DropObject, BlockGc, AllocUnit, RetryAlloc, CycleDone,
     FailAlloc, Collect, TimeOut, DriverStep, Pace, CollectDone, DriverQuit,
     AwaitRequest, CycleStep, TakeRequest, AskPause, TakeSnapshot, Sweep, FinishCycle,
     AnnounceCycle, StoreStats

(* The threads acquire and give back nothing.                              *)
LEMMA ServeKeeps ==
    ASSUME LifeInv, TypeOK', RestInv', Serve \/ UNCHANGED <<vars, lifeVars>>
    PROVE  LifeInv'
<1>1. \/ mainPc' = mainPc
      \/ /\ mainPc \notin {"new", "running", "stopped"}
         /\ mainPc' \notin {"new", "running"}
  BY ServeMain DEF LifeInv, LifeTypeOK, vars, endVars
<1>2. /\ acquired' = acquired /\ freed' = freed /\ life' = life /\ Begun' = Begun
      /\ Built' = Built
      /\ Detached' = Detached
  BY DEF Serve, lifeVars, Begun, Built, Detached
<1>3. LifeTypeOK'
  BY <1>2 DEF LifeInv, LifeTypeOK
<1>4. WholeInv' /\ FailInv' /\ FreeInv'
  BY <1>1, <1>2 DEF LifeInv, WholeInv, FailInv, FreeInv
<1> QED
  BY <1>3, <1>4 DEF LifeInv

(* Every step of heap_new, heap_free and the threads keeps the invariant.  *)
LEMMA LifeInvariant == LifeSpec => []LifeInv
<1>1. LifeInv /\ TypeOK' /\ [LifeNext]_<<vars, lifeVars>> => LifeInv'
  <2> SUFFICES ASSUME LifeInv, TypeOK', [LifeNext]_<<vars, lifeVars>> PROVE LifeInv'
    OBVIOUS
  <2>1. RestInv'
    BY RestInvNext, LifeStepIs DEF LifeInv, LifeTypeOK
  <2> QED
    BY <2>1, AcquireKeeps, FailKeeps, CrashKeeps, FreeObjectKeeps,
       HeapNewReturnsKeeps, HeapFreeCalledKeeps,
       FreeThreadsKeeps, FreeHeapKeeps, ServeKeeps DEF LifeNext, LifeStep
<1>2. LifeSpec => []TypeOK
  BY LifeRefines, TypeCorrect, PTL
<1> QED
  BY <1>1, <1>2, LifeInvInit, PTL DEF LifeSpec

-----------------------------------------------------------------------------
(* Through every construction, failure and destruction an object that is   *)
(* given back takes all it owns with it, but what mimalloc keeps: no       *)
(* constructor or destructor loses anything.                               *)
THEOREM LifeTypes == LifeSpec => []LifeTypeOK
<1>1. LifeInv => LifeTypeOK
  BY DEF LifeInv
<1> QED
  BY <1>1, LifeInvariant, PTL

(* Once heap_new has returned, heap_free neither goes through a missing    *)
(* pointer nor panics ("Not all mutator stopped!"), whatever the threads   *)
(* were doing; the same holds for the heap_free that heap_new calls when   *)
(* there is a generation.                                                  *)
THEOREM FreeingIsSafe == LifeSpec => []FreeNeverCrashes
<1>1. LifeInv => FreeNeverCrashes
  BY ObjectsNot DEF LifeInv, WholeInv, FreeInv, FreeNeverCrashes
<1> QED
  BY <1>1, LifeInvariant, PTL

(* What the threads use is acquired before they are, as long as they rest, *)
(* and before heap_new lets them go.                                       *)
LEMMA UsesAreBegun ==
    ASSUME acquired \in 0 .. 31
    PROVE  /\ "gcThread" \in Begun =>
                 {"gcState", "gcRequestLock", "gcRequestedCond"} \subseteq Begun
           /\ "driverThread" \in Begun => "gcDriver" \in Begun
           /\ "statThread" \in Begun => "statCollector" \in Begun
           /\ "ownerHeap" \in Begun =>
                 {"heap", "threadListLock", "ownerHeap"} \union Parts["generation"]
                    \subseteq Begun
           /\ "gcLockPerThread" \in Begun => ThreadUses \subseteq Begun
<1>1. ASSUME NEW n \in 0 .. 31, n <= acquired
      PROVE  \A r \in Names : Place[r] <= n => r \in Begun
  BY <1>1, InBegun, Places
<1>2. /\ {"gcState", "gcRequestLock", "gcRequestedCond", "gcDriver", "statCollector",
          "heap", "threadListLock", "ownerHeap"} \subseteq Names
      /\ ThreadUses \subseteq Names
  BY DEF Names, Place, ThreadUses
<1>3. /\ Place["gcState"] = 7 /\ Place["gcRequestLock"] = 14
      /\ Place["gcRequestedCond"] = 15
      /\ Place["gcDriver"] = 20 /\ Place["statCollector"] = 22
  BY DEF Place
<1>4. \A r \in Parts["generation"] : r \in Names /\ Place[r] <= 25
  BY PartsAre, ObjectsNot DEF LastPlace
<1>5. "gcThread" \in Begun =>
        {"gcState", "gcRequestLock", "gcRequestedCond"} \subseteq Begun
  BY <1>2, <1>3, InBegun, Landmarks
<1>6. "driverThread" \in Begun => "gcDriver" \in Begun
  BY <1>2, <1>3, InBegun, Landmarks
<1>7. "statThread" \in Begun => "statCollector" \in Begun
  BY <1>2, <1>3, InBegun, Landmarks
<1>8. ASSUME "ownerHeap" \in Begun
      PROVE  {"heap", "threadListLock", "ownerHeap"} \union Parts["generation"]
                \subseteq Begun
  <2>1. 26 <= acquired
    BY <1>8, Landmarks
  <2>2. \A r \in Names : Place[r] <= 26 => r \in Begun
    BY <1>1, <2>1
  <2>3. \A r \in Names : Place[r] \in 1 .. 31
    BY Places
  <2> QED
    BY <1>2, <1>4, <2>2, <2>3, LandmarkPlaces
<1>9. "gcLockPerThread" \in Begun => ThreadUses \subseteq Begun
  BY <1>2, InBegun, Places, Landmarks
<1> QED
  BY <1>5, <1>6, <1>7, <1>8, <1>9

(* All that the threads use is the generation's, or the heap's own.        *)
LEMMA UsesAreShared ==
    /\ GcUses \subseteq {"heap", "threadListLock", "ownerHeap"} \union Parts["generation"]
    /\ DriverUses \union StatCollectorUses \subseteq Parts["generation"]
<1>1. {"gcState", "allocTracker", "gcRequestLock", "gcRequestedCond", "gcDriver",
       "cycleStatusLock", "invokeCycleDoneEvent", "triggerThresholdSamples",
       "statCollector", "allocRateSamples"} \subseteq Parts["generation"]
  BY ThreadAndGeneration DEF Names, Place
<1>2. /\ Parts["allocTracker"] \subseteq Parts["generation"]
      /\ Parts["gcState"] \subseteq Parts["generation"]
  BY <1>1, PartsNest, Objects
<1> QED
  BY <1>1, <1>2, ThreadAndGeneration DEF GcUses, DriverUses, StatCollectorUses

(* No thread that heap_new has started uses what is not there yet, or what *)
(* heap_free has given back already, and a thread that is attached can be  *)
(* detached; the one exception is a heap_new that fails with the GC thread *)
(* started and no driver (Abandoned).                                      *)
THEOREM ThreadsAreSafe == LifeSpec => []ThreadsUseWhatExists
<1>1. LifeInv => ThreadsUseWhatExists
  <2> SUFFICES ASSUME LifeInv, ~Abandoned
               PROVE  /\ "gcThread" \in Begun /\ gcPc # "exit" => GcUses \subseteq Built
                      /\ "driverThread" \in Begun /\ pc[driver] # "exit" => DriverUses \subseteq Built
                      /\ "statThread" \in Begun /\ statPc # "exit" => StatCollectorUses \subseteq Built
                      /\ "gcLockPerThread" \in Built => ThreadUses \subseteq Built
    BY DEF ThreadsUseWhatExists
  <2>1. acquired \in 0 .. 31
    BY HeapNewPlaces DEF LifeInv, LifeTypeOK
  <2>2. CASE mainPc = "new" /\ freed = {}
    <3>1. gcPc \in {"take", "asleep"} /\ paused /\ pc[driver] = "poll"
      BY <2>2 DEF LifeInv, RestInv
    <3>2. Built = Begun
      BY <2>2 DEF Built
    <3> QED
      BY <2>1, <3>1, <3>2, UsesAreBegun DEF GcUses, DriverUses, StatCollectorUses
  <2>3. CASE mainPc = "new" /\ freed # {}
    <3>1. life # "building" /\ "ownerHeap" \notin Begun
      BY <2>3 DEF LifeInv, WholeInv
    <3>2. "driverThread" \notin Begun /\ "gcThread" \notin Begun
      BY <2>3, <3>1 DEF LifeInv, FailInv, Abandoned
    <3>3. "statThread" \notin Begun /\ "gcLockPerThread" \notin Begun
      BY <2>1, <3>1, <3>2, Landmarks
    <3> QED
      BY <3>2, <3>3 DEF Built
  <2>4. CASE mainPc # "new" /\ freed = {}
    <3>1. "ownerHeap" \in Begun /\ Built = Begun
      BY <2>4 DEF LifeInv, WholeInv, Built
    <3> QED
      BY <2>1, <3>1, UsesAreBegun, UsesAreShared
  <2>5. CASE mainPc # "new" /\ freed # {}
    <3>1. mainPc = "stopped"
      BY <2>5 DEF LifeInv, WholeInv, FreeInv
    <3>2. gcPc = "exit" /\ pc[driver] = "exit" /\ statPc = "exit"
      BY <3>1 DEF LifeInv, RestInv
    <3>3. "gcLockPerThread" \notin Built
      <4>1. "gcLockPerThread" \in Parts["thread"] /\ "gcLockPerThread" \notin Kept
        BY ThreadAndGeneration DEF Kept
      <4> QED
        BY <2>5, <3>1, <4>1 DEF LifeInv, FreeInv, Built, Detached
    <3> QED
      BY <3>2, <3>3
  <2> QED
    BY <2>2, <2>3, <2>4, <2>5
<1> QED
  BY <1>1, LifeInvariant, PTL
=============================================================================
