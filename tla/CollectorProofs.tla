-------------------------- MODULE CollectorProofs --------------------------
(***************************************************************************)
(* The collector's safety properties, for any threads, blocks, queues and  *)
(* number of cycles.                                                       *)
(*                                                                         *)
(* The inductive invariants, on top of BaseInv and KnownInv, each resting  *)
(* on those before it:                                                     *)
(*   QuietInv   which barriers can still be under way in which phase       *)
(*   TraceInv   what the tracer has visited, and has yet to visit          *)
(*   SweepInv   what the sweep leaves behind it                            *)
(*   SoundInv   what is marked was reachable                               *)
(*   KeepInv    what is reachable is marked by the time of the sweep       *)
(*   GoodInv    what is reachable is not freed                             *)
(* BaseInv, KnownInv and QuietInv are HeapInv.                             *)
(***************************************************************************)
EXTENDS CollectorTypeProofs

USE DEF blockVars, threadVars, flagVars, snapshotVars, remarkVars, cycleVars,
        noteVars, historyVars, rootVars, queueVars, traceVars, gcVars, lockVars

(* Barriers that push are within marking, unless one was late or a thread  *)
(* stray; what they push is gone by the end of the remark phase.           *)
Emptied ==
    \/ gcPc \notin {"mark", "drain", "copy"}
    \/ gcPc = "copy" /\ ~strayThread

QuietInv ==
    /\ ~lateBarrier /\ AfterMarking => \A t \in Thread : thread[t].pc \notin InBarrier
    /\ ~lateBarrier /\ gcPc \notin {"copy", "mark"} =>
          \A t \in Thread : thread[t].pc \notin PastLoad
    /\ gcPc \in {"idle", "enter"} => \A t \in threads : thread[t].pc \notin PastLoad
    /\ ~strayThread /\ (gcPc = "mark" \/ (gcPc = "copy" /\ ~lateBarrier)) =>
          /\ \A t \in Thread : thread[t].pc \in Pushing => t \in threads
          /\ \A t \in Thread : thread[t].pc = "compare" => thread[t].prevMarkBit = GCMarkedBitValue
    /\ gcPc = "mark" => \A t \in threads :
          thread[t].pc = "bump" => thread[t].usageRead = thread[t].localRemarkBufferUsage
    /\ ~lateBarrier /\ Emptied =>
          needRemarkQueue = <<>>
    /\ ~lateBarrier /\ gcPc \notin {"local", "localChunk"} /\ Emptied =>
          \A t \in threads : thread[t].localRemarkBufferUsage = 0
    /\ ~lateBarrier /\ gcPc \in {"local", "localChunk"} =>
          \A t \in threads : t \in localLeft \/ thread[t].localRemarkBufferUsage = 0
    /\ lateBarrier \/ strayThread => breached

(* An edge of the snapshot is never lost between the mutators and the     *)
(* tracer: the tricolour invariant, in every phase until the sweep.  A     *)
(* local buffer counts for as long as the remark phase has it to read.     *)
StillToCome ==
    CASE gcPc = "local" -> localLeft
      [] gcPc = "localChunk" -> localLeft \ {localThread}
      [] OTHER -> threads

Pending(o) ==
    \/ \E i \in DOMAIN needRemarkQueue : needRemarkQueue[i] = o
    \/ \E i \in DOMAIN chunk : chunk[i] = o
    \/ \E t \in StillToCome :
          \/ \E i \in 0 .. LocalBufferSize - 1 :
                i < thread[t].localRemarkBufferUsage /\ thread[t].localRemarkBuffer[i] = o
          \/ thread[t].pc \in Pushing /\ thread[t].obj = o

(* A slot that the tracer has yet to read.                                 *)
Owed(o, s) ==
    \/ ~Mark!Marked(o)
    \/ Pending(o)
    \/ markPc = "scan" /\ scan.block = o /\ s >= Mark!CurrentSlot
    \/ \E i \in DOMAIN deferredMarkQueue :
          /\ deferredMarkQueue[i].block = o
          /\ s >= deferredMarkQueue[i].fieldIndex \/ s >= FieldCount[o]

EdgeOK(o, s) ==
    \/ snapshotField[o][s] = NULL
    \/ Secured(snapshotField[o][s])
    \/ field[o][s] = snapshotField[o][s] /\ Owed(o, s)

Traceable ==
    gcPc \in Tracing /\ markPc # "panic" /\ ~strayThread /\ (gcPc # "mark" => ~lateBarrier)

EdgesInv ==
    Traceable => \A o \in objectsListSnapshot \ premarked : \A s \in Mark!Slots(o) : EdgeOK(o, s)

(* A block being visited, or whose visit was put off, is marked. *)
VisitedInv ==
    /\ markPc = "scan" => scan.block \in Known /\ Mark!Marked(scan.block)
    /\ \A i \in DOMAIN deferredMarkQueue :
          deferredMarkQueue[i].block \in Known /\ Mark!Marked(deferredMarkQueue[i].block)

Queued(o) == \E i \in DOMAIN gcMarkQueueUwU : gcMarkQueueUwU[i] = o

(* The roots of the snapshot are marked, or the tracer has yet to take     *)
(* them; a null in its queue is a null root.                               *)
RootsInv ==
    gcPc \in Tracing =>
        /\ \A r \in snapshotOfRootSet :
              \/ r \in rootsLeft \/ Queued(r)
              \/ r \in Obj /\ Mark!Marked(r)
        /\ \A p \in premarked : Queued(p) \/ Mark!Marked(p)
        /\ NULL \in rootsLeft \/ Queued(NULL) => NULL \in snapshotOfRootSet

(* What the sweep has passed and kept is marked.                           *)
SweepInv ==
    gcPc \in {"sweep", "finish"} =>
        \A o \in objectsListSnapshot \ toSweep : o \in Live => Mark!Marked(o)

(* Nothing is marked, read or put in a queue but what the snapshot leads   *)
(* to and what is newer: for every set closed at the snapshot, ...         *)
SnapClosed(S) ==
    /\ snapshotOfRootSet \subseteq S \union {NULL}
    /\ \A o \in S : \A s \in Mark!Slots(o) : snapshotField[o][s] \in S \union {NULL}

SoundFor(S) ==
    /\ Holds(S \union (Obj \ objectsListSnapshot))
    /\ InHand(S \union (Obj \ objectsListSnapshot))
    /\ \A o \in objectsListSnapshot \intersect Live : Mark!Marked(o) => o \in S \union premarked

SoundInv ==
    gcPc \in Cycle /\ ~lateBarrier /\ ~strayThread =>
        \A S \in SUBSET objectsListSnapshot : SnapClosed(S) => SoundFor(S)

(* ... and the set K of what the running program can reach is among it:    *)
(* what a tracer that stops at the blocks left marked reaches covers K, so *)
(* the sweep keeps all of K.                                               *)
WhiteClosed(M) ==
    /\ snapshotOfRootSet \subseteq M \union {NULL}
    /\ \A o \in (M \intersect objectsListSnapshot) \ premarked :
          \A s \in Mark!Slots(o) : snapshotField[o][s] \in M \union {NULL}

KeptBy(K) ==
    /\ SnapClosed(K)
    /\ gcPc \in Tracing => \A M \in SUBSET Obj : WhiteClosed(M) => K \subseteq M \union premarked
    /\ gcPc \in {"sweep", "finish"} => \A o \in K : Mark!Marked(o)

KeepInv == gcPc \in Cycle /\ ~breached => \E K \in SUBSET objectsListSnapshot : KeptBy(K)

(* No reference of the program or the tracer leads to a freed block.       *)
GoodInv ==
    ~breached => \E G \in SUBSET Live : Holds(G) /\ InHand(G)

-----------------------------------------------------------------------------
(* Barriers in the phases *)
LEMMA NoPushing ==
    ASSUME BaseInv, QuietInv, ~lateBarrier, Emptied, NEW t \in Thread
    PROVE  thread[t].pc \notin Pushing
<1>1. CASE gcPc = "copy"
  <2>1. holders = {} /\ ThreadOK(t)
    BY <1>1, BaseParts DEF PhaseInv, ThreadInv
  <2>2. t \in threads => thread[t].pc \notin InBarrier
    BY <2>1 DEF ThreadOK
  <2>3. ~strayThread
    BY <1>1 DEF Emptied
  <2> QED
    BY <1>1, <2>2, <2>3 DEF QuietInv, Pushing, InBarrier
<1>2. CASE gcPc # "copy"
  <2>1. gcPc \notin {"copy", "mark"}
    BY <1>2 DEF Emptied
  <2> QED
    BY <2>1 DEF QuietInv, PastLoad
<1> QED
  BY <1>1, <1>2

(* Without a lock holder, and no exchange or push left, the buffers are at *)
(* rest.                                                                   *)
LEMMA QuietThread ==
    ASSUME BaseInv, BaseInv', QuietInv, NEW t \in Thread, StepOf(t)
    PROVE  QuietInv'
<1>0. /\ PhaseInv /\ UNCHANGED <<gcPc, markingInProgress, localLeft>>
      /\ \A u \in Thread : u # t => thread'[u] = thread[u] /\ (u \in threads' <=> u \in threads)
      /\ NoteStep(t) /\ PcStep(t) /\ ListStep(t) /\ BufferStep(t)
      /\ threads \subseteq Thread
  BY BaseParts DEF StepOf, HeapStep, ListStep, OnlyThread, ThreadType
<1>t. threads' \subseteq Thread
  BY DEF BaseInv, TypeOK
<1>n. /\ lateBarrier => lateBarrier'
      /\ strayThread => strayThread'
      /\ lateBarrier' => lateBarrier \/ breached'
      /\ strayThread' => strayThread \/ breached'
      /\ breached => breached'
      /\ AfterMarking' <=> AfterMarking
      /\ Emptied' => Emptied
  BY <1>0 DEF NoteStep, AfterMarking, Emptied
<1>1. ASSUME ~lateBarrier', AfterMarking, NEW u \in Thread PROVE thread'[u].pc \notin InBarrier
  <2>1. ~lateBarrier /\ thread[u].pc \notin InBarrier
    BY <1>1, <1>n DEF QuietInv
  <2> QED
    BY <1>0, <1>1, <2>1 DEF PcStep
<1>2. ASSUME NEW u \in Thread, thread'[u].pc \in PastLoad, gcPc \notin {"copy", "mark"}
      PROVE  thread[u].pc \in PastLoad
  <2>1. ~markingInProgress
    BY <1>0, <1>2 DEF PhaseInv
  <2> QED
    BY <1>0, <1>2, <2>1 DEF PcStep, PastLoad
<1>3. ASSUME ~lateBarrier', gcPc \notin {"copy", "mark"}, NEW u \in Thread
      PROVE  thread'[u].pc \notin PastLoad
  BY <1>2, <1>3, <1>n DEF QuietInv
<1>4. ASSUME gcPc \in {"idle", "enter"}, NEW u \in threads' PROVE thread'[u].pc \notin PastLoad
  <2>1. CASE u \in threads
    BY <1>0, <1>2, <1>4, <2>1 DEF QuietInv
  <2>2. CASE u \notin threads
    BY <1>0, <1>t, <2>2 DEF ListStep, PastLoad, Pushing
  <2> QED
    BY <2>1, <2>2
<1>5. ASSUME ~strayThread', gcPc = "mark" \/ (gcPc = "copy" /\ ~lateBarrier'), NEW u \in Thread,
             thread'[u].pc \in Pushing
      PROVE  u \in threads'
  <2>1. thread[u].pc \in Pushing => u \in threads
    BY <1>5, <1>n DEF QuietInv
  <2>2. CASE u # t
    BY <1>0, <2>1, <2>2, <1>5
  <2>3. CASE u = t
    <3>1. u \in threads
      <4>1. thread[t].pc # "compare" \/ thread[t].prevMarkBit = GCMarkedBitValue
        BY <1>5, <1>n DEF QuietInv
      <4> QED
        BY <1>0, <1>5, <2>1, <2>3, <4>1 DEF PcStep, NoteStep
    <3>2. thread'[u].pc # "detach"
      BY <1>5 DEF Pushing
    <3> QED
      BY <1>0, <2>3, <3>1, <3>2 DEF ListStep
  <2> QED
    BY <2>2, <2>3
<1>6. ASSUME gcPc = "mark", NEW u \in threads', thread'[u].pc = "bump"
      PROVE  thread'[u].usageRead = thread'[u].localRemarkBufferUsage
  <2>1. CASE u # t
    <3>1. u \in threads /\ thread'[u] = thread[u]
      BY <1>0, <1>t, <2>1
    <3> QED
      BY <1>6, <3>1 DEF QuietInv
  <2>2. CASE u = t
    BY <1>0, <1>6, <2>2 DEF BufferStep, BufferKept, BufferNew, BufferWritten, BufferCounted,
       BufferFlushed, GoesOn, Returned, SameUsage
  <2> QED
    BY <2>1, <2>2
<1>7. ASSUME thread[t].pc \notin Pushing
      PROVE  /\ UNCHANGED needRemarkQueue
             /\ thread'[t].localRemarkBufferUsage = thread[t].localRemarkBufferUsage
                \/ thread'[t].localRemarkBufferUsage = 0
  BY <1>0, <1>7 DEF BufferStep, BufferKept, BufferNew, BufferWritten, BufferCounted,
     BufferFlushed, SameUsage, Pushing
<1>8. ASSUME ~lateBarrier', Emptied' PROVE UNCHANGED needRemarkQueue /\ needRemarkQueue = <<>>
  BY <1>7, <1>8, <1>n, NoPushing DEF QuietInv
<1>9. ASSUME ~lateBarrier', gcPc \notin {"local", "localChunk"}, Emptied', NEW u \in threads'
      PROVE  thread'[u].localRemarkBufferUsage = 0
  <2>1. u \in threads => thread[u].localRemarkBufferUsage = 0
    BY <1>9, <1>n DEF QuietInv
  <2>2. u \notin threads => thread'[u].localRemarkBufferUsage = 0
    BY <1>0, <1>t DEF ListStep, Blank
  <2> QED
    BY <1>0, <1>7, <1>9, <1>n, <1>t, <2>1, <2>2, NoPushing
<1>10. ASSUME ~lateBarrier', gcPc \in {"local", "localChunk"}, NEW u \in threads'
       PROVE  u \in localLeft \/ thread'[u].localRemarkBufferUsage = 0
  <2>1. threads' = threads
    BY <1>0, <1>10 DEF ListStep, ThreadListLockFree
  <2>2. u \in localLeft \/ thread[u].localRemarkBufferUsage = 0
    BY <1>10, <1>n, <2>1 DEF QuietInv
  <2>3. Emptied
    BY <1>10 DEF Emptied
  <2> QED
    BY <1>0, <1>7, <1>10, <1>n, <1>t, <2>2, <2>3, NoPushing
<1>11. lateBarrier' \/ strayThread' => breached'
  BY <1>n DEF QuietInv
<1>12. ASSUME ~strayThread', gcPc = "mark" \/ (gcPc = "copy" /\ ~lateBarrier'), NEW u \in Thread,
              thread'[u].pc = "compare"
       PROVE  thread'[u].prevMarkBit = GCMarkedBitValue
  <2>1. thread[u].pc = "compare" => thread[u].prevMarkBit = GCMarkedBitValue
    BY <1>12, <1>n DEF QuietInv
  <2>2. CASE u # t
    BY <1>0, <1>12, <2>1, <2>2
  <2>3. CASE u = t
    <3>1. thread[t].pc = "exchange" /\ thread'[t].prevMarkBit = markBit[thread[t].obj]
      BY <1>0, <1>12, <2>3 DEF PcStep
    <3>2. t \notin threads
      BY <1>0, <1>12, <2>3 DEF ListStep, BaseInv, ThreadInv, ThreadOK
    <3>3. Mark!Marked(thread[t].obj)
      BY <1>0, <1>12, <3>1, <3>2 DEF NoteStep
    <3> QED
      BY <2>3, <3>1, <3>3 DEF Mark!Marked
  <2> QED
    BY <2>2, <2>3
<1>13. UNCHANGED GCMarkedBitValue
  BY DEF StepOf, HeapStep
<1> QED
  BY <1>0, <1>1, <1>3, <1>4, <1>5, <1>6, <1>8, <1>9, <1>10, <1>11, <1>12, <1>13, <1>n DEF QuietInv

LEMMA QuietSame ==
    ASSUME QuietInv,
           UNCHANGED <<thread, threads, gcPc, needRemarkQueue, localLeft, GCMarkedBitValue, noteVars>>
    PROVE  QuietInv'
  BY DEF QuietInv, Emptied, AfterMarking

LEMMA QuietGc == ASSUME BaseInv, QuietInv, GcStep PROVE QuietInv'
<1>0. /\ PhaseInv /\ threads \subseteq Thread /\ ThreadsStay
      /\ \A t \in Thread : t \in holders <=> t \in threads /\ thread[t].pc \in InBarrier
  BY BaseParts, GcEffect DEF ThreadType, ThreadInv, ThreadOK
<1> USE DEF GoGc
<1>1. CASE StartCycle
  BY <1>0, <1>1 DEF StartCycle, QuietInv, Emptied, AfterMarking
<1>2. CASE CountRoots
  <2>1. gcPc = "enter" /\ gcPc' = "copy"
    BY <1>2 DEF CountRoots
  <2>2. UNCHANGED <<thread, threads, needRemarkQueue, localLeft, noteVars>>
    BY <1>2 DEF CountRoots
  <2> QED
    BY <2>1, <2>2 DEF QuietInv, Emptied, AfterMarking, PastLoad
<1>3. CASE CopyRoots
  <2>1. /\ gcPc = "copy" /\ gcPc' = "mark" /\ holders = {}
        /\ UNCHANGED <<thread, threads, needRemarkQueue, localLeft, lateBarrier>>
    BY <1>0, <1>3 DEF CopyRoots, PhaseInv
  <2>2. ~strayThread' => \A t \in Thread \ threads : thread[t].pc \notin InBarrier
    BY <1>3 DEF CopyRoots
  <2>3. strayThread' => strayThread \/ breached'
    BY <1>3 DEF CopyRoots
  <2>4. breached => breached'
    BY <1>3 DEF CopyRoots
  <2>5. \A t \in threads : thread[t].pc \notin InBarrier
    BY <1>0, <2>1
  <2>6. lateBarrier' \/ strayThread' => breached'
    BY <2>1, <2>3, <2>4 DEF QuietInv
  <2>7. \A t \in threads : thread[t].pc \notin {"bump"} \union Pushing
    BY <2>5 DEF InBarrier, Pushing
  <2>8. ~strayThread' => \A t \in Thread : thread[t].pc \notin Pushing \union {"compare"}
    BY <2>2, <2>5 DEF InBarrier, Pushing
  <2> QED
    BY <2>1, <2>6, <2>7, <2>8 DEF QuietInv, Emptied, AfterMarking
<1>4. CASE (\E root \in rootsLeft : MarkRoot(root)) \/ RemarkNext
  BY <1>4, QuietSame DEF MarkRoot, RemarkNext
<1>5. CASE MarkStep
  BY <1>5, MarkStepCases, QuietSame
<1>6. CASE EndMarking
  <2>1. /\ gcPc = "mark" /\ gcPc' = "drain"
        /\ UNCHANGED <<thread, threads, needRemarkQueue, localLeft>>
        /\ Note(\E t \in Thread : thread[t].pc \in InBarrier, FALSE)
    BY <1>6 DEF EndMarking
  <2>2. /\ lateBarrier' <=> lateBarrier \/ \E t \in Thread : thread[t].pc \in InBarrier
        /\ strayThread' <=> strayThread
        /\ breached' <=> breached \/ \E t \in Thread : thread[t].pc \in InBarrier
    BY <2>1, NoteEffect, BaseParts
  <2>3. ~lateBarrier' => \A t \in Thread : thread[t].pc \notin InBarrier /\ thread[t].pc \notin PastLoad
    BY <2>2 DEF PastLoad, Pushing, InBarrier
  <2>4. lateBarrier' \/ strayThread' => breached'
    BY <2>2 DEF QuietInv
  <2> QED
    BY <2>1, <2>3, <2>4 DEF QuietInv, Emptied, AfterMarking
<1>7. CASE ReadChunk
  <2>1. gcPc = "drain" /\ UNCHANGED <<thread, threads, gcPc, localLeft, noteVars>>
    BY <1>7 DEF ReadChunk
  <2> QED
    BY <2>1 DEF QuietInv, Emptied, AfterMarking
<1>8. CASE EndDrain
  <2>1. /\ gcPc = "drain" /\ gcPc' = "local" /\ needRemarkQueue = <<>> /\ localLeft' = threads
        /\ UNCHANGED <<thread, threads, needRemarkQueue, noteVars>>
    BY <1>8 DEF EndDrain
  <2> QED
    BY <2>1 DEF QuietInv, Emptied, AfterMarking
<1>9. CASE \E t \in Thread : ReadLocal(t)
  <2>1. /\ gcPc = "local" /\ gcPc' = "localChunk"
        /\ UNCHANGED <<thread, threads, needRemarkQueue, localLeft, noteVars>>
    BY <1>9 DEF ReadLocal
  <2> QED
    BY <2>1 DEF QuietInv, Emptied, AfterMarking
<1>10. CASE ResetLocal
  <2>1. /\ gcPc = "localChunk" /\ gcPc' = "local" /\ localLeft' = localLeft \ {localThread}
        /\ UNCHANGED <<threads, needRemarkQueue, noteVars>>
    BY <1>10 DEF ResetLocal
  <2>2. \A t \in Thread : thread'[t].pc = thread[t].pc
    BY <1>0 DEF ThreadsStay
  <2>3. /\ thread'[localThread].localRemarkBufferUsage = 0
        /\ \A u \in Thread : u # localThread => thread'[u] = thread[u]
    BY <1>10, ResetEffect DEF OnlyThread
  <2>4. /\ ~lateBarrier => \A t \in Thread : thread'[t].pc \notin InBarrier
        /\ ~lateBarrier => \A t \in Thread : thread'[t].pc \notin PastLoad
    BY <2>1, <2>2 DEF QuietInv, AfterMarking
  <2>5. ~lateBarrier => \A t \in threads : t \in localLeft' \/ thread'[t].localRemarkBufferUsage = 0
    BY <1>0, <2>1, <2>3 DEF QuietInv
  <2>6. ~lateBarrier => needRemarkQueue = <<>>
    BY <2>1 DEF QuietInv, Emptied
  <2> QED
    BY <2>1, <2>4, <2>5, <2>6 DEF QuietInv, Emptied, AfterMarking
<1>11. CASE EndLocal
  <2>1. /\ gcPc = "local" /\ gcPc' = "sweep" /\ localLeft = {}
        /\ UNCHANGED <<thread, threads, needRemarkQueue, localLeft, noteVars>>
    BY <1>11 DEF EndLocal
  <2> QED
    BY <2>1 DEF QuietInv, Emptied, AfterMarking
<1>12. CASE \E block \in toSweep : SweepBlock(block)
  BY <1>12, SweepEffect, QuietSame
<1>13. CASE EndSweep
  <2>1. /\ gcPc = "sweep" /\ gcPc' = "finish"
        /\ UNCHANGED <<thread, threads, needRemarkQueue, localLeft, noteVars>>
    BY <1>13 DEF EndSweep
  <2> QED
    BY <2>1 DEF QuietInv, Emptied, AfterMarking
<1>14. CASE FinishCycle
  <2>1. /\ gcPc = "finish" /\ gcPc' = "idle" /\ holders = {}
        /\ lateBarrier' = (lateBarrier /\ LeftBehind) /\ strayThread' = FALSE
        /\ UNCHANGED <<thread, threads, needRemarkQueue, localLeft, breached>>
    BY <1>14 DEF FinishCycle
  <2>2. \A t \in threads : thread[t].pc \notin PastLoad
    BY <1>0, <2>1 DEF PastLoad, Pushing, InBarrier
  <2>3. ASSUME ~lateBarrier'
        PROVE  /\ needRemarkQueue = <<>>
               /\ \A t \in Thread : thread[t].pc \notin PastLoad
               /\ \A t \in threads : thread[t].localRemarkBufferUsage = 0
    <3>1. CASE ~lateBarrier
      BY <2>1, <3>1 DEF QuietInv, Emptied
    <3>2. CASE ~LeftBehind
      <4>1. needRemarkQueue = <<>>
        BY <3>2 DEF LeftBehind
      <4>2. \A t \in Thread : thread[t].pc \notin InBarrier
        BY <3>2 DEF LeftBehind
      <4>3. \A t \in Thread : thread[t].localRemarkBufferUsage \in Nat
        BY BaseParts, CollectorAssumption DEF ThreadType, StructThread
      <4>4. \A t \in Thread : thread[t].localRemarkBufferUsage = 0
        BY <3>2, <4>3 DEF LeftBehind
      <4> QED
        BY <1>0, <4>1, <4>2, <4>4 DEF PastLoad, Pushing, InBarrier
    <3> QED
      BY <2>1, <2>3, <3>1, <3>2
  <2> QED
    BY <2>1, <2>2, <2>3 DEF QuietInv, Emptied, AfterMarking
<1> QED
  BY <1>1, <1>2, <1>3, <1>4, <1>5, <1>6, <1>7, <1>8, <1>9, <1>10, <1>11, <1>12, <1>13, <1>14
     DEF GcStep

LEMMA QuietStep == BaseInv /\ QuietInv /\ [Next]_vars => QuietInv'
<1> SUFFICES ASSUME BaseInv, QuietInv, [Next]_vars PROVE QuietInv'
  OBVIOUS
<1>1. CASE \E t \in Thread : ThreadStep(t)
  BY <1>1, StepEffect, QuietThread, BaseStep
<1>2. CASE GcStep
  BY <1>2, QuietGc
<1>3. CASE Fail \/ UNCHANGED vars
  BY <1>3, QuietSame DEF Fail, vars
<1> QED
  BY <1>1, <1>2, <1>3, Steps

LEMMA QuietInit == Init => QuietInv
<1> SUFFICES ASSUME Init PROVE QuietInv
  OBVIOUS
<1>1. BaseInv
  BY BaseInit
<1>2. /\ gcPc = "idle" /\ needRemarkQueue = <<>>
      /\ lateBarrier = FALSE /\ strayThread = FALSE /\ breached = FALSE
  BY DEF Init
<1>3. PICK roots \in [threads -> SUBSET Live] :
         thread = [t \in Thread |->
             IF t \in threads THEN [NewThread EXCEPT !.rootEntries = roots[t]]
                              ELSE [NewThread EXCEPT !.pc = "out"]]
  BY DEF Init
<1>4. ASSUME NEW t \in Thread
      PROVE  thread[t].pc \in {"idle", "out"} /\ thread[t].localRemarkBufferUsage = 0
  <2>1. CASE t \in threads
    BY <1>3, <2>1 DEF NewThread
  <2>2. CASE t \notin threads
    BY <1>3, <2>2 DEF NewThread
  <2> QED
    BY <2>1, <2>2
<1>5. threads \subseteq Thread
  BY <1>1, BaseParts DEF ThreadType
<1> QED
  BY <1>2, <1>4, <1>5 DEF QuietInv, Emptied, AfterMarking, PastLoad, Pushing, InBarrier

-----------------------------------------------------------------------------
(* The tracer runs in four of the phases. *)
LEMMA MarkStepPhase ==
    ASSUME BaseInv, MarkStep PROVE gcPc \in Tracing /\ UNCHANGED gcPc
<1>1. markPc # "idle" /\ UNCHANGED gcPc
  BY MarkStepCases DEF Visits, PassesSlot, PutsOff, Leaves, Mark!AtSlot
<1> QED
  BY <1>1, BaseParts DEF PhaseInv, Tracing

-----------------------------------------------------------------------------
(* Marks that stay *)
LEMMA MarksStay ==
    ASSUME BaseInv, NEW t \in Thread, StepOf(t), NEW o \in Known
    PROVE  /\ Mark!Marked(o) => Mark!Marked(o)'
           /\ status'[o] = status[o]
  BY DEF StepOf, HeapStep, Known

(* The sweep: what it has looked at is marked or gone. *)
LEMMA SweptStep == BaseInv /\ KnownInv /\ SweepInv /\ [Next]_vars => SweepInv'
<1> SUFFICES ASSUME BaseInv, KnownInv, SweepInv, [Next]_vars PROVE SweepInv'
  OBVIOUS
<1>0. PhaseInv /\ objectsListSnapshot \subseteq Known
  BY BaseParts DEF KnownInv, SnapshotInv
<1>1. ASSUME UNCHANGED <<gcPc, objectsListSnapshot, toSweep, status, markBit, GCMarkedBitValue>>
      PROVE  SweepInv'
  BY <1>1 DEF SweepInv, Live, Mark!Marked
<1>2. ASSUME NEW t \in Thread, ThreadStep(t) PROVE SweepInv'
  <2>1. StepOf(t) /\ UNCHANGED <<gcPc, objectsListSnapshot, toSweep>>
    BY <1>2, StepEffect DEF StepOf, HeapStep
  <2>2. \A o \in objectsListSnapshot :
           (Mark!Marked(o) => Mark!Marked(o)') /\ status'[o] = status[o]
    BY <1>0, <2>1, MarksStay
  <2> QED
    BY <2>1, <2>2 DEF SweepInv, Live
<1>3. ASSUME gcPc' \notin {"sweep", "finish"} PROVE SweepInv'
  BY <1>3 DEF SweepInv
<1>4. CASE EndLocal
  BY <1>4 DEF EndLocal, SweepInv
<1>5. ASSUME NEW block \in toSweep, SweepBlock(block) PROVE SweepInv'
  <2>1. gcPc = "sweep" /\ toSweep' = toSweep \ {block} /\ block \in Obj
        /\ UNCHANGED <<objectsListSnapshot, GCMarkedBitValue, gcPc>>
    BY <1>5, SweepEffect
  <2>2. CASE Mark!Marked(block)
    <3>1. UNCHANGED blockVars
      BY <1>5, <2>2, SweepEffect
    <3> QED
      BY <2>1, <2>2, <3>1 DEF SweepInv, Live, Mark!Marked
  <2>3. CASE ~Mark!Marked(block)
    <3>1. /\ \A o \in Obj : status'[o] = IF o = block THEN "freed" ELSE status[o]
          /\ \A o \in Obj : markBit'[o] = IF o = block THEN FALSE ELSE markBit[o]
      BY <1>5, <2>3, SweepEffect
    <3> QED
      BY <2>1, <3>1 DEF SweepInv, Live, Mark!Marked
  <2> QED
    BY <2>2, <2>3
<1>6. CASE EndSweep
  BY <1>6 DEF EndSweep, GoGc, SweepInv, Live, Mark!Marked
<1>7. CASE GcStep
  <2>1. CASE \/ StartCycle \/ CountRoots \/ CopyRoots \/ EndMarking \/ EndDrain \/ ResetLocal
             \/ FinishCycle \/ \E t \in Thread : ReadLocal(t)
    BY <1>3, <2>1 DEF StartCycle, CountRoots, CopyRoots, EndMarking, EndDrain, ResetLocal,
       FinishCycle, ReadLocal, GoGc
  <2>2. CASE (\E root \in rootsLeft : MarkRoot(root)) \/ MarkStep \/ ReadChunk \/ RemarkNext
    <3>1. gcPc \notin {"sweep", "finish"} /\ UNCHANGED gcPc
      <4>1. CASE MarkStep
        BY <4>1, MarkStepPhase DEF Tracing
      <4>2. CASE RemarkNext
        BY <1>0, <4>2 DEF RemarkNext, PhaseInv
      <4>3. CASE (\E root \in rootsLeft : MarkRoot(root)) \/ ReadChunk
        BY <4>3 DEF MarkRoot, ReadChunk
      <4> QED
        BY <2>2, <4>1, <4>2, <4>3
    <3> QED
      BY <1>3, <3>1
  <2> QED
    BY <1>4, <1>5, <1>6, <1>7, <2>1, <2>2 DEF GcStep
<1>8. CASE Fail \/ UNCHANGED vars
  BY <1>1, <1>8 DEF Fail, vars
<1> QED
  BY <1>2, <1>7, <1>8, Steps

(* Between two cycles no block is marked but those marked by a thread off  *)
(* the list.                                                               *)
LEMMA SurvivorsStep ==
    BaseInv /\ KnownInv /\ QuietInv /\ SweepInv /\ SurvivorsUnmarked /\ [Next]_vars
        => SurvivorsUnmarked'
<1> SUFFICES ASSUME BaseInv, KnownInv, QuietInv, SweepInv, SurvivorsUnmarked, [Next]_vars
             PROVE  SurvivorsUnmarked'
  OBVIOUS
<1>0. objectsListSnapshot \subseteq Known
  BY DEF KnownInv, SnapshotInv
<1>1. ASSUME NEW t \in Thread, ThreadStep(t) PROVE SurvivorsUnmarked'
  <2> SUFFICES ASSUME gcPc = "idle", ~strayThread', NEW o \in objectsListSnapshot,
                      (o \in Live)', Mark!Marked(o)'
               PROVE  FALSE
    BY <1>1, StepEffect DEF SurvivorsUnmarked, StepOf, HeapStep
  <2>1. /\ HeapStep(t) /\ NoteStep(t) /\ o \in Known /\ o \in Obj
        /\ Mark!Marked(o)' <=> Mark!Marked(o) \/ (thread[t].pc = "exchange" /\ thread[t].obj = o)
    BY <1>0, <1>1, StepEffect DEF StepOf, HeapStep, Known
  <2>2. o \in Live /\ ~strayThread
    BY <2>1 DEF HeapStep, NoteStep, Live, Known
  <2>3. ~Mark!Marked(o)
    BY <2>2 DEF SurvivorsUnmarked
  <2>4. thread[t].pc = "exchange" /\ thread[t].obj = o
    BY <2>1, <2>3
  <2>5. t \notin threads
    BY <2>4 DEF QuietInv, PastLoad
  <2> QED
    BY <2>1, <2>3, <2>4, <2>5 DEF NoteStep
<1>2. CASE FinishCycle
  <2>1. /\ GCMarkedBitValue' = ~GCMarkedBitValue /\ toSweep = {}
        /\ UNCHANGED <<objectsListSnapshot, status, markBit>> /\ gcPc = "finish"
    BY <1>2, BaseParts DEF FinishCycle, GoGc, PhaseInv
  <2>2. \A o \in objectsListSnapshot : o \in Live => Mark!Marked(o)
    BY <2>1 DEF SweepInv
  <2>3. GCMarkedBitValue' # GCMarkedBitValue
    BY <2>1, BaseParts DEF TracerType
  <2> QED
    BY <2>1, <2>2, <2>3 DEF SurvivorsUnmarked, Live, Mark!Marked
<1>3. CASE GcStep /\ ~FinishCycle
  <2>1. gcPc' # "idle"
    <3>1. CASE MarkStep
      BY <3>1, MarkStepPhase DEF Tracing
    <3>2. CASE RemarkNext
      BY <3>2, BaseParts DEF RemarkNext, PhaseInv
    <3> QED
      BY <1>3, <3>1, <3>2 DEF GcStep, StartCycle, CountRoots, CopyRoots, MarkRoot, EndMarking, ReadChunk,
         EndDrain, ReadLocal, ResetLocal, EndLocal, SweepBlock, EndSweep, GoGc
  <2> QED
    BY <2>1 DEF SurvivorsUnmarked
<1>4. CASE Fail \/ UNCHANGED vars
  BY <1>4 DEF Fail, vars, SurvivorsUnmarked, Live, Mark!Marked
<1> QED
  BY <1>1, <1>2, <1>3, <1>4, Steps

HeapInv == BaseInv /\ KnownInv /\ QuietInv

LEMMA HeapCorrect == Spec => []HeapInv
<1>1. Init => HeapInv
  BY BaseInit, KnownInit, QuietInit DEF HeapInv
<1>2. HeapInv /\ [Next]_vars => HeapInv'
  BY BaseStep, KnownStep, QuietStep DEF HeapInv
<1> QED
  BY <1>1, <1>2, PTL DEF Spec

LEMMA SweepCorrect == Spec => [](SweepInv /\ SurvivorsUnmarked)
<1>1. Init => SweepInv /\ SurvivorsUnmarked
  BY DEF Init, SweepInv, SurvivorsUnmarked
<1>2. HeapInv /\ SweepInv /\ SurvivorsUnmarked /\ [Next]_vars => (SweepInv /\ SurvivorsUnmarked)'
  BY SweptStep, SurvivorsStep DEF HeapInv
<1> QED
  BY <1>1, <1>2, HeapCorrect, PTL DEF Spec

(* SurvivorsUnmarked: sweepPhase keeps only blocks with the mark bit of    *)
(* the cycle, and the flip of GCMarkedBitValue turns them all unmarked, so *)
(* the next cycle's tracer enters every one of them; only a thread that    *)
(* drops its roots off the list can leave a block marked.                  *)
THEOREM SurvivorsStartUnmarked == Spec => []SurvivorsUnmarked
  BY SweepCorrect, PTL

-----------------------------------------------------------------------------
(* The steps of the GC thread by phase *)
Turns == EndMarking \/ ReadChunk \/ EndDrain \/ (\E t \in Thread : ReadLocal(t)) \/ ResetLocal

LEMMA TurnsEffect ==
    ASSUME BaseInv, Turns
    PROVE  /\ gcPc \in Tracing /\ gcPc' \in Tracing /\ gcPc' # "mark"
           /\ UNCHANGED <<field, hasDesc, status, markBit, GCMarkedBitValue, rootVars, queueVars,
                          snapshotField, objectsListSnapshot, strayThread>>
           /\ lateBarrier => lateBarrier'
           /\ ThreadsStay
<1>1. gcPc \in Tracing /\ gcPc' \in Tracing /\ gcPc' # "mark"
  BY DEF Turns, EndMarking, ReadChunk, EndDrain, ReadLocal, ResetLocal, GoGc, Tracing
<1>2. UNCHANGED <<field, hasDesc, status, markBit, GCMarkedBitValue, rootVars, queueVars,
                  snapshotField, objectsListSnapshot>>
  BY DEF Turns, EndMarking, ReadChunk, EndDrain, ReadLocal, ResetLocal
<1>3. ThreadsStay
  BY GcEffect DEF Turns, GcStep
<1>4. (lateBarrier => lateBarrier') /\ UNCHANGED strayThread
  <2>1. CASE EndMarking
    <3>1. Note(\E t \in Thread : thread[t].pc \in InBarrier, FALSE)
      BY <2>1 DEF EndMarking
    <3>2. (lateBarrier => lateBarrier') /\ (strayThread' <=> strayThread) /\ strayThread' \in BOOLEAN
      BY <3>1, NoteEffect, BaseParts
    <3> QED
      BY <3>2, BaseParts DEF HistoryType
  <2>2. CASE ~EndMarking
    BY <2>2 DEF Turns, ReadChunk, EndDrain, ReadLocal, ResetLocal
  <2> QED
    BY <2>1, <2>2
<1> QED
  BY <1>1, <1>2, <1>3, <1>4

LEMMA PhaseCases ==
    ASSUME BaseInv, GcStep
    PROVE  \/ CopyRoots
           \/ (\E root \in rootsLeft : MarkRoot(root))
           \/ MarkStep /\ gcPc \in Tracing /\ UNCHANGED gcPc
           \/ RemarkNext /\ gcPc \in Tracing /\ gcPc # "mark" /\ UNCHANGED gcPc
           \/ Turns
           \/ EndLocal \/ (\E block \in toSweep : SweepBlock(block)) \/ EndSweep
           \/ gcPc' \in {"idle", "enter", "copy"}
<1>1. CASE MarkStep
  BY <1>1, MarkStepPhase
<1>2. CASE RemarkNext
  BY <1>2, BaseParts DEF RemarkNext, PhaseInv, Tracing
<1>3. CASE StartCycle \/ CountRoots \/ FinishCycle
  BY <1>3 DEF StartCycle, CountRoots, FinishCycle, GoGc
<1> QED
  BY <1>1, <1>2, <1>3 DEF GcStep, Turns

LEMMA QueuedIs ==
    /\ \A o : Queued(o) <=> o \in Range(gcMarkQueueUwU)
    /\ \A o : Queued(o)' <=> o \in Range(gcMarkQueueUwU')
  BY DEF Queued, Range

(* What a step of the tracer does to the queue and to the marks *)
LEMMA TraceEffect ==
    ASSUME BaseInv, MarkStep
    PROVE  /\ \A o \in Obj : Mark!Marked(o) => Mark!Marked(o)'
           /\ \A o : Queued(o) => Queued(o)' \/ (o \in Obj /\ Mark!Marked(o)')
           /\ \A o : Queued(o)' => \/ Queued(o)
                                   \/ Mark!AtSlot /\ o = Mark!Content /\ o \in Obj
           /\ UNCHANGED <<field, hasDesc, status, thread, threads, gcPc, objectsListSnapshot,
                          snapshotField, GCMarkedBitValue, rootVars, noteVars, needRemarkQueue,
                          chunk, localLeft, localThread>>
<1>0. /\ UNCHANGED <<field, hasDesc, status, threadVars, lockVars, gcPc, cycleVars,
                     GCMarkedBitValue, rootVars, historyVars, fault>>
      /\ gcMarkQueueUwU \in Seq(Ref)
  BY MarkStepCases, BaseParts DEF TracerType
<1>1. ASSUME NEW state \in Mark!MarkState, Visits(state)
      PROVE  /\ \A o \in Obj : Mark!Marked(o) => Mark!Marked(o)'
             /\ \A o : Queued(o) => Queued(o)' \/ (o \in Obj /\ Mark!Marked(o)')
             /\ \A o : Queued(o)' => Queued(o)
  <2>1. /\ state.block \in Obj
        /\ \A o \in Obj : markBit'[o] = IF o = state.block THEN GCMarkedBitValue ELSE markBit[o]
    BY <1>1 DEF Visits, Mark!MarkState
  <2>2. \A o \in Obj : Mark!Marked(o)' <=> Mark!Marked(o) \/ o = state.block
    BY <1>0, <2>1 DEF Mark!Marked
  <2>3. CASE gcMarkQueueUwU # <<>> /\ state.block = Head(gcMarkQueueUwU)
             /\ gcMarkQueueUwU' = Tail(gcMarkQueueUwU)
    <3>1. Range(gcMarkQueueUwU) = {state.block} \union Range(gcMarkQueueUwU')
      BY <1>0, <2>3, RangeTail
    <3> QED
      BY <2>1, <2>2, <3>1, QueuedIs
  <2>4. CASE UNCHANGED gcMarkQueueUwU
    BY <2>2, <2>4 DEF Queued
  <2> QED
    BY <1>1, <2>3, <2>4 DEF Visits
<1>2. ASSUME PassesSlot
      PROVE  /\ \A o \in Obj : Mark!Marked(o) => Mark!Marked(o)'
             /\ \A o : Queued(o) => Queued(o)'
             /\ \A o : Queued(o)' => \/ Queued(o)
                                     \/ Mark!AtSlot /\ o = Mark!Content /\ o \in Obj
  <2>1. UNCHANGED markBit /\ Mark!AtSlot
    BY <1>2 DEF PassesSlot
  <2>2. CASE UNCHANGED gcMarkQueueUwU
    BY <1>0, <2>1, <2>2 DEF Queued, Mark!Marked
  <2>3. CASE Mark!Content \in Obj /\ gcMarkQueueUwU' = Append(gcMarkQueueUwU, Mark!Content)
    <3> DEFINE c == Mark!Content
    <3>1. c \in Ref /\ c \in Obj /\ gcMarkQueueUwU' = Append(gcMarkQueueUwU, c)
      BY <2>3 DEF Ref
    <3> HIDE DEF c
    <3>2. Range(gcMarkQueueUwU') = Range(gcMarkQueueUwU) \union {c}
      BY <1>0, <3>1, RangeAppend
    <3>3. \A o \in Obj : Mark!Marked(o)' <=> Mark!Marked(o)
      BY <1>0, <2>1 DEF Mark!Marked
    <3>4. \A o : Queued(o)' <=> Queued(o) \/ o = c
      BY <3>2, QueuedIs
    <3> QED
      BY <2>1, <3>1, <3>3, <3>4 DEF c
  <2> QED
    BY <1>2, <2>2, <2>3 DEF PassesSlot
<1>3. ASSUME PutsOff \/ Leaves
      PROVE  /\ \A o \in Obj : Mark!Marked(o) => Mark!Marked(o)'
             /\ \A o : Queued(o) <=> Queued(o)'
  BY <1>0, <1>3 DEF PutsOff, Leaves, Queued, Mark!Marked
<1> QED
  BY <1>0, <1>1, <1>2, <1>3, MarkStepCases

(* doMark is handed a block: the queue, empty before, holds it. *)
LEMMA HandedOver ==
    ASSUME BaseInv, NEW block \in Ref, Mark!DoMark(block)
    PROVE  /\ \A o : ~Queued(o)
           /\ \A o : Queued(o)' <=> o = block
           /\ deferredMarkQueue = <<>> /\ markPc = "idle" /\ markPc' = "drain"
           /\ UNCHANGED <<deferredMarkQueue, scan>>
<1>1. Range(gcMarkQueueUwU') = {block} /\ gcMarkQueueUwU = <<>>
  BY DoMarkBase
<1> QED
  BY <1>1, DoMarkBase, QueuedIs, RangeEmpty

(* Roots, and blocks marked beforehand *)
LEMMA RootsStep == BaseInv /\ KnownInv /\ RootsInv /\ [Next]_vars => RootsInv'
<1> SUFFICES ASSUME BaseInv, KnownInv, RootsInv, [Next]_vars PROVE RootsInv'
  OBVIOUS
<1>0. /\ PhaseInv /\ snapshotOfRootSet \subseteq Known \union {NULL} /\ premarked \subseteq Known
      /\ NULL \notin Obj /\ snapshotOfRootSet \subseteq Ref /\ rootsLeft \subseteq snapshotOfRootSet
      /\ premarked \subseteq Obj
  BY BaseParts, TracerAssumption DEF KnownInv, SnapshotInv, TracerType
<1>1. ASSUME NEW t \in Thread, ThreadStep(t) PROVE RootsInv'
  <2>1. StepOf(t) /\ UNCHANGED <<gcPc, rootVars, queueVars>>
    BY <1>1, StepEffect DEF StepOf, HeapStep
  <2>2. \A o \in Known : Mark!Marked(o) => Mark!Marked(o)'
    BY <2>1, MarksStay
  <2>3. \A r \in snapshotOfRootSet : r \in Obj => r \in Known
    BY <1>0
  <2> QED
    BY <1>0, <2>1, <2>2, <2>3 DEF RootsInv, Queued
<1>2. ASSUME gcPc' \notin Tracing PROVE RootsInv'
  BY <1>2 DEF RootsInv
<1>3. CASE CopyRoots
  <2>1. /\ snapshotOfRootSet' = rootsLeft' /\ premarked' = {o \in Live : Mark!Marked(o)}
        /\ UNCHANGED <<markBit, GCMarkedBitValue, queueVars>>
        /\ gcPc = "copy"
    BY <1>3 DEF CopyRoots, GoGc
  <2>2. gcMarkQueueUwU' = <<>>
    BY <1>0, <2>1, BaseParts DEF PhaseInv, ScanInv
  <2>3. \A o : ~Queued(o)'
    BY <2>2, QueuedIs, RangeEmpty
  <2> QED
    BY <2>1, <2>3 DEF RootsInv, Mark!Marked
<1>4. ASSUME NEW root \in rootsLeft, MarkRoot(root) PROVE RootsInv'
  <2>1. /\ root \in Ref /\ Mark!DoMark(root) /\ rootsLeft' = rootsLeft \ {root} /\ gcPc = "mark"
        /\ UNCHANGED <<snapshotOfRootSet, premarked, markBit, GCMarkedBitValue, gcPc>>
    BY <1>0, <1>4 DEF MarkRoot, Mark!MarkRoot
  <2>2. /\ \A o : ~Queued(o)
        /\ \A o : Queued(o)' <=> o = root
    BY <2>1, HandedOver
  <2>3. gcPc \in Tracing /\ root \in snapshotOfRootSet
    BY <1>0, <2>1 DEF Tracing
  <2>4. \A o : Mark!Marked(o)' <=> Mark!Marked(o)
    BY <2>1 DEF Mark!Marked
  <2> QED
    BY <1>0, <2>1, <2>2, <2>3, <2>4 DEF RootsInv
<1>5. CASE MarkStep /\ gcPc \in Tracing /\ UNCHANGED gcPc
  <2>1. /\ \A o \in Obj : Mark!Marked(o) => Mark!Marked(o)'
        /\ \A o : Queued(o) => Queued(o)' \/ (o \in Obj /\ Mark!Marked(o)')
        /\ \A o : Queued(o)' => Queued(o) \/ o \in Obj
        /\ UNCHANGED rootVars
    BY <1>5, TraceEffect
  <2> QED
    BY <1>0, <1>5, <2>1 DEF RootsInv
<1>6. CASE RemarkNext /\ gcPc \in Tracing /\ UNCHANGED gcPc
  <2> DEFINE h == Head(chunk)
  <2>1. /\ h \in Obj /\ h \in Ref /\ Mark!DoMark(h)
        /\ markBit' = [markBit EXCEPT ![h] = ~GCMarkedBitValue]
        /\ UNCHANGED <<rootVars, GCMarkedBitValue>>
    BY <1>6 DEF RemarkNext, Live, Ref
  <2> HIDE DEF h
  <2>2. /\ \A o : ~Queued(o)
        /\ \A o : Queued(o)' <=> o = h
    BY <2>1, HandedOver
  <2>3. \A o \in Obj : o # h => (Mark!Marked(o)' <=> Mark!Marked(o))
    BY <2>1, BaseParts DEF Mark!Marked, HeapType
  <2> QED
    BY <1>0, <1>6, <2>1, <2>2, <2>3 DEF RootsInv
<1>7. CASE Turns
  <2>1. gcPc \in Tracing /\ UNCHANGED <<rootVars, queueVars, markBit, GCMarkedBitValue>>
    BY <1>7, TurnsEffect
  <2> QED
    BY <2>1 DEF RootsInv, Queued, Mark!Marked
<1>8. CASE EndLocal \/ (\E block \in toSweep : SweepBlock(block)) \/ EndSweep
  BY <1>2, <1>8 DEF EndLocal, SweepBlock, EndSweep, GoGc, Tracing
<1>9. CASE Fail \/ UNCHANGED vars
  BY <1>9 DEF Fail, vars, RootsInv, Queued, Mark!Marked
<1>10. CASE gcPc' \in {"idle", "enter", "copy"}
  BY <1>2, <1>10 DEF Tracing
<1>11. CASE GcStep
  BY <1>3, <1>4, <1>5, <1>6, <1>7, <1>8, <1>10, <1>11, PhaseCases
<1> QED
  BY <1>1, <1>9, <1>11, Steps

-----------------------------------------------------------------------------
(* Visited blocks are marked. *)
LEMMA VisitedStep == BaseInv /\ KnownInv /\ VisitedInv /\ [Next]_vars => VisitedInv'
<1> SUFFICES ASSUME BaseInv, KnownInv, VisitedInv, [Next]_vars PROVE VisitedInv'
  OBVIOUS
<1>0. PhaseInv /\ ScanInv /\ deferredMarkQueue \in Seq(Mark!MarkState)
  BY BaseParts DEF TracerType
<1>1. ASSUME NEW t \in Thread, ThreadStep(t) PROVE VisitedInv'
  <2>1. StepOf(t) /\ UNCHANGED queueVars
    BY <1>1, StepEffect DEF StepOf, HeapStep
  <2>2. \A o \in Known : (Mark!Marked(o) => Mark!Marked(o)') /\ status'[o] = status[o]
    BY <2>1, MarksStay
  <2>3. \A o \in Known : o \in Known'
    BY <2>2 DEF Known
  <2> QED
    BY <2>1, <2>2, <2>3 DEF VisitedInv
<1>2. ASSUME UNCHANGED <<queueVars, status, markBit, GCMarkedBitValue>> PROVE VisitedInv'
  BY <1>2 DEF VisitedInv, Mark!Marked, Known
<1>3. ASSUME markPc' \in {"idle", "drain"}, deferredMarkQueue' = <<>> PROVE VisitedInv'
  BY <1>3 DEF VisitedInv
<1>4. ASSUME NEW block \in Ref, Mark!DoMark(block) PROVE VisitedInv'
  BY <1>3, <1>4, HandedOver
<1>5. CASE MarkStep
  <2>0. UNCHANGED <<status, GCMarkedBitValue>>
    BY <1>5, MarkStepCases
  <2>1. ASSUME NEW state \in Mark!MarkState, Visits(state) PROVE VisitedInv'
    <3>1. \A o \in Obj : markBit'[o] = IF o = state.block THEN GCMarkedBitValue ELSE markBit[o]
      BY <2>1 DEF Visits
    <3>2. \A o \in Known : o \in Obj /\ o \in Known'
      BY <2>0 DEF Known
    <3>3. \A o \in Known : Mark!Marked(o)' <=> Mark!Marked(o) \/ o = state.block
      BY <2>0, <3>1, <3>2 DEF Mark!Marked
    <3>4. CASE UNCHANGED deferredMarkQueue /\ state.block \in Live
      BY <2>1, <3>2, <3>3, <3>4 DEF Visits, VisitedInv, Known, Live
    <3>5. CASE state = Head(deferredMarkQueue) /\ deferredMarkQueue # <<>>
               /\ deferredMarkQueue' = Tail(deferredMarkQueue)
      <4>1. \A i \in DOMAIN Tail(deferredMarkQueue) :
               i + 1 \in DOMAIN deferredMarkQueue
               /\ Tail(deferredMarkQueue)[i] = deferredMarkQueue[i + 1]
        BY <1>0, <3>5, TailIndex
      <4>2. state = deferredMarkQueue[1] /\ 1 \in DOMAIN deferredMarkQueue
        BY <1>0, <3>5
      <4> QED
        BY <2>1, <3>2, <3>3, <3>5, <4>1, <4>2 DEF Visits, VisitedInv
    <3> QED
      BY <2>1, <3>4, <3>5 DEF Visits
  <2>2. CASE PassesSlot
    BY <2>0, <2>2, AtASlot DEF PassesSlot, VisitedInv, Mark!Marked, Known
  <2>3. CASE PutsOff
    <3> DEFINE e == [block |-> scan.block, fieldIndex |-> Mark!SavedIndex]
    <3>1. /\ markPc = "scan" /\ scan.block \in Obj /\ Mark!SavedIndex \in Nat
          /\ Len(deferredMarkQueue) < DeferredCap
      BY <2>3, AtASlot DEF PutsOff
    <3>2. e \in Mark!MarkState /\ e.block = scan.block
      BY <3>1 DEF Mark!MarkState
    <3>3. deferredMarkQueue' = Append(deferredMarkQueue, e) /\ markPc' = "drain" /\ UNCHANGED markBit
      BY <2>3 DEF PutsOff
    <3> HIDE DEF e
    <3>4. \A i \in DOMAIN Append(deferredMarkQueue, e) :
             \/ i \in DOMAIN deferredMarkQueue /\ Append(deferredMarkQueue, e)[i] = deferredMarkQueue[i]
             \/ Append(deferredMarkQueue, e)[i] = e
      BY <1>0, <3>1, <3>2, TracerAssumption, AppendType
    <3> QED
      BY <2>0, <3>1, <3>2, <3>3, <3>4 DEF VisitedInv, Mark!Marked, Known
  <2>4. CASE Leaves
    BY <2>0, <2>4 DEF Leaves, VisitedInv, Mark!Marked, Known
  <2> QED
    BY <1>5, <2>1, <2>2, <2>3, <2>4, MarkStepCases
<1>6. CASE \E root \in rootsLeft : MarkRoot(root)
  <2>1. PICK root \in rootsLeft : MarkRoot(root)
    BY <1>6
  <2>2. root \in Ref /\ Mark!DoMark(root)
    BY <2>1, BaseParts DEF TracerType, MarkRoot, Mark!MarkRoot
  <2> QED
    BY <1>4, <2>2
<1>7. CASE RemarkNext
  <2>1. Head(chunk) \in Ref /\ Mark!DoMark(Head(chunk))
    BY <1>7 DEF RemarkNext, Live, Ref
  <2> QED
    BY <1>4, <2>1
<1>8. CASE gcPc \notin {"mark", "drain", "localChunk"} /\ UNCHANGED queueVars
  BY <1>0, <1>3, <1>8 DEF PhaseInv, ScanInv
<1>9. CASE Turns
  BY <1>2, <1>9, TurnsEffect
<1>10. CASE StartCycle \/ CountRoots \/ CopyRoots \/ EndLocal \/ (\E block \in toSweep : SweepBlock(block))
            \/ EndSweep \/ FinishCycle
  BY <1>8, <1>10 DEF StartCycle, CountRoots, CopyRoots, EndLocal, SweepBlock, EndSweep, FinishCycle, GoGc
<1>11. CASE Fail \/ UNCHANGED vars
  BY <1>2, <1>11 DEF Fail, vars
<1> QED
  BY <1>1, <1>5, <1>6, <1>7, <1>9, <1>10, <1>11, Steps DEF GcStep, Turns

-----------------------------------------------------------------------------
(* An edge of the snapshot outlives the steps of a thread. *)
LEMMA NoBarrierLeft ==
    ASSUME QuietInv, Traceable, gcPc # "mark", NEW t \in Thread
    PROVE  thread[t].pc \notin InBarrier
  BY DEF QuietInv, Traceable, Tracing, AfterMarking

LEMMA SecuredThread ==
    ASSUME BaseInv, QuietInv, Traceable, NEW t \in Thread, StepOf(t), NEW o \in Known, Secured(o)
    PROVE  Secured(o)'
<1>0. /\ threads \subseteq Thread /\ PhaseInv /\ UNCHANGED <<queueVars, gcPc>>
      /\ \A u \in Thread : u # t => thread'[u] = thread[u] /\ (u \in threads' <=> u \in threads)
  BY BaseParts DEF ThreadType, StepOf, HeapStep, OnlyThread, ListStep
<1>1. CASE Mark!Marked(o)
  BY <1>1, MarksStay DEF Secured
<1>2. CASE \E i \in DOMAIN gcMarkQueueUwU : gcMarkQueueUwU[i] = o
  BY <1>0, <1>2 DEF Secured
<1>3. ASSUME NEW u \in threads, thread[u].pc \in {"load", "exchange"}, thread[u].obj = o
      PROVE  Secured(o)'
  <2>1. gcPc = "mark"
    BY <1>0, <1>3, NoBarrierLeft DEF InBarrier
  <2>2. markingInProgress
    BY <1>0, <2>1 DEF PhaseInv
  <2>3. CASE u # t
    BY <1>0, <1>3, <2>3 DEF Secured
  <2>4. CASE u = t /\ thread[t].pc = "load"
    <3>1. thread'[t].pc = "exchange" /\ thread'[t].obj = o
      BY <1>3, <2>2, <2>4 DEF StepOf, PcStep
    <3>2. t \in threads'
      BY <1>3, <2>4 DEF StepOf, ListStep
    <3> QED
      BY <3>1, <3>2 DEF Secured
  <2>5. CASE u = t /\ thread[t].pc = "exchange"
    <3>1. Mark!Marked(o)'
      BY <1>3, <2>5 DEF StepOf, HeapStep, Known
    <3> QED
      BY <3>1 DEF Secured
  <2> QED
    BY <1>3, <2>3, <2>4, <2>5
<1> QED
  BY <1>1, <1>2, <1>3 DEF Secured

LEMMA StillToComeIn ==
    ASSUME BaseInv
    PROVE  /\ StillToCome \subseteq threads /\ threads \subseteq Thread
           /\ gcPc \in {"mark", "drain"} => StillToCome = threads
           /\ gcPc = "local" => StillToCome = localLeft
           /\ gcPc = "localChunk" => StillToCome = localLeft \ {localThread}
  BY BaseParts DEF PhaseInv, ThreadType, StillToCome

LEMMA PendingThread ==
    ASSUME BaseInv, QuietInv, Traceable, Traceable', NEW t \in Thread, StepOf(t),
           NEW o \in Obj, Pending(o)
    PROVE  Pending(o)'
<1>0. /\ PhaseInv /\ UNCHANGED <<chunk, gcPc, localLeft, localThread>>
      /\ \A u \in Thread : u # t => thread'[u] = thread[u] /\ (u \in threads' <=> u \in threads)
      /\ ListStep(t) /\ BufferStep(t) /\ ThreadOK(t) /\ ~strayThread'
      /\ needRemarkQueue \in Seq(Obj) /\ thread \in [Thread -> StructThread]
      /\ LocalBufferSize \in Nat \ {0}
  BY BaseParts, CollectorAssumption
     DEF ThreadType, StepOf, HeapStep, OnlyThread, ListStep, Traceable, ThreadInv
<1>a. StillToCome \subseteq threads /\ threads \subseteq Thread
  BY StillToComeIn
<1>b. thread[t].pc \in Pushing => gcPc = "mark"
  BY NoBarrierLeft DEF Pushing, InBarrier
<1>c. \A u \in StillToCome : u \in threads' => u \in StillToCome'
  BY <1>0 DEF StillToCome
<1>d. thread[t].localRemarkBufferUsage \in 0 .. LocalBufferSize
  BY <1>0 DEF StructThread
<1>1. CASE \E i \in DOMAIN needRemarkQueue : needRemarkQueue[i] = o
  <2>1. CASE UNCHANGED needRemarkQueue
    BY <1>1, <2>1 DEF Pending
  <2>2. CASE BufferFlushed(t)
    <3>1. \A i \in 0 .. LocalBufferSize - 1 : thread[t].localRemarkBuffer[i] \in Obj
      BY <1>0, <2>2 DEF BufferFlushed, ThreadOK, Filled
    <3>2. Entries(t, LocalBufferSize) \in Seq(Obj)
      BY <1>0, <3>1, EntriesType
    <3>3. Range(needRemarkQueue') = Range(needRemarkQueue) \union Range(Entries(t, LocalBufferSize))
      BY <1>0, <2>2, <3>2, RangeConcat DEF BufferFlushed
    <3> QED
      BY <1>1, <3>3 DEF Pending, Range
  <2> QED
    BY <1>0, <2>1, <2>2 DEF BufferStep, BufferKept, BufferNew, BufferWritten, BufferCounted
<1>2. CASE \E i \in DOMAIN chunk : chunk[i] = o
  BY <1>0, <1>2 DEF Pending
<1>3. ASSUME NEW u \in StillToCome, u # t,
             \/ \E i \in 0 .. LocalBufferSize - 1 :
                   i < thread[u].localRemarkBufferUsage /\ thread[u].localRemarkBuffer[i] = o
             \/ thread[u].pc \in Pushing /\ thread[u].obj = o
      PROVE  Pending(o)'
  BY <1>0, <1>a, <1>c, <1>3 DEF Pending
<1>4. ASSUME t \in StillToCome, NEW i \in 0 .. LocalBufferSize - 1,
             thread[t].localRemarkBuffer[i] = o, BufferFlushed(t)
      PROVE  Pending(o)'
  <2>1. \A j \in 0 .. LocalBufferSize - 1 : thread[t].localRemarkBuffer[j] \in Obj
    BY <1>0, <1>4 DEF BufferFlushed, ThreadOK, Filled
  <2>2. /\ Entries(t, LocalBufferSize) \in Seq(Obj)
        /\ DOMAIN Entries(t, LocalBufferSize) = 1 .. LocalBufferSize
        /\ \A j \in 1 .. LocalBufferSize :
              Entries(t, LocalBufferSize)[j] = thread[t].localRemarkBuffer[j - 1]
    BY <1>0, <2>1, EntriesType
  <2>3. Range(needRemarkQueue') = Range(needRemarkQueue) \union Range(Entries(t, LocalBufferSize))
    BY <1>0, <1>4, <2>2, RangeConcat DEF BufferFlushed
  <2>4. i + 1 \in 1 .. LocalBufferSize /\ (i + 1) - 1 = i
    BY <1>0
  <2>5. Entries(t, LocalBufferSize)[i + 1] = o
    BY <1>4, <2>2, <2>4
  <2>6. o \in Range(needRemarkQueue')
    BY <2>2, <2>3, <2>4, <2>5 DEF Range
  <2> QED
    BY <2>6 DEF Pending, Range
<1>5. ASSUME t \in StillToCome, NEW i \in 0 .. LocalBufferSize - 1,
             i < thread[t].localRemarkBufferUsage, thread[t].localRemarkBuffer[i] = o
      PROVE  Pending(o)'
  <2>1. t \in threads'
    BY <1>0, <1>a, <1>d, <1>5 DEF ListStep
  <2>2. CASE BufferKept(t)
    BY <1>5, <1>c, <2>1, <2>2 DEF BufferKept, SameEntries, SameUsage, Pending
  <2>3. CASE BufferNew(t)
    BY <1>0, <1>a, <1>5, <2>3 DEF BufferNew, ThreadOK
  <2>4. CASE BufferWritten(t)
    <3>1. thread'[t].localRemarkBuffer[i] = o /\ i < thread'[t].localRemarkBufferUsage
      BY <1>5, <1>d, <2>4 DEF BufferWritten, SameUsage
    <3> QED
      BY <1>5, <1>c, <2>1, <3>1 DEF Pending
  <2>5. CASE BufferCounted(t)
    <3>1. thread[t].usageRead = thread[t].localRemarkBufferUsage
      BY <1>a, <1>b, <1>5, <2>5 DEF BufferCounted, Pushing, QuietInv
    <3>2. thread'[t].localRemarkBuffer[i] = o /\ i < thread'[t].localRemarkBufferUsage
      BY <1>5, <1>d, <2>5, <3>1 DEF BufferCounted, SameEntries
    <3> QED
      BY <1>5, <1>c, <2>1, <3>2 DEF Pending
  <2>6. CASE BufferFlushed(t)
    BY <1>4, <1>5, <2>6
  <2> QED
    BY <1>0, <2>2, <2>3, <2>4, <2>5, <2>6 DEF BufferStep
<1>6. ASSUME t \in StillToCome, thread[t].pc \in Pushing, thread[t].obj = o
      PROVE  Pending(o)'
  <2>1. t \in threads'
    BY <1>0, <1>a, <1>6 DEF ListStep, Pushing
  <2>2. t \in StillToCome'
    BY <1>c, <1>6, <2>1
  <2>3. CASE BufferWritten(t)
    BY <1>6, <2>2, <2>3 DEF BufferWritten, GoesOn, Pushing, Pending
  <2>4. CASE BufferCounted(t)
    <3>1. /\ thread[t].localRemarkBuffer[thread[t].usageRead] = o
          /\ thread[t].usageRead \in 0 .. LocalBufferSize - 1
      BY <1>0, <1>6, <2>4 DEF BufferCounted, ThreadOK, StructThread
    <3> DEFINE i == thread[t].usageRead
    <3>2. /\ i \in 0 .. LocalBufferSize - 1 /\ i < thread'[t].localRemarkBufferUsage
          /\ thread'[t].localRemarkBuffer[i] = o
      BY <2>4, <3>1 DEF BufferCounted, SameEntries
    <3> HIDE DEF i
    <3> QED
      BY <2>2, <3>2 DEF Pending
  <2>5. CASE BufferFlushed(t)
    <3>1. thread[t].pc = "flush" /\ thread[t].localRemarkBuffer[LocalBufferSize - 1] = o
      BY <1>0, <1>6, <2>5 DEF BufferFlushed, ThreadOK
    <3>2. LocalBufferSize - 1 \in 0 .. LocalBufferSize - 1
      BY <1>0
    <3> QED
      BY <1>4, <1>6, <2>5, <3>1, <3>2
  <2>6. CASE BufferKept(t) \/ BufferNew(t)
    BY <1>6, <2>6 DEF BufferKept, BufferNew, Pushing
  <2> QED
    BY <1>0, <2>3, <2>4, <2>5, <2>6 DEF BufferStep
<1> QED
  BY <1>1, <1>2, <1>3, <1>5, <1>6 DEF Pending

LEMMA OwedThread ==
    ASSUME BaseInv, QuietInv, Traceable, Traceable', NEW t \in Thread, StepOf(t),
           NEW o \in Known, NEW s, Owed(o, s)
    PROVE  Owed(o, s)'
<1>0. /\ UNCHANGED <<queueVars, gcPc>> /\ o \in Obj /\ ~strayThread'
      /\ PcStep(t) /\ NoteStep(t) /\ ListStep(t)
      /\ Mark!Marked(o)' <=> Mark!Marked(o) \/ (thread[t].pc = "exchange" /\ thread[t].obj = o)
  BY DEF StepOf, HeapStep, Known, Traceable
<1>1. CASE ~Mark!Marked(o)
  <2>1. CASE ~(thread[t].pc = "exchange" /\ thread[t].obj = o)
    BY <1>0, <1>1, <2>1 DEF Owed
  <2>2. CASE thread[t].pc = "exchange" /\ thread[t].obj = o
    <3>1. gcPc = "mark"
      BY <2>2, NoBarrierLeft DEF InBarrier
    <3>t. t \in threads
      BY <1>0, <1>1, <2>2 DEF NoteStep
    <3>2. thread'[t].pc = "push" /\ thread'[t].obj = o
      BY <1>0, <1>1, <2>2, <3>t DEF PcStep
    <3>3. t \in threads'
      BY <1>0, <2>2, <3>t DEF ListStep
    <3>4. t \in StillToCome'
      BY <1>0, <3>1, <3>3 DEF StillToCome
    <3>5. Pending(o)'
      BY <3>2, <3>4 DEF Pending, Pushing
    <3> QED
      BY <3>5 DEF Owed
  <2> QED
    BY <2>1, <2>2
<1>2. CASE Pending(o)
  BY <1>0, <1>2, PendingThread DEF Owed
<1>3. CASE ~(~Mark!Marked(o)) /\ ~Pending(o)
  BY <1>0, <1>3 DEF Owed, Mark!CurrentSlot, Mark!InFields
<1> QED
  BY <1>1, <1>2, <1>3

LEMMA EdgesThread ==
    ASSUME BaseInv, KnownInv, QuietInv, EdgesInv, NEW t \in Thread, StepOf(t)
    PROVE  EdgesInv'
<1> SUFFICES ASSUME Traceable', NEW o \in objectsListSnapshot \ premarked, NEW s \in Mark!Slots(o)
             PROVE  EdgeOK(o, s)'
  BY DEF EdgesInv, StepOf, HeapStep
<1>0. /\ UNCHANGED <<gcPc, markPc, snapshotField>> /\ NoteStep(t) /\ FieldStep(t)
      /\ o \in Known /\ o \in Obj /\ snapshotField[o][s] \in Known \union {NULL}
  BY DEF StepOf, HeapStep, KnownInv, SnapshotInv, Known
<1>1. Traceable
  BY <1>0 DEF Traceable, NoteStep
<1>2. EdgeOK(o, s)
  BY <1>1 DEF EdgesInv
<1>3. CASE snapshotField[o][s] = NULL
  BY <1>0, <1>3 DEF EdgeOK
<1>4. CASE Secured(snapshotField[o][s]) /\ snapshotField[o][s] # NULL
  BY <1>0, <1>1, <1>4, SecuredThread DEF EdgeOK
<1>5. CASE field[o][s] = snapshotField[o][s] /\ Owed(o, s) /\ snapshotField[o][s] # NULL
  <2>1. Owed(o, s)'
    BY <1>0, <1>1, <1>5, OwedThread
  <2>2. CASE field'[o][s] = field[o][s]
    BY <1>0, <1>5, <2>1, <2>2 DEF EdgeOK
  <2>3. CASE t \in threads' /\ thread'[t].pc = "load" /\ thread'[t].obj = field[o][s]
    BY <1>0, <1>5, <2>3 DEF EdgeOK, Secured
  <2>4. CASE thread[t].pc = "init" /\ thread[t].obj = o
    <3>1. ~hasDesc[o]
      BY <2>4 DEF KnownInv, InitInv, Making
    <3>2. field[o][s] = NULL
      BY <1>0, <3>1 DEF KnownInv, BlankInv
    <3> QED
      BY <1>5, <3>2
  <2> QED
    BY <1>0, <1>5, <2>2, <2>3, <2>4 DEF FieldStep
<1> QED
  BY <1>2, <1>3, <1>4, <1>5 DEF EdgeOK

-----------------------------------------------------------------------------
(* ... and those of the GC thread. *)
LEMMA ReadSplits ==
    ASSUME BaseInv, ReadChunk
    PROVE  Range(needRemarkQueue) = Range(chunk') \union Range(needRemarkQueue')
<1>1. /\ needRemarkQueue \in Seq(Obj) /\ needRemarkQueue # <<>> /\ LocalBufferSize \in Nat \ {0}
      /\ chunk' = SubSeq(needRemarkQueue, 1, LocalBufferSize)
      /\ needRemarkQueue' = SubSeq(needRemarkQueue, LocalBufferSize + 1, Len(needRemarkQueue))
  BY BaseParts, CollectorAssumption DEF ReadChunk, ThreadType
<1>2. PICK n \in Nat : Len(needRemarkQueue) = LocalBufferSize * n
  BY DEF BaseInv, WholeQueue
<1>3. Len(needRemarkQueue) # 0
  BY <1>1
<1>4. LocalBufferSize <= Len(needRemarkQueue)
  BY <1>1, <1>2, <1>3, Whole
<1> QED
  BY <1>1, <1>4, RangeSplit

LEMMA PendingTurns ==
    ASSUME BaseInv, QuietInv, Turns, Traceable', NEW o \in Obj, Pending(o)
    PROVE  Pending(o)'
<1>0. /\ PhaseInv /\ StillToCome \subseteq threads /\ threads \subseteq Thread /\ ThreadsStay
      /\ thread \in [Thread -> StructThread] /\ ThreadInv
  BY BaseParts, StillToComeIn, TurnsEffect DEF ThreadType
<1>1. CASE EndMarking \/ EndDrain
  <2>1. /\ UNCHANGED <<needRemarkQueue, chunk, thread, threads>>
        /\ StillToCome = threads /\ StillToCome' = threads
    BY <1>1, StillToComeIn DEF EndMarking, EndDrain, GoGc, StillToCome
  <2> QED
    BY <2>1 DEF Pending
<1>2. CASE ReadChunk
  <2>1. /\ chunk = <<>> /\ UNCHANGED <<thread, threads, gcPc, localLeft, localThread>>
    BY <1>2 DEF ReadChunk, ChunkDone
  <2>2. StillToCome' = StillToCome
    BY <2>1 DEF StillToCome
  <2>3. Range(needRemarkQueue) = Range(chunk') \union Range(needRemarkQueue')
    BY <1>2, ReadSplits
  <2>4. CASE o \in Range(needRemarkQueue)
    BY <2>3, <2>4 DEF Pending, Range
  <2>5. CASE o \notin Range(needRemarkQueue)
    BY <2>1, <2>2, <2>5 DEF Pending, Range
  <2> QED
    BY <2>4, <2>5
<1>3. ASSUME NEW t \in Thread, ReadLocal(t) PROVE Pending(o)'
  <2>1. /\ gcPc = "local" /\ gcPc' = "localChunk" /\ localThread' = t /\ t \in localLeft
        /\ chunk' = Entries(t, thread[t].localRemarkBufferUsage)
        /\ UNCHANGED <<thread, threads, needRemarkQueue, localLeft, lateBarrier>>
    BY <1>3 DEF ReadLocal, GoGc
  <2>2. StillToCome' = StillToCome \ {t} /\ chunk = <<>> /\ StillToCome = localLeft
    BY <1>0, <2>1, StillToComeIn DEF StillToCome, PhaseInv
  <2>3. \A u \in Thread : thread[u].pc \notin Pushing
    BY <2>1 DEF QuietInv, AfterMarking, Traceable, Pushing, InBarrier
  <2>4. ASSUME NEW i \in 0 .. LocalBufferSize - 1, i < thread[t].localRemarkBufferUsage,
               thread[t].localRemarkBuffer[i] = o
        PROVE  Pending(o)'
    <3> DEFINE n == thread[t].localRemarkBufferUsage
    <3>1. n \in 0 .. LocalBufferSize /\ LocalBufferSize \in Nat \ {0}
      BY <1>0, CollectorAssumption DEF StructThread
    <3>2. \A j \in 0 .. n - 1 : thread[t].localRemarkBuffer[j] \in Obj
      BY <1>0, <3>1 DEF ThreadInv, ThreadOK, Filled
    <3> HIDE DEF n
    <3>3. /\ DOMAIN Entries(t, n) = 1 .. n
          /\ \A j \in 1 .. n : Entries(t, n)[j] = thread[t].localRemarkBuffer[j - 1]
      BY <3>1, <3>2, EntriesType
    <3>4. i + 1 \in 1 .. n /\ (i + 1) - 1 = i
      BY <2>4, <3>1 DEF n
    <3>5. Entries(t, n)[i + 1] = o
      BY <2>4, <3>3, <3>4
    <3> QED
      BY <2>1, <3>3, <3>4, <3>5 DEF Pending, n
  <2> QED
    BY <2>1, <2>2, <2>3, <2>4 DEF Pending
<1>4. CASE ResetLocal
  <2>1. /\ gcPc = "localChunk" /\ gcPc' = "local" /\ localLeft' = localLeft \ {localThread}
        /\ UNCHANGED <<threads, needRemarkQueue, chunk>>
    BY <1>4 DEF ResetLocal, GoGc
  <2>2. StillToCome' = StillToCome /\ localThread \notin StillToCome
    BY <2>1, StillToComeIn DEF StillToCome
  <2>3. \A u \in StillToCome : thread'[u] = thread[u]
    BY <1>0, <1>4, <2>2, ResetEffect DEF OnlyThread
  <2> QED
    BY <2>1, <2>2, <2>3 DEF Pending
<1> QED
  BY <1>1, <1>2, <1>3, <1>4 DEF Turns

LEMMA SecuredTrace ==
    ASSUME BaseInv, MarkStep, NEW o \in Obj, Secured(o) PROVE Secured(o)'
<1>1. /\ Mark!Marked(o) => Mark!Marked(o)'
      /\ Queued(o) => Queued(o)' \/ Mark!Marked(o)'
      /\ UNCHANGED <<threads, thread>>
  BY TraceEffect
<1> QED
  BY <1>1 DEF Secured, Queued

(* The slots a visit has still before it *)
LEMMA FirstSlot ==
    ASSUME NEW state \in Mark!MarkState, NEW o \in Obj, o = state.block,
           scan' \in Mark!ScanState, scan'.block = o, scan'.fieldIndex = state.fieldIndex,
           scan'.flexIndex = 0, NEW s \in Mark!Slots(o),
           s >= state.fieldIndex \/ s >= FieldCount[o]
    PROVE  s >= Mark!CurrentSlot'
<1>1. FieldCount[o] \in Nat /\ FlexCount[o] \in Nat /\ state.fieldIndex \in Nat /\ s \in Nat
  BY TracerAssumption DEF Mark!MarkState, Mark!Slots, Mark!SlotCount
<1> QED
  BY <1>1 DEF Mark!CurrentSlot, Mark!InFields

LEMMA NextSlot ==
    ASSUME BaseInv, Mark!AtSlot, scan' = Mark!AfterSlot, NEW s \in Nat, s >= Mark!CurrentSlot
    PROVE  s = Mark!CurrentSlot \/ s >= Mark!CurrentSlot'
<1>1. /\ scan.block \in Obj /\ scan.fieldIndex \in Nat /\ scan.flexIndex \in Nat
      /\ FieldCount[scan.block] \in Nat /\ markPc = "scan"
      /\ scan \in Mark!ScanState
  BY AtASlot, BaseParts, TracerAssumption DEF TracerType, Mark!ScanState
<1>2. scan.fieldIndex < FieldCount[scan.block] => scan.flexIndex = 0
  BY <1>1, BaseParts DEF ScanInv
<1>3. CASE Mark!InFields
  <2>1. /\ scan'.block = scan.block /\ scan'.fieldIndex = scan.fieldIndex + 1
        /\ scan'.flexIndex = 0
    BY <1>1, <1>2, <1>3 DEF Mark!AfterSlot, Mark!InFields, Mark!ScanState
  <2> QED
    BY <1>1, <1>3, <2>1 DEF Mark!CurrentSlot, Mark!InFields
<1>4. CASE ~Mark!InFields
  <2>1. /\ scan'.block = scan.block /\ scan'.fieldIndex = scan.fieldIndex
        /\ scan'.flexIndex = scan.flexIndex + 1
    BY <1>1, <1>4 DEF Mark!AfterSlot, Mark!InFields, Mark!ScanState
  <2> QED
    BY <1>1, <1>4, <2>1 DEF Mark!CurrentSlot, Mark!InFields
<1> QED
  BY <1>3, <1>4

LEMMA SavedSlot ==
    ASSUME BaseInv, Mark!AtSlot, NEW s \in Mark!Slots(scan.block), s >= Mark!CurrentSlot
    PROVE  s >= Mark!SavedIndex \/ s >= FieldCount[scan.block]
<1>1. /\ scan.block \in Obj /\ scan.fieldIndex \in Nat /\ scan.flexIndex \in Nat
      /\ FieldCount[scan.block] \in Nat /\ FlexCount[scan.block] \in Nat /\ markPc = "scan"
  BY AtASlot, BaseParts, TracerAssumption DEF TracerType, Mark!ScanState
<1>2. scan.fieldIndex < FieldCount[scan.block] => scan.flexIndex = 0
  BY <1>1, BaseParts DEF ScanInv
<1>3. s \in Nat
  BY <1>1 DEF Mark!Slots, Mark!SlotCount
<1> QED
  BY <1>1, <1>2, <1>3 DEF Mark!CurrentSlot, Mark!InFields, Mark!SavedIndex, Mark!SlotCount

LEMMA OwedTrace ==
    ASSUME BaseInv, BlankInv, VisitedInv, MarkStep, markPc' # "panic",
           NEW o \in Obj, NEW s \in Mark!Slots(o), field[o][s] # NULL, Owed(o, s)
    PROVE  Owed(o, s)' \/ Queued(field[o][s])'
<1>0. /\ UNCHANGED <<field, gcPc, needRemarkQueue, chunk, thread, threads, localLeft, localThread,
                     GCMarkedBitValue>>
      /\ Mark!Marked(o) => Mark!Marked(o)'
      /\ deferredMarkQueue \in Seq(Mark!MarkState) /\ s \in Nat
      /\ FieldCount[o] \in Nat /\ FlexCount[o] \in Nat
  BY TraceEffect, BaseParts, TracerAssumption DEF TracerType, Mark!Slots, Mark!SlotCount
<1>1. CASE Pending(o)
  <2>1. Pending(o)'
    BY <1>0, <1>1 DEF Pending, StillToCome
  <2> QED
    BY <2>1 DEF Owed
<1>2. ASSUME ~Pending(o), NEW state \in Mark!MarkState, Visits(state) PROVE Owed(o, s)'
  <2>1. ASSUME o = state.block, s >= state.fieldIndex \/ s >= FieldCount[o],
               ~(state.fieldIndex = 0 /\ Mark!Marked(o))
        PROVE  Owed(o, s)'
    <3>1. /\ markPc' = "scan" /\ scan' \in Mark!ScanState /\ scan'.block = o
          /\ scan'.fieldIndex = state.fieldIndex /\ scan'.flexIndex = 0
      BY <1>2, <2>1 DEF Visits
    <3>2. s >= Mark!CurrentSlot'
      BY <2>1, <3>1, FirstSlot
    <3> QED
      BY <3>1, <3>2 DEF Owed
  <2>2. CASE ~Mark!Marked(o)
    <3>1. CASE o # state.block
      <4>1. ~Mark!Marked(o)'
        BY <1>0, <1>2, <2>2, <3>1 DEF Visits, Mark!Marked
      <4> QED
        BY <4>1 DEF Owed
    <3>2. CASE o = state.block
      <4>1. state.fieldIndex = 0
        <5>1. CASE state = Head(deferredMarkQueue) /\ deferredMarkQueue # <<>>
          <6>1. state = deferredMarkQueue[1] /\ 1 \in DOMAIN deferredMarkQueue
            BY <1>0, <5>1
          <6> QED
            BY <2>2, <3>2, <6>1 DEF VisitedInv
        <5> QED
          BY <1>2, <5>1 DEF Visits
      <4> QED
        BY <1>0, <2>1, <2>2, <3>2, <4>1
    <3> QED
      BY <3>1, <3>2
  <2>3. ASSUME NEW i \in DOMAIN deferredMarkQueue, deferredMarkQueue[i].block = o,
               s >= deferredMarkQueue[i].fieldIndex \/ s >= FieldCount[o]
        PROVE  Owed(o, s)'
    <3>1. CASE UNCHANGED deferredMarkQueue
      BY <2>3, <3>1 DEF Owed
    <3>2. CASE /\ deferredMarkQueue # <<>> /\ state = Head(deferredMarkQueue)
               /\ state.fieldIndex > 0 /\ deferredMarkQueue' = Tail(deferredMarkQueue)
      <4>1. CASE i = 1
        <5>1. state = deferredMarkQueue[i]
          BY <1>0, <3>2, <4>1
        <5>2. state.fieldIndex # 0
          BY <3>2 DEF Mark!MarkState
        <5> QED
          BY <2>1, <2>3, <5>1, <5>2
      <4>2. CASE i # 1
        <5>1. i - 1 \in DOMAIN Tail(deferredMarkQueue)
              /\ Tail(deferredMarkQueue)[i - 1] = deferredMarkQueue[i]
          BY <1>0, <3>2, <4>2
        <5> QED
          BY <2>3, <3>2, <5>1 DEF Owed
      <4> QED
        BY <4>1, <4>2
    <3> QED
      BY <1>2, <3>1, <3>2 DEF Visits
  <2>4. markPc # "scan"
    BY <1>2 DEF Visits
  <2> QED
    BY <1>2, <2>2, <2>3, <2>4 DEF Owed
<1>3. ASSUME ~Pending(o), PassesSlot PROVE Owed(o, s)' \/ Queued(field[o][s])'
  <2>0. /\ Mark!AtSlot /\ scan' = Mark!AfterSlot
        /\ UNCHANGED <<markBit, deferredMarkQueue, markPc>>
        /\ scan'.block = scan.block
    BY <1>3, AtASlot DEF PassesSlot
  <2>1. CASE markPc = "scan" /\ scan.block = o /\ s >= Mark!CurrentSlot
    <3>1. CASE s = Mark!CurrentSlot
      <4>1. Mark!Content = field[o][s]
        BY <2>0, <2>1, <3>1, AtASlot
      <4>2. /\ Mark!Content \in Obj
            /\ gcMarkQueueUwU' = Append(gcMarkQueueUwU, Mark!Content)
            /\ gcMarkQueueUwU \in Seq(Ref)
        BY <1>3, <4>1, BaseParts DEF PassesSlot, TracerType
      <4> DEFINE c == Mark!Content
      <4>3. c \in Ref /\ gcMarkQueueUwU' = Append(gcMarkQueueUwU, c) /\ c = field[o][s]
        BY <4>1, <4>2 DEF Ref
      <4> HIDE DEF c
      <4>4. Range(gcMarkQueueUwU') = Range(gcMarkQueueUwU) \union {c}
        BY <4>2, <4>3, RangeAppend
      <4> QED
        BY <1>0, <4>3, <4>4, QueuedIs
    <3>2. CASE s # Mark!CurrentSlot
      <4>1. s >= Mark!CurrentSlot'
        BY <1>0, <2>0, <2>1, <3>2, NextSlot
      <4> QED
        BY <2>0, <2>1, <4>1 DEF Owed
    <3> QED
      BY <3>1, <3>2
  <2>2. CASE ~(markPc = "scan" /\ scan.block = o /\ s >= Mark!CurrentSlot)
    BY <1>0, <1>3, <2>0, <2>2 DEF Owed, Mark!Marked
  <2> QED
    BY <2>1, <2>2
<1>4. ASSUME ~Pending(o), PutsOff PROVE Owed(o, s)'
  <2> DEFINE e == [block |-> scan.block, fieldIndex |-> Mark!SavedIndex]
  <2>0. /\ Mark!AtSlot /\ scan.block \in Obj /\ Mark!SavedIndex \in Nat
        /\ deferredMarkQueue' = Append(deferredMarkQueue, e) /\ UNCHANGED markBit
        /\ e \in Mark!MarkState /\ e.block = scan.block /\ e.fieldIndex = Mark!SavedIndex
    BY <1>4, AtASlot DEF PutsOff, Mark!MarkState
  <2>1. ASSUME scan.block = o, s >= Mark!CurrentSlot
        PROVE  s >= e.fieldIndex \/ s >= FieldCount[o]
    BY <2>0, <2>1, SavedSlot
  <2> HIDE DEF e
  <2>2. /\ Len(deferredMarkQueue) + 1 \in DOMAIN deferredMarkQueue'
        /\ deferredMarkQueue'[Len(deferredMarkQueue) + 1] = e
        /\ \A i \in DOMAIN deferredMarkQueue :
              i \in DOMAIN deferredMarkQueue' /\ deferredMarkQueue'[i] = deferredMarkQueue[i]
    BY <1>0, <2>0
  <2>3. CASE scan.block = o /\ s >= Mark!CurrentSlot
    BY <2>0, <2>1, <2>2, <2>3 DEF Owed
  <2>4. CASE ~(scan.block = o /\ s >= Mark!CurrentSlot)
    BY <1>0, <1>4, <2>0, <2>2, <2>4 DEF Owed, Mark!Marked
  <2> QED
    BY <2>3, <2>4
<1>5. ASSUME ~Pending(o), Leaves PROVE Owed(o, s)'
  <2>1. UNCHANGED <<markBit, deferredMarkQueue>>
    BY <1>5 DEF Leaves
  <2>2. ASSUME markPc = "scan", scan.block = o, s >= Mark!CurrentSlot PROVE FALSE
    <3>1. Mark!ScanDone
      BY <1>5, <2>2 DEF Leaves
    <3>2. CASE ~hasDesc[o]
      BY <3>2 DEF BlankInv
    <3>3. CASE hasDesc[o]
      <4>1. ~Mark!InFields /\ scan.flexIndex >= FlexCount[o]
        BY <2>2, <3>1, <3>3 DEF Mark!ScanDone
      <4>2. Mark!CurrentSlot = FieldCount[o] + scan.flexIndex /\ scan.flexIndex \in Nat
        BY <2>2, <4>1, BaseParts DEF Mark!CurrentSlot, TracerType, Mark!ScanState
      <4> QED
        BY <1>0, <2>2, <4>1, <4>2 DEF Mark!Slots, Mark!SlotCount
    <3> QED
      BY <3>2, <3>3
  <2> QED
    BY <1>0, <1>5, <2>1, <2>2 DEF Owed, Mark!Marked
<1> QED
  BY <1>1, <1>2, <1>3, <1>4, <1>5, MarkStepCases

LEMMA EdgesStep ==
    BaseInv /\ KnownInv /\ QuietInv /\ VisitedInv /\ EdgesInv /\ [Next]_vars => EdgesInv'
<1> SUFFICES ASSUME BaseInv, KnownInv, QuietInv, VisitedInv, EdgesInv, [Next]_vars PROVE EdgesInv'
  OBVIOUS
<1>0. /\ PhaseInv /\ NULL \notin Obj /\ rootsLeft \subseteq Ref
      /\ objectsListSnapshot \subseteq Known /\ Known \subseteq Obj
      /\ \A o \in Obj : \A s \in Mark!Slots(o) : snapshotField[o][s] \in Obj \union {NULL}
  BY BaseParts, TracerAssumption DEF TracerType, KnownInv, SnapshotInv, Known
<1>1. ASSUME NEW t \in Thread, ThreadStep(t) PROVE EdgesInv'
  BY <1>1, StepEffect, EdgesThread
<1>2. ASSUME gcPc' \notin Tracing PROVE EdgesInv'
  BY <1>2 DEF EdgesInv, Traceable
<1>3. CASE CopyRoots
  <2>1. /\ snapshotField' = field /\ premarked' = {o \in Live : Mark!Marked(o)}
        /\ objectsListSnapshot' = Live
        /\ UNCHANGED <<field, markBit, GCMarkedBitValue>>
    BY <1>3 DEF CopyRoots
  <2>2. \A o \in (objectsListSnapshot \ premarked)' : \A s \in Mark!Slots(o) : EdgeOK(o, s)'
    BY <2>1 DEF EdgeOK, Owed, Mark!Marked
  <2> QED
    BY <2>2 DEF EdgesInv
(* The other steps leave the snapshot and the fields alone.                *)
<1>4. ASSUME Traceable' => Traceable,
             UNCHANGED <<field, objectsListSnapshot, premarked, snapshotField>>,
             \A o \in Obj : Secured(o) /\ Traceable' => Secured(o)',
             \A o \in Obj : \A s \in Mark!Slots(o) :
                 field[o][s] # NULL /\ Owed(o, s) /\ Traceable' => Owed(o, s)' \/ Queued(field[o][s])'
      PROVE  EdgesInv'
  <2> SUFFICES ASSUME Traceable', NEW o \in objectsListSnapshot \ premarked, NEW s \in Mark!Slots(o)
               PROVE  EdgeOK(o, s)'
    BY <1>4 DEF EdgesInv
  <2>1. EdgeOK(o, s) /\ o \in Obj /\ snapshotField[o][s] \in Obj \union {NULL}
    BY <1>0, <1>4 DEF EdgesInv
  <2>2. CASE Secured(snapshotField[o][s]) /\ snapshotField[o][s] # NULL
    BY <1>4, <2>1, <2>2 DEF EdgeOK
  <2>3. CASE field[o][s] = snapshotField[o][s] /\ Owed(o, s) /\ snapshotField[o][s] # NULL
    BY <1>4, <2>1, <2>3 DEF EdgeOK, Secured, Queued
  <2> QED
    BY <1>4, <2>1, <2>2, <2>3 DEF EdgeOK
<1>5. ASSUME NEW root \in rootsLeft, MarkRoot(root) PROVE EdgesInv'
  <2>1. /\ root \in Ref /\ Mark!DoMark(root)
        /\ UNCHANGED <<field, objectsListSnapshot, premarked, snapshotField, gcPc, noteVars, markBit,
                       GCMarkedBitValue, needRemarkQueue, chunk, threads, thread, localLeft, localThread>>
    BY <1>0, <1>5 DEF MarkRoot, Mark!MarkRoot
  <2>2. /\ \A o : ~Queued(o)
        /\ deferredMarkQueue = <<>> /\ markPc = "idle"
    BY <2>1, HandedOver
  <2>3. \A o \in Obj : Secured(o) => Secured(o)'
    BY <2>1, <2>2 DEF Secured, Queued, Mark!Marked
  <2>4. \A o \in Obj : \A s \in Mark!Slots(o) : Owed(o, s) => Owed(o, s)'
    BY <2>1, <2>2 DEF Owed, Pending, StillToCome, Mark!Marked
  <2>5. Traceable' => Traceable
    BY <2>1, <2>2 DEF Traceable
  <2> QED
    BY <1>4, <2>1, <2>3, <2>4, <2>5
<1>6. CASE MarkStep
  <2>1. /\ UNCHANGED <<field, objectsListSnapshot, premarked, snapshotField, gcPc, noteVars>>
        /\ markPc # "panic"
    <3>1. markPc # "panic"
      BY <1>6, MarkStepCases DEF Visits, PassesSlot, PutsOff, Leaves, Mark!AtSlot
    <3> QED
      BY <1>6, <3>1, TraceEffect
  <2>2. \A o \in Obj : Secured(o) => Secured(o)'
    BY <1>6, SecuredTrace
  <2>3. \A o \in Obj : \A s \in Mark!Slots(o) :
           field[o][s] # NULL /\ Owed(o, s) /\ Traceable' => Owed(o, s)' \/ Queued(field[o][s])'
    BY <1>6, OwedTrace DEF KnownInv, Traceable
  <2>4. Traceable' => Traceable
    BY <2>1 DEF Traceable
  <2> QED
    BY <1>4, <2>1, <2>2, <2>3, <2>4
<1>7. CASE RemarkNext
  <2>0. PICK h \in Obj : h = Head(chunk)
    BY <1>7 DEF RemarkNext, Live
  <2>1. /\ h \in Ref /\ Mark!DoMark(h) /\ chunk # <<>> /\ chunk' = Tail(chunk)
        /\ markBit' = [markBit EXCEPT ![h] = ~GCMarkedBitValue]
        /\ UNCHANGED <<field, objectsListSnapshot, premarked, snapshotField, gcPc, noteVars,
                       GCMarkedBitValue, needRemarkQueue, threads, thread, localLeft, localThread>>
    BY <1>7, <2>0 DEF RemarkNext, Ref
  <2>2. chunk \in Seq(Obj) /\ markBit \in [Obj -> BOOLEAN] /\ GCMarkedBitValue \in BOOLEAN
    BY BaseParts DEF CycleType, HeapType, TracerType
  <2>3. Range(chunk) = {h} \union Range(chunk')
    BY <2>0, <2>1, <2>2, RangeTail
  <2>4. /\ \A o : ~Queued(o)
        /\ \A o : Queued(o)' <=> o = h
        /\ deferredMarkQueue = <<>> /\ markPc = "idle"
    BY <2>1, HandedOver
  <2>5. /\ \A o \in Obj : o # h => (Mark!Marked(o)' <=> Mark!Marked(o))
        /\ ~Mark!Marked(h)'
    <3>1. (~GCMarkedBitValue) # GCMarkedBitValue
      BY <2>2
    <3>2. markBit'[h] = ~GCMarkedBitValue /\ \A o \in Obj : o # h => markBit'[o] = markBit[o]
      BY <2>1, <2>2
    <3> QED
      BY <2>1, <3>1, <3>2 DEF Mark!Marked
  <2>6. \A o \in Obj : Secured(o) => Secured(o)'
    BY <2>1, <2>4, <2>5 DEF Secured, Queued
  <2>7. \A o \in Obj : o # h /\ Pending(o) => Pending(o)'
    BY <2>1, <2>3 DEF Pending, Range, StillToCome
  <2>8. \A o \in Obj : \A s \in Mark!Slots(o) : Owed(o, s) => Owed(o, s)'
    <3>1. \A o, s : Owed(o, s) => ~Mark!Marked(o) \/ Pending(o)
      BY <2>4 DEF Owed
    <3>2. \A o, s : (~Mark!Marked(o) \/ Pending(o))' => Owed(o, s)'
      BY DEF Owed
    <3> QED
      BY <2>5, <2>7, <3>1, <3>2
  <2>9. Traceable' => Traceable
    BY <2>1, <2>4 DEF Traceable
  <2> QED
    BY <1>4, <2>1, <2>6, <2>8, <2>9
<1>8. CASE Turns
  <2>1. /\ gcPc \in Tracing /\ gcPc' # "mark" /\ ThreadsStay
        /\ UNCHANGED <<field, markBit, GCMarkedBitValue, rootVars, queueVars,
                       snapshotField, objectsListSnapshot, strayThread>>
        /\ lateBarrier => lateBarrier'
    BY <1>8, TurnsEffect
  <2>2. \A o \in Obj : Secured(o) => Secured(o)'
    BY <1>0, <2>1, BaseParts DEF Secured, ThreadsStay, ThreadType, Mark!Marked
  <2>3. \A o \in Obj : Pending(o) /\ Traceable' => Pending(o)'
    BY <1>8, PendingTurns
  <2>4. \A o \in Obj : \A s \in Mark!Slots(o) : Owed(o, s) /\ Traceable' => Owed(o, s)'
    BY <2>1, <2>3 DEF Owed, Mark!Marked, Mark!CurrentSlot, Mark!InFields
  <2>5. Traceable' => Traceable
    BY <2>1 DEF Traceable
  <2> QED
    BY <1>4, <2>1, <2>2, <2>4, <2>5
<1>9. CASE EndLocal \/ (\E block \in toSweep : SweepBlock(block)) \/ EndSweep
  BY <1>2, <1>9 DEF EndLocal, SweepBlock, EndSweep, GoGc, Tracing
<1>10. CASE gcPc' \in {"idle", "enter", "copy"}
  BY <1>2, <1>10 DEF Tracing
<1>11. CASE Fail \/ UNCHANGED vars
  <2>1. UNCHANGED <<blockVars, threadVars, gcVars, historyVars>>
    BY <1>11 DEF Fail, vars
  <2>2. \A o \in Obj : Secured(o) => Secured(o)'
    BY <2>1 DEF Secured, Mark!Marked
  <2>3. \A o \in Obj : \A s \in Mark!Slots(o) : Owed(o, s) => Owed(o, s)'
    BY <2>1 DEF Owed, Pending, StillToCome, Mark!Marked, Mark!CurrentSlot, Mark!InFields
  <2>4. Traceable' => Traceable
    BY <2>1 DEF Traceable
  <2> QED
    BY <1>4, <2>1, <2>2, <2>3, <2>4
<1>12. CASE GcStep
  BY <1>3, <1>5, <1>6, <1>7, <1>8, <1>9, <1>10, <1>12, PhaseCases
<1> QED
  BY <1>1, <1>11, <1>12, Steps

TraceInv == VisitedInv /\ EdgesInv /\ RootsInv

LEMMA TraceCorrect == Spec => [](HeapInv /\ TraceInv)
<1>1. Init => TraceInv
  BY DEF Init, TraceInv, VisitedInv, EdgesInv, Traceable, Tracing, RootsInv
<1>2. HeapInv /\ TraceInv /\ [Next]_vars => TraceInv'
  BY VisitedStep, EdgesStep, RootsStep DEF HeapInv, TraceInv
<1> QED
  BY <1>1, <1>2, HeapCorrect, PTL DEF Spec

(* SnapshotEdges: while markingPhase runs, gc_need_remark (gc.c:41-78) and  *)
(* the tracer's two queues between them never lose an edge of the heap as   *)
(* it was at the snapshot, however the mutators move references.           *)
THEOREM SnapshotEdgesKept == Spec => []SnapshotEdges
<1>1. BaseInv /\ EdgesInv => SnapshotEdges
  <2> SUFFICES ASSUME BaseInv, EdgesInv, gcPc = "mark", markPc # "panic", ~strayThread,
                      NEW o \in objectsListSnapshot \ premarked, NEW s \in Mark!Slots(o)
               PROVE  \/ snapshotField[o][s] = NULL \/ Secured(snapshotField[o][s])
                      \/ field[o][s] = snapshotField[o][s] /\ WillVisit(o, s)
    BY DEF SnapshotEdges
  <2>1. EdgeOK(o, s)
    BY DEF EdgesInv, Traceable, Tracing
  <2>2. chunk = <<>> /\ StillToCome = threads /\ threads \subseteq Thread
    BY BaseParts, StillToComeIn DEF PhaseInv
  <2>3. \A t \in threads : \A i \in 0 .. LocalBufferSize - 1 :
           i < thread[t].localRemarkBufferUsage => i \in 0 .. thread[t].localRemarkBufferUsage - 1
    BY <2>2, BaseParts, CollectorAssumption DEF ThreadType, StructThread
  <2>4. Pending(o) => InBuffers(o)
    BY <2>2, <2>3 DEF Pending, InBuffers, Pushing
  <2> QED
    BY <2>1, <2>4 DEF EdgeOK, Owed, WillVisit
<1> QED
  BY <1>1, TraceCorrect, PTL DEF HeapInv, TraceInv

-----------------------------------------------------------------------------
(* What is marked when the sweep starts *)
LEMMA MarkedAtEnd ==
    ASSUME BaseInv, QuietInv, TraceInv, EndLocal, ~lateBarrier, ~strayThread
    PROVE  /\ snapshotOfRootSet \subseteq Mark!MarkedSet
           /\ \A o \in (objectsListSnapshot \ premarked) \intersect Mark!MarkedSet :
                \A s \in Mark!Slots(o) : snapshotField[o][s] \in Mark!MarkedSet \union {NULL}
<1>1. gcPc = "local" /\ localLeft = {}
  BY DEF EndLocal, GoGc
<1>2. /\ markPc = "idle" /\ chunk = <<>> /\ rootsLeft = {}
      /\ gcMarkQueueUwU = <<>> /\ deferredMarkQueue = <<>>
  BY <1>1, BaseParts DEF PhaseInv, ScanInv
<1>3. needRemarkQueue = <<>> /\ \A t \in Thread : thread[t].pc \notin InBarrier
  BY <1>1 DEF QuietInv, Emptied, AfterMarking
<1>4. StillToCome = {} /\ threads \subseteq Thread
  BY <1>1, StillToComeIn
<1>5. \A o : ~Pending(o)
  BY <1>2, <1>3, <1>4 DEF Pending
<1>6. \A o, s : Owed(o, s) => ~Mark!Marked(o)
  BY <1>2, <1>5 DEF Owed
<1>7. \A o : Secured(o) => Mark!Marked(o)
  BY <1>2, <1>3, <1>4 DEF Secured, InBarrier
<1>8. snapshotOfRootSet \subseteq Mark!MarkedSet
  BY <1>1, <1>2 DEF TraceInv, RootsInv, Tracing, Queued, Mark!MarkedSet
<1>9. ASSUME NEW o \in objectsListSnapshot \ premarked, o \in Mark!MarkedSet, NEW s \in Mark!Slots(o)
      PROVE  snapshotField[o][s] \in Mark!MarkedSet \union {NULL}
  <2>1. EdgeOK(o, s)
    BY <1>1, <1>2 DEF TraceInv, EdgesInv, Traceable, Tracing
  <2>2. o \in Obj /\ Mark!Marked(o)
    BY <1>9 DEF Mark!MarkedSet
  <2>3. snapshotField[o][s] \in Ref
    BY <2>2, BaseParts DEF HistoryType, Mark!Fields, Mark!Ref, Ref
  <2> QED
    BY <1>6, <1>7, <2>1, <2>2, <2>3 DEF EdgeOK, Mark!MarkedSet, Ref
<1> QED
  BY <1>8, <1>9

(* While the sweep has not begun, nothing more is marked. *)
LEMMA KeepsStep ==
    BaseInv /\ KnownInv /\ QuietInv /\ TraceInv /\ SweepKeepsSnapshot /\ [Next]_vars
        => SweepKeepsSnapshot'
<1> SUFFICES ASSUME BaseInv, KnownInv, QuietInv, TraceInv, SweepKeepsSnapshot, [Next]_vars,
                    gcPc' = "sweep", toSweep' = objectsListSnapshot', Undisturbed'
             PROVE  /\ (snapshotOfRootSet \subseteq Mark!MarkedSet)'
                    /\ (\A o \in (objectsListSnapshot \ premarked) \intersect Mark!MarkedSet :
                         {snapshotField[o][s] : s \in Mark!Slots(o)} \ {NULL} \subseteq Mark!MarkedSet)'
  BY DEF SweepKeepsSnapshot
<1>0. PhaseInv /\ toSweep \subseteq objectsListSnapshot
  BY BaseParts DEF CycleType
<1>1. ASSUME NEW t \in Thread, ThreadStep(t)
      PROVE  /\ (snapshotOfRootSet \subseteq Mark!MarkedSet)'
             /\ (\A o \in (objectsListSnapshot \ premarked) \intersect Mark!MarkedSet :
                  {snapshotField[o][s] : s \in Mark!Slots(o)} \ {NULL} \subseteq Mark!MarkedSet)'
  <2>1. /\ StepOf(t)
        /\ UNCHANGED <<gcPc, toSweep, objectsListSnapshot, snapshotOfRootSet, premarked, snapshotField,
                       GCMarkedBitValue>>
    BY <1>1, StepEffect DEF StepOf, HeapStep
  <2>2. ~lateBarrier /\ ~strayThread
    BY <2>1 DEF StepOf, NoteStep, Undisturbed
  <2>3. thread[t].pc # "exchange"
    BY <2>1, <2>2 DEF QuietInv, PastLoad
  <2>4. \A o \in Known : o \in Mark!MarkedSet' <=> o \in Mark!MarkedSet
    BY <2>1, <2>3 DEF StepOf, HeapStep, Known, Mark!MarkedSet, Mark!Marked
  <2>5. /\ snapshotOfRootSet \subseteq Mark!MarkedSet
        /\ \A o \in (objectsListSnapshot \ premarked) \intersect Mark!MarkedSet :
             {snapshotField[o][s] : s \in Mark!Slots(o)} \ {NULL} \subseteq Mark!MarkedSet
    BY <2>1, <2>2 DEF SweepKeepsSnapshot, Undisturbed
  <2>6. /\ objectsListSnapshot \subseteq Known /\ snapshotOfRootSet \subseteq Known \union {NULL}
        /\ \A o \in Known : \A s \in Mark!Slots(o) : snapshotField[o][s] \in Known \union {NULL}
        /\ NULL \notin Mark!MarkedSet
    BY TracerAssumption DEF KnownInv, SnapshotInv, Known, Mark!MarkedSet
  <2>7. (snapshotOfRootSet \subseteq Mark!MarkedSet)'
    BY <2>1, <2>4, <2>5, <2>6
  <2>8. ASSUME NEW o \in objectsListSnapshot \ premarked, o \in Mark!MarkedSet', NEW s \in Mark!Slots(o),
               snapshotField[o][s] # NULL
        PROVE  snapshotField[o][s] \in Mark!MarkedSet'
    BY <2>4, <2>5, <2>6, <2>8
  <2> QED
    BY <2>1, <2>7, <2>8, ZenonT(60)
<1>2. CASE EndLocal
  <2>1. ~lateBarrier /\ ~strayThread
        /\ UNCHANGED <<objectsListSnapshot, snapshotOfRootSet, premarked, snapshotField, markBit,
                       GCMarkedBitValue>>
    BY <1>2 DEF EndLocal, Undisturbed
  <2>2. Mark!MarkedSet' = Mark!MarkedSet
    BY <2>1 DEF Mark!MarkedSet, Mark!Marked
  <2> QED
    BY <1>2, <2>1, <2>2, MarkedAtEnd
<1>3. ASSUME NEW block \in toSweep, SweepBlock(block) PROVE FALSE
  BY <1>0, <1>3, SweepEffect
<1>4. CASE Fail \/ UNCHANGED vars
  BY <1>4 DEF Fail, vars, SweepKeepsSnapshot, Undisturbed, Mark!MarkedSet, Mark!Marked
<1>5. CASE GcStep
  <2>1. CASE MarkStep \/ RemarkNext \/ Turns \/ \E root \in rootsLeft : MarkRoot(root)
    <3>1. CASE MarkStep
      BY <1>0, <3>1, MarkStepPhase DEF Tracing
    <3>2. CASE RemarkNext
      BY <1>0, <3>2 DEF RemarkNext, PhaseInv
    <3>3. CASE Turns \/ \E root \in rootsLeft : MarkRoot(root)
      BY <3>3, TurnsEffect DEF Tracing, MarkRoot
    <3> QED
      BY <2>1, <3>1, <3>2, <3>3
  <2> QED
    BY <1>2, <1>3, <1>5, <2>1 DEF GcStep, StartCycle, CountRoots, CopyRoots, EndSweep, FinishCycle,
       GoGc, Turns
<1> QED
  BY <1>1, <1>4, <1>5, Steps

(* SweepKeepsSnapshot: unless a barrier came after EndMarking cleared       *)
(* markingInProgress (gc.c:391) or a thread left the list with a part of   *)
(* the snapshot, processMutatorMarkQueuePhase leaves no root of the        *)
(* snapshot and nothing a newly marked block referred to for the sweep.    *)
THEOREM SweepKeepsWhatWasReachable == Spec => []SweepKeepsSnapshot
<1>1. Init => SweepKeepsSnapshot
  BY DEF Init, SweepKeepsSnapshot
<1>2. HeapInv /\ TraceInv /\ SweepKeepsSnapshot /\ [Next]_vars => SweepKeepsSnapshot'
  BY KeepsStep DEF HeapInv
<1> QED
  BY <1>1, <1>2, TraceCorrect, PTL DEF Spec

-----------------------------------------------------------------------------
(* What is in hand stays within a closed set: a thread's step, ... *)
LEMMA ReadsIn ==
    ASSUME BaseInv, NEW t \in Thread, NEW R, R \subseteq Obj, Holds(R), NEW r, Reads(t, r)
    PROVE  r \in R \union {NULL}
<1>1. PICK b \in Held(t) : \E s \in Mark!Slots(b) : r = field[b][s]
  BY DEF Reads
<1>2. b \in R
  BY TracerAssumption DEF Held, Live, Holds
<1> QED
  BY <1>1, <1>2 DEF Holds

LEMMA HandThread ==
    ASSUME BaseInv, BaseInv', QuietInv, NEW t \in Thread, StepOf(t), ~lateBarrier, ~strayThread',
           NEW R, NEW R2, R \subseteq Obj, R \subseteq R2, Holds(R), InHand(R)
    PROVE  InHand(R2)'
<1>0. /\ UNCHANGED <<queueVars, rootsLeft, chunk>>
      /\ \A u \in Thread : u # t => thread'[u] = thread[u] /\ (u \in threads' <=> u \in threads)
      /\ RootStep(t) /\ PcStep(t) /\ NoteStep(t) /\ ListStep(t) /\ BufferStep(t)
      /\ ThreadOK(t) /\ ThreadOK(t)' /\ thread \in [Thread -> StructThread]
      /\ needRemarkQueue \in Seq(Obj) /\ LocalBufferSize \in Nat \ {0}
  BY BaseParts, CollectorAssumption
     DEF StepOf, HeapStep, OnlyThread, ListStep, ThreadType, BaseInv, ThreadInv
<1>q. thread[t].pc = "compare" => thread[t].prevMarkBit = GCMarkedBitValue
  <2>1. ~strayThread
    BY <1>0 DEF NoteStep
  <2> QED
    BY <2>1 DEF QuietInv, PastLoad
<1>1. ASSUME NEW u \in Thread, thread'[u].pc \in InBarrier PROVE thread'[u].obj \in R2
  <2>1. CASE u # t
    BY <1>0, <1>1, <2>1 DEF InHand
  <2>2. CASE u = t
    <3>1. thread'[t].obj \in Obj
      BY <1>0, <1>1, <2>2 DEF ThreadOK
    <3>2. thread'[t].obj \in R \union {NULL}
      BY <1>0, <1>1, <2>2, ReadsIn DEF RootStep, InHand, Holds
    <3> QED
      BY <2>2, <3>1, <3>2, TracerAssumption
  <2> QED
    BY <2>1, <2>2
<1>2. ASSUME thread[t].pc \in Pushing, NEW i \in 0 .. LocalBufferSize - 1, Filled(t, i)
      PROVE  thread[t].localRemarkBuffer[i] \in R
  BY <1>2 DEF InHand
<1>3. /\ thread[t].usageRead \in 0 .. LocalBufferSize - 1
      /\ thread[t].localRemarkBufferUsage \in 0 .. LocalBufferSize
  BY <1>0 DEF StructThread
<1>4. ASSUME t \in threads' \/ thread'[t].pc \in Pushing,
             NEW i \in 0 .. LocalBufferSize - 1, Filled(t, i)'
      PROVE  thread'[t].localRemarkBuffer[i] \in R
  <2>1. CASE BufferKept(t)
    <3>1. Filled(t, i)
      BY <1>4, <2>1 DEF BufferKept, SameUsage, Filled
    <3>2. t \in threads
      <4>1. CASE t \in threads'
        BY <1>0, <1>4, <2>1, <4>1 DEF ListStep, Blank, BufferKept, Filled
      <4>2. CASE thread'[t].pc \in Pushing
        BY <1>0, <1>q, <2>1, <4>2 DEF PcStep, NoteStep, BufferKept
      <4> QED
        BY <1>4, <4>1, <4>2
    <3> QED
      BY <2>1, <3>1, <3>2 DEF InHand, BufferKept, SameEntries
  <2>2. CASE BufferNew(t)
    BY <1>4, <2>2 DEF BufferNew, Filled
  <2>3. CASE BufferWritten(t)
    <3>1. thread[t].pc = "push" /\ thread'[t].pc = "bump" /\ thread[t].obj \in R
      BY <2>3 DEF BufferWritten, GoesOn, InHand, InBarrier
    <3>2. i < thread[t].localRemarkBufferUsage \/ i = thread[t].localRemarkBufferUsage
      BY <1>3, <1>4, <2>3, <3>1 DEF BufferWritten, SameUsage, Filled
    <3>3. CASE i = thread[t].localRemarkBufferUsage
      BY <2>3, <3>1, <3>3 DEF BufferWritten
    <3>4. CASE i < thread[t].localRemarkBufferUsage
      <4>1. thread[t].localRemarkBuffer[i] \in R
        BY <1>2, <3>1, <3>4 DEF Filled, Pushing
      <4>2. i # thread[t].localRemarkBufferUsage
        BY <1>3, <3>4
      <4> QED
        BY <2>3, <4>1, <4>2 DEF BufferWritten
    <3> QED
      BY <3>2, <3>3, <3>4
  <2>4. CASE BufferCounted(t)
    <3>1. thread[t].pc = "bump" /\ SameEntries(t)
      BY <2>4 DEF BufferCounted
    <3>2. i <= thread[t].usageRead
      <4>1. CASE thread[t].usageRead + 1 = LocalBufferSize
        BY <1>0, <1>3, <4>1
      <4>2. CASE thread[t].usageRead + 1 # LocalBufferSize
        <5>1. thread'[t].pc \in {"idle", "detach"}
              /\ thread'[t].localRemarkBufferUsage = thread[t].usageRead + 1
          BY <2>4, <4>2 DEF BufferCounted, Returned
        <5> QED
          BY <1>3, <1>4, <5>1 DEF Filled
      <4> QED
        BY <4>1, <4>2
    <3> QED
      BY <1>2, <3>1, <3>2 DEF Filled, Pushing, SameEntries
  <2>5. CASE BufferFlushed(t)
    <3>1. thread'[t].localRemarkBufferUsage = 0 /\ thread'[t].pc \in {"idle", "detach"}
      BY <2>5 DEF BufferFlushed, Returned
    <3> QED
      BY <1>4, <3>1 DEF Filled
  <2> QED
    BY <1>0, <2>1, <2>2, <2>3, <2>4, <2>5 DEF BufferStep
<1>5. ASSUME NEW u \in Thread, NEW i \in 0 .. LocalBufferSize - 1,
             u \in threads' \/ thread'[u].pc \in Pushing, Filled(u, i)'
      PROVE  thread'[u].localRemarkBuffer[i] \in R2
  <2>1. CASE u # t
    BY <1>0, <1>5, <2>1 DEF InHand, Filled
  <2>2. CASE u = t
    BY <1>4, <1>5, <2>2
  <2> QED
    BY <2>1, <2>2
<1>6. ASSUME NEW i \in DOMAIN needRemarkQueue' PROVE needRemarkQueue'[i] \in R2
  <2>1. CASE UNCHANGED needRemarkQueue
    BY <1>6, <2>1 DEF InHand
  <2>2. CASE BufferFlushed(t)
    <3>1. thread[t].pc = "flush"
      BY <2>2 DEF BufferFlushed
    <3>2. \A j \in 0 .. LocalBufferSize - 1 : thread[t].localRemarkBuffer[j] \in R
      BY <1>2, <3>1 DEF Filled, Pushing
    <3>3. /\ Entries(t, LocalBufferSize) \in Seq(Obj)
          /\ DOMAIN Entries(t, LocalBufferSize) = 1 .. LocalBufferSize
          /\ \A j \in 1 .. LocalBufferSize :
                Entries(t, LocalBufferSize)[j] = thread[t].localRemarkBuffer[j - 1]
      <4>1. LocalBufferSize \in 0 .. LocalBufferSize
        BY <1>0
      <4>2. \A j \in 0 .. LocalBufferSize - 1 : thread[t].localRemarkBuffer[j] \in Obj
        BY <3>2
      <4> QED
        BY <4>1, <4>2, EntriesType
    <3>4. \A j \in 1 .. LocalBufferSize : j - 1 \in 0 .. LocalBufferSize - 1
      BY <1>0
    <3>5. Range(Entries(t, LocalBufferSize)) \subseteq R
      BY <3>2, <3>3, <3>4 DEF Range
    <3>6. Range(needRemarkQueue) \subseteq R
      BY DEF InHand, Range
    <3>7. Range(needRemarkQueue') = Range(needRemarkQueue) \union Range(Entries(t, LocalBufferSize))
      BY <1>0, <2>2, <3>3, RangeConcat DEF BufferFlushed
    <3>8. needRemarkQueue'[i] \in Range(needRemarkQueue')
      BY <1>6 DEF Range
    <3> QED
      BY <3>5, <3>6, <3>7, <3>8
  <2> QED
    BY <1>0, <2>1, <2>2 DEF BufferStep, BufferKept, BufferNew, BufferWritten, BufferCounted
<1> QED
  BY <1>0, <1>1, <1>5, <1>6 DEF InHand

(* ... and the GC thread's. *)
HandKept ==
    UNCHANGED <<thread, threads, needRemarkQueue, chunk, gcMarkQueueUwU, deferredMarkQueue,
                rootsLeft, scan>>

LEMMA HandGc ==
    ASSUME BaseInv, GcStep, NEW R, R \subseteq Obj, Holds(R), InHand(R)
    PROVE  InHand(R)'
<1>0. /\ NULL \notin Obj /\ threads \subseteq Thread /\ thread \in [Thread -> StructThread]
      /\ needRemarkQueue \in Seq(Obj) /\ chunk \in Seq(Obj) /\ gcMarkQueueUwU \in Seq(Ref)
      /\ deferredMarkQueue \in Seq(Mark!MarkState) /\ rootsLeft \subseteq Ref
      /\ LocalBufferSize \in Nat \ {0}
  BY BaseParts, TracerAssumption, CollectorAssumption DEF ThreadType, CycleType, TracerType
<1>1. CASE HandKept
  BY <1>1 DEF HandKept, InHand, Filled
<1>2. ASSUME NEW root \in rootsLeft, MarkRoot(root) PROVE InHand(R)'
  <2>1. /\ root \in R \union {NULL} /\ root \in Ref /\ Mark!DoMark(root)
        /\ rootsLeft' \subseteq rootsLeft /\ UNCHANGED <<thread, threads, needRemarkQueue, chunk>>
    BY <1>0, <1>2 DEF MarkRoot, Mark!MarkRoot, InHand
  <2>2. Range(gcMarkQueueUwU') = {root} /\ UNCHANGED <<deferredMarkQueue, scan>>
    BY <2>1, DoMarkBase
  <2> QED
    BY <2>1, <2>2 DEF InHand, Filled, Range
<1>3. CASE MarkStep
  <2>0. UNCHANGED <<thread, threads, needRemarkQueue, chunk, rootsLeft>>
    BY <1>3, MarkStepCases
  <2>1. ASSUME NEW state \in Mark!MarkState, Visits(state) PROVE InHand(R)'
    <3>1. CASE gcMarkQueueUwU # <<>> /\ state.block = Head(gcMarkQueueUwU)
               /\ gcMarkQueueUwU' = Tail(gcMarkQueueUwU) /\ UNCHANGED deferredMarkQueue
      <4>1. \A i \in DOMAIN Tail(gcMarkQueueUwU) :
               i + 1 \in DOMAIN gcMarkQueueUwU /\ Tail(gcMarkQueueUwU)[i] = gcMarkQueueUwU[i + 1]
        BY <1>0, <3>1, TailIndex
      <4>2. state.block = gcMarkQueueUwU[1] /\ 1 \in DOMAIN gcMarkQueueUwU
        BY <1>0, <3>1
      <4>3. state.block \in R \union {NULL} /\ scan'.block \in {scan.block, state.block}
        BY <2>1, <4>2 DEF Visits, InHand
      <4> QED
        BY <2>0, <3>1, <4>1, <4>3 DEF InHand, Filled
    <3>2. CASE state = Head(deferredMarkQueue) /\ deferredMarkQueue # <<>>
               /\ deferredMarkQueue' = Tail(deferredMarkQueue) /\ UNCHANGED gcMarkQueueUwU
      <4>1. \A i \in DOMAIN Tail(deferredMarkQueue) :
               i + 1 \in DOMAIN deferredMarkQueue
               /\ Tail(deferredMarkQueue)[i] = deferredMarkQueue[i + 1]
        BY <1>0, <3>2, TailIndex
      <4>2. state = deferredMarkQueue[1] /\ 1 \in DOMAIN deferredMarkQueue
        BY <1>0, <3>2
      <4>3. state.block \in R /\ scan'.block \in {scan.block, state.block}
        BY <2>1, <4>2 DEF Visits, InHand
      <4> QED
        BY <2>0, <3>2, <4>1, <4>3 DEF InHand, Filled
    <3> QED
      BY <2>1, <3>1, <3>2 DEF Visits
  <2>2. CASE PassesSlot
    <3>1. /\ scan'.block = scan.block /\ scan.block \in Obj
          /\ Mark!CurrentSlot \in Mark!Slots(scan.block)
          /\ Mark!Content = field[scan.block][Mark!CurrentSlot]
          /\ UNCHANGED deferredMarkQueue
      BY <2>2, AtASlot DEF PassesSlot
    <3>2. scan.block \in R
      BY <1>0, <3>1 DEF InHand
    <3>3. Mark!Content \in R \union {NULL}
      BY <3>1, <3>2 DEF Holds
    <3>4. \A i \in DOMAIN gcMarkQueueUwU' : gcMarkQueueUwU'[i] \in R \union {NULL}
      <4>1. CASE UNCHANGED gcMarkQueueUwU
        BY <4>1 DEF InHand
      <4>2. CASE Mark!Content \in Obj /\ gcMarkQueueUwU' = Append(gcMarkQueueUwU, Mark!Content)
        <5> DEFINE c == Mark!Content
        <5>1. c \in Ref /\ gcMarkQueueUwU' = Append(gcMarkQueueUwU, c) /\ c \in R \union {NULL}
          BY <3>3, <4>2 DEF Ref
        <5> HIDE DEF c
        <5>2. Range(gcMarkQueueUwU') = Range(gcMarkQueueUwU) \union {c}
          BY <1>0, <5>1, RangeAppend
        <5>3. Range(gcMarkQueueUwU) \subseteq R \union {NULL}
          BY DEF InHand, Range
        <5> QED
          BY <5>1, <5>2, <5>3 DEF Range
      <4> QED
        BY <2>2, <4>1, <4>2 DEF PassesSlot
    <3> QED
      BY <2>0, <3>1, <3>4 DEF InHand, Filled
  <2>3. CASE PutsOff
    <3> DEFINE e == [block |-> scan.block, fieldIndex |-> Mark!SavedIndex]
    <3>1. /\ scan.block \in Obj /\ Mark!SavedIndex \in Nat
          /\ Len(deferredMarkQueue) < DeferredCap
          /\ deferredMarkQueue' = Append(deferredMarkQueue, e) /\ scan' = Mark!NoScan
          /\ UNCHANGED gcMarkQueueUwU
      BY <2>3, AtASlot DEF PutsOff
    <3>2. e \in Mark!MarkState /\ e.block = scan.block
      BY <3>1 DEF Mark!MarkState
    <3>3. scan.block \in R
      BY <1>0, <3>1 DEF InHand
    <3> HIDE DEF e
    <3>4. \A i \in DOMAIN Append(deferredMarkQueue, e) :
             \/ i \in DOMAIN deferredMarkQueue /\ Append(deferredMarkQueue, e)[i] = deferredMarkQueue[i]
             \/ Append(deferredMarkQueue, e)[i] = e
      BY <1>0, <3>1, <3>2, TracerAssumption, AppendType
    <3>5. scan'.block = NULL
      BY <3>1 DEF Mark!NoScan
    <3> QED
      BY <2>0, <3>1, <3>2, <3>3, <3>4, <3>5 DEF InHand, Filled
  <2>4. CASE Leaves
    <3>1. UNCHANGED <<gcMarkQueueUwU, deferredMarkQueue>> /\ scan'.block \in {scan.block, NULL}
      BY <2>4 DEF Leaves, Mark!NoScan
    <3> QED
      BY <2>0, <3>1 DEF InHand, Filled
  <2> QED
    BY <1>3, <2>1, <2>2, <2>3, <2>4, MarkStepCases
<1>4. CASE RemarkNext
  <2>0. PICK h \in Obj : h = Head(chunk)
    BY <1>4 DEF RemarkNext, Live
  <2>1. /\ h \in Ref /\ Mark!DoMark(h) /\ chunk # <<>> /\ chunk' = Tail(chunk)
        /\ UNCHANGED <<thread, threads, needRemarkQueue, rootsLeft>>
    BY <1>4, <2>0 DEF RemarkNext, Ref
  <2>2. Range(gcMarkQueueUwU') = {h} /\ UNCHANGED <<deferredMarkQueue, scan>>
    BY <2>1, DoMarkBase
  <2>3. Range(chunk) = {h} \union Range(chunk')
    BY <1>0, <2>0, <2>1, RangeTail
  <2>4. Range(chunk) \subseteq R
    BY DEF InHand, Range
  <2> QED
    BY <2>1, <2>2, <2>3, <2>4 DEF InHand, Filled, Range
<1>5. CASE ReadChunk
  <2>1. Range(needRemarkQueue) = Range(chunk') \union Range(needRemarkQueue')
    BY <1>5, ReadSplits
  <2>2. UNCHANGED <<thread, threads, gcMarkQueueUwU, deferredMarkQueue, rootsLeft, scan>>
    BY <1>5 DEF ReadChunk
  <2>3. Range(needRemarkQueue) \subseteq R
    BY DEF InHand, Range
  <2> QED
    BY <2>1, <2>2, <2>3 DEF InHand, Filled, Range
<1>6. ASSUME NEW t \in Thread, ReadLocal(t) PROVE InHand(R)'
  <2> DEFINE n == thread[t].localRemarkBufferUsage
  <2>1. /\ t \in threads /\ chunk' = Entries(t, n)
        /\ UNCHANGED <<thread, threads, needRemarkQueue, gcMarkQueueUwU, deferredMarkQueue,
                       rootsLeft, scan>>
    BY <1>6, BaseParts DEF ReadLocal, PhaseInv
  <2>2. n \in 0 .. LocalBufferSize
    BY <1>0 DEF StructThread
  <2>3. \A j \in 0 .. n - 1 : thread[t].localRemarkBuffer[j] \in R
    BY <1>0, <2>1, <2>2 DEF InHand, Filled
  <2> HIDE DEF n
  <2>4. /\ DOMAIN Entries(t, n) = 1 .. n
        /\ \A j \in 1 .. n : Entries(t, n)[j] = thread[t].localRemarkBuffer[j - 1]
    BY <2>2, <2>3, EntriesType
  <2>5. \A j \in 1 .. n : j - 1 \in 0 .. n - 1
    BY <1>0, <2>2
  <2>6. \A i \in DOMAIN chunk' : chunk'[i] \in R
    BY <2>1, <2>3, <2>4, <2>5
  <2> QED
    BY <2>1, <2>6 DEF InHand, Filled
<1>7. CASE ResetLocal
  <2>1. /\ ThreadsStay
        /\ UNCHANGED <<needRemarkQueue, chunk, gcMarkQueueUwU, deferredMarkQueue, rootsLeft, scan>>
    BY <1>7, ResetStays DEF ResetLocal
  <2>2. ASSUME NEW u \in Thread, NEW i \in 0 .. LocalBufferSize - 1,
               u \in threads \/ thread[u].pc \in Pushing, Filled(u, i)'
        PROVE  thread'[u].localRemarkBuffer[i] \in R
    <3>1. CASE u # localThread
      <4>1. thread'[u] = thread[u]
        BY <1>7, <3>1, ResetEffect DEF OnlyThread
      <4> QED
        BY <2>2, <4>1 DEF InHand, Filled
    <3>2. CASE u = localThread
      <4>1. /\ thread'[u].localRemarkBuffer = thread[u].localRemarkBuffer
            /\ thread'[u].pc = thread[u].pc /\ thread'[u].usageRead = thread[u].usageRead
            /\ thread'[u].localRemarkBufferUsage = 0
        BY <1>7, <3>2, ResetEffect DEF SameEntries, SameUsageRead
      <4>2. Filled(u, i)
        BY <2>2, <4>1 DEF Filled
      <4> QED
        BY <2>2, <4>1, <4>2 DEF InHand
    <3> QED
      BY <3>1, <3>2
  <2> QED
    BY <2>1, <2>2 DEF InHand, ThreadsStay
<1>8. CASE CopyRoots
  <2>1. /\ UNCHANGED <<thread, threads, needRemarkQueue, chunk, gcMarkQueueUwU, deferredMarkQueue,
                       scan>>
        /\ rootsLeft' = UNION {thread[t].rootEntries : t \in threads}
    BY <1>8 DEF CopyRoots
  <2>2. rootsLeft' \subseteq R \union {NULL}
    BY <1>0, <2>1 DEF Holds
  <2> QED
    BY <2>1, <2>2 DEF InHand, Filled
<1>9. CASE StartCycle \/ CountRoots \/ EndMarking \/ EndDrain \/ EndLocal
           \/ (\E block \in toSweep : SweepBlock(block)) \/ EndSweep \/ FinishCycle
  BY <1>1, <1>9 DEF StartCycle, CountRoots, EndMarking, EndDrain, EndLocal, SweepBlock, EndSweep,
     FinishCycle, HandKept
<1> QED
  BY <1>2, <1>3, <1>4, <1>5, <1>6, <1>7, <1>8, <1>9 DEF GcStep

-----------------------------------------------------------------------------
(* Soundness: a set closed at the snapshot, with all that is newer, stays  *)
(* closed, and all that is marked is in it.                                *)
LEMMA SoundAtSnapshot ==
    ASSUME BaseInv, KnownInv, QuietInv, CopyRoots, ~lateBarrier', ~strayThread',
           NEW S, S \subseteq objectsListSnapshot', SnapClosed(S)'
    PROVE  SoundFor(S)'
<1>1. /\ gcPc = "copy" /\ objectsListSnapshot' = Live
      /\ snapshotOfRootSet' = UNION {thread[t].rootEntries : t \in threads}
      /\ rootsLeft' = snapshotOfRootSet' /\ premarked' = {o \in Live : Mark!Marked(o)}
      /\ snapshotField' = field /\ ~lateBarrier /\ ~strayThread
      /\ \A t \in Thread \ threads : thread[t].rootEntries = {} /\ thread[t].pc \notin InBarrier
      /\ UNCHANGED <<field, status, markBit, GCMarkedBitValue, thread, threads, needRemarkQueue,
                     chunk, gcMarkQueueUwU, deferredMarkQueue, scan>>
  BY DEF CopyRoots, GoGc
<1>2. /\ chunk = <<>> /\ gcMarkQueueUwU = <<>> /\ deferredMarkQueue = <<>> /\ scan = Mark!NoScan
      /\ holders = {} /\ threads \subseteq Thread
      /\ \A t \in Thread : t \in holders <=> t \in threads /\ thread[t].pc \in InBarrier
      /\ LocalBufferSize \in Nat
  BY <1>1, BaseParts, CollectorAssumption DEF PhaseInv, ScanInv, ThreadType, ThreadInv, ThreadOK
<1>3. /\ needRemarkQueue = <<>>
      /\ \A t \in threads : thread[t].localRemarkBufferUsage = 0
  BY <1>1 DEF QuietInv, Emptied
<1>4. PICK R : R = S \union (Obj \ Live)
  OBVIOUS
<1>5. /\ snapshotOfRootSet' \subseteq S \union {NULL}
      /\ \A o \in S : \A s \in Mark!Slots(o) : field[o][s] \in S \union {NULL}
  BY <1>1 DEF SnapClosed
<1>6. Holds(R)'
  <2>1. ASSUME NEW t \in Thread PROVE thread[t].rootEntries \subseteq R \union {NULL}
    BY <1>1, <1>4, <1>5
  <2>2. ASSUME NEW o \in R, NEW s \in Mark!Slots(o) PROVE field[o][s] \in R \union {NULL}
    BY <1>4, <1>5 DEF KnownInv, BlankInv
  <2> QED
    BY <1>1, <2>1, <2>2 DEF Holds
<1>7. \A t \in Thread : thread[t].pc \notin InBarrier
  BY <1>1, <1>2
<1>8. \A t \in Thread : thread[t].pc \notin Pushing /\ thread[t].pc # "bump" /\ thread[t].pc # "flush"
  BY <1>7 DEF InBarrier, Pushing
<1>9. InHand(R)'
  <2>1. ASSUME NEW t \in Thread, NEW i \in 0 .. LocalBufferSize - 1,
               t \in threads \/ thread[t].pc \in Pushing, Filled(t, i)
        PROVE  FALSE
    BY <1>2, <1>3, <1>8, <2>1 DEF Filled
  <2> QED
    BY <1>1, <1>2, <1>3, <1>4, <1>5, <1>7, <2>1 DEF InHand, Filled, Mark!NoScan
<1>10. (S \union (Obj \ objectsListSnapshot))' = R
  BY <1>1, <1>4
<1>11. (\A o \in objectsListSnapshot \intersect Live : Mark!Marked(o) => o \in S \union premarked)'
  BY <1>1 DEF Live, Mark!Marked
<1> QED
  BY <1>6, <1>9, <1>10, <1>11 DEF SoundFor

LEMMA SoundThread ==
    ASSUME BaseInv, BaseInv', KnownInv, QuietInv, NEW t \in Thread, StepOf(t),
           ~lateBarrier, ~strayThread',
           NEW S, S \subseteq objectsListSnapshot, SoundFor(S)
    PROVE  SoundFor(S)'
<1>1. PICK R : R = S \union (Obj \ objectsListSnapshot)
  OBVIOUS
<1>2. /\ Holds(R) /\ InHand(R) /\ UNCHANGED <<objectsListSnapshot, premarked>>
      /\ objectsListSnapshot \subseteq Known /\ objectsListSnapshot \subseteq Obj
  BY <1>1, BaseParts DEF SoundFor, StepOf, HeapStep, KnownInv, SnapshotInv, CycleType
<1>3. R \subseteq Obj /\ Fresh \subseteq R
  BY <1>1, <1>2 DEF Fresh, Known
<1>4. Holds(R)'
  BY <1>2, <1>3, HoldsStep DEF KnownInv
<1>5. InHand(R)'
  BY <1>2, <1>3, HandThread
<1>6. ASSUME NEW o \in objectsListSnapshot, (o \in Live)', Mark!Marked(o)'
      PROVE  o \in S \union premarked
  <2>1. /\ o \in Known /\ o \in Live /\ o \in Obj
        /\ Mark!Marked(o) \/ (thread[t].pc = "exchange" /\ thread[t].obj = o)
    BY <1>2, <1>6 DEF StepOf, HeapStep, Known, Live
  <2>2. CASE Mark!Marked(o)
    BY <1>6, <2>1, <2>2 DEF SoundFor
  <2>3. CASE thread[t].pc = "exchange" /\ thread[t].obj = o
    <3>1. o \in R
      BY <1>2, <2>3 DEF InHand, InBarrier
    <3> QED
      BY <1>1, <1>6, <3>1
  <2> QED
    BY <2>1, <2>2, <2>3
<1> QED
  BY <1>1, <1>2, <1>4, <1>5, <1>6 DEF SoundFor

LEMMA SoundGc ==
    ASSUME BaseInv, GcStep, ~CopyRoots, ~FinishCycle,
           NEW S, S \subseteq objectsListSnapshot, SoundFor(S)
    PROVE  SoundFor(S)'
<1>1. PICK R : R = S \union (Obj \ objectsListSnapshot)
  OBVIOUS
<1>0. /\ markBit \in [Obj -> BOOLEAN] /\ objectsListSnapshot \subseteq Obj
      /\ gcMarkQueueUwU \in Seq(Ref) /\ deferredMarkQueue \in Seq(Mark!MarkState)
  BY BaseParts DEF HeapType, CycleType, TracerType
<1>2. Holds(R) /\ InHand(R) /\ R \subseteq Obj
  BY <1>0, <1>1 DEF SoundFor
<1>3. InHand(R)'
  BY <1>2, HandGc
<1>4. UNCHANGED <<objectsListSnapshot, premarked>> /\ Holds(R)'
  <2>1. CASE \E block \in toSweep : SweepBlock(block)
    BY <1>2, <2>1, SweepEffect, HoldsSweep
  <2>2. CASE HeapStays
    BY <1>2, <2>2, GcEffect, HoldsStays DEF HeapStays
  <2> QED
    BY <2>1, <2>2, GcEffect
<1>5. ASSUME NEW o \in objectsListSnapshot, (o \in Live)', Mark!Marked(o)'
      PROVE  o \in S \union premarked
  <2>0. o \in Obj
    BY <1>0
  <2>1. CASE UNCHANGED <<status, markBit, GCMarkedBitValue>>
    BY <1>5, <2>1 DEF SoundFor, Live, Mark!Marked
  <2>2. CASE \E block \in toSweep : SweepBlock(block)
    <3>1. PICK block \in toSweep : SweepBlock(block)
      BY <2>2
    <3>2. UNCHANGED <<status, markBit, GCMarkedBitValue>> \/ o # block
      BY <1>5, <2>0, <3>1, SweepEffect DEF Live
    <3>3. UNCHANGED GCMarkedBitValue /\ (o # block => status'[o] = status[o] /\ markBit'[o] = markBit[o])
      BY <2>0, <3>1, SweepEffect
    <3> QED
      BY <1>5, <2>0, <2>1, <3>2, <3>3 DEF SoundFor, Live, Mark!Marked
  <2>3. CASE MarkStep
    <3>0. UNCHANGED <<status, GCMarkedBitValue>>
      BY <2>3, MarkStepCases
    <3>1. ASSUME NEW state \in Mark!MarkState, Visits(state) PROVE o \in S \union premarked
      <4>1. CASE o # state.block
        BY <1>5, <2>0, <3>0, <3>1, <4>1 DEF Visits, SoundFor, Live, Mark!Marked
      <4>2. CASE o = state.block
        <5>1. CASE state.block = Head(gcMarkQueueUwU) /\ gcMarkQueueUwU # <<>>
          <6>1. state.block = gcMarkQueueUwU[1] /\ 1 \in DOMAIN gcMarkQueueUwU
            BY <1>0, <5>1
          <6> QED
            BY <1>1, <1>2, <1>5, <2>0, <4>2, <6>1, TracerAssumption DEF InHand
        <5>2. CASE state = Head(deferredMarkQueue) /\ deferredMarkQueue # <<>>
          <6>1. state = deferredMarkQueue[1] /\ 1 \in DOMAIN deferredMarkQueue
            BY <1>0, <5>2
          <6> QED
            BY <1>1, <1>2, <1>5, <4>2, <6>1 DEF InHand
        <5> QED
          BY <3>1, <5>1, <5>2 DEF Visits
      <4> QED
        BY <4>1, <4>2
    <3>2. CASE PassesSlot \/ PutsOff \/ Leaves
      BY <2>1, <3>0, <3>2 DEF PassesSlot, PutsOff, Leaves
    <3> QED
      BY <2>3, <3>1, <3>2, MarkStepCases
  <2>4. CASE RemarkNext
    <3>1. PICK h \in Obj : h = Head(chunk)
      BY <2>4 DEF RemarkNext, Live
    <3>2. /\ markBit' = [markBit EXCEPT ![h] = ~GCMarkedBitValue]
          /\ UNCHANGED <<status, GCMarkedBitValue>> /\ GCMarkedBitValue \in BOOLEAN
      BY <2>4, <3>1, BaseParts DEF RemarkNext, TracerType
    <3>3. (~GCMarkedBitValue) # GCMarkedBitValue
      BY <3>2
    <3>4. markBit'[h] = ~GCMarkedBitValue /\ (o # h => markBit'[o] = markBit[o])
      BY <1>0, <2>0, <3>2
    <3>5. o # h
      BY <1>5, <3>2, <3>3, <3>4 DEF Mark!Marked
    <3> QED
      BY <1>5, <3>2, <3>4, <3>5 DEF SoundFor, Live, Mark!Marked
  <2>5. CASE StartCycle \/ CountRoots \/ (\E root \in rootsLeft : MarkRoot(root)) \/ Turns \/ EndLocal
             \/ EndSweep
    BY <2>1, <2>5, TurnsEffect DEF StartCycle, CountRoots, MarkRoot, Mark!MarkRoot, EndLocal, EndSweep
  <2> QED
    BY <2>2, <2>3, <2>4, <2>5 DEF GcStep, Turns
<1> QED
  BY <1>1, <1>3, <1>4, <1>5 DEF SoundFor

LEMMA SoundStep ==
    BaseInv /\ BaseInv' /\ KnownInv /\ QuietInv /\ SoundInv /\ [Next]_vars => SoundInv'
<1> SUFFICES ASSUME BaseInv, BaseInv', KnownInv, QuietInv, SoundInv, [Next]_vars,
                    gcPc' \in Cycle, ~lateBarrier', ~strayThread',
                    NEW S, S \subseteq objectsListSnapshot', SnapClosed(S)'
             PROVE  SoundFor(S)'
  BY DEF SoundInv
<1>0. ASSUME gcPc \in Cycle, ~lateBarrier, ~strayThread, S \subseteq objectsListSnapshot,
             UNCHANGED <<snapshotOfRootSet, snapshotField>>
      PROVE  SoundFor(S)
  BY <1>0 DEF SoundInv, SnapClosed
<1>1. ASSUME NEW t \in Thread, ThreadStep(t) PROVE SoundFor(S)'
  <2>1. /\ StepOf(t)
        /\ UNCHANGED <<gcPc, snapshotOfRootSet, objectsListSnapshot, snapshotField>>
    BY <1>1, StepEffect DEF StepOf, HeapStep
  <2>2. ~lateBarrier /\ ~strayThread
    BY <2>1 DEF StepOf, NoteStep
  <2> QED
    BY <1>0, <2>1, <2>2, SoundThread
<1>2. CASE CopyRoots
  BY <1>2, SoundAtSnapshot
<1>3. CASE GcStep /\ ~CopyRoots
  <2>1. gcPc \in Cycle /\ ~FinishCycle
    <3>1. CASE MarkStep
      BY <3>1, MarkStepPhase DEF Tracing, Cycle, FinishCycle, GoGc
    <3>2. CASE RemarkNext
      BY <3>2, BaseParts DEF RemarkNext, PhaseInv, Cycle, FinishCycle, GoGc
    <3> QED
      BY <1>3, <3>1, <3>2 DEF GcStep, StartCycle, CountRoots, MarkRoot, EndMarking, ReadChunk,
         EndDrain, ReadLocal, ResetLocal, EndLocal, SweepBlock, EndSweep, FinishCycle, GoGc, Cycle
  <2>2. /\ UNCHANGED <<snapshotOfRootSet, snapshotField, objectsListSnapshot>>
    BY <1>3, <2>1, GcEffect, SweepEffect DEF HeapStays
  <2>3. ~lateBarrier /\ ~strayThread
    <3>1. CASE Turns
      BY <3>1, TurnsEffect
    <3>2. CASE ~Turns
      BY <1>3, <2>1, <3>2, MarkStepCases DEF GcStep, Turns, StartCycle, CountRoots, MarkRoot,
         RemarkNext, EndLocal, SweepBlock, EndSweep
    <3> QED
      BY <3>1, <3>2
  <2> QED
    BY <1>0, <1>3, <2>1, <2>2, <2>3, SoundGc
<1>4. CASE Fail \/ UNCHANGED vars
  <2>1. UNCHANGED <<blockVars, threadVars, gcVars, historyVars>>
    BY <1>4 DEF Fail, vars
  <2>2. SoundFor(S)
    BY <1>0, <2>1
  <2> QED
    BY <2>1, <2>2 DEF SoundFor, Holds, InHand, Filled, Live, Mark!Marked
<1> QED
  BY <1>1, <1>2, <1>3, <1>4, Steps

LEMMA SoundCorrect == Spec => []SoundInv
<1>1. Init => SoundInv
  BY DEF Init, SoundInv, Cycle
<1>2. HeapInv /\ HeapInv' /\ SoundInv /\ [Next]_vars => SoundInv'
  BY SoundStep DEF HeapInv
<1> QED
  BY <1>1, <1>2, HeapCorrect, PTL DEF Spec

(* SweepFreesGarbage: markOneItem and the barriers mark nothing of the     *)
(* snapshot that its roots do not lead to, whatever the mutators do, so    *)
(* the sweep frees all of it that was garbage but for blocks that          *)
(* gc_on_allocate left marked.                                             *)
THEOREM SweepFreesAllGarbage == Spec => []SweepFreesGarbage
<1>1. BaseInv /\ SoundInv /\ SweepInv => SweepFreesGarbage
  <2> SUFFICES ASSUME BaseInv, SoundInv, SweepInv, gcPc = "finish", Undisturbed,
                      NEW S \in SUBSET objectsListSnapshot, snapshotOfRootSet \subseteq S,
                      \A o \in S : {snapshotField[o][s] : s \in Mark!Slots(o)} \ {NULL} \subseteq S
               PROVE  objectsListSnapshot \intersect Live \subseteq S \union premarked
    BY DEF SweepFreesGarbage
  <2>1. SnapClosed(S)
    BY DEF SnapClosed
  <2>2. \A o \in objectsListSnapshot \intersect Live : Mark!Marked(o) => o \in S \union premarked
    BY <2>1 DEF SoundInv, SoundFor, Undisturbed, Cycle
  <2>3. toSweep = {}
    BY BaseParts DEF PhaseInv
  <2> QED
    BY <2>2, <2>3 DEF SweepInv
<1> QED
  BY <1>1, HeapCorrect, SweepCorrect, SoundCorrect, PTL DEF HeapInv

-----------------------------------------------------------------------------
(* Memory safety: as long as nothing was breached, what the snapshot's     *)
(* roots lead to is marked when the sweep starts, ...                      *)
LEMMA BreachStays ==
    ASSUME BaseInv, [Next]_vars, ~breached' PROVE ~breached
<1>1. ASSUME NEW t \in Thread, ThreadStep(t) PROVE ~breached
  BY <1>1, StepEffect DEF StepOf, NoteStep
<1>2. CASE GcStep
  <2>1. CASE EndMarking
    <3>1. Note(\E t \in Thread : thread[t].pc \in InBarrier, FALSE)
      BY <2>1 DEF EndMarking
    <3>2. breached' <=> breached \/ \E t \in Thread : thread[t].pc \in InBarrier
      BY <3>1, NoteEffect, BaseParts
    <3> QED
      BY <3>2
  <2>2. CASE MarkStep
    BY <2>2, MarkStepCases
  <2> QED
    BY <1>2, <2>1, <2>2 DEF GcStep, StartCycle, CountRoots, CopyRoots, MarkRoot, ReadChunk, RemarkNext,
       EndDrain, ReadLocal, ResetLocal, EndLocal, SweepBlock, EndSweep, FinishCycle
<1>3. CASE Fail \/ UNCHANGED vars
  BY <1>3 DEF Fail, vars
<1> QED
  BY <1>1, <1>2, <1>3, Steps

LEMMA KeepAtSnapshot ==
    ASSUME BaseInv, CopyRoots, ~breached', NEW G \in SUBSET Live, Holds(G)
    PROVE  \E K \in SUBSET Live : KeptBy(K)'
<1>1. /\ objectsListSnapshot' = Live /\ gcPc' = "mark"
      /\ snapshotOfRootSet' = UNION {thread[t].rootEntries : t \in threads}
      /\ premarked' = {o \in Live : Mark!Marked(o)} /\ snapshotField' = field /\ ~HidesBlock
      /\ threads \subseteq Thread
  BY BaseParts DEF CopyRoots, GoGc, ThreadType
<1> DEFINE roots == UNION {thread[t].rootEntries : t \in threads}
<1> DEFINE white == {o \in Live : ~Mark!Marked(o)}
<1>2. roots \subseteq G \union {NULL}
  BY <1>1 DEF Holds
<1>3. PICK K : K = LedTo(Live)
  OBVIOUS
<1>4. K \subseteq G
  <2>1. ASSUME NEW p \in G PROVE {field[p][s] : s \in Mark!Slots(p)} \ {NULL} \subseteq G
    BY DEF Holds
  <2>2. roots \ {NULL} \subseteq G
    BY <1>2
  <2> QED
    BY <1>3, <2>1, <2>2 DEF LedTo
<1>5. roots \subseteq K \union {NULL}
  <2> SUFFICES ASSUME NEW r \in roots, r # NULL PROVE r \in K
    OBVIOUS
  <2>1. r \in Live
    BY <1>2
  <2> QED
    BY <1>3, <2>1 DEF LedTo
<1>6. ASSUME NEW o \in K, NEW s \in Mark!Slots(o), field[o][s] # NULL PROVE field[o][s] \in K
  <2>1. o \in G /\ o \in Live
    BY <1>4
  <2>2. field[o][s] \in Live
    BY <1>6, <2>1 DEF Holds
  <2>3. ASSUME NEW S \in SUBSET Live, roots \ {NULL} \subseteq S,
               \A p \in S \intersect Live : {field[p][q] : q \in Mark!Slots(p)} \ {NULL} \subseteq S
        PROVE  field[o][s] \in S
    <3>1. o \in S
      BY <1>3, <2>3 DEF LedTo
    <3> QED
      BY <1>6, <2>1, <2>3, <3>1
  <2> QED
    BY <1>3, <2>2, <2>3 DEF LedTo
<1>7. SnapClosed(K)'
  BY <1>1, <1>5, <1>6 DEF SnapClosed
<1>8. ASSUME NEW M \in SUBSET Obj, WhiteClosed(M)', NEW o \in K, ~Mark!Marked(o) PROVE o \in M
  <2>1. PICK S : S = M \intersect G
    OBVIOUS
  <2>2. /\ roots \subseteq M \union {NULL}
        /\ \A p \in M \intersect Live : ~Mark!Marked(p) =>
              \A s \in Mark!Slots(p) : field[p][s] \in M \union {NULL}
    BY <1>1, <1>8 DEF WhiteClosed
  <2>3. S \in SUBSET Live /\ roots \ {NULL} \subseteq S
    BY <1>2, <2>1, <2>2
  <2>4. \A p \in S \intersect white : {field[p][s] : s \in Mark!Slots(p)} \ {NULL} \subseteq S
    BY <2>1, <2>2 DEF Holds
  <2>5. o \in white
    BY <1>4, <1>8
  <2> HIDE DEF white
  <2>6. LedTo(Live) \intersect white = LedTo(white) \intersect white
    BY <1>1 DEF HidesBlock, white
  <2>7. o \in LedTo(white)
    BY <1>3, <2>5, <2>6
  <2>8. o \in S
    BY <2>3, <2>4, <2>7 DEF LedTo
  <2> QED
    BY <2>1, <2>8
<1>9. \A M \in SUBSET Obj : WhiteClosed(M)' => K \subseteq M \union premarked'
  BY <1>1, <1>4, <1>8
<1>10. KeptBy(K)'
  BY <1>1, <1>7, <1>9 DEF KeptBy
<1> QED
  BY <1>4, <1>10

(* ... and is not freed. *)
LEMMA KeepStep ==
    BaseInv /\ KnownInv /\ QuietInv /\ TraceInv /\ KeepInv /\ GoodInv /\ [Next]_vars => KeepInv'
<1> SUFFICES ASSUME BaseInv, KnownInv, QuietInv, TraceInv, KeepInv, GoodInv, [Next]_vars,
                    gcPc' \in Cycle, ~breached'
             PROVE  \E K \in SUBSET objectsListSnapshot' : KeptBy(K)'
  BY DEF KeepInv
<1>0. ~breached /\ ~lateBarrier /\ ~strayThread /\ PhaseInv /\ objectsListSnapshot \subseteq Known
      /\ Known \subseteq Obj
  BY BreachStays, BaseParts DEF QuietInv, KnownInv, SnapshotInv, Known
<1>1. ASSUME gcPc \in Cycle, gcPc' \in Tracing => gcPc \in Tracing,
             gcPc' \in {"sweep", "finish"} => gcPc \in {"sweep", "finish"},
             UNCHANGED <<snapshotOfRootSet, objectsListSnapshot, premarked, snapshotField>>,
             \A o \in objectsListSnapshot : gcPc \in {"sweep", "finish"} /\ Mark!Marked(o) => Mark!Marked(o)'
      PROVE  \E K \in SUBSET objectsListSnapshot' : KeptBy(K)'
  <2>1. PICK K \in SUBSET objectsListSnapshot : KeptBy(K)
    BY <1>0, <1>1 DEF KeepInv
  <2>2. SnapClosed(K)'
    BY <1>1, <2>1 DEF KeptBy, SnapClosed
  <2>3. ASSUME gcPc' \in Tracing, NEW M \in SUBSET Obj, WhiteClosed(M)'
        PROVE  K \subseteq M \union premarked'
    <3>1. WhiteClosed(M)
      BY <1>1, <2>3 DEF WhiteClosed
    <3> QED
      BY <1>1, <2>1, <2>3, <3>1 DEF KeptBy
  <2>4. ASSUME gcPc' \in {"sweep", "finish"}, NEW o \in K PROVE Mark!Marked(o)'
    BY <1>1, <2>1, <2>4 DEF KeptBy
  <2>5. KeptBy(K)'
    BY <2>2, <2>3, <2>4 DEF KeptBy
  <2> QED
    BY <1>1, <2>5
<1>2. ASSUME NEW t \in Thread, ThreadStep(t)
      PROVE  \E K \in SUBSET objectsListSnapshot' : KeptBy(K)'
  <2>1. /\ StepOf(t)
        /\ UNCHANGED <<gcPc, snapshotOfRootSet, objectsListSnapshot, premarked, snapshotField>>
    BY <1>2, StepEffect DEF StepOf, HeapStep
  <2>2. \A o \in objectsListSnapshot : Mark!Marked(o) => Mark!Marked(o)'
    BY <1>0, <2>1, MarksStay
  <2> QED
    BY <1>1, <2>1, <2>2
<1>3. CASE CopyRoots
  <2>1. PICK G \in SUBSET Live : Holds(G)
    BY <1>0 DEF GoodInv
  <2>2. objectsListSnapshot' = Live
    BY <1>3 DEF CopyRoots
  <2> QED
    BY <1>3, <2>1, <2>2, KeepAtSnapshot
<1>4. CASE EndLocal
  <2>1. /\ gcPc = "local" /\ gcPc' = "sweep"
        /\ UNCHANGED <<snapshotOfRootSet, objectsListSnapshot, premarked, snapshotField, markBit,
                       GCMarkedBitValue>>
    BY <1>4 DEF EndLocal, GoGc
  <2>2. PICK K \in SUBSET objectsListSnapshot : KeptBy(K)
    BY <1>0, <2>1 DEF KeepInv, Cycle
  <2>3. WhiteClosed(Mark!MarkedSet)
    BY <1>0, <1>4, MarkedAtEnd DEF WhiteClosed
  <2>4. Mark!MarkedSet \in SUBSET Obj
    BY DEF Mark!MarkedSet
  <2>5. K \subseteq Mark!MarkedSet \union premarked
    BY <2>1, <2>2, <2>3, <2>4 DEF KeptBy, Tracing
  <2>6. gcMarkQueueUwU = <<>>
    BY <1>0, <2>1, BaseParts DEF PhaseInv, ScanInv
  <2>7. \A p \in premarked : Mark!Marked(p)
    BY <2>1, <2>6 DEF TraceInv, RootsInv, Tracing, Queued
  <2>8. \A o \in K : Mark!Marked(o)'
    BY <2>1, <2>5, <2>7 DEF Mark!MarkedSet, Mark!Marked
  <2>9. SnapClosed(K)'
    BY <2>1, <2>2 DEF KeptBy, SnapClosed
  <2>10. KeptBy(K)'
    BY <2>1, <2>8, <2>9 DEF KeptBy, Tracing
  <2> QED
    BY <2>1, <2>10
<1>5. ASSUME NEW block \in toSweep, SweepBlock(block)
      PROVE  \E K \in SUBSET objectsListSnapshot' : KeptBy(K)'
  <2>1. /\ gcPc = "sweep"
        /\ UNCHANGED <<gcPc, snapshotOfRootSet, objectsListSnapshot, premarked, snapshotField,
                       GCMarkedBitValue>>
    BY <1>5, SweepEffect
  <2>2. \A o \in Obj : Mark!Marked(o) => Mark!Marked(o)'
    <3>1. CASE Mark!Marked(block)
      BY <1>5, <2>1, <3>1, SweepEffect DEF Mark!Marked
    <3>2. CASE ~Mark!Marked(block)
      <4>1. \A o \in Obj : o # block => markBit'[o] = markBit[o]
        BY <1>5, <3>2, SweepEffect
      <4> QED
        BY <2>1, <3>2, <4>1 DEF Mark!Marked
    <3> QED
      BY <3>1, <3>2
  <2> QED
    BY <1>0, <1>1, <2>1, <2>2 DEF Cycle
<1>6. CASE EndSweep
  <2>1. /\ gcPc = "sweep" /\ gcPc' = "finish"
        /\ UNCHANGED <<snapshotOfRootSet, objectsListSnapshot, premarked, snapshotField, markBit,
                       GCMarkedBitValue>>
    BY <1>6 DEF EndSweep, GoGc
  <2> QED
    BY <1>1, <2>1 DEF Cycle, Mark!Marked, Tracing
<1>7. CASE MarkStep \/ RemarkNext \/ Turns \/ \E root \in rootsLeft : MarkRoot(root)
  <2>1. /\ gcPc \in Tracing /\ gcPc' \in Tracing
        /\ UNCHANGED <<snapshotOfRootSet, objectsListSnapshot, premarked, snapshotField>>
    <3>1. CASE MarkStep
      BY <3>1, MarkStepPhase, MarkStepCases
    <3>2. CASE RemarkNext
      BY <1>0, <3>2 DEF RemarkNext, PhaseInv, Tracing
    <3>3. CASE Turns \/ \E root \in rootsLeft : MarkRoot(root)
      BY <3>3, TurnsEffect DEF Tracing, MarkRoot, Mark!MarkRoot
    <3> QED
      BY <1>7, <3>1, <3>2, <3>3
  <2> QED
    BY <1>1, <2>1 DEF Cycle, Tracing
<1>8. CASE StartCycle \/ CountRoots \/ FinishCycle
  BY <1>8 DEF StartCycle, CountRoots, FinishCycle, GoGc, Cycle
<1>9. CASE Fail \/ UNCHANGED vars
  BY <1>1, <1>9 DEF Fail, vars, Mark!Marked
<1> QED
  BY <1>2, <1>3, <1>4, <1>5, <1>6, <1>7, <1>8, <1>9, Steps DEF GcStep, Turns

LEMMA GoodStep ==
    BaseInv /\ BaseInv' /\ KnownInv /\ QuietInv /\ SoundInv /\ KeepInv /\ GoodInv /\ [Next]_vars => GoodInv'
<1> SUFFICES ASSUME BaseInv, BaseInv', KnownInv, QuietInv, SoundInv, KeepInv, GoodInv, [Next]_vars,
                    ~breached'
             PROVE  \E G \in SUBSET Live' : Holds(G)' /\ InHand(G)'
  BY DEF GoodInv
<1>0. ~breached /\ ~lateBarrier /\ ~strayThread
  BY BreachStays DEF QuietInv
<1>1. PICK G \in SUBSET Live : Holds(G) /\ InHand(G)
  BY <1>0 DEF GoodInv
<1>2. G \subseteq Obj
  BY DEF Live
<1>3. ASSUME NEW t \in Thread, ThreadStep(t)
      PROVE  \E H \in SUBSET Live' : Holds(H)' /\ InHand(H)'
  <2>1. StepOf(t)
    BY <1>3, StepEffect
  <2>2. ~strayThread'
    BY <1>0, <2>1 DEF StepOf, NoteStep
  <2>3. PICK H : H = G \union Fresh
    OBVIOUS
  <2>4. Holds(H)'
    BY <1>1, <1>2, <2>1, <2>3, HoldsStep DEF KnownInv
  <2>5. InHand(H)'
    BY <1>0, <1>1, <1>2, <2>1, <2>2, <2>3, HandThread
  <2>6. H \in SUBSET Live'
    BY <2>1, <2>3 DEF StepOf, HeapStep, Live, Fresh
  <2> QED
    BY <2>4, <2>5, <2>6
<1>4. ASSUME NEW block \in toSweep, SweepBlock(block)
      PROVE  \E H \in SUBSET Live' : Holds(H)' /\ InHand(H)'
  <2>1. gcPc = "sweep" /\ block \in objectsListSnapshot /\ objectsListSnapshot \subseteq Obj
    BY <1>4, SweepEffect, BaseParts DEF CycleType
  <2>2. PICK K \in SUBSET objectsListSnapshot : SnapClosed(K) /\ \A o \in K : Mark!Marked(o)
    BY <1>0, <2>1 DEF KeepInv, KeptBy, Cycle
  <2>3. PICK R : R = K \union (Obj \ objectsListSnapshot)
    OBVIOUS
  <2>4. Holds(R) /\ InHand(R)
    BY <1>0, <2>1, <2>2, <2>3 DEF SoundInv, SoundFor, Cycle
  <2>5. PICK H : H = G \intersect R
    OBVIOUS
  <2>6. H \subseteq Obj /\ Holds(H)
    BY <1>1, <1>2, <2>4, <2>5 DEF Holds
  <2>7. InHand(H)
    BY <1>1, <2>4, <2>5 DEF InHand
  <2>8. Holds(H)'
    BY <1>4, <2>6, HoldsSweep
  <2>9. InHand(H)'
    BY <1>4, <2>6, <2>7, HandGc DEF GcStep
  <2>10. H \in SUBSET Live'
    <3>1. CASE Mark!Marked(block)
      BY <1>4, <2>5, <3>1, SweepEffect DEF Live
    <3>2. CASE ~Mark!Marked(block)
      <4>1. block \notin H
        BY <2>1, <2>2, <2>3, <2>5, <3>2
      <4>2. \A o \in Obj : o # block => status'[o] = status[o]
        BY <1>4, <3>2, SweepEffect
      <4> QED
        BY <1>2, <2>5, <4>1, <4>2 DEF Live
    <3> QED
      BY <3>1, <3>2
  <2> QED
    BY <2>8, <2>9, <2>10
<1>5. CASE GcStep /\ ~(\E block \in toSweep : SweepBlock(block))
  <2>1. UNCHANGED <<field, status>> /\ ThreadsStay
    BY <1>5, GcEffect DEF CopyRoots, FinishCycle, HeapStays
  <2>2. Holds(G)'
    BY <1>1, <2>1, HoldsStays
  <2>3. InHand(G)'
    BY <1>1, <1>2, <1>5, HandGc
  <2>4. G \in SUBSET Live'
    BY <2>1 DEF Live
  <2> QED
    BY <2>2, <2>3, <2>4
<1>6. CASE Fail \/ UNCHANGED vars
  <2>1. UNCHANGED <<blockVars, threadVars, gcVars, historyVars>>
    BY <1>6 DEF Fail, vars
  <2>2. Holds(G)' /\ InHand(G)' /\ G \in SUBSET Live'
    BY <1>1, <2>1 DEF Holds, InHand, Filled, Live
  <2> QED
    BY <2>2
<1> QED
  BY <1>3, <1>4, <1>5, <1>6, Steps

LEMMA GoodInit == Init => GoodInv
<1> SUFFICES ASSUME Init PROVE Holds(Live) /\ InHand(Live)
  BY DEF GoodInv
<1>1. PICK roots \in [threads -> SUBSET Live] :
         thread = [t \in Thread |->
             IF t \in threads THEN [NewThread EXCEPT !.rootEntries = roots[t]]
                              ELSE [NewThread EXCEPT !.pc = "out"]]
  BY DEF Init
<1>2. ASSUME NEW t \in Thread
      PROVE  /\ thread[t].rootEntries \subseteq Live
             /\ thread[t].pc \in {"idle", "out"} /\ thread[t].localRemarkBufferUsage = 0
  <2>1. CASE t \in threads
    BY <1>1, <2>1 DEF NewThread
  <2>2. CASE t \notin threads
    BY <1>1, <2>2 DEF NewThread
  <2> QED
    BY <2>1, <2>2
<1>3. /\ \A o \in Obj : \A s \in Mark!Slots(o) :
            field[o][s] = NULL \/ {o, field[o][s]} \subseteq Live
      /\ needRemarkQueue = <<>> /\ chunk = <<>> /\ gcMarkQueueUwU = <<>> /\ deferredMarkQueue = <<>>
      /\ rootsLeft = {} /\ scan = Mark!NoScan
  BY DEF Init
<1>4. Holds(Live)
  BY <1>2, <1>3 DEF Holds, Live
<1>5. InHand(Live)
  BY <1>2, <1>3 DEF InHand, Filled, InBarrier, Mark!NoScan
<1> QED
  BY <1>4, <1>5

(* The tracer stands at a slot of a block only once its descriptor is      *)
(* published, and by then its fields are written (heap.c:103-104).         *)
LEMMA InitialisedBeforeRead == ASSUME BaseInv, KnownInv PROVE ~ReadsUninitialised
<1> SUFFICES ASSUME Mark!AtSlot, NEW t \in Thread, thread[t].pc = "init",
                    thread[t].obj = scan.block
             PROVE  FALSE
  BY DEF ReadsUninitialised
<1>1. ~hasDesc[thread[t].obj]
  BY DEF KnownInv, InitInv, Making
<1>2. hasDesc[scan.block]
  BY DEF Mark!AtSlot, Mark!ScanDone
<1> QED
  BY <1>1, <1>2

LEMMA SafeStep ==
    BaseInv /\ KnownInv /\ RootsInv /\ GoodInv /\ MemorySafe /\ [Next]_vars => MemorySafe'
<1> SUFFICES ASSUME BaseInv, KnownInv, RootsInv, GoodInv, MemorySafe, [Next]_vars PROVE MemorySafe'
  OBVIOUS
<1>1. ASSUME Running, UNCHANGED fault PROVE MemorySafe'
  BY <1>1 DEF Running, MemorySafe
<1>2. ASSUME NEW t \in Thread, ThreadStep(t), Running PROVE MemorySafe'
  BY <1>1, <1>2, StepEffect DEF StepOf, HeapStep
<1>3. CASE GcStep /\ Running
  <2>1. UNCHANGED fault
    BY <1>3, MarkStepCases DEF GcStep, StartCycle, CountRoots, CopyRoots, MarkRoot, EndMarking,
       ReadChunk, RemarkNext, EndDrain, ReadLocal, ResetLocal, EndLocal, SweepBlock, EndSweep, FinishCycle
  <2> QED
    BY <1>1, <1>3, <2>1
<1>4. CASE Fail
  <2>0. /\ UNCHANGED <<breached, snapshotOfRootSet>> /\ chunk \in Seq(Obj) /\ NULL \notin Obj
        /\ gcMarkQueueUwU \in Seq(Ref) /\ PhaseInv
    BY <1>4, BaseParts, TracerAssumption DEF Fail, CycleType, TracerType
  <2>1. ASSUME fault' = "useAfterFree", ~breached PROVE FALSE
    <3>1. PICK G \in SUBSET Live : Holds(G) /\ InHand(G)
      BY <2>1 DEF GoodInv
    <3>2. ASSUME NEW t \in Thread PROVE ~MutatorTouchesFreed(t)
      <4>1. ASSUME NEW o \in thread[t].rootEntries \ {NULL} PROVE status[o] # "freed"
        BY <3>1 DEF Holds, Live
      <4>2. thread[t].pc \in {"load", "exchange", "push"} => status[thread[t].obj] # "freed"
        BY <3>1 DEF InHand, InBarrier, Live
      <4> QED
        BY <4>1, <4>2 DEF MutatorTouchesFreed
    <3>3. GcTouches \ {NULL} \subseteq Live
      <4>1. ASSUME gcMarkQueueUwU # <<>> PROVE Head(gcMarkQueueUwU) \in Live \union {NULL}
        <5>1. Head(gcMarkQueueUwU) = gcMarkQueueUwU[1] /\ 1 \in DOMAIN gcMarkQueueUwU
          BY <2>0, <4>1
        <5> QED
          BY <3>1, <5>1 DEF InHand
      <4>2. ASSUME chunk # <<>> PROVE Head(chunk) \in Live
        <5>1. Head(chunk) = chunk[1] /\ 1 \in DOMAIN chunk
          BY <2>0, <4>2
        <5> QED
          BY <3>1, <5>1 DEF InHand
      <4> QED
        BY <4>1, <4>2 DEF GcTouches, ToVisitExists
    <3> QED
      BY <1>4, <2>1, <3>2, <3>3 DEF Fail
  <2>2. ASSUME fault' = "nullDeref" PROVE NULL \in snapshotOfRootSet
    <3>1. NULL \in GcTouches
      BY <1>4, <2>2 DEF Fail
    <3>2. chunk # <<>> => Head(chunk) \in Obj
      BY <2>0
    <3>3. markPc = "drain" /\ gcMarkQueueUwU # <<>> /\ Head(gcMarkQueueUwU) = NULL
      BY <2>0, <3>1, <3>2 DEF GcTouches, ToVisitExists
    <3>4. gcPc \in Tracing
      BY <2>0, <3>3 DEF PhaseInv, Tracing
    <3>5. Head(gcMarkQueueUwU) = gcMarkQueueUwU[1] /\ 1 \in DOMAIN gcMarkQueueUwU
      BY <2>0, <3>3
    <3>6. Queued(NULL)
      BY <3>3, <3>5 DEF Queued
    <3> QED
      BY <3>4, <3>6 DEF RootsInv
  <2>3. ~ReadsUninitialised
    BY InitialisedBeforeRead
  <2>4. fault' # "uninitialised"
    BY <1>4, <2>3 DEF Fail
  <2> QED
    BY <2>0, <2>1, <2>2, <2>4 DEF MemorySafe
<1>5. CASE UNCHANGED vars
  BY <1>5 DEF vars, MemorySafe
<1> QED
  BY <1>2, <1>3, <1>4, <1>5, Steps

(* MemorySafe: over all cycles, sweepPhase frees nothing that a thread or  *)
(* the tracer then touches, but where a barrier was late (gc.c:391), a     *)
(* detaching thread acted off the list (heap.c:64, thread.c:43-61), or a   *)
(* block in use lay behind blocks that gc_on_allocate left marked (gc.c:36);*)
(* and doMark follows no null reference but a null root (helper.c:21), and *)
(* reads no field before heap_alloc_with_descriptor has written it.        *)
THEOREM NothingInUseIsFreed == Spec => []MemorySafe
<1> DEFINE SafeInv == KeepInv /\ GoodInv /\ MemorySafe
<1>1. Init => SafeInv
  <2>1. Init => KeepInv /\ MemorySafe
    BY DEF Init, KeepInv, Cycle, MemorySafe
  <2> QED
    BY <2>1, GoodInit
<1>2. HeapInv /\ HeapInv' /\ TraceInv /\ SoundInv /\ SafeInv /\ [Next]_vars => SafeInv'
  BY KeepStep, GoodStep, SafeStep DEF HeapInv, TraceInv
<1> QED
  BY <1>1, <1>2, HeapCorrect, TraceCorrect, SoundCorrect, PTL DEF Spec
=============================================================================
