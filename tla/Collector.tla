----------------------------- MODULE Collector -----------------------------
(***************************************************************************)
(* The concurrent collector of one generation: the GC thread's cycle       *)
(* (gc/gc.c cycleRunner and its phases, with Marker for the tracing) while *)
(* mutator threads allocate, read and write references, take and drop      *)
(* roots, attach and detach (heap/heap.c, heap/thread.c, object/helper.c). *)
(*                                                                         *)
(* The GC lock is the abstract one of ExclusiveLock.  A mutator's          *)
(* heap_block_gc is one step with the first access after it, and its       *)
(* heap_unblock_gc one with the last before it: while the GC thread waits  *)
(* for the lock it touches nothing, so an access before its request is no  *)
(* different from the same access during the wait.  The accesses between   *)
(* are steps of their own, because marking and sweeping do not take the    *)
(* lock.                                                                   *)
(*                                                                         *)
(* A step that touches freed memory, reads a field nobody has written yet, *)
(* follows a null root, fails a BUG_ON or panics sets fault and ends the   *)
(* behaviour.                                                              *)
(***************************************************************************)
EXTENDS Naturals, Sequences, FiniteSets, Functions

CONSTANTS
    Obj, NULL, FieldCount, FlexCount, MarkQueueCap, DeferredCap, \* see Marker
    Thread,             \* threads that use the heap
    LocalBufferSize,    \* THREAD_LOCAL_REMARK_BUFFER_SIZE
    Detaching,          \* whether threads detach while the heap is in use
    MaxCycles           \* bound on the number of cycles explored

ASSUME CollectorAssumption ==
    /\ LocalBufferSize \in Nat \ {0}
    /\ Detaching \in BOOLEAN
    /\ MaxCycles \in Nat
ASSUME TracerAssumption ==                                       \* see Marker
    /\ NULL \notin Obj
    /\ FieldCount \in [Obj -> Nat] /\ FlexCount \in [Obj -> Nat]
    /\ MarkQueueCap \in Nat \ {0} /\ DeferredCap \in Nat
ASSUME CollectorFinite == IsFiniteSet(Obj) /\ IsFiniteSet(Thread)

VARIABLES
    \* blocks (struct alloc_unit), and what the tracer keeps: see Marker
    field, hasDesc, markBit, GCMarkedBitValue, snapshotOfRootSet, rootsLeft,
    premarked, gcMarkQueueUwU, deferredMarkQueue, markPc, scan,
    status,                 \* of each block: "none", "live" or "freed"
    \* threads
    threads,                \* heap->threads
    thread,                 \* struct thread, and where the thread is
    needRemarkQueue,        \* full local buffers, flushed
    \* the GC lock
    holders, gcPhase,
    \* the GC thread and its state
    gcPc,
    mutatorMarkedBitValue, markingInProgress,
    totalRootRefs,          \* takeRootSnapshotPhase's count
    objectsListSnapshot,    \* all blocks there were at the snapshot
    toSweep,                \* those sweepPhase has still to look at
    chunk,                  \* what processAChunk has still to do
    localLeft, localThread, \* threads whose local buffer is still to come; the
                            \* one whose buffer is being processed
    cycleID,
    \* history and failure
    snapshotField,          \* the heap graph at the snapshot
    lateBarrier,            \* a barrier ran, or was under way, after marking, in
                            \* this cycle or an earlier one that it left a mark of
    strayThread,            \* a thread off the list had roots at the snapshot, took
                            \* its buffer with it or marked a block, in this cycle
    breached,               \* either happened in any cycle so far, or a block was
                            \* hidden behind one that was marked beforehand
    fault                   \* "none", "useAfterFree", "uninitialised",
                            \* "nullDeref", "bugOn", "panic"

Mark == INSTANCE Marker
Lock == INSTANCE ExclusiveLock WITH Mutators <- Thread

lockVars == <<holders, gcPhase>>
blockVars == <<field, hasDesc, markBit, status>>
threadVars == <<threads, thread, needRemarkQueue>>
flagVars == <<mutatorMarkedBitValue, markingInProgress>>
snapshotVars == <<totalRootRefs, objectsListSnapshot, cycleID>>
remarkVars == <<chunk, localLeft, localThread>>
cycleVars == <<flagVars, snapshotVars, remarkVars, toSweep>>
noteVars == <<lateBarrier, strayThread, breached>>
historyVars == <<snapshotField, noteVars>>
rootVars == <<snapshotOfRootSet, rootsLeft, premarked>>
queueVars == <<gcMarkQueueUwU, deferredMarkQueue, markPc, scan>>
traceVars == <<GCMarkedBitValue, rootVars, queueVars>>
gcVars == <<gcPc, cycleVars, traceVars>>
vars == <<blockVars, threadVars, lockVars, gcVars, historyVars, fault>>

Live == {o \in Obj : status[o] = "live"}
NoFields == [o \in Obj |-> [s \in Mark!Slots(o) |-> NULL]]

-----------------------------------------------------------------------------
(* A thread's operations: "idle" between two of them, "out" when detached; *)
(* "init", "publish" in heap_alloc_with_descriptor; "load" .. "flush" in   *)
(* gc_need_remark(thread[t].obj); "detach" in thread_free.                 *)
InBarrier == {"load", "exchange", "compare", "push", "bump", "flush"}
ThreadPcs == InBarrier \union {"out", "idle", "init", "publish", "detach"}

(* Where gc_need_remark no longer takes note of what is lost, although the *)
(* blocks it is to keep are still being looked for.                        *)
AfterMarking == gcPc \in {"drain", "local", "localChunk"}

(* History: a late barrier, a stray thread. *)
Note(late, stray) ==
    /\ lateBarrier' = (lateBarrier \/ late)
    /\ strayThread' = (strayThread \/ stray)
    /\ breached' = (breached \/ late \/ stray)

(* Mutant of Operate: takes the lock although the GC waits for it. *)
MutOperate(t, roots, obj) ==
    /\ t \in threads /\ thread[t].pc = "idle"
    /\ IF obj = NULL
       THEN /\ UNCHANGED lockVars
            /\ thread' = [thread EXCEPT ![t].rootEntries = roots]
       ELSE /\ holders' = holders \union {t} /\ UNCHANGED gcPhase
            /\ thread' = [thread EXCEPT ![t].rootEntries = roots,
                                        ![t].pc = "load", ![t].obj = obj]
    /\ Note(obj # NULL /\ AfterMarking, FALSE)
    /\ UNCHANGED <<threads, needRemarkQueue, gcVars, snapshotField, fault>>

(* An operation that takes the lock, ends in gc_need_remark(obj) and gives *)
(* it back.  gc_need_remark(NULL) returns at once.                         *)
Operate(t, roots, obj) ==
    /\ t \in threads /\ thread[t].pc = "idle"
    /\ IF obj = NULL
       THEN /\ gcPhase = "idle" /\ UNCHANGED lockVars
            /\ thread' = [thread EXCEPT ![t].rootEntries = roots]
       ELSE /\ Lock!Block(t)
            /\ thread' = [thread EXCEPT ![t].rootEntries = roots,
                                        ![t].pc = "load", ![t].obj = obj]
    /\ Note(obj # NULL /\ AfterMarking, FALSE)
    /\ UNCHANGED <<threads, needRemarkQueue, gcVars, snapshotField, fault>>

(* The references a thread can follow: from a block it holds a root of. *)
Held(t) == {o \in thread[t].rootEntries : o \in Live /\ hasDesc[o]}

(* Mutant of WriteRef: the barrier gets the new reference. *)
MutWriteRef(t, block, slot, newBlock) ==
    /\ field' = [field EXCEPT ![block][slot] = newBlock]
    /\ Operate(t, thread[t].rootEntries, newBlock)
    /\ UNCHANGED <<hasDesc, markBit, status>>

(* object_helper_write_ref *)
WriteRef(t, block, slot, newBlock) ==
    /\ field' = [field EXCEPT ![block][slot] = newBlock]
    /\ Operate(t, thread[t].rootEntries, field[block][slot])
    /\ UNCHANGED <<hasDesc, markBit, status>>

(* object_helper_read_ref; a null field makes a root that refers to NULL *)
ReadRef(t, block, slot) ==
    /\ Operate(t, thread[t].rootEntries \union {field[block][slot]}, block)
    /\ UNCHANGED blockVars

(* heap_root_unref *)
Unref(t, root) ==
    /\ Operate(t, thread[t].rootEntries \ {root}, root)
    /\ UNCHANGED blockVars

(* heap_new_root_ref_unlocked between heap_block_gc and heap_unblock_gc,   *)
(* of a block another thread holds a root of                               *)
NewRoot(t, obj) ==
    /\ Operate(t, thread[t].rootEntries \union {obj}, NULL)
    /\ UNCHANGED blockVars

(* heap_alloc: generation_alloc, a root, gc_on_allocate.  The memory is    *)
(* not initialised: until InitFields, its null fields stand for whatever   *)
(* lies there (see ReadsUninitialised).                                    *)
Alloc(t, obj) ==
    /\ t \in threads /\ thread[t].pc = "idle" /\ gcPhase = "idle"
    /\ status[obj] = "none"
    /\ status' = [status EXCEPT ![obj] = "live"]
    /\ markBit' = [markBit EXCEPT ![obj] = ~mutatorMarkedBitValue]
    /\ thread' = [thread EXCEPT ![t].rootEntries = @ \union {obj},
                      ![t].obj = IF Mark!Slots(obj) = {} THEN NULL ELSE obj,
                      ![t].pc = IF Mark!Slots(obj) = {} THEN "idle" ELSE "init"]
    /\ UNCHANGED <<field, hasDesc, threads, needRemarkQueue, lockVars, gcVars,
                   historyVars, fault>>

(* The rest of heap_alloc_with_descriptor, outside the lock: first         *)
(* descriptor_init_object, ...                                             *)
InitFields(t) ==
    /\ thread[t].pc = "init"
    /\ thread' = [thread EXCEPT ![t].pc = "publish"]
    /\ field' = [field EXCEPT ![thread[t].obj] = NoFields[thread[t].obj]]
    /\ UNCHANGED <<hasDesc, markBit, status, threads, needRemarkQueue, lockVars,
                   gcVars, historyVars, fault>>

(* Mutant of PublishDesc: may come before the fields are written. *)
MutPublishDesc(t) ==
    /\ thread[t].pc \in {"init", "publish"}
    /\ thread' = IF thread[t].pc = "init" THEN thread
                 ELSE [thread EXCEPT ![t].pc = "idle", ![t].obj = NULL]
    /\ hasDesc' = [hasDesc EXCEPT ![thread[t].obj] = TRUE]
    /\ UNCHANGED <<field, markBit, status, threads, needRemarkQueue, lockVars,
                   gcVars, historyVars, fault>>

(* ... then the descriptor is stored, with release order. *)
PublishDesc(t) ==
    /\ thread[t].pc = "publish"
    /\ thread' = [thread EXCEPT ![t].pc = "idle", ![t].obj = NULL]
    /\ hasDesc' = [hasDesc EXCEPT ![thread[t].obj] = TRUE]
    /\ UNCHANGED <<field, markBit, status, threads, needRemarkQueue, lockVars,
                   gcVars, historyVars, fault>>

-----------------------------------------------------------------------------
(* gc_need_remark *)

EmptyBuffer == [i \in 0 .. LocalBufferSize - 1 |-> NULL]

(* The barrier returns, leaving struct thread as self, and its caller gives *)
(* the lock back if it has it.                                             *)
Return(t, self) ==
    /\ thread' = [thread EXCEPT ![t] =
           [self EXCEPT !.pc = IF t \in holders THEN "idle" ELSE "detach",
                        !.obj = NULL, !.prevMarkBit = FALSE, !.usageRead = 0]]
    /\ IF t \in holders THEN Lock!Unblock(t) ELSE UNCHANGED lockVars

LoadMarkingInProgress(t) ==
    /\ thread[t].pc = "load" /\ thread[t].obj \in Live
    /\ IF markingInProgress
       THEN thread' = [thread EXCEPT ![t].pc = "exchange"] /\ UNCHANGED lockVars
       ELSE Return(t, thread[t])
    /\ UNCHANGED <<blockVars, needRemarkQueue, noteVars>>

(* GCMarkedBitValue is read for the exchange and again for the comparison. *)
(* For a thread that has the lock it cannot change in between, and the two *)
(* are one step; a detaching thread may see the cycle end there.           *)
ExchangeMarkBit(t) ==
    /\ thread[t].pc = "exchange" /\ thread[t].obj \in Live
    /\ markBit' = [markBit EXCEPT ![thread[t].obj] = GCMarkedBitValue]
    /\ IF t \notin holders
       THEN /\ thread' = [thread EXCEPT ![t].pc = "compare",
                                        ![t].prevMarkBit = markBit[thread[t].obj]]
            /\ UNCHANGED lockVars
       ELSE IF Mark!Marked(thread[t].obj)
       THEN Return(t, thread[t])
       ELSE thread' = [thread EXCEPT ![t].pc = "push"] /\ UNCHANGED lockVars
    /\ Note(FALSE, t \notin threads /\ ~Mark!Marked(thread[t].obj))
    /\ UNCHANGED <<field, hasDesc, status, needRemarkQueue>>

CompareMarkBit(t) ==
    /\ thread[t].pc = "compare"
    /\ IF thread[t].prevMarkBit = GCMarkedBitValue
       THEN Return(t, thread[t])
       ELSE /\ thread' = [thread EXCEPT ![t].pc = "push", ![t].prevMarkBit = FALSE]
            /\ UNCHANGED lockVars
    /\ UNCHANGED <<blockVars, needRemarkQueue, noteVars>>

(* localRemarkBuffer[localRemarkBufferUsage] = obj; ... *)
Push(t) ==
    /\ thread[t].pc = "push" /\ thread[t].obj \in Live
    /\ LET usage == thread[t].localRemarkBufferUsage IN
       thread' = [thread EXCEPT ![t].localRemarkBuffer[usage] = thread[t].obj,
                                ![t].usageRead = usage, ![t].pc = "bump"]
    /\ UNCHANGED <<blockVars, needRemarkQueue, lockVars, noteVars>>

(* Mutant of Bump: flushes one entry too late. *)
MutBump(t) ==
    /\ thread[t].pc = "bump"
    /\ LET self == [thread[t] EXCEPT !.localRemarkBufferUsage = thread[t].usageRead + 1] IN
       IF self.localRemarkBufferUsage > LocalBufferSize
       THEN thread' = [thread EXCEPT ![t] = [self EXCEPT !.pc = "flush"]]
            /\ UNCHANGED lockVars
       ELSE Return(t, self)
    /\ UNCHANGED <<blockVars, needRemarkQueue, noteVars>>

(* ... localRemarkBufferUsage++, from the value read for the index (the    *)
(* field is not atomic, and a compiler reads it once) ...                  *)
Bump(t) ==
    /\ thread[t].pc = "bump"
    /\ LET self == [thread[t] EXCEPT !.localRemarkBufferUsage = thread[t].usageRead + 1] IN
       IF self.localRemarkBufferUsage = LocalBufferSize
       THEN thread' = [thread EXCEPT ![t] = [self EXCEPT !.pc = "flush"]]
            /\ UNCHANGED lockVars
       ELSE Return(t, self)
    /\ UNCHANGED <<blockVars, needRemarkQueue, noteVars>>

(* ... and, when it is full, all of it goes to the shared queue.           *)
Entries(t, n) == [i \in 1 .. n |-> thread[t].localRemarkBuffer[i - 1]]
Flush(t) ==
    /\ thread[t].pc = "flush"
    /\ needRemarkQueue' = needRemarkQueue \o Entries(t, LocalBufferSize)
    /\ Return(t, [thread[t] EXCEPT !.localRemarkBuffer = EmptyBuffer,
                                   !.localRemarkBufferUsage = 0])
    /\ UNCHANGED <<blockVars, noteVars>>

Barrier(t) ==
    /\ \/ LoadMarkingInProgress(t) \/ ExchangeMarkBit(t) \/ CompareMarkBit(t)
       \/ Push(t) \/ Bump(t) \/ Flush(t)
    /\ UNCHANGED <<threads, gcVars, snapshotField, fault>>

-----------------------------------------------------------------------------
(* Attaching and detaching.  heap_iterate_threads holds threadListLock.    *)
ThreadListLockFree == gcPc \notin {"local", "localChunk"}

NewThread == [pc |-> "idle", obj |-> NULL, rootEntries |-> {},
              prevMarkBit |-> FALSE, usageRead |-> 0,
              localRemarkBuffer |-> EmptyBuffer,
              localRemarkBufferUsage |-> 0]

(* heap_attach_thread *)
AttachThread(t) ==
    /\ thread[t].pc = "out" /\ ThreadListLockFree
    /\ threads' = threads \union {t}
    /\ thread' = [thread EXCEPT ![t] = NewThread]
    /\ UNCHANGED <<blockVars, needRemarkQueue, lockVars, gcVars, historyVars, fault>>

(* heap_detach_thread: removeThread takes the thread off the list, ... *)
DetachThread(t) ==
    /\ Detaching
    /\ t \in threads /\ thread[t].pc = "idle" /\ ThreadListLockFree
    /\ threads' = threads \ {t}
    /\ thread' = [thread EXCEPT ![t].pc = "detach"]
    /\ Note(FALSE, thread[t].localRemarkBufferUsage > 0)
    /\ UNCHANGED <<blockVars, needRemarkQueue, lockVars, gcVars, snapshotField, fault>>

(* ... thread_free drops its roots, without blocking the GC, ... *)
DropRoot(t, root) ==
    /\ thread[t].pc = "detach"
    /\ thread' = [thread EXCEPT ![t].rootEntries = @ \ {root}, ![t].obj = root,
                      ![t].pc = IF root = NULL THEN "detach" ELSE "load"]
    /\ Note(root # NULL /\ AfterMarking, FALSE)
    /\ UNCHANGED <<blockVars, threads, needRemarkQueue, lockVars, gcVars,
                   snapshotField, fault>>

(* Mutant of FreeThread: flushes the buffer although it is not full. *)
MutFreeThread(t) ==
    /\ thread[t].pc = "detach" /\ thread[t].rootEntries = {}
    /\ needRemarkQueue' = needRemarkQueue \o Entries(t, thread[t].localRemarkBufferUsage)
    /\ thread' = [thread EXCEPT ![t] = [NewThread EXCEPT !.pc = "out"]]
    /\ UNCHANGED <<blockVars, threads, lockVars, gcVars, historyVars, fault>>

(* ... and frees it with what its local remark buffer holds. *)
FreeThread(t) ==
    /\ thread[t].pc = "detach" /\ thread[t].rootEntries = {}
    /\ thread' = [thread EXCEPT ![t] = [NewThread EXCEPT !.pc = "out"]]
    /\ UNCHANGED <<blockVars, threads, needRemarkQueue, lockVars, gcVars,
                   historyVars, fault>>

-----------------------------------------------------------------------------
(* The GC thread's cycle.                                                  *)
GoGc(from, to) == gcPc = from /\ gcPc' = to

(* cycleRunner: pauseAppThreads, up to the wait for the mutators, ... *)
StartCycle ==
    /\ GoGc("idle", "enter")
    /\ cycleID < MaxCycles
    /\ Lock!Request
    /\ UNCHANGED <<blockVars, threadVars, cycleVars, traceVars, historyVars, fault>>

(* ... then, with them out of the lock, the flags and the first pass of    *)
(* takeRootSnapshotPhase, ...                                              *)
RootRefs(ts) ==
    SumFunctionOnSet([t \in Thread |-> Cardinality(thread[t].rootEntries)], ts)

(* Mutant of CountRoots: does not announce that marking is in progress. *)
MutCountRoots ==
    /\ GoGc("enter", "copy")
    /\ Lock!Grant
    /\ mutatorMarkedBitValue' = GCMarkedBitValue
    /\ totalRootRefs' = RootRefs(threads)
    /\ UNCHANGED <<blockVars, threadVars, markingInProgress, objectsListSnapshot, cycleID,
                   remarkVars, toSweep, traceVars, historyVars, fault>>

CountRoots ==
    /\ GoGc("enter", "copy")
    /\ Lock!Grant
    /\ mutatorMarkedBitValue' = GCMarkedBitValue
    /\ markingInProgress' = TRUE
    /\ totalRootRefs' = RootRefs(threads)
    /\ UNCHANGED <<blockVars, threadVars, objectsListSnapshot, cycleID, remarkVars,
                   toSweep, traceVars, historyVars, fault>>

(* What references lead to from the roots, through blocks of a set *)
LedTo(through) ==
    {o \in Live : \A S \in SUBSET Live :
        /\ (UNION {thread[t].rootEntries : t \in threads}) \ {NULL} \subseteq S
        /\ \A p \in S \intersect through :
              {field[p][s] : s \in Mark!Slots(p)} \ {NULL} \subseteq S
        => o \in S}

(* A block in use that only blocks marked beforehand lead to *)
HidesBlock ==
    LET white == {o \in Live : ~Mark!Marked(o)}
    IN  LedTo(Live) \intersect white # LedTo(white) \intersect white

(* ... the second pass, alloc_tracker_take_snapshot and unpauseAppThreads. *)
CopyRoots ==
    /\ GoGc("copy", "mark")
    /\ RootRefs(threads) = totalRootRefs
    /\ snapshotOfRootSet' = UNION {thread[t].rootEntries : t \in threads}
    /\ rootsLeft' = snapshotOfRootSet'
    /\ objectsListSnapshot' = Live
    /\ premarked' = {o \in Live : Mark!Marked(o)}
    /\ snapshotField' = field
    /\ LET stray == \E t \in Thread \ threads :
                       thread[t].rootEntries # {} \/ thread[t].pc \in InBarrier
       IN  /\ strayThread' = (strayThread \/ stray)
           /\ breached' = (breached \/ stray \/ HidesBlock)
    /\ Lock!Release
    /\ totalRootRefs' = 0
    /\ UNCHANGED <<blockVars, threadVars, flagVars, cycleID, remarkVars, toSweep,
                   GCMarkedBitValue, queueVars, lateBarrier, fault>>

(* markingPhase and everything doMark does; a block to visit must exist, *)
(* and a slot that is read must have been written.                       *)
ToVisitExists ==
    markPc = "drain" /\ gcMarkQueueUwU # <<>> => Head(gcMarkQueueUwU) \in Live

ReadsUninitialised ==
    Mark!AtSlot /\ \E t \in Thread : thread[t].pc = "init" /\ thread[t].obj = scan.block

MarkRoot(root) ==
    /\ gcPc = "mark"
    /\ Mark!MarkRoot(root)
    /\ UNCHANGED <<field, hasDesc, status, threadVars, lockVars, gcPc, cycleVars,
                   GCMarkedBitValue, historyVars, fault>>

MarkStep ==
    /\ ToVisitExists /\ ~ReadsUninitialised
    /\ Mark!MarkStep
    /\ UNCHANGED <<field, hasDesc, status, threadVars, lockVars, gcPc, cycleVars,
                   GCMarkedBitValue, rootVars, historyVars, fault>>

EndMarking ==
    /\ GoGc("mark", "drain")
    /\ Mark!MarkingDone
    /\ markingInProgress' = FALSE
    /\ Note(\E t \in Thread : thread[t].pc \in InBarrier, FALSE)
    /\ UNCHANGED <<blockVars, threadVars, lockVars, mutatorMarkedBitValue, snapshotVars,
                   remarkVars, toSweep, traceVars, snapshotField, fault>>

(* processMutatorMarkQueuePhase.  processAChunk gives each block back its  *)
(* unmarked state and hands it to doMark.                                  *)
ChunkDone == chunk = <<>> /\ markPc = "idle"

(* Mutant of RemarkNext: leaves the block marked. *)
MutRemarkNext ==
    /\ chunk # <<>> /\ Head(chunk) \in Live
    /\ chunk' = Tail(chunk)
    /\ Mark!DoMark(Head(chunk))
    /\ UNCHANGED <<blockVars, threadVars, lockVars, gcPc, flagVars, snapshotVars,
                   localLeft, localThread, toSweep, GCMarkedBitValue, rootVars,
                   historyVars, fault>>

RemarkNext ==
    /\ chunk # <<>> /\ Head(chunk) \in Live
    /\ chunk' = Tail(chunk)
    /\ markBit' = [markBit EXCEPT ![Head(chunk)] = ~GCMarkedBitValue]
    /\ Mark!DoMark(Head(chunk))
    /\ UNCHANGED <<field, hasDesc, status, threadVars, lockVars, gcPc, flagVars,
                   snapshotVars, localLeft, localThread, toSweep, GCMarkedBitValue,
                   rootVars, historyVars, fault>>

ReadChunk ==
    /\ gcPc = "drain" /\ ChunkDone
    /\ needRemarkQueue # <<>>
    /\ chunk' = SubSeq(needRemarkQueue, 1, LocalBufferSize)
    /\ needRemarkQueue' =
         SubSeq(needRemarkQueue, LocalBufferSize + 1, Len(needRemarkQueue))
    /\ UNCHANGED <<blockVars, threads, thread, lockVars, gcPc, flagVars, snapshotVars,
                   localLeft, localThread, toSweep, traceVars, historyVars, fault>>

EndDrain ==
    /\ GoGc("drain", "local")
    /\ ChunkDone /\ needRemarkQueue = <<>>
    /\ localLeft' = threads
    /\ UNCHANGED <<blockVars, threadVars, lockVars, flagVars, snapshotVars, chunk,
                   localThread, toSweep, traceVars, historyVars, fault>>

(* Each thread's local buffer, as long as it was at the start; a late push *)
(* goes behind that part.                                                  *)
ReadLocal(t) ==
    /\ GoGc("local", "localChunk")
    /\ t \in localLeft
    /\ localThread' = t
    /\ chunk' = Entries(t, thread[t].localRemarkBufferUsage)
    /\ UNCHANGED <<blockVars, threadVars, lockVars, flagVars, snapshotVars, localLeft,
                   toSweep, traceVars, historyVars, fault>>

ResetLocal ==
    /\ GoGc("localChunk", "local")
    /\ ChunkDone
    /\ thread' = [thread EXCEPT ![localThread].localRemarkBufferUsage = 0]
    /\ localLeft' = localLeft \ {localThread} /\ localThread' = NULL
    /\ UNCHANGED <<blockVars, threads, needRemarkQueue, lockVars, flagVars,
                   snapshotVars, chunk, toSweep, traceVars, historyVars,
                   fault>>

EndLocal ==
    /\ GoGc("local", "sweep")
    /\ localLeft = {}
    /\ toSweep' = objectsListSnapshot
    /\ UNCHANGED <<blockVars, threadVars, lockVars, flagVars, snapshotVars, remarkVars,
                   traceVars, historyVars, fault>>

(* Mutant of SweepBlock: takes a set bit for a mark, whatever it means in  *)
(* this cycle.                                                             *)
MutSweepBlock(block) ==
    /\ gcPc = "sweep" /\ block \in toSweep
    /\ toSweep' = toSweep \ {block}
    /\ IF markBit[block]
       THEN UNCHANGED blockVars
       ELSE /\ status' = [status EXCEPT ![block] = "freed"]
            /\ field' = [field EXCEPT ![block] = NoFields[block]]
            /\ hasDesc' = [hasDesc EXCEPT ![block] = FALSE]
            /\ markBit' = [markBit EXCEPT ![block] = FALSE]
    /\ UNCHANGED <<threadVars, lockVars, gcPc, flagVars, snapshotVars, remarkVars,
                   traceVars, historyVars, fault>>

(* sweepPhase: a marked block goes back to the list of all blocks, others  *)
(* are freed.                                                              *)
SweepBlock(block) ==
    /\ gcPc = "sweep" /\ block \in toSweep
    /\ toSweep' = toSweep \ {block}
    /\ IF Mark!Marked(block)
       THEN UNCHANGED blockVars
       ELSE /\ status' = [status EXCEPT ![block] = "freed"]
            /\ field' = [field EXCEPT ![block] = NoFields[block]]
            /\ hasDesc' = [hasDesc EXCEPT ![block] = FALSE]
            /\ markBit' = [markBit EXCEPT ![block] = FALSE]
    /\ UNCHANGED <<threadVars, lockVars, gcPc, flagVars, snapshotVars, remarkVars,
                   traceVars, historyVars, fault>>

EndSweep ==
    /\ GoGc("sweep", "finish")
    /\ toSweep = {}
    /\ Lock!Request
    /\ UNCHANGED <<blockVars, threadVars, cycleVars, traceVars, historyVars, fault>>

(* What a late barrier may leave for the next cycle *)
LeftBehind ==
    \/ needRemarkQueue # <<>>
    \/ \E t \in Thread : thread[t].localRemarkBufferUsage > 0 \/ thread[t].pc \in InBarrier

(* Mutant of FinishCycle: does not flip the GC's meaning of the mark bit. *)
MutFinishCycle ==
    /\ GoGc("finish", "idle")
    /\ gcPhase = "waiting" /\ holders = {} /\ gcPhase' = "idle" /\ UNCHANGED holders
    /\ cycleID' = cycleID + 1
    /\ snapshotOfRootSet' = {} /\ premarked' = {}
    /\ snapshotField' = NoFields
    /\ lateBarrier' = (lateBarrier /\ LeftBehind) /\ strayThread' = FALSE
    /\ UNCHANGED <<blockVars, threadVars, flagVars, totalRootRefs, objectsListSnapshot, breached,
                   remarkVars, toSweep, rootsLeft, GCMarkedBitValue, queueVars, fault>>

(* The second pause, in one step, and the end of cycleRunner; what only    *)
(* this cycle needed is forgotten.                                         *)
FinishCycle ==
    /\ GoGc("finish", "idle")
    /\ gcPhase = "waiting" /\ holders = {} /\ gcPhase' = "idle" /\ UNCHANGED holders
    /\ GCMarkedBitValue' = ~GCMarkedBitValue
    /\ cycleID' = cycleID + 1
    /\ snapshotOfRootSet' = {} /\ premarked' = {}
    /\ snapshotField' = NoFields
    /\ lateBarrier' = (lateBarrier /\ LeftBehind) /\ strayThread' = FALSE
    /\ UNCHANGED <<blockVars, threadVars, flagVars, totalRootRefs, objectsListSnapshot, breached,
                   remarkVars, toSweep, rootsLeft, queueVars, fault>>

-----------------------------------------------------------------------------
(* Failures *)
MutatorTouchesFreed(t) ==
    \/ /\ thread[t].pc = "idle"
       /\ \E o \in thread[t].rootEntries \ {NULL} : status[o] = "freed"
    \/ /\ thread[t].pc \in {"load", "exchange", "push"}
       /\ status[thread[t].obj] = "freed"

GcTouches ==
    (IF ~ToVisitExists THEN {Head(gcMarkQueueUwU)} ELSE {})
    \union (IF chunk # <<>> THEN {Head(chunk)} ELSE {})

(* From the second snapshot on a root set of size 0 is a realloc to size 0  *)
(* of memory there is: an allocator may free it and return NULL, as glibc's *)
(* does, or return an empty block, as mimalloc's does.                      *)
MayReserveNothing == gcPc = "copy" /\ totalRootRefs = 0 /\ cycleID > 0

Fail ==
    /\ \/ /\ \E t \in Thread : MutatorTouchesFreed(t)
          /\ fault' = "useAfterFree"
       \/ /\ \E o \in GcTouches \ {NULL} : o \notin Live
          /\ fault' = "useAfterFree"
       \/ /\ NULL \in GcTouches
          /\ fault' = "nullDeref"
       \/ /\ ReadsUninitialised
          /\ fault' = "uninitialised"
       \/ /\ MayReserveNothing
          /\ fault' = "panic"
       \/ /\ gcPc = "copy" /\ RootRefs(threads) # totalRootRefs
          /\ fault' = "bugOn"
    /\ UNCHANGED <<blockVars, threadVars, lockVars, gcVars, historyVars>>

-----------------------------------------------------------------------------
(* Before the first cycle: any heap the threads have built.                *)
Init ==
    /\ status \in [Obj -> {"none", "live"}]
    /\ field \in {f \in Mark!Fields : \A o \in Obj : \A s \in Mark!Slots(o) :
                    f[o][s] = NULL \/ {o, f[o][s]} \subseteq Live}
    /\ hasDesc = [o \in Obj |-> status[o] = "live" /\ Mark!Slots(o) # {}]
    /\ markBit = [o \in Obj |-> status[o] = "live"]
    /\ GCMarkedBitValue = FALSE
    /\ snapshotOfRootSet = {} /\ rootsLeft = {} /\ premarked = {}
    /\ gcMarkQueueUwU = <<>> /\ deferredMarkQueue = <<>>
    /\ markPc = "idle"
    /\ scan = Mark!NoScan
    /\ threads \in SUBSET Thread
    /\ \E roots \in [threads -> SUBSET Live] :
          thread = [t \in Thread |->
              IF t \in threads THEN [NewThread EXCEPT !.rootEntries = roots[t]]
                               ELSE [NewThread EXCEPT !.pc = "out"]]
    /\ needRemarkQueue = <<>>
    /\ holders = {} /\ gcPhase = "idle"
    /\ gcPc = "idle"
    /\ mutatorMarkedBitValue = FALSE /\ markingInProgress = FALSE
    /\ totalRootRefs = 0
    /\ objectsListSnapshot = {} /\ toSweep = {} /\ chunk = <<>>
    /\ localLeft = {} /\ localThread = NULL
    /\ cycleID = 0
    /\ snapshotField = NoFields
    /\ lateBarrier = FALSE /\ strayThread = FALSE /\ breached = FALSE
    /\ fault = "none"

Running == fault = "none" /\ markPc # "panic"

(* What a thread may begin, and how it goes on. *)
Begin(t) ==
    \/ \E block \in Held(t) : \E slot \in Mark!Slots(block) :
          \/ ReadRef(t, block, slot)
          \/ \E newBlock \in thread[t].rootEntries \union {NULL} :
                WriteRef(t, block, slot, newBlock)
    \/ \E root \in thread[t].rootEntries : Unref(t, root)
    \/ \E u \in threads : \E obj \in thread[u].rootEntries : NewRoot(t, obj)
    \/ \E obj \in Obj : Alloc(t, obj)
    \/ AttachThread(t) \/ DetachThread(t)

Continue(t) ==
    \/ InitFields(t) \/ PublishDesc(t) \/ Barrier(t)
    \/ (\E root \in thread[t].rootEntries : DropRoot(t, root)) \/ FreeThread(t)

GcStep ==
    \/ StartCycle \/ CountRoots \/ CopyRoots
    \/ (\E root \in rootsLeft : MarkRoot(root)) \/ MarkStep \/ EndMarking
    \/ ReadChunk \/ RemarkNext \/ EndDrain
    \/ (\E t \in Thread : ReadLocal(t)) \/ ResetLocal \/ EndLocal
    \/ (\E block \in toSweep : SweepBlock(block)) \/ EndSweep \/ FinishCycle

Next ==
    /\ Running
    /\ \/ \E t \in Thread : Begin(t) \/ Continue(t)
       \/ GcStep
       \/ Fail

Spec == Init /\ [][Next]_vars

(* The GC thread and a thread inside an operation keep running; nobody has *)
(* to begin an operation or a cycle.                                       *)
FairSpec ==
    /\ Spec
    /\ WF_vars(Running /\ (GcStep \/ Fail) /\ gcPc # "idle")
    /\ \A t \in Thread : WF_vars(Running /\ Continue(t))

-----------------------------------------------------------------------------
Ref == Obj \union {NULL}

StructThread ==
    [pc : ThreadPcs, obj : Ref, rootEntries : SUBSET Ref,
     prevMarkBit : BOOLEAN, usageRead : 0 .. LocalBufferSize - 1,
     localRemarkBuffer : [0 .. LocalBufferSize - 1 -> Ref],
     localRemarkBufferUsage : 0 .. LocalBufferSize]

TypeOK ==
    /\ field \in Mark!Fields
    /\ hasDesc \in [Obj -> BOOLEAN] /\ markBit \in [Obj -> BOOLEAN]
    /\ status \in [Obj -> {"none", "live", "freed"}]
    /\ GCMarkedBitValue \in BOOLEAN /\ mutatorMarkedBitValue \in BOOLEAN
    /\ markingInProgress \in BOOLEAN
    /\ snapshotOfRootSet \subseteq Ref /\ rootsLeft \subseteq snapshotOfRootSet
    /\ premarked \subseteq Obj
    /\ gcMarkQueueUwU \in Seq(Ref) /\ Len(gcMarkQueueUwU) <= MarkQueueCap
    /\ deferredMarkQueue \in Seq(Mark!MarkState) /\ Len(deferredMarkQueue) <= DeferredCap
    /\ markPc \in {"idle", "drain", "scan", "panic"}
    /\ scan \in Mark!ScanState
    /\ threads \subseteq Thread
    /\ thread \in [Thread -> StructThread]
    /\ \A t \in Thread :
          thread[t].localRemarkBufferUsage = LocalBufferSize => thread[t].pc = "flush"
    /\ needRemarkQueue \in Seq(Obj)
    /\ Lock!LockTypeOK
    /\ gcPc \in {"idle", "enter", "copy", "mark", "drain", "local", "localChunk",
                 "sweep", "finish"}
    /\ totalRootRefs \in Nat /\ cycleID \in 0 .. MaxCycles
    /\ objectsListSnapshot \subseteq Obj /\ toSweep \subseteq objectsListSnapshot
    /\ chunk \in Seq(Obj)
    /\ localLeft \subseteq Thread /\ localThread \in Thread \union {NULL}
    /\ snapshotField \in Mark!Fields
    /\ lateBarrier \in BOOLEAN /\ strayThread \in BOOLEAN /\ breached \in BOOLEAN
    /\ fault \in {"none", "useAfterFree", "uninitialised", "nullDeref", "bugOn", "panic"}

-----------------------------------------------------------------------------
(* While marking is in progress no edge of the heap as it was at the       *)
(* snapshot is lost, however mutators move references about (the           *)
(* snapshot-at-the-beginning invariant): what it pointed to is marked,     *)
(* queued or in the hands of a barrier, or the reference is still where it *)
(* was, in a slot that will be visited if its block is.  Blocks marked     *)
(* before the cycle are left out, the tracer does not enter them.          *)
InBuffers(o) ==
    \/ \E i \in DOMAIN needRemarkQueue : needRemarkQueue[i] = o
    \/ \E t \in threads :
          \/ \E i \in 0 .. thread[t].localRemarkBufferUsage - 1 :
                thread[t].localRemarkBuffer[i] = o
          \/ thread[t].pc \in {"push", "bump", "flush"} /\ thread[t].obj = o

Secured(o) ==
    \/ Mark!Marked(o)
    \/ \E i \in DOMAIN gcMarkQueueUwU : gcMarkQueueUwU[i] = o
    \/ \E t \in threads : thread[t].pc \in {"load", "exchange"} /\ thread[t].obj = o

WillVisit(o, s) ==
    \/ ~Mark!Marked(o)
    \/ InBuffers(o)
    \/ markPc = "scan" /\ scan.block = o /\ s >= Mark!CurrentSlot
    \/ \E i \in DOMAIN deferredMarkQueue :
          /\ deferredMarkQueue[i].block = o
          /\ s >= deferredMarkQueue[i].fieldIndex \/ s >= FieldCount[o]

SnapshotEdges ==
    gcPc = "mark" /\ markPc # "panic" /\ ~strayThread =>
        \A o \in objectsListSnapshot \ premarked : \A s \in Mark!Slots(o) :
            LET target == snapshotField[o][s] IN
            target = NULL \/ Secured(target)
                \/ (field[o][s] = target /\ WillVisit(o, s))

(* No barrier was late, and no thread off the list had a part in the cycle. *)
Undisturbed == ~lateBarrier /\ ~strayThread

(* What the sweep keeps: if no barrier ran in the window between the end   *)
(* of marking and the end of the remark phase (nor was caught in it), then *)
(* when the sweep starts every root of the snapshot is marked, and with    *)
(* every block marked in this cycle all it referred to at the snapshot.    *)
SweepKeepsSnapshot ==
    gcPc = "sweep" /\ toSweep = objectsListSnapshot /\ Undisturbed =>
        /\ snapshotOfRootSet \subseteq Mark!MarkedSet
        /\ \A o \in (objectsListSnapshot \ premarked) \intersect Mark!MarkedSet :
             {snapshotField[o][s] : s \in Mark!Slots(o)} \ {NULL} \subseteq Mark!MarkedSet

(* What the sweep frees: a block that was garbage at the snapshot does not *)
(* survive the cycle, unless it had been marked before the cycle began.    *)
SweepFreesGarbage ==
    gcPc = "finish" /\ Undisturbed =>
        \A S \in SUBSET objectsListSnapshot :
            /\ snapshotOfRootSet \subseteq S
            /\ \A o \in S : {snapshotField[o][s] : s \in Mark!Slots(o)} \ {NULL} \subseteq S
            => objectsListSnapshot \intersect Live \subseteq S \union premarked

(* A block that has been through a cycle starts the next one unmarked, so  *)
(* the tracer will enter it.                                               *)
SurvivorsUnmarked ==
    gcPc = "idle" /\ ~strayThread => \A o \in objectsListSnapshot \intersect Live : ~Mark!Marked(o)

(* The shared remark queue holds whole buffers only, so that a read of     *)
(* LocalBufferSize items never meets fewer (gc.c:290-298).                 *)
RemarkQueueWhole == Len(needRemarkQueue) % LocalBufferSize = 0

(* No thread touches a freed block, and the tracer visits none, over all   *)
(* cycles, unless in some cycle so far a barrier was late, a detaching     *)
(* thread acted off the list, or a block in use lay behind blocks marked   *)
(* beforehand: these are the only ways in which the code frees what is     *)
(* still in use.  Null references in the heap never get to the tracer:     *)
(* what it follows a null pointer from is a null root (helper.c:21) of the *)
(* snapshot.  And it reads no field of a block whose fields are still to   *)
(* be initialised (heap.c:103), although it may meet the block before.     *)
MemorySafe ==
    /\ fault = "useAfterFree" => breached
    /\ fault = "nullDeref" => NULL \in snapshotOfRootSet
    /\ fault # "uninitialised"

(* Between the two passes over the roots (gc.c:251, 262) the number of     *)
(* roots changes only when a thread leaves the list: the lock keeps every  *)
(* other operation out, and a new thread brings none.                      *)
RootsFrozen ==
    [][gcPc = "copy" /\ RootRefs(threads)' # RootRefs(threads)
         => gcPc' # "copy" \/ (threads' \subseteq threads /\ threads' # threads)]_vars

(* A cycle that started ends, whatever the mutators do meanwhile. *)
CycleEnds == gcPc # "idle" ~> (gcPc = "idle" \/ ~Running)

-----------------------------------------------------------------------------
(* Claims of comments that the code does not keep.                         *)

(* gc.h:45-49: "white objects guarantee to be dead objects [...] there no  *)
(* way application can get reference to unmarked objects", so a thread     *)
(* never comes to hold a root of a freed block.                            *)
NoDangling ==
    \A t \in threads : thread[t].rootEntries \subseteq Live \union {NULL}

(* The same where no barrier was late: when the sweep starts, a block a    *)
(* thread holds, or refers to through one it holds, is not to be freed.    *)
WhiteIsDead ==
    gcPc = "sweep" /\ toSweep = objectsListSnapshot /\ ~lateBarrier =>
        \A t \in threads : \A o \in thread[t].rootEntries \intersect toSweep :
            ({o} \union {field[o][s] : s \in Mark!Slots(o)}) \intersect toSweep
                \subseteq Mark!MarkedSet

(* gc.c:300-304: when local buffers are read, "mutator already stopped     *)
(* writing into its local buffer ensuring no race by this time".           *)
LocalBuffersQuiet ==
    gcPc \in {"local", "localChunk"} =>
        \A t \in threads : thread[t].pc \notin {"push", "bump", "flush"}

(* gc.c:265-266, 273-275: the root set does not change while it is copied. *)
RootCountStable == fault # "bugOn"

(* gc.c:41, 146 provide for null references; so should the tracer. *)
NoNullDeref == fault # "nullDeref"

(* gc.c:256-257: that there is no memory for the root set is taken for an  *)
(* error; that there are no roots should not be.                           *)
NoPanic == fault # "panic"
=============================================================================
