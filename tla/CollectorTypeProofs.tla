------------------------ MODULE CollectorTypeProofs ------------------------
(***************************************************************************)
(* What the collector's variables hold and where threads, the GC thread    *)
(* and the tracer can be, for any threads, blocks, queues and number of    *)
(* cycles; and what its steps have in common.                              *)
(*                                                                         *)
(* The inductive invariants, each resting on those before it:              *)
(*   BaseInv    where threads, the GC thread and the tracer can be, and    *)
(*              what their variables hold there                            *)
(*   KnownInv   references lead to blocks that once were allocated         *)
(* A step of a thread and one of the GC thread are brought to a common     *)
(* form (StepOf and GcEffect), which most proofs of CollectorProofs use in *)
(* place of the actions.                                                   *)
(***************************************************************************)
EXTENDS Collector, SumLemmas, SequenceTheorems
(* What holds of the threads, of the phases and of the tracer's own state. *)
Cycle == {"mark", "drain", "local", "localChunk", "sweep", "finish"}
Tracing == {"mark", "drain", "local", "localChunk"}
Pushing == {"push", "bump", "flush"}
PastLoad == Pushing \union {"exchange", "compare"}
Making == {"init", "publish"}

(* The entries of a local buffer: those counted, and the one a barrier is  *)
(* about to count.                                                         *)
Filled(t, i) ==
    \/ i < thread[t].localRemarkBufferUsage
    \/ thread[t].pc = "bump" /\ i <= thread[t].usageRead
    \/ thread[t].pc = "flush"

ThreadOK(t) ==
    /\ t \in holders <=> t \in threads /\ thread[t].pc \in InBarrier
    /\ thread[t].pc \in Making \union {"idle"} => t \in threads
    /\ thread[t].pc \in {"out", "detach", "compare"} => t \notin threads
    /\ thread[t].pc \in InBarrier \union Making => thread[t].obj \in Obj
    /\ \A i \in 0 .. LocalBufferSize - 1 :
          Filled(t, i) => thread[t].localRemarkBuffer[i] \in Obj
    /\ thread[t].pc = "bump" =>
          thread[t].localRemarkBuffer[thread[t].usageRead] = thread[t].obj
    /\ thread[t].pc = "flush" =>
          thread[t].localRemarkBuffer[LocalBufferSize - 1] = thread[t].obj
    /\ thread[t].localRemarkBufferUsage = LocalBufferSize => thread[t].pc = "flush"

ThreadInv == \A t \in Thread : ThreadOK(t)

PhaseInv ==
    /\ gcPhase = "waiting" <=> gcPc \in {"enter", "finish"}
    /\ gcPhase = "exclusive" <=> gcPc = "copy"
    /\ gcPc = "copy" => holders = {}
    /\ gcPc # "idle" => cycleID < MaxCycles
    /\ markingInProgress <=> gcPc \in {"copy", "mark"}
    /\ markPc # "idle" => gcPc \in {"mark", "drain", "localChunk"}
    /\ chunk # <<>> => gcPc \in {"drain", "localChunk"}
    /\ rootsLeft # {} => gcPc = "mark"
    /\ localLeft # {} => gcPc \in {"local", "localChunk"}
    /\ localLeft \subseteq threads
    /\ gcPc = "localChunk" => localThread \in localLeft
    /\ gcPc \in {"sweep", "finish"} \/ toSweep = {}
    /\ gcPc = "finish" => toSweep = {}

ScanInv ==
    /\ markPc = "idle" => gcMarkQueueUwU = <<>> /\ deferredMarkQueue = <<>>
    /\ markPc \in {"scan", "panic"} => scan.block \in Obj
    /\ markPc \in {"idle", "drain"} => scan = Mark!NoScan
    /\ markPc = "scan" /\ scan.fieldIndex < FieldCount[scan.block] => scan.flexIndex = 0
    /\ markPc = "scan" /\ scan.fieldIndex + scan.flexIndex = 0
          => Len(gcMarkQueueUwU) < MarkQueueCap
    /\ \A i \in DOMAIN deferredMarkQueue : deferredMarkQueue[i].fieldIndex > 0

(* References lead from roots and fields of a set of blocks into the set,  *)
(* ...                                                                     *)
Holds(R) ==
    /\ \A t \in Thread : thread[t].rootEntries \subseteq R \union {NULL}
    /\ \A o \in R : \A s \in Mark!Slots(o) : field[o][s] \in R \union {NULL}

(* ... and what the barriers and the tracer have in hand is in it.         *)
InHand(R) ==
    /\ \A t \in Thread : thread[t].pc \in InBarrier => thread[t].obj \in R
    /\ \A t \in Thread : \A i \in 0 .. LocalBufferSize - 1 :
          (t \in threads \/ thread[t].pc \in Pushing) /\ Filled(t, i) =>
              thread[t].localRemarkBuffer[i] \in R
    /\ \A i \in DOMAIN needRemarkQueue : needRemarkQueue[i] \in R
    /\ \A i \in DOMAIN chunk : chunk[i] \in R
    /\ \A i \in DOMAIN gcMarkQueueUwU : gcMarkQueueUwU[i] \in R \union {NULL}
    /\ \A i \in DOMAIN deferredMarkQueue : deferredMarkQueue[i].block \in R
    /\ rootsLeft \subseteq R \union {NULL}
    /\ scan.block \in R \union {NULL}

Known == {o \in Obj : status[o] # "none"}

(* A block is blank until it is initialised and when it is freed; ...      *)
BlankInv ==
    \A o \in Obj : o \notin Live \/ ~hasDesc[o] => \A s \in Mark!Slots(o) : field[o][s] = NULL

(* ... one thread initialises it, once.                                    *)
InitInv ==
    /\ \A o \in Obj : status[o] = "none" => ~hasDesc[o]
    /\ \A t \in Thread : thread[t].pc \in Making =>
          status[thread[t].obj] # "none" /\ ~hasDesc[thread[t].obj]
    /\ \A t, u \in Thread :
          thread[t].pc \in Making /\ thread[u].pc \in Making /\ thread[t].obj = thread[u].obj
              => t = u

SnapshotInv ==
    /\ objectsListSnapshot \subseteq Known
    /\ snapshotOfRootSet \subseteq Known \union {NULL}
    /\ premarked \subseteq objectsListSnapshot
    /\ \A o \in Obj : \A s \in Mark!Slots(o) : snapshotField[o][s] \in Known \union {NULL}

KnownInv == BlankInv /\ InitInv /\ Holds(Known) /\ SnapshotInv

-----------------------------------------------------------------------------
(* What each operation of a thread does to it, field by field. *)
USE DEF blockVars, threadVars, flagVars, snapshotVars, remarkVars, cycleVars,
        noteVars, historyVars, rootVars, queueVars, traceVars, gcVars, lockVars

OnlyThread(t) ==
    /\ thread' \in [Thread -> StructThread]
    /\ \A u \in Thread : u # t => thread'[u] = thread[u]

SameRoots(t) == thread'[t].rootEntries = thread[t].rootEntries

SameBuffer(t) ==
    /\ thread'[t].usageRead = thread[t].usageRead
    /\ thread'[t].localRemarkBuffer = thread[t].localRemarkBuffer
    /\ thread'[t].localRemarkBufferUsage = thread[t].localRemarkBufferUsage

(* The four operations that end in a barrier: what the thread gets to hold *)
(* another thread holds or a block it holds refers to; a reference it      *)
(* writes is one it holds, and the one written over goes to the barrier.   *)
Reads(t, o) == \E b \in Held(t) : \E s \in Mark!Slots(b) : o = field[b][s]

Operates(t, roots, obj) ==
    /\ t \in threads /\ thread[t].pc = "idle" /\ gcPhase = "idle"
    /\ OnlyThread(t) /\ thread'[t].rootEntries = roots /\ SameBuffer(t)
    /\ obj = NULL => /\ thread'[t].pc = "idle" /\ thread'[t].obj = thread[t].obj
                     /\ UNCHANGED lockVars
    /\ obj # NULL => /\ thread'[t].pc = "load" /\ thread'[t].obj = obj
                     /\ t \notin holders /\ holders' = holders \union {t}
                     /\ UNCHANGED gcPhase
    /\ lateBarrier' <=> lateBarrier \/ (obj # NULL /\ AfterMarking)
    /\ strayThread' <=> strayThread
    /\ breached' <=> breached \/ (obj # NULL /\ AfterMarking)
    /\ lateBarrier' \in BOOLEAN /\ strayThread' \in BOOLEAN /\ breached' \in BOOLEAN
    /\ UNCHANGED <<threads, needRemarkQueue, gcVars, snapshotField, fault>>
    /\ \A r \in roots : (\E u \in threads : r \in thread[u].rootEntries) \/ Reads(t, r)
    /\ obj = NULL \/ obj \in thread[t].rootEntries \/ Reads(t, obj)
    /\ UNCHANGED <<hasDesc, markBit, status>>
    /\ field' \in Mark!Fields
    /\ \A o \in Obj : \A s \in Mark!Slots(o) :
          \/ field'[o][s] = field[o][s]
          \/ /\ o \in Live /\ hasDesc[o] /\ obj = field[o][s]
             /\ field'[o][s] \in thread[t].rootEntries \union {NULL}
             /\ roots = thread[t].rootEntries

LEMMA NoteEffect ==
    ASSUME TypeOK, NEW late, NEW stray, Note(late, stray)
    PROVE  /\ lateBarrier' <=> lateBarrier \/ late
           /\ strayThread' <=> strayThread \/ stray
           /\ breached' <=> breached \/ late \/ stray
           /\ lateBarrier' \in BOOLEAN /\ strayThread' \in BOOLEAN /\ breached' \in BOOLEAN
  BY DEF Note, TypeOK

LEMMA OperateEffect ==
    ASSUME TypeOK, NEW t \in Thread, NEW roots \in SUBSET Ref, NEW obj \in Ref,
           Operate(t, roots, obj)
    PROVE  /\ t \in threads /\ thread[t].pc = "idle" /\ gcPhase = "idle"
           /\ OnlyThread(t) /\ thread'[t].rootEntries = roots /\ SameBuffer(t)
           /\ obj = NULL => /\ thread'[t].pc = "idle" /\ thread'[t].obj = thread[t].obj
                            /\ UNCHANGED lockVars
           /\ obj # NULL => /\ thread'[t].pc = "load" /\ thread'[t].obj = obj
                            /\ t \notin holders /\ holders' = holders \union {t}
                            /\ UNCHANGED gcPhase
           /\ lateBarrier' <=> lateBarrier \/ (obj # NULL /\ AfterMarking)
           /\ strayThread' <=> strayThread
           /\ breached' <=> breached \/ (obj # NULL /\ AfterMarking)
           /\ lateBarrier' \in BOOLEAN /\ strayThread' \in BOOLEAN /\ breached' \in BOOLEAN
           /\ UNCHANGED <<threads, needRemarkQueue, gcVars, snapshotField, fault>>
<1>1. thread \in [Thread -> StructThread]
  BY DEF TypeOK
<1>n. /\ lateBarrier' <=> lateBarrier \/ (obj # NULL /\ AfterMarking)
      /\ strayThread' <=> strayThread
      /\ breached' <=> breached \/ (obj # NULL /\ AfterMarking)
      /\ lateBarrier' \in BOOLEAN /\ strayThread' \in BOOLEAN /\ breached' \in BOOLEAN
  <2>1. Note(obj # NULL /\ AfterMarking, FALSE)
    BY DEF Operate
  <2> QED
    BY <2>1, NoteEffect
<1>2. CASE obj = NULL
  <2>1. thread' = [thread EXCEPT ![t].rootEntries = roots]
    BY <1>2 DEF Operate
  <2>2. /\ OnlyThread(t) /\ thread'[t].rootEntries = roots /\ SameBuffer(t)
        /\ thread'[t].pc = thread[t].pc /\ thread'[t].obj = thread[t].obj
    BY <1>1, <2>1 DEF OnlyThread, SameBuffer, StructThread
  <2> QED
    BY <1>2, <1>n, <2>2 DEF Operate
<1>3. CASE obj # NULL
  <2>1. thread' = [thread EXCEPT ![t].rootEntries = roots, ![t].pc = "load", ![t].obj = obj]
    BY <1>3 DEF Operate
  <2>2. /\ OnlyThread(t) /\ thread'[t].rootEntries = roots /\ SameBuffer(t)
        /\ thread'[t].pc = "load" /\ thread'[t].obj = obj
    BY <1>1, <2>1, ZenonT(60) DEF OnlyThread, SameBuffer, StructThread, ThreadPcs, InBarrier
  <2> QED
    BY <1>3, <1>n, <2>2 DEF Operate, Lock!Block
<1> QED
  BY <1>2, <1>3

LEMMA FieldOf ==
    ASSUME TypeOK, NEW o \in Obj, NEW s \in Mark!Slots(o) PROVE field[o][s] \in Ref
  BY DEF TypeOK, Mark!Fields, Mark!Ref, Ref

LEMMA BeginOperates ==
    ASSUME TypeOK, NEW t \in Thread,
           \/ \E block \in Held(t) : \E slot \in Mark!Slots(block) :
                \/ ReadRef(t, block, slot)
                \/ \E newBlock \in thread[t].rootEntries \union {NULL} :
                      WriteRef(t, block, slot, newBlock)
           \/ \E root \in thread[t].rootEntries : Unref(t, root)
           \/ \E u \in threads : \E obj \in thread[u].rootEntries : NewRoot(t, obj)
    PROVE  \E roots \in SUBSET Ref, obj \in Ref : Operates(t, roots, obj)
<1>0. /\ \A u \in Thread : thread[u].rootEntries \in SUBSET Ref
      /\ threads \subseteq Thread /\ field \in Mark!Fields /\ NULL \in Ref
  BY DEF TypeOK, StructThread, Ref
<1>1. ASSUME NEW block \in Held(t), NEW slot \in Mark!Slots(block), ReadRef(t, block, slot)
      PROVE  \E roots \in SUBSET Ref, obj \in Ref : Operates(t, roots, obj)
  <2> DEFINE roots == thread[t].rootEntries \union {field[block][slot]}
  <2>1. block \in Obj /\ block \in thread[t].rootEntries /\ block \in Ref
    BY DEF Held, Live, Ref
  <2>2. roots \in SUBSET Ref
    BY <1>0, <2>1, FieldOf
  <2>3. \A r \in roots : r \in thread[t].rootEntries \/ Reads(t, r)
    BY DEF Reads
  <2> HIDE DEF roots
  <2>4. Operate(t, roots, block) /\ UNCHANGED blockVars
    BY <1>1 DEF ReadRef, roots
  <2> HIDE DEF Held
  <2>5. t \in threads
    BY <2>4 DEF Operate
  <2>6. Operates(t, roots, block)
    BY <1>0, <2>1, <2>2, <2>3, <2>4, <2>5, OperateEffect DEF Operates
  <2> QED
    BY <2>1, <2>2, <2>6
<1>2. ASSUME NEW block \in Held(t), NEW slot \in Mark!Slots(block),
             NEW newBlock \in thread[t].rootEntries \union {NULL},
             WriteRef(t, block, slot, newBlock)
      PROVE  \E roots \in SUBSET Ref, obj \in Ref : Operates(t, roots, obj)
  <2> DEFINE roots == thread[t].rootEntries
             obj == field[block][slot]
  <2>1. block \in Obj /\ block \in Live /\ hasDesc[block] /\ newBlock \in Ref
    BY <1>0 DEF Held, Live
  <2>2. roots \in SUBSET Ref /\ obj \in Ref /\ Reads(t, obj)
    BY <1>0, <2>1, FieldOf DEF Reads
  <2>3. Operate(t, roots, obj) /\ UNCHANGED <<hasDesc, markBit, status>>
    BY <1>2 DEF WriteRef
  <2>4. field' = [field EXCEPT ![block][slot] = newBlock]
    BY <1>2 DEF WriteRef
  <2>5. field' \in Mark!Fields
    <3>1. \A o \in Obj : field[o] \in [Mark!Slots(o) -> Mark!Ref]
      BY <1>0 DEF Mark!Fields
    <3>2. \A o \in Obj : field'[o] \in [Mark!Slots(o) -> Mark!Ref]
      BY <1>0, <2>1, <2>4, <3>1 DEF Mark!Fields, Ref, Mark!Ref
    <3>3. field' \in [Obj -> UNION {[Mark!Slots(o) -> Mark!Ref] : o \in Obj}]
      BY <1>0, <2>4, <3>2, ZenonT(60) DEF Mark!Fields
    <3> QED
      BY <3>2, <3>3 DEF Mark!Fields
  <2>6. \A o \in Obj : \A s \in Mark!Slots(o) :
           \/ field'[o][s] = field[o][s]
           \/ o = block /\ s = slot /\ field'[o][s] = newBlock
    BY <1>0, <2>1, <2>4 DEF Mark!Fields, Ref, Mark!Ref
  <2>7. t \in threads
    BY <2>3 DEF Operate
  <2>8. Operates(t, roots, obj)
    <3>1. \A o \in Obj : \A s \in Mark!Slots(o) :
             \/ field'[o][s] = field[o][s]
             \/ /\ o \in Live /\ hasDesc[o] /\ obj = field[o][s]
                /\ field'[o][s] \in thread[t].rootEntries \union {NULL}
                /\ roots = thread[t].rootEntries
      BY <2>1, <2>6
    <3>2. \A r \in roots : \E u \in threads : r \in thread[u].rootEntries
      BY <2>7
    <3> HIDE DEF roots, obj
    <3> QED
      BY <2>2, <2>3, <2>5, <3>1, <3>2, OperateEffect DEF Operates
  <2> QED
    BY <2>2, <2>8
<1>3. ASSUME NEW root \in thread[t].rootEntries, Unref(t, root)
      PROVE  \E roots \in SUBSET Ref, obj \in Ref : Operates(t, roots, obj)
  <2> DEFINE roots == thread[t].rootEntries \ {root}
  <2>1. roots \in SUBSET Ref /\ root \in Ref
    BY <1>0
  <2>2. \A r \in roots : r \in thread[t].rootEntries
    OBVIOUS
  <2>3. Operate(t, roots, root) /\ UNCHANGED blockVars
    BY <1>3 DEF Unref
  <2> HIDE DEF roots
  <2>4. t \in threads
    BY <2>3 DEF Operate
  <2>5. Operates(t, roots, root)
    BY <1>0, <2>1, <2>2, <2>3, <2>4, OperateEffect DEF Operates
  <2> QED
    BY <2>1, <2>5
<1>4. ASSUME NEW u \in threads, NEW obj \in thread[u].rootEntries, NewRoot(t, obj)
      PROVE  \E roots \in SUBSET Ref, o \in Ref : Operates(t, roots, o)
  <2> DEFINE roots == thread[t].rootEntries \union {obj}
  <2>1. roots \in SUBSET Ref
    BY <1>0
  <2>2. \A r \in roots : r \in thread[t].rootEntries \/ r \in thread[u].rootEntries
    OBVIOUS
  <2>3. Operate(t, roots, NULL) /\ UNCHANGED blockVars
    BY <1>4 DEF NewRoot
  <2> HIDE DEF roots
  <2>4. t \in threads
    BY <2>3 DEF Operate
  <2>5. Operates(t, roots, NULL)
    BY <1>0, <2>1, <2>2, <2>3, <2>4, OperateEffect DEF Operates
  <2> QED
    BY <1>0, <2>1, <2>5
<1> QED
  BY <1>1, <1>2, <1>3, <1>4

(* The barrier, step by step. *)
Returned(t) ==
    /\ OnlyThread(t) /\ SameRoots(t)
    /\ thread'[t].pc = IF t \in holders THEN "idle" ELSE "detach"
    /\ thread'[t].obj = NULL /\ thread'[t].usageRead = 0
    /\ holders' = holders \ {t} /\ UNCHANGED gcPhase

GoesOn(t, pc) ==
    /\ OnlyThread(t) /\ SameRoots(t)
    /\ thread'[t].pc = pc /\ thread'[t].obj = thread[t].obj
    /\ UNCHANGED lockVars

SameEntries(t) == thread'[t].localRemarkBuffer = thread[t].localRemarkBuffer
SameUsage(t) == thread'[t].localRemarkBufferUsage = thread[t].localRemarkBufferUsage
SameUsageRead(t) == thread'[t].usageRead = thread[t].usageRead

(* Records with some fields changed *)
LEMMA Updated ==
    ASSUME NEW self \in StructThread, NEW pc \in ThreadPcs, NEW obj \in Ref,
           NEW bit \in BOOLEAN, NEW usageRead \in 0 .. LocalBufferSize - 1,
           NEW buffer \in [0 .. LocalBufferSize - 1 -> Ref],
           NEW usage \in 0 .. LocalBufferSize
    PROVE  /\ [self EXCEPT !.pc = pc, !.obj = obj, !.prevMarkBit = bit,
                           !.usageRead = usageRead] \in StructThread
           /\ [self EXCEPT !.pc = pc] \in StructThread
           /\ [self EXCEPT !.pc = pc, !.prevMarkBit = bit] \in StructThread
           /\ [self EXCEPT !.localRemarkBufferUsage = usage] \in StructThread
           /\ [self EXCEPT !.localRemarkBuffer = buffer,
                           !.localRemarkBufferUsage = usage] \in StructThread
           /\ [self EXCEPT !.localRemarkBuffer = buffer, !.usageRead = usageRead,
                           !.pc = pc] \in StructThread
<1> DEFINE P == ThreadPcs
           I == 0 .. LocalBufferSize - 1
           B == [0 .. LocalBufferSize - 1 -> Ref]
           U == 0 .. LocalBufferSize
           R == SUBSET Ref
<1>1. /\ self \in [pc : P, obj : Ref, rootEntries : R, prevMarkBit : BOOLEAN, usageRead : I,
                   localRemarkBuffer : B, localRemarkBufferUsage : U]
      /\ StructThread = [pc : P, obj : Ref, rootEntries : R, prevMarkBit : BOOLEAN, usageRead : I,
                   localRemarkBuffer : B, localRemarkBufferUsage : U]
      /\ pc \in P /\ usageRead \in I /\ buffer \in B /\ usage \in U
  BY DEF StructThread
<1> HIDE DEF P, I, B, U, R
<1> QED
  BY <1>1

LEMMA ReturnEffect ==
    ASSUME TypeOK, NEW t \in Thread, NEW self \in StructThread, Return(t, self)
    PROVE  /\ OnlyThread(t)
           /\ thread'[t].pc = IF t \in holders THEN "idle" ELSE "detach"
           /\ thread'[t].obj = NULL /\ thread'[t].usageRead = 0
           /\ thread'[t].rootEntries = self.rootEntries
           /\ thread'[t].localRemarkBuffer = self.localRemarkBuffer
           /\ thread'[t].localRemarkBufferUsage = self.localRemarkBufferUsage
           /\ holders' = holders \ {t} /\ UNCHANGED gcPhase
<1> DEFINE r == [self EXCEPT !.pc = IF t \in holders THEN "idle" ELSE "detach",
                             !.obj = NULL, !.prevMarkBit = FALSE, !.usageRead = 0]
<1>1. thread' = [thread EXCEPT ![t] = r]
  BY DEF Return
<1>2. IF t \in holders THEN Lock!Unblock(t) ELSE UNCHANGED lockVars
  BY DEF Return
<1>t. r \in StructThread
  <2> DEFINE pc == IF t \in holders THEN "idle" ELSE "detach"
  <2>1. /\ pc \in ThreadPcs /\ NULL \in Ref /\ 0 \in 0 .. LocalBufferSize - 1
        /\ self.localRemarkBuffer \in [0 .. LocalBufferSize - 1 -> Ref]
        /\ self.localRemarkBufferUsage \in 0 .. LocalBufferSize
    BY CollectorAssumption DEF ThreadPcs, Ref, StructThread
  <2> HIDE DEF pc
  <2>2. [self EXCEPT !.pc = pc, !.obj = NULL, !.prevMarkBit = FALSE, !.usageRead = 0]
            \in StructThread
    BY <2>1, Updated
  <2> QED
    BY <2>2 DEF pc
<1>3. /\ r \in StructThread
      /\ r.pc = IF t \in holders THEN "idle" ELSE "detach"
      /\ r.obj = NULL /\ r.usageRead = 0
      /\ r.rootEntries = self.rootEntries
      /\ r.localRemarkBuffer = self.localRemarkBuffer
      /\ r.localRemarkBufferUsage = self.localRemarkBufferUsage
  BY <1>t DEF StructThread
<1> HIDE DEF r
<1>4. OnlyThread(t) /\ thread'[t] = r
  BY <1>1, <1>3 DEF TypeOK, OnlyThread
<1>5. holders' = holders \ {t} /\ UNCHANGED gcPhase
  BY <1>2 DEF Lock!Unblock
<1> QED
  BY <1>3, <1>4, <1>5

LEMMA MovesOn ==
    ASSUME TypeOK, NEW t \in Thread, NEW pc \in ThreadPcs,
           thread' = [thread EXCEPT ![t].pc = pc], UNCHANGED lockVars
    PROVE  GoesOn(t, pc) /\ SameEntries(t) /\ SameUsage(t) /\ SameUsageRead(t)
<1> DEFINE r == [thread[t] EXCEPT !.pc = pc]
<1>1. thread[t] \in StructThread /\ thread \in [Thread -> StructThread]
  BY SMTT(60) DEF TypeOK
<1>2. r \in StructThread
  <2>1. /\ thread[t].obj \in Ref
        /\ thread[t].usageRead \in 0 .. LocalBufferSize - 1
        /\ thread[t].localRemarkBuffer \in [0 .. LocalBufferSize - 1 -> Ref]
        /\ thread[t].localRemarkBufferUsage \in 0 .. LocalBufferSize
    BY <1>1 DEF StructThread
  <2> QED
    BY <1>1, <2>1, Updated
<1>3. /\ r.pc = pc /\ r.obj = thread[t].obj /\ r.usageRead = thread[t].usageRead
      /\ r.rootEntries = thread[t].rootEntries
      /\ r.localRemarkBuffer = thread[t].localRemarkBuffer
      /\ r.localRemarkBufferUsage = thread[t].localRemarkBufferUsage
  BY <1>1 DEF StructThread
<1>4. thread' = [thread EXCEPT ![t] = r]
  BY <1>1
<1> HIDE DEF r
<1>5. OnlyThread(t) /\ thread'[t] = r
  BY <1>1, <1>2, <1>4 DEF OnlyThread
<1> QED
  BY <1>3, <1>5 DEF GoesOn, SameRoots, SameEntries, SameUsage, SameUsageRead

LEMMA MovesOnWith ==
    ASSUME TypeOK, NEW t \in Thread, NEW pc \in ThreadPcs, NEW bit \in BOOLEAN,
           thread' = [thread EXCEPT ![t].pc = pc, ![t].prevMarkBit = bit], UNCHANGED lockVars
    PROVE  /\ GoesOn(t, pc) /\ SameEntries(t) /\ SameUsage(t) /\ SameUsageRead(t)
           /\ thread'[t].prevMarkBit = bit
<1> DEFINE r == [thread[t] EXCEPT !.pc = pc, !.prevMarkBit = bit]
<1>1. thread[t] \in StructThread /\ thread \in [Thread -> StructThread]
  BY SMTT(60) DEF TypeOK
<1>2. r \in StructThread
  <2>1. /\ thread[t].obj \in Ref
        /\ thread[t].usageRead \in 0 .. LocalBufferSize - 1
        /\ thread[t].localRemarkBuffer \in [0 .. LocalBufferSize - 1 -> Ref]
        /\ thread[t].localRemarkBufferUsage \in 0 .. LocalBufferSize
    BY <1>1 DEF StructThread
  <2> QED
    BY <1>1, <2>1, Updated
<1>3. /\ r.pc = pc /\ r.prevMarkBit = bit /\ r.obj = thread[t].obj /\ r.usageRead = thread[t].usageRead
      /\ r.rootEntries = thread[t].rootEntries
      /\ r.localRemarkBuffer = thread[t].localRemarkBuffer
      /\ r.localRemarkBufferUsage = thread[t].localRemarkBufferUsage
  BY <1>1 DEF StructThread
<1>4. thread' = [thread EXCEPT ![t] = r]
  BY <1>1
<1> HIDE DEF r
<1>5. OnlyThread(t) /\ thread'[t] = r
  BY <1>1, <1>2, <1>4 DEF OnlyThread
<1> QED
  BY <1>3, <1>5 DEF GoesOn, SameRoots, SameEntries, SameUsage, SameUsageRead

LEMMA LoadEffect ==
    ASSUME TypeOK, NEW t \in Thread, LoadMarkingInProgress(t)
    PROVE  /\ thread[t].pc = "load" /\ thread[t].obj \in Live
           /\ SameEntries(t) /\ SameUsage(t)
           /\ markingInProgress => GoesOn(t, "exchange") /\ SameUsageRead(t)
           /\ ~markingInProgress => Returned(t)
           /\ UNCHANGED <<blockVars, needRemarkQueue, noteVars>>
<1>1. thread[t] \in StructThread
  BY DEF TypeOK
<1>2. CASE markingInProgress
  <2>1. thread' = [thread EXCEPT ![t].pc = "exchange"] /\ UNCHANGED lockVars
    BY <1>2 DEF LoadMarkingInProgress
  <2>2. "exchange" \in ThreadPcs
    BY DEF ThreadPcs, InBarrier
  <2> QED
    BY <1>2, <2>1, <2>2, MovesOn DEF LoadMarkingInProgress
<1>3. CASE ~markingInProgress
  <2>1. Return(t, thread[t])
    BY <1>3 DEF LoadMarkingInProgress
  <2>2. Returned(t) /\ SameEntries(t) /\ SameUsage(t)
    BY <1>1, <2>1, ReturnEffect DEF Returned, SameRoots, SameEntries, SameUsage
  <2> QED
    BY <1>3, <2>2 DEF LoadMarkingInProgress
<1> QED
  BY <1>2, <1>3

LEMMA ExchangeEffect ==
    ASSUME TypeOK, NEW t \in Thread, ExchangeMarkBit(t)
    PROVE  /\ thread[t].pc = "exchange" /\ thread[t].obj \in Live
           /\ SameEntries(t) /\ SameUsage(t)
           /\ t \notin holders => /\ GoesOn(t, "compare") /\ SameUsageRead(t)
                                  /\ thread'[t].prevMarkBit = markBit[thread[t].obj]
           /\ t \in holders /\ ~Mark!Marked(thread[t].obj) =>
                 GoesOn(t, "push") /\ SameUsageRead(t)
           /\ t \in holders /\ Mark!Marked(thread[t].obj) => Returned(t)
           /\ markBit' \in [Obj -> BOOLEAN]
           /\ \A o \in Obj : markBit'[o] = IF o = thread[t].obj THEN GCMarkedBitValue
                                                               ELSE markBit[o]
           /\ lateBarrier' <=> lateBarrier
           /\ strayThread' <=> strayThread \/ (t \notin threads /\ ~Mark!Marked(thread[t].obj))
           /\ breached' <=> breached \/ (t \notin threads /\ ~Mark!Marked(thread[t].obj))
           /\ lateBarrier' \in BOOLEAN /\ strayThread' \in BOOLEAN /\ breached' \in BOOLEAN
           /\ UNCHANGED <<field, hasDesc, status, needRemarkQueue>>
<1>1. thread[t] \in StructThread
  BY DEF TypeOK
<1>2. /\ thread[t].pc = "exchange" /\ thread[t].obj \in Live
      /\ UNCHANGED <<field, hasDesc, status, needRemarkQueue>>
      /\ Note(FALSE, t \notin threads /\ ~Mark!Marked(thread[t].obj))
      /\ markBit' = [markBit EXCEPT ![thread[t].obj] = GCMarkedBitValue]
  BY DEF ExchangeMarkBit
<1>3. /\ markBit' \in [Obj -> BOOLEAN]
      /\ \A o \in Obj : markBit'[o] = IF o = thread[t].obj THEN GCMarkedBitValue
                                                          ELSE markBit[o]
  BY <1>2 DEF TypeOK, Live
<1>4. /\ lateBarrier' <=> lateBarrier
      /\ strayThread' <=> strayThread \/ (t \notin threads /\ ~Mark!Marked(thread[t].obj))
      /\ breached' <=> breached \/ (t \notin threads /\ ~Mark!Marked(thread[t].obj))
      /\ lateBarrier' \in BOOLEAN /\ strayThread' \in BOOLEAN /\ breached' \in BOOLEAN
  BY <1>2, NoteEffect
<1>5. /\ SameEntries(t) /\ SameUsage(t)
      /\ t \notin holders => /\ GoesOn(t, "compare") /\ SameUsageRead(t)
                             /\ thread'[t].prevMarkBit = markBit[thread[t].obj]
      /\ t \in holders /\ ~Mark!Marked(thread[t].obj) => GoesOn(t, "push") /\ SameUsageRead(t)
      /\ t \in holders /\ Mark!Marked(thread[t].obj) => Returned(t)
  <2>1. CASE t \notin holders
    <3>1. /\ thread' = [thread EXCEPT ![t].pc = "compare",
                                      ![t].prevMarkBit = markBit[thread[t].obj]]
          /\ UNCHANGED lockVars
      BY <2>1 DEF ExchangeMarkBit
    <3>2. "compare" \in ThreadPcs /\ markBit[thread[t].obj] \in BOOLEAN
      BY <1>2 DEF ThreadPcs, InBarrier, TypeOK, Live
    <3> QED
      BY <2>1, <3>1, <3>2, MovesOnWith
  <2>2. CASE t \in holders /\ ~Mark!Marked(thread[t].obj)
    <3>1. thread' = [thread EXCEPT ![t].pc = "push"] /\ UNCHANGED lockVars
      BY <2>2 DEF ExchangeMarkBit
    <3>2. "push" \in ThreadPcs
      BY DEF ThreadPcs, InBarrier
    <3> QED
      BY <2>2, <3>1, <3>2, MovesOn
  <2>3. CASE t \in holders /\ Mark!Marked(thread[t].obj)
    <3>1. Return(t, thread[t])
      BY <2>3 DEF ExchangeMarkBit
    <3> QED
      BY <1>1, <2>3, <3>1, ReturnEffect DEF Returned, SameRoots, SameEntries, SameUsage
  <2> QED
    BY <2>1, <2>2, <2>3
<1> QED
  BY <1>2, <1>3, <1>4, <1>5

LEMMA CompareEffect ==
    ASSUME TypeOK, NEW t \in Thread, CompareMarkBit(t)
    PROVE  /\ thread[t].pc = "compare"
           /\ SameEntries(t) /\ SameUsage(t)
           /\ \/ /\ thread[t].prevMarkBit # GCMarkedBitValue
                 /\ GoesOn(t, "push") /\ SameUsageRead(t)
              \/ Returned(t)
           /\ UNCHANGED <<blockVars, needRemarkQueue, noteVars>>
<1>1. thread[t] \in StructThread
  BY DEF TypeOK
<1>2. CASE thread[t].prevMarkBit = GCMarkedBitValue
  <2>1. Return(t, thread[t])
    BY <1>2 DEF CompareMarkBit
  <2>2. Returned(t) /\ SameEntries(t) /\ SameUsage(t)
    BY <1>1, <2>1, ReturnEffect DEF Returned, SameRoots, SameEntries, SameUsage
  <2> QED
    BY <2>2 DEF CompareMarkBit
<1>3. CASE thread[t].prevMarkBit # GCMarkedBitValue
  <2>1. /\ thread' = [thread EXCEPT ![t].pc = "push", ![t].prevMarkBit = FALSE]
        /\ UNCHANGED lockVars
    BY <1>3 DEF CompareMarkBit
  <2>2. "push" \in ThreadPcs /\ FALSE \in BOOLEAN
    BY DEF ThreadPcs, InBarrier
  <2>3. GoesOn(t, "push") /\ SameEntries(t) /\ SameUsage(t) /\ SameUsageRead(t)
    BY <2>1, <2>2, MovesOnWith
  <2> QED
    BY <1>3, <2>3 DEF CompareMarkBit
<1> QED
  BY <1>2, <1>3

LEMMA PushEffect ==
    ASSUME TypeOK, NEW t \in Thread, ThreadOK(t), Push(t)
    PROVE  /\ thread[t].pc = "push" /\ thread[t].obj \in Live
           /\ GoesOn(t, "bump") /\ SameUsage(t)
           /\ thread[t].localRemarkBufferUsage \in 0 .. LocalBufferSize - 1
           /\ thread'[t].usageRead = thread[t].localRemarkBufferUsage
           /\ \A i \in 0 .. LocalBufferSize - 1 :
                 thread'[t].localRemarkBuffer[i] =
                     IF i = thread[t].localRemarkBufferUsage
                     THEN thread[t].obj ELSE thread[t].localRemarkBuffer[i]
           /\ UNCHANGED <<blockVars, needRemarkQueue, noteVars>>
<1> DEFINE usage == thread[t].localRemarkBufferUsage
           buffer == thread[t].localRemarkBuffer
<1>1. /\ thread[t] \in StructThread /\ thread \in [Thread -> StructThread]
      /\ buffer \in [0 .. LocalBufferSize - 1 -> Ref]
  BY DEF TypeOK, StructThread
<1>2. thread[t].pc = "push" /\ usage \in 0 .. LocalBufferSize - 1
  BY <1>1, CollectorAssumption DEF Push, ThreadOK, StructThread
<1>3. thread' = [thread EXCEPT ![t].localRemarkBuffer[usage] = thread[t].obj,
                               ![t].usageRead = usage, ![t].pc = "bump"]
  BY DEF Push
<1>4. thread[t].obj \in Ref
  BY <1>1 DEF StructThread
<1> DEFINE after == [buffer EXCEPT ![usage] = thread[t].obj]
<1>5. /\ after \in [0 .. LocalBufferSize - 1 -> Ref]
      /\ \A i \in 0 .. LocalBufferSize - 1 :
            after[i] = IF i = usage THEN thread[t].obj ELSE buffer[i]
  BY <1>1, <1>2, <1>4
<1>6. /\ thread'[t] = [thread[t] EXCEPT !.localRemarkBuffer = after,
                                       !.usageRead = usage, !.pc = "bump"]
      /\ \A u \in Thread : u # t => thread'[u] = thread[u]
      /\ thread' = [thread EXCEPT ![t] = thread'[t]]
  BY <1>1, <1>3
<1> HIDE DEF after, usage, buffer
<1>7. /\ thread'[t] \in StructThread /\ thread'[t].pc = "bump"
      /\ thread'[t].localRemarkBuffer = after /\ thread'[t].usageRead = usage
      /\ thread'[t].obj = thread[t].obj /\ SameRoots(t) /\ SameUsage(t)
  BY <1>1, <1>2, <1>5, <1>6, ZenonT(60) DEF StructThread, ThreadPcs, InBarrier, SameRoots, SameUsage
<1>8. OnlyThread(t)
  BY <1>1, <1>6, <1>7 DEF OnlyThread
<1>9. /\ UNCHANGED <<blockVars, needRemarkQueue, noteVars, lockVars>>
      /\ thread[t].obj \in Live
  BY DEF Push
<1> QED
  BY <1>2, <1>5, <1>7, <1>8, <1>9 DEF GoesOn, usage, buffer

LEMMA BumpEffect ==
    ASSUME TypeOK, NEW t \in Thread, Bump(t)
    PROVE  /\ thread[t].pc = "bump"
           /\ SameEntries(t)
           /\ thread'[t].localRemarkBufferUsage = thread[t].usageRead + 1
           /\ thread[t].usageRead + 1 = LocalBufferSize => GoesOn(t, "flush") /\ SameUsageRead(t)
           /\ thread[t].usageRead + 1 # LocalBufferSize => Returned(t)
           /\ UNCHANGED <<blockVars, needRemarkQueue, noteVars>>
<1> DEFINE self == [thread[t] EXCEPT !.localRemarkBufferUsage = thread[t].usageRead + 1]
           full == [self EXCEPT !.pc = "flush"]
<1>1. thread[t] \in StructThread /\ thread \in [Thread -> StructThread]
  BY DEF TypeOK
<1>u. /\ thread[t].usageRead + 1 \in 0 .. LocalBufferSize
      /\ thread[t].usageRead \in 0 .. LocalBufferSize - 1
      /\ thread[t].pc \in ThreadPcs /\ thread[t].obj \in Ref
      /\ thread[t].localRemarkBuffer \in [0 .. LocalBufferSize - 1 -> Ref]
  BY <1>1, CollectorAssumption, SMTT(60) DEF StructThread
<1>s. self \in StructThread
  BY <1>1, <1>u, Updated
<1>2. /\ self \in StructThread /\ self.localRemarkBufferUsage = thread[t].usageRead + 1
      /\ self.rootEntries = thread[t].rootEntries /\ self.obj = thread[t].obj
      /\ self.localRemarkBuffer = thread[t].localRemarkBuffer
      /\ self.usageRead = thread[t].usageRead
  BY <1>1, <1>s DEF StructThread
<1>3. /\ thread[t].pc = "bump"
      /\ IF self.localRemarkBufferUsage = LocalBufferSize
         THEN thread' = [thread EXCEPT ![t] = full] /\ UNCHANGED lockVars
         ELSE Return(t, self)
      /\ UNCHANGED <<blockVars, needRemarkQueue, noteVars>>
  BY Zenon DEF Bump
<1> HIDE DEF self
<1>4. /\ full \in StructThread /\ full.pc = "flush" /\ full.obj = self.obj
      /\ full.localRemarkBufferUsage = self.localRemarkBufferUsage
      /\ full.rootEntries = self.rootEntries
      /\ full.localRemarkBuffer = self.localRemarkBuffer
      /\ full.usageRead = self.usageRead
  BY <1>2 DEF StructThread, ThreadPcs, InBarrier
<1> HIDE DEF full
<1>5. CASE thread[t].usageRead + 1 = LocalBufferSize
  <2>1. thread' = [thread EXCEPT ![t] = full] /\ UNCHANGED lockVars
    BY <1>2, <1>3, <1>5
  <2>2. OnlyThread(t) /\ thread'[t] = full
    BY <1>1, <1>4, <2>1 DEF OnlyThread
  <2> QED
    BY <1>2, <1>3, <1>4, <1>5, <2>1, <2>2
       DEF GoesOn, SameRoots, SameEntries, SameUsageRead
<1>6. CASE thread[t].usageRead + 1 # LocalBufferSize
  <2>1. Return(t, self)
    BY <1>2, <1>3, <1>6
  <2>2. /\ Returned(t) /\ SameEntries(t)
        /\ thread'[t].localRemarkBufferUsage = thread[t].usageRead + 1
    BY <1>2, <2>1, ReturnEffect DEF Returned, SameRoots, SameEntries
  <2> QED
    BY <1>3, <1>6, <2>2
<1> QED
  BY <1>5, <1>6

LEMMA FlushEffect ==
    ASSUME TypeOK, NEW t \in Thread, Flush(t)
    PROVE  /\ thread[t].pc = "flush"
           /\ Returned(t) /\ thread'[t].localRemarkBufferUsage = 0
           /\ needRemarkQueue' = needRemarkQueue \o Entries(t, LocalBufferSize)
           /\ UNCHANGED <<blockVars, noteVars>>
<1> DEFINE self == [thread[t] EXCEPT !.localRemarkBuffer = EmptyBuffer,
                                     !.localRemarkBufferUsage = 0]
<1>1. thread[t] \in StructThread
  BY DEF TypeOK
<1>2. EmptyBuffer \in [0 .. LocalBufferSize - 1 -> Ref]
  BY DEF EmptyBuffer, Ref
<1>u. /\ 0 \in 0 .. LocalBufferSize
      /\ thread[t].usageRead \in 0 .. LocalBufferSize - 1
      /\ thread[t].pc \in ThreadPcs /\ thread[t].obj \in Ref
  BY <1>1, CollectorAssumption, SMTT(60) DEF StructThread
<1>s. self \in StructThread
  BY <1>1, <1>2, <1>u, Updated
<1>3. /\ self \in StructThread /\ self.localRemarkBufferUsage = 0
      /\ self.rootEntries = thread[t].rootEntries
  BY <1>1, <1>s DEF StructThread
<1>4. /\ thread[t].pc = "flush"
      /\ needRemarkQueue' = needRemarkQueue \o Entries(t, LocalBufferSize)
      /\ Return(t, self)
      /\ UNCHANGED <<blockVars, noteVars>>
  BY Zenon DEF Flush
<1> HIDE DEF self
<1>5. Returned(t) /\ thread'[t].localRemarkBufferUsage = 0
  BY <1>3, <1>4, ReturnEffect DEF Returned, SameRoots
<1> QED
  BY <1>4, <1>5

(* The other operations. *)
Allocated(t, obj, pc) ==
    /\ t \in threads /\ thread[t].pc = "idle" /\ gcPhase = "idle"
    /\ OnlyThread(t) /\ SameBuffer(t)
    /\ thread'[t].rootEntries = thread[t].rootEntries \union {obj}
    /\ thread'[t].pc = pc /\ thread'[t].obj = IF pc = "init" THEN obj ELSE NULL
    /\ pc \in {"idle", "init"} /\ (pc = "idle" <=> Mark!Slots(obj) = {})
    /\ status[obj] = "none"
    /\ status' \in [Obj -> {"none", "live", "freed"}]
    /\ \A o \in Obj : status'[o] = IF o = obj THEN "live" ELSE status[o]
    /\ markBit' \in [Obj -> BOOLEAN]
    /\ \A o \in Obj : markBit'[o] = IF o = obj THEN ~mutatorMarkedBitValue ELSE markBit[o]
    /\ UNCHANGED <<field, hasDesc, threads, needRemarkQueue, lockVars, gcVars,
                   historyVars, fault>>

LEMMA AllocEffect ==
    ASSUME TypeOK, NEW t \in Thread, NEW obj \in Obj, Alloc(t, obj)
    PROVE  \E pc : Allocated(t, obj, pc)
<1> DEFINE pc == IF Mark!Slots(obj) = {} THEN "idle" ELSE "init"
           o == IF Mark!Slots(obj) = {} THEN NULL ELSE obj
           r == [thread[t] EXCEPT !.rootEntries = @ \union {obj}, !.obj = o, !.pc = pc]
<1>1. thread \in [Thread -> StructThread] /\ thread[t] \in StructThread
  BY DEF TypeOK
<1>2. thread' = [thread EXCEPT ![t] = r]
  BY <1>1 DEF Alloc
<1>3. /\ r \in StructThread /\ r.pc = pc /\ r.obj = o
      /\ r.rootEntries = thread[t].rootEntries \union {obj}
      /\ r.usageRead = thread[t].usageRead
      /\ r.localRemarkBuffer = thread[t].localRemarkBuffer
      /\ r.localRemarkBufferUsage = thread[t].localRemarkBufferUsage
  <2>1. pc \in ThreadPcs /\ o \in Ref /\ thread[t].rootEntries \union {obj} \in SUBSET Ref
    BY <1>1 DEF ThreadPcs, Ref, StructThread
  <2> HIDE DEF pc, o
  <2> QED
    BY <1>1, <2>1 DEF StructThread
<1> HIDE DEF r
<1>4. OnlyThread(t) /\ thread'[t] = r
  BY <1>1, <1>2, <1>3 DEF OnlyThread
<1>5. /\ pc \in {"idle", "init"} /\ (pc = "idle" <=> Mark!Slots(obj) = {})
      /\ o = IF pc = "init" THEN obj ELSE NULL
  OBVIOUS
<1>6. /\ status' \in [Obj -> {"none", "live", "freed"}]
      /\ \A p \in Obj : status'[p] = IF p = obj THEN "live" ELSE status[p]
  BY DEF Alloc, TypeOK
<1>7. /\ markBit' \in [Obj -> BOOLEAN]
      /\ \A p \in Obj : markBit'[p] = IF p = obj THEN ~mutatorMarkedBitValue ELSE markBit[p]
  BY DEF Alloc, TypeOK
<1>8. /\ t \in threads /\ thread[t].pc = "idle" /\ gcPhase = "idle" /\ status[obj] = "none"
      /\ UNCHANGED <<field, hasDesc, threads, needRemarkQueue, lockVars, gcVars,
                     historyVars, fault>>
  BY DEF Alloc
<1> HIDE DEF pc, o
<1>9. Allocated(t, obj, pc)
  BY <1>3, <1>4, <1>5, <1>6, <1>7, <1>8 DEF Allocated, SameBuffer
<1> QED
  BY <1>9

FieldsWritten(t, obj) ==
    /\ thread[t].pc = "init" /\ obj = thread[t].obj
    /\ GoesOn(t, "publish") /\ SameBuffer(t)
    /\ field' \in Mark!Fields
    /\ \A o \in Obj : \A s \in Mark!Slots(o) :
          field'[o][s] = IF o = obj THEN NULL ELSE field[o][s]
    /\ UNCHANGED <<hasDesc, markBit, status, threads, needRemarkQueue, gcVars,
                   historyVars, fault>>

Published(t, obj) ==
    /\ thread[t].pc = "publish" /\ obj = thread[t].obj
    /\ OnlyThread(t) /\ SameBuffer(t) /\ SameRoots(t)
    /\ thread'[t].pc = "idle" /\ thread'[t].obj = NULL
    /\ hasDesc' \in [Obj -> BOOLEAN]
    /\ \A o \in Obj : hasDesc'[o] <=> o = obj \/ hasDesc[o]
    /\ UNCHANGED <<field, markBit, status, threads, needRemarkQueue, lockVars, gcVars,
                   historyVars, fault>>

(* Fields cleared *)
LEMMA FieldsCleared ==
    ASSUME TypeOK, NEW obj \in Obj, field' = [field EXCEPT ![obj] = NoFields[obj]]
    PROVE  /\ field' \in Mark!Fields
           /\ \A o \in Obj : \A s \in Mark!Slots(o) :
                 field'[o][s] = IF o = obj THEN NULL ELSE field[o][s]
<1>1. /\ field \in [Obj -> UNION {[Mark!Slots(o) -> Mark!Ref] : o \in Obj}]
      /\ \A o \in Obj : field[o] \in [Mark!Slots(o) -> Mark!Ref]
  BY DEF TypeOK, Mark!Fields
<1>2. /\ NoFields[obj] \in [Mark!Slots(obj) -> Mark!Ref]
      /\ \A s \in Mark!Slots(obj) : NoFields[obj][s] = NULL
  BY DEF NoFields, Mark!Ref
<1> HIDE DEF NoFields
<1>3. \A o \in Obj : field'[o] = IF o = obj THEN NoFields[obj] ELSE field[o]
  BY <1>1
<1>4. field' \in [Obj -> UNION {[Mark!Slots(o) -> Mark!Ref] : o \in Obj}]
  BY <1>1, <1>2
<1>5. \A o \in Obj : field'[o] \in [Mark!Slots(o) -> Mark!Ref]
  BY <1>1, <1>2, <1>3
<1> QED
  BY <1>1, <1>2, <1>3, <1>4, <1>5 DEF Mark!Fields

LEMMA InitEffect ==
    ASSUME TypeOK, NEW t \in Thread, ThreadOK(t), InitFields(t)
    PROVE  thread[t].obj \in Obj /\ FieldsWritten(t, thread[t].obj)
<1> DEFINE obj == thread[t].obj
<1>1. thread[t].pc = "init" /\ obj \in Obj
  BY DEF InitFields, ThreadOK, Making
<1>2. /\ thread' = [thread EXCEPT ![t].pc = "publish"]
      /\ field' = [field EXCEPT ![obj] = NoFields[obj]]
      /\ UNCHANGED <<hasDesc, markBit, status, threads, needRemarkQueue, lockVars, gcVars,
                     historyVars, fault>>
  BY DEF InitFields
<1>3. GoesOn(t, "publish") /\ SameBuffer(t)
  <2>1. "publish" \in ThreadPcs
    BY DEF ThreadPcs
  <2> QED
    BY <1>2, <2>1, MovesOn DEF SameBuffer, SameEntries, SameUsage, SameUsageRead
<1> HIDE DEF obj
<1>4. /\ field' \in Mark!Fields
      /\ \A o \in Obj : \A s \in Mark!Slots(o) :
            field'[o][s] = IF o = obj THEN NULL ELSE field[o][s]
  BY <1>1, <1>2, FieldsCleared
<1>5. FieldsWritten(t, obj)
  BY <1>1, <1>2, <1>3, <1>4 DEF FieldsWritten, obj
<1> QED
  BY <1>1, <1>5 DEF obj

LEMMA PublishEffect ==
    ASSUME TypeOK, NEW t \in Thread, ThreadOK(t), PublishDesc(t)
    PROVE  thread[t].obj \in Obj /\ Published(t, thread[t].obj)
<1> DEFINE obj == thread[t].obj
           r == [thread[t] EXCEPT !.pc = "idle", !.obj = NULL]
<1>1. thread \in [Thread -> StructThread] /\ thread[t] \in StructThread
  BY DEF TypeOK
<1>2. thread' = [thread EXCEPT ![t] = r]
  BY <1>1 DEF PublishDesc
<1>3. /\ r \in StructThread /\ r.pc = "idle" /\ r.obj = NULL
      /\ r.rootEntries = thread[t].rootEntries
      /\ r.usageRead = thread[t].usageRead
      /\ r.localRemarkBuffer = thread[t].localRemarkBuffer
      /\ r.localRemarkBufferUsage = thread[t].localRemarkBufferUsage
  BY <1>1 DEF ThreadPcs, Ref, StructThread
<1> HIDE DEF r
<1>4. OnlyThread(t) /\ thread'[t] = r
  BY <1>1, <1>2, <1>3 DEF OnlyThread
<1>5. thread[t].pc = "publish" /\ obj \in Obj
  BY DEF PublishDesc, ThreadOK, Making
<1>6. /\ hasDesc' = [hasDesc EXCEPT ![obj] = TRUE]
      /\ UNCHANGED <<field, markBit, status, threads, needRemarkQueue, lockVars, gcVars,
                     historyVars, fault>>
  BY DEF PublishDesc
<1> HIDE DEF obj
<1>7. /\ hasDesc' \in [Obj -> BOOLEAN]
      /\ \A o \in Obj : hasDesc'[o] <=> o = obj \/ hasDesc[o]
  BY <1>5, <1>6 DEF TypeOK
<1>8. Published(t, obj)
  BY <1>3, <1>4, <1>5, <1>6, <1>7 DEF Published, SameBuffer, SameRoots, obj
<1> QED
  BY <1>5, <1>8 DEF obj

(* A thread that has nothing and holds no block *)
Blank(t) ==
    /\ thread'[t].obj = NULL /\ thread'[t].rootEntries = {}
    /\ thread'[t].usageRead = 0 /\ thread'[t].localRemarkBufferUsage = 0

LEMMA NewThreadType ==
    /\ NewThread \in StructThread /\ [NewThread EXCEPT !.pc = "out"] \in StructThread
    /\ NewThread.pc = "idle" /\ [NewThread EXCEPT !.pc = "out"].pc = "out"
    /\ NewThread.obj = NULL /\ NewThread.rootEntries = {}
    /\ NewThread.usageRead = 0 /\ NewThread.localRemarkBufferUsage = 0
    /\ NewThread.localRemarkBuffer = EmptyBuffer
    /\ [NewThread EXCEPT !.pc = "out"].obj = NULL
    /\ [NewThread EXCEPT !.pc = "out"].rootEntries = {}
    /\ [NewThread EXCEPT !.pc = "out"].usageRead = 0
    /\ [NewThread EXCEPT !.pc = "out"].localRemarkBufferUsage = 0
<1>1. /\ EmptyBuffer \in [0 .. LocalBufferSize - 1 -> Ref] /\ NULL \in Ref
      /\ 0 \in 0 .. LocalBufferSize - 1 /\ 0 \in 0 .. LocalBufferSize
      /\ "idle" \in ThreadPcs /\ "out" \in ThreadPcs
  BY CollectorAssumption DEF EmptyBuffer, Ref, ThreadPcs
<1> HIDE DEF EmptyBuffer
<1>2. NewThread \in StructThread
  BY <1>1, SMTT(60) DEF NewThread, StructThread
<1>3. [NewThread EXCEPT !.pc = "out"] \in StructThread
  BY <1>1, <1>2, Updated
<1> QED
  BY <1>2, <1>3 DEF NewThread

LEMMA AttachEffect ==
    ASSUME TypeOK, NEW t \in Thread, AttachThread(t)
    PROVE  /\ thread[t].pc = "out" /\ ThreadListLockFree
           /\ OnlyThread(t) /\ Blank(t) /\ thread'[t].pc = "idle"
           /\ threads' = threads \union {t}
           /\ UNCHANGED <<blockVars, needRemarkQueue, lockVars, gcVars, historyVars, fault>>
<1>1. thread \in [Thread -> StructThread]
  BY DEF TypeOK
<1> QED
  BY <1>1, NewThreadType DEF AttachThread, OnlyThread, Blank

LEMMA DetachEffect ==
    ASSUME TypeOK, NEW t \in Thread, DetachThread(t)
    PROVE  /\ t \in threads /\ thread[t].pc = "idle" /\ ThreadListLockFree
           /\ OnlyThread(t) /\ SameBuffer(t) /\ SameRoots(t)
           /\ thread'[t].pc = "detach" /\ thread'[t].obj = thread[t].obj
           /\ threads' = threads \ {t}
           /\ lateBarrier' <=> lateBarrier
           /\ strayThread' <=> strayThread \/ thread[t].localRemarkBufferUsage > 0
           /\ breached' <=> breached \/ thread[t].localRemarkBufferUsage > 0
           /\ lateBarrier' \in BOOLEAN /\ strayThread' \in BOOLEAN /\ breached' \in BOOLEAN
           /\ UNCHANGED <<blockVars, needRemarkQueue, lockVars, gcVars, snapshotField, fault>>
<1>1. /\ thread' = [thread EXCEPT ![t].pc = "detach"]
      /\ t \in threads /\ thread[t].pc = "idle" /\ ThreadListLockFree
      /\ threads' = threads \ {t}
      /\ UNCHANGED <<blockVars, needRemarkQueue, lockVars, gcVars, snapshotField, fault>>
      /\ Note(FALSE, thread[t].localRemarkBufferUsage > 0)
  BY DEF DetachThread
<1>2. "detach" \in ThreadPcs
  BY DEF ThreadPcs
<1>3. GoesOn(t, "detach") /\ SameEntries(t) /\ SameUsage(t) /\ SameUsageRead(t)
  BY <1>1, <1>2, MovesOn
<1>4. /\ lateBarrier' <=> lateBarrier
      /\ strayThread' <=> strayThread \/ thread[t].localRemarkBufferUsage > 0
      /\ breached' <=> breached \/ thread[t].localRemarkBufferUsage > 0
      /\ lateBarrier' \in BOOLEAN /\ strayThread' \in BOOLEAN /\ breached' \in BOOLEAN
  <2> DEFINE stray == thread[t].localRemarkBufferUsage > 0
  <2>1. Note(FALSE, stray)
    BY <1>1
  <2> HIDE DEF stray
  <2>2. /\ lateBarrier' <=> lateBarrier \/ FALSE
        /\ strayThread' <=> strayThread \/ stray
        /\ breached' <=> breached \/ FALSE \/ stray
        /\ lateBarrier' \in BOOLEAN /\ strayThread' \in BOOLEAN /\ breached' \in BOOLEAN
    BY <2>1, NoteEffect, Zenon
  <2> QED
    BY <2>2 DEF stray
<1> QED
  BY <1>1, <1>3, <1>4 DEF GoesOn, SameEntries, SameUsage, SameUsageRead, SameBuffer

LEMMA DropEffect ==
    ASSUME TypeOK, NEW t \in Thread, NEW root \in thread[t].rootEntries, DropRoot(t, root)
    PROVE  /\ thread[t].pc = "detach" /\ root \in Ref
           /\ OnlyThread(t) /\ SameBuffer(t)
           /\ thread'[t].rootEntries = thread[t].rootEntries \ {root}
           /\ thread'[t].pc = IF root = NULL THEN "detach" ELSE "load"
           /\ thread'[t].obj = root
           /\ lateBarrier' <=> lateBarrier \/ (root # NULL /\ AfterMarking)
           /\ strayThread' <=> strayThread
           /\ breached' <=> breached \/ (root # NULL /\ AfterMarking)
           /\ lateBarrier' \in BOOLEAN /\ strayThread' \in BOOLEAN /\ breached' \in BOOLEAN
           /\ UNCHANGED <<blockVars, threads, needRemarkQueue, lockVars, gcVars,
                          snapshotField, fault>>
<1> DEFINE pc == IF root = NULL THEN "detach" ELSE "load"
           r == [thread[t] EXCEPT !.rootEntries = @ \ {root}, !.obj = root, !.pc = pc]
<1>1. thread \in [Thread -> StructThread] /\ thread[t] \in StructThread
  BY DEF TypeOK
<1>2. thread' = [thread EXCEPT ![t] = r]
  BY <1>1 DEF DropRoot
<1>3. /\ r \in StructThread /\ r.pc = pc /\ r.obj = root /\ root \in Ref
      /\ r.rootEntries = thread[t].rootEntries \ {root}
      /\ r.usageRead = thread[t].usageRead
      /\ r.localRemarkBuffer = thread[t].localRemarkBuffer
      /\ r.localRemarkBufferUsage = thread[t].localRemarkBufferUsage
  <2>1. pc \in ThreadPcs /\ root \in Ref /\ thread[t].rootEntries \ {root} \in SUBSET Ref
    BY <1>1 DEF ThreadPcs, InBarrier, Ref, StructThread
  <2> HIDE DEF pc
  <2> QED
    BY <1>1, <2>1 DEF StructThread
<1> HIDE DEF r
<1>4. OnlyThread(t) /\ thread'[t] = r
  BY <1>1, <1>2, <1>3 DEF OnlyThread
<1>5. /\ thread[t].pc = "detach"
      /\ UNCHANGED <<blockVars, threads, needRemarkQueue, lockVars, gcVars,
                     snapshotField, fault>>
      /\ Note(root # NULL /\ AfterMarking, FALSE)
  BY DEF DropRoot
<1>6. /\ lateBarrier' <=> lateBarrier \/ (root # NULL /\ AfterMarking)
      /\ strayThread' <=> strayThread
      /\ breached' <=> breached \/ (root # NULL /\ AfterMarking)
      /\ lateBarrier' \in BOOLEAN /\ strayThread' \in BOOLEAN /\ breached' \in BOOLEAN
  BY <1>5, NoteEffect
<1> QED
  BY <1>3, <1>4, <1>5, <1>6 DEF SameBuffer

LEMMA FreeEffect ==
    ASSUME TypeOK, NEW t \in Thread, FreeThread(t)
    PROVE  /\ thread[t].pc = "detach" /\ thread[t].rootEntries = {}
           /\ OnlyThread(t) /\ Blank(t) /\ thread'[t].pc = "out"
           /\ UNCHANGED <<blockVars, threads, needRemarkQueue, lockVars, gcVars,
                          historyVars, fault>>
<1> DEFINE r == [NewThread EXCEPT !.pc = "out"]
<1>1. thread \in [Thread -> StructThread]
  BY DEF TypeOK
<1>2. /\ r \in StructThread /\ r.pc = "out" /\ r.obj = NULL /\ r.rootEntries = {}
      /\ r.usageRead = 0 /\ r.localRemarkBufferUsage = 0
  BY NewThreadType
<1>3. thread' = [thread EXCEPT ![t] = r]
  BY DEF FreeThread
<1> HIDE DEF r
<1>4. thread'[t] = r /\ OnlyThread(t)
  BY <1>1, <1>2, <1>3 DEF OnlyThread
<1> QED
  BY <1>2, <1>4 DEF FreeThread, Blank

-----------------------------------------------------------------------------
(* Types, and where threads and the GC thread can be *)
HeapType ==
    /\ field \in Mark!Fields
    /\ hasDesc \in [Obj -> BOOLEAN] /\ markBit \in [Obj -> BOOLEAN]
    /\ status \in [Obj -> {"none", "live", "freed"}]

ThreadType ==
    /\ threads \subseteq Thread
    /\ thread \in [Thread -> StructThread]
    /\ \A t \in Thread :
          thread[t].localRemarkBufferUsage = LocalBufferSize => thread[t].pc = "flush"
    /\ needRemarkQueue \in Seq(Obj)
    /\ holders \subseteq Thread /\ gcPhase \in {"idle", "waiting", "exclusive"}

TracerType ==
    /\ GCMarkedBitValue \in BOOLEAN
    /\ snapshotOfRootSet \subseteq Ref /\ rootsLeft \subseteq snapshotOfRootSet
    /\ premarked \subseteq Obj
    /\ gcMarkQueueUwU \in Seq(Ref) /\ Len(gcMarkQueueUwU) <= MarkQueueCap
    /\ deferredMarkQueue \in Seq(Mark!MarkState) /\ Len(deferredMarkQueue) <= DeferredCap
    /\ markPc \in {"idle", "drain", "scan", "panic"}
    /\ scan \in Mark!ScanState

CycleType ==
    /\ mutatorMarkedBitValue \in BOOLEAN /\ markingInProgress \in BOOLEAN
    /\ gcPc \in {"idle", "enter", "copy", "mark", "drain", "local", "localChunk",
                 "sweep", "finish"}
    /\ totalRootRefs \in Nat /\ cycleID \in 0 .. MaxCycles
    /\ objectsListSnapshot \subseteq Obj /\ toSweep \subseteq objectsListSnapshot
    /\ chunk \in Seq(Obj)
    /\ localLeft \subseteq Thread /\ localThread \in Thread \union {NULL}

HistoryType ==
    /\ snapshotField \in Mark!Fields
    /\ lateBarrier \in BOOLEAN /\ strayThread \in BOOLEAN /\ breached \in BOOLEAN
    /\ fault \in {"none", "useAfterFree", "uninitialised", "nullDeref", "bugOn", "panic"}

LEMMA TypeParts ==
    TypeOK <=> HeapType /\ ThreadType /\ TracerType /\ CycleType /\ HistoryType
  BY Zenon DEF TypeOK, HeapType, ThreadType, TracerType, CycleType, HistoryType, Lock!LockTypeOK

LEMMA TypeParts2 ==
    TypeOK' <=> HeapType' /\ ThreadType' /\ TracerType' /\ CycleType' /\ HistoryType'
  BY Zenon DEF TypeOK, HeapType, ThreadType, TracerType, CycleType, HistoryType, Lock!LockTypeOK

WholeQueue ==
    /\ needRemarkQueue \in Seq(Obj)
    /\ \E n \in Nat : Len(needRemarkQueue) = LocalBufferSize * n

BaseInv == TypeOK /\ ThreadInv /\ PhaseInv /\ ScanInv /\ WholeQueue

(* A step of one thread leaves the others and the GC thread as they were. *)
LEMMA ThreadFrame ==
    ASSUME BaseInv, NEW t \in Thread, OnlyThread(t), UNCHANGED <<gcVars, gcPhase>>,
           holders' \in SUBSET Thread, holders' \ {t} = holders \ {t},
           threads' \in SUBSET Thread, threads' \ {t} = threads \ {t},
           HeapType', HistoryType', WholeQueue', ThreadOK(t)',
           holders' \subseteq holders \/ gcPhase = "idle",
           threads \subseteq threads' \/ ThreadListLockFree
    PROVE  BaseInv'
<1>1. TracerType' /\ CycleType' /\ ScanInv'
  <2>1. TracerType /\ CycleType /\ ScanInv
    BY TypeParts DEF BaseInv
  <2>2. TracerType'
    BY <2>1 DEF TracerType
  <2>3. CycleType'
    BY <2>1 DEF CycleType
  <2>4. ScanInv'
    BY <2>1 DEF ScanInv, Mark!NoScan
  <2> QED
    BY <2>2, <2>3, <2>4
<1>2. ThreadInv'
  <2> SUFFICES ASSUME NEW u \in Thread PROVE ThreadOK(u)'
    BY DEF ThreadInv
  <2>1. CASE u = t
    BY <2>1
  <2>2. CASE u # t
    <3>1. /\ thread'[u] = thread[u] /\ (u \in holders' <=> u \in holders)
          /\ (u \in threads' <=> u \in threads) /\ ThreadOK(u)
      BY <2>2 DEF OnlyThread, BaseInv, ThreadInv
    <3> QED
      BY <3>1 DEF ThreadOK, Filled
  <2> QED
    BY <2>1, <2>2
<1>3. ThreadType'
  <2>1. thread' \in [Thread -> StructThread] /\ \A u \in Thread : ThreadOK(u)'
    BY <1>2 DEF OnlyThread, ThreadInv
  <2>2. gcPhase' \in {"idle", "waiting", "exclusive"}
    BY TypeParts DEF BaseInv, ThreadType
  <2>3. \A u \in Thread :
           thread'[u].localRemarkBufferUsage = LocalBufferSize => thread'[u].pc = "flush"
    BY <2>1 DEF ThreadOK
  <2> QED
    BY <2>1, <2>2, <2>3 DEF ThreadType, BaseInv, WholeQueue
<1>4. PhaseInv'
  <2>1. PhaseInv
    BY DEF BaseInv
  <2>2. gcPc = "copy" => holders' = {}
    BY <2>1 DEF PhaseInv
  <2>3. localLeft \subseteq threads'
    BY <2>1 DEF PhaseInv, ThreadListLockFree
  <2> QED
    BY <2>1, <2>2, <2>3 DEF PhaseInv
<1> QED
  BY <1>1, <1>2, <1>3, <1>4, TypeParts2 DEF BaseInv

(* What a thread keeps that does not touch its buffer, or empties it *)
LEMMA PlainOK ==
    ASSUME NEW t \in Thread, ThreadOK(t), SameEntries(t), SameUsage(t),
           thread[t].pc \notin {"bump", "flush"}, thread'[t].pc \notin {"bump", "flush"},
           t \in holders' <=> t \in threads' /\ thread'[t].pc \in InBarrier,
           thread'[t].pc \in Making \union {"idle"} => t \in threads',
           thread'[t].pc \in {"out", "detach", "compare"} => t \notin threads',
           thread'[t].pc \in InBarrier \union Making => thread'[t].obj \in Obj
    PROVE  ThreadOK(t)'
  BY DEF ThreadOK, Filled, SameEntries, SameUsage

LEMMA EmptiedOK ==
    ASSUME NEW t \in Thread, thread'[t].localRemarkBufferUsage = 0,
           thread'[t].pc \in {"idle", "out", "detach"},
           t \notin holders',
           thread'[t].pc = "idle" => t \in threads',
           thread'[t].pc \in {"out", "detach"} => t \notin threads'
    PROVE  ThreadOK(t)'
  BY CollectorAssumption DEF ThreadOK, Filled, InBarrier, Making

LEMMA OperatesBase ==
    ASSUME BaseInv, NEW t \in Thread, NEW roots \in SUBSET Ref, NEW obj \in Ref,
           Operates(t, roots, obj)
    PROVE  BaseInv'
<1>1. HeapType /\ ThreadType /\ HistoryType /\ ThreadOK(t)
  BY TypeParts DEF BaseInv, ThreadInv
<1>2. ThreadOK(t)'
  <2>1. thread'[t].pc = "load" => obj \in Obj
    BY DEF Operates, Ref
  <2> QED
    BY <1>1, <2>1, PlainOK
       DEF Operates, SameBuffer, SameEntries, SameUsage, InBarrier, Making, ThreadOK
<1>3. HeapType' /\ HistoryType'
  BY <1>1 DEF Operates, HeapType, HistoryType
<1>4. /\ holders' \in SUBSET Thread /\ holders' \ {t} = holders \ {t}
      /\ threads' \in SUBSET Thread /\ WholeQueue'
      /\ OnlyThread(t) /\ UNCHANGED <<gcVars, gcPhase, threads>> /\ gcPhase = "idle"
  BY <1>1 DEF Operates, ThreadType, BaseInv, WholeQueue
<1> QED
  BY <1>2, <1>3, <1>4, ThreadFrame

LEMMA AllocBase ==
    ASSUME BaseInv, NEW t \in Thread, NEW obj \in Obj, NEW pc, Allocated(t, obj, pc)
    PROVE  BaseInv'
<1>1. HeapType /\ ThreadType /\ HistoryType /\ ThreadOK(t)
  BY TypeParts DEF BaseInv, ThreadInv
<1>2. ThreadOK(t)'
  <2>1. pc \in {"idle", "init"}
    BY DEF Allocated
  <2> QED
    BY <1>1, <2>1, PlainOK
       DEF Allocated, SameBuffer, SameEntries, SameUsage, InBarrier, Making, ThreadOK
<1>3. HeapType' /\ HistoryType'
  BY <1>1 DEF Allocated, HeapType, HistoryType
<1>4. /\ holders' \in SUBSET Thread /\ holders' = holders
      /\ threads' \in SUBSET Thread /\ WholeQueue'
      /\ OnlyThread(t) /\ UNCHANGED <<gcVars, gcPhase, threads>> /\ gcPhase = "idle"
  BY <1>1 DEF Allocated, ThreadType, BaseInv, WholeQueue
<1> QED
  BY <1>2, <1>3, <1>4, ThreadFrame

LEMMA InitBase ==
    ASSUME BaseInv, NEW t \in Thread, NEW obj \in Obj, FieldsWritten(t, obj)
    PROVE  BaseInv'
<1>1. HeapType /\ ThreadType /\ HistoryType /\ ThreadOK(t)
  BY TypeParts DEF BaseInv, ThreadInv
<1>2. ThreadOK(t)'
  BY <1>1, PlainOK
     DEF FieldsWritten, GoesOn, SameBuffer, SameEntries, SameUsage, InBarrier, Making, ThreadOK
<1>3. HeapType' /\ HistoryType'
  BY <1>1 DEF FieldsWritten, HeapType, HistoryType
<1>4. /\ holders' \in SUBSET Thread /\ holders' = holders
      /\ threads' \in SUBSET Thread /\ WholeQueue'
      /\ OnlyThread(t) /\ UNCHANGED <<gcVars, gcPhase, threads>>
  BY <1>1 DEF FieldsWritten, GoesOn, ThreadType, BaseInv, WholeQueue
<1> QED
  BY <1>2, <1>3, <1>4, ThreadFrame

LEMMA PublishBase ==
    ASSUME BaseInv, NEW t \in Thread, NEW obj \in Obj, Published(t, obj)
    PROVE  BaseInv'
<1>1. HeapType /\ ThreadType /\ HistoryType /\ ThreadOK(t)
  BY TypeParts DEF BaseInv, ThreadInv
<1>2. ThreadOK(t)'
  BY <1>1, PlainOK DEF Published, SameBuffer, SameEntries, SameUsage, InBarrier, Making, ThreadOK
<1>3. HeapType' /\ HistoryType'
  BY <1>1 DEF Published, HeapType, HistoryType
<1>4. /\ holders' \in SUBSET Thread /\ holders' = holders
      /\ threads' \in SUBSET Thread /\ WholeQueue'
      /\ OnlyThread(t) /\ UNCHANGED <<gcVars, gcPhase, threads>>
  BY <1>1 DEF Published, ThreadType, BaseInv, WholeQueue
<1> QED
  BY <1>2, <1>3, <1>4, ThreadFrame

(* What all steps of a barrier leave alone *)
LEMMA BarrierFrame ==
    ASSUME BaseInv, NEW t \in Thread, OnlyThread(t), ThreadOK(t)', HeapType',
           lateBarrier' \in BOOLEAN, strayThread' \in BOOLEAN, breached' \in BOOLEAN,
           WholeQueue', holders' \in {holders, holders \ {t}},
           UNCHANGED <<gcPhase, threads, gcVars, snapshotField, fault>>
    PROVE  BaseInv'
<1>1. ThreadType /\ HistoryType
  BY TypeParts DEF BaseInv
<1>2. HistoryType'
  BY <1>1 DEF HistoryType
<1>3. /\ holders' \in SUBSET Thread /\ holders' \ {t} = holders \ {t} /\ holders' \subseteq holders
      /\ threads' \in SUBSET Thread /\ threads' = threads
  BY <1>1 DEF ThreadType
<1> QED
  BY <1>2, <1>3, ThreadFrame

LEMMA ReturnedPc ==
    ASSUME NEW t \in Thread, ThreadOK(t), Returned(t), thread[t].pc \in InBarrier,
           UNCHANGED threads
    PROVE  /\ thread'[t].pc \in {"idle", "detach"}
           /\ thread'[t].pc = "idle" <=> t \in threads'
           /\ t \notin holders' /\ holders' = holders \ {t}
  BY DEF ThreadOK, Returned

(* Whole buffers on a queue *)
LEMMA Whole ==
    ASSUME NEW n \in Nat \ {0}, NEW q \in Nat
    PROVE  /\ (n * q) % n = 0
           /\ \E r \in Nat : n * q + n = n * r
           /\ n * q # 0 => n <= n * q /\ \E r \in Nat : n * q - n = n * r
<1>1. n * q + n = n * (q + 1)
  OBVIOUS
<1>2. ASSUME n * q # 0 PROVE n <= n * q /\ n * q - n = n * (q - 1) /\ q - 1 \in Nat
  BY <1>2
<1> QED
  BY <1>1, <1>2

LEMMA EntriesType ==
    ASSUME NEW t \in Thread, NEW n \in 0 .. LocalBufferSize,
           \A i \in 0 .. n - 1 : thread[t].localRemarkBuffer[i] \in Obj
    PROVE  /\ Entries(t, n) \in Seq(Obj) /\ Len(Entries(t, n)) = n
           /\ DOMAIN Entries(t, n) = 1 .. n
           /\ \A i \in 1 .. n : Entries(t, n)[i] = thread[t].localRemarkBuffer[i - 1]
<1>1. n \in Nat
  BY CollectorAssumption
<1>2. \A i \in 1 .. n : thread[t].localRemarkBuffer[i - 1] \in Obj
  BY <1>1
<1>3. Entries(t, n) \in [1 .. n -> Obj]
  BY <1>2 DEF Entries
<1>4. Entries(t, n) \in Seq(Obj)
  BY <1>1, <1>3, SeqDef
<1> QED
  BY <1>1, <1>3, <1>4 DEF Entries

LEMMA BarrierBase ==
    ASSUME BaseInv, NEW t \in Thread, Barrier(t)
    PROVE  BaseInv'
<1>1. /\ TypeOK /\ HeapType /\ ThreadType /\ HistoryType /\ ThreadOK(t)
      /\ thread[t] \in StructThread
  BY TypeParts DEF BaseInv, ThreadInv, ThreadType
<1>2. UNCHANGED <<threads, gcVars, snapshotField, fault>>
  BY DEF Barrier
<1>3. CASE LoadMarkingInProgress(t)
  <2> USE <1>3, <1>1, LoadEffect
  <2>1. thread[t].pc \in InBarrier /\ thread[t].pc \notin {"bump", "flush"}
    BY DEF InBarrier
  <2>2. SameEntries(t) /\ SameUsage(t) /\ UNCHANGED <<blockVars, needRemarkQueue, noteVars>>
    OBVIOUS
  <2>3. OnlyThread(t) /\ UNCHANGED gcPhase /\ holders' \in {holders, holders \ {t}}
    BY DEF GoesOn, Returned
  <2>4. ThreadOK(t)'
    <3>1. CASE markingInProgress
      BY <1>2, <2>1, <2>2, <3>1, PlainOK, SMTT(60) DEF GoesOn, ThreadOK, InBarrier, Making
    <3>2. CASE ~markingInProgress
      BY <1>2, <2>1, <2>2, <3>2, ReturnedPc, PlainOK DEF InBarrier, Making, ThreadOK
    <3> QED
      BY <3>1, <3>2
  <2>5. HeapType' /\ WholeQueue'
    BY <2>2 DEF HeapType, BaseInv, WholeQueue
  <2> QED
    BY <1>2, <2>2, <2>3, <2>4, <2>5, BarrierFrame DEF HistoryType
<1>4. CASE ExchangeMarkBit(t)
  <2> USE <1>4, <1>1, ExchangeEffect
  <2>1. thread[t].pc \in InBarrier /\ thread[t].pc \notin {"bump", "flush"}
    BY DEF InBarrier
  <2>2. SameEntries(t) /\ SameUsage(t) /\ UNCHANGED <<field, hasDesc, status, needRemarkQueue>>
    OBVIOUS
  <2>3. OnlyThread(t) /\ UNCHANGED gcPhase /\ holders' \in {holders, holders \ {t}}
    BY DEF GoesOn, Returned
  <2>4. ThreadOK(t)'
    <3>1. CASE t \notin holders
      <4>1. GoesOn(t, "compare")
        BY <3>1
      <4> QED
        BY <1>2, <2>1, <2>2, <3>1, <4>1, PlainOK DEF GoesOn, ThreadOK, InBarrier, Making
    <3>2. CASE t \in holders /\ ~Mark!Marked(thread[t].obj)
      <4>1. GoesOn(t, "push")
        BY <3>2
      <4> QED
        BY <1>2, <2>1, <2>2, <4>1, PlainOK DEF GoesOn, ThreadOK, InBarrier, Making
    <3>3. CASE t \in holders /\ Mark!Marked(thread[t].obj)
      <4>1. Returned(t)
        BY <3>3
      <4> QED
        BY <1>2, <2>1, <2>2, <4>1, ReturnedPc, PlainOK DEF InBarrier, Making, ThreadOK
    <3> QED
      BY <3>1, <3>2, <3>3
  <2>5. HeapType' /\ WholeQueue'
    BY <2>2 DEF HeapType, BaseInv, WholeQueue
  <2>6. lateBarrier' \in BOOLEAN /\ strayThread' \in BOOLEAN /\ breached' \in BOOLEAN
    OBVIOUS
  <2> QED
    BY <1>2, <2>2, <2>3, <2>4, <2>5, <2>6, BarrierFrame
<1>8. CASE CompareMarkBit(t)
  <2> USE <1>8, <1>1, CompareEffect
  <2>1. thread[t].pc \in InBarrier /\ thread[t].pc \notin {"bump", "flush"}
    BY DEF InBarrier
  <2>2. SameEntries(t) /\ SameUsage(t) /\ UNCHANGED <<blockVars, needRemarkQueue, noteVars>>
    OBVIOUS
  <2>3. OnlyThread(t) /\ UNCHANGED gcPhase /\ holders' \in {holders, holders \ {t}}
    BY DEF GoesOn, Returned
  <2>4. ThreadOK(t)'
    <3>1. CASE GoesOn(t, "push")
      BY <1>2, <2>1, <2>2, <3>1, PlainOK DEF GoesOn, ThreadOK, InBarrier, Making
    <3>2. CASE Returned(t)
      BY <1>2, <2>1, <2>2, <3>2, ReturnedPc, PlainOK DEF InBarrier, Making, ThreadOK
    <3> QED
      BY <3>1, <3>2
  <2>5. HeapType' /\ WholeQueue'
    BY <2>2 DEF HeapType, BaseInv, WholeQueue
  <2> QED
    BY <1>2, <2>2, <2>3, <2>4, <2>5, BarrierFrame DEF HistoryType
<1>5. CASE Push(t)
  <2> USE <1>5, <1>1, PushEffect
  <2>1. OnlyThread(t) /\ UNCHANGED <<lockVars, blockVars, needRemarkQueue, noteVars>>
    BY DEF GoesOn
  <2>2. ThreadOK(t)'
    <3>1. /\ thread[t].pc = "push" /\ thread'[t].pc = "bump" /\ thread'[t].obj = thread[t].obj
          /\ thread'[t].localRemarkBufferUsage = thread[t].localRemarkBufferUsage
          /\ thread'[t].usageRead = thread[t].localRemarkBufferUsage
          /\ thread[t].localRemarkBufferUsage \in 0 .. LocalBufferSize - 1
          /\ thread[t].obj \in Obj
      BY DEF GoesOn, SameUsage, ThreadOK, InBarrier
    <3>2. \A i \in 0 .. LocalBufferSize - 1 :
             thread'[t].localRemarkBuffer[i] =
                 IF i = thread[t].localRemarkBufferUsage
                 THEN thread[t].obj ELSE thread[t].localRemarkBuffer[i]
      OBVIOUS
    <3>3. \A i \in 0 .. LocalBufferSize - 1 :
             Filled(t, i)' => thread'[t].localRemarkBuffer[i] \in Obj
      BY <3>1, <3>2, CollectorAssumption DEF ThreadOK, Filled
    <3>4. thread'[t].localRemarkBuffer[thread'[t].usageRead] = thread'[t].obj
      BY <3>1, <3>2
    <3> QED
      BY <1>2, <2>1, <3>1, <3>3, <3>4, CollectorAssumption DEF ThreadOK, InBarrier, Making
  <2>3. HeapType' /\ WholeQueue'
    BY <2>1 DEF HeapType, BaseInv, WholeQueue
  <2> QED
    BY <1>2, <2>1, <2>2, <2>3, BarrierFrame DEF HistoryType
<1>6. CASE Bump(t)
  <2> USE <1>6, <1>1, BumpEffect
  <2>1. /\ OnlyThread(t) /\ UNCHANGED <<gcPhase, blockVars, needRemarkQueue, noteVars>>
        /\ holders' \in {holders, holders \ {t}}
    BY DEF GoesOn, Returned
  <2>2. ThreadOK(t)'
    <3>1. /\ thread[t].pc = "bump" /\ thread[t].obj \in Obj
          /\ thread'[t].localRemarkBufferUsage = thread[t].usageRead + 1
          /\ thread'[t].localRemarkBuffer = thread[t].localRemarkBuffer
          /\ thread[t].usageRead \in 0 .. LocalBufferSize - 1
          /\ thread[t].localRemarkBuffer[thread[t].usageRead] = thread[t].obj
      BY DEF SameEntries, ThreadOK, InBarrier, StructThread
    <3>2. \A i \in 0 .. LocalBufferSize - 1 :
             i <= thread[t].usageRead => thread[t].localRemarkBuffer[i] \in Obj
      BY <3>1 DEF ThreadOK, Filled
    <3>3. CASE thread[t].usageRead + 1 = LocalBufferSize
      <4>1. thread'[t].pc = "flush" /\ thread'[t].obj = thread[t].obj /\ UNCHANGED holders
        BY <3>3 DEF GoesOn
      <4>2. \A i \in 0 .. LocalBufferSize - 1 : thread'[t].localRemarkBuffer[i] \in Obj
        BY <3>1, <3>2, <3>3, CollectorAssumption
      <4>3. thread'[t].localRemarkBuffer[LocalBufferSize - 1] = thread'[t].obj
        BY <3>1, <3>3, <4>1, CollectorAssumption
      <4> QED
        BY <1>2, <3>1, <4>1, <4>2, <4>3 DEF ThreadOK, InBarrier, Making
    <3>4. CASE thread[t].usageRead + 1 # LocalBufferSize
      <4>1. Returned(t)
        BY <3>4
      <4>2. /\ thread'[t].pc \in {"idle", "detach"}
            /\ thread'[t].pc = "idle" <=> t \in threads'
            /\ t \notin holders'
        BY <1>2, <3>1, <4>1, ReturnedPc DEF InBarrier
      <4>3. \A i \in 0 .. LocalBufferSize - 1 :
               Filled(t, i)' => thread'[t].localRemarkBuffer[i] \in Obj
        BY <3>1, <3>2, <4>2, CollectorAssumption DEF Filled
      <4> QED
        BY <3>1, <3>4, <4>2, <4>3 DEF ThreadOK, InBarrier, Making
    <3> QED
      BY <3>3, <3>4
  <2>3. HeapType' /\ WholeQueue'
    BY <2>1 DEF HeapType, BaseInv, WholeQueue
  <2> QED
    BY <1>2, <2>1, <2>2, <2>3, BarrierFrame DEF HistoryType
<1>7. CASE Flush(t)
  <2> USE <1>7, <1>1, FlushEffect
  <2>1. Entries(t, LocalBufferSize) \in Seq(Obj) /\ Len(Entries(t, LocalBufferSize)) = LocalBufferSize
    <3>1. \A i \in 0 .. LocalBufferSize - 1 : thread[t].localRemarkBuffer[i] \in Obj
      BY DEF ThreadOK, Filled
    <3> QED
      BY <3>1, EntriesType, CollectorAssumption
  <2>2. WholeQueue'
    <3> DEFINE e == Entries(t, LocalBufferSize)
    <3>1. e \in Seq(Obj) /\ Len(e) = LocalBufferSize
      BY <2>1
    <3> HIDE DEF e
    <3>2. /\ needRemarkQueue \o e \in Seq(Obj)
          /\ Len(needRemarkQueue \o e) = Len(needRemarkQueue) + LocalBufferSize
          /\ Len(needRemarkQueue) \in Nat
      BY <3>1, ConcatProperties, LenProperties DEF BaseInv, WholeQueue
    <3>3. needRemarkQueue' = needRemarkQueue \o e
      BY DEF e
    <3> QED
      <4>1. PICK n \in Nat : Len(needRemarkQueue) = LocalBufferSize * n
        BY DEF BaseInv, WholeQueue
      <4>2. \E r \in Nat : LocalBufferSize * n + LocalBufferSize = LocalBufferSize * r
        BY Whole, CollectorAssumption
      <4> QED
        BY <3>2, <3>3, <4>1, <4>2 DEF WholeQueue
  <2>3. OnlyThread(t) /\ UNCHANGED <<gcPhase, blockVars, noteVars>>
    BY DEF Returned
  <2>4. /\ thread'[t].pc \in {"idle", "detach"} /\ thread'[t].localRemarkBufferUsage = 0
        /\ thread'[t].pc = "idle" <=> t \in threads'
        /\ t \notin holders' /\ holders' = holders \ {t}
    BY <1>2, ReturnedPc DEF InBarrier
  <2>5. ThreadOK(t)'
    BY <2>4, EmptiedOK
  <2>6. HeapType'
    BY <2>3 DEF HeapType
  <2> QED
    BY <1>2, <2>2, <2>3, <2>4, <2>5, <2>6, BarrierFrame DEF HistoryType
<1> QED
  BY <1>3, <1>4, <1>5, <1>6, <1>7, <1>8 DEF Barrier

LEMMA AttachBase ==
    ASSUME BaseInv, NEW t \in Thread, AttachThread(t)
    PROVE  BaseInv'
<1> USE AttachEffect
<1>1. TypeOK /\ HeapType /\ ThreadType /\ HistoryType /\ ThreadOK(t)
  BY TypeParts DEF BaseInv, ThreadInv
<1>2. /\ OnlyThread(t) /\ Blank(t) /\ thread'[t].pc = "idle" /\ thread[t].pc = "out"
      /\ threads' = threads \union {t}
      /\ UNCHANGED <<blockVars, needRemarkQueue, lockVars, gcVars, historyVars, fault>>
  BY <1>1
<1>3. ThreadOK(t)'
  BY <1>1, <1>2, EmptiedOK DEF Blank, ThreadOK, InBarrier
<1>4. HeapType' /\ HistoryType'
  BY <1>1, <1>2 DEF HeapType, HistoryType
<1>5. /\ holders' \in SUBSET Thread /\ holders' = holders
      /\ threads' \in SUBSET Thread /\ WholeQueue'
      /\ threads \subseteq threads' /\ threads' \ {t} = threads \ {t}
  BY <1>1, <1>2 DEF ThreadType, BaseInv, WholeQueue
<1> QED
  BY <1>2, <1>3, <1>4, <1>5, ThreadFrame

LEMMA DetachBase ==
    ASSUME BaseInv, NEW t \in Thread, DetachThread(t)
    PROVE  BaseInv'
<1>1. TypeOK /\ HeapType /\ ThreadType /\ HistoryType /\ ThreadOK(t)
  BY TypeParts DEF BaseInv, ThreadInv
<1>2. /\ t \in threads /\ thread[t].pc = "idle" /\ ThreadListLockFree
      /\ OnlyThread(t) /\ SameBuffer(t)
      /\ thread'[t].pc = "detach" /\ threads' = threads \ {t}
      /\ lateBarrier' \in BOOLEAN /\ strayThread' \in BOOLEAN /\ breached' \in BOOLEAN
      /\ UNCHANGED <<blockVars, needRemarkQueue, lockVars, gcVars, snapshotField, fault>>
  BY <1>1, DetachEffect
<1>3. ThreadOK(t)'
  BY <1>1, <1>2, PlainOK DEF SameBuffer, SameEntries, SameUsage, ThreadOK, InBarrier, Making
<1>4. HeapType' /\ HistoryType'
  BY <1>1, <1>2 DEF HeapType, HistoryType
<1>5. /\ holders' \in SUBSET Thread /\ holders' = holders
      /\ threads' \in SUBSET Thread /\ WholeQueue'
      /\ threads' \ {t} = threads \ {t}
  BY <1>1, <1>2 DEF ThreadType, BaseInv, WholeQueue
<1> QED
  BY <1>2, <1>3, <1>4, <1>5, ThreadFrame

LEMMA DropBase ==
    ASSUME BaseInv, NEW t \in Thread, NEW root \in thread[t].rootEntries, DropRoot(t, root)
    PROVE  BaseInv'
<1>1. TypeOK /\ HeapType /\ ThreadType /\ HistoryType /\ ThreadOK(t)
  BY TypeParts DEF BaseInv, ThreadInv
<1>2. /\ thread[t].pc = "detach" /\ root \in Ref /\ OnlyThread(t) /\ SameBuffer(t)
      /\ thread'[t].pc = IF root = NULL THEN "detach" ELSE "load"
      /\ thread'[t].obj = root
      /\ lateBarrier' \in BOOLEAN /\ strayThread' \in BOOLEAN /\ breached' \in BOOLEAN
      /\ UNCHANGED <<blockVars, threads, needRemarkQueue, lockVars, gcVars, snapshotField, fault>>
  BY <1>1, DropEffect
<1>3. ThreadOK(t)'
  BY <1>1, <1>2, PlainOK DEF SameBuffer, SameEntries, SameUsage, ThreadOK, InBarrier, Making, Ref
<1>4. HeapType' /\ HistoryType'
  BY <1>1, <1>2 DEF HeapType, HistoryType
<1>5. /\ holders' \in SUBSET Thread /\ holders' = holders
      /\ threads' \in SUBSET Thread /\ WholeQueue'
      /\ threads' = threads
  BY <1>1, <1>2 DEF ThreadType, BaseInv, WholeQueue
<1> QED
  BY <1>2, <1>3, <1>4, <1>5, ThreadFrame

LEMMA FreeBase ==
    ASSUME BaseInv, NEW t \in Thread, FreeThread(t)
    PROVE  BaseInv'
<1>1. TypeOK /\ HeapType /\ ThreadType /\ HistoryType /\ ThreadOK(t)
  BY TypeParts DEF BaseInv, ThreadInv
<1>2. /\ thread[t].pc = "detach" /\ OnlyThread(t) /\ Blank(t) /\ thread'[t].pc = "out"
      /\ UNCHANGED <<blockVars, threads, needRemarkQueue, lockVars, gcVars, historyVars, fault>>
  BY <1>1, FreeEffect
<1>3. ThreadOK(t)'
  BY <1>1, <1>2, EmptiedOK DEF Blank, ThreadOK, InBarrier
<1>4. HeapType' /\ HistoryType'
  BY <1>1, <1>2 DEF HeapType, HistoryType
<1>5. /\ holders' \in SUBSET Thread /\ holders' = holders
      /\ threads' \in SUBSET Thread /\ WholeQueue'
      /\ threads' = threads
  BY <1>1, <1>2 DEF ThreadType, BaseInv, WholeQueue
<1> QED
  BY <1>2, <1>3, <1>4, <1>5, ThreadFrame

(* The elements of a queue *)
LEMMA RangeEmpty == Range(<<>>) = {}
  BY DEF Range

LEMMA RangeIn == ASSUME NEW S, NEW q \in Seq(S) PROVE Range(q) \subseteq S
  BY ElementOfSeq, LenProperties DEF Range

LEMMA RangeAppend ==
    ASSUME NEW S, NEW q \in Seq(S), NEW e \in S
    PROVE  Range(Append(q, e)) = Range(q) \union {e}
  BY AppendProperties DEF Range

LEMMA RangeTail ==
    ASSUME NEW S, NEW q \in Seq(S), q # <<>>
    PROVE  /\ Head(q) \in S /\ Head(q) \in Range(q) /\ Tail(q) \in Seq(S)
           /\ Len(Tail(q)) = Len(q) - 1 /\ Len(q) \in Nat
           /\ Range(q) = {Head(q)} \union Range(Tail(q))
<1>1. /\ Tail(q) \in Seq(S)
      /\ Len(Tail(q)) = Len(q) - 1
      /\ \A i \in 1 .. Len(Tail(q)) : Tail(q)[i] = q[i + 1]
  BY HeadTailProperties
<1>2. Len(q) \in Nat \ {0} /\ DOMAIN q = 1 .. Len(q)
  BY EmptySeq
<1>3. DOMAIN Tail(q) = 1 .. Len(q) - 1 /\ Head(q) = q[1] /\ Head(q) \in S
  BY <1>1, HeadTailProperties
<1>4. ASSUME NEW x \in Range(q), x # Head(q) PROVE x \in Range(Tail(q))
  <2>1. PICK i \in 1 .. Len(q) : x = q[i]
    BY <1>2 DEF Range
  <2>2. i - 1 \in 1 .. Len(Tail(q)) /\ Tail(q)[i - 1] = q[i]
    BY <1>1, <1>2, <1>3, <1>4, <2>1
  <2> QED
    BY <1>1, <1>3, <2>1, <2>2 DEF Range
<1>5. ASSUME NEW x \in Range(Tail(q)) PROVE x \in Range(q)
  <2>1. PICK i \in 1 .. Len(Tail(q)) : x = Tail(q)[i]
    BY <1>1, <1>3 DEF Range
  <2>2. i + 1 \in 1 .. Len(q) /\ Tail(q)[i] = q[i + 1]
    BY <1>1, <1>2, <2>1
  <2> QED
    BY <1>2, <2>1, <2>2 DEF Range
<1>6. Head(q) \in Range(q)
  BY <1>2, <1>3 DEF Range
<1> QED
  BY <1>1, <1>2, <1>3, <1>4, <1>5, <1>6

LEMMA RangeConcat ==
    ASSUME NEW S, NEW p \in Seq(S), NEW q \in Seq(S)
    PROVE  /\ p \o q \in Seq(S) /\ Len(p \o q) = Len(p) + Len(q)
           /\ Range(p \o q) = Range(p) \union Range(q)
<1>1. /\ p \o q \in Seq(S) /\ Len(p \o q) = Len(p) + Len(q)
      /\ \A i \in 1 .. Len(p) + Len(q) :
            (p \o q)[i] = IF i <= Len(p) THEN p[i] ELSE q[i - Len(p)]
  BY ConcatProperties
<1>2. /\ Len(p) \in Nat /\ Len(q) \in Nat
      /\ DOMAIN p = 1 .. Len(p) /\ DOMAIN q = 1 .. Len(q)
      /\ DOMAIN (p \o q) = 1 .. Len(p) + Len(q)
  BY <1>1, LenProperties
<1> DEFINE r == p \o q
<1>3. /\ DOMAIN r = 1 .. Len(p) + Len(q)
      /\ \A i \in 1 .. Len(p) + Len(q) :
            r[i] = IF i <= Len(p) THEN p[i] ELSE q[i - Len(p)]
  BY <1>1, <1>2
<1> HIDE DEF r
<1>4. ASSUME NEW x \in Range(p) PROVE x \in Range(r)
  <2>1. PICK i \in 1 .. Len(p) : x = p[i]
    BY <1>2 DEF Range
  <2>2. i \in 1 .. Len(p) + Len(q) /\ r[i] = p[i]
    BY <1>2, <1>3
  <2> QED
    BY <1>3, <2>1, <2>2 DEF Range
<1>5. ASSUME NEW x \in Range(q) PROVE x \in Range(r)
  <2>1. PICK i \in 1 .. Len(q) : x = q[i]
    BY <1>2 DEF Range
  <2> DEFINE j == i + Len(p)
  <2>2. j \in 1 .. Len(p) + Len(q) /\ ~(j <= Len(p)) /\ j - Len(p) = i
    BY <1>2
  <2> HIDE DEF j
  <2>3. r[j] = q[i]
    BY <1>3, <2>2
  <2> QED
    BY <1>3, <2>1, <2>2, <2>3 DEF Range
<1>6. ASSUME NEW x \in Range(r) PROVE x \in Range(p) \union Range(q)
  <2>1. PICK i \in 1 .. Len(p) + Len(q) : x = r[i]
    BY <1>3 DEF Range
  <2>2. CASE i <= Len(p)
    BY <1>2, <1>3, <2>1, <2>2 DEF Range
  <2>3. CASE ~(i <= Len(p))
    <3>1. i - Len(p) \in 1 .. Len(q) /\ r[i] = q[i - Len(p)]
      BY <1>2, <1>3, <2>3
    <3> QED
      BY <1>2, <2>1, <3>1 DEF Range
  <2> QED
    BY <2>2, <2>3
<1> QED
  BY <1>1, <1>4, <1>5, <1>6 DEF r

(* A queue read in two parts *)
LEMMA RangeSplit ==
    ASSUME NEW S, NEW q \in Seq(S), NEW n \in Nat
    PROVE  /\ SubSeq(q, n + 1, Len(q)) \in Seq(S)
           /\ n <= Len(q) =>
                /\ SubSeq(q, 1, n) \in Seq(S) /\ Len(SubSeq(q, 1, n)) = n
                /\ Len(SubSeq(q, n + 1, Len(q))) = Len(q) - n
                /\ Range(q) = Range(SubSeq(q, 1, n)) \union Range(SubSeq(q, n + 1, Len(q)))
<1>1. Len(q) \in Nat /\ DOMAIN q = 1 .. Len(q) /\ \A i \in 1 .. Len(q) : q[i] \in S
  BY LenProperties, ElementOfSeq
<1> DEFINE b == SubSeq(q, n + 1, Len(q))
           a == SubSeq(q, 1, n)
<1>2. b \in Seq(S)
  BY <1>1, SubSeqProperties
<1>3. ASSUME n <= Len(q)
      PROVE  /\ a \in Seq(S) /\ Len(a) = n /\ DOMAIN a = 1 .. n
             /\ \A i \in 1 .. n : a[i] = q[i]
             /\ Len(b) = Len(q) - n /\ DOMAIN b = 1 .. Len(q) - n
             /\ \A i \in 1 .. Len(q) - n : b[i] = q[n + i]
  <2>1. \A i \in n + 1 .. Len(q) : q[i] \in S
    BY <1>1
  <2>2. /\ Len(b) = IF n + 1 <= Len(q) THEN Len(q) - (n + 1) + 1 ELSE 0
        /\ \A i \in 1 .. Len(q) - (n + 1) + 1 : b[i] = q[n + 1 + i - 1]
    BY <1>1, <2>1, SubSeqProperties
  <2>3. \A i \in 1 .. n : q[i] \in S
    BY <1>1, <1>3
  <2>4. /\ a \in Seq(S) /\ Len(a) = IF 1 <= n THEN n - 1 + 1 ELSE 0
        /\ \A i \in 1 .. n - 1 + 1 : a[i] = q[1 + i - 1]
    BY <1>1, <2>3, SubSeqProperties
  <2> HIDE DEF a, b
  <2>5. Len(a) = n /\ Len(b) = Len(q) - n
    <3>1. Len(a) = IF 1 <= n THEN n - 1 + 1 ELSE 0
      BY <2>4
    <3>2. Len(b) = IF n + 1 <= Len(q) THEN Len(q) - (n + 1) + 1 ELSE 0
      BY <2>2
    <3>3. (IF 1 <= n THEN n - 1 + 1 ELSE 0) = n
      OBVIOUS
    <3>4. \A k \in Nat : n <= k =>
             (IF n + 1 <= k THEN k - (n + 1) + 1 ELSE 0) = k - n
      OBVIOUS
    <3>5. Len(a) = n
      BY <3>1, <3>3
    <3>6. Len(q) \in Nat /\ n <= Len(q)
      BY <1>1, <1>3
    <3>7. (IF n + 1 <= Len(q) THEN Len(q) - (n + 1) + 1 ELSE 0) = Len(q) - n
      BY <3>4, <3>6
    <3>8. Len(b) = Len(q) - n
      BY <3>2, <3>7
    <3> QED
      BY <3>5, <3>8
  <2>6. DOMAIN a = 1 .. n /\ DOMAIN b = 1 .. Len(q) - n
    BY <1>2, <2>4, <2>5, LenProperties DEF b
  <2>7. ASSUME NEW i \in 1 .. n PROVE a[i] = q[i]
    <3>1. i \in 1 .. n - 1 + 1 /\ 1 + i - 1 = i
      OBVIOUS
    <3> QED
      BY <2>4, <3>1
  <2>8. ASSUME NEW i \in 1 .. Len(q) - n PROVE b[i] = q[n + i]
    <3>1. i \in 1 .. Len(q) - (n + 1) + 1 /\ n + 1 + i - 1 = n + i
      BY <1>1
    <3> QED
      BY <2>2, <3>1
  <2> QED
    BY <2>4, <2>5, <2>6, <2>7, <2>8
<1> HIDE DEF a, b
<1>4. ASSUME n <= Len(q) PROVE Range(q) = Range(a) \union Range(b)
  <2> USE <1>4, <1>3, <1>1
  <2>1. ASSUME NEW i \in 1 .. Len(q) PROVE q[i] \in Range(a) \union Range(b)
    <3>1. CASE i <= n
      <4>1. i \in DOMAIN a /\ a[i] = q[i]
        BY <3>1
      <4> QED
        BY <4>1 DEF Range
    <3>2. CASE ~(i <= n)
      <4>1. i - n \in 1 .. Len(q) - n /\ b[i - n] = q[n + (i - n)] /\ n + (i - n) = i
        BY <3>2
      <4> QED
        BY <4>1 DEF Range
    <3> QED
      BY <3>1, <3>2
  <2>2. ASSUME NEW i \in 1 .. n PROVE a[i] \in Range(q)
    <3>1. i \in 1 .. Len(q) /\ a[i] = q[i]
      OBVIOUS
    <3> QED
      BY <3>1 DEF Range
  <2>3. ASSUME NEW i \in 1 .. Len(q) - n PROVE b[i] \in Range(q)
    <3>1. n + i \in 1 .. Len(q) /\ b[i] = q[n + i]
      OBVIOUS
    <3> QED
      BY <3>1 DEF Range
  <2>4. Range(q) = {q[i] : i \in 1 .. Len(q)}
    BY DEF Range
  <2>5. Range(a) = {a[i] : i \in 1 .. n} /\ Range(b) = {b[i] : i \in 1 .. Len(q) - n}
    BY DEF Range
  <2>6. Range(q) \subseteq Range(a) \union Range(b)
    BY ONLY <2>1, <2>4
  <2>7. Range(a) \subseteq Range(q) /\ Range(b) \subseteq Range(q)
    BY ONLY <2>2, <2>3, <2>5
  <2> QED
    BY <2>6, <2>7
<1> QED
  BY <1>2, <1>3, <1>4 DEF a, b

-----------------------------------------------------------------------------
(* The steps of the GC thread *)
LEMMA GcFrame ==
    ASSUME BaseInv, UNCHANGED <<threadVars, holders>>,
           gcPhase' \in {"idle", "waiting", "exclusive"}
    PROVE  ThreadType' /\ ThreadInv'
<1>1. ThreadType /\ ThreadInv
  BY TypeParts DEF BaseInv
<1>2. ThreadType'
  BY <1>1 DEF ThreadType
<1>3. ThreadInv'
  BY <1>1 DEF ThreadInv, ThreadOK, Filled
<1> QED
  BY <1>2, <1>3

LEMMA BaseParts ==
    BaseInv => /\ TypeOK /\ HeapType /\ ThreadType /\ TracerType /\ CycleType /\ HistoryType
               /\ ThreadInv /\ PhaseInv /\ ScanInv
  BY TypeParts DEF BaseInv

LEMMA QueueSame ==
    BaseInv /\ UNCHANGED needRemarkQueue /\ TypeOK' /\ ThreadInv' /\ PhaseInv' /\ ScanInv' => BaseInv'
  BY DEF BaseInv, WholeQueue

LEMMA RootRefsType == BaseInv => RootRefs(threads) \in Nat
<1> SUFFICES ASSUME BaseInv PROVE RootRefs(threads) \in Nat
  OBVIOUS
<1> DEFINE count == [t \in Thread |-> Cardinality(thread[t].rootEntries)]
<1>1. threads \subseteq Thread /\ IsFiniteSet(threads)
  BY BaseParts, CollectorFinite, FS_Subset DEF ThreadType
<1>2. IsFiniteSet(Ref)
  <2>1. IsFiniteSet(Obj \union {NULL})
    BY CollectorFinite, FS_AddElement
  <2> QED
    BY <2>1 DEF Ref
<1>3. \A t \in Thread : thread[t].rootEntries \subseteq Ref
  BY BaseParts DEF ThreadType, StructThread
<1>4. \A t \in Thread : Cardinality(thread[t].rootEntries) \in Nat
  BY <1>2, <1>3, FS_Subset, FS_CardinalityType
<1>5. \A t \in threads : count[t] \in Nat
  BY <1>1, <1>4
<1> HIDE DEF count
<1>6. SumFunctionOnSet(count, threads) \in Nat
  BY <1>1, <1>5, SumType
<1> QED
  BY <1>6 DEF RootRefs, count

LEMMA StartBase == ASSUME BaseInv, StartCycle PROVE BaseInv'
<1> USE BaseParts DEF StartCycle, GoGc, Lock!Request
<1>1. ThreadType' /\ ThreadInv'
  BY GcFrame
<1>2. HeapType' /\ HistoryType'
  BY DEF HeapType, HistoryType
<1>3. TracerType' /\ ScanInv'
  BY DEF TracerType, ScanInv
<1>4. CycleType' /\ PhaseInv'
  BY DEF CycleType, PhaseInv
<1> QED
  BY <1>1, <1>2, <1>3, <1>4, TypeParts2, QueueSame

LEMMA CountBase == ASSUME BaseInv, CountRoots PROVE BaseInv'
<1> USE BaseParts DEF CountRoots, GoGc, Lock!Grant
<1>1. ThreadType' /\ ThreadInv'
  BY GcFrame
<1>2. HeapType' /\ HistoryType'
  BY DEF HeapType, HistoryType
<1>3. TracerType' /\ ScanInv'
  BY DEF TracerType, ScanInv
<1>4. CycleType'
  BY RootRefsType DEF CycleType, TracerType
<1>5. PhaseInv'
  BY DEF PhaseInv
<1> QED
  BY <1>1, <1>2, <1>3, <1>4, <1>5, TypeParts2, QueueSame

LEMMA CopyBase == ASSUME BaseInv, CopyRoots PROVE BaseInv'
<1> USE BaseParts DEF CopyRoots, GoGc, Lock!Release
<1>1. ThreadType' /\ ThreadInv'
  BY GcFrame
<1>2. HeapType'
  BY DEF HeapType
<1>3. HistoryType'
  BY DEF HistoryType, HeapType
<1>4. TracerType'
  <2>1. \A t \in threads : thread[t].rootEntries \subseteq Ref
    BY DEF ThreadType, StructThread
  <2>2. snapshotOfRootSet' \subseteq Ref /\ rootsLeft' = snapshotOfRootSet'
    BY <2>1
  <2>3. premarked' \subseteq Obj
    BY DEF Live
  <2> QED
    BY <2>2, <2>3 DEF TracerType
<1>5. ScanInv'
  BY DEF ScanInv
<1>6. CycleType' /\ PhaseInv'
  BY DEF CycleType, PhaseInv, Live
<1> QED
  BY <1>1, <1>2, <1>3, <1>4, <1>5, <1>6, TypeParts2, QueueSame

(* doMark's queue is empty when it is called *)
LEMMA DoMarkBase ==
    ASSUME BaseInv, NEW block \in Ref, Mark!DoMark(block)
    PROVE  /\ gcMarkQueueUwU = <<>> /\ deferredMarkQueue = <<>> /\ scan = Mark!NoScan
           /\ gcMarkQueueUwU' \in Seq(Ref) /\ Len(gcMarkQueueUwU') <= MarkQueueCap
           /\ gcMarkQueueUwU' # <<>> /\ Range(gcMarkQueueUwU') = {block}
           /\ markPc = "idle" /\ markPc' = "drain" /\ UNCHANGED <<deferredMarkQueue, scan>>
           /\ ScanInv'
<1> USE BaseParts DEF Mark!DoMark
<1>1. gcMarkQueueUwU = <<>> /\ deferredMarkQueue = <<>> /\ scan = Mark!NoScan
  BY DEF ScanInv
<1>2. gcMarkQueueUwU' = <<block>>
  BY <1>1
<1>3. gcMarkQueueUwU' \in Seq(Ref) /\ Len(gcMarkQueueUwU') <= MarkQueueCap /\ gcMarkQueueUwU' # <<>>
  BY <1>2, TracerAssumption
<1>4. Range(gcMarkQueueUwU') = {block}
  BY <1>2 DEF Range
<1>5. ScanInv'
  BY <1>1 DEF ScanInv
<1> QED
  BY <1>1, <1>3, <1>4, <1>5

LEMMA MarkRootBase ==
    ASSUME BaseInv, NEW root \in rootsLeft, MarkRoot(root) PROVE BaseInv'
<1> USE BaseParts DEF MarkRoot, Mark!MarkRoot
<1>1. ThreadType' /\ ThreadInv'
  BY GcFrame DEF ThreadType
<1>2. HeapType' /\ HistoryType'
  BY DEF HeapType, HistoryType
<1>3. root \in Ref /\ Mark!DoMark(root)
  BY DEF TracerType
<1>4. ScanInv' /\ TracerType'
  BY <1>3, DoMarkBase DEF TracerType
<1>5. CycleType' /\ PhaseInv'
  BY <1>3 DEF CycleType, PhaseInv, Mark!DoMark
<1> QED
  BY <1>1, <1>2, <1>4, <1>5, TypeParts2, QueueSame

(* The slot a visit is at exists. *)
LEMMA AtASlot ==
    ASSUME BaseInv, Mark!AtSlot
    PROVE  /\ markPc = "scan" /\ scan.block \in Obj /\ hasDesc[scan.block]
           /\ Mark!CurrentSlot \in Mark!Slots(scan.block)
           /\ Mark!Content \in Ref /\ Mark!Content = field[scan.block][Mark!CurrentSlot]
           /\ Mark!AfterSlot \in Mark!ScanState
           /\ Mark!AfterSlot.block = scan.block
           /\ Mark!AfterSlot.fieldIndex + Mark!AfterSlot.flexIndex > 0
           /\ Mark!AfterSlot.fieldIndex < FieldCount[scan.block] => Mark!AfterSlot.flexIndex = 0
           /\ Mark!SavedIndex \in Nat
           /\ scan.fieldIndex + scan.flexIndex > 0 => Mark!SavedIndex > 0
<1>0. ScanInv /\ TracerType /\ HeapType
  BY BaseParts
<1>1. /\ markPc = "scan" /\ scan.block \in Obj /\ hasDesc[scan.block]
      /\ scan.fieldIndex \in Nat /\ scan.flexIndex \in Nat
      /\ FieldCount[scan.block] \in Nat /\ FlexCount[scan.block] \in Nat
      /\ scan.fieldIndex < FieldCount[scan.block] => scan.flexIndex = 0
      /\ ~(scan.fieldIndex < FieldCount[scan.block]) => scan.flexIndex < FlexCount[scan.block]
  BY <1>0, TracerAssumption DEF ScanInv, TracerType, Mark!AtSlot, Mark!ScanState,
     Mark!ScanDone, Mark!InFields
<1>2. Mark!CurrentSlot \in Mark!Slots(scan.block)
  BY <1>1 DEF Mark!InFields, Mark!CurrentSlot, Mark!Slots, Mark!SlotCount
<1>3. Mark!Content \in Ref
  BY <1>0, <1>1, <1>2 DEF HeapType, Mark!Fields, Mark!Content, Mark!Ref, Ref
<1>4. CASE Mark!InFields
  <2>1. Mark!AfterSlot = [scan EXCEPT !.fieldIndex = @ + 1]
    BY <1>4 DEF Mark!AfterSlot
  <2>2. /\ Mark!AfterSlot \in Mark!ScanState /\ Mark!AfterSlot.block = scan.block
        /\ Mark!AfterSlot.fieldIndex = scan.fieldIndex + 1
        /\ Mark!AfterSlot.flexIndex = scan.flexIndex
    BY <1>0, <1>1, <2>1 DEF TracerType, Mark!ScanState
  <2>3. Mark!SavedIndex \in Nat
    BY <1>1 DEF Mark!SavedIndex, Mark!SlotCount
  <2>4. scan.fieldIndex + scan.flexIndex > 0 => Mark!SavedIndex > 0
    BY <1>1, <1>4 DEF Mark!SavedIndex, Mark!SlotCount, Mark!InFields
  <2> QED
    BY <1>1, <1>2, <1>3, <1>4, <2>2, <2>3, <2>4 DEF Mark!Content, Mark!InFields
<1>5. CASE ~Mark!InFields
  <2>1. Mark!AfterSlot = [scan EXCEPT !.flexIndex = @ + 1]
    BY <1>5 DEF Mark!AfterSlot
  <2>2. /\ Mark!AfterSlot \in Mark!ScanState /\ Mark!AfterSlot.block = scan.block
        /\ Mark!AfterSlot.fieldIndex = scan.fieldIndex
        /\ Mark!AfterSlot.flexIndex = scan.flexIndex + 1
    BY <1>0, <1>1, <2>1 DEF TracerType, Mark!ScanState
  <2>3. Mark!SavedIndex \in Nat
    BY <1>1 DEF Mark!SavedIndex, Mark!SlotCount
  <2>4. scan.fieldIndex + scan.flexIndex > 0 => Mark!SavedIndex > 0
    BY <1>1, <1>5 DEF Mark!SavedIndex, Mark!SlotCount, Mark!InFields
  <2> QED
    BY <1>1, <1>2, <1>3, <1>5, <2>2, <2>3, <2>4 DEF Mark!Content, Mark!InFields
<1> QED
  BY <1>4, <1>5

(* A visit marks its block; it begins or resumes unless it is a first      *)
(* visit of a block marked before.                                         *)
LEMMA VisitEffect ==
    ASSUME BaseInv, NEW state \in Mark!MarkState, Mark!Visit(state)
    PROVE  /\ markBit' \in [Obj -> BOOLEAN]
           /\ \A o \in Obj : markBit'[o] = IF o = state.block THEN GCMarkedBitValue ELSE markBit[o]
           /\ state.fieldIndex = 0 /\ Mark!Marked(state.block) => UNCHANGED <<markPc, scan>>
           /\ ~(state.fieldIndex = 0 /\ Mark!Marked(state.block)) =>
                 /\ markPc' = "scan" /\ scan' \in Mark!ScanState
                 /\ scan'.block = state.block /\ scan'.fieldIndex = state.fieldIndex
                 /\ scan'.flexIndex = 0
<1>1. HeapType /\ TracerType /\ state.block \in Obj /\ state.fieldIndex \in Nat
  BY BaseParts DEF Mark!MarkState
<1>2. /\ markBit' \in [Obj -> BOOLEAN]
      /\ \A o \in Obj : markBit'[o] = IF o = state.block THEN GCMarkedBitValue ELSE markBit[o]
  BY <1>1 DEF Mark!Visit, HeapType, TracerType
<1>3. CASE state.fieldIndex = 0 /\ Mark!Marked(state.block)
  BY <1>2, <1>3 DEF Mark!Visit
<1>4. CASE ~(state.fieldIndex = 0 /\ Mark!Marked(state.block))
  <2>1. /\ markPc' = "scan"
        /\ scan' = [block |-> state.block, fieldIndex |-> state.fieldIndex, flexIndex |-> 0]
    BY <1>4 DEF Mark!Visit
  <2> QED
    BY <1>1, <1>2, <1>4, <2>1 DEF Mark!ScanState, Mark!Ref
<1> QED
  BY <1>3, <1>4

(* The trace by cases, with what each does *)
Visits(state) ==
    /\ markPc = "drain" /\ state \in Mark!MarkState
    /\ \/ /\ gcMarkQueueUwU # <<>> /\ state.fieldIndex = 0
          /\ state.block = Head(gcMarkQueueUwU) /\ state.block \in Live
          /\ gcMarkQueueUwU' = Tail(gcMarkQueueUwU) /\ UNCHANGED deferredMarkQueue
       \/ /\ gcMarkQueueUwU = <<>> /\ deferredMarkQueue # <<>>
          /\ state = Head(deferredMarkQueue) /\ state.fieldIndex > 0
          /\ deferredMarkQueue' = Tail(deferredMarkQueue) /\ UNCHANGED gcMarkQueueUwU
    /\ markBit' \in [Obj -> BOOLEAN]
    /\ \A o \in Obj : markBit'[o] = IF o = state.block THEN GCMarkedBitValue ELSE markBit[o]
    /\ state.fieldIndex = 0 /\ Mark!Marked(state.block) => UNCHANGED <<markPc, scan>>
    /\ ~(state.fieldIndex = 0 /\ Mark!Marked(state.block)) =>
          /\ markPc' = "scan" /\ scan' \in Mark!ScanState
          /\ scan'.block = state.block /\ scan'.fieldIndex = state.fieldIndex
          /\ scan'.flexIndex = 0

PassesSlot ==
    /\ Mark!AtSlot /\ scan' = Mark!AfterSlot
    /\ UNCHANGED <<markBit, deferredMarkQueue, markPc>>
    /\ \/ Mark!Content = NULL /\ UNCHANGED gcMarkQueueUwU
       \/ /\ Mark!Content \in Obj
          /\ Len(gcMarkQueueUwU) < MarkQueueCap
          /\ gcMarkQueueUwU' = Append(gcMarkQueueUwU, Mark!Content)

PutsOff ==
    /\ Mark!AtSlot /\ Len(deferredMarkQueue) < DeferredCap
    /\ deferredMarkQueue' =
         Append(deferredMarkQueue, [block |-> scan.block, fieldIndex |-> Mark!SavedIndex])
    /\ Mark!SavedIndex \in Nat \ {0}
    /\ markPc' = "drain" /\ scan' = Mark!NoScan
    /\ UNCHANGED <<markBit, gcMarkQueueUwU>>

Leaves ==
    /\ \/ /\ markPc = "drain" /\ gcMarkQueueUwU = <<>> /\ deferredMarkQueue = <<>>
          /\ markPc' = "idle" /\ UNCHANGED scan
       \/ /\ markPc = "scan" /\ Mark!ScanDone
          /\ markPc' = "drain" /\ scan' = Mark!NoScan
       \/ /\ markPc = "scan" /\ markPc' = "panic" /\ UNCHANGED scan
    /\ UNCHANGED <<markBit, gcMarkQueueUwU, deferredMarkQueue>>

LEMMA MarkStepCases ==
    ASSUME BaseInv, MarkStep
    PROVE  /\ (\E state \in Mark!MarkState : Visits(state)) \/ PassesSlot \/ PutsOff \/ Leaves
           /\ UNCHANGED <<field, hasDesc, status, threadVars, lockVars, gcPc, cycleVars,
                          GCMarkedBitValue, rootVars, historyVars, fault>>
<1>0. ScanInv /\ TracerType /\ HeapType
  BY BaseParts
<1>1. ASSUME Mark!VisitQueued PROVE \E state \in Mark!MarkState : Visits(state)
  <2> DEFINE state == [block |-> Head(gcMarkQueueUwU), fieldIndex |-> 0]
  <2>1. Head(gcMarkQueueUwU) \in Live
    BY <1>1 DEF MarkStep, ToVisitExists, Mark!VisitQueued
  <2>2. state \in Mark!MarkState /\ state.fieldIndex = 0 /\ state.block = Head(gcMarkQueueUwU)
    BY <2>1 DEF Mark!MarkState, Live
  <2> HIDE DEF state
  <2>3. Mark!Visit(state)
    BY <1>1 DEF Mark!VisitQueued, state
  <2>4. Visits(state)
    BY <1>1, <2>1, <2>2, <2>3, VisitEffect DEF Mark!VisitQueued, Visits
  <2> QED
    BY <2>2, <2>4
<1>2. ASSUME Mark!VisitDeferred PROVE \E state \in Mark!MarkState : Visits(state)
  <2> DEFINE state == Head(deferredMarkQueue)
  <2>1. state \in Mark!MarkState /\ state = deferredMarkQueue[1] /\ 1 \in DOMAIN deferredMarkQueue
    BY <1>0, <1>2, RangeTail, EmptySeq DEF Mark!VisitDeferred, TracerType
  <2>2. state.fieldIndex > 0
    BY <1>0, <2>1 DEF ScanInv
  <2>3. Mark!Visit(state)
    BY <1>2 DEF Mark!VisitDeferred
  <2>4. /\ markPc = "drain" /\ gcMarkQueueUwU = <<>> /\ deferredMarkQueue # <<>>
        /\ state = Head(deferredMarkQueue)
        /\ deferredMarkQueue' = Tail(deferredMarkQueue) /\ UNCHANGED gcMarkQueueUwU
    BY <1>2 DEF Mark!VisitDeferred
  <2> HIDE DEF state
  <2>5. Visits(state)
    BY <2>1, <2>2, <2>3, <2>4, VisitEffect DEF Visits
  <2> QED
    BY <2>1, <2>5
<1>3. ASSUME Mark!SkipNull \/ Mark!Enqueue PROVE PassesSlot
  BY <1>3, AtASlot DEF Mark!SkipNull, Mark!Enqueue, PassesSlot, Ref, Mark!AtSlot
<1>4. ASSUME Mark!Defer PROVE PutsOff
  <2>1. Mark!AtSlot /\ Len(gcMarkQueueUwU) = MarkQueueCap
    BY <1>4 DEF Mark!Defer
  <2>2. scan.fieldIndex + scan.flexIndex > 0
    <3>1. scan.fieldIndex \in Nat /\ scan.flexIndex \in Nat
      BY <1>0 DEF TracerType, Mark!ScanState
    <3>2. scan.fieldIndex + scan.flexIndex # 0
      BY <1>0, <2>1, TracerAssumption DEF ScanInv, Mark!AtSlot
    <3> QED
      BY <3>1, <3>2
  <2>3. Mark!SavedIndex \in Nat \ {0}
    BY <2>1, <2>2, AtASlot
  <2> QED
    BY <1>4, <2>3 DEF Mark!Defer, PutsOff
<1>5. ASSUME Mark!EndMark \/ Mark!EndScan \/ Mark!Panic PROVE Leaves
  BY <1>5 DEF Mark!EndMark, Mark!EndScan, Mark!Panic, Leaves, Mark!AtSlot
<1>6. Mark!MarkStep /\ UNCHANGED <<field, hasDesc, status, threadVars, lockVars, gcPc, cycleVars,
                          GCMarkedBitValue, rootVars, historyVars, fault>>
  BY DEF MarkStep
<1> QED
  BY <1>1, <1>2, <1>3, <1>4, <1>5, <1>6 DEF Mark!MarkStep

LEMMA AppendType ==
    ASSUME NEW S, NEW q \in Seq(S), NEW e \in S, NEW n \in Nat, Len(q) < n
    PROVE  /\ Append(q, e) \in Seq(S) /\ Len(Append(q, e)) <= n
           /\ \A i \in DOMAIN Append(q, e) :
                 (i \in DOMAIN q /\ Append(q, e)[i] = q[i]) \/ Append(q, e)[i] = e
<1>1. /\ Append(q, e) \in Seq(S) /\ Len(Append(q, e)) = Len(q) + 1
      /\ \A i \in 1 .. Len(q) : Append(q, e)[i] = q[i]
      /\ Append(q, e)[Len(q) + 1] = e
  BY AppendProperties
<1>2. Len(q) \in Nat /\ DOMAIN q = 1 .. Len(q)
  BY LenProperties
<1>3. DOMAIN Append(q, e) = 1 .. Len(q) + 1
  BY <1>1, LenProperties
<1> QED
  BY <1>1, <1>2, <1>3

LEMMA TailIndex ==
    ASSUME NEW S, NEW q \in Seq(S), q # <<>>
    PROVE  \A i \in DOMAIN Tail(q) : i + 1 \in DOMAIN q /\ Tail(q)[i] = q[i + 1]
<1>1. /\ Tail(q) \in Seq(S)
      /\ Len(Tail(q)) = Len(q) - 1
      /\ \A i \in 1 .. Len(Tail(q)) : Tail(q)[i] = q[i + 1]
  BY HeadTailProperties
<1>2. Len(q) \in Nat \ {0} /\ DOMAIN q = 1 .. Len(q)
  BY EmptySeq
<1>3. DOMAIN Tail(q) = 1 .. Len(q) - 1
  BY <1>1
<1> QED
  BY <1>1, <1>2, <1>3

LEMMA MarkStepBase == ASSUME BaseInv, MarkStep PROVE BaseInv'
<1>0. /\ HeapType /\ TracerType /\ CycleType /\ HistoryType /\ PhaseInv /\ ScanInv
      /\ UNCHANGED <<field, hasDesc, status, threadVars, lockVars, gcPc, cycleVars,
                     GCMarkedBitValue, rootVars, historyVars, fault>>
  BY BaseParts, MarkStepCases
<1>1. ThreadType' /\ ThreadInv'
  BY <1>0, GcFrame, BaseParts DEF ThreadType
<1>2. HistoryType' /\ CycleType'
  BY <1>0 DEF HistoryType, CycleType
<1>3. /\ HeapType' /\ TracerType' /\ ScanInv'
      /\ markPc # "idle"
  <2>1. ASSUME NEW state \in Mark!MarkState, Visits(state)
        PROVE  HeapType' /\ TracerType' /\ ScanInv' /\ markPc # "idle"
    <3> USE <2>1
    <3>1. HeapType' /\ markPc # "idle"
      BY <1>0 DEF HeapType, Visits
    <3>2. /\ gcMarkQueueUwU' \in Seq(Ref) /\ Len(gcMarkQueueUwU') <= MarkQueueCap
          /\ state.fieldIndex = 0 => Len(gcMarkQueueUwU') < MarkQueueCap
      <4>1. CASE UNCHANGED gcMarkQueueUwU /\ state.fieldIndex > 0
        BY <1>0, <4>1 DEF TracerType
      <4>2. CASE gcMarkQueueUwU # <<>> /\ gcMarkQueueUwU' = Tail(gcMarkQueueUwU)
        <5>1. /\ Tail(gcMarkQueueUwU) \in Seq(Ref)
              /\ Len(Tail(gcMarkQueueUwU)) = Len(gcMarkQueueUwU) - 1
              /\ Len(gcMarkQueueUwU) \in Nat
          BY <1>0, <4>2, RangeTail DEF TracerType
        <5> QED
          BY <1>0, <4>2, <5>1, TracerAssumption DEF TracerType
      <4> QED
        BY <4>1, <4>2 DEF Visits
    <3>3. /\ deferredMarkQueue' \in Seq(Mark!MarkState) /\ Len(deferredMarkQueue') <= DeferredCap
          /\ \A i \in DOMAIN deferredMarkQueue' : deferredMarkQueue'[i].fieldIndex > 0
      <4>1. CASE UNCHANGED deferredMarkQueue
        BY <1>0, <4>1 DEF TracerType, ScanInv
      <4>2. CASE deferredMarkQueue # <<>> /\ deferredMarkQueue' = Tail(deferredMarkQueue)
        <5>1. /\ Tail(deferredMarkQueue) \in Seq(Mark!MarkState)
              /\ Len(Tail(deferredMarkQueue)) = Len(deferredMarkQueue) - 1
              /\ Len(deferredMarkQueue) \in Nat
          BY <1>0, <4>2, RangeTail DEF TracerType
        <5>2. \A i \in DOMAIN Tail(deferredMarkQueue) :
                 /\ i + 1 \in DOMAIN deferredMarkQueue
                 /\ Tail(deferredMarkQueue)[i] = deferredMarkQueue[i + 1]
          BY <1>0, <4>2, TailIndex DEF TracerType
        <5> QED
          BY <1>0, <4>2, <5>1, <5>2, TracerAssumption DEF TracerType, ScanInv
      <4> QED
        BY <4>1, <4>2 DEF Visits
    <3>4. CASE state.fieldIndex = 0 /\ Mark!Marked(state.block)
      <4>1. markPc = "drain" /\ UNCHANGED <<markPc, scan>>
        BY <3>4 DEF Visits
      <4> QED
        BY <1>0, <3>1, <3>2, <3>3, <4>1 DEF TracerType, ScanInv
    <3>5. CASE ~(state.fieldIndex = 0 /\ Mark!Marked(state.block))
      <4>1. /\ markPc' = "scan" /\ scan' \in Mark!ScanState
            /\ scan'.block = state.block /\ scan'.fieldIndex = state.fieldIndex
            /\ scan'.flexIndex = 0
        BY <3>5 DEF Visits
      <4>2. state.block \in Obj /\ state.fieldIndex \in Nat
        BY DEF Mark!MarkState
      <4> QED
        BY <1>0, <3>1, <3>2, <3>3, <4>1, <4>2 DEF TracerType, ScanInv
    <3> QED
      BY <3>4, <3>5
  <2>2. ASSUME PassesSlot PROVE HeapType' /\ TracerType' /\ ScanInv' /\ markPc # "idle"
    <3>1. /\ markPc = "scan" /\ scan' \in Mark!ScanState /\ scan'.block = scan.block
          /\ scan.block \in Obj
          /\ scan'.fieldIndex + scan'.flexIndex > 0
          /\ scan'.fieldIndex < FieldCount[scan.block] => scan'.flexIndex = 0
          /\ UNCHANGED <<markBit, deferredMarkQueue, markPc>>
      BY <2>2, AtASlot DEF PassesSlot
    <3>2. gcMarkQueueUwU' \in Seq(Ref) /\ Len(gcMarkQueueUwU') <= MarkQueueCap
      <4>1. CASE UNCHANGED gcMarkQueueUwU
        BY <1>0, <4>1 DEF TracerType
      <4>2. CASE /\ Mark!Content \in Obj /\ Len(gcMarkQueueUwU) < MarkQueueCap
                 /\ gcMarkQueueUwU' = Append(gcMarkQueueUwU, Mark!Content)
        BY <1>0, <4>2, AppendType, TracerAssumption DEF TracerType, Ref
      <4> QED
        BY <2>2, <4>1, <4>2 DEF PassesSlot
    <3>3. HeapType'
      BY <1>0, <3>1 DEF HeapType
    <3>4. TracerType'
      BY <1>0, <3>1, <3>2 DEF TracerType
    <3>5. ScanInv'
      <4>1. scan'.fieldIndex \in Nat /\ scan'.flexIndex \in Nat
        BY <3>1 DEF Mark!ScanState
      <4> QED
        BY <1>0, <3>1, <4>1 DEF ScanInv
    <3> QED
      BY <3>1, <3>3, <3>4, <3>5
  <2>3. ASSUME PutsOff PROVE HeapType' /\ TracerType' /\ ScanInv' /\ markPc # "idle"
    <3> DEFINE d == [block |-> scan.block, fieldIndex |-> Mark!SavedIndex]
    <3>1. /\ markPc = "scan" /\ markPc' = "drain" /\ scan' = Mark!NoScan
          /\ Len(deferredMarkQueue) < DeferredCap
          /\ deferredMarkQueue' = Append(deferredMarkQueue, d)
          /\ d \in Mark!MarkState /\ d.fieldIndex \in Nat /\ d.fieldIndex > 0
          /\ UNCHANGED <<markBit, gcMarkQueueUwU>>
      BY <2>3, AtASlot DEF PutsOff, Mark!MarkState
    <3> HIDE DEF d
    <3>2. /\ deferredMarkQueue' \in Seq(Mark!MarkState) /\ Len(deferredMarkQueue') <= DeferredCap
          /\ \A i \in DOMAIN deferredMarkQueue' :
                \/ i \in DOMAIN deferredMarkQueue /\ deferredMarkQueue'[i] = deferredMarkQueue[i]
                \/ deferredMarkQueue'[i] = d
      BY <1>0, <3>1, AppendType, TracerAssumption DEF TracerType
    <3>3. Mark!NoScan \in Mark!ScanState
      BY DEF Mark!NoScan, Mark!ScanState, Mark!Ref
    <3>4. HeapType'
      BY <1>0, <3>1 DEF HeapType
    <3>5. TracerType'
      BY <1>0, <3>1, <3>2, <3>3 DEF TracerType
    <3>6. ScanInv'
      BY <1>0, <3>1, <3>2 DEF ScanInv
    <3> QED
      BY <3>1, <3>4, <3>5, <3>6
  <2>4. ASSUME Leaves PROVE HeapType' /\ TracerType' /\ ScanInv' /\ markPc # "idle"
    <3>1. Mark!NoScan \in Mark!ScanState
      BY DEF Mark!NoScan, Mark!ScanState, Mark!Ref
    <3>2. HeapType'
      BY <1>0, <2>4 DEF HeapType, Leaves
    <3>3. TracerType'
      BY <1>0, <2>4, <3>1 DEF TracerType, Leaves
    <3>4. ScanInv'
      BY <1>0, <2>4 DEF ScanInv, Leaves
    <3> QED
      BY <2>4, <3>2, <3>3, <3>4 DEF Leaves
  <2> QED
    BY <2>1, <2>2, <2>3, <2>4, MarkStepCases
<1>4. PhaseInv'
  BY <1>0, <1>3 DEF PhaseInv
<1> QED
  BY <1>0, <1>1, <1>2, <1>3, <1>4, TypeParts2, QueueSame

LEMMA EndMarkingBase == ASSUME BaseInv, EndMarking PROVE BaseInv'
<1> USE BaseParts DEF EndMarking, GoGc, Mark!MarkingDone
<1>1. ThreadType' /\ ThreadInv'
  BY GcFrame DEF ThreadType
<1>2. HeapType'
  BY DEF HeapType
<1>3. HistoryType'
  <2>1. Note(\E t \in Thread : thread[t].pc \in InBarrier, FALSE)
    OBVIOUS
  <2>2. lateBarrier' \in BOOLEAN /\ strayThread' \in BOOLEAN /\ breached' \in BOOLEAN
    BY <2>1 DEF Note
  <2> QED
    BY <2>2 DEF HistoryType
<1>4. TracerType' /\ ScanInv'
  BY DEF TracerType, ScanInv
<1>5. CycleType' /\ PhaseInv'
  BY DEF CycleType, PhaseInv
<1> QED
  BY <1>1, <1>2, <1>3, <1>4, <1>5, TypeParts2, QueueSame

LEMMA ReadChunkBase == ASSUME BaseInv, ReadChunk PROVE BaseInv'
<1> USE BaseParts DEF ReadChunk, ChunkDone
<1>0. needRemarkQueue' \in Seq(Obj) /\ chunk' \in Seq(Obj) /\ WholeQueue'
  <2>1. /\ needRemarkQueue \in Seq(Obj) /\ LocalBufferSize \in Nat \ {0}
        /\ Len(needRemarkQueue) \in Nat /\ Len(needRemarkQueue) # 0
    BY CollectorAssumption, EmptySeq, LenProperties DEF BaseInv, WholeQueue
  <2>2. PICK n \in Nat : Len(needRemarkQueue) = LocalBufferSize * n
    BY DEF BaseInv, WholeQueue
  <2>3. /\ LocalBufferSize <= Len(needRemarkQueue)
        /\ \E r \in Nat : Len(needRemarkQueue) - LocalBufferSize = LocalBufferSize * r
    <3>1. /\ LocalBufferSize <= LocalBufferSize * n
          /\ \E r \in Nat : LocalBufferSize * n - LocalBufferSize = LocalBufferSize * r
      BY ONLY <2>1, <2>2, Whole
    <3> QED
      BY ONLY <2>2, <3>1
  <2>4. /\ needRemarkQueue' \in Seq(Obj) /\ chunk' \in Seq(Obj)
        /\ Len(needRemarkQueue') = Len(needRemarkQueue) - LocalBufferSize
    BY <2>1, <2>3, RangeSplit
  <2> QED
    BY <2>3, <2>4 DEF WholeQueue
<1>1. ThreadType' /\ ThreadInv'
  BY <1>0 DEF ThreadType, ThreadInv, ThreadOK, Filled
<1>2. HeapType' /\ HistoryType'
  BY DEF HeapType, HistoryType
<1>3. TracerType' /\ ScanInv'
  BY DEF TracerType, ScanInv
<1>4. CycleType' /\ PhaseInv'
  BY <1>0, SMTT(60) DEF CycleType, PhaseInv
<1> QED
  BY <1>1, <1>2, <1>3, <1>4, <1>0, TypeParts2 DEF BaseInv

LEMMA RemarkNextBase == ASSUME BaseInv, RemarkNext PROVE BaseInv'
<1> USE BaseParts DEF RemarkNext
<1>1. ThreadType' /\ ThreadInv'
  BY GcFrame DEF ThreadType
<1>2. HeapType' /\ HistoryType'
  BY DEF HeapType, HistoryType, TracerType, Live
<1>3. Head(chunk) \in Obj /\ Head(chunk) \in Ref /\ Mark!DoMark(Head(chunk))
  BY DEF Live, Ref
<1>4. ScanInv' /\ TracerType'
  BY <1>3, DoMarkBase DEF TracerType
<1>5. chunk' \in Seq(Obj)
  BY RangeTail DEF CycleType
<1>6. CycleType' /\ PhaseInv'
  BY <1>3, <1>5 DEF CycleType, PhaseInv, Mark!DoMark
<1> QED
  BY <1>1, <1>2, <1>4, <1>6, TypeParts2, QueueSame

LEMMA EndDrainBase == ASSUME BaseInv, EndDrain PROVE BaseInv'
<1> USE BaseParts DEF EndDrain, GoGc, ChunkDone
<1>1. ThreadType' /\ ThreadInv'
  BY GcFrame DEF ThreadType
<1>2. HeapType' /\ HistoryType'
  BY DEF HeapType, HistoryType
<1>3. TracerType' /\ ScanInv'
  BY DEF TracerType, ScanInv
<1>4. CycleType' /\ PhaseInv'
  BY DEF CycleType, PhaseInv, ThreadType
<1> QED
  BY <1>1, <1>2, <1>3, <1>4, TypeParts2, QueueSame

LEMMA ReadLocalBase == ASSUME BaseInv, NEW t \in Thread, ReadLocal(t) PROVE BaseInv'
<1> USE BaseParts DEF ReadLocal, GoGc
<1>0. chunk' \in Seq(Obj)
  <2>1. thread[t].localRemarkBufferUsage \in 0 .. LocalBufferSize /\ ThreadOK(t)
    BY DEF ThreadType, StructThread, ThreadInv
  <2>2. \A i \in 0 .. thread[t].localRemarkBufferUsage - 1 :
           thread[t].localRemarkBuffer[i] \in Obj
    BY <2>1, CollectorAssumption DEF ThreadOK, Filled
  <2> QED
    BY <2>1, <2>2, EntriesType
<1>1. ThreadType' /\ ThreadInv'
  BY GcFrame DEF ThreadType
<1>2. HeapType' /\ HistoryType'
  BY DEF HeapType, HistoryType
<1>3. TracerType' /\ ScanInv'
  BY DEF TracerType, ScanInv
<1>4. CycleType' /\ PhaseInv'
  BY <1>0 DEF CycleType, PhaseInv
<1> QED
  BY <1>1, <1>2, <1>3, <1>4, TypeParts2, QueueSame

LEMMA ResetEffect ==
    ASSUME BaseInv, ResetLocal
    PROVE  /\ localThread \in Thread /\ localThread \in localLeft /\ localThread \in threads
           /\ OnlyThread(localThread) /\ SameRoots(localThread)
           /\ SameEntries(localThread) /\ SameUsageRead(localThread)
           /\ thread'[localThread].pc = thread[localThread].pc
           /\ thread'[localThread].obj = thread[localThread].obj
           /\ thread'[localThread].localRemarkBufferUsage = 0
<1>1. gcPc = "localChunk" /\ thread' = [thread EXCEPT ![localThread].localRemarkBufferUsage = 0]
  BY DEF ResetLocal, GoGc
<1>2. localThread \in localLeft /\ localThread \in threads /\ localThread \in Thread
  BY <1>1, BaseParts DEF PhaseInv, ThreadType
<1>3. thread \in [Thread -> StructThread] /\ thread[localThread] \in StructThread
  BY <1>2, BaseParts DEF ThreadType
<1> DEFINE self == thread[localThread]
           r == [self EXCEPT !.localRemarkBufferUsage = 0]
<1>4. self \in StructThread
  BY <1>3, SMTT(60)
<1>5. r \in StructThread
  <2>1. /\ self.obj \in Ref /\ self.pc \in ThreadPcs /\ 0 \in 0 .. LocalBufferSize
        /\ self.usageRead \in 0 .. LocalBufferSize - 1
        /\ self.localRemarkBuffer \in [0 .. LocalBufferSize - 1 -> Ref]
    BY <1>4, CollectorAssumption DEF StructThread
  <2> HIDE DEF self
  <2> QED
    BY <1>4, <2>1, Updated
<1>6. /\ r.pc = self.pc /\ r.obj = self.obj /\ r.usageRead = self.usageRead
      /\ r.rootEntries = self.rootEntries
      /\ r.localRemarkBuffer = self.localRemarkBuffer
      /\ r.localRemarkBufferUsage = 0
  BY <1>4 DEF StructThread
<1>7. thread' = [thread EXCEPT ![localThread] = r]
  BY <1>1, <1>3
<1> HIDE DEF r
<1>8. OnlyThread(localThread) /\ thread'[localThread] = r
  BY <1>2, <1>3, <1>5, <1>7 DEF OnlyThread
<1> QED
  BY <1>2, <1>6, <1>8 DEF SameRoots, SameEntries, SameUsageRead

LEMMA ResetLocalBase == ASSUME BaseInv, ResetLocal PROVE BaseInv'
<1> USE BaseParts DEF ResetLocal, GoGc, ChunkDone
<1>1. ThreadType' /\ ThreadInv'
  <2>1. ASSUME NEW u \in Thread PROVE ThreadOK(u)'
    <3>1. ThreadOK(u) /\ thread[u] \in StructThread
      BY DEF ThreadInv, ThreadType
    <3>2. CASE u = localThread
      <4>1. /\ thread'[u].pc = thread[u].pc /\ thread'[u].obj = thread[u].obj
            /\ thread'[u].localRemarkBufferUsage = 0
            /\ thread'[u].localRemarkBuffer = thread[u].localRemarkBuffer
            /\ thread'[u].usageRead = thread[u].usageRead
            /\ UNCHANGED <<threads, holders>>
        BY <3>2, ResetEffect DEF SameEntries, SameUsageRead
      <4> QED
        BY <3>1, <4>1, CollectorAssumption DEF ThreadOK, Filled
    <3>3. CASE u # localThread
      <4>1. thread'[u] = thread[u]
        BY <3>3, ResetEffect DEF OnlyThread
      <4> QED
        BY <3>1, <4>1 DEF ThreadOK, Filled
    <3> QED
      BY <3>2, <3>3
  <2>2. thread' \in [Thread -> StructThread]
    BY ResetEffect DEF OnlyThread
  <2>3. \A u \in Thread :
           thread'[u].localRemarkBufferUsage = LocalBufferSize => thread'[u].pc = "flush"
    BY <2>1 DEF ThreadOK
  <2> QED
    BY <2>1, <2>2, <2>3 DEF ThreadType, ThreadInv
<1>2. HeapType' /\ HistoryType'
  BY DEF HeapType, HistoryType
<1>3. TracerType' /\ ScanInv'
  BY DEF TracerType, ScanInv
<1>4. CycleType' /\ PhaseInv'
  BY DEF CycleType, PhaseInv
<1> QED
  BY <1>1, <1>2, <1>3, <1>4, TypeParts2, QueueSame

LEMMA EndLocalBase == ASSUME BaseInv, EndLocal PROVE BaseInv'
<1> USE BaseParts DEF EndLocal, GoGc
<1>1. ThreadType' /\ ThreadInv'
  BY GcFrame DEF ThreadType
<1>2. HeapType' /\ HistoryType'
  BY DEF HeapType, HistoryType
<1>3. TracerType' /\ ScanInv'
  BY DEF TracerType, ScanInv
<1>4. CycleType' /\ PhaseInv'
  BY DEF CycleType, PhaseInv
<1> QED
  BY <1>1, <1>2, <1>3, <1>4, TypeParts2, QueueSame

(* What the sweep does to a block *)
LEMMA SweepEffect ==
    ASSUME BaseInv, NEW block \in toSweep, SweepBlock(block)
    PROVE  /\ gcPc = "sweep" /\ block \in Obj /\ toSweep' = toSweep \ {block}
           /\ Mark!Marked(block) => UNCHANGED blockVars
           /\ ~Mark!Marked(block) =>
                /\ status' \in [Obj -> {"none", "live", "freed"}]
                /\ \A o \in Obj : status'[o] = IF o = block THEN "freed" ELSE status[o]
                /\ field' \in Mark!Fields
                /\ \A o \in Obj : \A s \in Mark!Slots(o) :
                      field'[o][s] = IF o = block THEN NULL ELSE field[o][s]
                /\ hasDesc' \in [Obj -> BOOLEAN]
                /\ \A o \in Obj : hasDesc'[o] <=> o # block /\ hasDesc[o]
                /\ markBit' \in [Obj -> BOOLEAN]
                /\ \A o \in Obj : markBit'[o] = IF o = block THEN FALSE ELSE markBit[o]
           /\ UNCHANGED <<threadVars, lockVars, gcPc, flagVars, snapshotVars, remarkVars,
                          traceVars, historyVars, fault>>
<1>1. block \in Obj /\ HeapType /\ TypeOK
  BY BaseParts DEF CycleType
<1>2. /\ gcPc = "sweep" /\ toSweep' = toSweep \ {block}
      /\ UNCHANGED <<threadVars, lockVars, gcPc, flagVars, snapshotVars, remarkVars,
                     traceVars, historyVars, fault>>
  BY DEF SweepBlock
<1>3. CASE Mark!Marked(block)
  BY <1>1, <1>2, <1>3 DEF SweepBlock
<1>4. CASE ~Mark!Marked(block)
  <2>1. /\ status' = [status EXCEPT ![block] = "freed"]
        /\ field' = [field EXCEPT ![block] = NoFields[block]]
        /\ hasDesc' = [hasDesc EXCEPT ![block] = FALSE]
        /\ markBit' = [markBit EXCEPT ![block] = FALSE]
    BY <1>4 DEF SweepBlock
  <2>2. /\ field' \in Mark!Fields
        /\ \A o \in Obj : \A s \in Mark!Slots(o) :
              field'[o][s] = IF o = block THEN NULL ELSE field[o][s]
    BY <1>1, <2>1, FieldsCleared
  <2>3. /\ hasDesc' \in [Obj -> BOOLEAN]
        /\ \A o \in Obj : hasDesc'[o] <=> o # block /\ hasDesc[o]
    BY <1>1, <2>1 DEF HeapType
  <2>4. /\ status' \in [Obj -> {"none", "live", "freed"}]
        /\ \A o \in Obj : status'[o] = IF o = block THEN "freed" ELSE status[o]
        /\ markBit' \in [Obj -> BOOLEAN]
        /\ \A o \in Obj : markBit'[o] = IF o = block THEN FALSE ELSE markBit[o]
    BY <1>1, <2>1 DEF HeapType
  <2> QED
    BY <1>1, <1>2, <1>4, <2>2, <2>3, <2>4
<1> QED
  BY <1>3, <1>4

LEMMA SweepBase == ASSUME BaseInv, NEW block \in toSweep, SweepBlock(block) PROVE BaseInv'
<1>0. /\ gcPc = "sweep" /\ toSweep' = toSweep \ {block}
      /\ UNCHANGED <<threadVars, lockVars, gcPc, flagVars, snapshotVars, remarkVars,
                     traceVars, historyVars, fault>>
  BY SweepEffect
<1> USE BaseParts
<1>1. ThreadType' /\ ThreadInv'
  BY <1>0, GcFrame DEF ThreadType
<1>2. HeapType'
  <2>1. CASE Mark!Marked(block)
    BY <2>1, SweepEffect DEF HeapType
  <2>2. CASE ~Mark!Marked(block)
    BY <2>2, SweepEffect DEF HeapType
  <2> QED
    BY <2>1, <2>2
<1>3. HistoryType'
  BY <1>0 DEF HistoryType
<1>4. TracerType' /\ ScanInv'
  BY <1>0 DEF TracerType, ScanInv
<1>5. CycleType' /\ PhaseInv'
  BY <1>0 DEF CycleType, PhaseInv
<1> QED
  BY <1>0, <1>1, <1>2, <1>3, <1>4, <1>5, TypeParts2, QueueSame

LEMMA EndSweepBase == ASSUME BaseInv, EndSweep PROVE BaseInv'
<1> USE BaseParts DEF EndSweep, GoGc, Lock!Request
<1>1. ThreadType' /\ ThreadInv'
  BY GcFrame
<1>2. HeapType' /\ HistoryType'
  BY DEF HeapType, HistoryType
<1>3. TracerType' /\ ScanInv'
  BY DEF TracerType, ScanInv
<1>4. CycleType' /\ PhaseInv'
  BY DEF CycleType, PhaseInv
<1> QED
  BY <1>1, <1>2, <1>3, <1>4, TypeParts2, QueueSame

LEMMA NoFieldsType == NoFields \in Mark!Fields
<1>1. \A o \in Obj : NoFields[o] \in [Mark!Slots(o) -> Mark!Ref]
  BY DEF NoFields, Mark!Ref
<1>2. NoFields \in [Obj -> UNION {[Mark!Slots(o) -> Mark!Ref] : o \in Obj}]
  BY <1>1 DEF NoFields
<1> QED
  BY <1>1, <1>2 DEF Mark!Fields

LEMMA FinishBase == ASSUME BaseInv, FinishCycle PROVE BaseInv'
<1> USE BaseParts DEF FinishCycle, GoGc
<1>1. ThreadType' /\ ThreadInv'
  BY GcFrame
<1>2. HeapType'
  BY DEF HeapType
<1>3. HistoryType'
  BY NoFieldsType DEF HistoryType
<1>4. TracerType' /\ ScanInv'
  BY DEF TracerType, ScanInv, PhaseInv
<1>5. CycleType'
  <2>1. cycleID' \in 0 .. MaxCycles
    BY CollectorAssumption DEF CycleType, PhaseInv
  <2> QED
    BY <2>1 DEF CycleType
<1>6. PhaseInv'
  BY DEF PhaseInv
<1> QED
  BY <1>1, <1>2, <1>3, <1>4, <1>5, <1>6, TypeParts2, QueueSame

LEMMA FailBase == ASSUME BaseInv, Fail \/ UNCHANGED vars PROVE BaseInv'
<1>1. /\ UNCHANGED <<blockVars, threadVars, lockVars, gcVars, historyVars>>
      /\ fault' \in {"none", "useAfterFree", "uninitialised", "nullDeref", "bugOn", "panic"}
  BY BaseParts DEF Fail, vars, HistoryType
<1> USE BaseParts, <1>1
<1>2. ThreadType' /\ ThreadInv'
  BY GcFrame DEF ThreadType
<1>3. HeapType' /\ HistoryType'
  BY DEF HeapType, HistoryType
<1>4. TracerType' /\ ScanInv'
  BY DEF TracerType, ScanInv
<1>5. CycleType' /\ PhaseInv'
  BY DEF CycleType, PhaseInv
<1> QED
  BY <1>2, <1>3, <1>4, <1>5, TypeParts2, QueueSame

LEMMA BaseInit == Init => BaseInv
<1> SUFFICES ASSUME Init PROVE BaseInv
  OBVIOUS
<1>0. /\ NULL \in Ref /\ Mark!NoScan \in Mark!ScanState /\ <<>> \in Seq(Ref)
      /\ <<>> \in Seq(Obj) /\ <<>> \in Seq(Mark!MarkState) /\ Len(<<>>) = 0
  BY DEF Ref, Mark!NoScan, Mark!ScanState, Mark!Ref
<1>1. HeapType
  BY DEF Init, HeapType
<1>2. PICK roots \in [threads -> SUBSET Live] :
         thread = [t \in Thread |->
             IF t \in threads THEN [NewThread EXCEPT !.rootEntries = roots[t]]
                              ELSE [NewThread EXCEPT !.pc = "out"]]
  BY DEF Init
<1>3. ASSUME NEW t \in Thread
      PROVE  /\ thread[t] \in StructThread
             /\ thread[t].pc = IF t \in threads THEN "idle" ELSE "out"
             /\ thread[t].localRemarkBufferUsage = 0
  <2>1. CASE t \in threads
    <3>1. thread[t] = [NewThread EXCEPT !.rootEntries = roots[t]]
      BY <1>2, <2>1
    <3>2. roots[t] \in SUBSET Ref
      BY <1>2, <2>1 DEF Live, Ref
    <3>3. /\ NewThread \in StructThread /\ NewThread.pc = "idle"
          /\ NewThread.localRemarkBufferUsage = 0
      BY NewThreadType
    <3> HIDE DEF NewThread
    <3> QED
      BY <2>1, <3>1, <3>2, <3>3 DEF StructThread
  <2>2. CASE t \notin threads
    <3>1. thread[t] = [NewThread EXCEPT !.pc = "out"]
      BY <1>2, <2>2
    <3> QED
      BY <2>2, <3>1, NewThreadType
  <2> QED
    BY <2>1, <2>2
<1>4. thread \in [Thread -> StructThread]
  BY <1>2, <1>3
<1>5. ThreadType
  <2>1. \A t \in Thread : thread[t].localRemarkBufferUsage # LocalBufferSize
    BY <1>3, CollectorAssumption
  <2> QED
    BY <1>0, <1>4, <2>1 DEF ThreadType, Init
<1>6. ThreadInv
  <2>1. holders = {}
    BY DEF Init
  <2> QED
    BY <1>3, <2>1, CollectorAssumption DEF ThreadInv, ThreadOK, Filled, InBarrier, Making
<1>7. TracerType /\ ScanInv
  <2>1. /\ GCMarkedBitValue = FALSE /\ markPc = "idle" /\ scan = Mark!NoScan
        /\ snapshotOfRootSet = {} /\ rootsLeft = {} /\ premarked = {}
        /\ gcMarkQueueUwU = <<>> /\ deferredMarkQueue = <<>>
    BY DEF Init
  <2>2. TracerType
    <3>1. /\ gcMarkQueueUwU \in Seq(Ref) /\ deferredMarkQueue \in Seq(Mark!MarkState)
          /\ scan \in Mark!ScanState
      BY <1>0, <2>1
    <3>2. Len(gcMarkQueueUwU) <= MarkQueueCap /\ Len(deferredMarkQueue) <= DeferredCap
      BY <2>1, TracerAssumption
    <3> QED
      BY <2>1, <3>1, <3>2 DEF TracerType
  <2>3. ScanInv
    BY <2>1 DEF ScanInv
  <2> QED
    BY <2>2, <2>3
<1>8. CycleType /\ HistoryType
  <2>1. /\ gcPc = "idle" /\ mutatorMarkedBitValue = FALSE /\ markingInProgress = FALSE
        /\ totalRootRefs = 0 /\ cycleID = 0 /\ chunk = <<>>
        /\ objectsListSnapshot = {} /\ toSweep = {} /\ localLeft = {} /\ localThread = NULL
        /\ lateBarrier = FALSE /\ strayThread = FALSE /\ breached = FALSE
        /\ snapshotField = NoFields /\ fault = "none"
    BY DEF Init
  <2>2. CycleType
    <3>1. chunk \in Seq(Obj)
      BY <1>0, <2>1
    <3>2. 0 \in Nat /\ 0 \in 0 .. MaxCycles
      BY CollectorAssumption
    <3> QED
      BY <2>1, <3>1, <3>2 DEF CycleType
  <2>3. HistoryType
    BY <2>1, NoFieldsType DEF HistoryType
  <2> QED
    BY <2>2, <2>3
<1>9. PhaseInv
  BY DEF Init, PhaseInv
<1>10. WholeQueue
  <2>1. Len(needRemarkQueue) = LocalBufferSize * 0 /\ needRemarkQueue \in Seq(Obj)
    BY <1>0, CollectorAssumption DEF Init
  <2> QED
    BY <2>1 DEF WholeQueue
<1> QED
  BY <1>1, <1>5, <1>6, <1>7, <1>8, <1>9, <1>10, TypeParts DEF BaseInv

(* The steps there are: a thread's operation, one of the GC thread's, or   *)
(* one that changes nothing but fault.                                     *)
ThreadStep(t) ==
    \/ \E roots \in SUBSET Ref, obj \in Ref : Operates(t, roots, obj)
    \/ \E obj \in Obj, pc \in {"idle", "init"} : Allocated(t, obj, pc)
    \/ \E obj \in Obj : FieldsWritten(t, obj) \/ Published(t, obj)
    \/ Barrier(t) \/ AttachThread(t) \/ DetachThread(t)
    \/ \E root \in thread[t].rootEntries : DropRoot(t, root)
    \/ FreeThread(t)

LEMMA Steps ==
    ASSUME BaseInv, [Next]_vars
    PROVE  \/ \E t \in Thread : ThreadStep(t) /\ Running
           \/ GcStep /\ Running
           \/ Fail \/ UNCHANGED vars
<1>1. ASSUME NEW t \in Thread, Begin(t) PROVE ThreadStep(t)
  <2>1. CASE \E obj \in Obj : Alloc(t, obj)
    <3>1. PICK obj \in Obj : Alloc(t, obj)
      BY <2>1
    <3>2. PICK pc : Allocated(t, obj, pc)
      BY <3>1, AllocEffect, BaseParts
    <3>3. pc \in {"idle", "init"}
      BY <3>2 DEF Allocated
    <3> QED
      BY <3>2, <3>3 DEF ThreadStep
  <2>2. CASE \/ \E block \in Held(t) : \E slot \in Mark!Slots(block) :
                  \/ ReadRef(t, block, slot)
                  \/ \E newBlock \in thread[t].rootEntries \union {NULL} :
                        WriteRef(t, block, slot, newBlock)
             \/ \E root \in thread[t].rootEntries : Unref(t, root)
             \/ \E u \in threads : \E obj \in thread[u].rootEntries : NewRoot(t, obj)
    BY <2>2, BeginOperates, BaseParts DEF ThreadStep
  <2>3. CASE AttachThread(t) \/ DetachThread(t)
    BY <2>3 DEF ThreadStep
  <2> QED
    BY <1>1, <2>1, <2>2, <2>3 DEF Begin
<1>2. ASSUME NEW t \in Thread, Continue(t) PROVE ThreadStep(t)
  <2>1. CASE InitFields(t) \/ PublishDesc(t)
    <3>1. ThreadOK(t)
      BY BaseParts DEF ThreadInv
    <3>2. /\ thread[t].obj \in Obj
          /\ FieldsWritten(t, thread[t].obj) \/ Published(t, thread[t].obj)
      BY <2>1, <3>1, InitEffect, PublishEffect, BaseParts
    <3> QED
      BY <3>2 DEF ThreadStep
  <2>2. CASE \/ Barrier(t) \/ (\E root \in thread[t].rootEntries : DropRoot(t, root))
             \/ FreeThread(t)
    BY <2>2 DEF ThreadStep
  <2> QED
    BY <1>2, <2>1, <2>2 DEF Continue
<1> QED
  BY <1>1, <1>2 DEF Next

LEMMA ThreadStepBase ==
    ASSUME BaseInv, NEW t \in Thread, ThreadStep(t) PROVE BaseInv'
  BY OperatesBase, AllocBase, InitBase, PublishBase, BarrierBase, AttachBase, DetachBase, DropBase,
     FreeBase DEF ThreadStep

LEMMA GcStepBase == ASSUME BaseInv, GcStep PROVE BaseInv'
  BY StartBase, CountBase, CopyBase, MarkRootBase, MarkStepBase, EndMarkingBase,
     ReadChunkBase, RemarkNextBase, EndDrainBase, ReadLocalBase, ResetLocalBase,
     EndLocalBase, SweepBase, EndSweepBase, FinishBase DEF GcStep

LEMMA BaseStep == BaseInv /\ [Next]_vars => BaseInv'
  BY Steps, ThreadStepBase, GcStepBase, FailBase

LEMMA BaseCorrect == Spec => []BaseInv
  BY BaseInit, BaseStep, PTL DEF Spec

(* TypeOK: buffers and queues hold blocks and stay within their bounds,    *)
(* whoever writes to them when; struct thread, the lock and the counters   *)
(* of gc/gc.c take no other values.                                        *)
THEOREM CollectorTypes == Spec => []TypeOK
<1>1. BaseInv => TypeOK
  BY DEF BaseInv
<1> QED
  BY <1>1, BaseCorrect, PTL

(* RemarkQueueWhole: a flush is of a whole buffer and a read of a whole    *)
(* chunk, so the read of gc.c:290-298 never meets fewer references than it *)
(* asks for.                                                               *)
THEOREM ChunksAreWhole == Spec => []RemarkQueueWhole
<1>1. BaseInv => RemarkQueueWhole
  <2> SUFFICES ASSUME BaseInv PROVE RemarkQueueWhole
    OBVIOUS
  <2>1. PICK n \in Nat : Len(needRemarkQueue) = LocalBufferSize * n
    BY DEF BaseInv, WholeQueue
  <2>2. (LocalBufferSize * n) % LocalBufferSize = 0
    BY Whole, CollectorAssumption
  <2> QED
    BY <2>1, <2>2 DEF RemarkQueueWhole
<1> QED
  BY <1>1, BaseCorrect, PTL

-----------------------------------------------------------------------------
(* Between the two passes over the roots *)
RootCounts == [t \in Thread |-> Cardinality(thread[t].rootEntries)]

LEMMA RootsSame ==
    ASSUME BaseInv, BaseInv', UNCHANGED threads,
           \A t \in threads : thread'[t].rootEntries = thread[t].rootEntries
    PROVE  RootRefs(threads)' = RootRefs(threads)
<1> DEFINE f == RootCounts
           g == RootCounts'
<1>1. threads \subseteq Thread /\ IsFiniteSet(threads)
  BY BaseParts, CollectorFinite, FS_Subset DEF ThreadType
<1>2. \A t \in threads : f[t] = g[t]
  BY <1>1 DEF RootCounts
<1>3. RootRefs(threads) = SumFunctionOnSet(f, threads)
  BY DEF RootRefs, RootCounts
<1>4. RootRefs(threads)' = SumFunctionOnSet(g, threads)
  BY DEF RootRefs, RootCounts
<1> HIDE DEF f, g
<1>5. SumFunctionOnSet(f, threads) = SumFunctionOnSet(g, threads)
  BY <1>1, <1>2, SumSame
<1> QED
  BY <1>3, <1>4, <1>5

LEMMA RootsAdded ==
    ASSUME BaseInv, BaseInv', NEW t \in Thread, t \notin threads, threads' = threads \union {t},
           OnlyThread(t), thread'[t].rootEntries = {}
    PROVE  RootRefs(threads)' = RootRefs(threads)
<1> DEFINE f == RootCounts
           g == RootCounts'
<1>1. threads \subseteq Thread /\ IsFiniteSet(threads)
  BY BaseParts, CollectorFinite, FS_Subset DEF ThreadType
<1>2. \A u \in threads : f[u] = g[u]
  BY <1>1 DEF RootCounts, OnlyThread
<1>3. g[t] = 0
  BY FS_EmptySet DEF RootCounts
<1>4. RootRefs(threads) = SumFunctionOnSet(f, threads)
  BY DEF RootRefs, RootCounts
<1>5. RootRefs(threads)' = SumFunctionOnSet(g, threads \union {t})
  BY DEF RootRefs, RootCounts
<1>6. \A u \in threads : f[u] \in Nat
  <2>1. IsFiniteSet(Obj \union {NULL})
    BY CollectorFinite, FS_AddElement
  <2>2. \A u \in threads : thread[u].rootEntries \subseteq Obj \union {NULL}
    BY <1>1, BaseParts DEF ThreadType, StructThread, Ref
  <2>3. \A u \in threads : Cardinality(thread[u].rootEntries) \in Nat
    BY <2>1, <2>2, FS_Subset, FS_CardinalityType
  <2> QED
    BY <1>1, <2>3 DEF RootCounts
<1> HIDE DEF f, g
<1>7. SumFunctionOnSet(f, threads) = SumFunctionOnSet(g, threads)
  BY <1>1, <1>2, SumSame
<1>8. \A u \in threads : g[u] \in Nat
  BY <1>2, <1>6
<1>9. SumFunctionOnSet(g, threads \union {t}) = SumFunctionOnSet(g, threads) + g[t]
  BY <1>1, <1>3, <1>8, SumAdd
<1>10. SumFunctionOnSet(g, threads) \in Nat
  BY <1>1, <1>8, SumType
<1> QED
  BY <1>3, <1>4, <1>5, <1>7, <1>9, <1>10

LEMMA FrozenThread ==
    ASSUME BaseInv, BaseInv', NEW t \in Thread, ThreadStep(t), gcPc = "copy"
    PROVE  RootRefs(threads)' = RootRefs(threads) \/ (threads' \subseteq threads /\ threads' # threads)
<1>1. TypeOK /\ gcPhase = "exclusive" /\ holders = {} /\ ThreadOK(t)
  BY BaseParts DEF PhaseInv, ThreadInv
<1>2. ASSUME UNCHANGED threads, OnlyThread(t), SameRoots(t) \/ t \notin threads
      PROVE  RootRefs(threads)' = RootRefs(threads)
  <2>1. \A u \in threads : thread'[u].rootEntries = thread[u].rootEntries
    BY <1>2, BaseParts DEF OnlyThread, SameRoots, ThreadType
  <2> QED
    BY <1>2, <2>1, RootsSame
<1>3. ASSUME NEW roots \in SUBSET Ref, NEW obj \in Ref, Operates(t, roots, obj) PROVE FALSE
  BY <1>1, <1>3 DEF Operates
<1>4. ASSUME NEW obj \in Obj, NEW pc, Allocated(t, obj, pc) PROVE FALSE
  BY <1>1, <1>4 DEF Allocated
<1>5. CASE \E obj \in Obj : FieldsWritten(t, obj) \/ Published(t, obj)
  BY <1>2, <1>5 DEF FieldsWritten, GoesOn, Published
<1>6. CASE Barrier(t)
  <2>1. UNCHANGED threads /\ OnlyThread(t) /\ SameRoots(t)
    <3>1. CASE LoadMarkingInProgress(t)
      BY <1>1, <1>6, <3>1, LoadEffect DEF Barrier, GoesOn, Returned
    <3>2. CASE ExchangeMarkBit(t)
      BY <1>1, <1>6, <3>2, ExchangeEffect DEF Barrier, GoesOn, Returned
    <3>6. CASE CompareMarkBit(t)
      BY <1>1, <1>6, <3>6, CompareEffect DEF Barrier, GoesOn, Returned
    <3>3. CASE Push(t)
      BY <1>1, <1>6, <3>3, PushEffect DEF Barrier, GoesOn
    <3>4. CASE Bump(t)
      BY <1>1, <1>6, <3>4, BumpEffect DEF Barrier, GoesOn, Returned
    <3>5. CASE Flush(t)
      BY <1>1, <1>6, <3>5, FlushEffect DEF Barrier, Returned
    <3> QED
      BY <1>6, <3>1, <3>2, <3>3, <3>4, <3>5, <3>6 DEF Barrier
  <2> QED
    BY <1>2, <2>1
<1>7. CASE AttachThread(t)
  <2>1. /\ t \notin threads /\ threads' = threads \union {t} /\ OnlyThread(t)
        /\ thread'[t].rootEntries = {}
    BY <1>1, <1>7, AttachEffect DEF ThreadOK, Blank
  <2> QED
    BY <2>1, RootsAdded
<1>8. CASE DetachThread(t)
  <2>1. t \in threads /\ threads' = threads \ {t}
    BY <1>1, <1>8, DetachEffect
  <2> QED
    BY <2>1
<1>9. CASE \E root \in thread[t].rootEntries : DropRoot(t, root)
  <2>1. UNCHANGED threads /\ OnlyThread(t) /\ thread[t].pc = "detach"
    BY <1>1, <1>9, DropEffect
  <2> QED
    BY <1>1, <1>2, <2>1 DEF ThreadOK
<1>10. CASE FreeThread(t)
  <2>1. UNCHANGED threads /\ OnlyThread(t) /\ thread[t].pc = "detach"
    BY <1>1, <1>10, FreeEffect
  <2> QED
    BY <1>1, <1>2, <2>1 DEF ThreadOK
<1> QED
  BY <1>3, <1>4, <1>5, <1>6, <1>7, <1>8, <1>9, <1>10 DEF ThreadStep

LEMMA FrozenGc ==
    ASSUME BaseInv, GcStep, gcPc = "copy" PROVE gcPc' = "mark"
<1>1. markPc = "idle" /\ chunk = <<>>
  BY BaseParts DEF PhaseInv
<1>2. ~MarkStep
  BY <1>1 DEF MarkStep, Mark!MarkStep, Mark!VisitQueued, Mark!VisitDeferred, Mark!EndMark,
     Mark!EndScan, Mark!SkipNull, Mark!Enqueue, Mark!Defer, Mark!Panic, Mark!AtSlot
<1> QED
  BY <1>1, <1>2 DEF GcStep, StartCycle, CountRoots, CopyRoots, MarkRoot, EndMarking,
     ReadChunk, RemarkNext, EndDrain, ReadLocal, ResetLocal, EndLocal, SweepBlock, EndSweep,
     FinishCycle, GoGc

(* RootsFrozen: while the GC thread counts and copies the roots, the lock  *)
(* keeps every operation out that would change them; a thread that leaves  *)
(* the list meanwhile is the only way the counts can differ (the BUG_ON of *)
(* gc.c:265-266, 273-275).                                                 *)
THEOREM RootsStayFrozen == Spec => RootsFrozen
<1>1. ASSUME BaseInv, BaseInv', [Next]_vars
      PROVE  [gcPc = "copy" /\ RootRefs(threads)' # RootRefs(threads)
                => gcPc' # "copy" \/ (threads' \subseteq threads /\ threads' # threads)]_vars
  <2>1. CASE UNCHANGED vars
    <3>1. RootRefs(threads)' = RootRefs(threads)
      BY <1>1, <2>1, RootsSame DEF vars
    <3> QED
      BY <3>1
  <2>2. CASE Fail
    <3>1. UNCHANGED <<threads, thread>>
      BY <2>2 DEF Fail
    <3>2. RootRefs(threads)' = RootRefs(threads)
      BY <1>1, <3>1, RootsSame
    <3> QED
      BY <3>2
  <2>3. CASE \E t \in Thread : ThreadStep(t)
    BY <1>1, <2>3, FrozenThread
  <2>4. CASE GcStep
    BY <1>1, <2>4, FrozenGc
  <2> QED
    BY <1>1, <2>1, <2>2, <2>3, <2>4, Steps
<1> QED
  BY <1>1, BaseCorrect, PTL DEF Spec, RootsFrozen

-----------------------------------------------------------------------------
(* What all operations of a thread have in common *)
Fresh == {o \in Obj : status[o] = "none" /\ status'[o] = "live"}

(* Blocks come into use, and get marked by an exchange. *)
HeapStep(t) ==
    /\ OnlyThread(t) /\ UNCHANGED <<gcVars, snapshotField, fault, gcPhase>>
    /\ \A o \in Obj : status'[o] = status[o] \/ (status[o] = "none" /\ status'[o] = "live")
    /\ \A o \in Obj : hasDesc'[o] <=> hasDesc[o] \/ (thread[t].pc = "publish" /\ thread[t].obj = o)
    /\ \A o \in Obj : status[o] # "none" =>
          (Mark!Marked(o)' <=> Mark!Marked(o) \/ (thread[t].pc = "exchange" /\ thread[t].obj = o))

(* A reference written over goes to the barrier. *)
FieldStep(t) ==
    \A o \in Obj : \A s \in Mark!Slots(o) :
        \/ field'[o][s] = field[o][s]
        \/ /\ o \in Live /\ hasDesc[o]
           /\ field'[o][s] \in thread[t].rootEntries \union {NULL}
           /\ t \in threads /\ t \in threads'
           /\ field[o][s] # NULL => thread'[t].pc = "load" /\ thread'[t].obj = field[o][s]
        \/ field'[o][s] = NULL /\ thread[t].pc = "init" /\ thread[t].obj = o

(* A thread comes by a reference from a root or from a block it holds. *)
RootStep(t) ==
    /\ \A r \in thread'[t].rootEntries :
          (\E u \in Thread : r \in thread[u].rootEntries) \/ Reads(t, r) \/ r \in Fresh
    /\ thread'[t].pc \in InBarrier =>
          \/ thread[t].pc \in InBarrier /\ thread'[t].obj = thread[t].obj
          \/ thread'[t].obj \in thread[t].rootEntries
          \/ Reads(t, thread'[t].obj)

(* Where a barrier goes, what it leaves a note of, and how a thread gets   *)
(* on the list and off it.                                                 *)
PcStep(t) ==
    /\ thread'[t].pc \in InBarrier /\ thread[t].pc \notin InBarrier =>
          thread'[t].pc = "load" /\ (AfterMarking => lateBarrier')
    /\ thread'[t].pc = "exchange" =>
          thread[t].pc = "load" /\ markingInProgress /\ thread'[t].obj = thread[t].obj
    /\ thread[t].pc = "load" /\ markingInProgress =>
          thread'[t].pc = "exchange" /\ thread'[t].obj = thread[t].obj
    /\ thread'[t].pc \in Pushing =>
          \/ thread[t].pc \in Pushing
          \/ thread[t].pc = "compare" /\ thread[t].prevMarkBit # GCMarkedBitValue
          \/ thread[t].pc = "exchange" /\ ~Mark!Marked(thread[t].obj)
    /\ t \in threads /\ thread[t].pc = "exchange" /\ ~Mark!Marked(thread[t].obj) =>
          thread'[t].pc = "push" /\ thread'[t].obj = thread[t].obj
    /\ thread'[t].pc = "compare" =>
          thread[t].pc = "exchange" /\ thread'[t].prevMarkBit = markBit[thread[t].obj]
    /\ thread'[t].pc = "init" => thread'[t].obj \in Fresh
    /\ thread'[t].pc = "publish" => thread[t].pc = "init" /\ thread'[t].obj = thread[t].obj

NoteStep(t) ==
    /\ lateBarrier => lateBarrier'
    /\ strayThread => strayThread'
    /\ breached => breached'
    /\ lateBarrier' => lateBarrier \/ breached'
    /\ strayThread' => strayThread \/ breached'
    /\ t \notin threads /\ thread[t].pc = "exchange" /\ ~Mark!Marked(thread[t].obj) => strayThread'

ListStep(t) ==
    /\ \A u \in Thread : u # t => (u \in threads' <=> u \in threads)
    /\ threads' # threads => ThreadListLockFree
    /\ t \in threads' /\ t \notin threads => Blank(t) /\ thread'[t].pc = "idle"
    /\ t \in threads /\ t \notin threads' =>
          /\ thread[t].pc = "idle" /\ thread'[t].pc = "detach"
          /\ thread[t].localRemarkBufferUsage > 0 => strayThread'

(* What happens to a local buffer *)
BufferKept(t) ==
    /\ SameEntries(t) /\ SameUsage(t) /\ UNCHANGED needRemarkQueue
    /\ thread[t].pc \notin Pushing /\ thread'[t].pc \notin {"bump", "flush"}

BufferNew(t) ==
    /\ thread'[t].localRemarkBufferUsage = 0 /\ UNCHANGED needRemarkQueue
    /\ thread[t].pc \in {"out", "detach"} /\ thread'[t].pc \in {"out", "idle"}

BufferWritten(t) ==
    /\ thread[t].pc = "push" /\ GoesOn(t, "bump") /\ SameUsage(t)
    /\ thread[t].localRemarkBufferUsage \in 0 .. LocalBufferSize - 1
    /\ thread'[t].usageRead = thread[t].localRemarkBufferUsage
    /\ \A i \in 0 .. LocalBufferSize - 1 :
          thread'[t].localRemarkBuffer[i] =
              IF i = thread[t].localRemarkBufferUsage
              THEN thread[t].obj ELSE thread[t].localRemarkBuffer[i]
    /\ UNCHANGED <<threads, needRemarkQueue>>

BufferCounted(t) ==
    /\ thread[t].pc = "bump" /\ SameEntries(t)
    /\ thread'[t].localRemarkBufferUsage = thread[t].usageRead + 1
    /\ thread[t].usageRead + 1 = LocalBufferSize => GoesOn(t, "flush")
    /\ thread[t].usageRead + 1 # LocalBufferSize => Returned(t)
    /\ UNCHANGED <<threads, needRemarkQueue>>

BufferFlushed(t) ==
    /\ thread[t].pc = "flush" /\ Returned(t) /\ thread'[t].localRemarkBufferUsage = 0
    /\ needRemarkQueue' = needRemarkQueue \o Entries(t, LocalBufferSize)
    /\ UNCHANGED threads

BufferStep(t) ==
    \/ BufferKept(t) \/ BufferNew(t)
    \/ BufferWritten(t) \/ BufferCounted(t) \/ BufferFlushed(t)

StepOf(t) ==
    /\ HeapStep(t) /\ FieldStep(t) /\ RootStep(t) /\ PcStep(t) /\ NoteStep(t)
    /\ ListStep(t) /\ BufferStep(t)

LEMMA OperatesStep ==
    ASSUME BaseInv, NEW t \in Thread, NEW roots \in SUBSET Ref, NEW obj \in Ref,
           Operates(t, roots, obj)
    PROVE  StepOf(t)
<1> USE DEF Operates
<1>1. HeapStep(t)
  BY DEF HeapStep, Mark!Marked
<1>2. FieldStep(t)
  BY DEF FieldStep
<1>3. RootStep(t)
  <2>1. threads \subseteq Thread
    BY BaseParts DEF ThreadType
  <2>2. thread'[t].pc \in InBarrier => thread'[t].obj = obj /\ obj # NULL
    BY DEF InBarrier
  <2> QED
    BY <2>1, <2>2 DEF RootStep
<1>4. PcStep(t) /\ NoteStep(t) /\ ListStep(t)
  BY DEF PcStep, NoteStep, ListStep, InBarrier, Pushing
<1>5. BufferKept(t)
  BY DEF BufferKept, SameBuffer, SameEntries, SameUsage, Pushing
<1> QED
  BY <1>1, <1>2, <1>3, <1>4, <1>5 DEF StepOf, BufferStep

LEMMA AllocStep ==
    ASSUME BaseInv, NEW t \in Thread, NEW obj \in Obj, NEW pc, Allocated(t, obj, pc)
    PROVE  StepOf(t)
<1> USE DEF Allocated
<1>1. HeapStep(t)
  BY DEF HeapStep, Mark!Marked
<1>2. FieldStep(t)
  BY DEF FieldStep
<1>3. obj \in Fresh
  BY DEF Fresh
<1>4. RootStep(t)
  BY <1>3 DEF RootStep, InBarrier
<1>5. PcStep(t) /\ NoteStep(t) /\ ListStep(t)
  BY <1>3 DEF PcStep, NoteStep, ListStep, InBarrier, Pushing
<1>6. BufferKept(t)
  BY DEF BufferKept, SameBuffer, SameEntries, SameUsage, Pushing
<1> QED
  BY <1>1, <1>2, <1>4, <1>5, <1>6 DEF StepOf, BufferStep

LEMMA InitStep ==
    ASSUME BaseInv, NEW t \in Thread, NEW obj \in Obj, FieldsWritten(t, obj)
    PROVE  StepOf(t)
<1> USE DEF FieldsWritten, GoesOn
<1>1. HeapStep(t)
  BY DEF HeapStep, Mark!Marked
<1>2. FieldStep(t)
  BY DEF FieldStep
<1>3. RootStep(t)
  BY DEF RootStep, InBarrier, SameRoots
<1>4. PcStep(t) /\ NoteStep(t) /\ ListStep(t)
  BY DEF PcStep, NoteStep, ListStep, InBarrier, Pushing
<1>5. BufferKept(t)
  BY DEF BufferKept, SameBuffer, SameEntries, SameUsage, Pushing
<1> QED
  BY <1>1, <1>2, <1>3, <1>4, <1>5 DEF StepOf, BufferStep

LEMMA PublishStep ==
    ASSUME BaseInv, NEW t \in Thread, NEW obj \in Obj, Published(t, obj)
    PROVE  StepOf(t)
<1> USE DEF Published
<1>1. HeapStep(t)
  BY DEF HeapStep, Mark!Marked
<1>2. FieldStep(t)
  BY DEF FieldStep
<1>3. RootStep(t)
  BY DEF RootStep, InBarrier, SameRoots
<1>4. PcStep(t) /\ NoteStep(t) /\ ListStep(t)
  BY DEF PcStep, NoteStep, ListStep, InBarrier, Pushing
<1>5. BufferKept(t)
  BY DEF BufferKept, SameBuffer, SameEntries, SameUsage, Pushing
<1> QED
  BY <1>1, <1>2, <1>3, <1>4, <1>5 DEF StepOf, BufferStep

LEMMA BarrierStep ==
    ASSUME BaseInv, NEW t \in Thread, Barrier(t)
    PROVE  StepOf(t)
<1>0. /\ UNCHANGED <<threads, gcVars, snapshotField, fault>> /\ TypeOK /\ ThreadOK(t)
      /\ threads \subseteq Thread
  BY BaseParts DEF Barrier, ThreadInv, ThreadType
<1>1. ASSUME UNCHANGED field, SameRoots(t)
      PROVE  FieldStep(t) /\ \A r \in thread'[t].rootEntries : \E u \in Thread : r \in thread[u].rootEntries
  BY <1>1 DEF FieldStep, SameRoots
<1>2. ASSUME OnlyThread(t), UNCHANGED <<blockVars, gcPhase>>, thread[t].pc \notin {"exchange", "init", "publish"}
      PROVE  HeapStep(t)
  BY <1>0, <1>2 DEF HeapStep, Mark!Marked
<1>3. CASE LoadMarkingInProgress(t)
  <2> USE <1>0, <1>3, LoadEffect
  <2>1. HeapStep(t) /\ FieldStep(t) /\ RootStep(t)
    BY <1>1, <1>2 DEF GoesOn, Returned, RootStep, InBarrier
  <2>2. PcStep(t) /\ NoteStep(t) /\ ListStep(t)
    <3>1. CASE markingInProgress
      BY <3>1 DEF PcStep, NoteStep, ListStep, InBarrier, Pushing, GoesOn
    <3>2. CASE ~markingInProgress
      BY <3>2 DEF PcStep, NoteStep, ListStep, InBarrier, Pushing, Returned
    <3> QED
      BY <3>1, <3>2
  <2>3. BufferKept(t)
    BY DEF BufferKept, Pushing, GoesOn, Returned
  <2> QED
    BY <2>1, <2>2, <2>3 DEF StepOf, BufferStep
<1>4. CASE ExchangeMarkBit(t)
  <2> DEFINE seen == Mark!Marked(thread[t].obj)
  <2>0. /\ thread[t].pc = "exchange" /\ thread[t].obj \in Live
        /\ SameEntries(t) /\ SameUsage(t)
        /\ t \in holders <=> t \in threads
        /\ t \notin holders => /\ GoesOn(t, "compare")
                               /\ thread'[t].prevMarkBit = markBit[thread[t].obj]
        /\ t \in holders /\ ~seen => GoesOn(t, "push")
        /\ t \in holders /\ seen => Returned(t)
        /\ \A o \in Obj : markBit'[o] = IF o = thread[t].obj THEN GCMarkedBitValue
                                                            ELSE markBit[o]
        /\ lateBarrier' <=> lateBarrier
        /\ strayThread' <=> strayThread \/ (t \notin threads /\ ~seen)
        /\ breached' <=> breached \/ (t \notin threads /\ ~seen)
        /\ UNCHANGED <<field, hasDesc, status, needRemarkQueue>>
    BY <1>0, <1>4, ExchangeEffect DEF ThreadOK, InBarrier
  <2>1. HeapStep(t) /\ FieldStep(t) /\ RootStep(t)
    <3>1. OnlyThread(t) /\ SameRoots(t) /\ UNCHANGED gcPhase
      BY <2>0 DEF GoesOn, Returned
    <3>2. FieldStep(t) /\ RootStep(t)
      BY <1>1, <2>0, <3>1 DEF GoesOn, Returned, RootStep, InBarrier
    <3>3. HeapStep(t)
      BY <1>0, <2>0, <3>1 DEF HeapStep, Mark!Marked
    <3> QED
      BY <3>2, <3>3
  <2>2. PcStep(t) /\ NoteStep(t) /\ ListStep(t)
    <3>1. CASE t \in holders /\ ~seen
      BY <1>0, <2>0, <3>1 DEF PcStep, NoteStep, ListStep, InBarrier, Pushing, GoesOn
    <3>2. CASE t \in holders /\ seen
      BY <1>0, <2>0, <3>2 DEF PcStep, NoteStep, ListStep, InBarrier, Pushing, Returned
    <3>3. CASE t \notin holders
      BY <1>0, <2>0, <3>3 DEF PcStep, NoteStep, ListStep, InBarrier, Pushing, GoesOn
    <3> QED
      BY <3>1, <3>2, <3>3
  <2>3. BufferKept(t)
    BY <2>0 DEF BufferKept, Pushing, GoesOn, Returned
  <2> QED
    BY <2>1, <2>2, <2>3 DEF StepOf, BufferStep
<1>8. CASE CompareMarkBit(t)
  <2> USE <1>0, <1>8, CompareEffect
  <2>1. HeapStep(t) /\ FieldStep(t) /\ RootStep(t)
    BY <1>1, <1>2 DEF GoesOn, Returned, RootStep, InBarrier
  <2>2. PcStep(t) /\ NoteStep(t) /\ ListStep(t)
    <3>1. CASE thread[t].prevMarkBit # GCMarkedBitValue /\ GoesOn(t, "push")
      BY <3>1 DEF PcStep, NoteStep, ListStep, InBarrier, Pushing, GoesOn
    <3>2. CASE Returned(t)
      BY <3>2 DEF PcStep, NoteStep, ListStep, InBarrier, Pushing, Returned
    <3> QED
      BY <3>1, <3>2
  <2>3. BufferKept(t)
    BY DEF BufferKept, Pushing, GoesOn, Returned
  <2> QED
    BY <2>1, <2>2, <2>3 DEF StepOf, BufferStep
<1>5. CASE Push(t)
  <2> USE <1>0, <1>5, PushEffect
  <2>1. HeapStep(t) /\ FieldStep(t) /\ RootStep(t)
    BY <1>1, <1>2 DEF GoesOn, RootStep, InBarrier
  <2>2. PcStep(t) /\ NoteStep(t) /\ ListStep(t)
    BY DEF PcStep, NoteStep, ListStep, InBarrier, Pushing, GoesOn
  <2>3. BufferWritten(t)
    BY DEF BufferWritten
  <2> QED
    BY <2>1, <2>2, <2>3 DEF StepOf, BufferStep
<1>6. CASE Bump(t)
  <2> USE <1>0, <1>6, BumpEffect
  <2>1. HeapStep(t) /\ FieldStep(t) /\ RootStep(t)
    BY <1>1, <1>2 DEF GoesOn, Returned, RootStep, InBarrier
  <2>2. PcStep(t) /\ NoteStep(t) /\ ListStep(t)
    BY DEF PcStep, NoteStep, ListStep, InBarrier, Pushing, GoesOn, Returned
  <2>3. BufferCounted(t)
    BY DEF BufferCounted
  <2> QED
    BY <2>1, <2>2, <2>3 DEF StepOf, BufferStep
<1>7. CASE Flush(t)
  <2> USE <1>0, <1>7, FlushEffect
  <2>1. HeapStep(t) /\ FieldStep(t) /\ RootStep(t)
    BY <1>1, <1>2 DEF Returned, RootStep, InBarrier
  <2>2. PcStep(t) /\ NoteStep(t) /\ ListStep(t)
    BY DEF PcStep, NoteStep, ListStep, InBarrier, Pushing, Returned
  <2>3. BufferFlushed(t)
    BY DEF BufferFlushed
  <2> QED
    BY <2>1, <2>2, <2>3 DEF StepOf, BufferStep
<1> QED
  BY <1>3, <1>4, <1>5, <1>6, <1>7, <1>8 DEF Barrier

LEMMA AttachStep ==
    ASSUME BaseInv, NEW t \in Thread, AttachThread(t) PROVE StepOf(t)
<1>0. /\ TypeOK /\ ThreadOK(t)
      /\ thread[t].pc = "out" /\ ThreadListLockFree
      /\ OnlyThread(t) /\ Blank(t) /\ thread'[t].pc = "idle"
      /\ threads' = threads \union {t}
      /\ UNCHANGED <<blockVars, needRemarkQueue, lockVars, gcVars, historyVars, fault>>
  BY AttachEffect, BaseParts DEF ThreadInv
<1>1. HeapStep(t)
  BY <1>0 DEF HeapStep, Mark!Marked
<1>2. FieldStep(t)
  BY <1>0 DEF FieldStep
<1>3. RootStep(t)
  BY <1>0 DEF RootStep, InBarrier, Blank
<1>4. PcStep(t) /\ NoteStep(t) /\ ListStep(t)
  BY <1>0 DEF PcStep, NoteStep, ListStep, InBarrier, Pushing
<1>5. BufferNew(t)
  BY <1>0 DEF BufferNew, Blank
<1> QED
  BY <1>1, <1>2, <1>3, <1>4, <1>5 DEF StepOf, BufferStep

LEMMA DetachStep ==
    ASSUME BaseInv, NEW t \in Thread, DetachThread(t) PROVE StepOf(t)
<1>0. /\ t \in threads /\ thread[t].pc = "idle" /\ ThreadListLockFree
      /\ OnlyThread(t) /\ SameBuffer(t) /\ SameRoots(t)
      /\ thread'[t].pc = "detach" /\ thread'[t].obj = thread[t].obj
      /\ threads' = threads \ {t}
      /\ lateBarrier' <=> lateBarrier
      /\ strayThread' <=> strayThread \/ thread[t].localRemarkBufferUsage > 0
      /\ breached' <=> breached \/ thread[t].localRemarkBufferUsage > 0
      /\ UNCHANGED <<blockVars, needRemarkQueue, lockVars, gcVars, snapshotField, fault>>
  BY DetachEffect, BaseParts
<1>1. HeapStep(t)
  BY <1>0 DEF HeapStep, Mark!Marked
<1>2. FieldStep(t)
  BY <1>0 DEF FieldStep
<1>3. RootStep(t)
  BY <1>0 DEF RootStep, InBarrier, SameRoots
<1>4. PcStep(t) /\ NoteStep(t) /\ ListStep(t)
  BY <1>0 DEF PcStep, NoteStep, ListStep, InBarrier, Pushing
<1>5. BufferKept(t)
  BY <1>0 DEF BufferKept, SameBuffer, SameEntries, SameUsage, Pushing
<1> QED
  BY <1>1, <1>2, <1>3, <1>4, <1>5 DEF StepOf, BufferStep

LEMMA DropStep ==
    ASSUME BaseInv, NEW t \in Thread, NEW root \in thread[t].rootEntries, DropRoot(t, root)
    PROVE  StepOf(t)
<1>0. /\ thread[t].pc = "detach" /\ root \in Ref
      /\ OnlyThread(t) /\ SameBuffer(t)
      /\ thread'[t].rootEntries = thread[t].rootEntries \ {root}
      /\ thread'[t].pc = IF root = NULL THEN "detach" ELSE "load"
      /\ thread'[t].obj = root
      /\ lateBarrier' <=> lateBarrier \/ (root # NULL /\ AfterMarking)
      /\ strayThread' <=> strayThread
      /\ breached' <=> breached \/ (root # NULL /\ AfterMarking)
      /\ UNCHANGED <<blockVars, threads, needRemarkQueue, lockVars, gcVars,
                     snapshotField, fault>>
  BY DropEffect, BaseParts
<1>1. HeapStep(t)
  BY <1>0 DEF HeapStep, Mark!Marked
<1>2. FieldStep(t)
  BY <1>0 DEF FieldStep
<1>3. RootStep(t)
  BY <1>0 DEF RootStep, InBarrier
<1>4. PcStep(t) /\ NoteStep(t) /\ ListStep(t)
  BY <1>0 DEF PcStep, NoteStep, ListStep, InBarrier, Pushing
<1>5. BufferKept(t)
  BY <1>0 DEF BufferKept, SameBuffer, SameEntries, SameUsage, Pushing
<1> QED
  BY <1>1, <1>2, <1>3, <1>4, <1>5 DEF StepOf, BufferStep

LEMMA FreeStep ==
    ASSUME BaseInv, NEW t \in Thread, FreeThread(t) PROVE StepOf(t)
<1>0. /\ thread[t].pc = "detach" /\ thread[t].rootEntries = {}
      /\ OnlyThread(t) /\ Blank(t) /\ thread'[t].pc = "out"
      /\ UNCHANGED <<blockVars, threads, needRemarkQueue, lockVars, gcVars,
                     historyVars, fault>>
  BY FreeEffect, BaseParts
<1>1. HeapStep(t)
  BY <1>0 DEF HeapStep, Mark!Marked
<1>2. FieldStep(t)
  BY <1>0 DEF FieldStep
<1>3. RootStep(t)
  BY <1>0 DEF RootStep, InBarrier, Blank
<1>4. PcStep(t) /\ NoteStep(t) /\ ListStep(t)
  BY <1>0 DEF PcStep, NoteStep, ListStep, InBarrier, Pushing
<1>5. BufferNew(t)
  BY <1>0 DEF BufferNew, Blank
<1> QED
  BY <1>1, <1>2, <1>3, <1>4, <1>5 DEF StepOf, BufferStep

LEMMA StepEffect ==
    ASSUME BaseInv, NEW t \in Thread, ThreadStep(t) PROVE StepOf(t)
  BY OperatesStep, AllocStep, InitStep, PublishStep, BarrierStep, AttachStep, DetachStep, DropStep,
     FreeStep DEF ThreadStep

-----------------------------------------------------------------------------
(* What the GC thread does to the heap: nothing but at three points *)
ThreadsStay ==
    /\ UNCHANGED threads
    /\ \A t \in Thread : /\ thread'[t].pc = thread[t].pc /\ thread'[t].obj = thread[t].obj
                         /\ thread'[t].rootEntries = thread[t].rootEntries

HeapStays ==
    UNCHANGED <<field, hasDesc, status, objectsListSnapshot, snapshotOfRootSet, premarked,
                snapshotField>>

LEMMA ResetStays == ASSUME BaseInv, ResetLocal PROVE ThreadsStay
<1>1. UNCHANGED threads
  BY DEF ResetLocal
<1>2. ASSUME NEW t \in Thread
      PROVE  /\ thread'[t].pc = thread[t].pc /\ thread'[t].obj = thread[t].obj
             /\ thread'[t].rootEntries = thread[t].rootEntries
  <2>1. CASE t = localThread
    BY <2>1, ResetEffect DEF SameRoots
  <2>2. CASE t # localThread
    <3>1. thread'[t] = thread[t]
      BY <2>2, ResetEffect DEF OnlyThread
    <3> QED
      BY <3>1
  <2> QED
    BY <2>1, <2>2
<1> QED
  BY <1>1, <1>2 DEF ThreadsStay

LEMMA GcEffect ==
    ASSUME BaseInv, GcStep
    PROVE  /\ ThreadsStay
           /\ CopyRoots \/ FinishCycle \/ (\E block \in toSweep : SweepBlock(block)) \/ HeapStays
<1>1. CASE ResetLocal
  BY <1>1, ResetStays DEF HeapStays, ResetLocal
<1>2. CASE ~ResetLocal
  <2>1. UNCHANGED <<threads, thread>>
    BY <1>2, MarkStepCases DEF GcStep, StartCycle, CountRoots, CopyRoots, MarkRoot, EndMarking,
       ReadChunk, RemarkNext, EndDrain, ReadLocal, EndLocal, SweepBlock, EndSweep, FinishCycle
  <2>2. ThreadsStay
    BY <2>1 DEF ThreadsStay
  <2>3. CopyRoots \/ FinishCycle \/ (\E block \in toSweep : SweepBlock(block)) \/ HeapStays
    BY <1>2, MarkStepCases DEF GcStep, StartCycle, CountRoots, MarkRoot, Mark!MarkRoot, EndMarking,
       ReadChunk, RemarkNext, EndDrain, ReadLocal, EndLocal, EndSweep, HeapStays
  <2> QED
    BY <2>2, <2>3
<1> QED
  BY <1>1, <1>2

(* A step of a thread keeps a closed set closed, with the blocks that come *)
(* into use.                                                               *)
LEMMA HoldsStep ==
    ASSUME BaseInv, BlankInv, NEW t \in Thread, StepOf(t), NEW R, NEW R2,
           R \subseteq Obj, R \subseteq R2, R2 \subseteq R \union Fresh, Fresh \subseteq R2,
           Holds(R)
    PROVE  Holds(R2)'
<1>0. NULL \notin Obj
  BY TracerAssumption
<1>1. ASSUME NEW r, Reads(t, r) PROVE r \in R \union {NULL}
  <2>1. PICK b \in Held(t) : \E s \in Mark!Slots(b) : r = field[b][s]
    BY <1>1 DEF Reads
  <2>2. b \in R
    BY <1>0 DEF Held, Live, Holds
  <2> QED
    BY <2>1, <2>2 DEF Holds
<1>2. ASSUME NEW u \in Thread, NEW r \in thread'[u].rootEntries PROVE r \in R2 \union {NULL}
  <2>1. CASE u # t
    BY <2>1 DEF StepOf, HeapStep, OnlyThread, Holds
  <2>2. CASE u = t
    <3>1. (\E v \in Thread : r \in thread[v].rootEntries) \/ Reads(t, r) \/ r \in Fresh
      BY <2>2 DEF StepOf, RootStep
    <3> QED
      BY <1>1, <3>1 DEF Holds
  <2> QED
    BY <2>1, <2>2
<1>3. ASSUME NEW o \in R2, NEW s \in Mark!Slots(o) PROVE field'[o][s] \in R2 \union {NULL}
  <2>1. o \in Obj
    BY DEF Fresh
  <2>2. field[o][s] \in R \union {NULL}
    <3>1. CASE o \in R
      BY <3>1 DEF Holds
    <3>2. CASE o \notin R
      BY <2>1, <3>2 DEF Fresh, BlankInv, Live
    <3> QED
      BY <3>1, <3>2
  <2> QED
    BY <2>1, <2>2 DEF StepOf, FieldStep, Holds
<1> QED
  BY <1>2, <1>3 DEF Holds

LEMMA HoldsStays ==
    ASSUME ThreadsStay, UNCHANGED field, NEW R, Holds(R) PROVE Holds(R)'
  BY DEF ThreadsStay, Holds

LEMMA HoldsSweep ==
    ASSUME BaseInv, NEW block \in toSweep, SweepBlock(block), NEW R, R \subseteq Obj, Holds(R)
    PROVE  Holds(R)'
<1>1. UNCHANGED thread
  BY SweepEffect
<1>2. \A o \in Obj : \A s \in Mark!Slots(o) : field'[o][s] \in {NULL, field[o][s]}
  <2>1. CASE Mark!Marked(block)
    BY <2>1, SweepEffect
  <2>2. CASE ~Mark!Marked(block)
    <3>1. \A o \in Obj : \A s \in Mark!Slots(o) :
             field'[o][s] = IF o = block THEN NULL ELSE field[o][s]
      BY <2>2, SweepEffect
    <3> QED
      BY <3>1
  <2> QED
    BY <2>1, <2>2
<1> QED
  BY <1>1, <1>2 DEF Holds

LEMMA KnownStep == BaseInv /\ KnownInv /\ [Next]_vars => KnownInv'
<1> SUFFICES ASSUME BaseInv, KnownInv, [Next]_vars PROVE KnownInv'
  OBVIOUS
<1>0. HeapType /\ CycleType /\ TracerType
  BY BaseParts
<1>1. ASSUME NEW t \in Thread, ThreadStep(t) PROVE KnownInv'
  <2>0. StepOf(t)
    BY <1>1, StepEffect
  <2>1. Known' = Known \union Fresh /\ Fresh \subseteq Obj
    BY <2>0 DEF StepOf, HeapStep, Known, Fresh
  <2>2. Holds(Known)'
    <3>1. PICK R : R = Known
      OBVIOUS
    <3>2. PICK R2 : R2 = R \union Fresh
      OBVIOUS
    <3>3. Holds(R)
      BY <3>1 DEF KnownInv
    <3>4. R \subseteq Obj
      BY <3>1 DEF Known
    <3>5. Holds(R2)'
      BY <2>0, <3>2, <3>3, <3>4, HoldsStep DEF KnownInv
    <3>6. Known' = R2
      BY <2>1, <3>1, <3>2
    <3> QED
      BY <3>5, <3>6 DEF Holds
  <2>3. BlankInv'
    <3> SUFFICES ASSUME NEW o \in Obj, NEW s \in Mark!Slots(o), ~(o \in Live /\ hasDesc[o])'
                 PROVE  field'[o][s] = NULL
      BY DEF BlankInv
    <3>1. o \notin Live \/ ~hasDesc[o]
      BY <2>0 DEF StepOf, HeapStep, Live
    <3>2. field[o][s] = NULL
      BY <3>1 DEF KnownInv, BlankInv
    <3> QED
      BY <2>0, <3>1, <3>2 DEF StepOf, FieldStep
  <2>4. InitInv'
    <3>0. InitInv
      BY DEF KnownInv
    <3>1. \A u \in Thread : thread[u].pc \in Making => thread[u].obj \in Obj
      BY BaseParts DEF ThreadInv, ThreadOK
    <3>2. \A u \in Thread : u # t => thread'[u] = thread[u]
      BY <2>0 DEF StepOf, HeapStep, OnlyThread
    <3>3. thread'[t].pc \in Making =>
             \/ thread'[t].obj \in Fresh
             \/ /\ thread[t].pc \in Making /\ thread[t].pc # "publish"
                /\ thread'[t].obj = thread[t].obj
      BY <2>0 DEF StepOf, PcStep, Making
    <3>4. /\ \A o \in Obj : status'[o] = status[o] \/ (status[o] = "none" /\ status'[o] = "live")
          /\ \A o \in Obj : hasDesc'[o] => hasDesc[o] \/ (thread[t].pc = "publish" /\ thread[t].obj = o)
      BY <2>0 DEF StepOf, HeapStep
    <3>m. "publish" \in Making
      BY DEF Making
    <3> HIDE DEF Making
    <3>5. ASSUME NEW o \in Obj, status'[o] = "none" PROVE ~hasDesc'[o]
      BY <3>0, <3>4, <3>5, <3>m DEF InitInv
    <3>6. ASSUME NEW u \in Thread, thread'[u].pc \in Making
          PROVE  status'[thread'[u].obj] # "none" /\ ~hasDesc'[thread'[u].obj]
      <4>1. CASE u = t
        <5>1. CASE thread'[t].obj \in Fresh
          BY <3>0, <3>4, <3>m, <4>1, <5>1 DEF InitInv, Fresh
        <5>2. CASE /\ thread[t].pc \in Making /\ thread[t].pc # "publish"
                   /\ thread'[t].obj = thread[t].obj
          BY <3>0, <3>1, <3>4, <4>1, <5>2 DEF InitInv
        <5> QED
          BY <3>3, <3>6, <4>1, <5>1, <5>2
      <4>2. CASE u # t
        <5>1. thread[u].pc \in Making /\ thread'[u].obj = thread[u].obj /\ thread[u].obj \in Obj
          BY <3>1, <3>2, <3>6, <4>2
        <5>2. thread[t].pc = "publish" => thread[t].obj # thread[u].obj
          BY <3>0, <3>m, <4>2, <5>1 DEF InitInv
        <5>3. status[thread[u].obj] # "none" /\ ~hasDesc[thread[u].obj]
          BY <3>0, <5>1 DEF InitInv
        <5> QED
          BY <3>4, <5>1, <5>2, <5>3
      <4> QED
        BY <4>1, <4>2
    <3>7. ASSUME NEW u \in Thread, NEW v \in Thread, thread'[u].pc \in Making,
                 thread'[v].pc \in Making, thread'[u].obj = thread'[v].obj, u # v
          PROVE  FALSE
      <4>1. ASSUME NEW w \in Thread, w # t, thread'[w].pc \in Making PROVE thread'[w].obj \notin Fresh
        BY <3>0, <3>2, <4>1 DEF InitInv, Fresh
      <4>2. ASSUME NEW w \in Thread, thread'[w].pc \in Making, thread'[w].obj \notin Fresh
            PROVE  thread[w].pc \in Making /\ thread'[w].obj = thread[w].obj
        BY <3>2, <3>3, <4>2
      <4>3. thread'[u].obj \notin Fresh
        BY <3>7, <4>1
      <4> QED
        BY <3>0, <3>7, <4>2, <4>3 DEF InitInv
    <3> QED
      BY <3>5, <3>6, <3>7 DEF InitInv
  <2>5. SnapshotInv'
    <3>1. UNCHANGED <<objectsListSnapshot, snapshotOfRootSet, premarked, snapshotField>>
      BY <2>0 DEF StepOf, HeapStep
    <3> QED
      BY <2>1, <3>1 DEF KnownInv, SnapshotInv
  <2> QED
    BY <2>2, <2>3, <2>4, <2>5 DEF KnownInv
<1>2. ASSUME ThreadsStay, HeapStays PROVE KnownInv'
  <2>1. BlankInv'
    BY <1>2 DEF HeapStays, KnownInv, BlankInv, Live
  <2>2. InitInv'
    BY <1>2 DEF HeapStays, ThreadsStay, KnownInv, InitInv
  <2>3. Holds(Known)'
    BY <1>2 DEF HeapStays, ThreadsStay, KnownInv, Holds, Known
  <2>4. SnapshotInv'
    BY <1>2 DEF HeapStays, KnownInv, SnapshotInv, Known
  <2> QED
    BY <2>1, <2>2, <2>3, <2>4 DEF KnownInv
<1>3. ASSUME CopyRoots PROVE KnownInv'
  <2>0. /\ UNCHANGED <<field, hasDesc, status, thread, threads>>
        /\ snapshotOfRootSet' = UNION {thread[t].rootEntries : t \in threads}
        /\ objectsListSnapshot' = Live /\ premarked' = {o \in Live : Mark!Marked(o)}
        /\ snapshotField' = field
    BY <1>3 DEF CopyRoots
  <2>1. BlankInv'
    BY <2>0 DEF KnownInv, BlankInv, Live
  <2>2. InitInv'
    BY <2>0 DEF KnownInv, InitInv
  <2>3. Holds(Known)'
    BY <2>0 DEF KnownInv, Holds, Known
  <2>4. SnapshotInv'
    <3>1. Known' = Known /\ Live \subseteq Known
      BY <2>0 DEF Known, Live
    <3>2. threads \subseteq Thread
      BY BaseParts DEF ThreadType
    <3>3. \A o \in Obj : \A s \in Mark!Slots(o) : field[o][s] \in Known \union {NULL}
      BY DEF KnownInv, Holds, Known, BlankInv, Live
    <3>4. snapshotOfRootSet' \subseteq Known \union {NULL}
      BY <2>0, <3>2 DEF KnownInv, Holds
    <3> QED
      BY <2>0, <3>1, <3>3, <3>4 DEF SnapshotInv
  <2> QED
    BY <2>1, <2>2, <2>3, <2>4 DEF KnownInv
<1>4. ASSUME FinishCycle PROVE KnownInv'
  <2>0. /\ UNCHANGED <<field, hasDesc, status, thread, threads, objectsListSnapshot>>
        /\ snapshotOfRootSet' = {} /\ premarked' = {} /\ snapshotField' = NoFields
    BY <1>4 DEF FinishCycle
  <2>1. BlankInv'
    BY <2>0 DEF KnownInv, BlankInv, Live
  <2>2. InitInv'
    BY <2>0 DEF KnownInv, InitInv
  <2>3. Holds(Known)'
    BY <2>0 DEF KnownInv, Holds, Known
  <2>4. SnapshotInv'
    BY <2>0 DEF KnownInv, SnapshotInv, Known, NoFields
  <2> QED
    BY <2>1, <2>2, <2>3, <2>4 DEF KnownInv
<1>5. ASSUME NEW block \in toSweep, SweepBlock(block) PROVE KnownInv'
  <2>0. /\ block \in Obj
        /\ UNCHANGED <<thread, threads, objectsListSnapshot, snapshotOfRootSet, premarked,
                       snapshotField>>
    BY <1>5, SweepEffect
  <2>1. /\ \A o \in Obj : \A s \in Mark!Slots(o) : field'[o][s] \in {NULL, field[o][s]}
        /\ \A o \in Obj : (o \in Live /\ ~(o \in Live)') => \A s \in Mark!Slots(o) : field'[o][s] = NULL
        /\ \A o \in Obj : (hasDesc[o] /\ ~hasDesc'[o]) => \A s \in Mark!Slots(o) : field'[o][s] = NULL
        /\ \A o \in Obj : hasDesc'[o] => hasDesc[o]
        /\ \A o \in Obj : status'[o] = "none" => status[o] = "none"
        /\ \A o \in Obj : status[o] = "none" => status'[o] \in {"none", "freed"}
    <3>1. CASE Mark!Marked(block)
      BY <1>5, <3>1, SweepEffect DEF Live
    <3>2. CASE ~Mark!Marked(block)
      <4>1. /\ \A o \in Obj : status'[o] = IF o = block THEN "freed" ELSE status[o]
            /\ \A o \in Obj : \A s \in Mark!Slots(o) :
                  field'[o][s] = IF o = block THEN NULL ELSE field[o][s]
            /\ \A o \in Obj : hasDesc'[o] <=> o # block /\ hasDesc[o]
        BY <1>5, <3>2, SweepEffect
      <4> QED
        BY <4>1 DEF Live
    <3> QED
      BY <3>1, <3>2
  <2>2. block \in Known
    BY <2>0 DEF KnownInv, SnapshotInv, CycleType, BaseInv, TypeOK
  <2>3. \A o \in Obj : status'[o] = status[o] \/ (o = block /\ status'[o] = "freed")
    BY <1>5, SweepEffect
  <2>4. Known' = Known
    BY <2>2, <2>3 DEF Known
  <2>5. BlankInv'
    BY <2>1 DEF KnownInv, BlankInv
  <2>6. InitInv'
    <3>1. \A u \in Thread : thread[u].pc \in Making => thread[u].obj \in Obj
      BY BaseParts DEF ThreadInv, ThreadOK
    <3>2. InitInv
      BY DEF KnownInv
    <3>3. \A o \in Obj : status'[o] = "none" => ~hasDesc'[o]
      BY <2>1, <3>2 DEF InitInv
    <3>4. \A u \in Thread : thread'[u].pc \in Making =>
             status'[thread'[u].obj] # "none" /\ ~hasDesc'[thread'[u].obj]
      BY <2>0, <2>1, <3>1, <3>2 DEF InitInv
    <3>5. \A u, v \in Thread :
             thread'[u].pc \in Making /\ thread'[v].pc \in Making
                 /\ thread'[u].obj = thread'[v].obj => u = v
      BY <2>0, <3>2 DEF InitInv
    <3> QED
      BY <3>3, <3>4, <3>5 DEF InitInv
  <2>7. Holds(Known)'
    <3>1. Known \subseteq Obj
      BY DEF Known
    <3> QED
      BY <2>0, <2>1, <2>4, <3>1 DEF Holds, KnownInv
  <2>8. SnapshotInv'
    BY <2>0, <2>4 DEF KnownInv, SnapshotInv
  <2> QED
    BY <2>5, <2>6, <2>7, <2>8 DEF KnownInv
<1>6. CASE GcStep
  BY <1>2, <1>3, <1>4, <1>5, <1>6, GcEffect
<1>7. CASE Fail \/ UNCHANGED vars
  BY <1>2, <1>7 DEF Fail, vars, ThreadsStay, HeapStays
<1> QED
  BY <1>1, <1>6, <1>7, Steps

LEMMA KnownInit == Init => KnownInv
<1> SUFFICES ASSUME Init PROVE KnownInv
  OBVIOUS
<1>1. PICK roots \in [threads -> SUBSET Live] :
         thread = [t \in Thread |->
             IF t \in threads THEN [NewThread EXCEPT !.rootEntries = roots[t]]
                              ELSE [NewThread EXCEPT !.pc = "out"]]
  BY DEF Init
<1>2. ASSUME NEW t \in Thread
      PROVE  /\ thread[t].rootEntries \subseteq Live
             /\ thread[t].pc \in {"idle", "out"}
  <2>1. CASE t \in threads
    BY <1>1, <2>1 DEF NewThread
  <2>2. CASE t \notin threads
    BY <1>1, <2>2 DEF NewThread
  <2> QED
    BY <2>1, <2>2
<1>3. /\ \A o \in Obj : status[o] \in {"none", "live"}
      /\ \A o \in Obj : \A s \in Mark!Slots(o) :
            field[o][s] = NULL \/ {o, field[o][s]} \subseteq Live
      /\ hasDesc = [o \in Obj |-> status[o] = "live" /\ Mark!Slots(o) # {}]
      /\ objectsListSnapshot = {} /\ snapshotOfRootSet = {} /\ premarked = {}
      /\ snapshotField = NoFields
  BY DEF Init
<1>4. Live \subseteq Known
  BY DEF Live, Known
<1>5. BlankInv
  BY <1>3 DEF BlankInv, Live
<1>6. InitInv
  BY <1>2, <1>3 DEF InitInv, Making
<1>7. Holds(Known)
  BY <1>2, <1>3, <1>4 DEF Holds, Known
<1>8. SnapshotInv
  BY <1>3 DEF SnapshotInv, NoFields
<1> QED
  BY <1>5, <1>6, <1>7, <1>8 DEF KnownInv
=============================================================================
