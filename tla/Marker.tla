------------------------------- MODULE Marker -------------------------------
(***************************************************************************)
(* The tracing part of gc/gc.c: markingPhase, doMark, processMarkQueue,    *)
(* doMarkInner and markOneItem, with their two bounded queues.  The GC     *)
(* thread runs it; an action is one queue operation or one visit of a      *)
(* reference slot, so that other threads' steps can come in between when   *)
(* Collector composes this module with the mutators.  Alone (Spec), it     *)
(* runs on a heap that nobody changes.                                     *)
(*                                                                         *)
(* An object has FieldCount[o] described reference fields, followed by     *)
(* FlexCount[o] references in a flexible array; its slots are numbered     *)
(* through from 0.                                                         *)
(***************************************************************************)
EXTENDS Naturals, Sequences, FiniteSets

CONSTANTS
    Obj,            \* the blocks (struct alloc_unit)
    NULL,           \* the null reference
    FieldCount,     \* desc->fieldCount of each block's descriptor
    FlexCount,      \* number of references in each block's flexible array
    MarkQueueCap,   \* GC_MARK_QUEUE_SIZE, in references
    DeferredCap     \* GC_DEFERRED_MARK_QUEUE_SIZE, in saved states

ASSUME NullAssumption == NULL \notin Obj
ASSUME CountAssumption ==
    /\ FieldCount \in [Obj -> Nat]
    /\ FlexCount \in [Obj -> Nat]
ASSUME QueueAssumption ==
    /\ MarkQueueCap \in Nat \ {0}
    /\ DeferredCap \in Nat

VARIABLES
    field,              \* the references each block holds, by slot
    hasDesc,            \* whether block->desc is set
    markBit,            \* gcMetadata.markBit of each block
    GCMarkedBitValue,   \* the bit value that means "marked"
    snapshotOfRootSet,  \* the blocks in the root snapshot
    rootsLeft,          \* those markingPhase has still to hand to doMark
    premarked,          \* history: the blocks marked when the cycle started
    gcMarkQueueUwU,     \* blocks to visit
    deferredMarkQueue,  \* struct gc_mark_state: visits to resume
    markPc,             \* "idle": no doMark running; "drain": between blocks;
                        \* "scan": inside doMarkInner's loops; "panic"
    scan                \* doMarkInner's block and loop counters

queueVars == <<gcMarkQueueUwU, deferredMarkQueue, markPc, scan>>
heapVars == <<field, hasDesc, GCMarkedBitValue>>
rootVars == <<snapshotOfRootSet, rootsLeft, premarked>>
vars == <<heapVars, rootVars, markBit, queueVars>>

Ref == Obj \union {NULL}
SlotCount(o) == FieldCount[o] + FlexCount[o]
Slots(o) == 0 .. (SlotCount(o) - 1)
MarkState == [block : Obj, fieldIndex : Nat]
ScanState == [block : Ref, fieldIndex : Nat, flexIndex : Nat]
NoScan == [block |-> NULL, fieldIndex |-> 0, flexIndex |-> 0]

Marked(o) == markBit[o] = GCMarkedBitValue

-----------------------------------------------------------------------------
(* doMark: hand one block to the tracer.  The queue is empty between two   *)
(* calls, so this write cannot fail.                                       *)
DoMark(block) ==
    /\ markPc = "idle"
    /\ markPc' = "drain"
    /\ gcMarkQueueUwU' = Append(gcMarkQueueUwU, block)
    /\ UNCHANGED <<deferredMarkQueue, scan>>

(* Mutants of Visit: leaves a marked block also when it resumes a visit,   *)
(* or does not look at the old mark bit at all.                            *)
MutVisitNoResume(state) ==
    /\ markBit' = [markBit EXCEPT ![state.block] = GCMarkedBitValue]
    /\ IF Marked(state.block)
       THEN UNCHANGED <<markPc, scan>>
       ELSE /\ markPc' = "scan"
            /\ scan' = [block |-> state.block, fieldIndex |-> state.fieldIndex,
                        flexIndex |-> 0]

MutVisitAgain(state) ==
    /\ markBit' = [markBit EXCEPT ![state.block] = GCMarkedBitValue]
    /\ markPc' = "scan"
    /\ scan' = [block |-> state.block, fieldIndex |-> state.fieldIndex,
                flexIndex |-> 0]

(* doMarkInner up to its loops: mark the block, and leave again if it was  *)
(* marked before and this is not the continuation of an earlier visit.     *)
Visit(state) ==
    /\ markBit' = [markBit EXCEPT ![state.block] = GCMarkedBitValue]
    /\ IF state.fieldIndex = 0 /\ Marked(state.block)
       THEN UNCHANGED <<markPc, scan>>
       ELSE /\ markPc' = "scan"
            /\ scan' = [block |-> state.block, fieldIndex |-> state.fieldIndex,
                        flexIndex |-> 0]

(* processMarkQueue: the next block in the mark queue, ... *)
VisitQueued ==
    /\ markPc = "drain"
    /\ gcMarkQueueUwU # <<>>
    /\ gcMarkQueueUwU' = Tail(gcMarkQueueUwU)
    /\ Visit([block |-> Head(gcMarkQueueUwU), fieldIndex |-> 0])
    /\ UNCHANGED deferredMarkQueue

(* ... and when it is empty, doMark's loop: the next visit to resume. *)
VisitDeferred ==
    /\ markPc = "drain"
    /\ gcMarkQueueUwU = <<>>
    /\ deferredMarkQueue # <<>>
    /\ deferredMarkQueue' = Tail(deferredMarkQueue)
    /\ Visit(Head(deferredMarkQueue))
    /\ UNCHANGED gcMarkQueueUwU

(* doMark returns with both queues empty. *)
EndMark ==
    /\ markPc = "drain"
    /\ gcMarkQueueUwU = <<>>
    /\ deferredMarkQueue = <<>>
    /\ markPc' = "idle"
    /\ UNCHANGED <<markBit, gcMarkQueueUwU, deferredMarkQueue, scan>>

(* doMarkInner's two loops: fieldIndex counts the described fields; from   *)
(* FieldCount on (or from where a resumed visit starts, if that is         *)
(* higher) flexIndex counts the flexible array, always from its start.     *)
InFields == scan.fieldIndex < FieldCount[scan.block]
CurrentSlot ==
    IF InFields THEN scan.fieldIndex ELSE FieldCount[scan.block] + scan.flexIndex
AfterSlot ==
    IF InFields THEN [scan EXCEPT !.fieldIndex = @ + 1]
                ELSE [scan EXCEPT !.flexIndex = @ + 1]
ScanDone ==
    \/ ~hasDesc[scan.block]
    \/ ~InFields /\ scan.flexIndex >= FlexCount[scan.block]

AtSlot == markPc = "scan" /\ ~ScanDone
Content == field[scan.block][CurrentSlot]

EndScan ==
    /\ markPc = "scan"
    /\ ScanDone
    /\ markPc' = "drain" /\ scan' = NoScan
    /\ UNCHANGED <<markBit, gcMarkQueueUwU, deferredMarkQueue>>

(* markOneItem: a null slot is passed over, ... *)
SkipNull ==
    /\ AtSlot
    /\ Content = NULL
    /\ scan' = AfterSlot
    /\ UNCHANGED <<markBit, gcMarkQueueUwU, deferredMarkQueue, markPc>>

(* Mutant of Enqueue: writes into a full queue. *)
MutEnqueue ==
    /\ AtSlot
    /\ Content # NULL
    /\ gcMarkQueueUwU' = Append(gcMarkQueueUwU, Content)
    /\ scan' = AfterSlot
    /\ UNCHANGED <<markBit, deferredMarkQueue, markPc>>

(* ... a reference is queued, ... *)
Enqueue ==
    /\ AtSlot
    /\ Content # NULL
    /\ Len(gcMarkQueueUwU) < MarkQueueCap
    /\ gcMarkQueueUwU' = Append(gcMarkQueueUwU, Content)
    /\ scan' = AfterSlot
    /\ UNCHANGED <<markBit, deferredMarkQueue, markPc>>

(* Mutant of SavedIndex: the array loop saves its own counter only. *)
MutSavedIndex == IF InFields THEN scan.fieldIndex ELSE scan.flexIndex

(* ... and when the queue is full the rest of the block is put off.  A     *)
(* visit that is put off in the flexible array again and again adds its    *)
(* counters up; as the code compares a saved index only with 0 and with    *)
(* fieldCount, SavedIndex stops counting at the last slot.                 *)
SavedIndex ==
    LET index == scan.fieldIndex + scan.flexIndex
    IN  IF index <= SlotCount(scan.block) THEN index ELSE SlotCount(scan.block)

Defer ==
    /\ AtSlot
    /\ Content # NULL
    /\ Len(gcMarkQueueUwU) = MarkQueueCap
    /\ Len(deferredMarkQueue) < DeferredCap
    /\ deferredMarkQueue' =
         Append(deferredMarkQueue, [block |-> scan.block, fieldIndex |-> SavedIndex])
    /\ markPc' = "drain" /\ scan' = NoScan
    /\ UNCHANGED <<markBit, gcMarkQueueUwU>>

(* With both queues full, flup_panic ends the process. *)
Panic ==
    /\ AtSlot
    /\ Content # NULL
    /\ Len(gcMarkQueueUwU) = MarkQueueCap
    /\ Len(deferredMarkQueue) = DeferredCap
    /\ markPc' = "panic"
    /\ UNCHANGED <<markBit, gcMarkQueueUwU, deferredMarkQueue, scan>>

MarkStep ==
    \/ VisitQueued \/ VisitDeferred \/ EndMark
    \/ EndScan \/ SkipNull \/ Enqueue \/ Defer \/ Panic

(* markingPhase: hand over the roots of the snapshot one by one (their     *)
(* order, and a root that occurs twice, make no difference).               *)
MarkRoot(root) ==
    /\ root \in rootsLeft
    /\ DoMark(root)
    /\ rootsLeft' = rootsLeft \ {root}
    /\ UNCHANGED <<snapshotOfRootSet, premarked, markBit>>

-----------------------------------------------------------------------------
(* On its own: any graph, any set of roots, and any blocks marked before   *)
(* the tracer starts (gc_on_allocate does that to blocks allocated since   *)
(* the previous cycle began).  Blocks without references have no           *)
(* descriptor.                                                             *)
Fields == {f \in [Obj -> UNION {[Slots(o) -> Ref] : o \in Obj}] :
              \A o \in Obj : f[o] \in [Slots(o) -> Ref]}

Init ==
    /\ field \in Fields
    /\ hasDesc = [o \in Obj |-> Slots(o) # {}]
    /\ markBit \in [Obj -> BOOLEAN]
    /\ GCMarkedBitValue \in BOOLEAN
    /\ snapshotOfRootSet \in SUBSET Obj
    /\ rootsLeft = snapshotOfRootSet
    /\ premarked = {o \in Obj : Marked(o)}
    /\ gcMarkQueueUwU = <<>>
    /\ deferredMarkQueue = <<>>
    /\ markPc = "idle"
    /\ scan = NoScan

Next ==
    /\ \/ \E root \in Obj : MarkRoot(root)
       \/ MarkStep /\ UNCHANGED rootVars
    /\ UNCHANGED heapVars

Spec == Init /\ [][Next]_vars

(* The GC thread keeps running. *)
FairSpec == Spec /\ WF_vars(Next)

-----------------------------------------------------------------------------
TypeOK ==
    /\ field \in Fields
    /\ hasDesc \in [Obj -> BOOLEAN]
    /\ markBit \in [Obj -> BOOLEAN]
    /\ GCMarkedBitValue \in BOOLEAN
    /\ snapshotOfRootSet \subseteq Obj
    /\ rootsLeft \subseteq snapshotOfRootSet
    /\ premarked \subseteq Obj
    /\ gcMarkQueueUwU \in Seq(Obj)
    /\ Len(gcMarkQueueUwU) <= MarkQueueCap
    /\ deferredMarkQueue \in Seq(MarkState)
    /\ Len(deferredMarkQueue) <= DeferredCap
    /\ markPc \in {"idle", "drain", "scan", "panic"}
    /\ scan \in ScanState
    /\ markPc = "scan" => scan.block \in Obj
    /\ markPc = "idle" => gcMarkQueueUwU = <<>> /\ deferredMarkQueue = <<>>

(* doMarkInner takes a saved index of 0 for a first visit, and leaves such *)
(* a block if it is marked, which a saved block always is.  So the rest of *)
(* a put-off block would be lost if markOneItem ever saved index 0.        *)
DeferredResumes ==
    \A i \in DOMAIN deferredMarkQueue : deferredMarkQueue[i].fieldIndex > 0

MarkingDone == markPc = "idle" /\ rootsLeft = {}

Targets(o) == {field[o][s] : s \in Slots(o)} \ {NULL}
ClosedSet(S) == \A o \in S \ premarked : Targets(o) \subseteq S
MarkedSet == {o \in Obj : Marked(o)}

(* When marking ends every root is marked, and with every block that was   *)
(* marked in this phase all the blocks it refers to, whatever had to be    *)
(* put off on the way (the sweep frees what is not marked).                *)
MarksReachable ==
    MarkingDone => snapshotOfRootSet \subseteq MarkedSet /\ ClosedSet(MarkedSet)

(* Nothing else is marked: marked blocks lie in every closed set that      *)
(* holds the roots and the blocks marked before (garbage is not retained). *)
MarksOnlyReachable ==
    \A S \in SUBSET Obj :
        snapshotOfRootSet \union premarked \subseteq S /\ ClosedSet(S)
            => MarkedSet \subseteq S

(* Marking ends, or panics. *)
MarkingEnds == <>(MarkingDone \/ markPc = "panic")

(* The panic message of markOneItem (gc.c:158-162) says what it takes to   *)
(* get there: more objects than the deferred queue has room for, with more *)
(* references each than the mark queue has room for.                       *)
PanicIsAbsurd ==
    markPc = "panic" =>
        Cardinality({o \in Obj :
            Cardinality({s \in Slots(o) : field[o][s] # NULL}) > MarkQueueCap})
          > DeferredCap
=============================================================================
