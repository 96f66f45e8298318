---------------------------- MODULE MarkerProofs ----------------------------
(***************************************************************************)
(* What is proved of Marker for any heap, any root set and queues of any   *)
(* length: its types, that a resumed visit is never taken for a first one, *)
(* and that the blocks it marks are exactly those it ought to.             *)
(***************************************************************************)
EXTENDS Marker, SequenceTheorems, TLAPS

Elems(q) == {q[i] : i \in DOMAIN q}

LEMMA ElemsEmpty == Elems(<<>>) = {}
  BY DEF Elems

LEMMA ElemsIn == ASSUME NEW S, NEW q \in Seq(S) PROVE Elems(q) \subseteq S
  BY ElementOfSeq, LenProperties DEF Elems

LEMMA ElemsAppend ==
    ASSUME NEW S, NEW q \in Seq(S), NEW e \in S
    PROVE  Elems(Append(q, e)) = Elems(q) \union {e}
  BY AppendProperties DEF Elems

LEMMA ElemsTail ==
    ASSUME NEW S, NEW q \in Seq(S), q # <<>>
    PROVE  Elems(q) = {Head(q)} \union Elems(Tail(q))
<1>1. /\ Tail(q) \in Seq(S)
      /\ Len(Tail(q)) = Len(q) - 1
      /\ \A i \in 1 .. Len(Tail(q)) : Tail(q)[i] = q[i + 1]
  BY HeadTailProperties
<1>2. Len(q) \in Nat \ {0} /\ DOMAIN q = 1 .. Len(q)
  BY EmptySeq
<1>3. DOMAIN Tail(q) = 1 .. Len(q) - 1 /\ Head(q) = q[1]
  BY <1>1
<1>4. \A x : x \in Elems(q) => x = Head(q) \/ x \in Elems(Tail(q))
  <2> SUFFICES ASSUME NEW i \in 1 .. Len(q), i # 1 PROVE q[i] \in Elems(Tail(q))
    BY <1>2, <1>3 DEF Elems
  <2>1. i - 1 \in 1 .. Len(Tail(q)) /\ Tail(q)[i - 1] = q[i]
    BY <1>1, <1>2
  <2> QED
    BY <1>1, <1>3, <2>1 DEF Elems
<1>5. \A x : x \in Elems(Tail(q)) => x \in Elems(q)
  <2> SUFFICES ASSUME NEW i \in 1 .. Len(Tail(q)) PROVE Tail(q)[i] \in Elems(q)
    BY <1>1, <1>3 DEF Elems
  <2>1. i + 1 \in 1 .. Len(q) /\ Tail(q)[i] = q[i + 1]
    BY <1>1, <1>2
  <2> QED
    BY <1>2, <2>1 DEF Elems
<1>6. Head(q) \in Elems(q)
  BY <1>2, <1>3 DEF Elems
<1> QED
  BY <1>4, <1>5, <1>6

-----------------------------------------------------------------------------
(* The slot a visit is at exists, and the reference in it is a block.      *)
LEMMA AtASlot ==
    ASSUME TypeOK, AtSlot
    PROVE  /\ scan.block \in Obj
           /\ CurrentSlot \in Slots(scan.block)
           /\ Content \in Ref
           /\ AfterSlot \in ScanState
           /\ AfterSlot.block = scan.block
           /\ SavedIndex \in Nat
<1>1. /\ scan.block \in Obj /\ scan.fieldIndex \in Nat /\ scan.flexIndex \in Nat
      /\ FieldCount[scan.block] \in Nat /\ FlexCount[scan.block] \in Nat
  BY CountAssumption DEF TypeOK, AtSlot, ScanState
<1>2. CurrentSlot \in Slots(scan.block)
  BY <1>1 DEF AtSlot, ScanDone, InFields, CurrentSlot, Slots, SlotCount
<1>3. Content \in Ref
  BY <1>1, <1>2 DEF TypeOK, Fields, Content
<1>4. AfterSlot \in ScanState /\ AfterSlot.block = scan.block
  BY <1>1, SMTT(60) DEF TypeOK, AfterSlot, ScanState
<1>5. SavedIndex \in Nat
  BY <1>1 DEF SavedIndex, SlotCount
<1> QED
  BY <1>1, <1>2, <1>3, <1>4, <1>5

(* A visit marks its block and no other. *)
LEMMA VisitMarks ==
    ASSUME TypeOK, NEW state \in MarkState, Visit(state),
           UNCHANGED GCMarkedBitValue
    PROVE  /\ markBit' \in [Obj -> BOOLEAN]
           /\ \A o \in Obj : Marked(o)' <=> Marked(o) \/ o = state.block
           /\ scan' \in ScanState
           /\ markPc' = "scan" => scan'.block \in Obj
           /\ markPc' \in {markPc, "scan"}
  BY DEF TypeOK, MarkState, ScanState, Visit, Marked, Ref

(* TypeOK: the trace only ever meets blocks, stays inside them, and keeps  *)
(* both queues within their capacity.                                      *)
LEMMA TypeInit == Init => TypeOK
<1> SUFFICES ASSUME Init PROVE TypeOK
  OBVIOUS
<1>1. <<>> \in Seq(Obj) /\ Len(<<>>) = 0 /\ <<>> \in Seq(MarkState)
  OBVIOUS
<1> QED
  BY <1>1, QueueAssumption DEF Init, TypeOK, ScanState, NoScan, Ref

LEMMA TypeStep == TypeOK /\ [Next]_vars => TypeOK'
<1> SUFFICES ASSUME TypeOK, [Next]_vars PROVE TypeOK'
  OBVIOUS
<1> USE DEF heapVars, rootVars
<1>1. ASSUME NEW root \in Obj, MarkRoot(root), UNCHANGED heapVars PROVE TypeOK'
  <2>1. gcMarkQueueUwU = <<>> /\ gcMarkQueueUwU' = Append(gcMarkQueueUwU, root)
    BY <1>1 DEF MarkRoot, DoMark, TypeOK
  <2>2. gcMarkQueueUwU' \in Seq(Obj) /\ Len(gcMarkQueueUwU') = 1
    BY <2>1
  <2> QED
    BY <1>1, <2>2, QueueAssumption DEF MarkRoot, DoMark, TypeOK
<1>2. ASSUME VisitQueued, UNCHANGED <<heapVars, rootVars>> PROVE TypeOK'
  <2> DEFINE state == [block |-> Head(gcMarkQueueUwU), fieldIndex |-> 0]
  <2>1. state \in MarkState
    BY <1>2, HeadTailProperties DEF VisitQueued, TypeOK, MarkState
  <2>2. /\ gcMarkQueueUwU' \in Seq(Obj)
        /\ Len(gcMarkQueueUwU') <= MarkQueueCap
    BY <1>2, HeadTailProperties, QueueAssumption DEF VisitQueued, TypeOK
  <2> HIDE DEF state
  <2>3. Visit(state)
    BY <1>2 DEF VisitQueued, state
  <2> QED
    BY <1>2, <2>1, <2>2, <2>3, VisitMarks DEF VisitQueued, TypeOK
<1>3. ASSUME VisitDeferred, UNCHANGED <<heapVars, rootVars>> PROVE TypeOK'
  <2>1. Head(deferredMarkQueue) \in MarkState
    BY <1>3, HeadTailProperties DEF VisitDeferred, TypeOK
  <2>2. /\ deferredMarkQueue' \in Seq(MarkState)
        /\ Len(deferredMarkQueue') <= DeferredCap
    BY <1>3, HeadTailProperties, QueueAssumption DEF VisitDeferred, TypeOK
  <2> QED
    BY <1>3, <2>1, <2>2, VisitMarks DEF VisitDeferred, TypeOK
<1>4. ASSUME EndMark \/ EndScan \/ Panic, UNCHANGED <<heapVars, rootVars>>
      PROVE  TypeOK'
  BY <1>4 DEF EndMark, EndScan, Panic, TypeOK, ScanState, NoScan, Ref
<1>5. ASSUME SkipNull, UNCHANGED <<heapVars, rootVars>> PROVE TypeOK'
  BY <1>5, AtASlot DEF SkipNull, TypeOK
<1>6. ASSUME Enqueue, UNCHANGED <<heapVars, rootVars>> PROVE TypeOK'
  <2>1. Content \in Obj
    BY <1>6, AtASlot DEF Enqueue, Ref
  <2>2. /\ gcMarkQueueUwU' \in Seq(Obj)
        /\ Len(gcMarkQueueUwU') <= MarkQueueCap
    BY <1>6, <2>1, AppendProperties, QueueAssumption DEF Enqueue, TypeOK
  <2> QED
    BY <1>6, <2>2, AtASlot DEF Enqueue, TypeOK, AtSlot
<1>7. ASSUME Defer, UNCHANGED <<heapVars, rootVars>> PROVE TypeOK'
  <2>1. [block |-> scan.block, fieldIndex |-> SavedIndex] \in MarkState
    BY <1>7, AtASlot DEF Defer, MarkState
  <2>2. /\ deferredMarkQueue' \in Seq(MarkState)
        /\ Len(deferredMarkQueue') <= DeferredCap
    BY <1>7, <2>1, AppendProperties, QueueAssumption DEF Defer, TypeOK
  <2> QED
    BY <1>7, <2>2 DEF Defer, TypeOK, ScanState, NoScan, Ref
<1>8. CASE UNCHANGED vars
  BY <1>8 DEF vars, queueVars, TypeOK
<1> QED
  BY <1>1, <1>2, <1>3, <1>4, <1>5, <1>6, <1>7, <1>8 DEF Next, MarkStep

THEOREM TypeCorrect == Spec => []TypeOK
  BY TypeInit, TypeStep, PTL DEF Spec

-----------------------------------------------------------------------------
(* The inductive invariant of the trace.                                   *)

(* Visits to resume are of blocks marked in this phase, at a later slot.   *)
Resumable(state) ==
    /\ state.fieldIndex > 0
    /\ Marked(state.block)
    /\ state.block \notin premarked

DeferredInv == \A d \in Elems(deferredMarkQueue) : Resumable(d)

(* So is the visit under way.  At its first slot there is room in the      *)
(* mark queue, because the block came out of it.                           *)
ScanInv ==
    markPc = "scan" =>
        /\ Marked(scan.block)
        /\ scan.block \notin premarked
        /\ InFields => scan.flexIndex = 0
        /\ scan.fieldIndex + scan.flexIndex = 0 => Len(gcMarkQueueUwU) < MarkQueueCap

Reached(o) == Marked(o) \/ o \in Elems(gcMarkQueueUwU)

(* A slot the tracer will still come to: of the visit under way, or of one *)
(* to resume, which passes over the array from its start.                  *)
OwedBy(state, o, s) ==
    /\ state.block = o
    /\ s >= state.fieldIndex \/ s >= FieldCount[o]

Owed(o, s) ==
    \/ markPc = "scan" /\ scan.block = o /\ s >= CurrentSlot
    \/ \E d \in Elems(deferredMarkQueue) : OwedBy(d, o, s)

RootsInv == \A root \in snapshotOfRootSet \ rootsLeft : Reached(root)

EdgesInv ==
    markPc # "panic" =>
        \A o \in Obj : \A s \in Slots(o) :
            Marked(o) /\ o \notin premarked /\ field[o][s] # NULL
                => Reached(field[o][s]) \/ Owed(o, s)

DescInv == \A o \in Obj : Slots(o) # {} => hasDesc[o]

TraceInv ==
    /\ DeferredInv /\ ScanInv /\ RootsInv /\ EdgesInv /\ DescInv
    /\ premarked \subseteq MarkedSet

LEMMA DeferredBlocks ==
    TypeOK => \A d \in Elems(deferredMarkQueue) : d.block \in Obj
<1>1. TypeOK => Elems(deferredMarkQueue) \subseteq MarkState
  BY ElemsIn DEF TypeOK
<1> QED
  BY <1>1 DEF MarkState

LEMMA TraceInit == Init => TraceInv
<1> SUFFICES ASSUME Init PROVE TraceInv
  OBVIOUS
<1> QED
  BY ElemsEmpty DEF Init, TraceInv, DeferredInv, ScanInv, RootsInv, EdgesInv,
     DescInv, MarkedSet

(* doMark puts a root into the empty queue. *)
LEMMA TraceMarkRoot ==
    ASSUME TypeOK, TraceInv, NEW root \in Obj, MarkRoot(root), UNCHANGED heapVars
    PROVE  TraceInv'
<1> USE DEF MarkRoot, DoMark, heapVars
<1>1. Elems(gcMarkQueueUwU') = Elems(gcMarkQueueUwU) \union {root}
  <2>1. gcMarkQueueUwU \in Seq(Obj) /\ gcMarkQueueUwU' = Append(gcMarkQueueUwU, root)
    BY DEF TypeOK
  <2> QED
    BY <2>1, ElemsAppend
<1>2. \A o : Marked(o)' <=> Marked(o)
  BY DEF Marked
<1>3. markPc # "panic"
  OBVIOUS
<1>4. DeferredInv'
  BY <1>2 DEF TraceInv, DeferredInv, Resumable
<1>5. ScanInv'
  BY DEF ScanInv
<1>6. RootsInv'
  BY <1>1, <1>2 DEF TraceInv, RootsInv, Reached
<1>7. EdgesInv'
  BY <1>1, <1>2, <1>3 DEF TraceInv, EdgesInv, Reached, Owed, OwedBy
<1> QED
  BY <1>2, <1>4, <1>5, <1>6, <1>7 DEF TraceInv, DescInv, MarkedSet

(* A visit that leaves at once loses nothing, and one that begins or       *)
(* resumes owes the slots it has before it.                                *)
LEMMA TraceVisitQueued ==
    ASSUME TypeOK, TraceInv, VisitQueued, UNCHANGED <<heapVars, rootVars>>
    PROVE  TraceInv'
<1> DEFINE block == Head(gcMarkQueueUwU)
           state == [block |-> block, fieldIndex |-> 0]
<1> USE DEF heapVars, rootVars
<1>1. /\ block \in Obj
      /\ Elems(gcMarkQueueUwU) = {block} \union Elems(gcMarkQueueUwU')
      /\ Len(gcMarkQueueUwU') < MarkQueueCap
  BY ElemsTail, HeadTailProperties, QueueAssumption DEF VisitQueued, TypeOK
<1>2. state \in MarkState /\ Visit(state)
  BY <1>1 DEF MarkState, VisitQueued
<1>3. \A o \in Obj : Marked(o)' <=> Marked(o) \/ o = block
  BY <1>2, VisitMarks
<1>4. \A o \in Obj : Reached(o) => Reached(o)'
  BY <1>1, <1>3 DEF Reached
<1>5. DeferredInv'
  <2>1. \A d \in Elems(deferredMarkQueue) : d.block \in Obj
    BY DeferredBlocks
  <2> QED
    BY <1>3, <2>1 DEF TraceInv, DeferredInv, Resumable, VisitQueued
<1>6. RootsInv'
  BY <1>4 DEF TraceInv, RootsInv, TypeOK
<1>7. CASE Marked(block)
  <2>1. markPc' = "drain" /\ UNCHANGED scan
    BY <1>2, <1>7 DEF Visit, VisitQueued
  <2>2. ScanInv'
    BY <2>1 DEF ScanInv
  <2>3. EdgesInv'
    <3> SUFFICES ASSUME NEW o \in Obj, NEW s \in Slots(o), Marked(o)',
                        o \notin premarked, field[o][s] # NULL
                 PROVE  Reached(field[o][s])' \/ Owed(o, s)'
      BY DEF EdgesInv
    <3>1. Reached(field[o][s]) \/ Owed(o, s)
      BY <1>3, <1>7 DEF TraceInv, EdgesInv, VisitQueued
    <3>2. field[o][s] \in Obj
      BY DEF TypeOK, Fields, Ref
    <3>3. Owed(o, s) => Owed(o, s)'
      BY DEF Owed, OwedBy, VisitQueued
    <3> QED
      BY <1>4, <3>1, <3>2, <3>3
  <2> QED
    BY <1>3, <1>5, <1>6, <2>2, <2>3 DEF TraceInv, DescInv, MarkedSet
<1>8. CASE ~Marked(block)
  <2>1. /\ markPc' = "scan"
        /\ scan' = [block |-> block, fieldIndex |-> 0, flexIndex |-> 0]
    BY <1>2, <1>8 DEF Visit
  <2>2. block \notin premarked
    BY <1>8 DEF TraceInv, MarkedSet
  <2>3. ScanInv'
    BY <1>1, <1>3, <2>1, <2>2 DEF ScanInv
  <2>4. EdgesInv'
    <3> SUFFICES ASSUME NEW o \in Obj, NEW s \in Slots(o), Marked(o)',
                        o \notin premarked, field[o][s] # NULL
                 PROVE  Reached(field[o][s])' \/ Owed(o, s)'
      BY DEF EdgesInv
    <3>1. CASE o = block
      <4>1. CurrentSlot' = 0 \/ CurrentSlot' = FieldCount[block]
        BY <1>1, <2>1, CountAssumption DEF CurrentSlot, InFields
      <4>2. FieldCount[block] \in Nat /\ s \in Nat
        BY <1>1, CountAssumption DEF Slots
      <4>3. CurrentSlot' <= s
        BY <1>1, <2>1, <4>1, <4>2, CountAssumption DEF CurrentSlot, InFields
      <4> QED
        BY <2>1, <3>1, <4>1, <4>2, <4>3 DEF Owed
    <3>2. CASE o # block
      <4>1. Reached(field[o][s]) \/ Owed(o, s)
        BY <1>3, <3>2 DEF TraceInv, EdgesInv, VisitQueued
      <4>2. field[o][s] \in Obj
        BY DEF TypeOK, Fields, Ref
      <4>3. Owed(o, s) => Owed(o, s)'
        BY DEF Owed, OwedBy, VisitQueued
      <4> QED
        BY <1>4, <4>1, <4>2, <4>3
    <3> QED
      BY <3>1, <3>2
  <2> QED
    BY <1>3, <1>5, <1>6, <2>3, <2>4 DEF TraceInv, DescInv, MarkedSet
<1> QED
  BY <1>7, <1>8

LEMMA TraceVisitDeferred ==
    ASSUME TypeOK, TraceInv, VisitDeferred, UNCHANGED <<heapVars, rootVars>>
    PROVE  TraceInv'
<1> DEFINE state == Head(deferredMarkQueue)
<1> USE DEF heapVars, rootVars
<1>1. /\ state \in MarkState
      /\ Elems(deferredMarkQueue) = {state} \union Elems(deferredMarkQueue')
  BY ElemsTail, HeadTailProperties DEF VisitDeferred, TypeOK
<1>2. /\ state.block \in Obj /\ state.fieldIndex \in Nat
      /\ Resumable(state)
  BY <1>1 DEF MarkState, TraceInv, DeferredInv
<1>3. Visit(state)
  BY DEF VisitDeferred
<1>4. \A o \in Obj : Marked(o)' <=> Marked(o)
  BY <1>1, <1>2, <1>3, VisitMarks DEF Resumable
<1>5. /\ markPc' = "scan"
      /\ scan' = [block |-> state.block, fieldIndex |-> state.fieldIndex,
                  flexIndex |-> 0]
  BY <1>2, <1>3 DEF Visit, Resumable
<1> HIDE DEF state
<1>6. DeferredInv'
  <2>1. \A d \in Elems(deferredMarkQueue) : d.block \in Obj
    BY DeferredBlocks
  <2> QED
    BY <1>1, <1>4, <2>1 DEF TraceInv, DeferredInv, Resumable, VisitDeferred
<1>7. ScanInv'
  BY <1>2, <1>4, <1>5 DEF ScanInv, Resumable, VisitDeferred
<1>8. RootsInv'
  BY <1>4 DEF TraceInv, RootsInv, Reached, VisitDeferred, TypeOK
<1>9. EdgesInv'
  <2> SUFFICES ASSUME NEW o \in Obj, NEW s \in Slots(o), Marked(o)',
                      o \notin premarked, field[o][s] # NULL
               PROVE  Reached(field[o][s])' \/ Owed(o, s)'
    BY DEF EdgesInv
  <2>1. Reached(field[o][s]) \/ Owed(o, s)
    BY <1>4 DEF TraceInv, EdgesInv, VisitDeferred
  <2>2. Reached(field[o][s]) => Reached(field[o][s])'
    BY <1>4 DEF Reached, VisitDeferred, TypeOK, Fields, Ref
  <2>3. OwedBy(state, o, s) => Owed(o, s)'
    <3> SUFFICES ASSUME OwedBy(state, o, s) PROVE CurrentSlot' <= s
      BY <1>5 DEF Owed, OwedBy, Slots
    <3>1. FieldCount[o] \in Nat /\ s \in Nat /\ state.block = o
      BY CountAssumption DEF Slots, OwedBy
    <3> QED
      BY <1>2, <1>5, <3>1 DEF OwedBy, CurrentSlot, InFields
  <2>4. Owed(o, s) => Owed(o, s)'
    BY <1>1, <2>3 DEF Owed, OwedBy, VisitDeferred
  <2> QED
    BY <2>1, <2>2, <2>4
<1> QED
  BY <1>4, <1>6, <1>7, <1>8, <1>9 DEF TraceInv, DescInv, MarkedSet

(* Ending a visit: no slot is left.  Ending a mark: nothing is owed. *)
LEMMA TraceEnd ==
    ASSUME TypeOK, TraceInv, EndMark \/ EndScan \/ Panic,
           UNCHANGED <<heapVars, rootVars>>
    PROVE  TraceInv'
<1> USE DEF heapVars, rootVars
<1>1. UNCHANGED <<markBit, gcMarkQueueUwU, deferredMarkQueue>>
      /\ markPc' # "scan"
  BY DEF EndMark, EndScan, Panic
<1>2. DeferredInv' /\ ScanInv' /\ RootsInv'
  BY <1>1 DEF TraceInv, DeferredInv, Resumable, Marked, ScanInv, RootsInv, Reached
<1>3. EdgesInv'
  <2>1. CASE Panic
    BY <2>1 DEF Panic, EdgesInv
  <2>2. CASE EndMark
    BY <1>1, <2>2 DEF EndMark, TraceInv, EdgesInv, Reached, Marked, Owed, OwedBy
  <2>3. CASE EndScan
    <3> SUFFICES ASSUME NEW o \in Obj, NEW s \in Slots(o), scan.block = o
                 PROVE  ~(s >= CurrentSlot)
      BY <1>1, <2>3 DEF EndScan, TraceInv, EdgesInv, Reached, Marked, Owed, OwedBy
    <3>1. scan.flexIndex \in Nat /\ FieldCount[o] \in Nat /\ FlexCount[o] \in Nat
      BY CountAssumption DEF TypeOK, ScanState
    <3>2. ~InFields /\ scan.flexIndex >= FlexCount[o]
      BY <2>3 DEF EndScan, ScanDone, TraceInv, DescInv
    <3> QED
      BY <3>1, <3>2 DEF CurrentSlot, Slots, SlotCount
  <2> QED
    BY <2>1, <2>2, <2>3
<1> QED
  BY <1>1, <1>2, <1>3 DEF TraceInv, DescInv, MarkedSet, Marked

(* Passing a slot: what was in it is null or in the mark queue.            *)
LEMMA TracePass ==
    ASSUME TypeOK, TraceInv, SkipNull \/ Enqueue, UNCHANGED <<heapVars, rootVars>>
    PROVE  TraceInv'
<1> USE DEF heapVars, rootVars
<1>1. /\ AtSlot /\ scan' = AfterSlot
      /\ UNCHANGED <<markBit, deferredMarkQueue, markPc>>
      /\ Elems(gcMarkQueueUwU) \subseteq Elems(gcMarkQueueUwU')
      /\ Content # NULL => Content \in Elems(gcMarkQueueUwU')
  <2>1. CASE SkipNull
    BY <2>1 DEF SkipNull
  <2>2. CASE Enqueue
    <3>1. Content \in Obj /\ gcMarkQueueUwU \in Seq(Obj)
      BY <2>2, AtASlot DEF Enqueue, Ref, TypeOK
    <3>2. Elems(gcMarkQueueUwU') = Elems(gcMarkQueueUwU) \union {Content}
      BY <2>2, <3>1, ElemsAppend DEF Enqueue
    <3> QED
      BY <2>2, <3>2 DEF Enqueue
  <2> QED
    BY <2>1, <2>2
<1>2. /\ scan.block \in Obj
      /\ scan.fieldIndex \in Nat /\ scan.flexIndex \in Nat
      /\ FieldCount[scan.block] \in Nat
  BY <1>1, AtASlot, CountAssumption DEF TypeOK, ScanState
<1>3. scan' = IF scan.fieldIndex < FieldCount[scan.block]
              THEN [scan EXCEPT !.fieldIndex = @ + 1]
              ELSE [scan EXCEPT !.flexIndex = @ + 1]
  BY <1>1 DEF AfterSlot, InFields
<1>4. /\ scan'.block = scan.block
      /\ scan'.fieldIndex + scan'.flexIndex # 0
      /\ InFields' => scan'.flexIndex = scan.flexIndex /\ InFields
      /\ scan.flexIndex = 0 \/ ~InFields => CurrentSlot' = CurrentSlot + 1
  <2>1. CASE scan.fieldIndex < FieldCount[scan.block]
    <3>1. /\ scan'.block = scan.block
          /\ scan'.fieldIndex = scan.fieldIndex + 1
          /\ scan'.flexIndex = scan.flexIndex
      BY <1>3, <2>1 DEF TypeOK, ScanState
    <3> QED
      BY <1>2, <2>1, <3>1 DEF InFields, CurrentSlot
  <2>2. CASE ~(scan.fieldIndex < FieldCount[scan.block])
    <3>1. /\ scan'.block = scan.block
          /\ scan'.fieldIndex = scan.fieldIndex
          /\ scan'.flexIndex = scan.flexIndex + 1
      BY <1>3, <2>2 DEF TypeOK, ScanState
    <3> QED
      BY <1>2, <2>2, <3>1 DEF InFields, CurrentSlot
  <2> QED
    BY <2>1, <2>2
<1>5. DeferredInv'
  BY <1>1 DEF TraceInv, DeferredInv, Resumable, Marked
<1>6. ScanInv'
  BY <1>1, <1>4 DEF TraceInv, ScanInv, AtSlot, Marked
<1>7. RootsInv'
  BY <1>1 DEF TraceInv, RootsInv, Reached, Marked
<1>8. EdgesInv'
  <2> SUFFICES ASSUME NEW o \in Obj, NEW s \in Slots(o), Marked(o)',
                      o \notin premarked, field[o][s] # NULL
               PROVE  Reached(field[o][s])' \/ Owed(o, s)'
    BY DEF EdgesInv
  <2>1. Reached(field[o][s]) \/ Owed(o, s)
    BY <1>1 DEF TraceInv, EdgesInv, Marked, AtSlot
  <2>2. CASE scan.block = o /\ s = CurrentSlot
    BY <1>1, <2>2 DEF Content, Reached
  <2>3. CASE ~(scan.block = o /\ s = CurrentSlot)
    <3>1. Reached(field[o][s]) => Reached(field[o][s])'
      BY <1>1 DEF Reached, Marked
    <3>2. s \in Nat /\ CurrentSlot \in Nat
      BY <1>2 DEF Slots, CurrentSlot
    <3>3. scan.flexIndex = 0 \/ ~InFields
      BY <1>1 DEF TraceInv, ScanInv, AtSlot
    <3>4. Owed(o, s) => Owed(o, s)'
      BY <1>1, <1>4, <2>3, <3>2, <3>3 DEF Owed, OwedBy
    <3> QED
      BY <2>1, <3>1, <3>4
  <2> QED
    BY <2>2, <2>3
<1> QED
  BY <1>1, <1>5, <1>6, <1>7, <1>8 DEF TraceInv, DescInv, MarkedSet, Marked

(* Putting off a visit: the entry owes what the visit owed.                *)
LEMMA TraceDefer ==
    ASSUME TypeOK, TraceInv, Defer, UNCHANGED <<heapVars, rootVars>>
    PROVE  TraceInv'
<1> DEFINE entry == [block |-> scan.block, fieldIndex |-> SavedIndex]
<1> USE DEF heapVars, rootVars
<1>1. /\ AtSlot
      /\ UNCHANGED <<markBit, gcMarkQueueUwU>>
      /\ markPc' = "drain"
  BY DEF Defer
<1>2. /\ scan.block \in Obj
      /\ scan.fieldIndex \in Nat /\ scan.flexIndex \in Nat
      /\ FieldCount[scan.block] \in Nat /\ FlexCount[scan.block] \in Nat
      /\ SavedIndex \in Nat
  BY <1>1, AtASlot, CountAssumption DEF TypeOK, ScanState
<1>3. Elems(deferredMarkQueue') = Elems(deferredMarkQueue) \union {entry}
  <2>1. entry \in MarkState /\ deferredMarkQueue \in Seq(MarkState)
    BY <1>2 DEF MarkState, TypeOK
  <2> QED
    BY <2>1, ElemsAppend DEF Defer
<1>4. scan.fieldIndex + scan.flexIndex # 0
  BY <1>1 DEF TraceInv, ScanInv, AtSlot, Defer, TypeOK
<1>5. SavedIndex > 0
  BY <1>1, <1>2, <1>4 DEF SavedIndex, SlotCount, AtSlot, ScanDone, InFields
<1>6. DeferredInv'
  BY <1>1, <1>3, <1>5 DEF TraceInv, DeferredInv, ScanInv, Resumable, Marked, AtSlot
<1>7. ScanInv' /\ RootsInv'
  BY <1>1 DEF TraceInv, ScanInv, RootsInv, Reached, Marked
<1>8. EdgesInv'
  <2> SUFFICES ASSUME NEW s \in Slots(scan.block), s >= CurrentSlot
               PROVE  OwedBy(entry, scan.block, s)
    BY <1>1, <1>3, ZenonT(60) DEF TraceInv, EdgesInv, Reached, Marked, Owed, OwedBy, AtSlot
  <2>1. s \in Nat
    BY DEF Slots
  <2>2. CASE InFields
    <3>1. SavedIndex = CurrentSlot
      BY <1>1, <1>2, <2>2 DEF TraceInv, ScanInv, AtSlot, SavedIndex, CurrentSlot,
         SlotCount, InFields
    <3> QED
      BY <3>1 DEF OwedBy
  <2>3. CASE ~InFields
    BY <1>2, <2>1, <2>3 DEF OwedBy, CurrentSlot
  <2> QED
    BY <2>2, <2>3
<1> QED
  BY <1>1, <1>6, <1>7, <1>8 DEF TraceInv, DescInv, MarkedSet, Marked

LEMMA TraceStep == TypeOK /\ TraceInv /\ [Next]_vars => TraceInv'
<1> SUFFICES ASSUME TypeOK, TraceInv, [Next]_vars PROVE TraceInv'
  OBVIOUS
<1>1. CASE UNCHANGED vars
  BY <1>1 DEF vars, heapVars, rootVars, queueVars, TraceInv, DeferredInv,
     Resumable, ScanInv, InFields, RootsInv, Reached, EdgesInv, Owed, OwedBy,
     CurrentSlot, DescInv, MarkedSet, Marked
<1> QED
  BY <1>1, TraceMarkRoot, TraceVisitQueued, TraceVisitDeferred, TraceEnd,
     TracePass, TraceDefer DEF Next, MarkStep

LEMMA TraceInvariant == Spec => [](TypeOK /\ TraceInv)
  BY TypeInit, TypeStep, TraceInit, TraceStep, PTL DEF Spec

-----------------------------------------------------------------------------
(* DeferredResumes: the index that markOneItem saves for a put-off block   *)
(* is never 0, so doMarkInner always takes the visit up again.             *)
THEOREM DeferredResumed == Spec => []DeferredResumes
<1>1. TypeOK /\ TraceInv => DeferredResumes
  BY DEF TraceInv, DeferredInv, Resumable, Elems, DeferredResumes
<1> QED
  BY <1>1, TraceInvariant, PTL

(* MarksReachable: for any graph, queue length and pattern of put-off      *)
(* visits, when markingPhase ends the roots are marked, and with each      *)
(* block marked in this phase every block it refers to.                    *)
THEOREM MarkingComplete == Spec => []MarksReachable
<1>1. TypeOK /\ TraceInv => MarksReachable
  <2> SUFFICES ASSUME TypeOK, TraceInv, MarkingDone
               PROVE  snapshotOfRootSet \subseteq MarkedSet /\ ClosedSet(MarkedSet)
    BY DEF MarksReachable
  <2>1. Elems(gcMarkQueueUwU) = {} /\ Elems(deferredMarkQueue) = {}
    BY ElemsEmpty DEF MarkingDone, TypeOK
  <2>2. snapshotOfRootSet \subseteq MarkedSet
    BY <2>1 DEF MarkingDone, TraceInv, RootsInv, Reached, MarkedSet, TypeOK
  <2>3. ASSUME NEW o \in MarkedSet \ premarked, NEW s \in Slots(o), field[o][s] # NULL
        PROVE  field[o][s] \in MarkedSet
    <3>1. field[o][s] \in Obj
      BY <2>3 DEF TypeOK, Fields, Ref, MarkedSet
    <3>2. Reached(field[o][s])
      BY <2>1, <2>3 DEF MarkingDone, TraceInv, EdgesInv, MarkedSet, Owed
    <3> QED
      BY <2>1, <3>1, <3>2 DEF Reached, MarkedSet
  <2> QED
    BY <2>2, <2>3 DEF ClosedSet, Targets
<1> QED
  BY <1>1, TraceInvariant, PTL

(* The blocks that the tracer has marked or queued lie in S, whenever S    *)
(* holds the roots and the premarked blocks and is closed.                 *)
Within(S) ==
    snapshotOfRootSet \union premarked \subseteq S /\ ClosedSet(S)
        => MarkedSet \subseteq S /\ Elems(gcMarkQueueUwU) \subseteq S

LEMMA WithinStep ==
    ASSUME TypeOK, TraceInv, [Next]_vars, NEW S \in SUBSET Obj, Within(S)
    PROVE  Within(S)'
<1> SUFFICES ASSUME snapshotOfRootSet \union premarked \subseteq S, ClosedSet(S),
                    UNCHANGED <<heapVars, snapshotOfRootSet, premarked>>
             PROVE  /\ \A o \in Obj : Marked(o)' => o \in S
                    /\ Elems(gcMarkQueueUwU') \subseteq S
  BY DEF Within, MarkedSet, ClosedSet, Targets, Next, MarkRoot, vars, heapVars, rootVars
<1> USE DEF heapVars
<1>1. MarkedSet \subseteq S /\ Elems(gcMarkQueueUwU) \subseteq S
  BY DEF Within
<1>2. ASSUME NEW root \in Obj, MarkRoot(root)
      PROVE  UNCHANGED markBit /\ Elems(gcMarkQueueUwU') \subseteq S
  <2>1. /\ gcMarkQueueUwU \in Seq(Obj) /\ root \in S
        /\ gcMarkQueueUwU' = Append(gcMarkQueueUwU, root)
    BY <1>2 DEF MarkRoot, DoMark, TypeOK
  <2>2. Elems(gcMarkQueueUwU') = Elems(gcMarkQueueUwU) \union {root}
    BY <2>1, ElemsAppend
  <2> QED
    BY <1>1, <1>2, <2>1, <2>2 DEF MarkRoot
<1>3. ASSUME VisitQueued
      PROVE  /\ \A o \in Obj : Marked(o)' => o \in S
             /\ Elems(gcMarkQueueUwU') \subseteq S
  <2> DEFINE state == [block |-> Head(gcMarkQueueUwU), fieldIndex |-> 0]
  <2>1. /\ Head(gcMarkQueueUwU) \in Obj
        /\ Elems(gcMarkQueueUwU) = {Head(gcMarkQueueUwU)} \union Elems(gcMarkQueueUwU')
    BY <1>3, ElemsTail, HeadTailProperties DEF VisitQueued, TypeOK
  <2>2. state \in MarkState /\ Visit(state)
    BY <1>3, <2>1 DEF MarkState, VisitQueued
  <2>3. \A o \in Obj : Marked(o)' <=> Marked(o) \/ o = state.block
    BY <2>2, VisitMarks
  <2> QED
    BY <1>1, <2>1, <2>3 DEF MarkedSet
<1>4. ASSUME VisitDeferred
      PROVE  /\ \A o \in Obj : Marked(o)' => o \in S
             /\ UNCHANGED gcMarkQueueUwU
  <2> DEFINE state == Head(deferredMarkQueue)
  <2>1. state \in MarkState /\ state \in Elems(deferredMarkQueue)
    BY <1>4, ElemsTail, HeadTailProperties DEF VisitDeferred, TypeOK
  <2>2. Marked(state.block) /\ Visit(state)
    BY <1>4, <2>1 DEF TraceInv, DeferredInv, Resumable, VisitDeferred
  <2>3. \A o \in Obj : Marked(o)' <=> Marked(o) \/ o = state.block
    BY <2>1, <2>2, VisitMarks
  <2> QED
    BY <1>1, <1>4, <2>2, <2>3 DEF MarkedSet, VisitDeferred
<1>5. ASSUME Enqueue
      PROVE  UNCHANGED markBit /\ Elems(gcMarkQueueUwU') \subseteq S
  <2>1. /\ AtSlot /\ Content # NULL
        /\ gcMarkQueueUwU' = Append(gcMarkQueueUwU, Content)
        /\ UNCHANGED markBit
    BY <1>5 DEF Enqueue
  <2>2. /\ scan.block \in Obj /\ CurrentSlot \in Slots(scan.block)
        /\ Content \in Obj /\ gcMarkQueueUwU \in Seq(Obj)
    BY <2>1, AtASlot DEF Ref, TypeOK
  <2>3. Elems(gcMarkQueueUwU') = Elems(gcMarkQueueUwU) \union {Content}
    BY <2>1, <2>2, ElemsAppend
  <2>4. scan.block \in S \ premarked
    BY <1>1, <2>1, <2>2 DEF TraceInv, ScanInv, AtSlot, MarkedSet
  <2>5. Content \in S
    BY <2>1, <2>2, <2>4 DEF ClosedSet, Targets, Content
  <2> QED
    BY <1>1, <2>1, <2>3, <2>5
<1>6. ASSUME EndMark \/ EndScan \/ SkipNull \/ Defer \/ Panic \/ UNCHANGED vars
      PROVE  UNCHANGED <<markBit, gcMarkQueueUwU>>
  BY <1>6 DEF EndMark, EndScan, SkipNull, Defer, Panic, vars, queueVars
<1> QED
  BY <1>1, <1>2, <1>3, <1>4, <1>5, <1>6 DEF Next, MarkStep, MarkedSet, Marked

(* MarksOnlyReachable: at no time is a block marked that the roots do not  *)
(* lead to, other than those marked before the cycle.                      *)
THEOREM MarkingSound == Spec => []MarksOnlyReachable
<1> DEFINE WithinAll == \A S \in SUBSET Obj : Within(S)
<1>1. Init => WithinAll
  <2> SUFFICES ASSUME Init PROVE MarkedSet = premarked /\ Elems(gcMarkQueueUwU) = {}
    BY DEF Within
  <2> QED
    BY ElemsEmpty DEF Init, MarkedSet
<1>2. TypeOK /\ TraceInv /\ WithinAll /\ [Next]_vars => WithinAll'
  BY WithinStep
<1>3. WithinAll => MarksOnlyReachable
  BY DEF Within, MarksOnlyReachable
<1> HIDE DEF WithinAll
<1> QED
  BY <1>1, <1>2, <1>3, TraceInvariant, PTL DEF Spec
=============================================================================
