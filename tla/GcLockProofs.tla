---------------------------- MODULE GcLockProofs ----------------------------
(***************************************************************************)
(* What is proved of GcLock for any set of mutators and store buffers of   *)
(* any length: its types; that it excludes and implements the lock of      *)
(* gc_lock.h as long as no look at gcState overtakes a raised hand; and so *)
(* that it does both under sequential consistency.                         *)
(***************************************************************************)
EXTENDS GcLock, SequenceTheorems, TLAPS

USE DEF GC_UNUSED, GC_ACTIVE_OR_WAIT, MUTATOR_UNUSED, MUTATOR_WAITING,
        MUTATOR_PREPARING, MUTATOR_ACTIVE

GcStates == {GC_UNUSED, GC_ACTIVE_OR_WAIT}
MutatorStates == MUTATOR_UNUSED .. MUTATOR_ACTIVE

(* A store, buffered or not, keeps the shared words and the buffers of the *)
(* types that TypeOK gives them.                                           *)
LEMMA StoreTypes ==
    ASSUME TypeOK
    PROVE  /\ \A v \in GcStates : StoreGcState(v) =>
                /\ gcState' \in GcStates
                /\ gcBuffer' \in Seq(GcStates)
           /\ \A t \in Mutators, v \in MutatorStates : StoreMutatorState(t, v) =>
                /\ mutatorState' \in [Mutators -> MutatorStates]
                /\ mutatorBuffer' \in [Mutators -> Seq(MutatorStates)]
<1> USE DEF TypeOK, GcStates, MutatorStates
<1>1. ASSUME NEW v \in GcStates, StoreGcState(v)
      PROVE  gcState' \in GcStates /\ gcBuffer' \in Seq(GcStates)
  <2>1. Append(gcBuffer, v) \in Seq(GcStates)
    BY AppendProperties
  <2> QED
    BY <1>1, <2>1 DEF StoreGcState
<1>2. ASSUME NEW t \in Mutators, NEW v \in MutatorStates, StoreMutatorState(t, v)
      PROVE  /\ mutatorState' \in [Mutators -> MutatorStates]
             /\ mutatorBuffer' \in [Mutators -> Seq(MutatorStates)]
  <2>1. Append(mutatorBuffer[t], v) \in Seq(MutatorStates)
    BY AppendProperties
  <2> QED
    BY <1>2, <2>1 DEF StoreMutatorState
<1> QED
  BY <1>1, <1>2

(* The types that gc_lock_new gives the words. *)
LEMMA InitTypes == Init => TypeOK
<1>1. Init => overtook \in BOOLEAN
  BY Zenon DEF Init
<1> QED
  BY <1>1 DEF Init, TypeOK, GcPcs, MutatorPcs

(* TypeOK: whatever the length of the store buffers, every word of         *)
(* gc_lock.c keeps a value of its enum and every thread is at a known      *)
(* place.                                                                  *)
THEOREM TypeCorrect == Spec => []TypeOK
<1>1. Init => TypeOK
  BY InitTypes
<1>2. TypeOK /\ [Next]_vars => TypeOK'
  <2> SUFFICES ASSUME TypeOK, [Next]_vars PROVE TypeOK'
    OBVIOUS
  <2> USE DEF TypeOK, GcPcs, MutatorPcs, vars, gcVars, mutatorVars, lockVars, GcStates, MutatorStates
  <2>1. CASE Announce
    BY <2>1, StoreTypes DEF Announce
  <2>2. CASE LockList
    BY <2>2 DEF LockList
  <2>3. ASSUME NEW t \in Mutators, SeeOut(t) PROVE TypeOK'
    BY <2>3 DEF SeeOut
  <2>4. CASE Enter
    BY <2>4 DEF Enter
  <2>5. CASE Exit
    BY <2>5, StoreTypes DEF Exit
  <2>6. CASE DrainGc
    BY <2>6, HeadTailProperties DEF DrainGc
  <2>7. ASSUME NEW t \in Mutators, BlockGc(t) PROVE TypeOK'
    BY <2>7, StoreTypes DEF BlockGc, Goto
  <2>8. ASSUME NEW t \in Mutators, BlockStep(t) PROVE TypeOK'
    <3>1. CASE TestGcState(t)
      BY <3>1 DEF TestGcState, LookAtGcState, Goto
    <3>2. CASE Retreat(t)
      BY <3>2, StoreTypes DEF Retreat, Goto
    <3>3. CASE EndWait(t)
      BY <3>3 DEF EndWait, Goto
    <3>4. CASE Prepare(t)
      BY <3>4, StoreTypes DEF Prepare, Goto
    <3>5. CASE Activate(t)
      BY <3>5, StoreTypes DEF Activate, Goto
    <3> QED
      BY <2>8, <3>1, <3>2, <3>3, <3>4, <3>5 DEF BlockStep
  <2>9. ASSUME NEW t \in Mutators, UnblockGc(t) PROVE TypeOK'
    BY <2>9, StoreTypes DEF UnblockGc, Goto
  <2>10. ASSUME NEW t \in Mutators, NewThread(t) PROVE TypeOK'
    BY <2>10 DEF NewThread, Goto
  <2>11. ASSUME NEW t \in Mutators, FreeThread(t) PROVE TypeOK'
    BY <2>11 DEF FreeThread, Goto
  <2>12. ASSUME NEW t \in Mutators, DrainMutator(t) PROVE TypeOK'
    BY <2>12, HeadTailProperties DEF DrainMutator
  <2>13. CASE UNCHANGED vars
    BY <2>13
  <2> QED
    BY <2>1, <2>2, <2>3, <2>4, <2>5, <2>6, <2>7, <2>8, <2>9, <2>10, <2>11,
       <2>12, <2>13 DEF Next, GcStep, MutatorStep
<1> QED
  BY <1>1, <1>2, PTL DEF Spec

-----------------------------------------------------------------------------
(* The inductive invariant. *)

(* No buffer holds more than it has room for: with no buffers, memory is   *)
(* what the threads last stored.                                           *)
BuffersFit ==
    /\ Len(gcBuffer) <= StoreBufferSize
    /\ \A t \in Mutators : Len(mutatorBuffer[t]) <= StoreBufferSize

(* The last of the stores that memory and then the buffer have received    *)
LastIs(word, buffer, v) ==
    /\ buffer = <<>> => word = v
    /\ buffer # <<>> => buffer[Len(buffer)] = v

(* The GC thread's announcement is the last thing it stored, and in memory *)
(* when it looks at the mutators.                                          *)
AnnouncedInv ==
    /\ gcPc # "out" => LastIs(gcState, gcBuffer, GC_ACTIVE_OR_WAIT)
    /\ gcPc \in {"check", "in"} => gcBuffer = <<>>

(* The hand a mutator raises is the last thing it stored when it looks at  *)
(* gcState; while it goes in, memory shows the hand or more, and what is   *)
(* still to come is more.                                                  *)
HandsRaised ==
    \A t \in Mutators :
        /\ mutatorPc[t] = "test"
               => LastIs(mutatorState[t], mutatorBuffer[t], MUTATOR_PREPARING)
        /\ ~overtook /\ mutatorPc[t] \in {"activate", "in"}
               => /\ mutatorState[t] >= MUTATOR_PREPARING
                  /\ \A i \in 1 .. Len(mutatorBuffer[t]) :
                        mutatorBuffer[t][i] = MUTATOR_ACTIVE

ListMatchesPcs ==
    \A t \in Mutators : t \in mutatorThreadsList <=> mutatorPc[t] # "detached"

(* A thread that the GC need not or did no longer find is not inside. *)
SeenOut ==
    ~overtook =>
        \A t \in Mutators :
            \/ gcPc = "check" /\ t \notin toCheck
            \/ gcPc = "in"
            => mutatorPc[t] \notin {"activate", "in"}

LockInv ==
    TypeOK /\ BuffersFit /\ AnnouncedInv /\ HandsRaised /\ ListMatchesPcs /\ SeenOut

LEMMA LockInvInit == Init => LockInv
<1>1. Init => TypeOK
  BY InitTypes
<1>2. Init => BuffersFit
  BY StoreBufferAssumption, EmptySeq DEF Init, BuffersFit
<1> QED
  BY <1>1, <1>2 DEF Init, LockInv, AnnouncedInv, HandsRaised, ListMatchesPcs, SeenOut

(* An appended store is the last one. *)
LEMMA AppendIsLast ==
    ASSUME NEW S, NEW word, NEW v \in S, NEW buffer \in Seq(S),
           NEW size \in Nat, Len(buffer) < size
    PROVE  /\ LastIs(word, Append(buffer, v), v)
           /\ Len(Append(buffer, v)) <= size
           /\ \A i \in 1 .. Len(Append(buffer, v)) :
                 \/ Append(buffer, v)[i] = v
                 \/ i \in 1 .. Len(buffer) /\ Append(buffer, v)[i] = buffer[i]
<1>1. /\ Append(buffer, v) # <<>>
      /\ Len(Append(buffer, v)) = Len(buffer) + 1
      /\ \A i \in 1 .. Len(buffer) : Append(buffer, v)[i] = buffer[i]
      /\ Append(buffer, v)[Len(buffer) + 1] = v
  BY AppendProperties
<1>2. Len(buffer) \in Nat
  BY LenProperties
<1> QED
  BY <1>1, <1>2 DEF LastIs

(* What a store leaves behind: it is the last one, and what was before it  *)
(* is as it was.                                                           *)
LEMMA StoreIsLast ==
    ASSUME TypeOK, BuffersFit
    PROVE  /\ \A v \in GcStates : StoreGcState(v) =>
                /\ LastIs(gcState', gcBuffer', v)
                /\ Len(gcBuffer') <= StoreBufferSize
           /\ \A t \in Mutators, v \in MutatorStates : StoreMutatorState(t, v) =>
                /\ LastIs(mutatorState'[t], mutatorBuffer'[t], v)
                /\ Len(mutatorBuffer'[t]) <= StoreBufferSize
                /\ mutatorState'[t] \in {mutatorState[t], v}
                /\ \A i \in 1 .. Len(mutatorBuffer'[t]) :
                      \/ mutatorBuffer'[t][i] = v
                      \/ /\ i \in 1 .. Len(mutatorBuffer[t])
                         /\ mutatorBuffer'[t][i] = mutatorBuffer[t][i]
                /\ \A u \in Mutators \ {t} :
                      /\ mutatorState'[u] = mutatorState[u]
                      /\ mutatorBuffer'[u] = mutatorBuffer[u]
<1>1. ASSUME NEW v \in GcStates, StoreGcState(v)
      PROVE  LastIs(gcState', gcBuffer', v) /\ Len(gcBuffer') <= StoreBufferSize
  <2>0. gcBuffer \in Seq(GcStates)
    BY DEF TypeOK, GcStates
  <2>1. CASE StoreBufferSize = 0 /\ gcState' = v /\ UNCHANGED gcBuffer
    BY <2>0, <2>1, EmptySeq DEF BuffersFit, LastIs
  <2>2. CASE /\ Len(gcBuffer) < StoreBufferSize
             /\ gcBuffer' = Append(gcBuffer, v)
    BY <2>0, <2>2, AppendIsLast, StoreBufferAssumption
  <2> QED
    BY <1>1, <2>1, <2>2 DEF StoreGcState
<1>2. ASSUME NEW t \in Mutators, NEW v \in MutatorStates, StoreMutatorState(t, v)
      PROVE  /\ LastIs(mutatorState'[t], mutatorBuffer'[t], v)
             /\ Len(mutatorBuffer'[t]) <= StoreBufferSize
             /\ mutatorState'[t] \in {mutatorState[t], v}
             /\ \A i \in 1 .. Len(mutatorBuffer'[t]) :
                   \/ mutatorBuffer'[t][i] = v
                   \/ /\ i \in 1 .. Len(mutatorBuffer[t])
                      /\ mutatorBuffer'[t][i] = mutatorBuffer[t][i]
             /\ \A u \in Mutators \ {t} :
                   /\ mutatorState'[u] = mutatorState[u]
                   /\ mutatorBuffer'[u] = mutatorBuffer[u]
  <2>0. /\ mutatorBuffer[t] \in Seq(MutatorStates)
        /\ mutatorState \in [Mutators -> MutatorStates]
        /\ mutatorBuffer \in [Mutators -> Seq(MutatorStates)]
    BY DEF TypeOK, MutatorStates
  <2>1. CASE /\ StoreBufferSize = 0
             /\ mutatorState' = [mutatorState EXCEPT ![t] = v]
             /\ UNCHANGED mutatorBuffer
    BY <2>0, <2>1, EmptySeq DEF BuffersFit, LastIs
  <2>2. CASE /\ Len(mutatorBuffer[t]) < StoreBufferSize
             /\ mutatorBuffer' = [mutatorBuffer EXCEPT ![t] = Append(@, v)]
             /\ UNCHANGED mutatorState
    <3>1. mutatorBuffer'[t] = Append(mutatorBuffer[t], v)
      BY <2>0, <2>2
    <3>2. \A u \in Mutators \ {t} : mutatorBuffer'[u] = mutatorBuffer[u]
      BY <2>0, <2>2
    <3>3. /\ LastIs(mutatorState'[t], mutatorBuffer'[t], v)
          /\ Len(mutatorBuffer'[t]) <= StoreBufferSize
          /\ \A i \in 1 .. Len(mutatorBuffer'[t]) :
                   \/ mutatorBuffer'[t][i] = v
                   \/ /\ i \in 1 .. Len(mutatorBuffer[t])
                      /\ mutatorBuffer'[t][i] = mutatorBuffer[t][i]
      BY <2>0, <2>2, <3>1, AppendIsLast, StoreBufferAssumption
    <3> QED
      BY <2>2, <3>2, <3>3
  <2> QED
    BY <1>2, <2>1, <2>2 DEF StoreMutatorState
<1> QED
  BY <1>1, <1>2

(* What the draining of a buffer's oldest store leaves behind. *)
LEMMA DrainKeepsLast ==
    ASSUME NEW S, NEW word, NEW v, NEW buffer \in Seq(S), buffer # <<>>,
           LastIs(word, buffer, v)
    PROVE  LastIs(Head(buffer), Tail(buffer), v)
<1>1. Tail(buffer) \in Seq(S) /\ Len(Tail(buffer)) = Len(buffer) - 1
  BY HeadTailProperties
<1>2. \A i \in 1 .. Len(Tail(buffer)) : Tail(buffer)[i] = buffer[i + 1]
  BY HeadTailProperties
<1>3. Head(buffer) = buffer[1] /\ Len(buffer) \in Nat \ {0}
  BY EmptySeq
<1>4. CASE Tail(buffer) = <<>>
  BY <1>1, <1>3, <1>4 DEF LastIs
<1>5. CASE Tail(buffer) # <<>>
  <2>1. Len(Tail(buffer)) # 0
    BY <1>1, <1>5, EmptySeq
  <2> QED
    BY <1>1, <1>2, <1>3, <1>5, <2>1 DEF LastIs
<1> QED
  BY <1>4, <1>5

(* Every step keeps the conjuncts of LockInv other than TypeOK. *)
LEMMA LockInvStep ==
    ASSUME LockInv, TypeOK', [Next]_vars
    PROVE  LockInv'
<1>0. /\ TypeOK /\ BuffersFit /\ AnnouncedInv /\ HandsRaised
      /\ ListMatchesPcs /\ SeenOut
  BY DEF LockInv
<1> SUFFICES BuffersFit' /\ AnnouncedInv' /\ HandsRaised' /\ ListMatchesPcs' /\ SeenOut'
  BY DEF LockInv
<1> USE <1>0 DEF TypeOK, GcPcs, MutatorPcs, gcVars, mutatorVars, lockVars
<1>1. CASE Announce
  <2>1. LastIs(gcState', gcBuffer', GC_ACTIVE_OR_WAIT) /\ Len(gcBuffer') <= StoreBufferSize
    BY <1>1, StoreIsLast DEF Announce, GcStates
  <2> QED
    BY <1>1, <2>1 DEF Announce, BuffersFit, AnnouncedInv, HandsRaised, ListMatchesPcs, SeenOut
<1>2. CASE LockList
  BY <1>2 DEF LockList, BuffersFit, AnnouncedInv, HandsRaised, ListMatchesPcs, SeenOut
<1>3. ASSUME NEW t \in Mutators, SeeOut(t)
      PROVE  BuffersFit' /\ AnnouncedInv' /\ HandsRaised' /\ ListMatchesPcs' /\ SeenOut'
  BY <1>3, SMTT(60) DEF SeeOut, BuffersFit, AnnouncedInv, HandsRaised, ListMatchesPcs, SeenOut
<1>4. CASE Enter
  BY <1>4 DEF Enter, BuffersFit, AnnouncedInv, HandsRaised, ListMatchesPcs, SeenOut
<1>5. CASE Exit
  <2>1. Len(gcBuffer') <= StoreBufferSize
    BY <1>5, StoreIsLast DEF Exit, GcStates
  <2> QED
    BY <1>5, <2>1 DEF Exit, BuffersFit, AnnouncedInv, HandsRaised, ListMatchesPcs, SeenOut
<1>6. CASE DrainGc
  <2>1. Len(gcBuffer') <= StoreBufferSize
    BY <1>6, HeadTailProperties, LenProperties, StoreBufferAssumption DEF DrainGc, BuffersFit
  <2>2. gcPc # "out" => LastIs(gcState', gcBuffer', GC_ACTIVE_OR_WAIT)
    BY <1>6, DrainKeepsLast DEF DrainGc, AnnouncedInv
  <2> QED
    BY <1>6, <2>1, <2>2 DEF DrainGc, BuffersFit, AnnouncedInv, HandsRaised, ListMatchesPcs, SeenOut
<1>7. ASSUME NEW t \in Mutators, NEW v \in MutatorStates, StoreMutatorState(t, v),
             NEW from \in MutatorPcs, NEW to \in MutatorPcs, Goto(t, from, to),
             UNCHANGED <<gcVars, lockVars>>,
             from # "detached", to \notin {"activate", "detached"},
             to = "test" => v = MUTATOR_PREPARING,
             to = "in" => from = "activate" /\ v = MUTATOR_ACTIVE
      PROVE  BuffersFit' /\ AnnouncedInv' /\ HandsRaised' /\ ListMatchesPcs' /\ SeenOut'
  <2>1. /\ LastIs(mutatorState'[t], mutatorBuffer'[t], v)
        /\ Len(mutatorBuffer'[t]) <= StoreBufferSize
        /\ mutatorState'[t] \in {mutatorState[t], v}
        /\ \A i \in 1 .. Len(mutatorBuffer'[t]) :
              \/ mutatorBuffer'[t][i] = v
              \/ /\ i \in 1 .. Len(mutatorBuffer[t])
                 /\ mutatorBuffer'[t][i] = mutatorBuffer[t][i]
        /\ \A u \in Mutators \ {t} :
              /\ mutatorState'[u] = mutatorState[u]
              /\ mutatorBuffer'[u] = mutatorBuffer[u]
    BY <1>7, StoreIsLast
  <2>2. /\ mutatorPc[t] = from /\ mutatorPc'[t] = to
        /\ \A u \in Mutators \ {t} : mutatorPc'[u] = mutatorPc[u]
    BY <1>7 DEF Goto
  <2>3. BuffersFit' /\ AnnouncedInv' /\ ListMatchesPcs' /\ SeenOut'
    BY <1>7, <2>1, <2>2 DEF BuffersFit, AnnouncedInv, ListMatchesPcs, SeenOut
  <2>4. HandsRaised'
    <3> SUFFICES ASSUME NEW u \in Mutators
                 PROVE  /\ mutatorPc'[u] = "test"
                             => LastIs(mutatorState'[u], mutatorBuffer'[u], MUTATOR_PREPARING)
                        /\ ~overtook' /\ mutatorPc'[u] \in {"activate", "in"}
                             => /\ mutatorState'[u] >= MUTATOR_PREPARING
                                /\ \A i \in 1 .. Len(mutatorBuffer'[u]) :
                                      mutatorBuffer'[u][i] = MUTATOR_ACTIVE
      BY DEF HandsRaised
    <3>1. CASE u # t
      BY <1>7, <2>1, <2>2, <3>1 DEF HandsRaised
    <3>2. CASE u = t
      BY <1>7, <2>1, <2>2, <3>2, SMTT(60) DEF HandsRaised
    <3> QED
      BY <3>1, <3>2
  <2> QED
    BY <2>3, <2>4
<1>8. ASSUME NEW t \in Mutators, TestGcState(t)
      PROVE  BuffersFit' /\ AnnouncedInv' /\ HandsRaised' /\ ListMatchesPcs' /\ SeenOut'
  <2>1. /\ mutatorPc[t] = "test" /\ mutatorPc'[t] \in {"retreat", "activate"}
        /\ \A u \in Mutators \ {t} : mutatorPc'[u] = mutatorPc[u]
        /\ mutatorPc'[t] = "activate" => gcState # GC_ACTIVE_OR_WAIT
        /\ UNCHANGED <<gcState, gcBuffer, gcPc, toCheck, mutatorState, mutatorBuffer,
                       mutatorThreadsList>>
    BY <1>8 DEF TestGcState, LookAtGcState, Goto
  <2>2. ~overtook' => ~overtook /\ mutatorBuffer[t] = <<>>
    BY <1>8 DEF TestGcState, LookAtGcState
  <2>3. ~overtook' => mutatorState[t] = MUTATOR_PREPARING
    BY <2>1, <2>2 DEF HandsRaised, LastIs
  <2>4. BuffersFit' /\ AnnouncedInv' /\ ListMatchesPcs'
    BY <2>1 DEF BuffersFit, AnnouncedInv, ListMatchesPcs
  <2>5. HandsRaised'
    <3>1. ~overtook' => Len(mutatorBuffer'[t]) = 0
      BY <2>1, <2>2, EmptySeq
    <3> QED
      BY <2>1, <2>2, <2>3, <3>1 DEF HandsRaised
  <2>6. SeenOut'
    BY <2>1, <2>2 DEF SeenOut, AnnouncedInv, LastIs
  <2> QED
    BY <2>4, <2>5, <2>6
<1>9. ASSUME NEW t \in Mutators, BlockStep(t)
      PROVE  BuffersFit' /\ AnnouncedInv' /\ HandsRaised' /\ ListMatchesPcs' /\ SeenOut'
  <2>1. CASE Retreat(t)
    BY <1>7, <2>1 DEF Retreat, MutatorStates
  <2>2. CASE EndWait(t)
    BY <2>2 DEF EndWait, Goto, BuffersFit, AnnouncedInv, HandsRaised, ListMatchesPcs, SeenOut
  <2>3. CASE Prepare(t)
    BY <1>7, <2>3 DEF Prepare, MutatorStates
  <2>4. CASE Activate(t)
    BY <1>7, <2>4 DEF Activate, MutatorStates
  <2> QED
    BY <1>8, <1>9, <2>1, <2>2, <2>3, <2>4 DEF BlockStep
<1>10. ASSUME NEW t \in Mutators, BlockGc(t) \/ UnblockGc(t)
       PROVE  BuffersFit' /\ AnnouncedInv' /\ HandsRaised' /\ ListMatchesPcs' /\ SeenOut'
  <2>1. CASE BlockGc(t)
    BY <1>7, <2>1 DEF BlockGc, MutatorStates
  <2>2. CASE UnblockGc(t)
    BY <1>7, <2>2 DEF UnblockGc, MutatorStates
  <2> QED
    BY <1>10, <2>1, <2>2
<1>11. ASSUME NEW t \in Mutators, NewThread(t)
       PROVE  BuffersFit' /\ AnnouncedInv' /\ HandsRaised' /\ ListMatchesPcs' /\ SeenOut'
  BY <1>11 DEF NewThread, ListLockFree, Goto, BuffersFit, AnnouncedInv, HandsRaised,
               ListMatchesPcs, SeenOut
<1>12. ASSUME NEW t \in Mutators, FreeThread(t)
       PROVE  BuffersFit' /\ AnnouncedInv' /\ HandsRaised' /\ ListMatchesPcs' /\ SeenOut'
  BY <1>12 DEF FreeThread, ListLockFree, Goto, BuffersFit, AnnouncedInv, HandsRaised,
               ListMatchesPcs, SeenOut
<1>13. ASSUME NEW t \in Mutators, DrainMutator(t)
       PROVE  BuffersFit' /\ AnnouncedInv' /\ HandsRaised' /\ ListMatchesPcs' /\ SeenOut'
  <2> DEFINE b == mutatorBuffer[t]
  <2>1. /\ b \in Seq(MutatorStates) /\ b # <<>> /\ b = mutatorBuffer[t]
        /\ mutatorState'[t] = Head(b) /\ mutatorBuffer'[t] = Tail(b)
        /\ \A u \in Mutators \ {t} : /\ mutatorState'[u] = mutatorState[u]
                                     /\ mutatorBuffer'[u] = mutatorBuffer[u]
        /\ UNCHANGED <<gcState, gcBuffer, gcPc, toCheck, mutatorPc, mutatorThreadsList, overtook>>
    BY <1>13 DEF DrainMutator, MutatorStates
  <2> HIDE DEF b
  <2>2. /\ Len(Tail(b)) = Len(b) - 1 /\ Len(b) \in Nat \ {0}
        /\ \A i \in 1 .. Len(Tail(b)) : Tail(b)[i] = b[i + 1]
        /\ Head(b) = b[1]
    BY <2>1, HeadTailProperties, EmptySeq
  <2>3. BuffersFit'
    <3>1. Len(b) <= StoreBufferSize
      BY <2>1 DEF BuffersFit
    <3>2. Len(mutatorBuffer'[t]) <= StoreBufferSize
      BY <2>1, <2>2, <3>1, StoreBufferAssumption
    <3> QED
      BY <2>1, <3>2 DEF BuffersFit
  <2>4. AnnouncedInv' /\ ListMatchesPcs' /\ SeenOut'
    BY <2>1 DEF AnnouncedInv, ListMatchesPcs, SeenOut
  <2>5. HandsRaised'
    <3>1. ASSUME mutatorPc[t] = "test"
          PROVE  LastIs(mutatorState'[t], mutatorBuffer'[t], MUTATOR_PREPARING)
      <4>1. LastIs(mutatorState[t], b, MUTATOR_PREPARING)
        BY <2>1, <3>1 DEF HandsRaised
      <4> QED
        BY <2>1, <4>1, DrainKeepsLast
    <3>2. ASSUME ~overtook, mutatorPc[t] \in {"activate", "in"}
          PROVE  /\ mutatorState'[t] >= MUTATOR_PREPARING
                 /\ \A i \in 1 .. Len(mutatorBuffer'[t]) : mutatorBuffer'[t][i] = MUTATOR_ACTIVE
      <4>1. \A i \in 1 .. Len(b) : b[i] = MUTATOR_ACTIVE
        BY <2>1, <3>2 DEF HandsRaised
      <4>2. 1 \in 1 .. Len(b) /\ \A i \in 1 .. Len(Tail(b)) : i + 1 \in 1 .. Len(b)
        BY <2>2
      <4> QED
        BY <2>1, <2>2, <4>1, <4>2
    <3>3. ASSUME NEW u \in Mutators
          PROVE  /\ mutatorPc[u] = "test"
                       => LastIs(mutatorState'[u], mutatorBuffer'[u], MUTATOR_PREPARING)
                 /\ ~overtook /\ mutatorPc[u] \in {"activate", "in"}
                       => /\ mutatorState'[u] >= MUTATOR_PREPARING
                          /\ \A i \in 1 .. Len(mutatorBuffer'[u]) :
                                mutatorBuffer'[u][i] = MUTATOR_ACTIVE
      <4>1. CASE u = t
        BY <3>1, <3>2, <4>1
      <4>2. CASE u # t
        BY <2>1, <4>2 DEF HandsRaised
      <4> QED
        BY <4>1, <4>2
    <3>4. mutatorPc' = mutatorPc /\ overtook' = overtook
      BY <2>1
    <3> QED
      BY <3>3, <3>4 DEF HandsRaised
  <2> QED
    BY <2>3, <2>4, <2>5
<1>14. CASE UNCHANGED vars
  BY <1>14 DEF vars, BuffersFit, AnnouncedInv, HandsRaised, ListMatchesPcs, SeenOut
<1> QED
  BY <1>1, <1>2, <1>3, <1>4, <1>5, <1>6, <1>9, <1>10, <1>11, <1>12, <1>13, <1>14
     DEF Next, GcStep, MutatorStep

LEMMA LockInvariant == Spec => []LockInv
<1>1. LockInv /\ TypeOK' /\ [Next]_vars => LockInv'
  BY LockInvStep
<1> QED
  BY LockInvInit, <1>1, TypeCorrect, PTL DEF Spec

(* ExclusionUnlessOvertaken: as long as no mutator looks at gcState before *)
(* the hand it raised is in memory, none is inside gc_lock_block_gc ..     *)
(* gc_lock_unblock_gc while the GC thread is inside its exclusive section, *)
(* however many mutators come, go and attach and however long the other    *)
(* stores are held back.                                                   *)
THEOREM LockExcludes == Spec => []ExclusionUnlessOvertaken
<1>1. LockInv => ExclusionUnlessOvertaken
  BY DEF LockInv, SeenOut, Exclusion, ExclusionUnlessOvertaken
<1> QED
  BY LockInvariant, <1>1, PTL

-----------------------------------------------------------------------------
(* Every step from a state in which no hand was overtaken is one of the    *)
(* lock that gc_lock.h describes, or changes nothing it speaks of.         *)
LEMMA LockStep ==
    ASSUME LockInv, ~overtook', [Next]_vars
    PROVE  [Abstract!LockNext]_(Abstract!lockVars)
<1> USE DEF Holders, GcPhase, Announced
<1>0. /\ TypeOK /\ AnnouncedInv /\ SeenOut /\ BuffersFit
      /\ gcPc \in GcPcs /\ mutatorPc \in [Mutators -> MutatorPcs]
  BY DEF LockInv, TypeOK
<1>1. ~overtook
  BY DEF Next, GcStep, MutatorStep, BlockStep, Announce, LockList, SeeOut, Enter, Exit,
         DrainGc, BlockGc, TestGcState, LookAtGcState, Retreat, EndWait, Prepare, Activate,
         UnblockGc, NewThread, FreeThread, DrainMutator, vars, lockVars
<1> SUFFICES Abstract!LockNext \/ UNCHANGED <<Holders, GcPhase>>
  BY DEF Abstract!lockVars
<1> USE <1>0, <1>1 DEF GcPcs, MutatorPcs, gcVars, mutatorVars, lockVars
<1>2. CASE Announce
  <2>1. CASE gcBuffer' = <<>>
    <3>1. Abstract!Request
      BY <1>2, <2>1 DEF Announce, Abstract!Request
    <3> QED
      BY <3>1 DEF Abstract!LockNext
  <2>2. CASE gcBuffer' # <<>>
    BY <1>2, <2>2 DEF Announce
  <2> QED
    BY <2>1, <2>2
<1>3. CASE LockList
  BY <1>3 DEF LockList
<1>4. ASSUME NEW t \in Mutators, SeeOut(t) PROVE UNCHANGED <<Holders, GcPhase>>
  BY <1>4 DEF SeeOut
<1>5. CASE Enter
  <2>1. Abstract!Grant
    BY <1>5 DEF Enter, SeenOut, Abstract!Grant
  <2> QED
    BY <2>1 DEF Abstract!LockNext
<1>6. CASE Exit
  <2>1. Abstract!Release
    BY <1>6 DEF Exit, Abstract!Release
  <2> QED
    BY <2>1 DEF Abstract!LockNext
<1>7. CASE DrainGc
  <2>1. gcPc \in {"out", "lockList"}
    BY <1>7 DEF DrainGc, AnnouncedInv
  <2>2. CASE gcPc = "lockList" /\ gcBuffer' = <<>>
    <3>1. Abstract!Request
      BY <1>7, <2>2 DEF DrainGc, Abstract!Request
    <3> QED
      BY <3>1 DEF Abstract!LockNext
  <2>3. CASE gcPc = "out" \/ gcBuffer' # <<>>
    BY <1>7, <2>1, <2>3 DEF DrainGc
  <2> QED
    BY <2>1, <2>2, <2>3
<1>8. ASSUME NEW t \in Mutators, BlockGc(t) PROVE UNCHANGED <<Holders, GcPhase>>
  BY <1>8 DEF BlockGc, Goto
<1>9. ASSUME NEW t \in Mutators, BlockStep(t)
      PROVE  Abstract!Block(t) \/ UNCHANGED <<Holders, GcPhase>>
  <2>1. CASE TestGcState(t)
    <3>1. CASE Goto(t, "test", "retreat")
      BY <2>1, <3>1 DEF TestGcState, LookAtGcState, Goto
    <3>2. CASE gcState # GC_ACTIVE_OR_WAIT /\ Goto(t, "test", "activate")
      <4>1. \/ gcPc = "out"
            \/ gcPc = "lockList" /\ gcBuffer # <<>>
        BY <3>2 DEF AnnouncedInv, LastIs
      <4> QED
        BY <2>1, <3>2, <4>1 DEF TestGcState, LookAtGcState, Goto, Abstract!Block
    <3> QED
      BY <2>1, <3>1, <3>2 DEF TestGcState
  <2>2. CASE Retreat(t)
    BY <2>2 DEF Retreat, Goto
  <2>3. CASE EndWait(t)
    BY <2>3 DEF EndWait, Goto
  <2>4. CASE Prepare(t)
    BY <2>4 DEF Prepare, Goto
  <2>5. CASE Activate(t)
    BY <2>5 DEF Activate, Goto
  <2> QED
    BY <1>9, <2>1, <2>2, <2>3, <2>4, <2>5 DEF BlockStep
<1>10. ASSUME NEW t \in Mutators, UnblockGc(t) PROVE Abstract!Unblock(t)
  BY <1>10 DEF UnblockGc, Goto, Abstract!Unblock
<1>11. ASSUME NEW t \in Mutators, NewThread(t) PROVE UNCHANGED <<Holders, GcPhase>>
  BY <1>11 DEF NewThread, Goto
<1>12. ASSUME NEW t \in Mutators, FreeThread(t) PROVE UNCHANGED <<Holders, GcPhase>>
  BY <1>12 DEF FreeThread, Goto
<1>13. ASSUME NEW t \in Mutators, DrainMutator(t) PROVE UNCHANGED <<Holders, GcPhase>>
  BY <1>13 DEF DrainMutator
<1>14. CASE UNCHANGED vars
  BY <1>14 DEF vars
<1> QED
  BY <1>2, <1>3, <1>4, <1>5, <1>6, <1>7, <1>8, <1>9, <1>10, <1>11, <1>12, <1>13, <1>14
     DEF Next, GcStep, MutatorStep, Abstract!LockNext

LEMMA LockStarts == Init => Abstract!LockInit
  BY DEF Init, Abstract!LockInit, Holders, GcPhase, Announced

(* ImplementsUnlessOvertaken: as long as no look at gcState overtakes a    *)
(* raised hand, gc_lock.c implements the write-preferring lock that        *)
(* gc_lock.h describes, for any store buffers.                             *)
THEOREM LockImplements == Spec => ImplementsUnlessOvertaken
<1>1. LockInv /\ [Next]_vars => [overtook' \/ [Abstract!LockNext]_(Abstract!lockVars)]_vars
  BY LockStep
<1> QED
  BY <1>1, LockStarts, LockInvariant, PTL DEF Spec, ImplementsUnlessOvertaken
=============================================================================
