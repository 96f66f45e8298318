---------------------------- MODULE AllocTracker ----------------------------
(***************************************************************************)
(* memory/alloc_tracker.c and alloc_context.c: the lists that hold every   *)
(* allocated block, and the accounting that keeps the heap within its      *)
(* limit.  Each thread has a context with a list of its own; the GC        *)
(* thread's snapshot joins all lists into one, its filter frees blocks or  *)
(* pushes them to the global list, and so does the end of a context with   *)
(* the blocks it still has, without any lock between the two.              *)
(*                                                                         *)
(* The callers' side: a context allocates with the GC blocked and the      *)
(* snapshot is taken in a GC exclusive section, so the two exclude each    *)
(* other (GcLock); a context ends at any time.                             *)
(***************************************************************************)
EXTENDS Naturals, Sequences, FiniteSets, FiniteSetsExt, SequencesExt

CONSTANTS
    Context,            \* struct alloc_context
    Block,              \* struct alloc_unit
    NULL,
    AllocSize,          \* the sizes asked for
    HeaderSize,         \* sizeof(struct alloc_unit)
    PreReserveSize,     \* CONTEXT_COUNTER_PRERESERVE_SIZE
    PreReserveSkip,     \* CONTEXT_COUNTER_PRERESERVE_SKIP
    MaxSize             \* maxSize of the tracker

ASSUME TrackerNames == NULL \notin Block /\ NULL \notin Context
ASSUME TrackerSizes ==
    /\ AllocSize \subseteq Nat
    /\ HeaderSize \in Nat \ {0} /\ PreReserveSize \in Nat
    /\ PreReserveSkip \in Nat /\ MaxSize \in Nat
    /\ \A s \in AllocSize : s < PreReserveSkip => s + HeaderSize <= PreReserveSize
ASSUME TrackerFinite == IsFiniteSet(Context) /\ IsFiniteSet(Block)

VARIABLES
    currentUsage,
    head,               \* the global list
    next,               \* block->next
    totalSize,          \* of each block, with its header; 0 if not allocated
    contexts,           \* the list of contexts, newest first
    ctx,                \* struct alloc_context, and where its thread is
    listOfContextLock,  \* the context being freed under it, or NULL
    gcPc,               \* the GC thread: "idle", "filter" or in a push
    unfiltered,         \* the filter loop's next
    freedSize,          \* ... and its sum
    gcBlock, gcOldHead, \* the block the filter is pushing
    lostUsage           \* history: reservations of contexts that have ended

gcVars == <<gcPc, unfiltered, freedSize, gcBlock, gcOldHead>>
listVars == <<head, next>>
lockVars == <<listOfContextLock, lostUsage>>
vars == <<currentUsage, listVars, totalSize, contexts, ctx, lockVars, gcVars>>

Ref == Block \union {NULL}

NewContext == [pc |-> "idle", preReservedUsage |-> 0,
               allocListHead |-> NULL, allocListTail |-> NULL,
               block |-> NULL, oldSize |-> 0, oldHead |-> NULL]

NoContext == [NewContext EXCEPT !.pc = "none"]

Allocating == {"account", "cas", "add", "fail"}

-----------------------------------------------------------------------------
(* alloc_tracker_alloc: the memory, with next = NULL, ... *)
Malloc(c, block, size) ==
    /\ ctx[c].pc = "idle"
    /\ totalSize[block] = 0
    /\ totalSize' = [totalSize EXCEPT ![block] = size + HeaderSize]
    /\ next' = [next EXCEPT ![block] = NULL]
    /\ ctx' = [ctx EXCEPT ![c].pc = "account", ![c].block = block]
    /\ UNCHANGED <<currentUsage, head, contexts, lockVars, gcVars>>

(* ... the accounting: a small block out of what the context has reserved, *)
(* if that is enough, and else ...                                         *)
Small(block) == totalSize[block] - HeaderSize < PreReserveSkip

(* Mutant of Fits: takes any reservation to be enough. *)
MutFits(c) == Small(ctx[c].block)

Fits(c) == Small(ctx[c].block) /\ totalSize[ctx[c].block] <= ctx[c].preReservedUsage

FastDoSmallAccounting(c) ==
    /\ ctx[c].pc = "account" /\ Fits(c)
    /\ ctx' = [ctx EXCEPT ![c].pc = "add",
                          ![c].preReservedUsage = @ - totalSize[ctx[c].block]]
    /\ UNCHANGED <<currentUsage, listVars, totalSize, contexts, lockVars, gcVars>>

(* ... slowDoLargeAccounting: read currentUsage, ... *)
LoadUsage(c) ==
    /\ ctx[c].pc = "account" /\ ~Fits(c)
    /\ ctx' = [ctx EXCEPT ![c].pc = "cas", ![c].oldSize = currentUsage]
    /\ UNCHANGED <<currentUsage, listVars, totalSize, contexts, lockVars, gcVars>>

(* ... fail if there is no room, or add to it if it has not changed since, *)
(* or try again with what it is now.  For a small block the size of a new  *)
(* reservation is added, and the block taken out of that.                  *)
AccountSize(block) == IF Small(block) THEN PreReserveSize ELSE totalSize[block]

(* Mutants of CasUsage: adds to currentUsage whatever it is by now, or      *)
(* does not take the block out of its reservation.                         *)
MutCasUsageAdds(c) ==
    LET block == ctx[c].block IN
    /\ ctx[c].pc = "cas"
    /\ \/ /\ ctx[c].oldSize + AccountSize(block) > MaxSize
          /\ ctx' = [ctx EXCEPT ![c].pc = "fail"]
          /\ UNCHANGED currentUsage
       \/ /\ ctx[c].oldSize + AccountSize(block) <= MaxSize
          /\ currentUsage' = currentUsage + AccountSize(block)
          /\ ctx' = [ctx EXCEPT ![c].pc = "add", ![c].preReservedUsage =
                        @ + AccountSize(block) - totalSize[block]]
    /\ UNCHANGED <<listVars, totalSize, contexts, lockVars, gcVars>>

MutCasUsageKeeps(c) ==
    LET block == ctx[c].block IN
    /\ ctx[c].pc = "cas"
    /\ ctx[c].oldSize + AccountSize(block) <= MaxSize
    /\ currentUsage = ctx[c].oldSize
    /\ currentUsage' = currentUsage + AccountSize(block)
    /\ ctx' = [ctx EXCEPT ![c].pc = "add",
                          ![c].preReservedUsage = @ + AccountSize(block)]
    /\ UNCHANGED <<listVars, totalSize, contexts, lockVars, gcVars>>

CasUsage(c) ==
    LET block == ctx[c].block IN
    /\ ctx[c].pc = "cas"
    /\ \/ /\ ctx[c].oldSize + AccountSize(block) > MaxSize
          /\ ctx' = [ctx EXCEPT ![c].pc = "fail"]
          /\ UNCHANGED currentUsage
       \/ /\ ctx[c].oldSize + AccountSize(block) <= MaxSize
          /\ currentUsage = ctx[c].oldSize
          /\ currentUsage' = currentUsage + AccountSize(block)
          /\ ctx' = [ctx EXCEPT ![c].pc = "add", ![c].preReservedUsage =
                        @ + AccountSize(block) - totalSize[block]]
       \/ /\ ctx[c].oldSize + AccountSize(block) <= MaxSize
          /\ currentUsage # ctx[c].oldSize
          /\ ctx' = [ctx EXCEPT ![c].oldSize = currentUsage]
          /\ UNCHANGED currentUsage
    /\ UNCHANGED <<listVars, totalSize, contexts, lockVars, gcVars>>

(* ... and alloc_context_add_block, ... *)
AddBlock(c) ==
    LET block == ctx[c].block
        tail == ctx[c].allocListTail IN
    /\ ctx[c].pc = "add"
    /\ next' = IF tail = NULL THEN next ELSE [next EXCEPT ![tail] = block]
    /\ ctx' = [ctx EXCEPT ![c].pc = "idle", ![c].block = NULL, ![c].oldSize = 0,
                          ![c].allocListHead = IF @ = NULL THEN block ELSE @,
                          ![c].allocListTail = block]
    /\ UNCHANGED <<currentUsage, head, totalSize, contexts, lockVars, gcVars>>

(* ... or the block goes back. *)
FailAlloc(c) ==
    /\ ctx[c].pc = "fail"
    /\ totalSize' = [totalSize EXCEPT ![ctx[c].block] = 0]
    /\ ctx' = [ctx EXCEPT ![c].pc = "idle", ![c].block = NULL, ![c].oldSize = 0]
    /\ UNCHANGED <<currentUsage, listVars, contexts, lockVars, gcVars>>

-----------------------------------------------------------------------------
(* alloc_tracker_new_context *)
AddContext(c) ==
    /\ ctx[c].pc = "none" /\ listOfContextLock = NULL
    /\ ctx' = [ctx EXCEPT ![c] = NewContext]
    /\ contexts' = <<c>> \o contexts
    /\ UNCHANGED <<currentUsage, listVars, totalSize, lockVars, gcVars>>

(* alloc_tracker_free_context: take the context off the list, ... *)
RemoveContext(c) ==
    /\ ctx[c].pc = "idle" /\ listOfContextLock = NULL
    /\ listOfContextLock' = c
    /\ \E i \in DOMAIN contexts :
          contexts[i] = c /\ contexts' = RemoveAt(contexts, i)
    /\ ctx' = [ctx EXCEPT ![c].pc = "free"]
    /\ UNCHANGED <<currentUsage, listVars, totalSize, gcVars, lostUsage>>

(* ... push its blocks to the global list one by one                       *)
(* (alloc_tracker_add_block_to_global_list: read head, ...                 *)
LoadHead(c) ==
    /\ ctx[c].pc = "free" /\ ctx[c].allocListHead # NULL
    /\ ctx' = [ctx EXCEPT ![c].pc = "push", ![c].oldHead = head,
                          ![c].block = ctx[c].allocListHead,
                          ![c].allocListHead = next[ctx[c].allocListHead]]
    /\ UNCHANGED <<currentUsage, listVars, totalSize, contexts, lockVars, gcVars>>

(* Mutant of CasHead: a store, without a look at head. *)
MutCasHead(block, oldHead) ==
    /\ next' = [next EXCEPT ![block] = oldHead]
    /\ head' = block

(* ... link the block before it, and make it the head if head has not      *)
(* changed since), ...                                                     *)
CasHead(block, oldHead) ==
    /\ next' = [next EXCEPT ![block] = oldHead]
    /\ head' = IF head = oldHead THEN block ELSE head

PushBlock(c) ==
    /\ ctx[c].pc = "push"
    /\ CasHead(ctx[c].block, ctx[c].oldHead)
    /\ IF head = ctx[c].oldHead
       THEN ctx' = [ctx EXCEPT ![c].pc = "free", ![c].block = NULL, ![c].oldHead = NULL]
       ELSE ctx' = [ctx EXCEPT ![c].oldHead = head]
    /\ UNCHANGED <<currentUsage, totalSize, contexts, lockVars, gcVars>>

(* ... and free it, with what it has reserved. *)
FreeContext(c) ==
    /\ ctx[c].pc = "free" /\ ctx[c].allocListHead = NULL
    /\ ctx' = [ctx EXCEPT ![c] = NoContext]
    /\ listOfContextLock' = NULL
    /\ lostUsage' = lostUsage + ctx[c].preReservedUsage
    /\ UNCHANGED <<currentUsage, listVars, totalSize, contexts, gcVars>>

-----------------------------------------------------------------------------
(* alloc_tracker_take_snapshot: the lists of the contexts that have one,   *)
(* in the order of the contexts, and then the global list, each appended   *)
(* at the tail of the one before.                                          *)
LaterFilled(i) ==
    {j \in DOMAIN contexts : j > i /\ ctx[contexts[j]].allocListHead # NULL}

(* Mutant of HeadAfter: forgets the global list. *)
MutHeadAfter(i) ==
    IF LaterFilled(i) = {} THEN NULL
    ELSE ctx[contexts[Min(LaterFilled(i))]].allocListHead

HeadAfter(i) ==
    IF LaterFilled(i) = {} THEN head
    ELSE ctx[contexts[Min(LaterFilled(i))]].allocListHead

EndingIn(block) == {i \in DOMAIN contexts : ctx[contexts[i]].allocListTail = block}

TakeSnapshot ==
    /\ gcPc = "idle" /\ listOfContextLock = NULL
    /\ \A c \in Context : ctx[c].pc \notin Allocating
    /\ unfiltered' = HeadAfter(0)
    /\ next' = [block \in Block |->
                   IF EndingIn(block) = {} THEN next[block]
                   ELSE HeadAfter(CHOOSE i \in EndingIn(block) : TRUE)]
    /\ ctx' = [c \in Context |-> [ctx[c] EXCEPT !.allocListHead = NULL,
                                                !.allocListTail = NULL]]
    /\ head' = NULL
    /\ gcPc' = "filter"
    /\ UNCHANGED <<currentUsage, totalSize, contexts, lockVars, freedSize,
                   gcBlock, gcOldHead>>

(* alloc_tracker_filter_snapshot_and_delete_snapshot: a block goes back to *)
(* the global list, ...                                                    *)
KeepBlock ==
    /\ gcPc = "filter" /\ unfiltered # NULL
    /\ gcBlock' = unfiltered /\ unfiltered' = next[unfiltered]
    /\ gcOldHead' = head
    /\ gcPc' = "push"
    /\ UNCHANGED <<currentUsage, listVars, totalSize, contexts, ctx, lockVars,
                   freedSize>>

(* Mutant of PushKept: tries again with the head it has. *)
MutPushKept ==
    /\ gcPc = "push"
    /\ CasHead(gcBlock, gcOldHead)
    /\ IF head = gcOldHead
       THEN gcPc' = "filter" /\ gcBlock' = NULL /\ gcOldHead' = NULL
       ELSE UNCHANGED <<gcOldHead, gcPc, gcBlock>>
    /\ UNCHANGED <<currentUsage, totalSize, contexts, ctx, lockVars, unfiltered,
                   freedSize>>

PushKept ==
    /\ gcPc = "push"
    /\ CasHead(gcBlock, gcOldHead)
    /\ IF head = gcOldHead
       THEN gcPc' = "filter" /\ gcBlock' = NULL /\ gcOldHead' = NULL
       ELSE gcOldHead' = head /\ UNCHANGED <<gcPc, gcBlock>>
    /\ UNCHANGED <<currentUsage, totalSize, contexts, ctx, lockVars, unfiltered,
                   freedSize>>

(* ... or is freed, ... *)
FreeBlock ==
    /\ gcPc = "filter" /\ unfiltered # NULL
    /\ unfiltered' = next[unfiltered]
    /\ freedSize' = freedSize + totalSize[unfiltered]
    /\ totalSize' = [totalSize EXCEPT ![unfiltered] = 0]
    /\ UNCHANGED <<currentUsage, listVars, contexts, ctx, lockVars, gcPc,
                   gcBlock, gcOldHead>>

(* ... and at the end currentUsage is reduced by what was freed. *)
EndFilter ==
    /\ gcPc = "filter" /\ unfiltered = NULL
    /\ currentUsage' = currentUsage - freedSize
    /\ freedSize' = 0
    /\ gcPc' = "idle"
    /\ UNCHANGED <<listVars, totalSize, contexts, ctx, lockVars, unfiltered,
                   gcBlock, gcOldHead>>

-----------------------------------------------------------------------------
Init ==
    /\ currentUsage = 0
    /\ head = NULL /\ next = [block \in Block |-> NULL]
    /\ totalSize = [block \in Block |-> 0]
    /\ contexts = <<>> /\ ctx = [c \in Context |-> NoContext]
    /\ listOfContextLock = NULL
    /\ gcPc = "idle" /\ unfiltered = NULL /\ freedSize = 0
    /\ gcBlock = NULL /\ gcOldHead = NULL
    /\ lostUsage = 0

AllocStep(c) ==
    FastDoSmallAccounting(c) \/ LoadUsage(c) \/ CasUsage(c) \/ AddBlock(c) \/ FailAlloc(c)

FreeStep(c) == LoadHead(c) \/ PushBlock(c) \/ FreeContext(c)

ContextStep(c) ==
    \/ \E block \in Block : \E size \in AllocSize : Malloc(c, block, size)
    \/ AllocStep(c) \/ AddContext(c) \/ RemoveContext(c) \/ FreeStep(c)

FilterStep == KeepBlock \/ PushKept \/ FreeBlock \/ EndFilter

Next == (\E c \in Context : ContextStep(c)) \/ TakeSnapshot \/ FilterStep

Spec == Init /\ [][Next]_vars

(* Threads inside an operation keep running. *)
FairSpec ==
    /\ Spec
    /\ WF_vars(FilterStep)
    /\ \A c \in Context : WF_vars(AllocStep(c)) /\ WF_vars(FreeStep(c))

-----------------------------------------------------------------------------
StructContext ==
    [pc : Allocating \union {"none", "idle", "free", "push"}, preReservedUsage : Nat,
     allocListHead : Ref, allocListTail : Ref, block : Ref, oldSize : Nat, oldHead : Ref]

TypeOK ==
    /\ currentUsage \in Nat
    /\ head \in Ref /\ next \in [Block -> Ref]
    /\ totalSize \in [Block -> Nat]
    /\ contexts \in Seq(Context)
    /\ ctx \in [Context -> StructContext]
    /\ listOfContextLock \in Context \union {NULL}
    /\ gcPc \in {"idle", "filter", "push"}
    /\ unfiltered \in Ref /\ freedSize \in Nat
    /\ gcBlock \in Ref /\ gcOldHead \in Ref
    /\ lostUsage \in Nat

(* The blocks of the list that starts at start: those in every set that    *)
(* holds start and what follows each of its blocks.                        *)
Closed(S) == \A block \in S : next[block] \in S \union {NULL}

ListFrom(start) ==
    {block \in Block :
        \A S \in SUBSET Block : start \in S \union {NULL} /\ Closed(S) => block \in S}

(* The lists, and the blocks that are being put into one *)
Starts == {<<"global", head>>, <<"snapshot", unfiltered>>}
              \union {<<c, ctx[c].allocListHead>> : c \in Context}
InHand == {<<"gc", gcBlock>>} \union {<<c, ctx[c].block>> : c \in Context}

(* No block is lost or listed twice: every allocated block is in the hands *)
(* of one thread or on one list, freed blocks are on none, and every list  *)
(* ends - for a context's list, at its tail, as take_snapshot relies on.   *)
(* This is with the filter and a context that ends pushing to the global   *)
(* list at the same time.                                                  *)
EveryBlockOnce ==
    /\ \A block \in Block :
          Cardinality({l \in Starts : block \in ListFrom(l[2])})
            + Cardinality({h \in InHand : h[2] = block})
              = IF totalSize[block] = 0 THEN 0 ELSE 1
    /\ \A l \in Starts :
          l[2] # NULL => \E block \in ListFrom(l[2]) : next[block] = NULL
    /\ \A c \in Context :
          ctx[c].pc \in Allocating \union {"idle"} =>
            IF ctx[c].allocListHead = NULL THEN ctx[c].allocListTail = NULL
            ELSE /\ ctx[c].allocListTail \in ListFrom(ctx[c].allocListHead)
                 /\ next[ctx[c].allocListTail] = NULL

(* Blocks whose size is part of currentUsage *)
Unaccounted == {ctx[c].block : c \in {c \in Context : ctx[c].pc \in {"account", "cas", "fail"}}}
Accounted == {block \in Block : totalSize[block] > 0} \ Unaccounted
UsedBytes == SumFunctionOnSet(totalSize, Accounted)
Reserved == SumFunctionOnSet([c \in Context |-> ctx[c].preReservedUsage], Context)

(* The counter is exact, whatever blocks come out of a reservation and     *)
(* however the filter lags behind with freedSize: it is what the blocks    *)
(* use, what the contexts have reserved, what the filter has yet to take   *)
(* off, and what contexts took with them when they ended.  And none has    *)
(* reserved more than PreReserveSize, so that is the most a thread that    *)
(* comes and goes costs the heap.                                          *)
UsageExact ==
    /\ currentUsage = UsedBytes + Reserved + freedSize + lostUsage
    /\ \A c \in Context : ctx[c].preReservedUsage <= PreReserveSize

(* The heap never outgrows maxSize. *)
WithinMaxSize == currentUsage <= MaxSize

(* The filter ends, and so does the end of a context, although each can    *)
(* make the other's exchange of head fail.                                 *)
PushersEnd ==
    /\ gcPc = "filter" ~> gcPc = "idle"
    /\ \A c \in Context : ctx[c].pc = "free" ~> ctx[c].pc = "none"

(* To the collector all this is a set of blocks of which a snapshot takes  *)
(* all there are.                                                          *)
Blocks == {block \in Block : totalSize[block] > 0}
              \ {ctx[c].block : c \in {c \in Context : ctx[c].pc \in Allocating}}

Store == INSTANCE ObjectStore WITH blocks <- Blocks, snapshot <- ListFrom(unfiltered)

ImplementsObjectStore == Store!StoreSpec

(* alloc_tracker.h:21-22: currentUsage reports at most the reservation of  *)
(* each thread "more used than actual usage".                              *)
UsageSlack ==
    currentUsage <= UsedBytes + freedSize + PreReserveSize * Len(contexts)
=============================================================================
