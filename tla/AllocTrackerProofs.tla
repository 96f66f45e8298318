------------------------- MODULE AllocTrackerProofs -------------------------
(***************************************************************************)
(* The allocation tracker's safety properties, for any contexts, blocks    *)
(* and sizes.                                                              *)
(***************************************************************************)
EXTENDS AllocTracker, SumLemmas

-----------------------------------------------------------------------------
(* The list from start when the blocks' next fields are nx: ListFrom with  *)
(* its variable as a parameter, for lemmas about two states of them.       *)
Chain(nx, start) ==
    {block \in Block :
        \A S \in SUBSET Block :
            start \in S \union {NULL} /\ (\A b \in S : nx[b] \in S \union {NULL})
                => block \in S}

LEMMA ListIsChain == \A start : ListFrom(start) = Chain(next, start)
  BY DEF ListFrom, Closed, Chain

LEMMA ChainIsSet == \A nx, start : Chain(nx, start) \in SUBSET Block
  BY DEF Chain

(* It is closed under next, has its start, and is the least such set.      *)
LEMMA ChainLeast ==
    ASSUME NEW nx, NEW start, NEW S \in SUBSET Block, start \in S \union {NULL},
           \A b \in S : nx[b] \in S \union {NULL}
    PROVE  Chain(nx, start) \subseteq S
  BY DEF Chain

LEMMA ChainNull == \A nx : Chain(nx, NULL) = {}
<1> TAKE nx
<1>1. Chain(nx, NULL) \subseteq {}
  <2> DEFINE E == {}
  <2>1. E \in SUBSET Block /\ \A b \in E : nx[b] \in E \union {NULL}
    OBVIOUS
  <2> QED
    BY <2>1, ChainLeast, ZenonT(120)
<1> QED
  BY <1>1

LEMMA ChainStart == \A nx : \A start \in Block : start \in Chain(nx, start)
  BY TrackerNames DEF Chain

LEMMA ChainClosed ==
    ASSUME NEW nx \in [Block -> Ref], NEW start, NEW b \in Chain(nx, start)
    PROVE  nx[b] \in Chain(nx, start) \union {NULL}
<1> SUFFICES ASSUME nx[b] # NULL PROVE nx[b] \in Chain(nx, start)
  OBVIOUS
<1>1. b \in Block /\ nx[b] \in Block
  BY DEF Chain, Ref
<1>2. ASSUME NEW S \in SUBSET Block, start \in S \union {NULL},
             \A d \in S : nx[d] \in S \union {NULL}
      PROVE  nx[b] \in S
  <2>1. b \in S
    BY <1>2 DEF Chain
  <2> QED
    BY <1>2, <2>1
<1> QED
  BY <1>1, <1>2 DEF Chain

LEMMA ChainInside ==
    ASSUME NEW nx \in [Block -> Ref], NEW start, NEW b \in Chain(nx, start) \union {NULL}
    PROVE  Chain(nx, b) \subseteq Chain(nx, start)
<1>1. \A d \in Chain(nx, start) : nx[d] \in Chain(nx, start) \union {NULL}
  BY ChainClosed
<1> QED
  BY <1>1, ChainLeast, ChainIsSet

LEMMA ChainSame ==
    ASSUME NEW nx \in [Block -> Ref], NEW start \in Ref, NEW mx \in [Block -> Ref],
           \A b \in Chain(nx, start) : mx[b] = nx[b]
    PROVE  Chain(mx, start) = Chain(nx, start)
<1> DEFINE C == Chain(nx, start)
           D == Chain(mx, start)
<1>1. C \in SUBSET Block /\ D \in SUBSET Block
  BY ChainIsSet
<1>2. start \in (C \intersect D) \union {NULL}
  BY ChainStart DEF Ref
<1>3. \A b \in C : mx[b] \in C \union {NULL}
  BY ChainClosed
<1>4. D \subseteq C
  <2> HIDE DEF C
  <2> QED
    BY <1>1, <1>2, <1>3, ChainLeast
<1>5. \A b \in C \intersect D : nx[b] \in (C \intersect D) \union {NULL}
  <2>1. \A b \in C : nx[b] \in C \union {NULL}
    BY ChainClosed
  <2>2. \A b \in D : mx[b] \in D \union {NULL}
    BY ChainClosed
  <2>3. \A b \in C : mx[b] = nx[b]
    OBVIOUS
  <2> HIDE DEF C, D
  <2> QED
    BY <2>1, <2>2, <2>3
<1>6. C \subseteq C \intersect D
  <2> DEFINE E == C \intersect D
  <2>1. E \in SUBSET Block /\ start \in E \union {NULL} /\ \A b \in E : nx[b] \in E \union {NULL}
    <3> HIDE DEF C, D
    <3> QED
      BY <1>1, <1>2, <1>5
  <2> HIDE DEF E
  <2>2. Chain(nx, start) \subseteq E
    BY <2>1, ChainLeast
  <2> QED
    BY <2>2 DEF E
<1> QED
  BY <1>4, <1>6

(* What a block put before a list, put at its end or taken from its start  *)
(* leaves.                                                                 *)
LEMMA ChainPush ==
    ASSUME NEW nx \in [Block -> Ref], NEW start \in Ref, NEW block \in Block,
           block \notin Chain(nx, start), NEW mx \in [Block -> Ref], mx[block] = start,
           \A b \in Block \ {block} : mx[b] = nx[b]
    PROVE  Chain(mx, block) = Chain(nx, start) \union {block}
<1> DEFINE C == Chain(nx, start)
           D == Chain(mx, block)
<1>0. \A b \in C : mx[b] = nx[b]
  BY ChainIsSet
<1>1. Chain(mx, start) = C
  BY <1>0, ChainSame
<1>2. C \in SUBSET Block /\ block \in D /\ (start \in C \union {NULL})
  BY ChainIsSet, ChainStart DEF Ref
<1>3. D \subseteq C \union {block}
  <2> DEFINE E == C \union {block}
  <2>1. \A b \in C : nx[b] \in C \union {NULL}
    BY ChainClosed
  <2>2. E \in SUBSET Block /\ block \in E /\ \A b \in E : mx[b] \in E \union {NULL}
    <3> HIDE DEF C
    <3> QED
      BY <1>0, <1>2, <2>1
  <2> HIDE DEF E
  <2>3. D \subseteq E
    BY <2>2, ChainLeast
  <2> QED
    BY <2>3 DEF E
<1>4. C \subseteq D
  <2>1. start \in D \union {NULL}
    BY <1>0, <1>2, ChainClosed
  <2> QED
    BY <1>0, <1>1, <2>1, ChainInside
<1> QED
  BY <1>2, <1>3, <1>4

LEMMA ChainAppend ==
    ASSUME NEW nx \in [Block -> Ref], NEW start \in Ref, NEW tail \in Chain(nx, start),
           nx[tail] = NULL, NEW block \in Block, nx[block] = NULL,
           block \notin Chain(nx, start), NEW mx \in [Block -> Ref], mx[tail] = block,
           \A b \in Block \ {tail} : mx[b] = nx[b]
    PROVE  Chain(mx, start) = Chain(nx, start) \union {block}
<1> DEFINE C == Chain(nx, start)
           D == Chain(mx, start)
<1>0. tail \in Block /\ C \in SUBSET Block /\ D \in SUBSET Block
  BY ChainIsSet
<1>3. start \in C \union {NULL} /\ start \in D \union {NULL}
  BY ChainStart DEF Ref
<1>4. /\ \A b \in C : nx[b] \in C \union {NULL}
      /\ \A b \in D : mx[b] \in D \union {NULL}
  BY ChainClosed
<1>5. D \subseteq C \union {block}
  <2> DEFINE E == C \union {block}
  <2>1. E \in SUBSET Block /\ start \in E \union {NULL} /\ \A b \in E : mx[b] \in E \union {NULL}
    <3> HIDE DEF C, D
    <3> QED
      BY <1>0, <1>3, <1>4 DEF C
  <2> HIDE DEF E
  <2>2. D \subseteq E
    BY <2>1, ChainLeast
  <2> QED
    BY <2>2 DEF E
<1>6. C \subseteq D
  <2> DEFINE E == C \intersect D
  <2>1. E \in SUBSET Block /\ start \in E \union {NULL} /\ \A b \in E : nx[b] \in E \union {NULL}
    <3> HIDE DEF C, D
    <3> QED
      BY <1>0, <1>3, <1>4 DEF C
  <2> HIDE DEF E
  <2>2. C \subseteq E
    BY <2>1, ChainLeast
  <2> QED
    BY <2>2 DEF E
<1>7. block \in D
  BY <1>4, <1>6, TrackerNames
<1> QED
  BY <1>5, <1>6, <1>7

LEMMA ChainRest ==
    ASSUME NEW nx \in [Block -> Ref], NEW start \in Block,
           \A S \in SUBSET Chain(nx, start) : S # {} => \E b \in S : nx[b] \notin S
    PROVE  Chain(nx, nx[start]) = Chain(nx, start) \ {start}
<1> DEFINE Rest(b) == Chain(nx, nx[b])
           C == Chain(nx, start)
<1>1. ASSUME NEW b \in Block PROVE Chain(nx, b) = Rest(b) \union {b}
  <2> DEFINE E == Rest(b) \union {b}
  <2>1. nx[b] \in Rest(b) \union {NULL} /\ \A d \in Rest(b) : nx[d] \in Rest(b) \union {NULL}
    BY ChainStart, ChainClosed DEF Ref
  <2>2. E \in SUBSET Block /\ b \in E /\ \A d \in E : nx[d] \in E \union {NULL}
    <3>1. Rest(b) \in SUBSET Block
      BY ChainIsSet
    <3> HIDE DEF Rest
    <3> QED
      BY <2>1, <3>1
  <2> HIDE DEF E
  <2>3. Chain(nx, b) \subseteq E
    BY <2>2, ChainLeast
  <2>4. b \in Chain(nx, b)
    BY ChainStart
  <2>5. nx[b] \in Chain(nx, b) \union {NULL}
    BY <2>4, ChainClosed
  <2>6. Rest(b) \subseteq Chain(nx, b)
    BY <2>5, ChainInside
  <2> QED
    BY <2>3, <2>4, <2>6 DEF E
<1>2. start \notin Rest(start)
  <2> SUFFICES ASSUME start \in Rest(start) PROVE FALSE
    OBVIOUS
  <2> DEFINE S == {b \in C : start \in Chain(nx, b)}
  <2>1. start \in S
    BY ChainStart
  <2>2. ASSUME NEW b \in S PROVE nx[b] \in S
    <3>1. b \in Block /\ b \in C
      BY ChainIsSet
    <3>2. start \in Chain(nx, nx[b])
      BY <1>1, <3>1
    <3>3. nx[b] # NULL
      BY <3>2, ChainNull
    <3>4. nx[b] \in C
      BY <3>1, <3>3, ChainClosed
    <3> QED
      BY <3>2, <3>4
  <2>3. S \in SUBSET C /\ S # {}
    BY <2>1
  <2> HIDE DEF S
  <2> QED
    BY <2>2, <2>3
<1> QED
  BY <1>1, <1>2

-----------------------------------------------------------------------------
(* The inductive invariant.  A context is in the tracker's list unless it  *)
(* is being freed, which only the holder of the lock is, ...               *)
Busy == Allocating \union {"idle"}

LockInv ==
    /\ \A c \in Context : ctx[c].pc \in {"free", "push"} <=> listOfContextLock = c
    /\ \A c \in Context :
          ctx[c].pc = "none" => ctx[c].allocListHead = NULL /\ ctx[c].preReservedUsage = 0
    /\ \A c \in Context :
          ctx[c].pc \in Busy <=> \E i \in DOMAIN contexts : contexts[i] = c
    /\ \A i, j \in DOMAIN contexts : contexts[i] = contexts[j] => i = j

(* ... a thread has a block in hand exactly inside the operations that put *)
(* one somewhere, ...                                                      *)
HandInv ==
    /\ \A c \in Context : ctx[c].block # NULL <=> ctx[c].pc \in Allocating \union {"push"}
    /\ \A c \in Context : ctx[c].pc \in Allocating => next[ctx[c].block] = NULL
    /\ gcBlock # NULL <=> gcPc = "push"
    /\ gcPc = "idle" => unfiltered = NULL /\ freedSize = 0

(* ... a context that is about to reserve has too little reserved, ...     *)
SizeInv ==
    /\ \A block \in Block :
          totalSize[block] > 0 => \E s \in AllocSize : totalSize[block] = s + HeaderSize
    /\ \A c \in Context :
          ctx[c].pc = "cas" /\ Small(ctx[c].block) =>
              ctx[c].preReservedUsage < totalSize[ctx[c].block]

(* ... the tail of a context's list is its end, ...                        *)
TailInv ==
    \A c \in Context :
        ctx[c].pc \in Busy =>
            IF ctx[c].allocListHead = NULL THEN ctx[c].allocListTail = NULL
            ELSE /\ ctx[c].allocListTail \in ListFrom(ctx[c].allocListHead)
                 /\ next[ctx[c].allocListTail] = NULL

(* ... and there is a map that says of each block where it is, and that is *)
(* the only place where it is: in a list, in a hand, or free.  The blocks  *)
(* of the lists form no cycle.                                             *)
Free == <<"free", NULL>>
Global == <<"global", NULL>>
Snapshot == <<"snapshot", NULL>>
Filtered == <<"filtered", NULL>>
List(c) == <<"list", c>>
Hand(c) == <<"hand", c>>

Lists == {Global, Snapshot} \union {List(c) : c \in Context}
Places == {Free, Filtered} \union Lists \union {Hand(c) : c \in Context}

OnlyAt(b, place) ==
    /\ place = Free <=> totalSize[b] = 0
    /\ place = Global <=> b \in ListFrom(head)
    /\ place = Snapshot <=> b \in ListFrom(unfiltered)
    /\ place = Filtered <=> b = gcBlock
    /\ \A c \in Context : /\ place = List(c) <=> b \in ListFrom(ctx[c].allocListHead)
                          /\ place = Hand(c) <=> b = ctx[c].block

Placed(where) == \A b \in Block : OnlyAt(b, where[b])

Acyclic(where) ==
    \A S \in SUBSET {b \in Block : where[b] \in Lists} :
        S # {} => \E b \in S : next[b] \notin S

PlaceInv == \E where \in [Block -> Places] : Placed(where) /\ Acyclic(where)

TrackerInv ==
    /\ TypeOK /\ LockInv /\ HandInv /\ SizeInv /\ TailInv /\ PlaceInv
    /\ UsageExact /\ WithinMaxSize

-----------------------------------------------------------------------------
(* The context list: one is put before it, one taken out of it.            *)
LEMMA PutBefore ==
    ASSUME NEW s \in Seq(Context), NEW c \in Context
    PROVE  /\ <<c>> \o s \in Seq(Context)
           /\ DOMAIN (<<c>> \o s) = 1 .. Len(s) + 1
           /\ \A k \in 1 .. Len(s) + 1 : (<<c>> \o s)[k] = IF k = 1 THEN c ELSE s[k - 1]
  OBVIOUS

LEMMA TakenOut ==
    ASSUME NEW s \in Seq(Context), NEW i \in DOMAIN s
    PROVE  /\ RemoveAt(s, i) \in Seq(Context)
           /\ DOMAIN RemoveAt(s, i) = 1 .. Len(s) - 1
           /\ \A k \in 1 .. Len(s) - 1 :
                 RemoveAt(s, i)[k] = IF k < i THEN s[k] ELSE s[k + 1]
<1> DEFINE a == SubSeq(s, 1, i - 1)
           b == SubSeq(s, i + 1, Len(s))
<1>1. i \in 1 .. Len(s) /\ Len(s) \in Nat
  OBVIOUS
<1>2. a \in Seq(Context) /\ Len(a) = i - 1 /\ \A k \in 1 .. i - 1 : a[k] = s[k]
  BY <1>1
<1>3. b \in Seq(Context) /\ Len(b) = Len(s) - i /\ \A k \in 1 .. Len(s) - i : b[k] = s[i + k]
  BY <1>1
<1>4. RemoveAt(s, i) = a \o b
  BY DEF RemoveAt
<1> HIDE DEF a, b
<1>5. a \o b \in Seq(Context) /\ DOMAIN (a \o b) = 1 .. Len(s) - 1
  BY <1>1, <1>2, <1>3, SMTT(60)
<1>6. \A k \in 1 .. Len(s) - 1 : (a \o b)[k] = IF k < i THEN s[k] ELSE s[k + 1]
  <2> TAKE k \in 1 .. Len(s) - 1
  <2>1. (a \o b)[k] = IF k <= Len(a) THEN a[k] ELSE b[k - Len(a)]
    BY <1>1, <1>2, <1>3, SMTT(60)
  <2> QED
    BY <1>1, <1>2, <1>3, <2>1, SMTT(60)
<1> QED
  BY <1>4, <1>5, <1>6

-----------------------------------------------------------------------------
LEMMA BlockInHand ==
    ASSUME TrackerInv, NEW c \in Context, ctx[c].pc \in Allocating \union {"push"}
    PROVE  ctx[c].block \in Block
  BY DEF TrackerInv, TypeOK, StructContext, HandInv, Ref

LEMMA LockStep == TrackerInv /\ Next => LockInv'
<1> SUFFICES ASSUME TrackerInv, Next PROVE LockInv'
  OBVIOUS
<1>0. TypeOK /\ LockInv
  BY DEF TrackerInv
<1> USE DEF listVars, lockVars, gcVars
<1>1. ASSUME NEW c \in Context, AllocStep(c) \/ LoadHead(c) \/ PushBlock(c)
      PROVE  LockInv'
  <2> DEFINE Same(d) ==
                 /\ ctx'[d].pc \in {"free", "push"} <=> ctx[d].pc \in {"free", "push"}
                 /\ ctx'[d].pc \in Busy <=> ctx[d].pc \in Busy
                 /\ ctx'[d].pc = "none" => ctx'[d] = ctx[d]
  <2>1. ASSUME NEW d \in Context PROVE Same(d)
    <3> USE <1>0 DEF TypeOK, StructContext, Busy, Allocating
    <3>1. CASE FastDoSmallAccounting(c)
      BY <3>1 DEF FastDoSmallAccounting
    <3>2. CASE LoadUsage(c)
      BY <3>2 DEF LoadUsage
    <3>3. CASE CasUsage(c)
      BY <3>3 DEF CasUsage
    <3>4. CASE AddBlock(c)
      BY <3>4, SMTT(60) DEF AddBlock
    <3>5. CASE FailAlloc(c)
      BY <3>5 DEF FailAlloc
    <3>6. CASE LoadHead(c)
      BY <3>6 DEF LoadHead
    <3>7. CASE PushBlock(c)
      BY <3>7, SMTT(60) DEF PushBlock
    <3> QED
      BY <1>1, <3>1, <3>2, <3>3, <3>4, <3>5, <3>6, <3>7 DEF AllocStep
  <2>2. UNCHANGED <<contexts, listOfContextLock>>
    BY <1>1 DEF AllocStep, FastDoSmallAccounting, LoadUsage, CasUsage, AddBlock, FailAlloc,
                LoadHead, PushBlock
  <2> QED
    BY <1>0, <2>1, <2>2 DEF LockInv
<1>2. ASSUME NEW c \in Context, NEW block \in Block, NEW size \in AllocSize,
             Malloc(c, block, size)
      PROVE  LockInv'
  BY <1>0, <1>2, SMTT(60) DEF Malloc, TypeOK, StructContext, LockInv, Busy, Allocating
<1>3. ASSUME NEW c \in Context, AddContext(c) PROVE LockInv'
  <2>1. ASSUME NEW d \in Context
        PROVE  IF d = c THEN ctx[d].pc \notin Busy \union {"free", "push"} /\ ctx'[d].pc = "idle"
               ELSE ctx'[d] = ctx[d]
    BY <1>0, <1>3, TrackerNames DEF Busy, Allocating, AddContext, NewContext, TypeOK
  <2>2. /\ contexts' \in Seq(Context) /\ DOMAIN contexts' = 1 .. Len(contexts) + 1
        /\ contexts'[1] = c
        /\ \A k \in DOMAIN contexts : contexts'[k + 1] = contexts[k]
        /\ \A k \in DOMAIN contexts' :
              k # 1 => k - 1 \in DOMAIN contexts /\ contexts'[k] = contexts[k - 1]
    <3>1. /\ contexts \in Seq(Context) /\ contexts' = <<c>> \o contexts
          /\ DOMAIN contexts = 1 .. Len(contexts) /\ Len(contexts) \in Nat
      BY <1>0, <1>3 DEF AddContext, TypeOK
    <3>2. /\ contexts' \in Seq(Context) /\ DOMAIN contexts' = 1 .. Len(contexts) + 1
          /\ \A k \in 1 .. Len(contexts) + 1 :
                contexts'[k] = IF k = 1 THEN c ELSE contexts[k - 1]
      BY <3>1, PutBefore
    <3>3. ASSUME NEW k \in DOMAIN contexts PROVE contexts'[k + 1] = contexts[k]
      <4>1. k + 1 \in 1 .. Len(contexts) + 1 /\ k + 1 # 1 /\ (k + 1) - 1 = k
        BY <3>1
      <4> QED
        BY <3>2, <4>1
    <3>4. ASSUME NEW k \in DOMAIN contexts', k # 1
          PROVE  k - 1 \in DOMAIN contexts /\ contexts'[k] = contexts[k - 1]
      BY <3>1, <3>2, <3>4
    <3>5. contexts'[1] = c
      BY <3>1, <3>2
    <3>6. contexts' \in Seq(Context) /\ DOMAIN contexts' = 1 .. Len(contexts) + 1
      BY <3>2
    <3> QED
      BY <3>3, <3>4, <3>5, <3>6
  <2>3. listOfContextLock = NULL /\ listOfContextLock' = NULL
    BY <1>3 DEF AddContext
  <2>4. \A i \in DOMAIN contexts : contexts[i] # c
    BY <1>0, <2>1 DEF LockInv
  <2>5. \A d \in Context :
            (\E i \in DOMAIN contexts' : contexts'[i] = d)
                <=> d = c \/ \E i \in DOMAIN contexts : contexts[i] = d
    <3>1. 1 \in DOMAIN contexts' /\ \A i \in DOMAIN contexts : i + 1 \in DOMAIN contexts'
      BY <1>0, <2>2 DEF TypeOK
    <3> QED
      BY <2>2, <3>1
  <2>6. \A i, j \in DOMAIN contexts' : contexts'[i] = contexts'[j] => i = j
    BY <1>0, <2>2, <2>4 DEF LockInv, TypeOK
  <2> QED
    <3>1. "idle" \in Busy \ {"free", "push", "none"}
      BY DEF Busy, Allocating
    <3>2. LockInv!1' /\ LockInv!2'
      BY <1>0, <2>1, <2>3, <3>1, TrackerNames DEF LockInv
    <3>3. LockInv!3' /\ LockInv!4'
      BY <1>0, <2>1, <2>5, <2>6, <3>1 DEF LockInv
    <3> QED
      BY <3>2, <3>3 DEF LockInv
<1>4. ASSUME NEW c \in Context, RemoveContext(c) PROVE LockInv'
  <2>1. PICK k \in DOMAIN contexts : contexts[k] = c /\ contexts' = RemoveAt(contexts, k)
    BY <1>4 DEF RemoveContext
  <2>2. /\ contexts' \in Seq(Context) /\ DOMAIN contexts' = 1 .. Len(contexts) - 1
        /\ \A i \in DOMAIN contexts' :
              contexts'[i] = IF i < k THEN contexts[i] ELSE contexts[i + 1]
    BY <1>0, <2>1, TakenOut DEF TypeOK
  <2>3. \A i, j \in DOMAIN contexts' : contexts'[i] = contexts'[j] => i = j
    BY <1>0, <2>2, SMTT(60) DEF LockInv, TypeOK
  <2>4. \A d \in Context :
            (\E i \in DOMAIN contexts' : contexts'[i] = d)
                <=> d # c /\ \E i \in DOMAIN contexts : contexts[i] = d
    <3> TAKE d \in Context
    <3>1. ASSUME NEW i \in DOMAIN contexts', contexts'[i] = d
          PROVE  d # c /\ \E j \in DOMAIN contexts : contexts[j] = d
      BY <1>0, <2>1, <2>2, <3>1 DEF LockInv, TypeOK
    <3>2. ASSUME NEW i \in DOMAIN contexts, contexts[i] = d, d # c
          PROVE  \E j \in DOMAIN contexts' : contexts'[j] = d
      <4>1. CASE i < k
        <5>1. i \in DOMAIN contexts' /\ contexts'[i] = d
          BY <1>0, <2>2, <3>2, <4>1 DEF TypeOK
        <5> QED
          BY <5>1
      <4>2. CASE i > k
        <5>1. i - 1 \in DOMAIN contexts' /\ contexts'[i - 1] = d
          BY <1>0, <2>2, <3>2, <4>2 DEF TypeOK
        <5> QED
          BY <5>1
      <4> QED
        BY <1>0, <2>1, <3>2, <4>1, <4>2 DEF TypeOK
    <3> QED
      BY <3>1, <3>2
  <2>5. ASSUME NEW d \in Context
        PROVE  IF d = c THEN ctx[d].pc = "idle" /\ ctx'[d].pc = "free"
               ELSE ctx'[d] = ctx[d]
    BY <1>0, <1>4 DEF RemoveContext, TypeOK, StructContext
  <2>6. listOfContextLock = NULL /\ listOfContextLock' = c
    BY <1>4 DEF RemoveContext
  <2> QED
    BY <1>0, <2>3, <2>4, <2>5, <2>6, TrackerNames DEF LockInv, Busy, Allocating
<1>5. ASSUME NEW c \in Context, FreeContext(c) PROVE LockInv'
  <2>1. ASSUME NEW d \in Context
        PROVE  IF d = c THEN /\ ctx[d].pc = "free" /\ ctx'[d].pc = "none"
                             /\ ctx'[d].allocListHead = NULL
                             /\ ctx'[d].preReservedUsage = 0
               ELSE ctx'[d] = ctx[d]
    BY <1>0, <1>5 DEF FreeContext, NoContext, NewContext, TypeOK
  <2>2. listOfContextLock' = NULL /\ contexts' = contexts
    BY <1>5 DEF FreeContext
  <2> QED
    BY <1>0, <2>1, <2>2, TrackerNames DEF LockInv, Busy, Allocating
<1>6. CASE TakeSnapshot
  <2>1. ASSUME NEW d \in Context
        PROVE  /\ ctx'[d].pc = ctx[d].pc /\ ctx'[d].allocListHead = NULL
               /\ ctx'[d].preReservedUsage = ctx[d].preReservedUsage
    BY <1>0, <1>6 DEF TakeSnapshot, TypeOK, StructContext
  <2>2. UNCHANGED <<contexts, listOfContextLock>>
    BY <1>6 DEF TakeSnapshot
  <2> QED
    BY <1>0, <2>1, <2>2 DEF LockInv
<1>7. CASE FilterStep
  BY <1>0, <1>7 DEF FilterStep, KeepBlock, PushKept, FreeBlock, EndFilter, LockInv
<1> QED
  BY <1>1, <1>2, <1>3, <1>4, <1>5, <1>6, <1>7 DEF Next, ContextStep, FreeStep

-----------------------------------------------------------------------------
(* Every block is in one place, and the names of the places differ.        *)
LEMMA PlacesDiffer ==
    /\ Free # Global /\ Free # Snapshot /\ Free # Filtered
    /\ Global # Snapshot /\ Global # Filtered /\ Snapshot # Filtered
    /\ \A c : /\ Hand(c) \notin {Free, Global, Snapshot, Filtered}
              /\ List(c) \notin {Free, Global, Snapshot, Filtered}
    /\ \A c, d : Hand(c) # List(d)
    /\ \A c, d : c # d => Hand(c) # Hand(d) /\ List(c) # List(d)
  BY DEF Free, Global, Snapshot, Filtered, Hand, List

LEMMA HandAlone ==
    ASSUME TrackerInv, NEW c \in Context, ctx[c].block \in Block
    PROVE  /\ totalSize[ctx[c].block] # 0 /\ ctx[c].block # gcBlock
           /\ ctx[c].block \notin ListFrom(head) \union ListFrom(unfiltered)
           /\ \A d \in Context : ctx[c].block \notin ListFrom(ctx[d].allocListHead)
           /\ \A d \in Context : d # c => ctx[d].block # ctx[c].block
<1>1. PICK where \in [Block -> Places] : Placed(where)
  BY DEF TrackerInv, PlaceInv
<1>2. where[ctx[c].block] = Hand(c)
  BY <1>1 DEF Placed, OnlyAt
<1> QED
  BY <1>1, <1>2, PlacesDiffer DEF Placed, OnlyAt

LEMMA FilteredAlone ==
    ASSUME TrackerInv, gcBlock \in Block
    PROVE  /\ totalSize[gcBlock] # 0
           /\ gcBlock \notin ListFrom(head) \union ListFrom(unfiltered)
           /\ \A d \in Context : gcBlock \notin ListFrom(ctx[d].allocListHead)
           /\ \A d \in Context : ctx[d].block # gcBlock
<1>1. PICK where \in [Block -> Places] : Placed(where)
  BY DEF TrackerInv, PlaceInv
<1>2. where[gcBlock] = Filtered
  BY <1>1 DEF Placed, OnlyAt
<1> QED
  BY <1>1, <1>2, PlacesDiffer DEF Placed, OnlyAt

LEMMA FreeAlone ==
    ASSUME TrackerInv, NEW block \in Block, totalSize[block] = 0
    PROVE  /\ gcBlock # block /\ block \notin ListFrom(head) \union ListFrom(unfiltered)
           /\ \A d \in Context : block \notin ListFrom(ctx[d].allocListHead)
           /\ \A d \in Context : ctx[d].block # block
<1>1. PICK where \in [Block -> Places] : Placed(where)
  BY DEF TrackerInv, PlaceInv
<1>2. where[block] = Free
  BY <1>1 DEF Placed, OnlyAt
<1> QED
  BY <1>1, <1>2, PlacesDiffer DEF Placed, OnlyAt

(* The head of a list is on it. *)
LEMMA ListHead ==
    ASSUME NEW start \in Block PROVE start \in ListFrom(start)
  BY ListIsChain, ChainStart

LEMMA HandStep == TrackerInv /\ Next => HandInv'
<1> SUFFICES ASSUME TrackerInv, Next PROVE HandInv'
  OBVIOUS
<1>0. TypeOK /\ HandInv /\ TailInv
  BY DEF TrackerInv
<1> DEFINE Thread(d) ==
              /\ ctx'[d].block # NULL <=> ctx'[d].pc \in Allocating \union {"push"}
              /\ ctx'[d].pc \in Allocating => next'[ctx'[d].block] = NULL
           Gc == /\ gcBlock' # NULL <=> gcPc' = "push"
                 /\ gcPc' = "idle" => unfiltered' = NULL /\ freedSize' = 0
<1>a. SUFFICES (\A d \in Context : Thread(d)) /\ Gc
  BY SMTT(60) DEF HandInv
<1> USE DEF listVars, lockVars, gcVars
<1>1. ASSUME NEW c \in Context, ContextStep(c) PROVE Gc
  BY <1>0, <1>1 DEF HandInv, ContextStep, AllocStep, FreeStep, Malloc, FastDoSmallAccounting,
       LoadUsage, CasUsage, AddBlock, FailAlloc, AddContext, RemoveContext, LoadHead,
       PushBlock, FreeContext
<1>2. ASSUME NEW c \in Context, ContextStep(c), NEW d \in Context PROVE Thread(d)
  <2>0. /\ ctx[d].block # NULL <=> ctx[d].pc \in Allocating \union {"push"}
        /\ ctx[d].pc \in Allocating => ctx[d].block \in Block /\ next[ctx[d].block] = NULL
    BY <1>0, BlockInHand DEF HandInv
  <2>00. ctx[c].pc \in Allocating \union {"push"} => ctx[c].block \in Block
    BY BlockInHand
  <2> USE <2>0, TrackerNames DEF TypeOK, StructContext, Allocating, Ref
  <2>1. ASSUME NEW block \in Block, NEW size \in AllocSize, Malloc(c, block, size)
        PROVE  Thread(d)
    BY <1>0, <2>1, FreeAlone DEF Malloc
  <2>2. CASE FastDoSmallAccounting(c)
    BY <1>0, <2>2, SMTT(60) DEF FastDoSmallAccounting
  <2>3. CASE LoadUsage(c)
    BY <1>0, <2>3, SMTT(60) DEF LoadUsage
  <2>4. CASE CasUsage(c)
    <3>1. /\ next' = next /\ ctx'[d].block = ctx[d].block
          /\ IF d = c THEN ctx[d].pc = "cas" /\ ctx'[d].pc \in {"fail", "add", "cas"}
             ELSE ctx'[d].pc = ctx[d].pc
      BY <1>0, <2>4, SMTT(60) DEF CasUsage
    <3> QED
      BY <3>1
  <2>5. CASE AddBlock(c)
    BY <1>0, <2>5, HandAlone DEF AddBlock, TailInv, Busy
  <2>6. CASE FailAlloc(c)
    BY <1>0, <2>6 DEF FailAlloc
  <2>7. CASE AddContext(c)
    BY <1>0, <2>7 DEF AddContext, NewContext
  <2>8. CASE RemoveContext(c)
    BY <1>0, <2>8, ZenonT(60) DEF RemoveContext
  <2>9. CASE LoadHead(c)
    BY <1>0, <2>9 DEF LoadHead
  <2>10. CASE PushBlock(c)
    <3>1. /\ ctx[c].pc = "push" /\ ctx[c].block \in Block
          /\ next' = [next EXCEPT ![ctx[c].block] = ctx[c].oldHead]
      BY <2>00, <2>10 DEF PushBlock, CasHead
    <3>2. CASE d = c
      BY <1>0, <2>10, <3>2, SMTT(60) DEF PushBlock
    <3>3. CASE d # c
      <4>1. ctx'[d] = ctx[d] /\ ctx[d].block # ctx[c].block
        BY <1>0, <2>10, <3>1, <3>3, HandAlone DEF PushBlock
      <4> QED
        BY <1>0, <3>1, <4>1
    <3> QED
      BY <3>2, <3>3
  <2>11. CASE FreeContext(c)
    BY <1>0, <2>11 DEF FreeContext, NoContext, NewContext
  <2> QED
    BY <1>2, <2>1, <2>2, <2>3, <2>4, <2>5, <2>6, <2>7, <2>8, <2>9, <2>10, <2>11
       DEF ContextStep, AllocStep, FreeStep
<1>3. CASE TakeSnapshot
  <2>1. ASSUME NEW d \in Context
        PROVE  ctx'[d].pc = ctx[d].pc /\ ctx'[d].block = ctx[d].block
    BY <1>0, <1>3 DEF TakeSnapshot, TypeOK, StructContext
  <2> QED
    BY <1>0, <1>3, <2>1 DEF TakeSnapshot, HandInv
<1>4. CASE FilterStep
  <2>1. Gc
    BY <1>0, <1>4, TrackerNames
       DEF FilterStep, KeepBlock, PushKept, FreeBlock, EndFilter, HandInv, TypeOK, Ref
  <2>2. ASSUME NEW d \in Context PROVE Thread(d)
    <3>1. CASE PushKept
      <4>1. gcBlock \in Block
        BY <1>0, <3>1 DEF PushKept, HandInv, TypeOK, Ref
      <4> QED
        BY <1>0, <3>1, <4>1, FilteredAlone, BlockInHand
           DEF PushKept, CasHead, HandInv, TypeOK
    <3>2. CASE KeepBlock \/ FreeBlock \/ EndFilter
      BY <1>0, <3>2 DEF KeepBlock, FreeBlock, EndFilter, HandInv
    <3> QED
      BY <1>4, <3>1, <3>2 DEF FilterStep
  <2> QED
    BY <2>1, <2>2
<1> QED
  BY <1>1, <1>2, <1>3, <1>4 DEF Next

LEMMA SnapshotApart ==
    ASSUME TrackerInv, unfiltered \in Block
    PROVE  /\ totalSize[unfiltered] # 0 /\ unfiltered # gcBlock
           /\ unfiltered \notin ListFrom(head)
           /\ \A d \in Context : unfiltered \notin ListFrom(ctx[d].allocListHead)
           /\ \A d \in Context : ctx[d].block # unfiltered
<1>1. PICK where \in [Block -> Places] : Placed(where)
  BY DEF TrackerInv, PlaceInv
<1>2. where[unfiltered] = Snapshot
  BY <1>1, ListHead DEF Placed, OnlyAt
<1> QED
  BY <1>1, <1>2, PlacesDiffer DEF Placed, OnlyAt

LEMMA SizeStep == TrackerInv /\ Next => SizeInv'
<1> SUFFICES ASSUME TrackerInv, Next PROVE SizeInv'
  OBVIOUS
<1>0. TypeOK /\ HandInv /\ SizeInv
  BY DEF TrackerInv
<1> DEFINE Asked(d) == ctx[d].pc = "cas" /\ Small(ctx[d].block) =>
                           ctx[d].preReservedUsage < totalSize[ctx[d].block]
           Sized == \A b \in Block : totalSize[b] > 0 =>
                       \E s \in AllocSize : totalSize[b] = s + HeaderSize
<1>a. SUFFICES (\A d \in Context : Asked(d)') /\ Sized'
  BY DEF SizeInv
<1>b. Sized /\ \A d \in Context : Asked(d)
  BY <1>0, SMTT(60) DEF SizeInv
<1> USE DEF listVars, lockVars, gcVars
<1>1. ASSUME NEW c \in Context, ContextStep(c) PROVE Sized'
  <2>1. ASSUME NEW block \in Block, NEW size \in AllocSize, Malloc(c, block, size)
        PROVE  Sized'
    BY <1>0, <1>b, <2>1 DEF Malloc, TypeOK
  <2>2. CASE FailAlloc(c)
    BY <1>0, <1>b, <2>2 DEF FailAlloc, TypeOK
  <2>3. CASE UNCHANGED totalSize
    BY <1>b, <2>3
  <2> QED
    BY <1>1, <2>1, <2>2, <2>3 DEF ContextStep, AllocStep, FreeStep, FastDoSmallAccounting,
       LoadUsage, CasUsage, AddBlock, AddContext, RemoveContext, LoadHead, PushBlock, FreeContext
<1>2. ASSUME NEW c \in Context, ContextStep(c), NEW d \in Context PROVE Asked(d)'
  <2>0. /\ ctx[d].pc \in Allocating \union {"push"} => ctx[d].block \in Block
        /\ ctx[c].pc \in Allocating \union {"push"} => ctx[c].block \in Block
    BY BlockInHand
  <2>00. ctx \in [Context -> StructContext] /\ totalSize \in [Block -> Nat]
    BY <1>0 DEF TypeOK
  <2> USE DEF StructContext, Allocating
  <2>1. ASSUME ctx'[d].pc = ctx[d].pc, ctx'[d].block = ctx[d].block,
               ctx'[d].preReservedUsage = ctx[d].preReservedUsage,
               totalSize'[ctx[d].block] = totalSize[ctx[d].block]
        PROVE  Asked(d)'
    BY <1>b, <2>1 DEF Small
  <2>2. ASSUME ctx'[d].pc # "cas" PROVE Asked(d)'
    BY <2>2
  <2>3. ASSUME NEW block \in Block, NEW size \in AllocSize, Malloc(c, block, size)
        PROVE  Asked(d)'
    <3>1. ctx'[d].pc = "cas" => /\ ctx'[d] = ctx[d] /\ ctx[d].block \in Block
                                /\ ctx[d].block # block
      BY <2>0, <2>00, <2>3, FreeAlone DEF Malloc
    <3> QED
      BY <2>00, <2>1, <2>2, <2>3, <3>1 DEF Malloc
  <2>4. CASE FailAlloc(c)
    <3>1. ctx'[d].pc = "cas" => /\ ctx'[d] = ctx[d] /\ ctx[d].block \in Block
                                /\ ctx[d].block # ctx[c].block
      BY <2>0, <2>00, <2>4, HandAlone DEF FailAlloc
    <3> QED
      BY <2>0, <2>00, <2>1, <2>2, <2>4, <3>1 DEF FailAlloc
  <2>5. CASE LoadUsage(c)
    <3>1. CASE d = c
      <4>1. /\ ctx'[c].block = ctx[c].block /\ totalSize' = totalSize
            /\ ctx'[c].preReservedUsage = ctx[c].preReservedUsage
            /\ ~Fits(c) /\ ctx[c].block \in Block
        BY <2>0, <2>00, <2>5 DEF LoadUsage
      <4>2. totalSize[ctx[c].block] \in Nat /\ ctx[c].preReservedUsage \in Nat
        BY <2>00, <4>1
      <4> QED
        BY <3>1, <4>1, <4>2 DEF Fits, Small
    <3>2. CASE d # c
      BY <2>00, <2>1, <2>5, <3>2 DEF LoadUsage
    <3> QED
      BY <3>1, <3>2
  <2>6. CASE CasUsage(c)
    <3>1. totalSize' = totalSize /\ (d # c => ctx'[d] = ctx[d])
      BY <2>00, <2>6 DEF CasUsage
    <3>2. CASE d = c
      <4>1. \/ ctx'[d].pc # "cas"
            \/ /\ ctx'[d].pc = ctx[d].pc /\ ctx'[d].block = ctx[d].block
               /\ ctx'[d].preReservedUsage = ctx[d].preReservedUsage
        BY <2>00, <2>6, <3>2 DEF CasUsage
      <4> QED
        BY <2>1, <2>2, <3>1, <4>1
    <3> QED
      BY <2>1, <3>1, <3>2
  <2>7. CASE \/ FastDoSmallAccounting(c) \/ AddBlock(c) \/ AddContext(c) \/ RemoveContext(c)
             \/ FreeStep(c)
    <3>1. totalSize' = totalSize /\ (d # c => ctx'[d] = ctx[d])
      BY <2>00, <2>7 DEF FastDoSmallAccounting, AddBlock, AddContext, RemoveContext, FreeStep,
                         LoadHead, PushBlock, FreeContext
    <3>2. ctx'[c].pc # "cas"
      BY <2>00, <2>7, SMTT(60) DEF FastDoSmallAccounting, AddBlock, AddContext, RemoveContext, FreeStep,
                         LoadHead, PushBlock, FreeContext, NewContext, NoContext
    <3> QED
      BY <2>1, <2>2, <3>1, <3>2
  <2> QED
    BY <1>2, <2>3, <2>4, <2>5, <2>6, <2>7 DEF ContextStep, AllocStep
<1>3. CASE TakeSnapshot
  <2>1. ASSUME NEW d \in Context PROVE ctx'[d].pc # "cas"
    BY <1>0, <1>3 DEF TakeSnapshot, TypeOK, StructContext, Allocating
  <2> QED
    BY <1>3, <1>b, <2>1 DEF TakeSnapshot
<1>4. CASE FilterStep
  <2>1. CASE FreeBlock
    <3>1. unfiltered \in Block
      BY <1>0, <2>1 DEF FreeBlock, TypeOK, Ref
    <3>2. Sized'
      BY <1>0, <1>b, <2>1, <3>1 DEF FreeBlock, TypeOK
    <3>3. ASSUME NEW d \in Context PROVE Asked(d)'
      <4>1. ctx[d].block # unfiltered /\ ctx' = ctx
        BY <2>1, <3>1, SnapshotApart DEF FreeBlock
      <4>2. CASE ctx[d].pc = "cas"
        <5>1. ctx[d].block \in Block
          BY <4>2, BlockInHand DEF Allocating
        <5>2. totalSize'[ctx[d].block] = totalSize[ctx[d].block]
          BY <1>0, <2>1, <4>1, <5>1 DEF FreeBlock, TypeOK
        <5> QED
          BY <1>b, <4>1, <5>2 DEF Small
      <4> QED
        BY <4>1, <4>2
    <3> QED
      BY <3>2, <3>3
  <2>2. CASE UNCHANGED <<ctx, totalSize>>
    BY <1>b, <2>2 DEF Small
  <2> QED
    BY <1>4, <2>1, <2>2 DEF FilterStep, KeepBlock, PushKept, EndFilter
<1> QED
  BY <1>1, <1>2, <1>3, <1>4 DEF Next

-----------------------------------------------------------------------------
(* What the blocks use and the contexts have reserved are numbers, ...     *)
Pending(d) == ctx[d].pc \in {"account", "cas", "fail"}
PreReserved == [c \in Context |-> ctx[c].preReservedUsage]

LEMMA AccountedAre ==
    ASSUME NEW b
    PROVE  /\ b \in Accounted <=> /\ b \in Block /\ totalSize[b] > 0
                                  /\ \A d \in Context : Pending(d) => ctx[d].block # b
           /\ b \in Accounted' <=> /\ b \in Block /\ totalSize'[b] > 0
                                   /\ \A d \in Context : Pending(d)' => ctx'[d].block # b
  BY DEF Accounted, Unaccounted, Pending

LEMMA AccountedFinite == Accounted \in SUBSET Block /\ IsFiniteSet(Accounted)
  BY TrackerFinite, FS_Subset DEF Accounted

LEMMA UsageType ==
    ASSUME TypeOK
    PROVE  UsedBytes \in Nat /\ Reserved \in Nat
<1>1. \A b \in Accounted : totalSize[b] \in Nat
  BY AccountedFinite DEF TypeOK
<1>2. \A c \in Context : PreReserved[c] \in Nat
  BY DEF TypeOK, StructContext, PreReserved
<1>3. Reserved = SumFunctionOnSet(PreReserved, Context)
  BY DEF Reserved, PreReserved
<1> QED
  BY <1>1, <1>2, <1>3, AccountedFinite, TrackerFinite, SumType DEF UsedBytes

(* ... that stay if the accounted blocks and the reservations do, ...      *)
LEMMA SameUsed ==
    ASSUME Accounted' = Accounted, \A b \in Accounted : totalSize'[b] = totalSize[b]
    PROVE  UsedBytes' = UsedBytes
<1>1. SumFunctionOnSet(totalSize', Accounted) = SumFunctionOnSet(totalSize, Accounted)
  BY AccountedFinite, SumSame
<1> QED
  BY <1>1 DEF UsedBytes

LEMMA SameReserved ==
    ASSUME \A d \in Context : ctx'[d].preReservedUsage = ctx[d].preReservedUsage
    PROVE  Reserved' = Reserved
<1>1. PreReserved' = PreReserved
  BY DEF PreReserved
<1> QED
  BY <1>1 DEF Reserved, PreReserved

(* ... and change by what is added to, or taken from, one of them.         *)
LEMMA MoreUsed ==
    ASSUME TypeOK, NEW block \in Block, block \notin Accounted, totalSize' = totalSize,
           Accounted' = Accounted \union {block}
    PROVE  UsedBytes' = UsedBytes + totalSize[block]
<1>1. \A b \in Block : totalSize[b] \in Nat
  BY DEF TypeOK
<1>2. SumFunctionOnSet(totalSize, Accounted \union {block})
          = SumFunctionOnSet(totalSize, Accounted) + totalSize[block]
  BY <1>1, AccountedFinite, SumAdd
<1> QED
  BY <1>2 DEF UsedBytes

LEMMA LessUsed ==
    ASSUME TypeOK, NEW block \in Accounted, Accounted' = Accounted \ {block},
           \A b \in Accounted' : totalSize'[b] = totalSize[b]
    PROVE  UsedBytes = UsedBytes' + totalSize[block]
<1>1. IsFiniteSet(Accounted \ {block}) /\ \A b \in Accounted : totalSize[b] \in Nat
  BY AccountedFinite, FS_RemoveElement DEF TypeOK
<1>2. SumFunctionOnSet(totalSize, Accounted)
          = totalSize[block] + SumFunctionOnSet(totalSize, Accounted \ {block})
  BY <1>1, AccountedFinite, SumRemove
<1>3. SumFunctionOnSet(totalSize', Accounted \ {block})
          = SumFunctionOnSet(totalSize, Accounted \ {block})
  BY <1>1, SumSame
<1>4. SumFunctionOnSet(totalSize, Accounted \ {block}) \in Nat
  BY <1>1, SumType
<1>5. totalSize[block] \in Nat
  BY <1>1
<1> QED
  BY <1>2, <1>3, <1>4, <1>5 DEF UsedBytes

LEMMA ReservedChange ==
    ASSUME TypeOK, NEW c \in Context, ctx'[c].preReservedUsage \in Nat,
           \A d \in Context : d # c => ctx'[d].preReservedUsage = ctx[d].preReservedUsage
    PROVE  /\ Reserved' = Reserved - ctx[c].preReservedUsage + ctx'[c].preReservedUsage
           /\ ctx[c].preReservedUsage \in Nat
<1>1. \A d \in Context : PreReserved[d] \in Nat /\ ctx[d].preReservedUsage \in Nat
  BY DEF TypeOK, StructContext, PreReserved
<1>2. /\ PreReserved'[c] \in Nat
      /\ \A d \in Context \ {c} : PreReserved'[d] = PreReserved[d]
  BY DEF PreReserved
<1>3. SumFunctionOnSet(PreReserved', Context)
          = SumFunctionOnSet(PreReserved, Context) - PreReserved[c] + PreReserved'[c]
  BY <1>1, <1>2, TrackerFinite, SumChange
<1>4. /\ Reserved = SumFunctionOnSet(PreReserved, Context)
      /\ Reserved' = SumFunctionOnSet(PreReserved', Context)
      /\ PreReserved[c] = ctx[c].preReservedUsage /\ PreReserved'[c] = ctx'[c].preReservedUsage
  BY DEF Reserved, PreReserved
<1> QED
  BY <1>1, <1>3, <1>4

(* The block that CasUsage accounts for fits what it adds to the           *)
(* reservation, and leaves less than PreReserveSize of it.                 *)
LEMMA CasLeaves ==
    ASSUME TrackerInv, NEW c \in Context, ctx[c].pc = "cas"
    PROVE  LET left == ctx[c].preReservedUsage + AccountSize(ctx[c].block) - totalSize[ctx[c].block]
           IN  /\ ctx[c].block \in Block /\ totalSize[ctx[c].block] \in Nat
               /\ AccountSize(ctx[c].block) \in Nat /\ ctx[c].preReservedUsage \in Nat
               /\ left \in Nat /\ left <= PreReserveSize
<1> DEFINE block == ctx[c].block
           pre == ctx[c].preReservedUsage
<1>1. block \in Block
  BY BlockInHand DEF Allocating
<1>2. totalSize[block] \in Nat /\ pre \in Nat /\ pre <= PreReserveSize
  BY <1>1 DEF TrackerInv, TypeOK, StructContext, UsageExact
<1>3. PICK s \in AllocSize : totalSize[block] = s + HeaderSize
  <2>1. totalSize[block] > 0
    BY <1>1, <1>2, HandAlone
  <2> QED
    BY <1>1, <2>1 DEF TrackerInv, SizeInv
<1>4. s \in Nat /\ HeaderSize \in Nat /\ (s < PreReserveSkip => s + HeaderSize <= PreReserveSize)
  BY TrackerSizes
<1>5. Small(block) <=> s < PreReserveSkip
  BY <1>3, <1>4, TrackerSizes DEF Small
<1>6. Small(block) => pre < totalSize[block]
  BY DEF TrackerInv, SizeInv
<1> HIDE DEF block, pre
<1> QED
  BY <1>1, <1>2, <1>3, <1>4, <1>5, <1>6, TrackerSizes DEF AccountSize, block, pre

LEMMA UsageStep == TrackerInv /\ Next => UsageExact' /\ WithinMaxSize'
<1> SUFFICES ASSUME TrackerInv, Next PROVE UsageExact' /\ WithinMaxSize'
  OBVIOUS
<1>0. TypeOK /\ HandInv /\ UsageExact /\ WithinMaxSize
  BY DEF TrackerInv
<1>a. UsedBytes \in Nat /\ Reserved \in Nat /\ currentUsage \in Nat /\ freedSize \in Nat
      /\ lostUsage \in Nat /\ MaxSize \in Nat /\ PreReserveSize \in Nat
  BY <1>0, UsageType, TrackerSizes DEF TypeOK
<1>b. /\ currentUsage = UsedBytes + Reserved + freedSize + lostUsage
      /\ \A d \in Context : /\ ctx[d].preReservedUsage <= PreReserveSize
                            /\ ctx[d].preReservedUsage \in Nat
  BY <1>0 DEF UsageExact, TypeOK, StructContext
<1>c. /\ ctx \in [Context -> StructContext] /\ totalSize \in [Block -> Nat]
  BY <1>0 DEF TypeOK
<1> USE DEF listVars, lockVars, gcVars
\* A step that changes no accounted block and no reservation
<1>d. ASSUME UNCHANGED <<currentUsage, freedSize, lostUsage>>, Accounted' = Accounted,
             \A b \in Accounted : totalSize'[b] = totalSize[b],
             \A d \in Context : ctx'[d].preReservedUsage = ctx[d].preReservedUsage
      PROVE  UsageExact' /\ WithinMaxSize'
  BY <1>0, <1>d, SameUsed, SameReserved DEF UsageExact, WithinMaxSize
<1>1. ASSUME NEW c \in Context, NEW block \in Block, NEW size \in AllocSize,
             Malloc(c, block, size)
      PROVE  UsageExact' /\ WithinMaxSize'
  <2>1. totalSize[block] = 0 /\ \A b \in Block : b # block => totalSize'[b] = totalSize[b]
    BY <1>c, <1>1 DEF Malloc
  <2>2. \A d \in Context : /\ ctx'[d].preReservedUsage = ctx[d].preReservedUsage
                           /\ d # c => ctx'[d] = ctx[d]
    BY <1>c, <1>1 DEF Malloc, StructContext
  <2>3. Pending(c)' /\ ctx'[c].block = block /\ ~Pending(c)
    BY <1>c, <1>1 DEF Malloc, StructContext, Pending
  <2>4. ASSUME NEW b PROVE b \in Accounted' <=> b \in Accounted
    <3>1. CASE b = block
      BY <2>1, <2>3, <3>1, AccountedAre
    <3>2. CASE b # block
      BY <2>1, <2>2, <2>3, <3>2, AccountedAre DEF Pending
    <3> QED
      BY <3>1, <3>2
  <2>5. \A b \in Accounted : b # block /\ b \in Block
    BY <2>1, AccountedAre
  <2> QED
    BY <1>1, <1>d, <2>1, <2>2, <2>4, <2>5 DEF Malloc
<1>2. ASSUME NEW c \in Context, FastDoSmallAccounting(c)
      PROVE  UsageExact' /\ WithinMaxSize'
  <2>1. /\ ctx[c].pc = "account" /\ ctx[c].block \in Block
        /\ totalSize[ctx[c].block] \in Nat
        /\ totalSize[ctx[c].block] <= ctx[c].preReservedUsage
    BY <1>c, <1>2, BlockInHand DEF FastDoSmallAccounting, Fits, Allocating
  <2>2. /\ ctx'[c].preReservedUsage = ctx[c].preReservedUsage - totalSize[ctx[c].block]
        /\ ~Pending(c)' /\ Pending(c)
        /\ \A d \in Context : d # c => ctx'[d] = ctx[d]
    BY <1>c, <1>2 DEF FastDoSmallAccounting, StructContext, Pending
  <2>3. /\ UNCHANGED <<currentUsage, freedSize, lostUsage>> /\ totalSize' = totalSize
    BY <1>2 DEF FastDoSmallAccounting
  <2>4. Accounted' = Accounted \union {ctx[c].block} /\ ctx[c].block \notin Accounted
    <3>1. totalSize[ctx[c].block] > 0 /\ \A d \in Context : d # c => ctx[d].block # ctx[c].block
      BY <2>1, HandAlone
    <3> QED
      BY <2>1, <2>2, <2>3, <3>1, AccountedAre DEF Pending
  <2>5. UsedBytes' = UsedBytes + totalSize[ctx[c].block]
    BY <1>0, <2>1, <2>3, <2>4, MoreUsed
  <2>6. /\ ctx'[c].preReservedUsage \in Nat
        /\ ctx'[c].preReservedUsage <= PreReserveSize
    BY <1>a, <1>b, <2>1, <2>2
  <2>7. Reserved' = Reserved - ctx[c].preReservedUsage + ctx'[c].preReservedUsage
    BY <1>0, <2>2, <2>6, ReservedChange
  <2>8. currentUsage' = UsedBytes' + Reserved' + freedSize' + lostUsage'
    BY <1>a, <1>b, <2>1, <2>2, <2>3, <2>5, <2>7
  <2> QED
    BY <1>0, <1>b, <2>2, <2>3, <2>6, <2>8 DEF UsageExact, WithinMaxSize
<1>3. ASSUME NEW c \in Context, CasUsage(c), currentUsage' # currentUsage \/ ctx'[c].pc = "add"
      PROVE  UsageExact' /\ WithinMaxSize'
  <2> DEFINE block == ctx[c].block
             left == ctx[c].preReservedUsage + AccountSize(block) - totalSize[block]
  <2>0. ctx[c].pc = "cas"
    BY <1>3 DEF CasUsage
  <2>1. /\ block \in Block /\ totalSize[block] \in Nat /\ AccountSize(block) \in Nat
        /\ ctx[c].preReservedUsage \in Nat /\ left \in Nat /\ left <= PreReserveSize
    BY <2>0, CasLeaves
  <2>2. /\ currentUsage' = currentUsage + AccountSize(block)
        /\ currentUsage + AccountSize(block) <= MaxSize
        /\ ctx' = [ctx EXCEPT ![c].pc = "add", ![c].preReservedUsage = left]
    BY <1>c, <1>3 DEF CasUsage, StructContext
  <2>3. /\ ctx'[c].preReservedUsage = left /\ ~Pending(c)' /\ Pending(c)
        /\ \A d \in Context : d # c => ctx'[d] = ctx[d]
    BY <1>c, <2>0, <2>2 DEF StructContext, Pending
  <2>4. UNCHANGED <<freedSize, lostUsage>> /\ totalSize' = totalSize
    BY <1>3 DEF CasUsage
  <2>5. Accounted' = Accounted \union {block} /\ block \notin Accounted
    <3>1. totalSize[block] > 0 /\ \A d \in Context : d # c => ctx[d].block # block
      BY <2>1, HandAlone
    <3> QED
      BY <2>1, <2>3, <2>4, <3>1, AccountedAre DEF Pending
  <2>6. UsedBytes' = UsedBytes + totalSize[block]
    BY <1>0, <2>1, <2>4, <2>5, MoreUsed
  <2>7. Reserved' = Reserved - ctx[c].preReservedUsage + left
    BY <1>0, <2>1, <2>3, ReservedChange
  <2>8. currentUsage' = UsedBytes' + Reserved' + freedSize' + lostUsage'
    BY <1>a, <1>b, <2>1, <2>2, <2>4, <2>6, <2>7
  <2> QED
    BY <1>0, <1>b, <2>1, <2>2, <2>3, <2>4, <2>8 DEF UsageExact, WithinMaxSize
<1>4. ASSUME NEW c \in Context, CasUsage(c), ~(currentUsage' # currentUsage \/ ctx'[c].pc = "add")
      PROVE  UsageExact' /\ WithinMaxSize'
  <2>1. /\ ctx'[c].preReservedUsage = ctx[c].preReservedUsage /\ ctx'[c].block = ctx[c].block
        /\ Pending(c)' /\ Pending(c) /\ \A d \in Context : d # c => ctx'[d] = ctx[d]
    BY <1>c, <1>4 DEF CasUsage, StructContext, Pending
  <2>2. UNCHANGED <<freedSize, lostUsage>> /\ totalSize' = totalSize /\ currentUsage' = currentUsage
    BY <1>4 DEF CasUsage
  <2>3. \A b : b \in Accounted' <=> b \in Accounted
    BY <2>1, <2>2, AccountedAre DEF Pending
  <2> QED
    BY <1>d, <2>1, <2>2, <2>3
<1>5. ASSUME NEW c \in Context, FailAlloc(c)
      PROVE  UsageExact' /\ WithinMaxSize'
  <2>1. /\ ctx[c].block \in Block /\ Pending(c)
        /\ totalSize' = [totalSize EXCEPT ![ctx[c].block] = 0]
    BY <1>5, BlockInHand DEF FailAlloc, Allocating, Pending
  <2>2. /\ ctx'[c].preReservedUsage = ctx[c].preReservedUsage /\ ~Pending(c)'
        /\ \A d \in Context : d # c => ctx'[d] = ctx[d]
    BY <1>c, <1>5 DEF FailAlloc, StructContext, Pending
  <2>3. ASSUME NEW b PROVE b \in Accounted' <=> b \in Accounted
    <3>1. CASE b = ctx[c].block
      BY <1>c, <2>1, <3>1, AccountedAre
    <3>2. CASE b # ctx[c].block
      BY <1>c, <2>1, <2>2, <3>2, AccountedAre DEF Pending
    <3> QED
      BY <3>1, <3>2
  <2>4. \A b \in Accounted : totalSize'[b] = totalSize[b]
    BY <1>c, <2>1, AccountedAre
  <2> QED
    BY <1>5, <1>d, <2>2, <2>3, <2>4 DEF FailAlloc
<1>6. ASSUME NEW c \in Context,
             LoadUsage(c) \/ AddBlock(c) \/ RemoveContext(c) \/ LoadHead(c) \/ PushBlock(c)
      PROVE  UsageExact' /\ WithinMaxSize'
  <2>1. /\ ctx'[c].preReservedUsage = ctx[c].preReservedUsage
        /\ Pending(c)' <=> Pending(c)
        /\ Pending(c) => ctx'[c].block = ctx[c].block
        /\ \A d \in Context : d # c => ctx'[d] = ctx[d]
    BY <1>c, <1>6 DEF LoadUsage, AddBlock, RemoveContext, LoadHead, PushBlock,
                      StructContext, Pending
  <2>2. UNCHANGED <<currentUsage, totalSize, freedSize, lostUsage>>
    BY <1>6 DEF LoadUsage, AddBlock, RemoveContext, LoadHead, PushBlock
  <2>3. \A b : b \in Accounted' <=> b \in Accounted
    BY <2>1, <2>2, AccountedAre DEF Pending
  <2> QED
    BY <1>d, <2>1, <2>2, <2>3
<1>7. ASSUME NEW c \in Context, AddContext(c)
      PROVE  UsageExact' /\ WithinMaxSize'
  <2>1. /\ ctx'[c].preReservedUsage = ctx[c].preReservedUsage
        /\ ~Pending(c)' /\ ~Pending(c)
        /\ \A d \in Context : d # c => ctx'[d] = ctx[d]
    BY <1>c, <1>7 DEF AddContext, NewContext, StructContext, Pending, TrackerInv, LockInv
  <2>2. UNCHANGED <<currentUsage, totalSize, freedSize, lostUsage>>
    BY <1>7 DEF AddContext
  <2>3. \A b : b \in Accounted' <=> b \in Accounted
    BY <2>1, <2>2, AccountedAre DEF Pending
  <2> QED
    BY <1>d, <2>1, <2>2, <2>3
<1>8. ASSUME NEW c \in Context, FreeContext(c)
      PROVE  UsageExact' /\ WithinMaxSize'
  <2>1. /\ ctx'[c].preReservedUsage = 0
        /\ ~Pending(c)' /\ ~Pending(c)
        /\ \A d \in Context : d # c => ctx'[d] = ctx[d]
    BY <1>c, <1>8 DEF FreeContext, NoContext, NewContext, StructContext, Pending
  <2>2. /\ UNCHANGED <<currentUsage, totalSize, freedSize>>
        /\ lostUsage' = lostUsage + ctx[c].preReservedUsage
    BY <1>8 DEF FreeContext
  <2>3. \A b : b \in Accounted' <=> b \in Accounted
    BY <2>1, <2>2, AccountedAre DEF Pending
  <2>4. UsedBytes' = UsedBytes
    BY <2>2, <2>3, SameUsed
  <2>5. Reserved' = Reserved - ctx[c].preReservedUsage + 0
    BY <1>0, <2>1, ReservedChange
  <2>6. currentUsage' = UsedBytes' + Reserved' + freedSize' + lostUsage'
    BY <1>a, <1>b, <2>2, <2>4, <2>5
  <2> QED
    BY <1>0, <1>a, <1>b, <2>1, <2>2, <2>6 DEF UsageExact, WithinMaxSize
<1>9. CASE TakeSnapshot
  <2>1. \A d \in Context : /\ ctx'[d].preReservedUsage = ctx[d].preReservedUsage
                           /\ ctx'[d].pc = ctx[d].pc /\ ctx'[d].block = ctx[d].block
    BY <1>c, <1>9 DEF TakeSnapshot, StructContext
  <2>2. UNCHANGED <<currentUsage, totalSize, freedSize, lostUsage>>
    BY <1>9 DEF TakeSnapshot
  <2>3. \A b : b \in Accounted' <=> b \in Accounted
    BY <2>1, <2>2, AccountedAre DEF Pending
  <2> QED
    BY <1>d, <2>1, <2>2, <2>3
<1>10. CASE KeepBlock \/ PushKept
  <2>1. UNCHANGED <<currentUsage, totalSize, ctx, freedSize, lostUsage>>
    BY <1>10 DEF KeepBlock, PushKept
  <2>2. \A b : b \in Accounted' <=> b \in Accounted
    BY <2>1, AccountedAre DEF Pending
  <2> QED
    BY <1>d, <2>1, <2>2
<1>11. CASE FreeBlock
  <2>1. /\ unfiltered \in Block /\ totalSize' = [totalSize EXCEPT ![unfiltered] = 0]
        /\ freedSize' = freedSize + totalSize[unfiltered]
        /\ UNCHANGED <<currentUsage, ctx, lostUsage>>
    BY <1>0, <1>11 DEF FreeBlock, TypeOK, Ref
  <2>2. totalSize[unfiltered] > 0 /\ \A d \in Context : ctx[d].block # unfiltered
    BY <1>c, <2>1, SnapshotApart
  <2>3. unfiltered \in Accounted
    BY <2>1, <2>2, AccountedAre
  <2>4. Accounted' = Accounted \ {unfiltered}
    BY <1>c, <2>1, <2>2, AccountedAre DEF Pending
  <2>5. \A b \in Accounted' : totalSize'[b] = totalSize[b]
    BY <1>c, <2>1, <2>4, AccountedAre
  <2>6. UsedBytes = UsedBytes' + totalSize[unfiltered]
    BY <1>0, <2>3, <2>4, <2>5, LessUsed
  <2>7. Reserved' = Reserved
    BY <2>1, SameReserved
  <2>8. UsedBytes' \in Nat
    <3>1. \A b \in Accounted' : totalSize'[b] \in Nat
      BY <1>c, <2>5, <2>4, AccountedFinite
    <3>2. IsFiniteSet(Accounted')
      BY <2>4, AccountedFinite, FS_RemoveElement
    <3> QED
      BY <3>1, <3>2, SumType DEF UsedBytes
  <2>9. totalSize[unfiltered] \in Nat
    BY <1>c, <2>1
  <2>10. currentUsage' = UsedBytes' + Reserved' + freedSize' + lostUsage'
    BY <1>a, <1>b, <2>1, <2>6, <2>7, <2>8, <2>9
  <2> QED
    BY <1>0, <2>1, <2>10 DEF UsageExact, WithinMaxSize
<1>12. CASE EndFilter
  <2>1. /\ UNCHANGED <<totalSize, ctx, lostUsage>> /\ freedSize' = 0
        /\ currentUsage' = currentUsage - freedSize
    BY <1>12 DEF EndFilter
  <2>2. \A b : b \in Accounted' <=> b \in Accounted
    BY <2>1, AccountedAre DEF Pending
  <2>3. UsedBytes' = UsedBytes /\ Reserved' = Reserved
    BY <2>1, <2>2, SameUsed, SameReserved
  <2>4. /\ currentUsage' = UsedBytes' + Reserved' + freedSize' + lostUsage'
        /\ currentUsage' <= MaxSize
    BY <1>0, <1>a, <1>b, <2>1, <2>3 DEF WithinMaxSize
  <2> QED
    BY <1>b, <2>1, <2>4 DEF UsageExact, WithinMaxSize
<1> QED
  BY <1>1, <1>2, <1>3, <1>4, <1>5, <1>6, <1>7, <1>8, <1>9, <1>10, <1>11, <1>12
     DEF Next, ContextStep, AllocStep, FreeStep, FilterStep

-----------------------------------------------------------------------------
LEMMA TypeStep == TrackerInv /\ Next => TypeOK'
<1> SUFFICES ASSUME TrackerInv, Next PROVE TypeOK'
  OBVIOUS
<1>0. TypeOK /\ HandInv
  BY DEF TrackerInv
<1>a. /\ currentUsage \in Nat /\ head \in Ref /\ next \in [Block -> Ref]
      /\ totalSize \in [Block -> Nat] /\ contexts \in Seq(Context)
      /\ ctx \in [Context -> StructContext] /\ listOfContextLock \in Context \union {NULL}
      /\ gcPc \in {"idle", "filter", "push"} /\ unfiltered \in Ref /\ freedSize \in Nat
      /\ gcBlock \in Ref /\ gcOldHead \in Ref /\ lostUsage \in Nat
  BY <1>0 DEF TypeOK
<1>b. NULL \in Ref /\ Block \subseteq Ref
  BY DEF Ref
<1> DEFINE Thread == ctx' \in [Context -> StructContext]
           Tracker == /\ currentUsage' \in Nat /\ head' \in Ref /\ next' \in [Block -> Ref]
                      /\ totalSize' \in [Block -> Nat] /\ contexts' \in Seq(Context)
                      /\ listOfContextLock' \in Context \union {NULL} /\ lostUsage' \in Nat
           Gc == /\ gcPc' \in {"idle", "filter", "push"} /\ unfiltered' \in Ref
                 /\ freedSize' \in Nat /\ gcBlock' \in Ref /\ gcOldHead' \in Ref
<1>c. SUFFICES Thread /\ Tracker /\ Gc
  BY DEF TypeOK
<1> USE DEF listVars, lockVars, gcVars
<1>1. ASSUME NEW c \in Context, ContextStep(c) PROVE Gc
  BY <1>a, <1>1 DEF ContextStep, AllocStep, FreeStep, Malloc, FastDoSmallAccounting,
       LoadUsage, CasUsage, AddBlock, FailAlloc, AddContext, RemoveContext, LoadHead,
       PushBlock, FreeContext
<1>2. ASSUME NEW c \in Context, ContextStep(c) PROVE Thread /\ Tracker
  <2>0. /\ ctx[c] \in StructContext
        /\ ctx[c].pc \in Allocating \union {"push"} => ctx[c].block \in Block
    BY <1>a, BlockInHand
  <2>a. \A new \in StructContext : ctx' = [ctx EXCEPT ![c] = new] => Thread
    BY <1>a
  <2> USE DEF StructContext, Allocating
  <2>1. ASSUME NEW block \in Block, NEW size \in AllocSize, Malloc(c, block, size)
        PROVE  Thread /\ Tracker
    <3>1. size + HeaderSize \in Nat
      BY TrackerSizes
    <3>2. Tracker
      BY <1>a, <1>b, <2>1, <3>1 DEF Malloc
    <3>3. Thread
      BY <1>a, <1>b, <2>0, <2>1 DEF Malloc
    <3> QED
      BY <3>2, <3>3
  <2>2. CASE FastDoSmallAccounting(c)
    <3>1. /\ ctx[c].preReservedUsage \in Nat /\ totalSize[ctx[c].block] \in Nat
          /\ totalSize[ctx[c].block] <= ctx[c].preReservedUsage
      BY <1>a, <2>0, <2>2 DEF FastDoSmallAccounting, Fits
    <3>2. ctx[c].preReservedUsage - totalSize[ctx[c].block] \in Nat
      BY <3>1
    <3> QED
      BY <1>a, <2>0, <2>2, <3>2 DEF FastDoSmallAccounting
  <2>3. CASE LoadUsage(c)
    BY <1>a, <2>0, <2>3 DEF LoadUsage
  <2>4. CASE CasUsage(c)
    <3>1. /\ ctx[c].preReservedUsage + AccountSize(ctx[c].block) - totalSize[ctx[c].block] \in Nat
          /\ AccountSize(ctx[c].block) \in Nat
      BY <2>4, CasLeaves DEF CasUsage
    <3>2. Tracker
      BY <1>a, <2>4, <3>1, SMTT(60) DEF CasUsage
    <3>3. Thread
      <4>1. [ctx[c] EXCEPT !.pc = "fail"] \in StructContext
        BY <2>0
      <4>2. [ctx[c] EXCEPT !.oldSize = currentUsage] \in StructContext
        BY <1>a, <2>0
      <4>3. \A n \in Nat : [ctx[c] EXCEPT !.pc = "add", !.preReservedUsage = n] \in StructContext
        BY <2>0
      <4> HIDE DEF Thread, StructContext, Allocating
      <4> QED
        BY <2>4, <2>a, <3>1, <4>1, <4>2, <4>3, ZenonT(120) DEF CasUsage
    <3> QED
      BY <3>2, <3>3
  <2>5. CASE AddBlock(c)
    <3>1. ctx[c].block \in Block
      BY <2>0, <2>5 DEF AddBlock
    <3>2. Tracker
      BY <1>a, <1>b, <2>5, <3>1 DEF AddBlock
    <3>3. Thread
      BY <1>a, <1>b, <2>0, <2>5, <3>1, ZenonT(60) DEF AddBlock
    <3> QED
      BY <3>2, <3>3
  <2>6. CASE FailAlloc(c)
    BY <1>a, <1>b, <2>0, <2>6 DEF FailAlloc
  <2>7. CASE AddContext(c)
    <3>1. <<c>> \o contexts \in Seq(Context) /\ NewContext \in StructContext
      BY <1>a, <1>b DEF NewContext
    <3> QED
      BY <1>a, <2>7, <2>a, <3>1 DEF AddContext
  <2>8. CASE RemoveContext(c)
    <3>1. contexts' \in Seq(Context)
      BY <1>a, <2>8, TakenOut DEF RemoveContext
    <3>2. Thread
      BY <1>a, <2>0, <2>8 DEF RemoveContext
    <3> QED
      BY <1>a, <2>8, <3>1, <3>2 DEF RemoveContext
  <2>9. CASE LoadHead(c)
    <3>1. ctx[c].allocListHead \in Block /\ next[ctx[c].allocListHead] \in Ref
      BY <1>a, <2>0, <2>9 DEF LoadHead, Ref
    <3>2. Thread
      BY <1>a, <1>b, <2>0, <2>9, <3>1 DEF LoadHead
    <3> QED
      BY <1>a, <2>9, <3>2 DEF LoadHead
  <2>10. CASE PushBlock(c)
    <3>1. ctx[c].block \in Block /\ ctx[c].oldHead \in Ref
      BY <2>0, <2>10 DEF PushBlock
    <3>2. Tracker
      BY <1>a, <1>b, <2>10, <3>1 DEF PushBlock, CasHead
    <3>3. Thread
      <4>1. [ctx[c] EXCEPT !.pc = "free", !.block = NULL, !.oldHead = NULL] \in StructContext
        BY <1>b, <2>0
      <4>2. [ctx[c] EXCEPT !.oldHead = head] \in StructContext
        BY <1>a, <2>0
      <4> HIDE DEF Thread, StructContext, Allocating
      <4> QED
        BY <2>10, <2>a, <4>1, <4>2, ZenonT(120) DEF PushBlock
    <3> QED
      BY <3>2, <3>3
  <2>11. CASE FreeContext(c)
    <3>1. NoContext \in StructContext /\ ctx[c].preReservedUsage \in Nat
      BY <1>b, <2>0 DEF NoContext, NewContext
    <3> QED
      BY <1>a, <2>11, <2>a, <3>1, SMTT(60) DEF FreeContext
  <2> QED
    BY <1>2, <2>1, <2>2, <2>3, <2>4, <2>5, <2>6, <2>7, <2>8, <2>9, <2>10, <2>11
       DEF ContextStep, AllocStep, FreeStep
<1>3. CASE TakeSnapshot
  <2>1. \A i : HeadAfter(i) \in Ref
    <3> TAKE i
    <3>1. LaterFilled(i) # {} => Min(LaterFilled(i)) \in LaterFilled(i)
      <4> SUFFICES ASSUME LaterFilled(i) # {} PROVE Min(LaterFilled(i)) \in LaterFilled(i)
        OBVIOUS
      <4>1. LaterFilled(i) \in SUBSET (0 .. Len(contexts)) /\ Len(contexts) \in Nat
        BY <1>a DEF LaterFilled
      <4>2. \E m \in LaterFilled(i) : \A k \in LaterFilled(i) : m <= k
        BY <4>1, LeastNumber
      <4> QED
        BY <4>2 DEF Min
    <3>2. \A k \in LaterFilled(i) : ctx[contexts[k]].allocListHead \in Ref
      BY <1>a DEF LaterFilled, StructContext
    <3> QED
      BY <1>a, <3>1, <3>2 DEF HeadAfter
  <2>2. next' \in [Block -> Ref] /\ unfiltered' \in Ref /\ head' \in Ref
    BY <1>a, <1>b, <1>3, <2>1 DEF TakeSnapshot
  <2>3. Thread
    BY <1>a, <1>b, <1>3, ZenonT(60) DEF TakeSnapshot, StructContext
  <2> QED
    BY <1>a, <1>3, <2>2, <2>3 DEF TakeSnapshot
<1>4. CASE FilterStep
  <2>0. unfiltered # NULL => unfiltered \in Block /\ next[unfiltered] \in Ref
    BY <1>a DEF Ref
  <2>1. CASE KeepBlock
    BY <1>a, <2>0, <2>1 DEF KeepBlock
  <2>2. CASE PushKept
    <3>1. gcBlock \in Block
      BY <1>a, <1>0, <2>2 DEF PushKept, HandInv, Ref
    <3> QED
      BY <1>a, <1>b, <2>2, <3>1 DEF PushKept, CasHead
  <2>3. CASE FreeBlock
    <3>1. freedSize + totalSize[unfiltered] \in Nat /\ 0 \in Nat
      BY <1>a, <2>0, <2>3 DEF FreeBlock
    <3> QED
      BY <1>a, <2>0, <2>3, <3>1 DEF FreeBlock
  <2>4. CASE EndFilter
    <3>1. currentUsage - freedSize \in Nat
      <4>1. currentUsage = UsedBytes + Reserved + freedSize + lostUsage
        BY DEF TrackerInv, UsageExact
      <4> QED
        BY <1>0, <1>a, <4>1, UsageType
    <3> QED
      BY <1>a, <2>4, <3>1 DEF EndFilter
  <2> QED
    BY <1>4, <2>1, <2>2, <2>3, <2>4 DEF FilterStep
<1> QED
  BY <1>1, <1>2, <1>3, <1>4 DEF Next

-----------------------------------------------------------------------------
(* The lists in a step.  A set of blocks without a cycle has none after a  *)
(* block is put before or behind one of its lists.                         *)
NoCycle(nx, L) == \A S \in SUBSET L : S # {} => \E b \in S : nx[b] \notin S

Listed(where) == {b \in Block : where[b] \in Lists}

LEMMA NoCyclePush ==
    ASSUME NEW nx \in [Block -> Ref], NEW L \in SUBSET Block, NoCycle(nx, L),
           \A b \in L : nx[b] \in L \union {NULL},
           NEW block \in Block \ L, NEW start \in L \union {NULL},
           NEW mx, mx[block] = start, \A b \in Block \ {block} : mx[b] = nx[b]
    PROVE  NoCycle(mx, L \union {block})
<1>1. \A b \in L : mx[b] = nx[b]
  OBVIOUS
<1>2. SUFFICES ASSUME NEW S \in SUBSET (L \union {block}), S # {}
               PROVE  \E b \in S : mx[b] \notin S
  BY DEF NoCycle
<1>3. CASE S \subseteq L
  BY <1>1, <1>2, <1>3 DEF NoCycle
<1>4. CASE S = {block}
  BY <1>1, <1>4, TrackerNames
<1>5. CASE S \ {block} # {}
  <2>1. PICK b \in S \ {block} : nx[b] \notin S \ {block}
    BY <1>5 DEF NoCycle
  <2>2. b \in L /\ nx[b] # block
    BY TrackerNames
  <2> QED
    BY <1>1, <2>1, <2>2
<1> QED
  BY <1>2, <1>3, <1>4, <1>5

LEMMA NoCycleAppend ==
    ASSUME NEW nx \in [Block -> Ref], NEW L \in SUBSET Block, NoCycle(nx, L),
           \A b \in L : nx[b] \in L \union {NULL},
           NEW block \in Block \ L, nx[block] = NULL, NEW tail \in L,
           NEW mx, mx[tail] = block, \A b \in Block \ {tail} : mx[b] = nx[b]
    PROVE  NoCycle(mx, L \union {block})
<1>2. SUFFICES ASSUME NEW S \in SUBSET (L \union {block}), S # {}
               PROVE  \E b \in S : mx[b] \notin S
  BY DEF NoCycle
<1>3. CASE block \in S
  BY <1>3, TrackerNames
<1>4. CASE block \notin S
  <2>1. PICK b \in S : nx[b] \notin S
    BY <1>2, <1>4 DEF NoCycle
  <2> QED
    BY <1>4, <2>1
<1> QED
  BY <1>3, <1>4

LEMMA AcyclicIs ==
    ASSUME NEW where
    PROVE  /\ Acyclic(where) <=> NoCycle(next, Listed(where))
           /\ Acyclic(where)' <=> NoCycle(next', Listed(where))
  BY DEF Acyclic, NoCycle, Listed

LEMMA ListsNext ==
    /\ ListFrom(head)' = Chain(next', head')
    /\ ListFrom(unfiltered)' = Chain(next', unfiltered')
    /\ \A c : ListFrom(ctx[c].allocListHead)' = Chain(next', ctx'[c].allocListHead)
  BY DEF ListFrom, Closed, Chain

LEMMA OnlyAtNext ==
    ASSUME NEW b, NEW place
    PROVE  OnlyAt(b, place)' <=>
             /\ place = Free <=> totalSize'[b] = 0
             /\ place = Global <=> b \in Chain(next', head')
             /\ place = Snapshot <=> b \in Chain(next', unfiltered')
             /\ place = Filtered <=> b = gcBlock'
             /\ \A c \in Context :
                   /\ place = List(c) <=> b \in Chain(next', ctx'[c].allocListHead)
                   /\ place = Hand(c) <=> b = ctx'[c].block
  BY ListsNext DEF OnlyAt

LEMMA PlacedIs ==
    ASSUME NEW where, Placed(where), NEW b \in Block
    PROVE  /\ where[b] = Free <=> totalSize[b] = 0
           /\ where[b] = Global <=> b \in Chain(next, head)
           /\ where[b] = Snapshot <=> b \in Chain(next, unfiltered)
           /\ where[b] = Filtered <=> b = gcBlock
           /\ \A c \in Context : /\ where[b] = List(c) <=> b \in Chain(next, ctx[c].allocListHead)
                                 /\ where[b] = Hand(c) <=> b = ctx[c].block
  BY ListIsChain DEF Placed, OnlyAt

(* What follows a listed block is listed; a start that is not NULL is.     *)
LEMMA ListedClosed ==
    ASSUME TypeOK, NEW where \in [Block -> Places], Placed(where)
    PROVE  /\ \A b \in Listed(where) : next[b] \in Listed(where) \union {NULL}
           /\ head \in Listed(where) \union {NULL}
<1>0. /\ next \in [Block -> Ref] /\ head \in Ref
  BY DEF TypeOK
<1>a. \A b \in Block : where[b] \in Lists <=>
          \/ where[b] = Global \/ where[b] = Snapshot
          \/ \E c \in Context : where[b] = List(c)
  BY DEF Lists
<1>1. ASSUME NEW start, NEW b \in Chain(next, start),
             \A d \in Chain(next, start) : d \in Listed(where)
      PROVE  next[b] \in Listed(where) \union {NULL}
  BY <1>0, <1>1, ChainClosed
<1>2. /\ \A d \in Chain(next, head) : d \in Listed(where)
      /\ \A d \in Chain(next, unfiltered) : d \in Listed(where)
      /\ \A c \in Context : \A d \in Chain(next, ctx[c].allocListHead) : d \in Listed(where)
  BY <1>a, PlacedIs, ChainIsSet DEF Listed
<1>3. ASSUME NEW b \in Listed(where) PROVE next[b] \in Listed(where) \union {NULL}
  <2>1. \/ b \in Chain(next, head) \/ b \in Chain(next, unfiltered)
        \/ \E c \in Context : b \in Chain(next, ctx[c].allocListHead)
    BY <1>a, PlacedIs DEF Listed
  <2> QED
    BY <1>1, <1>2, <2>1
<1>4. head \in Listed(where) \union {NULL}
  BY <1>0, <1>2, ChainStart DEF Ref
<1> QED
  BY <1>3, <1>4

LEMMA TailIs ==
    /\ TailInv <=> \A c \in Context : ctx[c].pc \in Busy =>
          IF ctx[c].allocListHead = NULL THEN ctx[c].allocListTail = NULL
          ELSE /\ ctx[c].allocListTail \in Chain(next, ctx[c].allocListHead)
               /\ next[ctx[c].allocListTail] = NULL
    /\ TailInv' <=> \A c \in Context : ctx'[c].pc \in Busy =>
          IF ctx'[c].allocListHead = NULL THEN ctx'[c].allocListTail = NULL
          ELSE /\ ctx'[c].allocListTail \in Chain(next', ctx'[c].allocListHead)
               /\ next'[ctx'[c].allocListTail] = NULL
  BY ListsNext, ListIsChain DEF TailInv

(* Linking a block that is on no list leaves the lists as they are, and    *)
(* makes one of it and the global list if it is linked to that.            *)
LEMMA Link ==
    ASSUME TypeOK, NEW where \in [Block -> Places], Placed(where), Acyclic(where),
           NEW block \in Block, where[block] \notin Lists, NEW v \in Ref,
           next' = [next EXCEPT ![block] = v]
    PROVE  /\ Chain(next', head) = Chain(next, head)
           /\ Chain(next', unfiltered) = Chain(next, unfiltered)
           /\ \A c \in Context :
                 Chain(next', ctx[c].allocListHead) = Chain(next, ctx[c].allocListHead)
           /\ NoCycle(next', Listed(where))
           /\ v = head => /\ Chain(next', block) = Chain(next, head) \union {block}
                          /\ NoCycle(next', Listed(where) \union {block})
           /\ TailInv => \A c \in Context :
                 ctx[c].pc \in Busy /\ ctx[c].allocListHead # NULL
                    => next'[ctx[c].allocListTail] = NULL
<1>0. /\ next \in [Block -> Ref] /\ head \in Ref /\ unfiltered \in Ref
      /\ \A c \in Context : ctx[c].allocListHead \in Ref
  BY DEF TypeOK, StructContext
<1>1. /\ next' \in [Block -> Ref] /\ next'[block] = v
      /\ \A b \in Block \ {block} : next'[b] = next[b]
  BY <1>0
<1>2. ASSUME NEW start \in Ref, block \notin Chain(next, start)
      PROVE  Chain(next', start) = Chain(next, start)
  BY <1>0, <1>1, <1>2, ChainSame, ChainIsSet, ZenonT(120)
<1>3. /\ block \notin Chain(next, head) /\ block \notin Chain(next, unfiltered)
      /\ \A c \in Context : block \notin Chain(next, ctx[c].allocListHead)
  <2>1. where[block] # Global /\ where[block] # Snapshot /\ \A c \in Context : where[block] # List(c)
    BY DEF Lists
  <2> QED
    BY <2>1, PlacedIs
<1>4. Listed(where) \in SUBSET Block /\ block \notin Listed(where)
  BY DEF Listed
<1>5. NoCycle(next, Listed(where))
  BY AcyclicIs
<1>6. NoCycle(next', Listed(where))
  BY <1>1, <1>4, <1>5 DEF NoCycle
<1>7. ASSUME v = head
      PROVE  /\ Chain(next', block) = Chain(next, head) \union {block}
             /\ NoCycle(next', Listed(where) \union {block})
  <2>1. Chain(next', block) = Chain(next, head) \union {block}
    <3>1. next'[block] = head /\ block \notin Chain(next, head)
      BY <1>1, <1>3, <1>7
    <3>2. /\ next \in [Block -> Ref] /\ next' \in [Block -> Ref]
          /\ head \in Ref /\ block \in Block
          /\ \A b \in Block \ {block} : next'[b] = next[b]
      BY <1>0, <1>1
    <3>3. ASSUME NEW nx \in [Block -> Ref], NEW hd \in Ref, NEW mx \in [Block -> Ref],
                 block \notin Chain(nx, hd), mx[block] = hd,
                 \A b \in Block \ {block} : mx[b] = nx[b]
          PROVE  Chain(mx, block) = Chain(nx, hd) \union {block}
      BY <3>3, ChainPush
    <3> QED
      BY <3>1, <3>2, <3>3, ZenonT(60)
  <2>2. NoCycle(next', Listed(where) \union {block})
    <3> DEFINE L == Listed(where)
    <3>1. /\ L \in SUBSET Block /\ NoCycle(next, L) /\ block \in Block \ L
          /\ \A b \in L : next[b] \in L \union {NULL}
          /\ head \in L \union {NULL}
      BY <1>4, <1>5, ListedClosed
    <3> HIDE DEF L
    <3>2. next'[block] = head
      BY <1>1, <1>7
    <3>3. NoCycle(next', L \union {block})
      BY <1>0, <1>1, <3>1, <3>2, NoCyclePush
    <3> QED
      BY <3>3 DEF L
  <2> QED
    BY <2>1, <2>2
<1>8. ASSUME TailInv, NEW c \in Context, ctx[c].pc \in Busy, ctx[c].allocListHead # NULL
      PROVE  next'[ctx[c].allocListTail] = NULL
  <2>1. /\ ctx[c].allocListTail \in Chain(next, ctx[c].allocListHead)
        /\ next[ctx[c].allocListTail] = NULL
    BY <1>8, ListIsChain DEF TailInv
  <2>2. ctx[c].allocListTail \in Block /\ ctx[c].allocListTail # block
    BY <1>3, <2>1, ChainIsSet
  <2> QED
    BY <1>1, <2>1, <2>2
<1> QED
  BY <1>0, <1>2, <1>3, <1>6, <1>7, <1>8

(* A step that leaves the lists and the hands as they are, ...             *)
LEMMA PlacesStay ==
    ASSUME PlaceInv, UNCHANGED <<head, next, unfiltered, gcBlock, totalSize>>,
           \A d \in Context : /\ ctx'[d].allocListHead = ctx[d].allocListHead
                              /\ ctx'[d].block = ctx[d].block
    PROVE  PlaceInv'
<1>1. PICK where \in [Block -> Places] : Placed(where) /\ Acyclic(where)
  BY DEF PlaceInv
<1>2. Placed(where)'
  BY <1>1 DEF Placed, OnlyAt, ListFrom, Closed
<1>3. Acyclic(where)'
  BY <1>1 DEF Acyclic
<1> QED
  BY <1>2, <1>3 DEF PlaceInv

LEMMA Unmoved ==
    ASSUME NEW where, Placed(where), NEW b \in Block,
           totalSize'[b] = 0 <=> totalSize[b] = 0,
           b \in Chain(next', head') <=> b \in Chain(next, head),
           b \in Chain(next', unfiltered') <=> b \in Chain(next, unfiltered),
           b = gcBlock' <=> b = gcBlock,
           \A d \in Context :
              /\ b \in Chain(next', ctx'[d].allocListHead)
                    <=> b \in Chain(next, ctx[d].allocListHead)
              /\ b = ctx'[d].block <=> b = ctx[d].block
    PROVE  OnlyAt(b, where[b])'
<1>1. ASSUME NEW d \in Context
      PROVE  /\ where[b] = List(d) <=> b \in Chain(next', ctx'[d].allocListHead)
             /\ where[b] = Hand(d) <=> b = ctx'[d].block
  BY PlacedIs
<1>2. /\ where[b] = Free <=> totalSize'[b] = 0
      /\ where[b] = Global <=> b \in Chain(next', head')
      /\ where[b] = Snapshot <=> b \in Chain(next', unfiltered')
      /\ where[b] = Filtered <=> b = gcBlock'
  BY PlacedIs
<1> QED
  BY <1>1, <1>2, OnlyAtNext

(* ... and one that moves a block to another place.                        *)
LEMMA Moved ==
    ASSUME NEW where \in [Block -> Places], Placed(where), NEW block \in Block, NEW p \in Places,
           OnlyAt(block, p)',
           \A b \in Block \ {block} : OnlyAt(b, where[b])',
           NoCycle(next', IF p \in Lists THEN Listed(where) \union {block}
                          ELSE Listed(where) \ {block})
    PROVE  PlaceInv'
<1> DEFINE w == [where EXCEPT ![block] = p]
<1>1. w \in [Block -> Places] /\ w[block] = p /\ \A b \in Block \ {block} : w[b] = where[b]
  OBVIOUS
<1> HIDE DEF w
<1>2. Placed(w)'
  BY <1>1 DEF Placed
<1>3. Listed(w) = IF p \in Lists THEN Listed(where) \union {block} ELSE Listed(where) \ {block}
  BY <1>1 DEF Listed
<1>4. Acyclic(w)'
  BY <1>3, AcyclicIs
<1> QED
  BY <1>1, <1>2, <1>4 DEF PlaceInv

LEMMA PlaceNames ==
    /\ Free \in Places /\ Filtered \in Places /\ Global \in Places /\ Snapshot \in Places
    /\ Global \in Lists /\ Snapshot \in Lists /\ Free \notin Lists /\ Filtered \notin Lists
    /\ \A c \in Context : /\ List(c) \in Places /\ Hand(c) \in Places
                          /\ List(c) \in Lists /\ Hand(c) \notin Lists
  BY PlacesDiffer DEF Places, Lists

LEMMA PlaceMalloc ==
    ASSUME TrackerInv, NEW c \in Context, NEW block \in Block, NEW size \in AllocSize,
           Malloc(c, block, size)
    PROVE  PlaceInv' /\ TailInv'
<1>0. TypeOK /\ TailInv
  BY DEF TrackerInv
<1>1. PICK where \in [Block -> Places] : Placed(where) /\ Acyclic(where)
  BY DEF TrackerInv, PlaceInv
<1>2. /\ totalSize[block] = 0 /\ totalSize'[block] # 0
      /\ \A b \in Block \ {block} : totalSize'[b] = totalSize[b]
      /\ next' = [next EXCEPT ![block] = NULL]
      /\ UNCHANGED <<head, unfiltered, gcBlock>>
  BY <1>0, TrackerSizes DEF Malloc, TypeOK, listVars, gcVars
<1>3. /\ ctx[c].block = NULL /\ ctx'[c].block = block
      /\ \A d \in Context : /\ d # c => ctx'[d] = ctx[d]
                            /\ ctx'[d].allocListHead = ctx[d].allocListHead
                            /\ ctx'[d].allocListTail = ctx[d].allocListTail
                            /\ ctx'[d].pc \in Busy => ctx[d].pc \in Busy
  BY <1>0, ZenonT(60) DEF Malloc, TypeOK, StructContext, Busy, TrackerInv, HandInv, Allocating
<1>4. where[block] = Free
  BY <1>1, <1>2, PlacedIs
<1>5. where[block] \notin Lists /\ NULL \in Ref
  BY <1>4, PlaceNames DEF Ref
<1>6. /\ Chain(next', head) = Chain(next, head)
      /\ Chain(next', unfiltered) = Chain(next, unfiltered)
      /\ \A d \in Context : Chain(next', ctx[d].allocListHead) = Chain(next, ctx[d].allocListHead)
      /\ NoCycle(next', Listed(where))
      /\ \A d \in Context : ctx[d].pc \in Busy /\ ctx[d].allocListHead # NULL
                               => next'[ctx[d].allocListTail] = NULL
  BY <1>0, <1>1, <1>2, <1>5, Link
<1>7. OnlyAt(block, Hand(c))'
  <2>1. /\ block \notin Chain(next, head) \union Chain(next, unfiltered) /\ block # gcBlock
        /\ \A d \in Context : block \notin Chain(next, ctx[d].allocListHead) /\ ctx[d].block # block
    BY <1>1, <1>4, PlacedIs, PlacesDiffer
  <2>2. ASSUME NEW d \in Context
        PROVE  /\ Hand(c) = List(d) <=> block \in Chain(next', ctx'[d].allocListHead)
               /\ Hand(c) = Hand(d) <=> block = ctx'[d].block
    BY <1>3, <1>6, <2>1, PlacesDiffer
  <2>3. /\ Hand(c) = Free <=> totalSize'[block] = 0
        /\ Hand(c) = Global <=> block \in Chain(next', head')
        /\ Hand(c) = Snapshot <=> block \in Chain(next', unfiltered')
        /\ Hand(c) = Filtered <=> block = gcBlock'
    BY <1>2, <1>6, <2>1, PlacesDiffer
  <2> QED
    BY <2>2, <2>3, OnlyAtNext
<1>8. ASSUME NEW b \in Block \ {block} PROVE OnlyAt(b, where[b])'
  <2>1. \A d \in Context : b = ctx'[d].block <=> b = ctx[d].block
    BY <1>3, TrackerNames
  <2> QED
    <3>1. \A d \in Context :
              /\ b \in Chain(next', ctx'[d].allocListHead)
                    <=> b \in Chain(next, ctx[d].allocListHead)
              /\ b = ctx'[d].block <=> b = ctx[d].block
      BY <1>3, <1>6, <2>1
    <3>2. /\ totalSize'[b] = 0 <=> totalSize[b] = 0
          /\ b \in Chain(next', head') <=> b \in Chain(next, head)
          /\ b \in Chain(next', unfiltered') <=> b \in Chain(next, unfiltered)
          /\ b = gcBlock' <=> b = gcBlock
      BY <1>2, <1>6
    <3> QED
      BY <1>1, <3>1, <3>2, Unmoved
<1>9. Listed(where) \ {block} = Listed(where)
  BY <1>5 DEF Listed
<1>10. PlaceInv'
  BY <1>1, <1>6, <1>7, <1>8, <1>9, PlaceNames, Moved
<1>11. TailInv'
  BY <1>0, <1>3, <1>6, TailIs
<1> QED
  BY <1>10, <1>11

LEMMA PlaceFail ==
    ASSUME TrackerInv, NEW c \in Context, FailAlloc(c)
    PROVE  PlaceInv' /\ TailInv'
<1>0. TypeOK /\ TailInv
  BY DEF TrackerInv
<1>1. PICK where \in [Block -> Places] : Placed(where) /\ Acyclic(where)
  BY DEF TrackerInv, PlaceInv
<1>2. PICK block \in Block : block = ctx[c].block
  BY BlockInHand DEF FailAlloc, Allocating
<1>3. /\ totalSize'[block] = 0 /\ \A b \in Block \ {block} : totalSize'[b] = totalSize[b]
      /\ UNCHANGED <<head, next, unfiltered, gcBlock>>
  BY <1>0, <1>2 DEF FailAlloc, TypeOK, listVars, gcVars
<1>4. /\ ctx'[c].block = NULL
      /\ \A d \in Context : /\ d # c => ctx'[d] = ctx[d]
                            /\ ctx'[d].allocListHead = ctx[d].allocListHead
                            /\ ctx'[d].allocListTail = ctx[d].allocListTail
                            /\ ctx'[d].pc \in Busy => ctx[d].pc \in Busy
  BY <1>0, SMTT(60) DEF FailAlloc, TypeOK, StructContext, Busy, Allocating
<1>5. where[block] = Hand(c)
  BY <1>1, <1>2, PlacedIs
<1>6. NoCycle(next', Listed(where) \ {block})
  BY <1>1, <1>3, AcyclicIs DEF NoCycle
<1>7. OnlyAt(block, Free)'
  BY <1>1, <1>3, <1>4, <1>5, PlacedIs, OnlyAtNext, PlacesDiffer, TrackerNames
<1>8. ASSUME NEW b \in Block \ {block} PROVE OnlyAt(b, where[b])'
  BY <1>1, <1>2, <1>3, <1>4, PlacedIs, OnlyAtNext, TrackerNames
<1>9. PlaceInv'
  BY <1>1, <1>6, <1>7, <1>8, PlaceNames, Moved
<1>10. TailInv'
  BY <1>0, <1>3, <1>4, TailIs
<1> QED
  BY <1>9, <1>10

LEMMA PlaceAdd ==
    ASSUME TrackerInv, NEW c \in Context, AddBlock(c)
    PROVE  PlaceInv' /\ TailInv'
<1>0. /\ TypeOK /\ TailInv /\ next \in [Block -> Ref] /\ ctx \in [Context -> StructContext]
      /\ head \in Ref /\ unfiltered \in Ref /\ NULL \in Ref
      /\ \A d \in Context : ctx[d].allocListHead \in Ref
  BY DEF TrackerInv, TypeOK, Ref, StructContext
<1>1. PICK where \in [Block -> Places] : Placed(where) /\ Acyclic(where)
  BY DEF TrackerInv, PlaceInv
<1>2. PICK block \in Block : block = ctx[c].block
  BY BlockInHand DEF AddBlock, Allocating
<1> DEFINE first == ctx[c].allocListHead
           tail == ctx[c].allocListTail
<1>3. where[block] = Hand(c) /\ next[block] = NULL
  <2>1. next[block] = NULL
    BY <1>2 DEF TrackerInv, HandInv, AddBlock, Allocating
  <2> QED
    BY <1>1, <1>2, <2>1, PlacedIs
<1>4. /\ UNCHANGED <<head, unfiltered, gcBlock, totalSize>>
      /\ next' = IF tail = NULL THEN next ELSE [next EXCEPT ![tail] = block]
  BY <1>2 DEF AddBlock, gcVars
<1>5. /\ ctx'[c].block = NULL
      /\ ctx'[c].allocListHead = IF first = NULL THEN block ELSE first
      /\ ctx'[c].allocListTail = block
      /\ \A d \in Context : d # c => ctx'[d] = ctx[d]
  BY <1>0, <1>2, SMTT(60) DEF AddBlock, StructContext
<1>6. IF first = NULL THEN tail = NULL ELSE tail \in Chain(next, first) /\ next[tail] = NULL
  BY <1>0, TailIs DEF AddBlock, Busy, Allocating
<1>7. /\ block \notin Chain(next, first) /\ block \notin Listed(where)
      /\ block # gcBlock /\ totalSize[block] # 0
      /\ block \notin Chain(next, head) /\ block \notin Chain(next, unfiltered)
      /\ \A d \in Context : block \notin Chain(next, ctx[d].allocListHead)
      /\ \A d \in Context : d # c => ctx[d].block # block
  <2>1. block \notin Listed(where)
    BY <1>3, PlaceNames DEF Listed
  <2> QED
    BY <1>1, <1>3, <2>1, PlacedIs, PlacesDiffer
<1>8. /\ Listed(where) \in SUBSET Block /\ NoCycle(next, Listed(where))
      /\ \A b \in Listed(where) : next[b] \in Listed(where) \union {NULL}
  <2>1. Listed(where) \in SUBSET Block
    BY DEF Listed
  <2> QED
    BY <1>0, <1>1, <2>1, AcyclicIs, ListedClosed
<1> DEFINE Put == /\ Chain(next', ctx'[c].allocListHead) = Chain(next, first) \union {block}
                  /\ Chain(next', head) = Chain(next, head)
                  /\ Chain(next', unfiltered) = Chain(next, unfiltered)
                  /\ \A d \in Context : d # c =>
                        /\ Chain(next', ctx[d].allocListHead) = Chain(next, ctx[d].allocListHead)
                        /\ ctx[d].pc \in Busy /\ ctx[d].allocListHead # NULL
                             => next'[ctx[d].allocListTail] = NULL
                  /\ next'[block] = NULL
                  /\ NoCycle(next', Listed(where) \union {block})
<1>9. ASSUME tail = NULL PROVE Put
  <2>1. first = NULL
    BY <1>6, <1>9, ChainIsSet, TrackerNames
  <2>2. next' = next /\ ctx'[c].allocListHead = block
    BY <1>4, <1>5, <1>9, <2>1
  <2>3. Chain(next, NULL) = {} /\ block \notin Chain(next, NULL)
    BY ChainNull
  <2>4. Chain(next, block) = Chain(next, NULL) \union {block}
    BY <1>0, <1>3, <2>3, ChainPush
  <2>5. NoCycle(next, Listed(where) \union {block})
    <3> DEFINE L == Listed(where)
    <3>1. L \in SUBSET Block /\ NoCycle(next, L) /\ block \in Block \ L
          /\ \A b \in L : next[b] \in L \union {NULL}
      BY <1>7, <1>8
    <3> HIDE DEF L
    <3>2. NULL \in L \union {NULL}
      OBVIOUS
    <3>3. NoCycle(next, L \union {block})
      BY <1>0, <1>3, <3>1, <3>2, NoCyclePush
    <3> QED
      BY <3>3 DEF L
  <2>6. \A d \in Context : ctx[d].pc \in Busy /\ ctx[d].allocListHead # NULL
                              => next[ctx[d].allocListTail] = NULL
    BY <1>0, TailIs
  <2> QED
    BY <1>3, <2>1, <2>2, <2>3, <2>4, <2>5, <2>6
<1>10. ASSUME tail # NULL PROVE Put
  <2>1. first # NULL /\ tail \in Chain(next, first) /\ next[tail] = NULL /\ tail \in Block
    BY <1>6, <1>10, ChainIsSet
  <2>2. /\ next' \in [Block -> Ref] /\ next'[tail] = block
        /\ \A b \in Block \ {tail} : next'[b] = next[b]
    <3>1. block \in Ref
      BY DEF Ref
    <3> QED
      BY <1>0, <1>4, <1>10, <2>1, <3>1
  <2>3. Chain(next', first) = Chain(next, first) \union {block}
    BY <1>0, <1>3, <1>7, <2>1, <2>2, ChainAppend, SMTT(60)
  <2>4. where[tail] = List(c)
    BY <1>1, <2>1, PlacedIs
  <2>5. /\ tail \notin Chain(next, head) /\ tail \notin Chain(next, unfiltered)
        /\ \A d \in Context : d # c => tail \notin Chain(next, ctx[d].allocListHead)
    BY <1>1, <2>1, <2>4, PlacedIs, PlacesDiffer
  <2>6. ASSUME NEW start \in Ref, tail \notin Chain(next, start)
        PROVE  Chain(next', start) = Chain(next, start)
    <3>1. \A b \in Chain(next, start) : next'[b] = next[b]
      BY <2>2, <2>6, ChainIsSet
    <3> QED
      BY <1>0, <2>2, <3>1, ChainSame
  <2>7. ASSUME NEW d \in Context, d # c
        PROVE  /\ Chain(next', ctx[d].allocListHead) = Chain(next, ctx[d].allocListHead)
               /\ ctx[d].pc \in Busy /\ ctx[d].allocListHead # NULL
                    => next'[ctx[d].allocListTail] = NULL
    <3>1. ctx[d].pc \in Busy /\ ctx[d].allocListHead # NULL =>
            /\ ctx[d].allocListTail \in Chain(next, ctx[d].allocListHead)
            /\ next[ctx[d].allocListTail] = NULL
      BY <1>0, TailIs
    <3>2. ctx[d].allocListTail \in Chain(next, ctx[d].allocListHead) =>
             ctx[d].allocListTail \in Block \ {tail}
      BY <2>5, <2>7, ChainIsSet
    <3> QED
      BY <1>0, <2>2, <2>5, <2>6, <2>7, <3>1, <3>2
  <2>8. tail \in Listed(where)
    BY <2>1, <2>4, PlaceNames DEF Listed
  <2>9. NoCycle(next', Listed(where) \union {block})
    <3> DEFINE L == Listed(where)
    <3>1. L \in SUBSET Block /\ NoCycle(next, L) /\ block \in Block \ L /\ tail \in L
          /\ \A b \in L : next[b] \in L \union {NULL}
      BY <1>7, <1>8, <2>8
    <3> HIDE DEF L
    <3>2. NoCycle(next', L \union {block})
      BY <1>0, <1>3, <2>2, <3>1, NoCycleAppend
    <3> QED
      BY <3>2 DEF L
  <2>10. next'[block] = NULL
    BY <1>3, <1>7, <2>1, <2>2
  <2>11. ctx'[c].allocListHead = first
    BY <1>5, <2>1
  <2> QED
    BY <1>0, <2>3, <2>5, <2>6, <2>7, <2>9, <2>10, <2>11
<1>11. Put
  BY <1>9, <1>10
<1> HIDE DEF Put, first, tail
<1>12. OnlyAt(block, List(c))'
  <2>1. ASSUME NEW d \in Context
        PROVE  /\ List(c) = List(d) <=> block \in Chain(next', ctx'[d].allocListHead)
               /\ List(c) = Hand(d) <=> block = ctx'[d].block
    BY <1>5, <1>7, <1>11, PlacesDiffer, TrackerNames DEF Put
  <2>2. /\ List(c) = Free <=> totalSize'[block] = 0
        /\ List(c) = Global <=> block \in Chain(next', head')
        /\ List(c) = Snapshot <=> block \in Chain(next', unfiltered')
        /\ List(c) = Filtered <=> block = gcBlock'
    BY <1>4, <1>7, <1>11, PlacesDiffer DEF Put
  <2> QED
    BY <2>1, <2>2, OnlyAtNext
<1>13. ASSUME NEW b \in Block \ {block} PROVE OnlyAt(b, where[b])'
  <2>1. ASSUME NEW d \in Context
        PROVE  /\ b \in Chain(next', ctx'[d].allocListHead)
                    <=> b \in Chain(next, ctx[d].allocListHead)
               /\ b = ctx'[d].block <=> b = ctx[d].block
    BY <1>2, <1>5, <1>11, TrackerNames DEF Put, first
  <2>2. /\ totalSize'[b] = 0 <=> totalSize[b] = 0
        /\ b \in Chain(next', head') <=> b \in Chain(next, head)
        /\ b \in Chain(next', unfiltered') <=> b \in Chain(next, unfiltered)
        /\ b = gcBlock' <=> b = gcBlock
    BY <1>4, <1>11 DEF Put
  <2> QED
    BY <1>1, <2>1, <2>2, Unmoved
<1>14. PlaceInv'
  <2>1. List(c) \in Places /\ List(c) \in Lists
    BY PlaceNames
  <2> QED
    BY <1>1, <1>11, <1>12, <1>13, <2>1, Moved DEF Put
<1>15. TailInv'
  <2>1. ASSUME NEW d \in Context, d # c, ctx'[d].pc \in Busy
        PROVE  IF ctx'[d].allocListHead = NULL THEN ctx'[d].allocListTail = NULL
               ELSE /\ ctx'[d].allocListTail \in Chain(next', ctx'[d].allocListHead)
                    /\ next'[ctx'[d].allocListTail] = NULL
    BY <1>0, <1>5, <1>11, <2>1, TailIs DEF Put
  <2>2. /\ ctx'[c].allocListHead # NULL
        /\ ctx'[c].allocListTail \in Chain(next', ctx'[c].allocListHead)
        /\ next'[ctx'[c].allocListTail] = NULL
    BY <1>5, <1>11, TrackerNames DEF Put
  <2> QED
    BY <2>1, <2>2, TailIs
<1> QED
  BY <1>14, <1>15

(* Taking the first block of a list leaves the rest of it. *)
LEMMA Rest ==
    ASSUME TypeOK, NEW where, Acyclic(where), NEW start \in Block,
           Chain(next, start) \subseteq Listed(where)
    PROVE  Chain(next, next[start]) = Chain(next, start) \ {start}
<1>1. NoCycle(next, Listed(where)) /\ next \in [Block -> Ref]
  BY AcyclicIs DEF TypeOK
<1>2. \A S \in SUBSET Chain(next, start) : S # {} => \E b \in S : next[b] \notin S
  BY <1>1 DEF NoCycle
<1> QED
  BY <1>1, <1>2, ChainRest

LEMMA PlaceLoadHead ==
    ASSUME TrackerInv, NEW c \in Context, LoadHead(c)
    PROVE  PlaceInv' /\ TailInv'
<1>0. TypeOK /\ TailInv /\ ctx \in [Context -> StructContext]
  BY DEF TrackerInv, TypeOK
<1>1. PICK where \in [Block -> Places] : Placed(where) /\ Acyclic(where)
  BY DEF TrackerInv, PlaceInv
<1>2. PICK block \in Block : block = ctx[c].allocListHead
  BY <1>0 DEF LoadHead, StructContext, Ref
<1>3. where[block] = List(c) /\ block \in Chain(next, block)
  BY <1>1, <1>2, ChainStart, PlacedIs
<1>4. /\ UNCHANGED <<head, next, unfiltered, gcBlock, totalSize>>
      /\ ctx'[c].block = block /\ ctx[c].block = NULL
      /\ ctx'[c].allocListHead = next[block] /\ ctx'[c].pc = "push"
      /\ \A d \in Context : d # c => ctx'[d] = ctx[d]
  BY <1>0, <1>2 DEF LoadHead, StructContext, listVars, gcVars, TrackerInv, HandInv, Allocating
<1>5. Chain(next, block) \subseteq Listed(where)
  BY <1>1, <1>2, ChainIsSet, PlacedIs, PlaceNames DEF Listed
<1>6. Chain(next, next[block]) = Chain(next, block) \ {block}
  BY <1>0, <1>1, <1>5, Rest
<1>7. NoCycle(next', Listed(where) \ {block})
  BY <1>1, <1>4, AcyclicIs DEF NoCycle
<1>8. OnlyAt(block, Hand(c))'
  <2>1. ASSUME NEW d \in Context
        PROVE  /\ Hand(c) = List(d) <=> block \in Chain(next', ctx'[d].allocListHead)
               /\ Hand(c) = Hand(d) <=> block = ctx'[d].block
    <3>1. d # c => block \notin Chain(next, ctx[d].allocListHead) /\ ctx[d].block # block
      BY <1>1, <1>3, PlacedIs, PlacesDiffer
    <3> QED
      BY <1>4, <1>6, <3>1, PlacesDiffer
  <2>2. /\ Hand(c) = Free <=> totalSize'[block] = 0
        /\ Hand(c) = Global <=> block \in Chain(next', head')
        /\ Hand(c) = Snapshot <=> block \in Chain(next', unfiltered')
        /\ Hand(c) = Filtered <=> block = gcBlock'
    BY <1>1, <1>3, <1>4, PlacedIs, PlacesDiffer
  <2> QED
    BY <2>1, <2>2, OnlyAtNext
<1>9. ASSUME NEW b \in Block \ {block} PROVE OnlyAt(b, where[b])'
  <2>1. ASSUME NEW d \in Context
        PROVE  /\ b \in Chain(next', ctx'[d].allocListHead)
                    <=> b \in Chain(next, ctx[d].allocListHead)
               /\ b = ctx'[d].block <=> b = ctx[d].block
    BY <1>2, <1>4, <1>6, TrackerNames
  <2> QED
    BY <1>1, <1>4, <2>1, Unmoved
<1>10. PlaceInv'
  BY <1>1, <1>7, <1>8, <1>9, PlaceNames, Moved
<1>11. TailInv'
  BY <1>0, <1>4, TailIs DEF Busy, Allocating
<1> QED
  BY <1>10, <1>11

LEMMA PlacePush ==
    ASSUME TrackerInv, NEW c \in Context, PushBlock(c)
    PROVE  PlaceInv' /\ TailInv'
<1>0. /\ TypeOK /\ TailInv /\ ctx \in [Context -> StructContext] /\ ctx[c].oldHead \in Ref
  BY DEF TrackerInv, TypeOK, StructContext
<1>1. PICK where \in [Block -> Places] : Placed(where) /\ Acyclic(where)
  BY DEF TrackerInv, PlaceInv
<1>2. PICK block \in Block : block = ctx[c].block
  BY BlockInHand DEF PushBlock
<1>3. where[block] = Hand(c) /\ where[block] \notin Lists
  BY <1>1, <1>2, PlacedIs, PlaceNames
<1>4. /\ UNCHANGED <<unfiltered, gcBlock, totalSize>>
      /\ next' = [next EXCEPT ![block] = ctx[c].oldHead]
      /\ head' = IF head = ctx[c].oldHead THEN block ELSE head
  BY <1>2 DEF PushBlock, CasHead, gcVars
<1>5. /\ ctx'[c].block = IF head = ctx[c].oldHead THEN NULL ELSE block
      /\ ctx'[c].allocListHead = ctx[c].allocListHead
      /\ ctx'[c].pc \notin Busy
      /\ \A d \in Context : d # c => ctx'[d] = ctx[d]
  BY <1>0, <1>2 DEF PushBlock, StructContext, Busy, Allocating
<1>6. PICK v \in Ref : v = ctx[c].oldHead
  BY <1>0
<1>7. /\ Chain(next', head) = Chain(next, head)
      /\ Chain(next', unfiltered) = Chain(next, unfiltered)
      /\ \A d \in Context : Chain(next', ctx[d].allocListHead) = Chain(next, ctx[d].allocListHead)
      /\ NoCycle(next', Listed(where))
      /\ v = head => /\ Chain(next', block) = Chain(next, head) \union {block}
                     /\ NoCycle(next', Listed(where) \union {block})
      /\ \A d \in Context : ctx[d].pc \in Busy /\ ctx[d].allocListHead # NULL
                               => next'[ctx[d].allocListTail] = NULL
  <2>1. next' = [next EXCEPT ![block] = v]
    BY <1>4, <1>6
  <2> QED
    BY <1>0, <1>1, <1>3, <2>1, Link
<1>8. /\ block # gcBlock /\ totalSize[block] # 0
      /\ block \notin Chain(next, head) /\ block \notin Chain(next, unfiltered)
      /\ \A d \in Context : block \notin Chain(next, ctx[d].allocListHead)
      /\ \A d \in Context : d # c => ctx[d].block # block
  BY <1>1, <1>3, PlacedIs, PlacesDiffer
<1>9. ASSUME NEW b \in Block \ {block} PROVE OnlyAt(b, where[b])'
  <2>1. ASSUME NEW d \in Context
        PROVE  /\ b \in Chain(next', ctx'[d].allocListHead)
                    <=> b \in Chain(next, ctx[d].allocListHead)
               /\ b = ctx'[d].block <=> b = ctx[d].block
    BY <1>2, <1>5, <1>7, TrackerNames
  <2>2. b \in Chain(next', head') <=> b \in Chain(next, head)
    BY <1>4, <1>6, <1>7
  <2> QED
    BY <1>1, <1>4, <1>7, <2>1, <2>2, Unmoved
<1>10. ASSUME v = head PROVE PlaceInv'
  <2>1. head' = block /\ ctx'[c].block = NULL
    BY <1>4, <1>5, <1>6, <1>10
  <2>2. OnlyAt(block, Global)'
    <3>1. ASSUME NEW d \in Context
          PROVE  /\ Global = List(d) <=> block \in Chain(next', ctx'[d].allocListHead)
                 /\ Global = Hand(d) <=> block = ctx'[d].block
      BY <1>5, <1>7, <1>8, <2>1, PlacesDiffer, TrackerNames
    <3>2. /\ Global = Free <=> totalSize'[block] = 0
          /\ Global = Global <=> block \in Chain(next', head')
          /\ Global = Snapshot <=> block \in Chain(next', unfiltered')
          /\ Global = Filtered <=> block = gcBlock'
      BY <1>4, <1>7, <1>8, <1>10, <2>1, PlacesDiffer
    <3> QED
      BY <3>1, <3>2, OnlyAtNext
  <2> QED
    BY <1>1, <1>7, <1>9, <1>10, <2>2, PlaceNames, Moved
<1>11. ASSUME v # head PROVE PlaceInv'
  <2>1. head' = head /\ ctx'[c].block = block
    BY <1>4, <1>5, <1>6, <1>11
  <2>2. OnlyAt(block, Hand(c))'
    <3>1. ASSUME NEW d \in Context
          PROVE  /\ Hand(c) = List(d) <=> block \in Chain(next', ctx'[d].allocListHead)
                 /\ Hand(c) = Hand(d) <=> block = ctx'[d].block
      BY <1>5, <1>7, <1>8, <2>1, PlacesDiffer
    <3>2. /\ Hand(c) = Free <=> totalSize'[block] = 0
          /\ Hand(c) = Global <=> block \in Chain(next', head')
          /\ Hand(c) = Snapshot <=> block \in Chain(next', unfiltered')
          /\ Hand(c) = Filtered <=> block = gcBlock'
      BY <1>4, <1>7, <1>8, <2>1, PlacesDiffer
    <3> QED
      BY <3>1, <3>2, OnlyAtNext
  <2>3. NoCycle(next', Listed(where) \ {block})
    BY <1>7 DEF NoCycle
  <2> QED
    BY <1>1, <1>9, <2>2, <2>3, PlaceNames, Moved
<1>12. TailInv'
  BY <1>0, <1>5, <1>7, TailIs
<1> QED
  BY <1>10, <1>11, <1>12

(* The filter takes the snapshot's first block, to keep it or to free it.  *)
LEMMA PlaceTaken ==
    ASSUME TrackerInv, KeepBlock \/ FreeBlock
    PROVE  PlaceInv' /\ TailInv'
<1>0. TypeOK /\ TailInv
  BY DEF TrackerInv
<1>1. PICK where \in [Block -> Places] : Placed(where) /\ Acyclic(where)
  BY DEF TrackerInv, PlaceInv
<1>2. PICK block \in Block : block = unfiltered
  BY <1>0 DEF KeepBlock, FreeBlock, TypeOK, Ref
<1>3. where[block] = Snapshot /\ block \in Chain(next, block)
  BY <1>1, <1>2, ChainStart, PlacedIs
<1>4. /\ UNCHANGED <<head, next, ctx>> /\ gcBlock = NULL /\ unfiltered' = next[block]
      /\ \/ KeepBlock /\ gcBlock' = block /\ totalSize' = totalSize
         \/ FreeBlock /\ gcBlock' = NULL /\ totalSize' = [totalSize EXCEPT ![block] = 0]
  BY <1>2 DEF KeepBlock, FreeBlock, listVars, TrackerInv, HandInv
<1>5. Chain(next, block) \subseteq Listed(where)
  BY <1>1, <1>2, ChainIsSet, PlacedIs, PlaceNames DEF Listed
<1>6. Chain(next, next[block]) = Chain(next, block) \ {block}
  BY <1>0, <1>1, <1>5, Rest
<1>7. NoCycle(next', Listed(where) \ {block})
  BY <1>1, <1>4, AcyclicIs DEF NoCycle
<1>8. /\ totalSize[block] # 0 /\ block \notin Chain(next, head)
      /\ block \notin Chain(next', unfiltered')
      /\ \A d \in Context : /\ block \notin Chain(next', ctx'[d].allocListHead)
                            /\ ctx'[d].block # block
  BY <1>1, <1>3, <1>4, <1>6, PlacedIs, PlacesDiffer
<1>9. ASSUME NEW b \in Block \ {block} PROVE OnlyAt(b, where[b])'
  <2>1. totalSize'[b] = totalSize[b]
    BY <1>0, <1>4 DEF TypeOK
  <2>2. /\ b = gcBlock' <=> b = gcBlock
        /\ b \in Chain(next', unfiltered') <=> b \in Chain(next, unfiltered)
    BY <1>2, <1>4, <1>6, TrackerNames
  <2> QED
    BY <1>1, <1>4, <2>1, <2>2, Unmoved
<1>10. ASSUME KeepBlock, gcBlock' = block, totalSize' = totalSize PROVE PlaceInv'
  <2>1. OnlyAt(block, Filtered)'
    <3>1. \A d \in Context :
              /\ Filtered = List(d) <=> block \in Chain(next', ctx'[d].allocListHead)
              /\ Filtered = Hand(d) <=> block = ctx'[d].block
      BY <1>8, PlacesDiffer
    <3>2. /\ Filtered = Free <=> totalSize'[block] = 0
          /\ Filtered = Global <=> block \in Chain(next', head')
          /\ Filtered = Snapshot <=> block \in Chain(next', unfiltered')
          /\ Filtered = Filtered <=> block = gcBlock'
      BY <1>4, <1>8, <1>10, PlacesDiffer
    <3> QED
      BY <3>1, <3>2, OnlyAtNext
  <2> QED
    BY <1>1, <1>7, <1>9, <2>1, PlaceNames, Moved
<1>11. ASSUME gcBlock' = NULL, totalSize' = [totalSize EXCEPT ![block] = 0] PROVE PlaceInv'
  <2>1. OnlyAt(block, Free)'
    <3>1. \A d \in Context :
              /\ Free = List(d) <=> block \in Chain(next', ctx'[d].allocListHead)
              /\ Free = Hand(d) <=> block = ctx'[d].block
      BY <1>8, PlacesDiffer
    <3>2. totalSize'[block] = 0
      BY <1>0, <1>11 DEF TypeOK
    <3>3. /\ Free = Free <=> totalSize'[block] = 0
          /\ Free = Global <=> block \in Chain(next', head')
          /\ Free = Snapshot <=> block \in Chain(next', unfiltered')
          /\ Free = Filtered <=> block = gcBlock'
      BY <1>4, <1>8, <1>11, <3>2, PlacesDiffer, TrackerNames
    <3> QED
      BY <3>1, <3>3, OnlyAtNext
  <2> QED
    BY <1>1, <1>7, <1>9, <2>1, PlaceNames, Moved
<1>12. TailInv'
  BY <1>0, <1>4, TailIs
<1> QED
  BY <1>4, <1>10, <1>11, <1>12

LEMMA PlacePushKept ==
    ASSUME TrackerInv, PushKept
    PROVE  PlaceInv' /\ TailInv'
<1>0. TypeOK /\ TailInv /\ gcOldHead \in Ref
  BY DEF TrackerInv, TypeOK
<1>1. PICK where \in [Block -> Places] : Placed(where) /\ Acyclic(where)
  BY DEF TrackerInv, PlaceInv
<1>2. PICK block \in Block : block = gcBlock
  BY DEF PushKept, TrackerInv, HandInv, TypeOK, Ref
<1>3. where[block] = Filtered /\ where[block] \notin Lists
  BY <1>1, <1>2, PlacedIs, PlaceNames
<1>4. /\ UNCHANGED <<unfiltered, ctx, totalSize>>
      /\ next' = [next EXCEPT ![block] = gcOldHead]
      /\ head' = IF head = gcOldHead THEN block ELSE head
      /\ gcBlock' = IF head = gcOldHead THEN NULL ELSE block
  BY <1>2 DEF PushKept, CasHead
<1>5. PICK v \in Ref : v = gcOldHead
  BY <1>0
<1>6. /\ Chain(next', head) = Chain(next, head)
      /\ Chain(next', unfiltered) = Chain(next, unfiltered)
      /\ \A d \in Context : Chain(next', ctx[d].allocListHead) = Chain(next, ctx[d].allocListHead)
      /\ NoCycle(next', Listed(where))
      /\ v = head => /\ Chain(next', block) = Chain(next, head) \union {block}
                     /\ NoCycle(next', Listed(where) \union {block})
      /\ \A d \in Context : ctx[d].pc \in Busy /\ ctx[d].allocListHead # NULL
                               => next'[ctx[d].allocListTail] = NULL
  <2>1. next' = [next EXCEPT ![block] = v]
    BY <1>4, <1>5
  <2> QED
    BY <1>0, <1>1, <1>3, <2>1, Link
<1>7. /\ totalSize[block] # 0 /\ block \notin Chain(next, head)
      /\ block \notin Chain(next', unfiltered')
      /\ \A d \in Context : /\ block \notin Chain(next', ctx'[d].allocListHead)
                            /\ ctx'[d].block # block
  <2>1. /\ totalSize[block] # 0 /\ block \notin Chain(next, head)
        /\ block \notin Chain(next, unfiltered)
        /\ \A d \in Context : /\ block \notin Chain(next, ctx[d].allocListHead)
                              /\ ctx[d].block # block
    BY <1>1, <1>3, PlacedIs, PlacesDiffer
  <2> QED
    BY <1>4, <1>6, <2>1
<1>8. ASSUME NEW b \in Block \ {block} PROVE OnlyAt(b, where[b])'
  <2>1. /\ b = gcBlock' <=> b = gcBlock
        /\ b \in Chain(next', head') <=> b \in Chain(next, head)
    BY <1>2, <1>4, <1>5, <1>6, TrackerNames
  <2>2. \A d \in Context :
              /\ b \in Chain(next', ctx'[d].allocListHead)
                    <=> b \in Chain(next, ctx[d].allocListHead)
              /\ b = ctx'[d].block <=> b = ctx[d].block
    BY <1>4, <1>6
  <2>3. b \in Chain(next', unfiltered') <=> b \in Chain(next, unfiltered)
    BY <1>4, <1>6
  <2> QED
    BY <1>1, <1>4, <2>1, <2>2, <2>3, Unmoved
<1>9. ASSUME v = head PROVE PlaceInv'
  <2>1. head' = block /\ gcBlock' = NULL
    BY <1>4, <1>5, <1>9
  <2>2. OnlyAt(block, Global)'
    <3>1. \A d \in Context :
              /\ Global = List(d) <=> block \in Chain(next', ctx'[d].allocListHead)
              /\ Global = Hand(d) <=> block = ctx'[d].block
      BY <1>7, PlacesDiffer
    <3>2. /\ Global = Free <=> totalSize'[block] = 0
          /\ Global = Global <=> block \in Chain(next', head')
          /\ Global = Snapshot <=> block \in Chain(next', unfiltered')
          /\ Global = Filtered <=> block = gcBlock'
      BY <1>4, <1>6, <1>7, <1>9, <2>1, PlacesDiffer, TrackerNames
    <3> QED
      BY <3>1, <3>2, OnlyAtNext
  <2> QED
    BY <1>1, <1>6, <1>8, <1>9, <2>2, PlaceNames, Moved
<1>10. ASSUME v # head PROVE PlaceInv'
  <2>1. head' = head /\ gcBlock' = block
    BY <1>4, <1>5, <1>10
  <2>2. OnlyAt(block, Filtered)'
    <3>1. \A d \in Context :
              /\ Filtered = List(d) <=> block \in Chain(next', ctx'[d].allocListHead)
              /\ Filtered = Hand(d) <=> block = ctx'[d].block
      BY <1>7, PlacesDiffer
    <3>2. /\ Filtered = Free <=> totalSize'[block] = 0
          /\ Filtered = Global <=> block \in Chain(next', head')
          /\ Filtered = Snapshot <=> block \in Chain(next', unfiltered')
          /\ Filtered = Filtered <=> block = gcBlock'
      BY <1>4, <1>6, <1>7, <2>1, PlacesDiffer
    <3> QED
      BY <3>1, <3>2, OnlyAtNext
  <2>3. NoCycle(next', Listed(where) \ {block})
    BY <1>6 DEF NoCycle
  <2> QED
    BY <1>1, <1>8, <2>2, <2>3, PlaceNames, Moved
<1>11. TailInv'
  BY <1>0, <1>4, <1>6, TailIs
<1> QED
  BY <1>9, <1>10, <1>11

LEMMA PlaceSame ==
    ASSUME TrackerInv,
           \/ EndFilter
           \/ \E c \in Context : \/ FastDoSmallAccounting(c) \/ LoadUsage(c) \/ CasUsage(c)
                                 \/ AddContext(c) \/ RemoveContext(c) \/ FreeContext(c)
    PROVE  PlaceInv' /\ TailInv'
<1>0. TypeOK /\ LockInv /\ HandInv /\ TailInv /\ PlaceInv /\ ctx \in [Context -> StructContext]
  BY DEF TrackerInv, TypeOK
<1>1. CASE EndFilter
  <2>1. UNCHANGED <<head, next, unfiltered, gcBlock, totalSize, ctx>>
    BY <1>1 DEF EndFilter, listVars
  <2> QED
    BY <1>0, <2>1, PlacesStay, TailIs
<1>2. ASSUME NEW c \in Context,
             \/ FastDoSmallAccounting(c) \/ LoadUsage(c) \/ CasUsage(c)
             \/ AddContext(c) \/ RemoveContext(c) \/ FreeContext(c)
      PROVE  PlaceInv' /\ TailInv'
  <2>1. UNCHANGED <<head, next, unfiltered, gcBlock, totalSize>>
    BY <1>2 DEF FastDoSmallAccounting, LoadUsage, CasUsage, AddContext, RemoveContext,
                FreeContext, listVars, gcVars
  <2>2. ASSUME NEW d \in Context
        PROVE  /\ ctx'[d].allocListHead = ctx[d].allocListHead
               /\ ctx'[d].block = ctx[d].block
               /\ ctx'[d].pc \in Busy => \/ ctx[d].pc \in Busy
                                              /\ ctx'[d].allocListTail = ctx[d].allocListTail
                                         \/ ctx'[d].allocListHead = NULL
                                              /\ ctx'[d].allocListTail = NULL
    <3>1. CASE d # c
      <4>1. ctx'[d] = ctx[d]
        BY <1>0, <1>2, <3>1 DEF FastDoSmallAccounting, LoadUsage, CasUsage, AddContext,
                                RemoveContext, FreeContext
      <4> QED
        BY <4>1, SMTT(60)
    <3>2. CASE d = c /\ (FastDoSmallAccounting(c) \/ LoadUsage(c) \/ RemoveContext(c))
      BY <1>0, <3>2 DEF FastDoSmallAccounting, LoadUsage, RemoveContext, StructContext, Busy,
                        Allocating
    <3>3. CASE d = c /\ CasUsage(c)
      BY <1>0, <3>3 DEF CasUsage, StructContext, Busy, Allocating
    <3>4. CASE d = c /\ AddContext(c)
      <4>1. ctx[c].allocListHead = NULL /\ ctx[c].block = NULL
        BY <1>0, <3>4 DEF AddContext, LockInv, HandInv, Allocating
      <4> QED
        BY <1>0, <3>4, <4>1 DEF AddContext, NewContext
    <3>5. CASE d = c /\ FreeContext(c)
      <4>1. ctx[c].allocListHead = NULL /\ ctx[c].block = NULL
        BY <1>0, <3>5 DEF FreeContext, HandInv, Allocating
      <4> QED
        BY <1>0, <3>5, <4>1 DEF FreeContext, NoContext, NewContext, Busy, Allocating
    <3> QED
      BY <1>2, <3>1, <3>2, <3>3, <3>4, <3>5
  <2>3. PlaceInv'
    BY <1>0, <2>1, <2>2, PlacesStay
  <2>4. TailInv'
    BY <1>0, <2>1, <2>2, TailIs
  <2> QED
    BY <2>3, <2>4
<1> QED
  BY <1>1, <1>2

-----------------------------------------------------------------------------
(* Joining lists, those of start at the numbers in G: the end of each is   *)
(* linked to the start of the next, and those of the last one stays.  The  *)
(* list from the first start then has the blocks of all of them, ...       *)
Joined(n, G, start, tail, after, nx, mx) ==
    /\ n \in Nat /\ G \in SUBSET (1 .. n + 1) /\ n + 1 \in G
    /\ nx \in [Block -> Ref] /\ mx \in [Block -> Ref]
    /\ \A i \in G : start[i] \in Ref
    /\ \A i, j \in G : \A b \in Chain(nx, start[i]) : b \in Chain(nx, start[j]) => i = j
    /\ \A i \in G : i # n + 1 => /\ tail[i] \in Chain(nx, start[i])
                                 /\ nx[tail[i]] = NULL /\ mx[tail[i]] = start[after[i]]
    /\ \A b \in Block : mx[b] = nx[b] \/ \E i \in G : i # n + 1 /\ b = tail[i]
    /\ \A i \in 0 .. n : after[i] \in G /\ i < after[i] /\ \A k \in G : i < k => after[i] <= k

LEMMA JoinedAll ==
    ASSUME NEW n, NEW G, NEW start, NEW tail, NEW after, NEW nx, NEW mx,
           Joined(n, G, start, tail, after, nx, mx)
    PROVE  Chain(mx, start[after[0]]) = UNION {Chain(nx, start[i]) : i \in G}
<1> DEFINE All == UNION {Chain(nx, start[i]) : i \in G}
           R == Chain(mx, start[after[0]])
<1> USE DEF Joined
<1>0. /\ n \in Nat /\ 0 \in 0 .. n /\ after[0] \in G
      /\ \A i \in G : i \in 1 .. n + 1 /\ (i # n + 1 => i \in 0 .. n)
  OBVIOUS
<1>1. All \in SUBSET Block /\ R \in SUBSET Block
  BY ChainIsSet
<1>2. \A i \in G : start[i] \in All \union {NULL}
  BY ChainStart DEF Ref
<1>3. \A b \in All : mx[b] \in All \union {NULL}
  <2> SUFFICES ASSUME NEW b \in All PROVE mx[b] \in All \union {NULL}
    OBVIOUS
  <2>1. CASE mx[b] = nx[b]
    <3>1. PICK i \in G : b \in Chain(nx, start[i])
      OBVIOUS
    <3>2. nx[b] \in Chain(nx, start[i]) \union {NULL}
      BY <3>1, ChainClosed
    <3> QED
      BY <2>1, <3>2
  <2>2. CASE mx[b] # nx[b]
    <3>1. PICK i \in G : i # n + 1 /\ b = tail[i]
      BY <1>1, <2>2
    <3>2. mx[b] = start[after[i]] /\ after[i] \in G
      BY <1>0, <3>1
    <3> QED
      BY <1>2, <3>2
  <2> QED
    BY <2>1, <2>2
<1>4. R \subseteq All
  <2>1. start[after[0]] \in All \union {NULL}
    BY <1>0, <1>2
  <2> HIDE DEF All
  <2> QED
    BY <1>1, <1>3, <2>1, ChainLeast
<1>5. ASSUME NEW i \in G, start[i] \in R \union {NULL} PROVE Chain(nx, start[i]) \subseteq R
  <2> DEFINE C == Chain(nx, start[i])
             E == C \intersect R
  <2>1. C \in SUBSET Block /\ start[i] \in C \union {NULL}
    BY ChainIsSet, ChainStart DEF Ref
  <2>2. \A b \in C : nx[b] \in C \union {NULL}
    BY ChainClosed
  <2>3. \A b \in R : mx[b] \in R \union {NULL}
    BY ChainClosed
  <2>4. \A b \in Block : mx[b] = nx[b] \/ nx[b] = NULL
    OBVIOUS
  <2>5. E \in SUBSET Block /\ start[i] \in E \union {NULL} /\ \A b \in E : nx[b] \in E \union {NULL}
    <3> HIDE DEF C, R, Joined
    <3> QED
      BY <1>5, <2>1, <2>2, <2>3, <2>4
  <2> HIDE DEF E
  <2>6. C \subseteq E
    BY <2>5, ChainLeast
  <2> QED
    BY <2>6 DEF E
<1>6. ASSUME NEW i \in G PROVE start[i] \in R \union {NULL}
  <2> DEFINE Bad == {k \in G : start[k] \notin R \union {NULL}}
  <2> SUFFICES ASSUME Bad # {} PROVE FALSE
    OBVIOUS
  <2>1. PICK k \in Bad : \A j \in Bad : k <= j
    <3>1. n + 1 \in Nat /\ \A j \in G : j \in 0 .. n + 1
      <4> HIDE DEF All, R, Joined
      <4> QED
        BY <1>0
    <3>2. Bad \in SUBSET (0 .. n + 1)
      <4> HIDE DEF R, Joined
      <4> QED
        BY <3>1
    <3> HIDE DEF Bad
    <3> QED
      BY <3>1, <3>2, LeastNumber
  <2>2. k \in G /\ k \in 1 .. n + 1 /\ start[k] \notin R \union {NULL}
    BY <1>0
  <2> DEFINE Before == {j \in G : j < k}
  <2>3. CASE Before = {}
    <3>1. after[0] = k
      <4>1. after[0] <= k
        <5>1. 0 < k
          BY <2>2, <1>0
        <5> HIDE DEF R
        <5> QED
          BY <1>0, <2>2, <5>1
      <4>2. ~(after[0] < k) /\ after[0] \in 1 .. n + 1
        <5> HIDE DEF R, Joined
        <5> QED
          BY <1>0, <2>3
      <4> HIDE DEF R, Joined
      <4> QED
        BY <1>0, <2>2, <4>1, <4>2
    <3> QED
      BY <2>2, <3>1, ChainStart DEF Ref
  <2>4. CASE Before # {}
    <3>1. PICK j \in Before : \A m \in Before : m <= j
      <4>1. n + 1 \in Nat /\ \A m \in G : m \in 0 .. n + 1
        <5> HIDE DEF All, R, Joined
        <5> QED
          BY <1>0
      <4>2. Before \in SUBSET (0 .. n + 1)
        <5> HIDE DEF R, Joined
        <5> QED
          BY <4>1
      <4> HIDE DEF Before
      <4> QED
        BY <2>4, <4>1, <4>2, GreatestNumber
    <3>2. j \in G /\ j < k /\ j \in 1 .. n + 1 /\ j # n + 1 /\ j \in 0 .. n
      BY <1>0, <2>2
    <3>3. after[j] = k
      <4>1. after[j] <= k /\ j < after[j] /\ after[j] \in G /\ after[j] \in 1 .. n + 1
        BY <1>0, <2>2, <3>2
      <4>2. ~(after[j] < k)
        BY <3>1, <3>2, <4>1
      <4> QED
        BY <1>0, <2>2, <4>1, <4>2
    <3>4. start[j] \in R \union {NULL}
      <4>1. j \notin Bad
        BY <1>0, <2>1, <2>2, <3>2
      <4> QED
        BY <3>2, <4>1
    <3>5. tail[j] \in R /\ mx[tail[j]] = start[k]
      BY <1>5, <3>2, <3>3, <3>4
    <3>6. mx[tail[j]] \in R \union {NULL}
      BY <3>5, ChainClosed
    <3> QED
      BY <2>2, <3>5, <3>6
  <2> QED
    BY <2>3, <2>4
<1>7. All \subseteq R
  BY <1>5, <1>6
<1> QED
  BY <1>4, <1>7

(* ... and there is no cycle among them.                                   *)
LEMMA JoinedNoCycle ==
    ASSUME NEW n, NEW G, NEW start, NEW tail, NEW after, NEW nx, NEW mx,
           Joined(n, G, start, tail, after, nx, mx),
           NoCycle(nx, UNION {Chain(nx, start[i]) : i \in G})
    PROVE  NoCycle(mx, UNION {Chain(nx, start[i]) : i \in G})
<1> DEFINE All == UNION {Chain(nx, start[i]) : i \in G}
<1> SUFFICES ASSUME NEW S \in SUBSET All, S # {} PROVE \E b \in S : mx[b] \notin S
  BY DEF NoCycle
<1> USE DEF Joined
<1>0. /\ n \in Nat /\ \A i \in G : i \in 1 .. n + 1 /\ (i # n + 1 => i \in 0 .. n)
      /\ NULL \notin S /\ All \in SUBSET Block
  BY ChainIsSet, TrackerNames
<1> DEFINE Hit == {i \in G : S \intersect Chain(nx, start[i]) # {}}
<1>1. PICK i \in Hit : \A j \in Hit : j <= i
  <2>1. Hit \in SUBSET (0 .. n + 1) /\ Hit # {} /\ n + 1 \in Nat
    BY <1>0
  <2> HIDE DEF Hit
  <2> QED
    BY <2>1, GreatestNumber
<1> DEFINE C == Chain(nx, start[i])
<1>2. PICK b \in S \intersect C : nx[b] \notin S \intersect C
  BY <1>1, ZenonT(60) DEF NoCycle
<1>3. nx[b] \notin S
  BY <1>0, <1>2, ChainClosed
<1>4. CASE mx[b] = nx[b]
  BY <1>2, <1>3, <1>4
<1>5. CASE mx[b] # nx[b]
  <2>1. PICK j \in G : j # n + 1 /\ b = tail[j]
    BY <1>0, <1>2, <1>5
  <2>2. j = i
    BY <1>1, <1>2, <2>1
  <2>3. mx[b] = start[after[i]] /\ after[i] \in G /\ i < after[i]
    BY <1>0, <1>1, <2>1, <2>2
  <2>4. after[i] \notin Hit
    <3>1. i \in 1 .. n + 1 /\ after[i] \in 1 .. n + 1
      BY <1>0, <1>1, <2>3
    <3> QED
      BY <1>1, <2>3, <3>1
  <2>5. start[after[i]] \notin S
    <3>1. start[after[i]] \in Block => start[after[i]] \in Chain(nx, start[after[i]])
      BY ChainStart
    <3> QED
      BY <1>0, <2>3, <2>4, <3>1
  <2> QED
    BY <1>2, <2>3, <2>5
<1> QED
  BY <1>4, <1>5

(* What take_snapshot puts behind the list of the context number i, or at  *)
(* the start of all: the list of the next context that has one, and the    *)
(* global list if none has.                                                *)
LEMMA HeadAfterIs ==
    ASSUME TypeOK, NEW i \in 0 .. Len(contexts)
    PROVE  \E k \in 1 .. Len(contexts) + 1 :
              /\ i < k
              /\ IF k = Len(contexts) + 1 THEN HeadAfter(i) = head
                 ELSE HeadAfter(i) = ctx[contexts[k]].allocListHead
                        /\ ctx[contexts[k]].allocListHead # NULL
              /\ \A j \in 1 .. Len(contexts) :
                    i < j /\ ctx[contexts[j]].allocListHead # NULL => k <= j
<1> DEFINE n == Len(contexts)
<1>0. n \in Nat /\ DOMAIN contexts = 1 .. n
  BY DEF TypeOK
<1>1. LaterFilled(i) = {j \in 1 .. n : j > i /\ ctx[contexts[j]].allocListHead # NULL}
  BY <1>0 DEF LaterFilled
<1> HIDE DEF n
<1>2. CASE LaterFilled(i) = {}
  <2>1. n + 1 \in 1 .. n + 1 /\ i < n + 1 /\ HeadAfter(i) = head
    BY <1>0, <1>2 DEF HeadAfter, n
  <2>2. \A j \in 1 .. n : ~(i < j /\ ctx[contexts[j]].allocListHead # NULL)
    BY <1>0, <1>1, <1>2
  <2> QED
    BY <2>1, <2>2 DEF n
<1>3. CASE LaterFilled(i) # {}
  <2> DEFINE k == Min(LaterFilled(i))
  <2>1. \E m \in LaterFilled(i) : \A j \in LaterFilled(i) : m <= j
    <3>1. LaterFilled(i) \in SUBSET (0 .. n)
      BY <1>0, <1>1
    <3> QED
      BY <1>0, <1>3, <3>1, LeastNumber
  <2>2. k \in LaterFilled(i) /\ \A j \in LaterFilled(i) : k <= j
    BY <2>1 DEF Min
  <2>3. HeadAfter(i) = ctx[contexts[k]].allocListHead
    BY <1>3 DEF HeadAfter
  <2> HIDE DEF k
  <2>4. k \in 1 .. n /\ i < k /\ ctx[contexts[k]].allocListHead # NULL
    BY <1>0, <1>1, <2>2
  <2>5. k \in 1 .. n + 1 /\ k # n + 1
    BY <1>0, <2>4
  <2>6. \A j \in 1 .. n : i < j /\ ctx[contexts[j]].allocListHead # NULL => k <= j
    <3>1. \A j \in 1 .. n : i < j => j > i
      BY <1>0
    <3> QED
      BY <1>1, <2>2, <3>1
  <2> QED
    BY <2>3, <2>4, <2>5, <2>6 DEF n
<1> QED
  BY <1>2, <1>3

(* When it is taken no thread has a block in hand and the filter has none. *)
LEMMA SnapshotAlone ==
    ASSUME TrackerInv, gcPc = "idle", listOfContextLock = NULL,
           \A c \in Context : ctx[c].pc \notin Allocating
    PROVE  /\ \A c \in Context : ctx[c].pc \in {"none", "idle"} /\ ctx[c].block = NULL
           /\ unfiltered = NULL /\ gcBlock = NULL
<1>0. TypeOK /\ LockInv /\ HandInv
  BY DEF TrackerInv
<1>1. ASSUME NEW c \in Context
      PROVE  ctx[c].pc \in {"none", "idle"} /\ ctx[c].block = NULL
  <2>1. ctx[c].pc \in Allocating \union {"none", "idle", "free", "push"}
    BY <1>0 DEF TypeOK, StructContext
  <2>2. ctx[c].pc \notin {"free", "push"}
    BY <1>0, TrackerNames DEF LockInv
  <2> QED
    BY <1>0, <2>1, <2>2 DEF HandInv
<1> QED
  BY <1>0, <1>1 DEF HandInv

LEMMA SnapshotIs ==
    ASSUME TypeOK, TakeSnapshot
    PROVE  /\ gcPc = "idle" /\ listOfContextLock = NULL
           /\ \A c \in Context : ctx[c].pc \notin Allocating
           /\ unfiltered' = HeadAfter(0) /\ DOMAIN next' = Block
           /\ \A b \in Block :
                 next'[b] = IF EndingIn(b) = {} THEN next[b]
                            ELSE HeadAfter(CHOOSE i \in EndingIn(b) : TRUE)
           /\ next' = [b \in Block |-> next'[b]]
           /\ \A c \in Context : /\ ctx'[c].allocListHead = NULL
                                 /\ ctx'[c].allocListTail = NULL
                                 /\ ctx'[c].block = ctx[c].block
                                 /\ ctx'[c].pc = ctx[c].pc
           /\ head' = NULL /\ UNCHANGED <<totalSize, gcBlock>>
<1> DEFINE f(b) == IF EndingIn(b) = {} THEN next[b]
                   ELSE HeadAfter(CHOOSE i \in EndingIn(b) : TRUE)
           r(c) == [ctx[c] EXCEPT !.allocListHead = NULL, !.allocListTail = NULL]
<1>1. /\ gcPc = "idle" /\ listOfContextLock = NULL
      /\ \A c \in Context : ctx[c].pc \notin Allocating
      /\ unfiltered' = HeadAfter(0)
      /\ next' = [b \in Block |-> f(b)] /\ ctx' = [c \in Context |-> r(c)]
      /\ head' = NULL /\ UNCHANGED <<totalSize, gcBlock>>
  BY Zenon DEF TakeSnapshot
<1>2. \A c \in Context : /\ r(c).allocListHead = NULL /\ r(c).allocListTail = NULL
                         /\ r(c).block = ctx[c].block /\ r(c).pc = ctx[c].pc
  <2>1. \A c \in Context : ctx[c] \in StructContext
    BY DEF TypeOK
  <2> QED
    BY <2>1 DEF StructContext
<1> HIDE DEF r
<1>3. \A c \in Context : /\ ctx'[c].allocListHead = NULL
                         /\ ctx'[c].allocListTail = NULL
                         /\ ctx'[c].block = ctx[c].block
                         /\ ctx'[c].pc = ctx[c].pc
  BY <1>1, <1>2
<1>4. /\ DOMAIN next' = Block /\ next' = [b \in Block |-> next'[b]]
      /\ \A b \in Block : next'[b] = f(b)
  <2> HIDE DEF f
  <2> QED
    BY <1>1
<1> QED
  BY <1>1, <1>3, <1>4

(* The snapshot has the blocks of all lists, joined.                       *)
HeadOf(i) == IF i = Len(contexts) + 1 THEN head ELSE ctx[contexts[i]].allocListHead
TailOf(i) == ctx[contexts[i]].allocListTail
Filled == {i \in 1 .. Len(contexts) : ctx[contexts[i]].allocListHead # NULL}
             \union {Len(contexts) + 1}
HeadsOf == [i \in 1 .. Len(contexts) + 1 |-> HeadOf(i)]
TailsOf == [i \in 1 .. Len(contexts) |-> TailOf(i)]

LEMMA SnapshotJoins ==
    ASSUME TrackerInv, TakeSnapshot
    PROVE  \E after : /\ Joined(Len(contexts), Filled, HeadsOf, TailsOf, after, next, next')
                      /\ unfiltered' = HeadsOf[after[0]]
<1> DEFINE n == Len(contexts)
<1>0. /\ next \in [Block -> Ref] /\ head \in Ref /\ n \in Nat /\ DOMAIN contexts = 1 .. n
      /\ \A i \in 1 .. n : contexts[i] \in Context
      /\ \A c \in Context : ctx[c].allocListHead \in Ref /\ ctx[c].allocListTail \in Ref
      /\ TypeOK
  BY DEF TrackerInv, TypeOK, StructContext
<1>1. /\ Filled \in SUBSET (1 .. n + 1) /\ n + 1 \in Filled
      /\ \A i \in Filled : i # n + 1 => i \in 1 .. n /\ ctx[contexts[i]].allocListHead # NULL
      /\ \A i \in 1 .. n : ctx[contexts[i]].allocListHead # NULL => i \in Filled /\ i # n + 1
      /\ HeadsOf[n + 1] = head
      /\ \A i \in 1 .. n : /\ HeadsOf[i] = ctx[contexts[i]].allocListHead
                           /\ TailsOf[i] = ctx[contexts[i]].allocListTail
  BY <1>0 DEF Filled, HeadsOf, TailsOf, HeadOf, TailOf
<1> HIDE DEF n
<1>2. \A i \in 0 .. n : \E k \in Filled : i < k /\ HeadAfter(i) = HeadsOf[k]
                                           /\ \A j \in Filled : i < j => k <= j
  <2> TAKE i \in 0 .. n
  <2>1. PICK k \in 1 .. n + 1 :
              /\ i < k
              /\ IF k = n + 1 THEN HeadAfter(i) = head
                 ELSE HeadAfter(i) = ctx[contexts[k]].allocListHead
                        /\ ctx[contexts[k]].allocListHead # NULL
              /\ \A j \in 1 .. n : i < j /\ ctx[contexts[j]].allocListHead # NULL => k <= j
    BY <1>0, HeadAfterIs DEF n
  <2>2. k \in Filled /\ HeadAfter(i) = HeadsOf[k]
    <3>1. CASE k = n + 1
      BY <1>1, <2>1, <3>1
    <3>2. CASE k # n + 1
      <4>1. k \in 1 .. n
        BY <1>0, <3>2
      <4> QED
        BY <1>1, <2>1, <3>2, <4>1
    <3> QED
      BY <3>1, <3>2
  <2>3. \A j \in Filled : i < j => k <= j
    <3> TAKE j \in Filled
    <3>1. CASE j = n + 1
      BY <1>0, <3>1
    <3>2. CASE j # n + 1
      BY <1>1, <2>1, <3>2
    <3> QED
      BY <3>1, <3>2
  <2> QED
    BY <2>1, <2>2, <2>3
<1> DEFINE Follows(i, k) == i < k /\ HeadAfter(i) = HeadsOf[k] /\ \A j \in Filled : i < j => k <= j
           after == [i \in 0 .. n |-> CHOOSE k \in Filled : Follows(i, k)]
<1>3. \A i \in 0 .. n : after[i] \in Filled /\ Follows(i, after[i])
  <2>1. \A i \in 0 .. n : \E k \in Filled : Follows(i, k)
    BY <1>2
  <2> HIDE DEF Follows
  <2> QED
    BY <2>1
<1>4. \A i \in 0 .. n : /\ after[i] \in Filled /\ i < after[i] /\ HeadAfter(i) = HeadsOf[after[i]]
                        /\ \A k \in Filled : i < k => after[i] <= k
  BY <1>3
<1> HIDE DEF after, Follows
<1>5. \A i \in Filled : HeadsOf[i] \in Ref
  BY <1>0, <1>1
<1>6. ASSUME NEW i \in Filled, NEW j \in Filled, NEW b \in Chain(next, HeadsOf[i]),
             b \in Chain(next, HeadsOf[j])
      PROVE  i = j
  <2>1. PICK where \in [Block -> Places] : Placed(where)
    BY DEF TrackerInv, PlaceInv
  <2>2. b \in Block
    BY ChainIsSet
  <2>3. ASSUME NEW k \in Filled, b \in Chain(next, HeadsOf[k])
        PROVE  where[b] = IF k = n + 1 THEN Global ELSE List(contexts[k])
    <3>1. CASE k = n + 1
      BY <1>1, <2>1, <2>2, <2>3, <3>1, PlacedIs
    <3>2. CASE k # n + 1
      <4>1. contexts[k] \in Context /\ b \in Chain(next, ctx[contexts[k]].allocListHead)
        BY <1>0, <1>1, <2>3, <3>2
      <4> QED
        BY <2>1, <2>2, <3>2, <4>1, PlacedIs
    <3> QED
      BY <3>1, <3>2
  <2>4. /\ where[b] = IF i = n + 1 THEN Global ELSE List(contexts[i])
        /\ where[b] = IF j = n + 1 THEN Global ELSE List(contexts[j])
    BY <1>6, <2>3
  <2>5. i # n + 1 /\ j # n + 1 /\ contexts[i] = contexts[j] => i = j
    BY <1>0, <1>1 DEF TrackerInv, LockInv
  <2> QED
    BY <2>4, <2>5, PlacesDiffer
<1>7. ASSUME NEW i \in 1 .. n
      PROVE  IF ctx[contexts[i]].allocListHead = NULL THEN ctx[contexts[i]].allocListTail = NULL
             ELSE TailsOf[i] \in Chain(next, HeadsOf[i]) /\ next[TailsOf[i]] = NULL
  <2>1. contexts[i] \in Context /\ ctx[contexts[i]].pc \in Busy
    BY <1>0 DEF TrackerInv, LockInv
  <2> QED
    BY <1>1, <2>1, TailIs DEF TrackerInv
<1>8. ASSUME NEW i \in 1 .. n, NEW b \in Block, i \in EndingIn(b)
      PROVE  /\ i \in Filled /\ i # n + 1 /\ b = TailsOf[i]
             /\ b \in Chain(next, HeadsOf[i]) /\ next[b] = NULL
  <2>1. b = ctx[contexts[i]].allocListTail /\ b = TailsOf[i]
    BY <1>1, <1>8 DEF EndingIn
  <2> QED
    BY <1>1, <1>7, <2>1, TrackerNames
<1>9. ASSUME NEW b \in Block, NEW i \in EndingIn(b), EndingIn(b) # {}
      PROVE  next'[b] = HeadAfter(i) /\ i \in 1 .. n
  <2>1. EndingIn(b) \in SUBSET (1 .. n)
    BY <1>0 DEF EndingIn
  <2>2. \A j, k \in EndingIn(b) : j = k
    BY <1>6, <1>8, <2>1
  <2>3. (CHOOSE j \in EndingIn(b) : TRUE) = i
    BY <2>2
  <2> QED
    BY <1>9, <2>1, <2>3, <1>0, SnapshotIs
<1>10. ASSUME NEW i \in Filled, i # n + 1
       PROVE  /\ TailsOf[i] \in Chain(next, HeadsOf[i])
              /\ next[TailsOf[i]] = NULL /\ next'[TailsOf[i]] = HeadsOf[after[i]]
  <2>1. i \in 1 .. n /\ TailsOf[i] \in Chain(next, HeadsOf[i]) /\ next[TailsOf[i]] = NULL
    BY <1>1, <1>7, <1>10
  <2>2. TailsOf[i] \in Block /\ i \in EndingIn(TailsOf[i])
    BY <1>0, <1>1, <2>1, ChainIsSet DEF EndingIn
  <2>3. next'[TailsOf[i]] = HeadAfter(i) /\ i \in 0 .. n
    BY <1>0, <1>9, <2>1, <2>2
  <2> QED
    BY <1>4, <2>1, <2>3
<1>11. \A b \in Block : next'[b] = next[b] \/ \E i \in Filled : i # n + 1 /\ b = TailsOf[i]
  <2> TAKE b \in Block
  <2>1. CASE EndingIn(b) = {}
    BY <2>1, <1>0, SnapshotIs
  <2>2. CASE EndingIn(b) # {}
    <3>1. PICK i \in EndingIn(b) : TRUE
      BY <2>2
    <3>2. i \in 1 .. n
      BY <1>9, <2>2
    <3> QED
      BY <1>8, <3>2
  <2> QED
    BY <2>1, <2>2
<1>12. next' \in [Block -> Ref]
  <2>1. DOMAIN next' = Block /\ next' = [b \in Block |-> next'[b]]
    BY <1>0, SnapshotIs
  <2>2. ASSUME NEW b \in Block PROVE next'[b] \in Ref
    <3>1. CASE next'[b] = next[b]
      BY <1>0, <3>1
    <3>2. CASE next'[b] # next[b]
      <4>1. PICK i \in Filled : i # n + 1 /\ b = TailsOf[i]
        BY <1>11, <3>2
      <4>2. after[i] \in Filled
        BY <1>0, <1>1, <1>4, <4>1
      <4> QED
        BY <1>5, <1>10, <4>1, <4>2
    <3> QED
      BY <3>1, <3>2
  <2> QED
    BY <2>1, <2>2
<1>13. unfiltered' = HeadsOf[after[0]]
  <2>1. 0 \in 0 .. n
    BY <1>0
  <2> QED
    BY <1>4, <2>1, <1>0, SnapshotIs
<1>14. Joined(n, Filled, HeadsOf, TailsOf, after, next, next')
  BY <1>0, <1>1, <1>4, <1>5, <1>6, <1>10, <1>11, <1>12 DEF Joined
<1> QED
  BY <1>13, <1>14 DEF n

LEMMA PlaceSnapshot ==
    ASSUME TrackerInv, TakeSnapshot
    PROVE  PlaceInv' /\ TailInv'
<1> DEFINE n == Len(contexts)
           All == UNION {Chain(next, HeadsOf[i]) : i \in Filled}
<1>0. /\ n \in Nat /\ DOMAIN contexts = 1 .. n /\ \A i \in 1 .. n : contexts[i] \in Context
      /\ \A c \in Context : ctx[c].pc \in {"none", "idle"} /\ ctx[c].block = NULL
      /\ unfiltered = NULL /\ gcBlock = NULL
  <2>1. TypeOK /\ n \in Nat /\ DOMAIN contexts = 1 .. n /\ \A i \in 1 .. n : contexts[i] \in Context
    BY DEF TrackerInv, TypeOK
  <2>2. /\ gcPc = "idle" /\ listOfContextLock = NULL
        /\ \A c \in Context : ctx[c].pc \notin Allocating
    BY <2>1, SnapshotIs
  <2> QED
    BY <2>1, <2>2, SnapshotAlone
<1>1. PICK where \in [Block -> Places] : Placed(where) /\ Acyclic(where)
  BY DEF TrackerInv, PlaceInv
<1>2. PICK after : /\ Joined(n, Filled, HeadsOf, TailsOf, after, next, next')
                   /\ unfiltered' = HeadsOf[after[0]]
  BY SnapshotJoins
<1>3. \A i \in 1 .. n + 1 : HeadsOf[i] = IF i = n + 1 THEN head ELSE ctx[contexts[i]].allocListHead
  BY DEF HeadsOf, HeadOf
<1> HIDE DEF n
<1>4. All = Listed(where)
  <2>1. ASSUME NEW b \in All PROVE b \in Listed(where)
    <3>1. PICK i \in Filled : b \in Chain(next, HeadsOf[i])
      OBVIOUS
    <3>2. b \in Block /\ i \in 1 .. n + 1
      BY <1>2, <3>1, ChainIsSet DEF Joined
    <3>3. CASE i = n + 1
      BY <1>1, <1>3, <3>1, <3>2, <3>3, PlacedIs, PlaceNames DEF Listed
    <3>4. CASE i # n + 1
      <4>1. contexts[i] \in Context /\ b \in Chain(next, ctx[contexts[i]].allocListHead)
        BY <1>0, <1>3, <3>1, <3>2, <3>4
      <4> QED
        BY <1>1, <3>2, <4>1, PlacedIs, PlaceNames DEF Listed
    <3> QED
      BY <3>3, <3>4
  <2>2. ASSUME NEW b \in Listed(where) PROVE b \in All
    <3>1. b \in Block /\ where[b] \in Lists
      BY DEF Listed
    <3>2. b \notin Chain(next, unfiltered)
      BY <1>0, ChainNull
    <3>3. where[b] = Global \/ \E c \in Context : where[b] = List(c)
      BY <1>1, <3>1, <3>2, PlacedIs DEF Lists
    <3>4. CASE where[b] = Global
      <4>1. b \in Chain(next, HeadsOf[n + 1]) /\ n + 1 \in Filled
        BY <1>0, <1>1, <1>2, <1>3, <3>1, <3>4, PlacedIs DEF Joined
      <4> QED
        BY <4>1
    <3>5. ASSUME NEW c \in Context, where[b] = List(c) PROVE b \in All
      <4>1. b \in Chain(next, ctx[c].allocListHead)
        BY <1>1, <3>1, <3>5, PlacedIs
      <4>2. ctx[c].allocListHead # NULL
        BY <4>1, ChainNull
      <4>3. ctx[c].pc \in Busy
        BY <1>0, <4>2 DEF TrackerInv, LockInv, Busy
      <4>4. PICK i \in 1 .. n : contexts[i] = c
        BY <1>0, <4>3 DEF TrackerInv, LockInv
      <4>5. i \in Filled /\ HeadsOf[i] = ctx[c].allocListHead
        BY <1>0, <1>3, <4>2, <4>4 DEF Filled, n
      <4> QED
        BY <4>1, <4>5
    <3> QED
      BY <3>3, <3>4, <3>5
  <2> QED
    BY <2>1, <2>2
<1>5. Chain(next', unfiltered') = Listed(where)
  BY <1>2, <1>4, JoinedAll
<1>6. NoCycle(next', Listed(where))
  <2>1. NoCycle(next, All)
    BY <1>1, <1>4, AcyclicIs
  <2>2. NoCycle(next', All)
    BY <1>2, <2>1, JoinedNoCycle
  <2> QED
    BY <1>4, <2>2
<1>7. /\ head' = NULL /\ gcBlock' = NULL /\ totalSize' = totalSize
      /\ \A c \in Context : /\ ctx'[c].allocListHead = NULL /\ ctx'[c].allocListTail = NULL
                            /\ ctx'[c].block = NULL
  BY <1>0, SnapshotIs DEF TrackerInv
<1> DEFINE w == [b \in Block |-> IF where[b] \in Lists THEN Snapshot ELSE where[b]]
<1>8. /\ w \in [Block -> Places]
      /\ \A b \in Block : w[b] = IF where[b] \in Lists THEN Snapshot ELSE where[b]
  BY PlaceNames
<1> HIDE DEF w, All
<1>9. ASSUME NEW b \in Block PROVE OnlyAt(b, w[b])'
  <2>1. /\ where[b] # Filtered /\ \A c \in Context : where[b] # Hand(c)
    BY <1>0, <1>1, PlacedIs, TrackerNames
  <2>2. where[b] = Free \/ where[b] \in Lists
    BY <2>1 DEF Places
  <2>3. w[b] = IF where[b] = Free THEN Free ELSE Snapshot
    BY <1>8, <2>2, PlaceNames
  <2>4. \A start : start = NULL => b \notin Chain(next', start)
    BY ChainNull
  <2>5. /\ w[b] = Free <=> totalSize'[b] = 0
        /\ w[b] = Global <=> b \in Chain(next', head')
        /\ w[b] = Snapshot <=> b \in Chain(next', unfiltered')
        /\ w[b] = Filtered <=> b = gcBlock'
    BY <1>1, <1>5, <1>7, <2>2, <2>3, <2>4, PlacedIs, PlacesDiffer, PlaceNames, TrackerNames
       DEF Listed
  <2>6. ASSUME NEW c \in Context
        PROVE  /\ w[b] = List(c) <=> b \in Chain(next', ctx'[c].allocListHead)
               /\ w[b] = Hand(c) <=> b = ctx'[c].block
    BY <1>7, <2>3, <2>4, PlacesDiffer, TrackerNames
  <2> QED
    BY <2>5, <2>6, OnlyAtNext
<1>10. Placed(w)'
  BY <1>9 DEF Placed
<1>11. Listed(w) = Listed(where)
  BY <1>8, PlaceNames DEF Listed
<1>12. Acyclic(w)'
  BY <1>6, <1>11, AcyclicIs
<1>13. PlaceInv'
  BY <1>8, <1>10, <1>12 DEF PlaceInv
<1>14. TailInv'
  BY <1>7, TailIs
<1> QED
  BY <1>13, <1>14
-----------------------------------------------------------------------------
LEMMA PlaceStep == TrackerInv /\ Next => PlaceInv' /\ TailInv'
<1> SUFFICES ASSUME TrackerInv, Next PROVE PlaceInv' /\ TailInv'
  OBVIOUS
<1>1. ASSUME NEW c \in Context, ContextStep(c) PROVE PlaceInv' /\ TailInv'
  <2>1. CASE \E block \in Block : \E size \in AllocSize : Malloc(c, block, size)
    BY <2>1, PlaceMalloc
  <2>2. CASE AllocStep(c)
    BY <2>2, PlaceSame, PlaceAdd, PlaceFail DEF AllocStep
  <2>3. CASE AddContext(c) \/ RemoveContext(c)
    BY <2>3, PlaceSame
  <2>4. CASE FreeStep(c)
    BY <2>4, PlaceSame, PlaceLoadHead, PlacePush DEF FreeStep
  <2> QED
    BY <1>1, <2>1, <2>2, <2>3, <2>4 DEF ContextStep
<1>2. CASE TakeSnapshot
  BY <1>2, PlaceSnapshot
<1>3. CASE FilterStep
  BY <1>3, PlaceTaken, PlacePushKept, PlaceSame DEF FilterStep
<1> QED
  BY <1>1, <1>2, <1>3 DEF Next

LEMMA TrackerInit == Init => TrackerInv
<1> SUFFICES ASSUME Init PROVE TrackerInv
  OBVIOUS
<1>0. /\ currentUsage = 0 /\ head = NULL /\ next = [block \in Block |-> NULL]
      /\ totalSize = [block \in Block |-> 0] /\ contexts = <<>>
      /\ listOfContextLock = NULL /\ gcPc = "idle" /\ unfiltered = NULL /\ freedSize = 0
      /\ gcBlock = NULL /\ gcOldHead = NULL /\ lostUsage = 0
  BY DEF Init
<1>1. ctx \in [Context -> StructContext] /\ \A c \in Context : ctx[c] = NoContext
  BY DEF Init, NoContext, NewContext, StructContext, Ref
<1>2. \A c \in Context : /\ ctx[c].pc = "none" /\ ctx[c].preReservedUsage = 0
                         /\ ctx[c].allocListHead = NULL /\ ctx[c].block = NULL
  BY <1>1 DEF NoContext, NewContext
<1>3. TypeOK
  BY <1>0, <1>1 DEF TypeOK, Ref
<1>4. LockInv
  BY <1>0, <1>2, TrackerNames DEF LockInv, Busy, Allocating
<1>5. HandInv
  BY <1>0, <1>2 DEF HandInv, Allocating
<1>6. SizeInv
  BY <1>0, <1>2 DEF SizeInv
<1>7. TailInv
  BY <1>2 DEF TailInv, Busy, Allocating
<1>8. PlaceInv
  <2> DEFINE w == [b \in Block |-> Free]
  <2>1. w \in [Block -> Places] /\ \A b \in Block : w[b] = Free
    BY PlaceNames
  <2> HIDE DEF w
  <2>2. \A start : start = NULL => ListFrom(start) = {}
    BY ListIsChain, ChainNull
  <2>3. Placed(w)
    BY <1>0, <1>2, <2>1, <2>2, PlacesDiffer, TrackerNames DEF Placed, OnlyAt
  <2>4. Acyclic(w)
    BY <2>1, PlaceNames DEF Acyclic
  <2> QED
    BY <2>1, <2>3, <2>4 DEF PlaceInv
<1>9. UsedBytes = 0
  <2>1. Accounted = {}
    BY <1>0 DEF Accounted
  <2>2. \A b \in Accounted : totalSize[b] = 0
    BY <2>1
  <2> QED
    BY <2>2, AccountedFinite, SumZero DEF UsedBytes
<1>10. Reserved = 0
  <2>1. \A c \in Context : PreReserved[c] = 0
    BY <1>2 DEF PreReserved
  <2>2. SumFunctionOnSet(PreReserved, Context) = 0
    BY <2>1, TrackerFinite, SumZero
  <2> QED
    BY <2>2 DEF Reserved, PreReserved
<1>11. UsageExact /\ WithinMaxSize
  BY <1>0, <1>2, <1>9, <1>10, TrackerSizes DEF UsageExact, WithinMaxSize
<1> QED
  BY <1>3, <1>4, <1>5, <1>6, <1>7, <1>8, <1>11 DEF TrackerInv

LEMMA TrackerStutter == TrackerInv /\ UNCHANGED vars => TrackerInv'
<1> SUFFICES ASSUME TrackerInv, UNCHANGED vars PROVE TrackerInv'
  OBVIOUS
<1>0. /\ UNCHANGED <<currentUsage, head, next, totalSize, contexts, ctx, listOfContextLock>>
      /\ UNCHANGED <<gcPc, unfiltered, freedSize, gcBlock, gcOldHead, lostUsage>>
  BY DEF vars, listVars, lockVars, gcVars
<1>1. TypeOK'
  BY <1>0 DEF TrackerInv, TypeOK
<1>2. LockInv' /\ HandInv'
  BY <1>0 DEF TrackerInv, LockInv, HandInv
<1>3. SizeInv'
  BY <1>0 DEF TrackerInv, SizeInv, Small
<1>4. TailInv'
  BY <1>0, TailIs DEF TrackerInv
<1>5. PlaceInv'
  BY <1>0, PlacesStay DEF TrackerInv
<1>6. UsageExact' /\ WithinMaxSize'
  <2>1. \A b : b \in Accounted' <=> b \in Accounted
    BY <1>0, AccountedAre DEF Pending
  <2>2. UsedBytes' = UsedBytes /\ Reserved' = Reserved
    BY <1>0, <2>1, SameUsed, SameReserved
  <2> QED
    BY <1>0, <2>2 DEF TrackerInv, UsageExact, WithinMaxSize
<1> QED
  BY <1>1, <1>2, <1>3, <1>4, <1>5, <1>6 DEF TrackerInv

(* The accounting, the hands and the lists of the tracker together, as     *)
(* every step of a context or of the filter keeps them.                    *)
THEOREM TrackerInvariant == Spec => []TrackerInv
<1>1. TrackerInv /\ [Next]_vars => TrackerInv'
  <2>1. TrackerInv /\ Next => TrackerInv'
    BY TypeStep, LockStep, HandStep, SizeStep, PlaceStep, UsageStep DEF TrackerInv
  <2> QED
    BY <2>1, TrackerStutter
<1> QED
  BY <1>1, TrackerInit, PTL DEF Spec

(* Every variable keeps its type.  What says something is that the         *)
(* counters stay natural numbers: neither the reservations nor             *)
(* currentUsage are ever reduced by more than is in them.                  *)
THEOREM TrackerTypes == Spec => []TypeOK
<1>1. TrackerInv => TypeOK
  BY DEF TrackerInv
<1> QED
  BY <1>1, TrackerInvariant, PTL

(* currentUsage is exactly what the blocks use, the contexts have in       *)
(* reserve, the filter has yet to take off and ended contexts have taken   *)
(* with them, through every interleaving of the lock-free accounting.      *)
THEOREM UsageIsExact == Spec => []UsageExact
<1>1. TrackerInv => UsageExact
  BY DEF TrackerInv
<1> QED
  BY <1>1, TrackerInvariant, PTL

(* ... and never more than maxSize: threads that allocate at the same time *)
(* cannot take the heap over its limit between them.                       *)
THEOREM HeapWithinMaxSize == Spec => []WithinMaxSize
<1>1. TrackerInv => WithinMaxSize
  BY DEF TrackerInv
<1> QED
  BY <1>1, TrackerInvariant, PTL

-----------------------------------------------------------------------------
(* A block is in no list or in one, and in no hand or in one.              *)
LEMMA CountNone == ASSUME NEW S, S = {} PROVE Cardinality(S) = 0
  BY FS_EmptySet

LEMMA CountOne == ASSUME NEW S, NEW x, S = {x} PROVE Cardinality(S) = 1
  BY FS_Singleton

LEMMA BlockCounted ==
    ASSUME TrackerInv, NEW b \in Block
    PROVE  Cardinality({l \in Starts : b \in ListFrom(l[2])})
             + Cardinality({h \in InHand : h[2] = b})
               = IF totalSize[b] = 0 THEN 0 ELSE 1
<1>1. PICK where \in [Block -> Places] : Placed(where) /\ Acyclic(where)
  BY DEF TrackerInv, PlaceInv
<1>2. OnlyAt(b, where[b]) /\ where[b] \in Places
  BY <1>1 DEF Placed
<1> DEFINE on == {l \in Starts : b \in ListFrom(l[2])}
           held == {h \in InHand : h[2] = b}
<1>3. \A l : l \in on <=> \/ l = <<"global", head>> /\ where[b] = Global
                          \/ l = <<"snapshot", unfiltered>> /\ where[b] = Snapshot
                          \/ \E c \in Context : l = <<c, ctx[c].allocListHead>> /\ where[b] = List(c)
  BY <1>2 DEF Starts, OnlyAt
<1>4. \A h : h \in held <=> \/ h = <<"gc", gcBlock>> /\ where[b] = Filtered
                            \/ \E c \in Context : h = <<c, ctx[c].block>> /\ where[b] = Hand(c)
  BY <1>2 DEF InHand, OnlyAt
<1>5. totalSize[b] = 0 <=> where[b] = Free
  BY <1>2 DEF OnlyAt
<1> HIDE DEF on, held
<1>6. CASE where[b] = Free
  <2>1. on = {} /\ held = {}
    BY <1>3, <1>4, <1>6, PlacesDiffer
  <2> QED
    BY <1>5, <1>6, <2>1, CountNone DEF on, held
<1>7. ASSUME NEW x, on = {x}, held = {}, where[b] # Free
      PROVE  Cardinality(on) + Cardinality(held) = IF totalSize[b] = 0 THEN 0 ELSE 1
  <2>1. Cardinality(on) = 1 /\ Cardinality(held) = 0
    BY <1>7, CountNone, CountOne
  <2> QED
    BY <1>5, <1>7, <2>1
<1>8. ASSUME NEW x, on = {}, held = {x}, where[b] # Free
      PROVE  Cardinality(on) + Cardinality(held) = IF totalSize[b] = 0 THEN 0 ELSE 1
  <2>1. Cardinality(held) = 1 /\ Cardinality(on) = 0
    BY <1>8, CountNone, CountOne
  <2> QED
    BY <1>5, <1>8, <2>1
<1>9. CASE where[b] = Global
  <2>1. on = {<<"global", head>>} /\ held = {} /\ where[b] # Free
    BY <1>3, <1>4, <1>9, PlacesDiffer
  <2> QED
    BY <1>7, <2>1 DEF on, held
<1>10. CASE where[b] = Snapshot
  <2>1. on = {<<"snapshot", unfiltered>>} /\ held = {} /\ where[b] # Free
    BY <1>3, <1>4, <1>10, PlacesDiffer
  <2> QED
    BY <1>7, <2>1 DEF on, held
<1>11. CASE where[b] = Filtered
  <2>1. on = {} /\ held = {<<"gc", gcBlock>>} /\ where[b] # Free
    BY <1>3, <1>4, <1>11, PlacesDiffer
  <2> QED
    BY <1>8, <2>1 DEF on, held
<1>12. ASSUME NEW c \in Context, where[b] = List(c)
       PROVE  Cardinality(on) + Cardinality(held) = IF totalSize[b] = 0 THEN 0 ELSE 1
  <2>1. on = {<<c, ctx[c].allocListHead>>} /\ held = {} /\ where[b] # Free
    BY <1>3, <1>4, <1>12, PlacesDiffer
  <2> QED
    BY <1>7, <2>1
<1>13. ASSUME NEW c \in Context, where[b] = Hand(c)
       PROVE  Cardinality(on) + Cardinality(held) = IF totalSize[b] = 0 THEN 0 ELSE 1
  <2>1. on = {} /\ held = {<<c, ctx[c].block>>} /\ where[b] # Free
    BY <1>3, <1>4, <1>13, PlacesDiffer
  <2> QED
    BY <1>8, <2>1
<1> QED
  BY <1>2, <1>6, <1>9, <1>10, <1>11, <1>12, <1>13 DEF Places, Lists, on, held

LEMMA ListEnds ==
    ASSUME TrackerInv, NEW l \in Starts, l[2] # NULL
    PROVE  \E b \in ListFrom(l[2]) : next[b] = NULL
<1>0. TypeOK /\ next \in [Block -> Ref] /\ l[2] \in Block
  <2>1. /\ TypeOK /\ next \in [Block -> Ref] /\ head \in Ref /\ unfiltered \in Ref
        /\ \A c \in Context : ctx[c].allocListHead \in Ref
    BY DEF TrackerInv, TypeOK, StructContext
  <2>2. l[2] \in Ref
    BY <2>1 DEF Starts
  <2> QED
    BY <2>1, <2>2 DEF Ref
<1>1. PICK where \in [Block -> Places] : Placed(where) /\ Acyclic(where)
  BY DEF TrackerInv, PlaceInv
<1> DEFINE L == Chain(next, l[2])
<1>2. l[2] \in L /\ \A b \in L : b \in Block /\ next[b] \in L \union {NULL}
  BY <1>0, ChainStart, ChainIsSet, ChainClosed
<1>3. \A b \in L : where[b] \in Lists
  <2>1. \/ l[2] = head \/ l[2] = unfiltered
        \/ \E c \in Context : l[2] = ctx[c].allocListHead
    BY DEF Starts
  <2> QED
    BY <1>1, <1>2, <2>1, PlacedIs, PlaceNames
<1> HIDE DEF L
<1>4. PICK b \in L : next[b] \notin L
  BY <1>1, <1>2, <1>3 DEF Acyclic
<1> QED
  BY <1>2, <1>4, ListIsChain DEF L

(* No block is lost, listed twice or both listed and freed, and every list *)
(* ends, with the filter, the end of a context and the allocations of      *)
(* others changing the lists at the same time.                             *)
THEOREM BlocksAreOnce == Spec => []EveryBlockOnce
<1>1. TrackerInv => EveryBlockOnce
  <2> SUFFICES ASSUME TrackerInv PROVE EveryBlockOnce
    OBVIOUS
  <2>1. TailInv
    BY DEF TrackerInv
  <2> QED
    BY <2>1, BlockCounted, ListEnds DEF EveryBlockOnce, TailInv, Busy
<1> QED
  BY <1>1, TrackerInvariant, PTL
-----------------------------------------------------------------------------
(* The object store that the lists implement: its set of blocks ...        *)
LEMMA BlocksAre ==
    ASSUME NEW b
    PROVE  /\ b \in Blocks <=> /\ b \in Block /\ totalSize[b] > 0
                               /\ \A d \in Context : ctx[d].pc \in Allocating => ctx[d].block # b
           /\ b \in Blocks' <=> /\ b \in Block /\ totalSize'[b] > 0
                                /\ \A d \in Context : ctx'[d].pc \in Allocating => ctx'[d].block # b
  BY DEF Blocks

LEMMA SameBlocks ==
    ASSUME totalSize' = totalSize,
           \A d \in Context : /\ ctx'[d].pc \in Allocating <=> ctx[d].pc \in Allocating
                              /\ ctx[d].pc \in Allocating => ctx'[d].block = ctx[d].block
    PROVE  Blocks' = Blocks
<1>1. \A b : b \in Blocks' <=> b \in Blocks
  BY BlocksAre
<1> QED
  BY <1>1

(* ... and its snapshot, which only the GC thread changes.                 *)
LEMMA SnapshotIsChain ==
    /\ ListFrom(unfiltered) = Chain(next, unfiltered)
    /\ ListFrom(unfiltered)' = Chain(next', unfiltered')
  BY ListIsChain, ListsNext

LEMMA SameSnapshot ==
    ASSUME TrackerInv, TypeOK', unfiltered' = unfiltered,
           \A b \in ListFrom(unfiltered) : next'[b] = next[b]
    PROVE  ListFrom(unfiltered)' = ListFrom(unfiltered)
<1>1. /\ next \in [Block -> Ref] /\ next' \in [Block -> Ref] /\ unfiltered \in Ref
      /\ \A b \in Chain(next, unfiltered) : next'[b] = next[b]
  BY SnapshotIsChain DEF TrackerInv, TypeOK
<1>2. Chain(next', unfiltered) = Chain(next, unfiltered)
  BY <1>1, ChainSame
<1> QED
  BY <1>2, SnapshotIsChain

LEMMA ContextIsStore ==
    ASSUME TrackerInv, TypeOK', NEW c \in Context, ContextStep(c)
    PROVE  /\ ListFrom(unfiltered)' = ListFrom(unfiltered)
           /\ \/ Blocks' = Blocks
              \/ \E block \in Block : block \notin Blocks /\ Blocks' = Blocks \union {block}
<1>0. TypeOK /\ HandInv /\ ctx \in [Context -> StructContext] /\ totalSize \in [Block -> Nat]
      /\ next \in [Block -> Ref]
  BY DEF TrackerInv, TypeOK
<1> USE DEF listVars, lockVars, gcVars
<1>1. ASSUME NEW block \in Block, NEW size \in AllocSize, Malloc(c, block, size)
      PROVE  ListFrom(unfiltered)' = ListFrom(unfiltered) /\ Blocks' = Blocks
  <2>1. /\ totalSize[block] = 0 /\ unfiltered' = unfiltered
        /\ \A b \in Block : b # block => totalSize'[b] = totalSize[b] /\ next'[b] = next[b]
    BY <1>0, <1>1 DEF Malloc
  <2>2. /\ ctx[c].pc = "idle" /\ ctx'[c].pc = "account" /\ ctx'[c].block = block
        /\ \A d \in Context : d # c => ctx'[d] = ctx[d]
    BY <1>0, <1>1 DEF Malloc, StructContext
  <2>3. \A b \in ListFrom(unfiltered) : b \in Block /\ b # block
    BY <2>1, FreeAlone DEF ListFrom
  <2>4. ASSUME NEW b PROVE b \in Blocks' <=> b \in Blocks
    <3>1. CASE b = block
      BY <2>1, <2>2, <3>1, BlocksAre DEF Allocating
    <3>2. CASE b # block
      BY <2>1, <2>2, <3>2, BlocksAre DEF Allocating
    <3> QED
      BY <3>1, <3>2
  <2> QED
    BY <2>1, <2>3, <2>4, SameSnapshot
<1>2. CASE FastDoSmallAccounting(c) \/ LoadUsage(c) \/ CasUsage(c)
  <2>1. UNCHANGED <<next, unfiltered, totalSize>>
    BY <1>2 DEF FastDoSmallAccounting, LoadUsage, CasUsage
  <2>2. /\ ctx[c].pc \in Allocating /\ ctx'[c].pc \in Allocating /\ ctx'[c].block = ctx[c].block
        /\ \A d \in Context : d # c => ctx'[d] = ctx[d]
    <3>1. CASE FastDoSmallAccounting(c)
      BY <1>0, <3>1 DEF FastDoSmallAccounting, StructContext, Allocating
    <3>2. CASE LoadUsage(c)
      BY <1>0, <3>2 DEF LoadUsage, StructContext, Allocating
    <3>3. CASE CasUsage(c)
      BY <1>0, <3>3 DEF CasUsage, StructContext, Allocating
    <3> QED
      BY <1>2, <3>1, <3>2, <3>3
  <2>3. ASSUME NEW d \in Context
        PROVE  /\ ctx'[d].pc \in Allocating <=> ctx[d].pc \in Allocating
               /\ ctx'[d].block = ctx[d].block
    BY <2>2
  <2> QED
    BY <2>1, <2>3, SameBlocks, SameSnapshot
<1>3. CASE AddBlock(c)
  <2>1. /\ ctx[c].pc = "add" /\ totalSize' = totalSize /\ unfiltered' = unfiltered
        /\ ctx'[c].pc = "idle" /\ \A d \in Context : d # c => ctx'[d] = ctx[d]
    BY <1>0, <1>3 DEF AddBlock, StructContext
  <2>2. PICK block \in Block : block = ctx[c].block
    BY <2>1, BlockInHand DEF Allocating, TrackerInv
  <2>3. totalSize[block] > 0 /\ \A d \in Context : d # c => ctx[d].block # block
    BY <1>0, <2>2, HandAlone
  <2>4. ASSUME NEW b PROVE b \in Blocks' <=> b \in Blocks \union {block}
    <3>1. CASE b = block
      BY <2>1, <2>3, <3>1, BlocksAre DEF Allocating
    <3>2. CASE b # block
      BY <2>1, <2>2, <3>2, BlocksAre DEF Allocating
    <3> QED
      BY <3>1, <3>2
  <2>5. block \notin Blocks
    BY <2>1, <2>2, BlocksAre DEF Allocating
  <2>6. \A b \in ListFrom(unfiltered) : next'[b] = next[b]
    <3> DEFINE tail == ctx[c].allocListTail
    <3>1. CASE tail = NULL
      BY <1>3, <3>1 DEF AddBlock
    <3>2. CASE tail # NULL
      <4>1. tail \in Chain(next, ctx[c].allocListHead)
        BY <2>1, <3>2, TailIs DEF TrackerInv, Busy, Allocating
      <4>2. PICK where \in [Block -> Places] : Placed(where)
        BY DEF TrackerInv, PlaceInv
      <4>3. tail \in Block /\ tail \notin Chain(next, unfiltered)
        <5>1. tail \in Block
          BY <4>1, ChainIsSet
        <5>2. where[tail] = List(c)
          BY <4>1, <4>2, <5>1, PlacedIs
        <5> QED
          BY <4>2, <5>1, <5>2, PlacedIs, PlacesDiffer
      <4>4. \A b \in Block : b # tail => next'[b] = next[b]
        BY <1>0, <1>3, <3>2 DEF AddBlock
      <4> HIDE DEF tail
      <4> QED
        BY <4>3, <4>4, SnapshotIsChain, ChainIsSet
    <3> QED
      BY <3>1, <3>2
  <2> QED
    BY <2>1, <2>4, <2>5, <2>6, SameSnapshot
<1>4. CASE FailAlloc(c)
  <2>1. /\ ctx[c].pc = "fail" /\ UNCHANGED <<next, unfiltered>> /\ ctx'[c].pc = "idle"
        /\ \A d \in Context : d # c => ctx'[d] = ctx[d]
    BY <1>0, <1>4 DEF FailAlloc, StructContext
  <2>2. PICK block \in Block : block = ctx[c].block
    BY <2>1, BlockInHand DEF Allocating, TrackerInv
  <2>3. totalSize'[block] = 0 /\ \A b \in Block : b # block => totalSize'[b] = totalSize[b]
    BY <1>0, <1>4, <2>2 DEF FailAlloc
  <2>4. ASSUME NEW b PROVE b \in Blocks' <=> b \in Blocks
    <3>1. CASE b = block
      BY <2>1, <2>2, <2>3, <3>1, BlocksAre DEF Allocating
    <3>2. CASE b # block
      BY <2>1, <2>2, <2>3, <3>2, BlocksAre DEF Allocating
    <3> QED
      BY <3>1, <3>2
  <2> QED
    BY <2>1, <2>4, SameSnapshot
<1>5. CASE AddContext(c) \/ RemoveContext(c) \/ LoadHead(c) \/ FreeContext(c)
  <2>1. UNCHANGED <<next, unfiltered, totalSize>>
    BY <1>5 DEF AddContext, RemoveContext, LoadHead, FreeContext
  <2>2. /\ ctx[c].pc \notin Allocating /\ ctx'[c].pc \notin Allocating
        /\ \A d \in Context : d # c => ctx'[d] = ctx[d]
    <3>1. CASE AddContext(c)
      BY <1>0, <3>1 DEF AddContext, NewContext, Allocating
    <3>2. CASE RemoveContext(c)
      BY <1>0, <3>2 DEF RemoveContext, StructContext, Allocating
    <3>3. CASE LoadHead(c)
      BY <1>0, <3>3 DEF LoadHead, StructContext, Allocating
    <3>4. CASE FreeContext(c)
      BY <1>0, <3>4 DEF FreeContext, NoContext, NewContext, Allocating
    <3> QED
      BY <1>5, <3>1, <3>2, <3>3, <3>4
  <2>3. ASSUME NEW d \in Context
        PROVE  /\ ctx'[d].pc \in Allocating <=> ctx[d].pc \in Allocating
               /\ ctx[d].pc \in Allocating => ctx'[d].block = ctx[d].block
    BY <2>2
  <2> QED
    BY <2>1, <2>3, SameBlocks, SameSnapshot
<1>6. CASE PushBlock(c)
  <2>1. ctx[c].pc = "push" /\ UNCHANGED <<unfiltered, totalSize>>
    BY <1>6 DEF PushBlock
  <2>2. PICK block \in Block : block = ctx[c].block
    BY <1>0, <2>1 DEF HandInv, StructContext, Ref
  <2>3. \A b \in Block : b # block => next'[b] = next[b]
    BY <1>0, <1>6, <2>2 DEF PushBlock, CasHead
  <2>4. ctx'[c].pc \notin Allocating /\ \A d \in Context : d # c => ctx'[d] = ctx[d]
    BY <1>0, <1>6 DEF PushBlock, StructContext, Allocating
  <2>5. ASSUME NEW d \in Context
        PROVE  /\ ctx'[d].pc \in Allocating <=> ctx[d].pc \in Allocating
               /\ ctx[d].pc \in Allocating => ctx'[d].block = ctx[d].block
    BY <2>1, <2>4 DEF Allocating
  <2>6. \A b \in ListFrom(unfiltered) : b \in Block /\ b # block
    BY <2>2, HandAlone DEF ListFrom
  <2> QED
    BY <2>1, <2>3, <2>5, <2>6, SameBlocks, SameSnapshot
<1> QED
  BY <1>1, <1>2, <1>3, <1>4, <1>5, <1>6 DEF ContextStep, AllocStep, FreeStep
LEMMA FilterIsStore ==
    ASSUME TrackerInv, TypeOK', FilterStep
    PROVE  \/ ListFrom(unfiltered)' = ListFrom(unfiltered) /\ Blocks' = Blocks
           \/ \E block \in ListFrom(unfiltered) :
                 /\ ListFrom(unfiltered)' = ListFrom(unfiltered) \ {block}
                 /\ Blocks' = Blocks \/ Blocks' = Blocks \ {block}
<1>0. TypeOK /\ HandInv /\ totalSize \in [Block -> Nat] /\ next \in [Block -> Ref]
  BY DEF TrackerInv, TypeOK
<1> USE DEF listVars, lockVars, gcVars
<1>1. CASE PushKept
  <2>1. UNCHANGED <<totalSize, ctx, unfiltered>>
    BY <1>1 DEF PushKept
  <2>2. PICK block \in Block : block = gcBlock
    BY <1>0, <1>1 DEF PushKept, HandInv, TypeOK, Ref
  <2>3. \A b \in Block : b # block => next'[b] = next[b]
    BY <1>0, <1>1, <2>2 DEF PushKept, CasHead
  <2>4. \A b \in ListFrom(unfiltered) : b \in Block /\ b # block
    BY <2>2, FilteredAlone DEF ListFrom
  <2> QED
    BY <2>1, <2>3, <2>4, SameBlocks, SameSnapshot
<1>2. CASE EndFilter
  <2>1. UNCHANGED <<totalSize, ctx, unfiltered, next>>
    BY <1>2 DEF EndFilter
  <2> QED
    BY <2>1, SameBlocks, SameSnapshot
<1>3. ASSUME KeepBlock \/ FreeBlock
      PROVE  \E block \in ListFrom(unfiltered) :
                /\ ListFrom(unfiltered)' = ListFrom(unfiltered) \ {block}
                /\ Blocks' = Blocks \/ Blocks' = Blocks \ {block}
  <2>1. /\ unfiltered # NULL /\ unfiltered' = next[unfiltered]
        /\ UNCHANGED <<next, ctx>>
    BY <1>3 DEF KeepBlock, FreeBlock
  <2>2. PICK block \in Block : block = unfiltered
    BY <1>0, <2>1 DEF TypeOK, Ref
  <2>3. PICK where \in [Block -> Places] : Placed(where) /\ Acyclic(where)
    BY DEF TrackerInv, PlaceInv
  <2>4. Chain(next, block) \subseteq Listed(where)
    BY <2>2, <2>3, PlacedIs, PlaceNames, ChainIsSet DEF Listed
  <2>5. Chain(next, next[block]) = Chain(next, block) \ {block}
    BY <1>0, <2>2, <2>3, <2>4, Rest
  <2>6. /\ ListFrom(unfiltered)' = ListFrom(unfiltered) \ {block}
        /\ block \in ListFrom(unfiltered)
    BY <2>1, <2>2, <2>5, SnapshotIsChain, ListHead
  <2>7. CASE KeepBlock
    <3>1. totalSize' = totalSize
      BY <2>7 DEF KeepBlock
    <3>2. Blocks' = Blocks
      BY <2>1, <3>1, SameBlocks
    <3> QED
      BY <2>6, <3>2
  <2>8. CASE FreeBlock
    <3>1. totalSize'[block] = 0 /\ \A b \in Block : b # block => totalSize'[b] = totalSize[b]
      BY <1>0, <2>2, <2>8 DEF FreeBlock
    <3>2. ASSUME NEW b PROVE b \in Blocks' <=> b \in Blocks \ {block}
      <4>1. CASE b = block
        BY <3>1, <4>1, BlocksAre
      <4>2. CASE b # block
        BY <2>1, <3>1, <4>2, BlocksAre
      <4> QED
        BY <4>1, <4>2
    <3> QED
      BY <2>6, <3>2
  <2> QED
    BY <1>3, <2>7, <2>8
<1> QED
  BY <1>1, <1>2, <1>3 DEF FilterStep

LEMMA TakeSnapshotIsStore ==
    ASSUME TrackerInv, TrackerInv', TakeSnapshot
    PROVE  /\ ListFrom(unfiltered) = {} /\ Blocks' = Blocks
           /\ ListFrom(unfiltered)' = Blocks
<1>0. TypeOK /\ totalSize \in [Block -> Nat]
  BY DEF TrackerInv, TypeOK
<1>1. /\ \A c \in Context : ctx[c].pc \in {"none", "idle"} /\ ctx[c].block = NULL
      /\ unfiltered = NULL /\ gcBlock = NULL
  BY <1>0, SnapshotIs, SnapshotAlone
<1>2. /\ \A c \in Context : /\ ctx'[c].allocListHead = NULL
                            /\ ctx'[c].block = NULL /\ ctx'[c].pc = ctx[c].pc
      /\ head' = NULL /\ gcBlock' = NULL /\ totalSize' = totalSize
  BY <1>0, <1>1, SnapshotIs
<1>3. ListFrom(unfiltered) = {}
  BY <1>1, SnapshotIsChain, ChainNull
<1>4. \A b : b \in Blocks <=> b \in Block /\ totalSize[b] > 0
  BY <1>1, BlocksAre DEF Allocating
<1>5. Blocks' = Blocks
  BY <1>1, <1>2, SameBlocks
<1>6. ASSUME NEW b \in Block PROVE b \in ListFrom(unfiltered)' <=> b \in Blocks
  <2>1. PICK where \in [Block -> Places] : Placed(where)'
    BY DEF TrackerInv, PlaceInv
  <2>2. OnlyAt(b, where[b])'
    BY <2>1 DEF Placed
  <2>3. /\ where[b] = Free <=> totalSize'[b] = 0
        /\ where[b] = Global <=> b \in Chain(next', head')
        /\ where[b] = Snapshot <=> b \in Chain(next', unfiltered')
        /\ where[b] = Filtered <=> b = gcBlock'
        /\ \A c \in Context : /\ where[b] = List(c) <=> b \in Chain(next', ctx'[c].allocListHead)
                              /\ where[b] = Hand(c) <=> b = ctx'[c].block
    BY <2>2, OnlyAtNext
  <2>4. \A start : start = NULL => b \notin Chain(next', start)
    BY ChainNull
  <2>5. where[b] \in {Free, Snapshot}
    BY <1>2, <2>3, <2>4, TrackerNames DEF Places, Lists
  <2>6. where[b] = Snapshot <=> totalSize[b] # 0
    BY <1>2, <2>3, <2>5, PlacesDiffer
  <2> QED
    BY <1>0, <1>4, <2>3, <2>6, SnapshotIsChain
<1>7. ListFrom(unfiltered)' = Blocks
  <2>1. ListFrom(unfiltered)' \in SUBSET Block /\ Blocks \in SUBSET Block
    BY SnapshotIsChain, ChainIsSet DEF Blocks
  <2> QED
    BY <1>6, <2>1
<1> QED
  BY <1>3, <1>5, <1>7

(* To the collector all this is one set of blocks: each step of the lists  *)
(* and the accounting adds an allocated block to it, takes a snapshot of   *)
(* the whole set, lets the filter keep or free one block of the snapshot,  *)
(* or is none of the collector's concern.                                  *)
THEOREM TrackerImplementsStore == Spec => ImplementsObjectStore
<1> USE DEF Store!StoreInit, Store!StoreNext, Store!storeVars, Store!Add, Store!TakeAll,
            Store!Keep, Store!Drop
<1>1. Init => Store!StoreInit
  <2> SUFFICES ASSUME Init PROVE Store!StoreInit
    OBVIOUS
  <2>1. \A b \in Block : totalSize[b] = 0
    BY DEF Init
  <2>2. Blocks = {}
    BY <2>1 DEF Blocks
  <2>3. ListFrom(unfiltered) = {}
    BY SnapshotIsChain, ChainNull DEF Init
  <2> QED
    BY <2>2, <2>3
<1>2. TrackerInv /\ TrackerInv' /\ [Next]_vars => [Store!StoreNext]_Store!storeVars
  <2> SUFFICES ASSUME TrackerInv, TrackerInv', [Next]_vars
               PROVE  [Store!StoreNext]_Store!storeVars
    OBVIOUS
  <2>0. TypeOK' /\ \A b \in ListFrom(unfiltered) : b \in Block
    BY DEF TrackerInv, ListFrom
  <2>1. ASSUME NEW c \in Context, ContextStep(c) PROVE [Store!StoreNext]_Store!storeVars
    BY <2>0, <2>1, ContextIsStore
  <2>2. CASE TakeSnapshot
    BY <2>2, TakeSnapshotIsStore
  <2>3. CASE FilterStep
    BY <2>0, <2>3, FilterIsStore
  <2>4. CASE UNCHANGED vars
    <3>1. UNCHANGED <<totalSize, ctx, unfiltered, next>>
      BY <2>4 DEF vars, listVars, gcVars
    <3> QED
      BY <2>0, <3>1, SameBlocks, SameSnapshot
  <2> QED
    BY <2>1, <2>2, <2>3, <2>4 DEF Next
<1> QED
  BY <1>1, <1>2, TrackerInvariant, PTL DEF Spec, ImplementsObjectStore, Store!StoreSpec
=============================================================================
