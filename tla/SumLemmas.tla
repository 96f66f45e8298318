----------------------------- MODULE SumLemmas -----------------------------
(***************************************************************************)
(* Lemmas on finite sets and on the community modules' SumFunctionOnSet,   *)
(* by induction: a set of counterexamples that is not empty has a smallest *)
(* one.  The recursive function behind SumFunctionOnSet is a choice of a   *)
(* function that satisfies its equation, so that such a function exists    *)
(* has to be proved first.                                                 *)
(***************************************************************************)
EXTENDS FiniteSetsExt, FiniteSetTheorems, TLAPS

(* A family of subsets of a finite set has a minimal member. *)
LEMMA MinimalSubset ==
    ASSUME NEW S, IsFiniteSet(S), NEW F \in SUBSET SUBSET S, F # {}
    PROVE  \E m \in F : \A y \in F : y \subseteq m => y = m
<1>1. IsWellFoundedOn(StrictSubsetOrdering(S), FiniteSubsetsOf(S))
  BY FS_StrictSubsetOrderingWellFounded
<1>2. F \subseteq FiniteSubsetsOf(S)
  BY FS_FiniteSubsetsOfFinite
<1>3. PICK m \in F : \A y \in F : <<y, m>> \notin StrictSubsetOrdering(S)
  BY <1>1, <1>2, WFMin
<1> QED
  BY <1>3 DEF StrictSubsetOrdering

(* ... and a set of natural numbers a least one, one that is bounded also  *)
(* a greatest one.                                                         *)
LEMMA LeastNumber ==
    ASSUME NEW n \in Nat, NEW S \in SUBSET (0 .. n), S # {}
    PROVE  \E m \in S : \A k \in S : m <= k
<1> DEFINE Upto(k) == 0 .. k
           F == {Upto(k) : k \in S}
<1>0. IsFiniteSet(0 .. n)
  BY FS_Interval
<1>1. F \in SUBSET SUBSET (0 .. n) /\ F # {}
  <2>1. \A k \in S : Upto(k) \in SUBSET (0 .. n)
    OBVIOUS
  <2> HIDE DEF Upto
  <2> QED
    BY <2>1
<1>2. PICK m \in F : \A y \in F : y \subseteq m => y = m
  <2> HIDE DEF F
  <2> DEFINE numbers == 0 .. n
  <2>1. IsFiniteSet(numbers) /\ F \in SUBSET SUBSET numbers /\ F # {}
    BY <1>0, <1>1
  <2> HIDE DEF numbers
  <2> QED
    BY <2>1, MinimalSubset
<1>3. PICK k \in S : m = Upto(k)
  BY <1>2
<1>4. ASSUME NEW j \in S, j < k PROVE FALSE
  <2>1. Upto(j) \subseteq Upto(k) /\ Upto(j) # Upto(k)
    BY <1>4
  <2> QED
    BY <1>2, <1>3, <2>1
<1> QED
  BY <1>4

LEMMA GreatestNumber ==
    ASSUME NEW n \in Nat, NEW S \in SUBSET (0 .. n), S # {}
    PROVE  \E m \in S : \A k \in S : k <= m
<1> DEFINE T == {n - k : k \in S}
<1>1. T \in SUBSET (0 .. n) /\ T # {}
  OBVIOUS
<1>2. PICK m \in T : \A k \in T : m <= k
  <2> HIDE DEF T
  <2> QED
    BY <1>1, LeastNumber
<1>3. PICK k \in S : m = n - k
  BY <1>2
<1>4. ASSUME NEW j \in S PROVE j <= k
  <2>1. n - j \in T /\ j \in 0 .. n /\ k \in 0 .. n
    OBVIOUS
  <2>2. m <= n - j
    BY <1>2, <2>1
  <2> QED
    BY <1>3, <2>1, <2>2
<1> QED
  BY <1>4

-----------------------------------------------------------------------------
Chosen(s) == CHOOSE x \in s : TRUE

(* The equation of the recursive function in MapThenFoldSet *)
Fold(f, S, g) ==
    [s \in SUBSET S |-> IF s = {} THEN 0 ELSE f[Chosen(s)] + g[s \ {Chosen(s)}]]

LEMMA ChosenIsIn == \A s : s # {} => Chosen(s) \in s
  BY DEF Chosen

LEMMA SumUnfold ==
    ASSUME NEW f, NEW S
    PROVE  SumFunctionOnSet(f, S) = (CHOOSE g : g = Fold(f, S, g))[S]
  BY DEF SumFunctionOnSet, FoldFunctionOnSet, MapThenFoldSet, Fold, Chosen

(* Two functions that satisfy it agree where both are defined. *)
LEMMA FoldUnique ==
    ASSUME NEW f, NEW S, IsFiniteSet(S), NEW A \in SUBSET S, NEW B \in SUBSET S,
           NEW g, g = Fold(f, A, g), NEW h, h = Fold(f, B, h)
    PROVE  \A s \in SUBSET (A \intersect B) : g[s] = h[s]
<1> DEFINE F == {s \in SUBSET (A \intersect B) : g[s] # h[s]}
<1> SUFFICES ASSUME F # {} PROVE FALSE
  OBVIOUS
<1>0. F \in SUBSET SUBSET S
  OBVIOUS
<1>1. PICK m \in F : \A y \in F : y \subseteq m => y = m
  <2> HIDE DEF F
  <2> QED
    BY <1>0, MinimalSubset
<1>2. m \in SUBSET A /\ m \in SUBSET B
  OBVIOUS
<1>3. g[m] = IF m = {} THEN 0 ELSE f[Chosen(m)] + g[m \ {Chosen(m)}]
  BY <1>2 DEF Fold
<1>4. h[m] = IF m = {} THEN 0 ELSE f[Chosen(m)] + h[m \ {Chosen(m)}]
  BY <1>2 DEF Fold
<1>5. m # {} => Chosen(m) \in m /\ m \ {Chosen(m)} \notin F
  BY <1>1, ChosenIsIn
<1> QED
  BY <1>1, <1>3, <1>4, <1>5

LEMMA FoldExists ==
    ASSUME NEW f, NEW S, IsFiniteSet(S)
    PROVE  \E g : g = Fold(f, S, g)
<1> DEFINE F == {s \in SUBSET S : ~\E g : g = Fold(f, s, g)}
<1> SUFFICES ASSUME F # {} PROVE FALSE
  OBVIOUS
<1>0. F \in SUBSET SUBSET S
  OBVIOUS
<1>1. PICK m \in F : \A y \in F : y \subseteq m => y = m
  <2> HIDE DEF F
  <2> QED
    BY <1>0, MinimalSubset
<1> DEFINE G(s) == CHOOSE g : g = Fold(f, s, g)
<1>2. ASSUME NEW s \in SUBSET m, s # m PROVE G(s) = Fold(f, s, G(s))
  <2>1. \E g : g = Fold(f, s, g)
    BY <1>1, <1>2
  <2> QED
    BY <2>1
<1> DEFINE Value(s) == IF s = {} THEN 0 ELSE f[Chosen(s)] + G(s \ {Chosen(s)})[s \ {Chosen(s)}]
           g == [s \in SUBSET m |-> Value(s)]
<1>3. ASSUME NEW s \in SUBSET m, s # m PROVE g[s] = G(s)[s]
  <2> DEFINE t == s \ {Chosen(s)}
  <2> HIDE DEF G
  <2>1. G(s)[s] = IF s = {} THEN 0 ELSE f[Chosen(s)] + G(s)[t]
    BY <1>2, <1>3 DEF Fold
  <2>2. CASE s # {}
    <3>1. t \in SUBSET m /\ t # m /\ t \in SUBSET s /\ s \in SUBSET S /\ t \in SUBSET S
      BY <1>3
    <3>2. G(s)[t] = G(t)[t]
      BY <1>2, <1>3, <3>1, FoldUnique
    <3> QED
      BY <2>1, <2>2, <3>2
  <2> QED
    BY <2>1, <2>2
<1>4. g = Fold(f, m, g)
  <2> HIDE DEF G
  <2>1. ASSUME NEW s \in SUBSET m, s # {}
        PROVE  Value(s) = f[Chosen(s)] + g[s \ {Chosen(s)}]
    <3>1. s \ {Chosen(s)} \in SUBSET m /\ s \ {Chosen(s)} # m
      BY <2>1, ChosenIsIn
    <3> QED
      BY <2>1, <3>1, <1>3
  <2> QED
    BY <2>1 DEF Fold
<1> QED
  BY <1>1, <1>4

LEMMA SumIsFold ==
    ASSUME NEW f, NEW S, IsFiniteSet(S), NEW g, g = Fold(f, S, g), NEW T \in SUBSET S
    PROVE  SumFunctionOnSet(f, T) = g[T]
<1> DEFINE h == CHOOSE h : h = Fold(f, T, h)
<1>1. IsFiniteSet(T)
  BY FS_Subset
<1>2. h = Fold(f, T, h)
  BY <1>1, FoldExists
<1> HIDE DEF h
<1>3. g[T] = h[T]
  BY <1>2, FoldUnique
<1> QED
  BY <1>3, SumUnfold DEF h

(* What the recursion says. *)
LEMMA SumStep ==
    ASSUME NEW f, NEW S, IsFiniteSet(S)
    PROVE  SumFunctionOnSet(f, S) =
               IF S = {} THEN 0 ELSE f[Chosen(S)] + SumFunctionOnSet(f, S \ {Chosen(S)})
<1>1. PICK g : g = Fold(f, S, g)
  BY FoldExists
<1>2. /\ SumFunctionOnSet(f, S) = g[S]
      /\ SumFunctionOnSet(f, S \ {Chosen(S)}) = g[S \ {Chosen(S)}]
  BY <1>1, SumIsFold
<1>3. g[S] = IF S = {} THEN 0 ELSE f[Chosen(S)] + g[S \ {Chosen(S)}]
  BY <1>1 DEF Fold
<1> QED
  BY <1>2, <1>3

-----------------------------------------------------------------------------
(* A sum of natural numbers is one, ... *)
LEMMA SumType ==
    ASSUME NEW S, IsFiniteSet(S), NEW f, \A x \in S : f[x] \in Nat
    PROVE  SumFunctionOnSet(f, S) \in Nat
<1> DEFINE Sum(s) == SumFunctionOnSet(f, s)
           F == {s \in SUBSET S : Sum(s) \notin Nat}
<1> SUFFICES ASSUME F # {} PROVE FALSE
  OBVIOUS
<1>0. F \in SUBSET SUBSET S
  OBVIOUS
<1>1. PICK m \in F : \A y \in F : y \subseteq m => y = m
  <2> HIDE DEF F
  <2> QED
    BY <1>0, MinimalSubset
<1>2. Sum(m) = IF m = {} THEN 0 ELSE f[Chosen(m)] + Sum(m \ {Chosen(m)})
  BY SumStep, FS_Subset
<1>3. m # {} => Chosen(m) \in m /\ m \ {Chosen(m)} \notin F
  BY <1>1, ChosenIsIn
<1> HIDE DEF Sum
<1> QED
  BY <1>2, <1>3

(* ... zero if all of them are, ... *)
LEMMA SumZero ==
    ASSUME NEW S, IsFiniteSet(S), NEW f, \A x \in S : f[x] = 0
    PROVE  SumFunctionOnSet(f, S) = 0
<1> DEFINE Sum(s) == SumFunctionOnSet(f, s)
           F == {s \in SUBSET S : Sum(s) # 0}
<1> SUFFICES ASSUME F # {} PROVE FALSE
  OBVIOUS
<1>0. F \in SUBSET SUBSET S
  OBVIOUS
<1>1. PICK m \in F : \A y \in F : y \subseteq m => y = m
  <2> HIDE DEF F
  <2> QED
    BY <1>0, MinimalSubset
<1>2. Sum(m) = IF m = {} THEN 0 ELSE f[Chosen(m)] + Sum(m \ {Chosen(m)})
  BY SumStep, FS_Subset
<1>3. m # {} => Chosen(m) \in m /\ m \ {Chosen(m)} \notin F
  BY <1>1, ChosenIsIn
<1> HIDE DEF Sum
<1> QED
  BY <1>2, <1>3

(* ... depends on the values at the elements of the set only, ... *)
LEMMA SumSame ==
    ASSUME NEW S, IsFiniteSet(S), NEW f, NEW g, \A x \in S : f[x] = g[x]
    PROVE  SumFunctionOnSet(f, S) = SumFunctionOnSet(g, S)
<1> DEFINE SumF(s) == SumFunctionOnSet(f, s)
           SumG(s) == SumFunctionOnSet(g, s)
           F == {s \in SUBSET S : SumF(s) # SumG(s)}
<1> SUFFICES ASSUME F # {} PROVE FALSE
  OBVIOUS
<1>0. F \in SUBSET SUBSET S
  OBVIOUS
<1>1. PICK m \in F : \A y \in F : y \subseteq m => y = m
  <2> HIDE DEF F
  <2> QED
    BY <1>0, MinimalSubset
<1>2. SumF(m) = IF m = {} THEN 0 ELSE f[Chosen(m)] + SumF(m \ {Chosen(m)})
  BY SumStep, FS_Subset
<1>3. SumG(m) = IF m = {} THEN 0 ELSE g[Chosen(m)] + SumG(m \ {Chosen(m)})
  BY SumStep, FS_Subset
<1>4. m # {} => Chosen(m) \in m /\ m \ {Chosen(m)} \notin F
  BY <1>1, ChosenIsIn
<1> HIDE DEF SumF, SumG
<1> QED
  BY <1>2, <1>3, <1>4

(* ... and any element may be taken out of it. *)
LEMMA SumRemove ==
    ASSUME NEW S, IsFiniteSet(S), NEW f, \A x \in S : f[x] \in Nat, NEW x \in S
    PROVE  SumFunctionOnSet(f, S) = f[x] + SumFunctionOnSet(f, S \ {x})
<1> DEFINE Sum(s) == SumFunctionOnSet(f, s)
           F == {s \in SUBSET S : \E y \in s : Sum(s) # f[y] + Sum(s \ {y})}
<1> SUFFICES ASSUME F # {} PROVE FALSE
  OBVIOUS
<1>0. F \in SUBSET SUBSET S
  OBVIOUS
<1>1. PICK m \in F : \A y \in F : y \subseteq m => y = m
  <2> HIDE DEF F
  <2> QED
    BY <1>0, MinimalSubset
<1>2. PICK y \in m : Sum(m) # f[y] + Sum(m \ {y})
  BY <1>1
<1> DEFINE z == Chosen(m)
<1>3. z \in m /\ Sum(m) = f[z] + Sum(m \ {z})
  BY SumStep, FS_Subset, ChosenIsIn, <1>2
<1>4. \A s \in SUBSET S : Sum(s) \in Nat
  BY SumType, FS_Subset
<1> HIDE DEF Sum, z
<1>5. y # z
  BY <1>2, <1>3
<1>6. m \ {z} \notin F /\ m \ {y} \notin F
  BY <1>1, <1>2, <1>3
<1> DEFINE rest == Sum((m \ {y}) \ {z})
<1>7. Sum(m \ {z}) = f[y] + rest
  <2>1. Sum(m \ {z}) = f[y] + Sum((m \ {z}) \ {y})
    BY <1>2, <1>3, <1>5, <1>6
  <2>2. (m \ {z}) \ {y} = (m \ {y}) \ {z}
    OBVIOUS
  <2> QED
    BY <2>1, <2>2
<1>8. Sum(m \ {y}) = f[z] + rest
  BY <1>2, <1>3, <1>5, <1>6
<1>9. f[y] \in Nat /\ f[z] \in Nat /\ rest \in Nat
  BY <1>2, <1>3, <1>4
<1> HIDE DEF rest
<1>10. f[z] + (f[y] + rest) = f[y] + (f[z] + rest)
  BY <1>9
<1> QED
  BY <1>2, <1>3, <1>7, <1>8, <1>10

LEMMA SumAdd ==
    ASSUME NEW S, IsFiniteSet(S), NEW f, \A x \in S : f[x] \in Nat,
           NEW x, x \notin S, f[x] \in Nat
    PROVE  SumFunctionOnSet(f, S \union {x}) = SumFunctionOnSet(f, S) + f[x]
<1>1. IsFiniteSet(S \union {x}) /\ (S \union {x}) \ {x} = S
  BY FS_AddElement
<1>2. SumFunctionOnSet(f, S) \in Nat
  BY SumType
<1> QED
  BY <1>1, <1>2, SumRemove

(* So a sum changes by as much as one of its values does. *)
LEMMA SumChange ==
    ASSUME NEW S, IsFiniteSet(S), NEW f, \A x \in S : f[x] \in Nat, NEW x \in S,
           NEW g, g[x] \in Nat, \A y \in S \ {x} : g[y] = f[y]
    PROVE  SumFunctionOnSet(g, S) = SumFunctionOnSet(f, S) - f[x] + g[x]
<1> DEFINE rest == SumFunctionOnSet(f, S \ {x})
<1>1. IsFiniteSet(S \ {x})
  BY FS_RemoveElement
<1>2. SumFunctionOnSet(f, S) = f[x] + rest
  BY SumRemove
<1>3. SumFunctionOnSet(g, S) = g[x] + SumFunctionOnSet(g, S \ {x})
  BY SumRemove
<1>4. SumFunctionOnSet(g, S \ {x}) = rest
  BY <1>1, SumSame
<1>5. rest \in Nat
  BY <1>1, SumType
<1> HIDE DEF rest
<1> QED
  BY <1>2, <1>3, <1>4, <1>5

(* The differences between neighbours in a sequence that does not fall add *)
(* up to that between its ends.                                            *)
LEMMA SumOfDifferences ==
    ASSUME NEW n \in Nat, NEW m, \A i \in 1 .. n + 1 : m[i] \in Nat,
           NEW f, \A i \in 1 .. n : m[i] <= m[i + 1] /\ f[i] = m[i + 1] - m[i]
    PROVE  SumFunctionOnSet(f, 1 .. n) = m[n + 1] - m[1]
<1> DEFINE Sum(k) == SumFunctionOnSet(f, 1 .. k)
           Bad == {k \in 0 .. n : Sum(k) # m[k + 1] - m[1]}
<1>0. \A i \in 1 .. n : f[i] \in Nat
  <2> TAKE i \in 1 .. n
  <2>1. m[i] \in Nat /\ m[i + 1] \in Nat /\ m[i] <= m[i + 1] /\ f[i] = m[i + 1] - m[i]
    OBVIOUS
  <2> QED
    BY <2>1
<1>1. SUFFICES ASSUME Bad # {} PROVE FALSE
  <2>1. n \notin Bad
    BY <1>1
  <2> QED
    BY <2>1
<1>2. PICK k \in Bad : \A j \in Bad : k <= j
  <2>1. Bad \in SUBSET (0 .. n)
    OBVIOUS
  <2> HIDE DEF Bad
  <2> QED
    BY <1>1, <2>1, LeastNumber
<1>3. k \in 0 .. n /\ Sum(k) # m[k + 1] - m[1]
  OBVIOUS
<1>4. CASE k = 0
  <2>1. 1 .. k = {} /\ m[1] \in Nat
    BY <1>4
  <2>2. \A i \in 1 .. k : f[i] = 0
    BY <2>1
  <2>3. IsFiniteSet(1 .. k)
    BY <1>3, FS_Interval
  <2>4. Sum(k) = 0
    BY <2>2, <2>3, SumZero
  <2> HIDE DEF Sum
  <2> QED
    BY <1>3, <1>4, <2>1, <2>4
<1>5. CASE k # 0
  <2> DEFINE l == k - 1
             S == 1 .. l
  <2>1. l \in 0 .. n /\ k \in 1 .. n /\ l < k /\ l + 1 = k
    BY <1>3, <1>5
  <2>2. Sum(l) = m[k] - m[1]
    <3>1. l \notin Bad
      BY <1>2, <2>1
    <3> HIDE DEF Sum, l
    <3> QED
      BY <2>1, <3>1
  <2>3. 1 .. k = S \union {k} /\ k \notin S /\ \A i \in S : i \in 1 .. n
    BY <2>1
  <2>4. IsFiniteSet(S) /\ (\A i \in S : f[i] \in Nat) /\ f[k] \in Nat
    <3>1. l \in Int
      BY <2>1
    <3>2. IsFiniteSet(S)
      BY <3>1, FS_Interval
    <3> HIDE DEF S, l
    <3> QED
      BY <1>0, <2>1, <2>3, <3>2
  <2>5. SumFunctionOnSet(f, S \union {k}) = SumFunctionOnSet(f, S) + f[k]
    <3>1. k \notin S
      BY <2>3
    <3> HIDE DEF S, l, Bad, Sum
    <3> QED
      BY <2>4, <3>1, SumAdd
  <2>6. Sum(k) = Sum(l) + f[k]
    BY <2>3, <2>5 DEF Sum, S
  <2>7. m[1] \in Nat /\ m[k] \in Nat /\ m[k + 1] \in Nat /\ f[k] = m[k + 1] - m[k]
    <3>1. 1 \in 1 .. n + 1 /\ k \in 1 .. n + 1 /\ k + 1 \in 1 .. n + 1
      BY <2>1
    <3> HIDE DEF Sum, Bad, S
    <3> QED
      BY <2>1, <3>1
  <2> HIDE DEF Sum, Bad, l
  <2> QED
    BY <1>3, <2>2, <2>6, <2>7
<1> QED
  BY <1>4, <1>5
=============================================================================
