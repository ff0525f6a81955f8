----------------------------- MODULE SumsAndLoops -----------------------------
(***************************************************************************)
(* The sum of the weights of a finite set's elements, and loops: functions *)
(* defined by recursion along a step.  The provers cannot instantiate an   *)
(* induction theorem that takes a predicate, so induction is stated over a *)
(* SET of numbers and obtained from the fact that < is well-founded on     *)
(* Nat.                                                                    *)
(***************************************************************************)
EXTENDS Integers, FiniteSetsExt, FiniteSetTheorems, WellFoundedInduction, TLAPS

WeightSum(w, S) == MapThenSumSet(LAMBDA x : w[x], S)

(* Induction over a set of naturals. *)
LEMMA SetInduction ==
    ASSUME NEW M, 0 \in M, \A n \in Nat : n \in M => n + 1 \in M
    PROVE  Nat \subseteq M
<1>. DEFINE T == Nat \ M
            R == OpToRel(<, Nat)
<1>1. SUFFICES ASSUME T # {} PROVE FALSE
  OBVIOUS
<1>2. IsWellFoundedOn(R, Nat)
  BY NatLessThanWellFounded
<1>3. PICK m \in T : \A n \in T : <<n, m>> \notin R
  <2>. HIDE DEF R
  <2>. QED
    BY <1>1, <1>2, WFMin
<1>4. \A n \in T : ~(n < m)
  BY <1>3 DEF OpToRel
<1>5. m # 0 /\ m - 1 \in Nat /\ m - 1 \notin M
  OBVIOUS
<1>. QED
  BY <1>4, <1>5

(* The recursive function by which MapThenSumSet is defined. *)
Iterates(f, w, S) ==
    f = [s \in SUBSET S |->
            IF s = {} THEN 0 ELSE w[CHOOSE x \in s : TRUE] + f[s \ {CHOOSE x \in s : TRUE}]]

(* The sum is the value of that recursive function on the whole set.       *)
LEMMA SumIterates ==
    ASSUME NEW w, NEW S
    PROVE  WeightSum(w, S) = (CHOOSE f : Iterates(f, w, S))[S]
BY Zenon DEF WeightSum, MapThenSumSet, MapThenFoldSet, Iterates

(* The element with which the recursion on a set starts. *)
First(s) == CHOOSE x \in s : TRUE

(* A non-empty set has a first element.                                    *)
LEMMA FirstElement == ASSUME NEW s, s # {} PROVE First(s) \in s
BY DEF First

(* The recursion equation, one subset at a time. *)
LEMMA IteratesAt ==
    ASSUME NEW w, NEW S, NEW f, Iterates(f, w, S), NEW T \in SUBSET S
    PROVE  f[T] = IF T = {} THEN 0 ELSE w[First(T)] + f[T \ {First(T)}]
<1>. DEFINE F(s) == IF s = {} THEN 0 ELSE w[First(s)] + f[s \ {First(s)}]
<1>1. f = [s \in SUBSET S |-> F(s)]
  BY Zenon DEF Iterates, First
<1>. HIDE DEF F
<1>2. f[T] = F(T)
  BY <1>1
<1>. QED
  BY <1>2 DEF F

(* A function on the subsets that satisfies the equation is the iteration. *)
LEMMA IteratesIntro ==
    ASSUME NEW w, NEW S, NEW f, f = [s \in SUBSET S |-> f[s]],
           \A T \in SUBSET S : f[T] = IF T = {} THEN 0 ELSE w[First(T)] + f[T \ {First(T)}]
    PROVE  Iterates(f, w, S)
<1>. DEFINE F(s) == IF s = {} THEN 0 ELSE w[First(s)] + f[s \ {First(s)}]
<1>. HIDE DEF F
<1>1. \A s \in SUBSET S : f[s] = F(s)
  BY DEF F
<1>2. f = [s \in SUBSET S |-> F(s)]
  BY <1>1
<1>. QED
  BY <1>2, Zenon DEF Iterates, First, F

(* Removing an element from a finite set makes it one smaller. *)
LEMMA Smaller ==
    ASSUME NEW S, IsFiniteSet(S), NEW x \in S
    PROVE  /\ IsFiniteSet(S \ {x}) /\ Cardinality(S) \in Nat \ {0}
           /\ Cardinality(S \ {x}) = Cardinality(S) - 1
BY FS_RemoveElement, FS_CardinalityType, FS_EmptySet

(* A function satisfying the equation exists: it is built up by the size   *)
(* of the subsets.                                                         *)
LEMMA IterationExists ==
    ASSUME NEW S, IsFiniteSet(S), NEW w, \A x \in S : w[x] \in Nat
    PROVE  \E f \in [SUBSET S -> Nat] : Iterates(f, w, S)
<1>. DEFINE Upto(f, n) ==
                \A T \in SUBSET S : Cardinality(T) <= n =>
                    f[T] = IF T = {} THEN 0 ELSE w[First(T)] + f[T \ {First(T)}]
            M == {n \in Nat : \E f \in [SUBSET S -> Nat] : Upto(f, n)}
<1>1. ASSUME NEW T \in SUBSET S
      PROVE  /\ IsFiniteSet(T) /\ Cardinality(T) \in Nat
             /\ Cardinality(T) = 0 <=> T = {}
  BY FS_Subset, FS_CardinalityType, FS_EmptySet
<1>2. ASSUME NEW T \in SUBSET S, T # {}
      PROVE  /\ First(T) \in T /\ T \ {First(T)} \in SUBSET S
             /\ Cardinality(T \ {First(T)}) = Cardinality(T) - 1
  BY <1>1, <1>2, FirstElement, Smaller
<1>3. 0 \in M
  <2>1. [T \in SUBSET S |-> 0] \in [SUBSET S -> Nat]
    OBVIOUS
  <2>2. Upto([T \in SUBSET S |-> 0], 0)
    BY <1>1
  <2>. QED
    BY <2>1, <2>2
<1>4. ASSUME NEW n \in Nat, n \in M PROVE n + 1 \in M
  <2>1. PICK f \in [SUBSET S -> Nat] : Upto(f, n)
    BY <1>4
  <2>. DEFINE g == [T \in SUBSET S |-> IF T = {} \/ Cardinality(T) # n + 1 THEN f[T]
                                       ELSE w[First(T)] + f[T \ {First(T)}]]
  <2>2. g \in [SUBSET S -> Nat]
    <3>1. ASSUME NEW T \in SUBSET S, T # {}
          PROVE  w[First(T)] + f[T \ {First(T)}] \in Nat
      <4>1. w[First(T)] \in Nat /\ f[T \ {First(T)}] \in Nat
        BY <1>2, <3>1
      <4>. QED
        BY <4>1
    <3>. QED
      BY <3>1
  <2>3. ASSUME NEW T \in SUBSET S, Cardinality(T) <= n + 1
        PROVE  g[T] = IF T = {} THEN 0 ELSE w[First(T)] + g[T \ {First(T)}]
    <3>1. CASE T = {}
      <4>1. g[T] = f[T] /\ Cardinality(T) <= n
        BY <1>1, <3>1
      <4>. QED
        BY <2>1, <3>1, <4>1
    <3>2. CASE T # {}
      <4>1. g[T \ {First(T)}] = f[T \ {First(T)}]
        <5>1. Cardinality(T \ {First(T)}) # n + 1 /\ T \ {First(T)} \in SUBSET S
          BY <1>1, <1>2, <2>3, <3>2
        <5>. QED
          BY <5>1
      <4>2. CASE Cardinality(T) = n + 1
        BY <3>2, <4>1, <4>2
      <4>3. CASE Cardinality(T) # n + 1
        <5>1. Cardinality(T) <= n
          BY <1>1, <2>3, <4>3
        <5>2. f[T] = w[First(T)] + f[T \ {First(T)}]
          BY <2>1, <3>2, <5>1
        <5>3. g[T] = f[T]
          BY <4>3
        <5>. QED
          BY <3>2, <4>1, <5>2, <5>3
      <4>. QED
        BY <4>2, <4>3
    <3>. QED
      BY <3>1, <3>2
  <2>. HIDE DEF g
  <2>4. Upto(g, n + 1)
    BY <2>3
  <2>5. \E h \in [SUBSET S -> Nat] : Upto(h, n + 1)
    BY <2>2, <2>4, Zenon
  <2>. HIDE DEF Upto
  <2>. QED
    BY <2>5
<1>5. Cardinality(S) \in Nat /\ \A T \in SUBSET S : Cardinality(T) <= Cardinality(S)
  BY <1>1, FS_Subset
<1>6. Cardinality(S) \in M
  <2>. HIDE DEF M
  <2>. QED
    BY <1>3, <1>4, <1>5, SetInduction
<1>7. PICK f \in [SUBSET S -> Nat] : Upto(f, Cardinality(S))
  BY <1>6
<1>8. f = [s \in SUBSET S |-> f[s]]
  OBVIOUS
<1>9. Iterates(f, w, S)
  BY <1>5, <1>7, <1>8, IteratesIntro
<1>. QED
  BY <1>9

(* Two such functions agree wherever both are defined. *)
LEMMA IterationUnique ==
    ASSUME NEW w, NEW S, IsFiniteSet(S), NEW f, Iterates(f, w, S),
           NEW R, NEW g, Iterates(g, w, R), R \in SUBSET S
    PROVE  \A T \in SUBSET R : f[T] = g[T]
<1>. DEFINE M == {n \in Nat : \A T \in SUBSET R : Cardinality(T) = n => f[T] = g[T]}
<1>1. ASSUME NEW T \in SUBSET R
      PROVE  /\ IsFiniteSet(T) /\ Cardinality(T) \in Nat /\ T \in SUBSET S
             /\ Cardinality(T) = 0 <=> T = {}
  BY FS_Subset, FS_CardinalityType, FS_EmptySet
<1>2. 0 \in M
  BY <1>1, IteratesAt
<1>3. ASSUME NEW n \in Nat, n \in M PROVE n + 1 \in M
  <2>1. ASSUME NEW T \in SUBSET R, Cardinality(T) = n + 1 PROVE f[T] = g[T]
    <3>. DEFINE U == T \ {First(T)}
    <3>1. T # {} /\ T \in SUBSET S /\ IsFiniteSet(T)
      BY <1>1, <2>1
    <3>2. First(T) \in T /\ U \in SUBSET R /\ Cardinality(U) = n
      BY <2>1, <3>1, FirstElement, Smaller
    <3>3. f[U] = g[U]
      BY <1>3, <3>2
    <3>4. f[T] = w[First(T)] + f[U] /\ g[T] = w[First(T)] + g[U]
      BY <3>1, IteratesAt
    <3>. QED
      BY <3>3, <3>4
  <2>. QED
    BY <2>1
<1>. HIDE DEF M
<1>4. Nat \subseteq M
  BY <1>2, <1>3, SetInduction
<1>. QED
  BY <1>1, <1>4 DEF M

(***************************************************************************)
(* What is used of the sum.                                                *)
(***************************************************************************)

(* The sum over the empty set is 0, over any other it is the first element's *)
(* weight and the sum over the rest.                                       *)
LEMMA SumFirst ==
    ASSUME NEW S, IsFiniteSet(S), NEW w, \A x \in S : w[x] \in Nat
    PROVE  /\ WeightSum(w, S) \in Nat
           /\ WeightSum(w, S) = IF S = {} THEN 0
                                ELSE w[First(S)] + WeightSum(w, S \ {First(S)})
<1>. DEFINE The(T) == CHOOSE f : Iterates(f, w, T)
<1>1. PICK f \in [SUBSET S -> Nat] : Iterates(f, w, S)
  BY IterationExists
<1>2. ASSUME NEW T \in SUBSET S PROVE WeightSum(w, T) = f[T]
  <2>1. IsFiniteSet(T)
    BY FS_Subset
  <2>2. PICK h : Iterates(h, w, T)
    BY <2>1, IterationExists
  <2>3. Iterates(The(T), w, T)
    BY <2>2, Zenon
  <2>. HIDE DEF The
  <2>4. f[T] = The(T)[T]
    BY <1>1, <2>3, IterationUnique
  <2>. QED
    BY <2>4, SumIterates DEF The
<1>3. S \ {First(S)} \in SUBSET S
  OBVIOUS
<1>. QED
  BY <1>1, <1>2, <1>3, IteratesAt

(* Any element may be taken out first. *)
LEMMA SumRemove ==
    ASSUME NEW S, IsFiniteSet(S), NEW w, \A y \in S : w[y] \in Nat, NEW x \in S
    PROVE  WeightSum(w, S) = w[x] + WeightSum(w, S \ {x})
<1>. DEFINE Rest(T, y) == WeightSum(w, T) = w[y] + WeightSum(w, T \ {y})
            M == {n \in Nat : \A T \in SUBSET S : Cardinality(T) = n => \A y \in T : Rest(T, y)}
<1>1. ASSUME NEW T \in SUBSET S
      PROVE  /\ IsFiniteSet(T) /\ Cardinality(T) \in Nat
             /\ Cardinality(T) = 0 <=> T = {}
             /\ WeightSum(w, T) \in Nat
  BY FS_Subset, FS_CardinalityType, FS_EmptySet, SumFirst
<1>2. 0 \in M
  BY <1>1
<1>3. ASSUME NEW n \in Nat, n \in M PROVE n + 1 \in M
  <2>1. ASSUME NEW T \in SUBSET S, Cardinality(T) = n + 1, NEW y \in T PROVE Rest(T, y)
    <3>1. PICK z : z = First(T)
      OBVIOUS
    <3>2. z \in T /\ WeightSum(w, T) = w[z] + WeightSum(w, T \ {z})
      BY <1>1, <3>1, FirstElement, SumFirst
    <3>3. CASE z = y
      BY <3>2, <3>3
    <3>4. CASE z # y
      <4>1. \A v \in T : T \ {v} \in SUBSET S /\ Cardinality(T \ {v}) = n
        BY <1>1, <2>1, Smaller
      <4>2. /\ Rest(T \ {z}, y) /\ Rest(T \ {y}, z)
        BY <1>3, <3>2, <3>4, <4>1
      <4>3. (T \ {z}) \ {y} = (T \ {y}) \ {z}
        OBVIOUS
      <4>4. /\ w[y] \in Nat /\ w[z] \in Nat /\ WeightSum(w, (T \ {y}) \ {z}) \in Nat
        BY <1>1, <3>2
      <4>. QED
        BY <3>2, <4>2, <4>3, <4>4
    <3>. QED
      BY <3>3, <3>4
  <2>. QED
    BY <2>1
<1>4. Nat \subseteq M
  <2>. HIDE DEF M
  <2>. QED
    BY <1>2, <1>3, SetInduction
<1>5. Cardinality(S) \in M /\ S \in SUBSET S
  BY <1>1, <1>4
<1>. QED
  BY <1>5

(* Adding an element adds its weight. *)
LEMMA SumAdd ==
    ASSUME NEW S, IsFiniteSet(S), NEW w, \A y \in S : w[y] \in Nat,
           NEW x, x \notin S, w[x] \in Nat
    PROVE  WeightSum(w, S \union {x}) = WeightSum(w, S) + w[x]
<1>1. IsFiniteSet(S \union {x}) /\ (S \union {x}) \ {x} = S
  BY FS_AddElement
<1>2. WeightSum(w, S) \in Nat
  BY SumFirst
<1>3. WeightSum(w, S \union {x}) = w[x] + WeightSum(w, (S \union {x}) \ {x})
  BY <1>1, SumRemove
<1>4. WeightSum(w, (S \union {x}) \ {x}) = WeightSum(w, S)
  BY <1>1, Zenon
<1>. QED
  BY <1>2, <1>3, <1>4

(* The sum depends on the weights of the set's elements only. *)
LEMMA SumSame ==
    ASSUME NEW S, IsFiniteSet(S), NEW w, NEW v,
           \A y \in S : w[y] \in Nat, \A y \in S : v[y] = w[y]
    PROVE  WeightSum(v, S) = WeightSum(w, S)
<1>. DEFINE M == {n \in Nat : \A T \in SUBSET S : Cardinality(T) = n =>
                                  WeightSum(v, T) = WeightSum(w, T)}
<1>1. ASSUME NEW T \in SUBSET S
      PROVE  /\ IsFiniteSet(T) /\ Cardinality(T) \in Nat
             /\ Cardinality(T) = 0 <=> T = {}
             /\ \A y \in T : w[y] \in Nat /\ v[y] \in Nat
  BY FS_Subset, FS_CardinalityType, FS_EmptySet
<1>2. 0 \in M
  <2>1. WeightSum(v, {}) = 0 /\ WeightSum(w, {}) = 0
    BY FS_EmptySet, SumFirst
  <2>. QED
    BY <1>1, <2>1
<1>3. ASSUME NEW n \in Nat, n \in M PROVE n + 1 \in M
  <2>1. ASSUME NEW T \in SUBSET S, Cardinality(T) = n + 1
        PROVE  WeightSum(v, T) = WeightSum(w, T)
    <3>1. PICK z : z = First(T)
      OBVIOUS
    <3>2. T # {} /\ z \in T /\ T \ {z} \in SUBSET S /\ Cardinality(T \ {z}) = n
      BY <1>1, <2>1, <3>1, FirstElement, Smaller
    <3>3. WeightSum(v, T \ {z}) = WeightSum(w, T \ {z})
      BY <1>3, <3>2
    <3>4. /\ WeightSum(v, T) = v[z] + WeightSum(v, T \ {z})
          /\ WeightSum(w, T) = w[z] + WeightSum(w, T \ {z})
      BY <1>1, <3>2, SumRemove
    <3>. QED
      BY <3>2, <3>3, <3>4
  <2>. QED
    BY <2>1
<1>4. Nat \subseteq M
  <2>. HIDE DEF M
  <2>. QED
    BY <1>2, <1>3, SetInduction
<1>5. Cardinality(S) \in M /\ S \in SUBSET S
  BY <1>1, <1>4
<1>. QED
  BY <1>5

(* When one weight moves, the sum moves with it. *)
LEMMA SumMoves ==
    ASSUME NEW S, IsFiniteSet(S), NEW w, NEW v, NEW x \in S,
           \A y \in S : w[y] \in Nat /\ v[y] \in Nat, \A y \in S \ {x} : v[y] = w[y]
    PROVE  /\ WeightSum(w, S) \in Nat /\ WeightSum(v, S) \in Nat
           /\ WeightSum(v, S) + w[x] = WeightSum(w, S) + v[x]
<1>1. PICK T : T = S \ {x}
  OBVIOUS
<1>2. IsFiniteSet(T) /\ \A y \in T : w[y] \in Nat /\ v[y] = w[y]
  BY <1>1, FS_RemoveElement
<1>3. WeightSum(v, T) = WeightSum(w, T) /\ WeightSum(w, T) \in Nat
  BY <1>2, SumSame, SumFirst
<1>4. WeightSum(w, S) = w[x] + WeightSum(w, S \ {x})
  BY SumRemove
<1>5. WeightSum(v, S) = v[x] + WeightSum(v, S \ {x})
  BY SumRemove
<1>6. WeightSum(w, S) = w[x] + WeightSum(w, T) /\ WeightSum(v, S) = v[x] + WeightSum(v, T)
  BY <1>1, <1>4, <1>5, Zenon
<1>. QED
  BY <1>3, <1>6

(***************************************************************************)
(* Loops.  A function that is defined by recursion along `step`, until a   *)
(* final element is met, exists when a measure falls at every step; its    *)
(* value is that of a final element with whatever every step keeps.        *)
(***************************************************************************)
Loop(f, D, final, result, step) ==
    \A x \in D : f[x] = IF x \in final THEN result[x] ELSE f[step[x]]

(* The same, as far as elements of a measure up to n are concerned. *)
LoopUpto(f, D, final, result, step, measure, n) ==
    \A x \in D : measure[x] <= n => f[x] = IF x \in final THEN result[x] ELSE f[step[x]]

Falls(D, final, step, measure) ==
    \A x \in D \ final : step[x] \in D /\ measure[step[x]] < measure[x]

(* What every step of a loop keeps is still there at its end.              *)
LEMMA LoopKeeps ==
    ASSUME NEW D, NEW final, NEW result, NEW step, NEW measure \in [D -> Nat],
           Falls(D, final, step, measure), NEW f, Loop(f, D, final, result, step),
           NEW I \in SUBSET D, \A x \in I \ final : step[x] \in I
    PROVE  \A x \in I : \E y \in I \cap final : f[x] = result[y]
<1>. DEFINE P(n) == \A x \in I : measure[x] <= n => \E y \in I \cap final : f[x] = result[y]
            M == {n \in Nat : P(n)}
<1>1. ASSUME NEW n \in Nat, \A x \in I : measure[x] < n => \E y \in I \cap final : f[x] = result[y]
      PROVE  P(n)
  <2>1. SUFFICES ASSUME NEW x \in I, measure[x] <= n
                 PROVE  \E y \in I \cap final : f[x] = result[y]
    OBVIOUS
  <2>2. CASE x \in final
    BY <2>2 DEF Loop
  <2>3. CASE x \notin final
    <3>1. step[x] \in I /\ measure[step[x]] < measure[x] /\ f[x] = f[step[x]]
      BY <2>3 DEF Loop, Falls
    <3>. QED
      BY <1>1, <2>1, <3>1
  <2>. QED
    BY <2>2, <2>3
<1>2. P(0)
  BY <1>1
<1>3. ASSUME NEW n \in Nat, P(n) PROVE P(n + 1)
  <2>1. \A x \in I : measure[x] < n + 1 => measure[x] <= n
    OBVIOUS
  <2>. QED
    BY <1>1, <1>3, <2>1
<1>4. Nat \subseteq M
  <2>1. 0 \in M
    BY <1>2
  <2>2. ASSUME NEW n \in Nat, n \in M PROVE n + 1 \in M
    <3>. HIDE DEF P
    <3>. QED
      BY <1>3, <2>2
  <2>. HIDE DEF M
  <2>. QED
    BY <2>1, <2>2, SetInduction
<1>5. ASSUME NEW x \in I PROVE P(measure[x])
  <2>. HIDE DEF P
  <2>. QED
    BY <1>4
<1>. QED
  BY <1>5

(* Two functions that are right up to n agree up to n.                     *)
LEMMA LoopUnique ==
    ASSUME NEW D, NEW final, NEW result, NEW step, NEW measure \in [D -> Nat],
           Falls(D, final, step, measure), NEW f, NEW g, NEW n \in Nat,
           LoopUpto(f, D, final, result, step, measure, n),
           LoopUpto(g, D, final, result, step, measure, n)
    PROVE  \A x \in D : measure[x] <= n => f[x] = g[x]
<1>. DEFINE P(k) == \A x \in D : measure[x] <= k /\ measure[x] <= n => f[x] = g[x]
            M == {k \in Nat : P(k)}
<1>1. ASSUME NEW k \in Nat, \A x \in D : measure[x] < k /\ measure[x] <= n => f[x] = g[x]
      PROVE  P(k)
  <2>1. SUFFICES ASSUME NEW x \in D, measure[x] <= k, measure[x] <= n PROVE f[x] = g[x]
    OBVIOUS
  <2>2. CASE x \in final
    BY <2>1, <2>2 DEF LoopUpto
  <2>3. CASE x \notin final
    <3>1. step[x] \in D /\ measure[step[x]] < measure[x] /\ f[x] = f[step[x]] /\ g[x] = g[step[x]]
      BY <2>1, <2>3 DEF LoopUpto, Falls
    <3>2. measure[step[x]] < k /\ measure[step[x]] <= n
      BY <2>1, <3>1
    <3>. QED
      BY <1>1, <3>1, <3>2
  <2>. QED
    BY <2>2, <2>3
<1>2. P(0)
  BY <1>1
<1>3. ASSUME NEW k \in Nat, P(k) PROVE P(k + 1)
  <2>1. \A x \in D : measure[x] < k + 1 => measure[x] <= k
    OBVIOUS
  <2>. QED
    BY <1>1, <1>3, <2>1
<1>4. Nat \subseteq M
  <2>1. 0 \in M
    BY <1>2
  <2>2. ASSUME NEW k \in Nat, k \in M PROVE k + 1 \in M
    <3>. HIDE DEF P
    <3>. QED
      BY <1>3, <2>2
  <2>. HIDE DEF M
  <2>. QED
    BY <2>1, <2>2, SetInduction
<1>5. P(n)
  <2>. HIDE DEF P
  <2>. QED
    BY <1>4
<1>. QED
  BY <1>5

(* For every n there is a function that is right up to n.                  *)
LEMMA LoopUptoExists ==
    ASSUME NEW D, NEW V, NEW final, NEW result \in [D -> V], NEW step,
           NEW measure \in [D -> Nat], Falls(D, final, step, measure), NEW n \in Nat
    PROVE  \E f \in [D -> V] : LoopUpto(f, D, final, result, step, measure, n)
<1>. DEFINE Q(f, k) == LoopUpto(f, D, final, result, step, measure, k)
            M == {k \in Nat : \E f \in [D -> V] : Q(f, k)}
            E(f, x) == IF x \in final THEN result[x] ELSE f[step[x]]
<1>1. ASSUME NEW f \in [D -> V], NEW k \in Nat,
             \A x \in D : measure[x] < k => f[x] = E(f, x)
      PROVE  \E g \in [D -> V] : Q(g, k)
  <2>. DEFINE g == [x \in D |-> IF measure[x] = k THEN E(f, x) ELSE f[x]]
  <2>1. g \in [D -> V]
    BY DEF Falls
  <2>2. ASSUME NEW x \in D, measure[x] <= k PROVE g[x] = E(g, x)
    <3>1. x \notin final => step[x] \in D /\ measure[step[x]] < measure[x]
      BY DEF Falls
    <3>2. x \notin final => g[step[x]] = f[step[x]]
      BY <2>2, <3>1
    <3>3. E(g, x) = E(f, x)
      BY <3>2
    <3>4. CASE measure[x] = k
      BY <3>3, <3>4
    <3>5. CASE measure[x] # k
      <4>1. measure[x] < k
        BY <2>2, <3>5
      <4>2. f[x] = E(f, x)
        BY <1>1, <4>1
      <4>3. g[x] = f[x]
        BY <3>5
      <4>. QED
        BY <3>3, <4>2, <4>3
    <3>. QED
      BY <3>4, <3>5
  <2>. HIDE DEF g
  <2>. QED
    BY <2>1, <2>2 DEF LoopUpto
<1>2. 0 \in M
  <2>1. \A x \in D : ~(measure[x] < 0)
    OBVIOUS
  <2>2. \E g \in [D -> V] : Q(g, 0)
    <3>. HIDE DEF Q, E
    <3>. QED
      BY <1>1, <2>1
  <2>. QED
    BY <2>2
<1>3. ASSUME NEW k \in Nat, k \in M PROVE k + 1 \in M
  <2>1. PICK f \in [D -> V] : Q(f, k)
    BY <1>3
  <2>2. \A x \in D : measure[x] < k + 1 => f[x] = E(f, x)
    BY <2>1 DEF LoopUpto
  <2>3. \E g \in [D -> V] : Q(g, k + 1)
    <3>. HIDE DEF Q, E
    <3>. QED
      BY <1>1, <2>2
  <2>. QED
    BY <2>3
<1>4. Nat \subseteq M
  <2>. HIDE DEF M
  <2>. QED
    BY <1>2, <1>3, SetInduction
<1>. QED
  BY <1>4

(* So there is one that is right everywhere.                               *)
LEMMA LoopExists ==
    ASSUME NEW D, NEW V, NEW final, NEW result \in [D -> V], NEW step,
           NEW measure \in [D -> Nat], Falls(D, final, step, measure)
    PROVE  \E f \in [D -> V] : Loop(f, D, final, result, step)
<1>. DEFINE Q(f, n) == LoopUpto(f, D, final, result, step, measure, n)
            G(n) == CHOOSE f \in [D -> V] : Q(f, n)
            f == [x \in D |-> G(measure[x])[x]]
<1>1. ASSUME NEW n \in Nat PROVE G(n) \in [D -> V] /\ Q(G(n), n)
  <2>1. \E g \in [D -> V] : Q(g, n)
    BY LoopUptoExists
  <2>. HIDE DEF Q
  <2>. QED
    BY <2>1
<1>. HIDE DEF G
<1>2. f \in [D -> V]
  BY <1>1
<1>3. ASSUME NEW x \in D PROVE f[x] = IF x \in final THEN result[x] ELSE f[step[x]]
  <2>. DEFINE n == measure[x]
  <2>1. f[x] = IF x \in final THEN result[x] ELSE G(n)[step[x]]
    <3>1. Q(G(n), n) /\ n <= n
      BY <1>1
    <3>. QED
      BY <3>1 DEF LoopUpto
  <2>2. ASSUME x \notin final PROVE G(n)[step[x]] = f[step[x]]
    <3>. DEFINE y == step[x]
                k == measure[y]
    <3>1. y \in D /\ k \in Nat /\ n \in Nat /\ k < n
      BY <2>2 DEF Falls
    <3>2. Q(G(k), k) /\ Q(G(n), n)
      BY <1>1, <3>1
    <3>3. Q(G(n), k)
      <4>. HIDE DEF n, k
      <4>1. ASSUME NEW z \in D, measure[z] <= k PROVE measure[z] <= n
        BY <3>1, <4>1
      <4>. QED
        BY <3>2, <4>1 DEF LoopUpto
    <3>4. G(k)[y] = G(n)[y]
      <4>1. measure[y] <= k
        BY <3>1
      <4>. HIDE DEF n, k, y
      <4>. QED
        BY <3>1, <3>2, <3>3, <4>1, LoopUnique
    <3>. QED
      BY <3>1, <3>4
  <2>. QED
    BY <2>1, <2>2
<1>. HIDE DEF f
<1>. QED
  BY <1>2, <1>3 DEF Loop
=============================================================================
