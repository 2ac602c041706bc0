----------------------------- MODULE FoldFacts -----------------------------
(***************************************************************************)
(* Sums of naturals over finite sets, for the proofs that count with       *)
(* MapThenSumSet: what adding an element, changing one number or dropping  *)
(* a part does to a sum; and functions defined by recursion over numbers.  *)
(* Induction is by the least of a set of counterexamples (LeastSubset,     *)
(* LeastNat), since an induction theorem cannot be instantiated with a     *)
(* predicate.                                                              *)
(***************************************************************************)
EXTENDS Naturals, FiniteSets, FiniteSetsExt, FiniteSetTheorems, WellFoundedInduction, TLAPS

\* The sum of f over the members of S.
SumOver(f, S) == MapThenSumSet(LAMBDA s : f[s], S)

\* A set of subsets of a finite set has a least one: induction over finite sets.
LEMMA LeastSubset ==
    ASSUME NEW S, IsFiniteSet(S), NEW B, B \subseteq SUBSET S, B # {}
    PROVE  \E X \in B : \A Y \in B : Y \subseteq X => Y = X
<1>1. IsWellFoundedOn(StrictSubsetOrdering(S), SUBSET S)
  BY FS_StrictSubsetOrderingWellFounded, FS_FiniteSubsetsOfFinite
<1>2. PICK X \in B : \A Y \in B : <<Y, X>> \notin StrictSubsetOrdering(S)
  BY <1>1, WFMin, Zenon
<1>3. \A Y \in B : Y \subseteq X => Y = X
  BY <1>2 DEF StrictSubsetOrdering
<1> QED
  BY <1>2, <1>3

Pick(s) == CHOOSE x \in s : TRUE

\* Of a set that is not empty an element is picked.
LEMMA PickFacts == \A s : s # {} => Pick(s) \in s
BY DEF Pick

\* it adds up f over the subsets of S, one element at a time.
Adds(f, S, it) ==
    it = [s \in SUBSET S |-> IF s = {} THEN 0 ELSE f[Pick(s)] + it[s \ {Pick(s)}]]

\* What MapThenSumSet defines is the fold over S, for some function that adds up.
LEMMA SumIsFold == \A f, S : SumOver(f, S) = (CHOOSE it : Adds(f, S, it))[S]
BY Zenon DEF SumOver, MapThenSumSet, MapThenFoldSet, Adds, Pick

\* What it gives a set, by what it gives the set without one element.
LEMMA AddsValue ==
    ASSUME NEW f, NEW S, NEW it, Adds(f, S, it), NEW s \in SUBSET S
    PROVE  it[s] = IF s = {} THEN 0 ELSE f[Pick(s)] + it[s \ {Pick(s)}]
<1>1. it = [t \in SUBSET S |-> IF t = {} THEN 0 ELSE f[Pick(t)] + it[t \ {Pick(t)}]]
  BY DEF Adds
<1> QED
  BY <1>1, Zenon

\* What it gives a set does not depend on the set it was made for.
LEMMA AddsUnique ==
    ASSUME NEW f, NEW S, IsFiniteSet(S), NEW T \in SUBSET S,
           NEW it, Adds(f, S, it), NEW jt, Adds(f, T, jt)
    PROVE  it[T] = jt[T]
<1> DEFINE B == {X \in SUBSET T : it[X] # jt[X]}
<1>1. SUFFICES ASSUME B # {} PROVE FALSE
  OBVIOUS
<1>2. IsFiniteSet(T) /\ B \subseteq SUBSET T
  BY FS_Subset
<1>3. PICK X \in B : \A Y \in B : Y \subseteq X => Y = X
  <2> HIDE DEF B
  <2> QED BY <1>1, <1>2, LeastSubset
<1>4. X \in SUBSET S /\ X \in SUBSET T
  BY <1>3
<1>5. /\ it[X] = IF X = {} THEN 0 ELSE f[Pick(X)] + it[X \ {Pick(X)}]
      /\ jt[X] = IF X = {} THEN 0 ELSE f[Pick(X)] + jt[X \ {Pick(X)}]
  BY <1>4, AddsValue
<1>6. X # {} => it[X \ {Pick(X)}] = jt[X \ {Pick(X)}]
  BY <1>3, <1>4, PickFacts
<1> QED
  BY <1>3, <1>5, <1>6

\* Every finite set has a function that adds up.
LEMMA AddsExists == ASSUME NEW S, IsFiniteSet(S), NEW f PROVE \E it : Adds(f, S, it)
<1> DEFINE B == {X \in SUBSET S : ~ (\E it : Adds(f, X, it))}
<1>1. SUFFICES ASSUME B # {} PROVE FALSE
  OBVIOUS
<1>2. PICK X \in B : \A Y \in B : Y \subseteq X => Y = X
  <2>1. B \subseteq SUBSET S
    OBVIOUS
  <2> HIDE DEF B
  <2> QED BY <1>1, <2>1, LeastSubset
<1> DEFINE the(s) == CHOOSE it : Adds(f, s, it)
           rec(s) == IF s = {} THEN 0 ELSE f[Pick(s)] + SumOver(f, s \ {Pick(s)})
<1>3. \A Y : Y \subseteq X /\ Y # X => \E it : Adds(f, Y, it)
  BY <1>2
<1>4. \A Y : Y \subseteq X /\ Y # X => Adds(f, Y, the(Y)) /\ SumOver(f, Y) = the(Y)[Y]
  BY <1>3, SumIsFold, Zenon
<1>5. ASSUME NEW Y, Y \subseteq X, Y # X PROVE SumOver(f, Y) = rec(Y)
  <2> DEFINE Z == Y \ {Pick(Y)}
  <2>1. IsFiniteSet(Y) /\ Y \in SUBSET Y /\ Z \in SUBSET Y
    BY <1>2, <1>5, FS_Subset
  <2>2. Z \subseteq X /\ Z # X
    BY <1>5
  <2>3. Adds(f, Y, the(Y)) /\ SumOver(f, Y) = the(Y)[Y] /\ Adds(f, Z, the(Z)) /\ SumOver(f, Z) = the(Z)[Z]
    BY <1>4, <1>5, <2>2
  <2> HIDE DEF the
  <2>4. the(Y)[Z] = the(Z)[Z]
    BY <2>1, <2>3, AddsUnique
  <2>5. the(Y)[Y] = IF Y = {} THEN 0 ELSE f[Pick(Y)] + the(Y)[Z]
    BY <2>1, <2>3, AddsValue
  <2> QED
    BY <2>3, <2>4, <2>5
<1> DEFINE jt == [s \in SUBSET X |-> rec(s)]
<1>6. \A s \in SUBSET X : s # {} => s \ {Pick(s)} \in SUBSET X /\ s \ {Pick(s)} # X
  BY PickFacts
<1>7. \A s \in SUBSET X : s # {} => jt[s \ {Pick(s)}] = SumOver(f, s \ {Pick(s)})
  <2> HIDE DEF rec
  <2> QED
    BY <1>5, <1>6
<1>8. Adds(f, X, jt)
  BY <1>7 DEF Adds
<1> QED
  BY <1>2, <1>8

\* The sum, one element after another.
LEMMA SumStep ==
    ASSUME NEW S, IsFiniteSet(S), NEW f
    PROVE  SumOver(f, S) = IF S = {} THEN 0 ELSE f[Pick(S)] + SumOver(f, S \ {Pick(S)})
<1> DEFINE T == S \ {Pick(S)}
           the(s) == CHOOSE it : Adds(f, s, it)
<1>1. IsFiniteSet(T) /\ T \in SUBSET S
  BY FS_Subset
<1>2. Adds(f, S, the(S)) /\ Adds(f, T, the(T))
  BY <1>1, AddsExists, Zenon
<1>3. SumOver(f, S) = the(S)[S] /\ SumOver(f, T) = the(T)[T]
  BY SumIsFold, Zenon
<1> HIDE DEF the
<1>4. the(S)[T] = the(T)[T]
  BY <1>1, <1>2, AddsUnique
<1>5. S \in SUBSET S
  OBVIOUS
<1>6. the(S)[S] = IF S = {} THEN 0 ELSE f[Pick(S)] + the(S)[T]
  <2>1. ASSUME NEW it, Adds(f, S, it)
        PROVE  it[S] = IF S = {} THEN 0 ELSE f[Pick(S)] + it[S \ {Pick(S)}]
    BY <1>5, <2>1, AddsValue
  <2> QED
    BY <1>2, <2>1
<1> QED
  BY <1>3, <1>4, <1>6

\* Nothing adds up to nothing.
LEMMA SumEmpty == \A f : SumOver(f, {}) = 0
BY SumStep, FS_EmptySet

\* A sum of naturals is one.
LEMMA SumType ==
    ASSUME NEW S, IsFiniteSet(S), NEW f, \A s \in S : f[s] \in Nat
    PROVE  SumOver(f, S) \in Nat
<1> DEFINE B == {X \in SUBSET S : SumOver(f, X) \notin Nat}
<1>1. SUFFICES ASSUME B # {} PROVE FALSE
  OBVIOUS
<1>2. PICK X \in B : \A Y \in B : Y \subseteq X => Y = X
  <2>1. B \subseteq SUBSET S
    OBVIOUS
  <2> HIDE DEF B
  <2> QED BY <1>1, <2>1, LeastSubset
<1>3. IsFiniteSet(X)
  BY <1>2, FS_Subset
<1>4. X # {}
  <2>1. SumOver(f, X) \notin Nat
    BY <1>2
  <2> HIDE DEF B
  <2> QED
    BY <2>1, SumEmpty
<1>5. Pick(X) \in X /\ SumOver(f, X \ {Pick(X)}) \in Nat
  BY <1>2, <1>4, PickFacts
<1>6. SumOver(f, X) = f[Pick(X)] + SumOver(f, X \ {Pick(X)})
  BY <1>3, <1>4, SumStep
<1> QED
  BY <1>2, <1>5, <1>6

\* Whichever element comes first.
LEMMA SumRemove ==
    ASSUME NEW S, IsFiniteSet(S), NEW f, \A s \in S : f[s] \in Nat, NEW x \in S
    PROVE  SumOver(f, S) = f[x] + SumOver(f, S \ {x})
<1> DEFINE B == {X \in SUBSET S : ~ (\A y \in X : SumOver(f, X) = f[y] + SumOver(f, X \ {y}))}
<1>1. SUFFICES ASSUME B # {} PROVE FALSE
  OBVIOUS
<1>2. PICK X \in B : \A Y \in B : Y \subseteq X => Y = X
  <2>1. B \subseteq SUBSET S
    OBVIOUS
  <2> HIDE DEF B
  <2> QED BY <1>1, <2>1, LeastSubset
<1>3. PICK y \in X : SumOver(f, X) # f[y] + SumOver(f, X \ {y})
  BY <1>2
<1> DEFINE p == Pick(X)
<1>4. p \in X /\ IsFiniteSet(X) /\ X \subseteq S
  BY <1>2, <1>3, FS_Subset, PickFacts
<1> HIDE DEF p
<1>5. SumOver(f, X) = f[p] + SumOver(f, X \ {p})
  BY <1>3, <1>4, SumStep DEF p
<1>6. p # y
  BY <1>3, <1>5
<1>7. X \ {p} \notin B /\ X \ {y} \notin B
  BY <1>2, <1>3, <1>4
<1>8. /\ SumOver(f, X \ {p}) = f[y] + SumOver(f, (X \ {p}) \ {y})
      /\ SumOver(f, X \ {y}) = f[p] + SumOver(f, (X \ {y}) \ {p})
  BY <1>3, <1>4, <1>6, <1>7
<1>9. (X \ {p}) \ {y} = (X \ {y}) \ {p}
  OBVIOUS
<1>10. f[p] \in Nat /\ f[y] \in Nat /\ SumOver(f, (X \ {y}) \ {p}) \in Nat
  <2>1. IsFiniteSet((X \ {y}) \ {p}) /\ \A s \in (X \ {y}) \ {p} : f[s] \in Nat
    BY <1>4, FS_Subset
  <2> QED
    BY <1>3, <1>4, <2>1, SumType
<1>11. \A a, b, c \in Nat : a + (b + c) = b + (a + c)
  OBVIOUS
<1> HIDE DEF B
<1> DEFINE rest == SumOver(f, (X \ {y}) \ {p})
<1>12. f[p] + (f[y] + rest) = f[y] + (f[p] + rest)
  BY <1>10, <1>11
<1>13. SumOver(f, X) = f[p] + (f[y] + rest) /\ SumOver(f, X \ {y}) = f[p] + rest
  BY <1>5, <1>8, <1>9, Zenon
<1> HIDE DEF rest
<1> QED
  BY <1>3, <1>12, <1>13, Zenon

\* Larger numbers have a larger sum, ...
LEMMA SumMonotone ==
    ASSUME NEW S, IsFiniteSet(S), NEW f, NEW g,
           \A s \in S : f[s] \in Nat /\ g[s] \in Nat /\ f[s] <= g[s]
    PROVE  SumOver(f, S) <= SumOver(g, S)
<1> DEFINE B == {X \in SUBSET S : ~ (SumOver(f, X) <= SumOver(g, X))}
<1>1. SUFFICES ASSUME B # {} PROVE FALSE
  OBVIOUS
<1>2. PICK X \in B : \A Y \in B : Y \subseteq X => Y = X
  <2>1. B \subseteq SUBSET S
    OBVIOUS
  <2> HIDE DEF B
  <2> QED BY <1>1, <2>1, LeastSubset
<1>3. /\ X \subseteq S /\ IsFiniteSet(X) /\ ~ (SumOver(f, X) <= SumOver(g, X))
      /\ \A x \in X : SumOver(f, X \ {x}) <= SumOver(g, X \ {x})
  BY <1>2, FS_Subset
<1> HIDE DEF B
<1>4. X # {}
  BY <1>3, SumEmpty
<1>5. PICK x : x \in X
  BY <1>4
<1>6. \A s \in X : f[s] \in Nat /\ g[s] \in Nat /\ f[s] <= g[s]
  BY <1>3
<1>7. SumOver(f, X) = f[x] + SumOver(f, X \ {x}) /\ SumOver(g, X) = g[x] + SumOver(g, X \ {x})
  BY <1>3, <1>5, <1>6, SumRemove
<1>8. SumOver(f, X \ {x}) \in Nat /\ SumOver(g, X \ {x}) \in Nat
  BY <1>3, <1>6, SumType, FS_Subset
<1> QED
  BY <1>3, <1>5, <1>6, <1>7, <1>8

\* ... and equal ones the same.
LEMMA SumAgree ==
    ASSUME NEW S, IsFiniteSet(S), NEW f, NEW g, \A s \in S : f[s] \in Nat /\ g[s] = f[s]
    PROVE  SumOver(g, S) = SumOver(f, S)
<1>1. \A s \in S : f[s] \in Nat /\ g[s] \in Nat /\ f[s] <= g[s] /\ g[s] <= f[s]
  OBVIOUS
<1>2. SumOver(f, S) <= SumOver(g, S) /\ SumOver(g, S) <= SumOver(f, S)
  BY <1>1, SumMonotone
<1>3. SumOver(f, S) \in Nat /\ SumOver(g, S) \in Nat
  BY <1>1, SumType
<1> QED
  BY <1>2, <1>3

\* One number grows by c.
LEMMA SumGrows ==
    ASSUME NEW S, IsFiniteSet(S), NEW f, NEW g, NEW x \in S, NEW c \in Nat,
           \A s \in S : f[s] \in Nat, g[x] = f[x] + c, \A s \in S \ {x} : g[s] = f[s]
    PROVE  SumOver(g, S) = SumOver(f, S) + c
<1>1. \A s \in S : g[s] \in Nat
  OBVIOUS
<1>2. IsFiniteSet(S \ {x}) /\ \A s \in S \ {x} : f[s] \in Nat
  BY FS_Subset
<1>3. SumOver(g, S \ {x}) = SumOver(f, S \ {x}) /\ SumOver(f, S \ {x}) \in Nat
  BY <1>2, SumAgree, SumType
<1>4. SumOver(g, S) = g[x] + SumOver(g, S \ {x}) /\ SumOver(f, S) = f[x] + SumOver(f, S \ {x})
  BY <1>1, SumRemove
<1> QED
  BY <1>3, <1>4

\* A part of a set has no larger sum.
LEMMA SumSubset ==
    ASSUME NEW S, IsFiniteSet(S), NEW T \in SUBSET S, NEW f, \A s \in S : f[s] \in Nat
    PROVE  SumOver(f, T) <= SumOver(f, S)
<1> DEFINE B == {X \in SUBSET S : T \subseteq X /\ ~ (SumOver(f, T) <= SumOver(f, X))}
<1>1. SUFFICES ASSUME B # {} PROVE FALSE
  OBVIOUS
<1>2. PICK X \in B : \A Y \in B : Y \subseteq X => Y = X
  <2>1. B \subseteq SUBSET S
    OBVIOUS
  <2> HIDE DEF B
  <2> QED BY <1>1, <2>1, LeastSubset
<1>3. /\ X \subseteq S /\ T \subseteq X /\ IsFiniteSet(X) /\ ~ (SumOver(f, T) <= SumOver(f, X))
      /\ \A x \in X \ T : SumOver(f, T) <= SumOver(f, X \ {x})
  BY <1>2, FS_Subset
<1> HIDE DEF B
<1>4. \A Y \in SUBSET S : SumOver(f, Y) \in Nat
  BY SumType, FS_Subset
<1>5. T # X
  BY <1>3, <1>4
<1>6. PICK x : x \in X \ T
  BY <1>3, <1>5
<1>7. \A s \in X : f[s] \in Nat
  BY <1>3
<1>8. SumOver(f, X) = f[x] + SumOver(f, X \ {x})
  BY <1>3, <1>6, <1>7, SumRemove
<1>9. SumOver(f, X \ {x}) \in Nat /\ SumOver(f, T) \in Nat /\ f[x] \in Nat
  BY <1>3, <1>4, <1>6, <1>7
<1> QED
  BY <1>3, <1>6, <1>8, <1>9

\* Zeros add nothing, ...
LEMMA SumOfZeros ==
    ASSUME NEW S, IsFiniteSet(S), NEW f, \A s \in S : f[s] = 0
    PROVE  SumOver(f, S) = 0
<1> DEFINE B == {X \in SUBSET S : SumOver(f, X) # 0}
<1>1. SUFFICES ASSUME B # {} PROVE FALSE
  OBVIOUS
<1>2. PICK X \in B : \A Y \in B : Y \subseteq X => Y = X
  <2>1. B \subseteq SUBSET S
    OBVIOUS
  <2> HIDE DEF B
  <2> QED BY <1>1, <2>1, LeastSubset
<1>3. /\ X \subseteq S /\ IsFiniteSet(X) /\ SumOver(f, X) # 0
      /\ \A x \in X : SumOver(f, X \ {x}) = 0
  BY <1>2, FS_Subset
<1> HIDE DEF B
<1>4. PICK x : x \in X
  BY <1>3, SumEmpty
<1>5. SumOver(f, X) = f[x] + SumOver(f, X \ {x})
  BY <1>3, <1>4, SumRemove
<1> QED
  BY <1>3, <1>4, <1>5

\* ... so a sum over the part that is not zero is the whole sum.
LEMMA SumOfPart ==
    ASSUME NEW S, IsFiniteSet(S), NEW T \in SUBSET S, NEW f, \A s \in S : f[s] \in Nat,
           \A s \in S \ T : f[s] = 0
    PROVE  SumOver(f, S) = SumOver(f, T)
<1> DEFINE B == {X \in SUBSET S : T \subseteq X /\ SumOver(f, X) # SumOver(f, T)}
<1>1. SUFFICES ASSUME B # {} PROVE FALSE
  OBVIOUS
<1>2. PICK X \in B : \A Y \in B : Y \subseteq X => Y = X
  <2>1. B \subseteq SUBSET S
    OBVIOUS
  <2> HIDE DEF B
  <2> QED BY <1>1, <2>1, LeastSubset
<1>3. /\ X \subseteq S /\ T \subseteq X /\ IsFiniteSet(X) /\ SumOver(f, X) # SumOver(f, T)
      /\ \A x \in X \ T : SumOver(f, X \ {x}) = SumOver(f, T)
  BY <1>2, FS_Subset
<1> HIDE DEF B
<1>4. PICK x : x \in X \ T
  BY <1>3
<1>5. \A s \in X : f[s] \in Nat
  BY <1>3
<1>6. SumOver(f, X) = f[x] + SumOver(f, X \ {x})
  BY <1>3, <1>4, <1>5, SumRemove
<1>7. SumOver(f, T) \in Nat /\ f[x] = 0
  BY <1>3, <1>4, SumType, FS_Subset
<1> QED
  BY <1>3, <1>4, <1>6, <1>7

\* A sum of numbers up to m.
LEMMA SumBound ==
    ASSUME NEW S, IsFiniteSet(S), NEW f, NEW m \in Nat, \A s \in S : f[s] \in 0..m
    PROVE  SumOver(f, S) <= Cardinality(S) * m
<1> DEFINE B == {X \in SUBSET S : ~ (SumOver(f, X) <= Cardinality(X) * m)}
<1>1. SUFFICES ASSUME B # {} PROVE FALSE
  OBVIOUS
<1>2. PICK X \in B : \A Y \in B : Y \subseteq X => Y = X
  <2>1. B \subseteq SUBSET S
    OBVIOUS
  <2> HIDE DEF B
  <2> QED BY <1>1, <2>1, LeastSubset
<1>3. /\ X \subseteq S /\ IsFiniteSet(X) /\ ~ (SumOver(f, X) <= Cardinality(X) * m)
      /\ \A x \in X : SumOver(f, X \ {x}) <= Cardinality(X \ {x}) * m
  BY <1>2, FS_Subset
<1> HIDE DEF B
<1>4. X # {}
  BY <1>3, SumEmpty, FS_EmptySet
<1>5. PICK x : x \in X
  BY <1>4
<1>6. \A s \in X : f[s] \in Nat /\ f[s] <= m
  BY <1>3
<1>7. SumOver(f, X) = f[x] + SumOver(f, X \ {x}) /\ SumOver(f, X \ {x}) \in Nat
  BY <1>3, <1>5, <1>6, SumRemove, SumType, FS_Subset
<1>8. Cardinality(X) \in Nat /\ Cardinality(X \ {x}) \in Nat
      /\ Cardinality(X) = Cardinality(X \ {x}) + 1
  <2>1. IsFiniteSet(X \ {x}) /\ Cardinality(X \ {x}) = Cardinality(X) - 1
    BY <1>3, <1>5, FS_RemoveElement
  <2>2. Cardinality(X) \in Nat /\ Cardinality(X \ {x}) \in Nat
    BY <1>3, <2>1, FS_CardinalityType
  <2> QED
    BY <2>1, <2>2
<1>9. \A k \in Nat : (k + 1) * m = k * m + m /\ k * m \in Nat
  OBVIOUS
<1> QED
  BY <1>3, <1>5, <1>6, <1>7, <1>8, <1>9

\* Two sums whose numbers differ by at most c.
LEMMA SumWithin ==
    ASSUME NEW S, IsFiniteSet(S), NEW f, NEW g, NEW c \in Nat,
           \A s \in S : f[s] \in Nat /\ g[s] \in Nat /\ f[s] <= g[s] + c
    PROVE  SumOver(f, S) <= SumOver(g, S) + c * Cardinality(S)
<1> DEFINE B == {X \in SUBSET S : ~ (SumOver(f, X) <= SumOver(g, X) + c * Cardinality(X))}
<1>1. SUFFICES ASSUME B # {} PROVE FALSE
  OBVIOUS
<1>2. PICK X \in B : \A Y \in B : Y \subseteq X => Y = X
  <2>1. B \subseteq SUBSET S
    OBVIOUS
  <2> HIDE DEF B
  <2> QED BY <1>1, <2>1, LeastSubset
<1>3. /\ X \subseteq S /\ IsFiniteSet(X)
      /\ ~ (SumOver(f, X) <= SumOver(g, X) + c * Cardinality(X))
      /\ \A x \in X : SumOver(f, X \ {x}) <= SumOver(g, X \ {x}) + c * Cardinality(X \ {x})
  BY <1>2, FS_Subset
<1> HIDE DEF B
<1>4. X # {}
  <2>1. SumOver(f, {}) = 0 /\ SumOver(g, {}) = 0 /\ Cardinality({}) = 0
    BY SumEmpty, FS_EmptySet
  <2>2. SumOver(f, {}) <= SumOver(g, {}) + c * Cardinality({})
    BY <2>1
  <2> QED
    BY <1>3, <2>2
<1>5. PICK x : x \in X
  BY <1>4
<1>6. \A s \in X : f[s] \in Nat /\ g[s] \in Nat /\ f[s] <= g[s] + c
  BY <1>3
<1> DEFINE R == X \ {x}
<1>7. /\ SumOver(f, X) = f[x] + SumOver(f, R) /\ SumOver(f, R) \in Nat
      /\ SumOver(g, X) = g[x] + SumOver(g, R) /\ SumOver(g, R) \in Nat
  BY <1>3, <1>5, <1>6, SumRemove, SumType, FS_Subset
<1>8. Cardinality(R) \in Nat /\ Cardinality(X) = Cardinality(R) + 1
  <2>1. IsFiniteSet(R) /\ Cardinality(R) = Cardinality(X) - 1
    BY <1>3, <1>5, FS_RemoveElement
  <2>2. Cardinality(X) \in Nat /\ Cardinality(R) \in Nat
    BY <1>3, <2>1, FS_CardinalityType
  <2> QED
    BY <2>1, <2>2
<1>9. \A n \in Nat : c * (n + 1) = c * n + c /\ c * n \in Nat
  OBVIOUS
<1>10. SumOver(f, R) <= SumOver(g, R) + c * Cardinality(R)
  BY <1>3, <1>5
<1> HIDE DEF R
<1> QED
  BY <1>3, <1>5, <1>6, <1>7, <1>8, <1>9, <1>10

-----------------------------------------------------------------------------
(* Numbers, and functions defined by recursion over them.                  *)

\* A set of naturals has a least one: induction over the naturals.
LEMMA LeastNat ==
    ASSUME NEW B, B \subseteq Nat, B # {}
    PROVE  \E n \in B : \A m \in B : n <= m
<1>1. PICK b \in B : TRUE
  OBVIOUS
<1> DEFINE S == 0..b
           Y == {s \in SUBSET S : \E n \in B : n <= b /\ s = 0..n}
<1>2. IsFiniteSet(S) /\ Y \subseteq SUBSET S /\ S \in Y
  BY <1>1, FS_Interval
<1>3. PICK X \in Y : \A Z \in Y : Z \subseteq X => Z = X
  <2> HIDE DEF S, Y
  <2> QED BY <1>2, LeastSubset
<1>4. PICK n \in B : n <= b /\ X = 0..n
  BY <1>3
<1>5. ASSUME NEW m \in B, m < n PROVE FALSE
  <2>1. 0..m \in Y /\ 0..m \subseteq 0..n
    BY <1>1, <1>4, <1>5
  <2>2. 0..m = 0..n
    BY <1>3, <1>4, <2>1
  <2>3. n \in 0..n /\ n \notin 0..m
    BY <1>4, <1>5
  <2> QED
    BY <2>2, <2>3
<1> QED
  BY <1>4, <1>5

\* A set of naturals that is bounded has a greatest one.
LEMMA GreatestNat ==
    ASSUME NEW B, B \subseteq Nat, B # {}, NEW b \in Nat, \A n \in B : n <= b
    PROVE  \E n \in B : \A m \in B : m <= n
<1> DEFINE D == {d \in Nat : \E n \in B : d = b - n}
<1>1. D \subseteq Nat /\ D # {}
  <2>1. PICK n \in B : TRUE
    OBVIOUS
  <2>2. b - n \in D
    BY <2>1
  <2> QED
    BY <2>2
<1>2. PICK d \in D : \A e \in D : d <= e
  <2> HIDE DEF D
  <2> QED BY <1>1, LeastNat
<1>3. PICK n \in B : d = b - n
  BY <1>2
<1>4. ASSUME NEW m \in B PROVE m <= n
  <2>1. b - m \in D
    OBVIOUS
  <2>2. d <= b - m
    BY <1>2, <2>1
  <2> QED
    BY <1>3, <2>2
<1> QED
  BY <1>4

\* f repeats the step from the start, n times.
Repeats(f, n, start, step) ==
    f[0] = start /\ \A k \in 1..n : f[k] = step[k][f[k - 1]]

\* A recursion over numbers has a solution: its defining equation is one.
LEMMA RepeatsExists ==
    ASSUME NEW V, NEW start \in V, NEW step \in [Nat -> [V -> V]], NEW n \in Nat
    PROVE  \E f \in [0..n -> V] : Repeats(f, n, start, step)
<1> DEFINE B == {m \in Nat : ~ (\E f \in [0..m -> V] : Repeats(f, m, start, step))}
<1>1. SUFFICES ASSUME B # {} PROVE FALSE
  OBVIOUS
<1>2. PICK m \in B : \A k \in B : m <= k
  <2>1. B \subseteq Nat
    OBVIOUS
  <2> HIDE DEF B
  <2> QED BY <1>1, <2>1, LeastNat
<1>3. m \in Nat /\ ~ (\E f \in [0..m -> V] : Repeats(f, m, start, step))
  BY <1>2
<1>4. CASE m = 0
  <2> DEFINE f == [k \in 0..0 |-> start]
  <2>1. f \in [0..0 -> V] /\ Repeats(f, 0, start, step)
    BY DEF Repeats
  <2> HIDE DEF f
  <2> QED
    BY <1>3, <1>4, <2>1
<1>5. CASE m # 0
  <2>1. m - 1 \in Nat /\ m - 1 \notin B
    BY <1>2, <1>3, <1>5
  <2>2. PICK f \in [0..(m - 1) -> V] : Repeats(f, m - 1, start, step)
    BY <2>1
  <2> DEFINE g == [k \in 0..m |-> IF k < m THEN f[k] ELSE step[m][f[m - 1]]]
  <2>3. m \in Nat /\ f[m - 1] \in V /\ step[m][f[m - 1]] \in V
    BY <1>3, <2>1
  <2>4. g \in [0..m -> V]
    BY <1>3, <2>3
  <2>5. g[m] = step[m][g[m - 1]]
    BY <1>3, <2>1
  <2>6. \A k \in 0..(m - 1) : g[k] = f[k]
    BY <1>3
  <2> HIDE DEF g
  <2>7. ASSUME NEW k \in 1..m PROVE g[k] = step[k][g[k - 1]]
    <3>1. CASE k = m
      BY <2>5, <3>1
    <3>2. CASE k # m
      <4>1. k \in 1..(m - 1) /\ k - 1 \in 0..(m - 1) /\ k \in 0..(m - 1)
        BY <1>3, <3>2
      <4> QED
        BY <2>2, <2>6, <4>1 DEF Repeats
    <3> QED
      BY <3>1, <3>2
  <2>8. g[0] = start
    <3>1. 0 \in 0..(m - 1)
      BY <2>1
    <3> QED
      BY <2>2, <2>6, <3>1 DEF Repeats
  <2> QED
    BY <1>3, <2>4, <2>7, <2>8 DEF Repeats
<1> QED
  BY <1>4, <1>5
=============================================================================
