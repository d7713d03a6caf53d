----------------------------- MODULE SumsProofs -----------------------------
(***************************************************************************)
(* Facts about sums over a finite set.  The library's fold is a recursive  *)
(* function on subsets; what it computes is shown by looking at a smallest *)
(* subset on which it would not, which exists since strict inclusion of    *)
(* finite sets is well-founded.                                            *)
(***************************************************************************)
EXTENDS Sums, FiniteSetTheorems, WellFoundedInduction, TLAPS

(* t gives every subset of S the sum of f over it, whatever order its      *)
(* elements are taken in.                                                  *)
IsSumTable(t, f, S) ==
    /\ t \in [SUBSET S -> Int]
    /\ t[{}] = 0
    /\ \A T \in SUBSET S : \A x \in T : t[T] = f[x] + t[T \ {x}]

IntegersOn(f, S) == \A x \in S : f[x] \in Int

(* A set of subsets of a finite set that is not empty has a member none of *)
(* whose strict subsets belongs to it.                                     *)
LEMMA SmallestSubset ==
    ASSUME NEW S, IsFiniteSet(S), NEW B, B \subseteq SUBSET S, B # {}
    PROVE  \E T \in B : \A U \in B : U \subseteq T => U = T
<1>1. FiniteSubsetsOf(S) = SUBSET S
    BY FS_FiniteSubsetsOfFinite
<1>2. IsWellFoundedOn(StrictSubsetOrdering(S), SUBSET S)
    BY <1>1, FS_StrictSubsetOrderingWellFounded
<1>3. PICK T \in B : \A U \in B : ~(<<U, T>> \in StrictSubsetOrdering(S))
    BY <1>2, WFMin, Zenon
<1>4. ASSUME NEW U \in B, U \subseteq T
      PROVE  U = T
    <2>1. <<U, T>> \notin StrictSubsetOrdering(S)
        BY <1>3
    <2>2. <<U, T>> \in (SUBSET S) \X (SUBSET S)
        OBVIOUS
    <2>3. QED BY <2>1, <2>2, <1>4 DEF StrictSubsetOrdering
<1>5. QED BY <1>4

(* A table of the sums over the subsets of T without x, and one for T.     *)
LEMMA TableGrows ==
    ASSUME NEW f, NEW T, IntegersOn(f, T), NEW x \in T, NEW t, IsSumTable(t, f, T \ {x})
    PROVE  IsSumTable([U \in SUBSET T |-> IF x \in U THEN f[x] + t[U \ {x}] ELSE t[U]], f, T)
<1> DEFINE R == T \ {x}
           h == [U \in SUBSET T |-> IF x \in U THEN f[x] + t[U \ {x}] ELSE t[U]]
<1>0. \A y \in T : f[y] \in Int
    BY DEF IntegersOn
<1>1. /\ t \in [SUBSET R -> Int] /\ t[{}] = 0
      /\ \A U \in SUBSET R : \A y \in U : t[U] = f[y] + t[U \ {y}]
    BY DEF IsSumTable
<1>2. h \in [SUBSET T -> Int]
    <2>1. ASSUME NEW U \in SUBSET T
          PROVE  (IF x \in U THEN f[x] + t[U \ {x}] ELSE t[U]) \in Int
        <3>1. CASE x \in U
            <4>1. U \ {x} \in SUBSET R
                OBVIOUS
            <4>2. t[U \ {x}] \in Int
                BY <4>1, <1>1
            <4>3. QED BY <4>2, <3>1, <1>0
        <3>2. CASE x \notin U
            <4>1. U \in SUBSET R
                BY <3>2
            <4>2. QED BY <4>1, <1>1, <3>2
        <3>3. QED BY <3>1, <3>2
    <2>2. QED BY <2>1
<1>3. h[{}] = 0
    BY <1>1
<1>4. ASSUME NEW U \in SUBSET T, NEW y \in U
      PROVE  h[U] = f[y] + h[U \ {y}]
    <2>1. U \ {y} \in SUBSET T
        OBVIOUS
    <2>2. CASE y = x
        <3>1. h[U] = f[x] + t[U \ {x}]
            BY <2>2
        <3>2. h[U \ {y}] = t[U \ {x}]
            BY <2>1, <2>2
        <3>3. QED BY <3>1, <3>2, <2>2
    <2>3. CASE y # x /\ x \in U
        <3>1. h[U] = f[x] + t[U \ {x}]
            BY <2>3
        <3>2. h[U \ {y}] = f[x] + t[(U \ {y}) \ {x}]
            BY <2>1, <2>3
        <3>3. (U \ {y}) \ {x} = (U \ {x}) \ {y}
            OBVIOUS
        <3>4. U \ {x} \in SUBSET R /\ y \in U \ {x}
            BY <2>3
        <3>5. t[U \ {x}] = f[y] + t[(U \ {x}) \ {y}]
            BY <3>4, <1>1
        <3>6. (U \ {x}) \ {y} \in SUBSET R
            BY <3>4
        <3>7. t[(U \ {x}) \ {y}] \in Int /\ t[U \ {x}] \in Int
            BY <3>6, <3>4, <1>1
        <3> HIDE DEF h, R
        <3>8. SUFFICES f[x] + (f[y] + t[(U \ {x}) \ {y}]) = f[y] + (f[x] + t[(U \ {x}) \ {y}])
            BY <3>1, <3>2, <3>3, <3>5
        <3>9. f[x] \in Int /\ f[y] \in Int
            BY <1>0
        <3>10. QED BY <3>9, <3>7
    <2>4. CASE x \notin U
        <3>1. U \in SUBSET R
            BY <2>4
        <3>2. h[U] = t[U] /\ h[U \ {y}] = t[U \ {y}]
            BY <2>4, <2>1
        <3>3. QED BY <3>1, <3>2, <1>1
    <2>5. QED BY <2>2, <2>3, <2>4
<1>5. QED BY <1>2, <1>3, <1>4 DEF IsSumTable

(* There is a table of sums for every finite set.                          *)
LEMMA TableExists ==
    ASSUME NEW S, IsFiniteSet(S), NEW f, IntegersOn(f, S)
    PROVE  \E t : IsSumTable(t, f, S)
<1> DEFINE B == {T \in SUBSET S : ~\E t : IsSumTable(t, f, T)}
<1>1. SUFFICES ASSUME B # {}
               PROVE  FALSE
    OBVIOUS
<1>2. B \subseteq SUBSET S
    OBVIOUS
<1>3. PICK T \in B : \A U \in B : U \subseteq T => U = T
    <2> HIDE DEF B
    <2>1. QED BY <1>1, <1>2, SmallestSubset
<1>4. T # {}
    <2>1. IsSumTable([U \in SUBSET {} |-> 0], f, {})
        BY DEF IsSumTable
    <2>2. QED BY <2>1
<1>5. PICK x \in T : TRUE
    BY <1>4
<1>6. T \ {x} \notin B
    BY <1>3
<1>7. T \ {x} \in SUBSET S
    OBVIOUS
<1>8. PICK t : IsSumTable(t, f, T \ {x})
    BY <1>6, <1>7
<1>9. IntegersOn(f, T)
    BY <1>7 DEF IntegersOn
<1>10. \E u : IsSumTable(u, f, T)
    BY <1>8, <1>9, TableGrows
<1>11. QED BY <1>10

(* The recursive function behind the library's sum.                        *)
First(T) == CHOOSE x \in T : TRUE
Fold(f, S) == CHOOSE g : g = [T \in SUBSET S |-> IF T = {} THEN 0
                                                 ELSE f[First(T)] + g[T \ {First(T)}]]

LEMMA SumOverIsFold ==
    ASSUME NEW f, NEW S
    PROVE  SumOver(f, S) = Fold(f, S)[S]
BY Zenon DEF SumOver, MapThenSumSet, MapThenFoldSet, Fold, First

(* The sum is what any table of sums says.                                 *)
LEMMA SumFromTable ==
    ASSUME NEW S, IsFiniteSet(S), NEW f, NEW t, IsSumTable(t, f, S)
    PROVE  SumOver(f, S) = t[S]
<1> DEFINE Step(g) == [T \in SUBSET S |-> IF T = {} THEN 0
                                          ELSE f[First(T)] + g[T \ {First(T)}]]
           F == Fold(f, S)
<1>1. \A T \in SUBSET S : T # {} => First(T) \in T
    BY DEF First
<1>2. t = Step(t)
    <2>1. t \in [SUBSET S -> Int] /\ t[{}] = 0
        BY DEF IsSumTable
    <2>2. ASSUME NEW T \in SUBSET S
          PROVE  t[T] = IF T = {} THEN 0 ELSE f[First(T)] + t[T \ {First(T)}]
        BY <1>1, <2>1 DEF IsSumTable
    <2>3. QED BY <2>1, <2>2
<1>3. F = Step(F)
    BY <1>2, Zenon DEF Fold
<1> DEFINE B == {T \in SUBSET S : F[T] # t[T]}
<1>4. B = {}
    <2>1. SUFFICES ASSUME B # {} PROVE FALSE
        OBVIOUS
    <2>2. B \subseteq SUBSET S
        OBVIOUS
    <2>3. PICK T \in B : \A U \in B : U \subseteq T => U = T
        <3> HIDE DEF B
        <3>1. QED BY <2>1, <2>2, SmallestSubset
    <2> HIDE DEF F
    <2>4. F[T] = (IF T = {} THEN 0 ELSE f[First(T)] + F[T \ {First(T)}])
        BY <1>3
    <2>5. t[T] = (IF T = {} THEN 0 ELSE f[First(T)] + t[T \ {First(T)}])
        BY <1>2
    <2>6. T # {} => T \ {First(T)} \notin B
        BY <2>3, <1>1
    <2>7. T # {} => F[T \ {First(T)}] = t[T \ {First(T)}]
        BY <2>6
    <2>8. QED BY <2>4, <2>5, <2>7
<1>5. F[S] = t[S]
    BY <1>4
<1>6. QED BY <1>5, SumOverIsFold

(* What the other modules use: the sum is an integer, an element can be    *)
(* set apart, and the sum depends on the values in the set only.           *)
LEMMA SumEmpty ==
    ASSUME NEW f
    PROVE  SumOver(f, {}) = 0
<1>1. IsFiniteSet({})
    BY FS_EmptySet
<1>2. IsSumTable([T \in SUBSET {} |-> 0], f, {})
    BY DEF IsSumTable
<1>3. SumOver(f, {}) = [T \in SUBSET {} |-> 0][{}]
    BY <1>1, <1>2, SumFromTable
<1>4. QED BY <1>3

LEMMA SumIsInteger ==
    ASSUME NEW S, IsFiniteSet(S), NEW f, IntegersOn(f, S)
    PROVE  SumOver(f, S) \in Int
<1>1. PICK t : IsSumTable(t, f, S)
    BY TableExists
<1>2. SumOver(f, S) = t[S]
    BY <1>1, SumFromTable
<1>3. QED BY <1>1, <1>2 DEF IsSumTable

(* A table for a set holds the sums over its subsets.                      *)
LEMMA TableOfSubset ==
    ASSUME NEW S, IsFiniteSet(S), NEW f, NEW t, IsSumTable(t, f, S), NEW T \in SUBSET S
    PROVE  SumOver(f, T) = t[T]
<1> DEFINE u == [U \in SUBSET T |-> t[U]]
<1>1. IsFiniteSet(T)
    BY FS_Subset
<1>2. IsSumTable(u, f, T)
    <2>1. \A U \in SUBSET T : U \in SUBSET S
        OBVIOUS
    <2>2. u \in [SUBSET T -> Int]
        BY <2>1 DEF IsSumTable
    <2>3. u[{}] = 0
        BY <2>1 DEF IsSumTable
    <2>4. ASSUME NEW U \in SUBSET T, NEW x \in U
          PROVE  u[U] = f[x] + u[U \ {x}]
        BY <2>1 DEF IsSumTable
    <2>5. QED BY <2>2, <2>3, <2>4 DEF IsSumTable
<1>3. SumOver(f, T) = u[T]
    <2> HIDE DEF u
    <2>1. QED BY <1>1, <1>2, SumFromTable
<1>4. QED BY <1>3

LEMMA SumSplit ==
    ASSUME NEW S, IsFiniteSet(S), NEW f, IntegersOn(f, S), NEW x \in S
    PROVE  /\ SumOver(f, S) = f[x] + SumOver(f, S \ {x})
           /\ SumOver(f, S \ {x}) \in Int
<1>1. PICK t : IsSumTable(t, f, S)
    BY TableExists
<1>2. S \ {x} \in SUBSET S
    OBVIOUS
<1>3. SumOver(f, S \ {x}) = t[S \ {x}]
    BY <1>1, <1>2, TableOfSubset
<1>4. SumOver(f, S) = t[S]
    BY <1>1, SumFromTable
<1>5. QED BY <1>1, <1>2, <1>3, <1>4 DEF IsSumTable

LEMMA SumSame ==
    ASSUME NEW S, IsFiniteSet(S), NEW f, IntegersOn(f, S), NEW g, \A x \in S : g[x] = f[x]
    PROVE  SumOver(g, S) = SumOver(f, S)
<1>1. PICK t : IsSumTable(t, f, S)
    BY TableExists
<1>2. IsSumTable(t, g, S)
    BY <1>1 DEF IsSumTable
<1>3. QED BY <1>1, <1>2, SumFromTable

(* One value changes: the sum changes by as much.                          *)
LEMMA SumChanges ==
    ASSUME NEW S, IsFiniteSet(S), NEW f, IntegersOn(f, S), NEW g, IntegersOn(g, S),
           NEW x \in S, \A y \in S \ {x} : g[y] = f[y]
    PROVE  SumOver(g, S) = SumOver(f, S) + g[x] - f[x]
<1>1. IsFiniteSet(S \ {x})
    BY FS_RemoveElement
<1>2. IntegersOn(f, S \ {x})
    BY DEF IntegersOn
<1>3. SumOver(g, S \ {x}) = SumOver(f, S \ {x})
    BY <1>1, <1>2, SumSame
<1>4. /\ SumOver(f, S) = f[x] + SumOver(f, S \ {x})
      /\ SumOver(g, S) = g[x] + SumOver(g, S \ {x})
      /\ SumOver(f, S \ {x}) \in Int
    BY SumSplit
<1>5. f[x] \in Int /\ g[x] \in Int
    BY DEF IntegersOn
<1>6. QED BY <1>3, <1>4, <1>5

LEMMA SumAdds ==
    ASSUME NEW S, IsFiniteSet(S), NEW f, IntegersOn(f, S), NEW g, IntegersOn(g, S),
           NEW h, \A x \in S : h[x] = f[x] + g[x]
    PROVE  SumOver(h, S) = SumOver(f, S) + SumOver(g, S)
<1>1. PICK t : IsSumTable(t, f, S)
    BY TableExists
<1>2. PICK u : IsSumTable(u, g, S)
    BY TableExists
<1> DEFINE v == [T \in SUBSET S |-> t[T] + u[T]]
<1>3. IsSumTable(v, h, S)
    <2>1. \A T \in SUBSET S : t[T] \in Int /\ u[T] \in Int
        BY <1>1, <1>2 DEF IsSumTable
    <2>2. v \in [SUBSET S -> Int]
        BY <2>1
    <2>3. v[{}] = 0
        BY <1>1, <1>2 DEF IsSumTable
    <2>4. ASSUME NEW T \in SUBSET S, NEW x \in T
          PROVE  v[T] = h[x] + v[T \ {x}]
        <3>1. T \ {x} \in SUBSET S /\ x \in S
            OBVIOUS
        <3>2. t[T] = f[x] + t[T \ {x}] /\ u[T] = g[x] + u[T \ {x}]
            BY <1>1, <1>2 DEF IsSumTable
        <3>3. f[x] \in Int /\ g[x] \in Int /\ h[x] = f[x] + g[x]
            BY <3>1 DEF IntegersOn
        <3>4. v[T] = t[T] + u[T] /\ v[T \ {x}] = t[T \ {x}] + u[T \ {x}]
            BY <3>1
        <3>5. QED BY <2>1, <3>1, <3>2, <3>3, <3>4
    <2>5. QED BY <2>2, <2>3, <2>4 DEF IsSumTable
<1>4. SumOver(h, S) = v[S]
    <2> HIDE DEF v
    <2>1. QED BY <1>3, SumFromTable
<1>5. SumOver(f, S) = t[S] /\ SumOver(g, S) = u[S]
    BY <1>1, <1>2, SumFromTable
<1>6. QED BY <1>4, <1>5

(* A sum of values that are not larger is not larger: a smallest subset    *)
(* over which it were would lose its excess with any of its elements.      *)
LEMMA SumMonotonic ==
    ASSUME NEW S, IsFiniteSet(S), NEW f, IntegersOn(f, S), NEW g, IntegersOn(g, S),
           \A x \in S : f[x] <= g[x]
    PROVE  SumOver(f, S) <= SumOver(g, S)
<1> DEFINE B == {T \in SUBSET S : ~(SumOver(f, T) <= SumOver(g, T))}
<1>1. SUFFICES ASSUME B # {}
               PROVE  FALSE
    OBVIOUS
<1>2. B \subseteq SUBSET S
    OBVIOUS
<1>3. PICK T \in B : \A U \in B : U \subseteq T => U = T
    <2> HIDE DEF B
    <2>1. QED BY <1>1, <1>2, SmallestSubset
<1>4. T # {}
    <2>1. SumOver(f, {}) = 0 /\ SumOver(g, {}) = 0
        BY SumEmpty
    <2>2. QED BY <2>1
<1>5. PICK x \in T : TRUE
    BY <1>4
<1>6. IsFiniteSet(T) /\ T \in SUBSET S
    BY FS_Subset
<1>7. IntegersOn(f, T) /\ IntegersOn(g, T)
    BY <1>6 DEF IntegersOn
<1>8. /\ SumOver(f, T) = f[x] + SumOver(f, T \ {x})
      /\ SumOver(f, T \ {x}) \in Int
      /\ SumOver(g, T) = g[x] + SumOver(g, T \ {x})
      /\ SumOver(g, T \ {x}) \in Int
    BY <1>6, <1>7, SumSplit
<1>9. SumOver(f, T \ {x}) <= SumOver(g, T \ {x})
    <2>1. T \ {x} \notin B
        BY <1>3
    <2>2. QED BY <2>1, <1>6
<1>10. f[x] \in Int /\ g[x] \in Int /\ f[x] <= g[x]
    BY <1>6 DEF IntegersOn
<1>11. QED BY <1>8, <1>9, <1>10

LEMMA SumOfZeros ==
    ASSUME NEW S, IsFiniteSet(S), NEW f, \A x \in S : f[x] = 0
    PROVE  SumOver(f, S) = 0
<1> DEFINE t == [T \in SUBSET S |-> 0]
<1>1. IsSumTable(t, f, S)
    BY DEF IsSumTable
<1>2. SumOver(f, S) = t[S]
    <2> HIDE DEF t
    <2>1. QED BY <1>1, SumFromTable
<1>3. QED BY <1>2

LEMMA SumIsNatural ==
    ASSUME NEW S, IsFiniteSet(S), NEW f, \A x \in S : f[x] \in Nat
    PROVE  SumOver(f, S) \in Nat
<1> DEFINE z == [x \in S |-> 0]
<1>1. IntegersOn(f, S) /\ IntegersOn(z, S)
    BY DEF IntegersOn
<1>2. SumOver(z, S) = 0
    <2>1. \A x \in S : z[x] = 0
        OBVIOUS
    <2> HIDE DEF z
    <2>2. QED BY <2>1, SumOfZeros
<1>3. \A x \in S : z[x] <= f[x]
    OBVIOUS
<1>4. SumOver(z, S) <= SumOver(f, S)
    <2> HIDE DEF z
    <2>1. QED BY <1>1, <1>3, SumMonotonic
<1>5. SumOver(f, S) \in Int
    BY <1>1, SumIsInteger
<1>6. QED BY <1>2, <1>4, <1>5

(* Values that are zero may be left out.                                   *)
LEMMA SumWithoutZeros ==
    ASSUME NEW S, IsFiniteSet(S), NEW f, IntegersOn(f, S), NEW T \in SUBSET S,
           \A x \in S \ T : f[x] = 0
    PROVE  SumOver(f, S) = SumOver(f, T)
<1> DEFINE B == {U \in SUBSET (S \ T) : SumOver(f, T \cup U) # SumOver(f, T)}
<1>1. SUFFICES ASSUME B # {}
               PROVE  FALSE
    <2>1. T \cup (S \ T) = S
        OBVIOUS
    <2>2. SumOver(f, S) # SumOver(f, T) => S \ T \in B
        <3>1. SumOver(f, T \cup (S \ T)) = SumOver(f, S)
            BY <2>1
        <3>2. QED BY <3>1
    <2>3. QED BY <2>2
<1>2. IsFiniteSet(S \ T) /\ B \subseteq SUBSET (S \ T)
    BY FS_Subset
<1>3. PICK U \in B : \A V \in B : V \subseteq U => V = U
    <2> HIDE DEF B
    <2>1. QED BY <1>1, <1>2, SmallestSubset
<1>4. U # {}
    <2>1. T \cup {} = T
        OBVIOUS
    <2>2. QED BY <2>1
<1>5. PICK x \in U : TRUE
    BY <1>4
<1>6. T \cup U \in SUBSET S /\ x \in T \cup U /\ f[x] = 0
    OBVIOUS
<1>7. IsFiniteSet(T \cup U) /\ IntegersOn(f, T \cup U)
    BY <1>6, FS_Subset DEF IntegersOn
<1>8. (T \cup U) \ {x} = T \cup (U \ {x})
    OBVIOUS
<1>9. SumOver(f, T \cup U) = 0 + SumOver(f, T \cup (U \ {x})) /\ SumOver(f, T \cup (U \ {x})) \in Int
    BY <1>6, <1>7, <1>8, SumSplit
<1>10. SumOver(f, T \cup (U \ {x})) = SumOver(f, T)
    <2>1. U \ {x} \notin B
        BY <1>3
    <2>2. QED BY <2>1
<1>11. QED BY <1>9, <1>10

(* Naturals add up to nothing only if they are nothing, and to no less     *)
(* than any of them.                                                       *)
LEMMA SumCovers ==
    ASSUME NEW S, IsFiniteSet(S), NEW f, \A x \in S : f[x] \in Nat, NEW x \in S
    PROVE  f[x] <= SumOver(f, S)
<1>1. IsFiniteSet(S \ {x})
    BY FS_RemoveElement
<1>2. SumOver(f, S \ {x}) \in Nat
    BY <1>1, SumIsNatural
<1>3. IntegersOn(f, S)
    BY DEF IntegersOn
<1>4. SumOver(f, S) = f[x] + SumOver(f, S \ {x})
    BY <1>3, SumSplit
<1>5. QED BY <1>2, <1>4

(* Each of n values is at most m: their sum is at most n * m.              *)
LEMMA SumIsBounded ==
    ASSUME NEW S, IsFiniteSet(S), NEW f, IntegersOn(f, S), NEW m \in Int,
           \A x \in S : f[x] <= m
    PROVE  SumOver(f, S) <= Cardinality(S) * m
<1> DEFINE c == [x \in S |-> m]
           t == [T \in SUBSET S |-> Cardinality(T) * m]
<1>1. \A T \in SUBSET S : IsFiniteSet(T) /\ Cardinality(T) \in Nat
    BY FS_Subset, FS_CardinalityType
<1>2. IsSumTable(t, c, S)
    <2>1. t \in [SUBSET S -> Int]
        BY <1>1
    <2>2. t[{}] = 0
        BY FS_EmptySet
    <2>3. ASSUME NEW T \in SUBSET S, NEW x \in T
          PROVE  t[T] = c[x] + t[T \ {x}]
        <3>1. Cardinality(T \ {x}) = Cardinality(T) - 1
            BY <1>1, FS_RemoveElement
        <3>2. t[T \ {x}] = (Cardinality(T) - 1) * m /\ t[T] = Cardinality(T) * m /\ c[x] = m
            BY <3>1
        <3>3. \A n \in Nat : n * m = m + (n - 1) * m
            OBVIOUS
        <3>4. QED BY <3>2, <3>3, <1>1
    <2>4. QED BY <2>1, <2>2, <2>3 DEF IsSumTable
<1>3. SumOver(c, S) = Cardinality(S) * m
    <2>1. t[S] = Cardinality(S) * m
        OBVIOUS
    <2> HIDE DEF c, t
    <2>2. QED BY <1>2, <2>1, SumFromTable
<1>4. IntegersOn(c, S) /\ \A x \in S : f[x] <= c[x]
    BY DEF IntegersOn
<1>5. QED
    <2> HIDE DEF c, t
    <2>1. QED BY <1>3, <1>4, SumMonotonic
=============================================================================
