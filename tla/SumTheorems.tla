------------------------------ MODULE SumTheorems ------------------------------
(***************************************************************************)
(* What the proofs of the other modules need to know of SumFunctionOnSet   *)
(* of the community modules: a sum is a recursive function over the        *)
(* subsets of a set, shown to satisfy its defining equation and to be      *)
(* independent of the order of its terms.  Then the remainders of numbers  *)
(* that wrap.                                                              *)
(***************************************************************************)
EXTENDS Naturals, Functions, FiniteSets, FiniteSetTheorems, WellFoundedInduction, TLAPS

\* The least-number principle, for sets of naturals: the inductions below say
\* that no counterexample is the smallest.
LEMMA Least == ASSUME NEW S, S \subseteq Nat, S # {} PROVE \E n \in S : \A m \in S : n <= m
<1> DEFINE R == OpToRel(<, Nat)
<1>1. IsWellFoundedOn(R, Nat)
  BY NatLessThanWellFounded
<1>2. \A a, b \in Nat : <<a, b>> \in R <=> a < b
  BY DEF OpToRel
<1> HIDE DEF R
<1>3. PICK n \in S : \A m \in S : ~ (<<m, n>> \in R)
  BY <1>1, WFMin
<1>4. n \in Nat /\ \A m \in S : m \in Nat /\ ~ (m < n)
  BY <1>2, <1>3
<1>5. \A m \in S : n <= m
  BY <1>4
<1>6. QED BY <1>5

\* The element a fold takes out of a set, and one level of its recursion.
Picked(s) == CHOOSE x \in s : TRUE
Level(f, it, s) == IF s = {} THEN 0 ELSE f[Picked(s)] + it[s \ {Picked(s)}]
Fold(f, D) == CHOOSE it : it = [s \in SUBSET D |-> Level(f, it, s)]

LEMMA SumIsFold == ASSUME NEW f, NEW D PROVE SumFunctionOnSet(f, D) = Fold(f, D)[D]
BY Zenon DEF SumFunctionOnSet, FoldFunctionOnSet, MapThenFoldSet, Fold, Level, Picked

LEMMA PickedIn == ASSUME NEW s, s # {} PROVE Picked(s) \in s
BY Zenon DEF Picked

LEMMA Smaller ==
    ASSUME NEW s, IsFiniteSet(s), s # {}
    PROVE  /\ IsFiniteSet(s \ {Picked(s)})
           /\ Cardinality(s \ {Picked(s)}) = Cardinality(s) - 1
           /\ Cardinality(s) \in Nat /\ Cardinality(s \ {Picked(s)}) \in Nat
<1>1. Picked(s) \in s
  BY PickedIn
<1>2. QED BY <1>1, FS_RemoveElement, FS_CardinalityType

LEMMA LevelAgree ==
    ASSUME NEW s, NEW f, NEW g, NEW a, NEW b,
           s # {} => f[Picked(s)] = g[Picked(s)] /\ a[s \ {Picked(s)}] = b[s \ {Picked(s)}]
    PROVE  Level(f, a, s) = Level(g, b, s)
BY Zenon DEF Level

\* The recursion of a fold over a finite set has a solution: one that holds
\* for all sets smaller than n gives one for those of size n.
LEMMA FoldExists ==
    ASSUME NEW f, NEW D, IsFiniteSet(D)
    PROVE  \E it : it = [s \in SUBSET D |-> Level(f, it, s)]
<1> DEFINE Good(g, n) == \A s \in SUBSET D : Cardinality(s) < n => g[s] = Level(f, g, s)
           S == {n \in Nat : ~ \E g : Good(g, n)}
           next(g) == [s \in SUBSET D |-> Level(f, g, s)]
<1>0. \A s \in SUBSET D : IsFiniteSet(s) /\ Cardinality(s) \in Nat /\ Cardinality(s) <= Cardinality(D)
  BY FS_Subset, FS_CardinalityType
<1>1. ASSUME NEW g, NEW n \in Nat, Good(g, n) PROVE Good(next(g), n + 1)
  <2>1. SUFFICES ASSUME NEW s \in SUBSET D, Cardinality(s) < n + 1
                 PROVE  next(g)[s] = Level(f, next(g), s)
    OBVIOUS
  <2>2. next(g)[s] = Level(f, g, s)
    OBVIOUS
  <2>3. ASSUME s # {} PROVE next(g)[s \ {Picked(s)}] = g[s \ {Picked(s)}]
    <3>1. s \ {Picked(s)} \in SUBSET D /\ Cardinality(s \ {Picked(s)}) < n
      BY <1>0, <2>1, <2>3, Smaller
    <3>2. g[s \ {Picked(s)}] = Level(f, g, s \ {Picked(s)})
      BY <1>1, <3>1
    <3>3. QED BY <3>1, <3>2
  <2> HIDE DEF next
  <2>4. Level(f, next(g), s) = Level(f, g, s)
    BY <2>3, LevelAgree
  <2>5. QED BY <2>2, <2>4
<1>2. ASSUME NEW n \in Nat PROVE \E g : Good(g, n)
  <2>1. SUFFICES ASSUME S # {} PROVE FALSE
    OBVIOUS
  <2> HIDE DEF Good
  <2>2. PICK m \in S : \A k \in S : m <= k
    BY <2>1, Least
  <2>3. m \in Nat /\ ~ \E g : Good(g, m)
    OBVIOUS
  <2>4. CASE m = 0
    <3>1. \A s \in SUBSET D : ~ (Cardinality(s) < 0)
      BY <1>0
    <3>2. Good(<<>>, 0)
      BY <3>1 DEF Good
    <3>3. QED BY <2>3, <2>4, <3>2
  <2>5. CASE m # 0
    <3>1. m - 1 \in Nat /\ (m - 1) + 1 = m /\ ~ (m <= m - 1)
      BY <2>3, <2>5
    <3>2. PICK g : Good(g, m - 1)
      BY <2>2, <3>1
    <3>3. Good(next(g), m)
      BY <1>1, <3>1, <3>2
    <3>4. QED BY <2>3, <3>3
  <2>6. QED BY <2>4, <2>5
<1>3. Cardinality(D) \in Nat
  BY FS_CardinalityType
<1>4. PICK g : Good(g, Cardinality(D) + 1)
  BY <1>2, <1>3
<1>5. \A s \in SUBSET D : g[s] = Level(f, g, s)
  BY <1>0, <1>3, <1>4
<1>6. \A s \in SUBSET D : Level(f, next(g), s) = Level(f, g, s)
  <2>1. SUFFICES ASSUME NEW s \in SUBSET D PROVE Level(f, next(g), s) = Level(f, g, s)
    OBVIOUS
  <2>2. s \ {Picked(s)} \in SUBSET D
    OBVIOUS
  <2>3. next(g)[s \ {Picked(s)}] = g[s \ {Picked(s)}]
    BY <1>5, <2>2
  <2> HIDE DEF next
  <2>4. QED BY <2>3, LevelAgree
<1> DEFINE h == next(g)
<1>7. h = [s \in SUBSET D |-> Level(f, h, s)]
  BY <1>6
<1> HIDE DEF h
<1>8. QED BY <1>7, Zenon

LEMMA FoldUnfold ==
    ASSUME NEW f, NEW D, IsFiniteSet(D), NEW s \in SUBSET D
    PROVE  Fold(f, D)[s] = Level(f, Fold(f, D), s)
<1>1. Fold(f, D) = [t \in SUBSET D |-> Level(f, Fold(f, D), t)]
  BY FoldExists, Zenon DEF Fold
<1> DEFINE g == Fold(f, D)
<1>2. g = [t \in SUBSET D |-> Level(f, g, t)]
  BY <1>1
<1> HIDE DEF g
<1>3. g[s] = Level(f, g, s)
  BY <1>2
<1>4. QED BY <1>3 DEF g

\* A fold over a set is the same whatever larger set it is taken from, and
\* depends on the function's values in the set only.
LEMMA FoldAgree ==
    ASSUME NEW f, NEW g, NEW D, NEW E, IsFiniteSet(D), IsFiniteSet(E),
           NEW t, t \subseteq D, t \subseteq E, \A x \in t : f[x] = g[x]
    PROVE  Fold(f, D)[t] = Fold(g, E)[t]
<1> DEFINE Bad(n) == \E s \in SUBSET t : Cardinality(s) = n /\ Fold(f, D)[s] # Fold(g, E)[s]
           S == {n \in Nat : Bad(n)}
<1>0. \A s \in SUBSET t : IsFiniteSet(s) /\ Cardinality(s) \in Nat
  <2>1. IsFiniteSet(t)
    BY FS_Subset
  <2>2. QED BY <2>1, FS_Subset, FS_CardinalityType
<1>1. SUFFICES ASSUME S # {} PROVE FALSE
  BY <1>0
<1>2. PICK n \in S : \A m \in S : n <= m
  BY <1>1, Least
<1>3. PICK s \in SUBSET t : Cardinality(s) = n /\ Fold(f, D)[s] # Fold(g, E)[s]
  BY <1>2
<1>4. Fold(f, D)[s] = Level(f, Fold(f, D), s) /\ Fold(g, E)[s] = Level(g, Fold(g, E), s)
  <2>1. s \in SUBSET D /\ s \in SUBSET E
    BY <1>3
  <2>2. QED BY <2>1, FoldUnfold
<1>5. ASSUME s # {}
      PROVE  /\ f[Picked(s)] = g[Picked(s)]
             /\ Fold(f, D)[s \ {Picked(s)}] = Fold(g, E)[s \ {Picked(s)}]
  <2>1. Picked(s) \in s /\ Picked(s) \in t
    BY <1>5, PickedIn
  <2> DEFINE r == s \ {Picked(s)}
  <2>2. r \in SUBSET t /\ Cardinality(r) = n - 1 /\ Cardinality(r) \in Nat /\ n \in Nat
    BY <1>0, <1>3, <1>5, Smaller
  <2> HIDE DEF r
  <2>3. Cardinality(r) \notin S
    BY <1>2, <2>2
  <2>4. Fold(f, D)[r] = Fold(g, E)[r]
    BY <2>2, <2>3
  <2>5. QED BY <2>1, <2>4 DEF r
<1>6. Level(f, Fold(f, D), s) = Level(g, Fold(g, E), s)
  BY <1>5, LevelAgree
<1>7. QED BY <1>3, <1>4, <1>6

-----------------------------------------------------------------------------
\* Sums, by what they are made of.
SumOn(f, D) == SumFunctionOnSet(f, D)

LEMMA SumAgree ==
    ASSUME NEW f, NEW g, NEW D, IsFiniteSet(D), \A x \in D : f[x] = g[x]
    PROVE  SumOn(f, D) = SumOn(g, D)
<1>1. Fold(f, D)[D] = Fold(g, D)[D]
  BY FoldAgree
<1>2. QED BY <1>1, SumIsFold DEF SumOn

LEMMA SumEmpty == ASSUME NEW f PROVE SumOn(f, {}) = 0
<1>1. IsFiniteSet({}) /\ {} \in SUBSET {}
  BY FS_EmptySet
<1>2. Fold(f, {})[{}] = Level(f, Fold(f, {}), {})
  BY <1>1, FoldUnfold
<1>3. QED BY <1>2, SumIsFold DEF SumOn, Level

LEMMA SumPicked ==
    ASSUME NEW f, NEW D, IsFiniteSet(D), D # {}
    PROVE  SumOn(f, D) = f[Picked(D)] + SumOn(f, D \ {Picked(D)})
<1> DEFINE r == D \ {Picked(D)}
<1>1. Fold(f, D)[D] = Level(f, Fold(f, D), D)
  BY FoldUnfold
<1>2. Fold(f, D)[D] = f[Picked(D)] + Fold(f, D)[r]
  BY <1>1 DEF Level
<1>3. IsFiniteSet(r) /\ r \subseteq D
  BY Smaller
<1> HIDE DEF r
<1>4. Fold(f, D)[r] = Fold(f, r)[r]
  BY <1>3, FoldAgree
<1>5. QED BY <1>2, <1>4, SumIsFold DEF SumOn, r

LEMMA SumType ==
    ASSUME NEW f, NEW D, IsFiniteSet(D), \A x \in D : f[x] \in Nat
    PROVE  SumOn(f, D) \in Nat
<1> DEFINE Bad(n) == \E s \in SUBSET D : Cardinality(s) = n /\ SumOn(f, s) \notin Nat
           S == {n \in Nat : Bad(n)}
<1>0. \A s \in SUBSET D : IsFiniteSet(s) /\ Cardinality(s) \in Nat
  BY FS_Subset, FS_CardinalityType
<1>1. SUFFICES ASSUME S # {} PROVE FALSE
  BY <1>0
<1>2. PICK n \in S : \A m \in S : n <= m
  BY <1>1, Least
<1>3. PICK s \in SUBSET D : Cardinality(s) = n /\ SumOn(f, s) \notin Nat
  BY <1>2
<1>4. s # {}
  BY <1>3, SumEmpty
<1> DEFINE r == s \ {Picked(s)}
<1>5. Picked(s) \in D /\ f[Picked(s)] \in Nat
  BY <1>4, PickedIn
<1>6. r \in SUBSET D /\ Cardinality(r) = n - 1 /\ Cardinality(r) \in Nat /\ n \in Nat
  BY <1>0, <1>3, <1>4, Smaller
<1>7. SumOn(f, s) = f[Picked(s)] + SumOn(f, r)
  BY <1>0, <1>4, SumPicked
<1> HIDE DEF r
<1>8. Cardinality(r) \notin S
  BY <1>2, <1>6
<1>9. SumOn(f, r) \in Nat
  BY <1>6, <1>8
<1>10. QED BY <1>3, <1>5, <1>7, <1>9

\* A sum does not depend on the order: any element can be taken out first.
LEMMA SumRemove ==
    ASSUME NEW f, NEW D, IsFiniteSet(D), \A x \in D : f[x] \in Nat, NEW z \in D
    PROVE  SumOn(f, D) = f[z] + SumOn(f, D \ {z})
<1> DEFINE Bad(n) == \E s \in SUBSET D : \E x \in s :
                        Cardinality(s) = n /\ SumOn(f, s) # f[x] + SumOn(f, s \ {x})
           S == {n \in Nat : Bad(n)}
<1>0. \A s \in SUBSET D : IsFiniteSet(s) /\ Cardinality(s) \in Nat
  BY FS_Subset, FS_CardinalityType
<1>1. SUFFICES ASSUME S # {} PROVE FALSE
  BY <1>0
<1>2. PICK n \in S : \A m \in S : n <= m
  BY <1>1, Least
<1>3. PICK s \in SUBSET D : \E x \in s : Cardinality(s) = n /\ SumOn(f, s) # f[x] + SumOn(f, s \ {x})
  BY <1>2
<1>3a. PICK x \in s : Cardinality(s) = n /\ SumOn(f, s) # f[x] + SumOn(f, s \ {x})
  BY <1>3
<1>4. s # {} /\ n \in Nat /\ IsFiniteSet(s)
  BY <1>0, <1>3
<1> DEFINE c == Picked(s)
<1>5. SumOn(f, s) = f[c] + SumOn(f, s \ {c})
  BY <1>4, SumPicked
<1>6. c \in s
  BY <1>4, PickedIn
<1> HIDE DEF c
<1>7. c # x
  BY <1>3a, <1>5
<1>8. Cardinality(s \ {c}) = n - 1 /\ Cardinality(s \ {x}) = n - 1 /\ n - 1 \in Nat
  <2>1. Cardinality(s \ {c}) = n - 1 /\ Cardinality(s \ {x}) = n - 1
    BY <1>3a, <1>4, <1>6, FS_RemoveElement
  <2>2. s \ {c} \in SUBSET D
    OBVIOUS
  <2>3. QED BY <1>0, <2>1, <2>2
<1>9. n - 1 \notin S
  BY <1>2, <1>4, <1>8
<1>10. \A t \in SUBSET D : \A y \in t :
          Cardinality(t) = n - 1 => SumOn(f, t) = f[y] + SumOn(f, t \ {y})
  BY <1>8, <1>9
<1>11. SumOn(f, s \ {c}) = f[x] + SumOn(f, (s \ {c}) \ {x})
  <2>1. s \ {c} \in SUBSET D /\ x \in s \ {c}
    BY <1>7
  <2>2. QED BY <1>8, <1>10, <2>1
<1>12. SumOn(f, s \ {x}) = f[c] + SumOn(f, (s \ {x}) \ {c})
  <2>1. s \ {x} \in SUBSET D /\ c \in s \ {x}
    BY <1>6, <1>7
  <2>2. QED BY <1>8, <1>10, <2>1
<1>13. (s \ {c}) \ {x} = (s \ {x}) \ {c}
  OBVIOUS
<1> DEFINE rest == SumOn(f, (s \ {x}) \ {c})
<1>14. f[c] \in Nat /\ f[x] \in Nat /\ rest \in Nat
  <2>1. c \in D /\ x \in D
    BY <1>6
  <2>2. (s \ {x}) \ {c} \in SUBSET D
    OBVIOUS
  <2>3. rest \in Nat
    BY <1>0, <2>2, SumType
  <2>4. QED BY <2>1, <2>3
<1>15. SumOn(f, s \ {c}) = f[x] + rest /\ SumOn(f, s \ {x}) = f[c] + rest
  BY <1>11, <1>12, <1>13
<1> HIDE DEF rest
<1>16. SumOn(f, s) = f[x] + SumOn(f, s \ {x})
  BY <1>5, <1>14, <1>15
<1>17. QED BY <1>3a, <1>16

\* One more element.
LEMMA SumAdd ==
    ASSUME NEW f, NEW D, IsFiniteSet(D), NEW z, z \notin D, f[z] \in Nat, \A x \in D : f[x] \in Nat
    PROVE  SumOn(f, D \union {z}) = SumOn(f, D) + f[z]
<1> DEFINE E == D \union {z}
<1>1. IsFiniteSet(E) /\ z \in E /\ E \ {z} = D /\ \A x \in E : f[x] \in Nat
  BY FS_AddElement
<1> HIDE DEF E
<1>2. SumOn(f, E) = f[z] + SumOn(f, E \ {z})
  BY <1>1, SumRemove
<1>3. SumOn(f, D) \in Nat
  BY SumType
<1>4. SumOn(f, E) = SumOn(f, D) + f[z]
  BY <1>1, <1>2, <1>3
<1>5. QED BY <1>4 DEF E

\* A sum of equal terms.
LEMMA SumConst ==
    ASSUME NEW f, NEW k \in Nat, NEW D, IsFiniteSet(D), \A x \in D : f[x] = k
    PROVE  SumOn(f, D) = Cardinality(D) * k
<1> DEFINE Bad(n) == \E s \in SUBSET D : Cardinality(s) = n /\ SumOn(f, s) # n * k
           S == {n \in Nat : Bad(n)}
<1>0. \A s \in SUBSET D : IsFiniteSet(s) /\ Cardinality(s) \in Nat
  BY FS_Subset, FS_CardinalityType
<1>1. SUFFICES ASSUME S # {} PROVE FALSE
  BY <1>0
<1>2. PICK n \in S : \A m \in S : n <= m
  BY <1>1, Least
<1>3. PICK s \in SUBSET D : Cardinality(s) = n /\ SumOn(f, s) # n * k
  BY <1>2
<1>4. s # {}
  <2>1. SUFFICES ASSUME s = {} PROVE FALSE
    OBVIOUS
  <2>2. n = 0 /\ SumOn(f, s) = 0
    BY <1>3, <2>1, FS_EmptySet, SumEmpty
  <2>3. n * k = 0
    BY <2>2
  <2>4. QED BY <1>3, <2>2, <2>3
<1> DEFINE r == s \ {Picked(s)}
<1>5. Picked(s) \in D /\ f[Picked(s)] = k
  BY <1>4, PickedIn
<1>6. r \in SUBSET D /\ Cardinality(r) = n - 1 /\ Cardinality(r) \in Nat /\ n \in Nat
  BY <1>0, <1>3, <1>4, Smaller
<1>7. SumOn(f, s) = f[Picked(s)] + SumOn(f, r)
  BY <1>0, <1>4, SumPicked
<1> HIDE DEF r
<1>8. Cardinality(r) \notin S
  BY <1>2, <1>6
<1>9. SumOn(f, r) = (n - 1) * k
  BY <1>6, <1>8
<1>10. k + (n - 1) * k = n * k
  BY <1>6
<1>11. QED BY <1>3, <1>5, <1>7, <1>9, <1>10

\* A sum of multiples.
Scaled(f, g, k, D) == \A x \in D : f[x] \in Nat /\ g[x] = k * f[x]

LEMMA SumScale ==
    ASSUME NEW f, NEW g, NEW k \in Nat, NEW D, IsFiniteSet(D), Scaled(f, g, k, D)
    PROVE  SumOn(g, D) = k * SumOn(f, D)
<1> DEFINE Bad(n) == \E s \in SUBSET D : Cardinality(s) = n /\ SumOn(g, s) # k * SumOn(f, s)
           S == {n \in Nat : Bad(n)}
<1>0. \A s \in SUBSET D : IsFiniteSet(s) /\ Cardinality(s) \in Nat
  BY FS_Subset, FS_CardinalityType
<1>1. SUFFICES ASSUME S # {} PROVE FALSE
  BY <1>0
<1>2. PICK n \in S : \A m \in S : n <= m
  BY <1>1, Least
<1>3. PICK s \in SUBSET D : Cardinality(s) = n /\ SumOn(g, s) # k * SumOn(f, s)
  BY <1>2
<1>4. s # {}
  <2>1. SUFFICES ASSUME s = {} PROVE FALSE
    OBVIOUS
  <2>2. SumOn(g, s) = 0 /\ SumOn(f, s) = 0
    BY <2>1, SumEmpty
  <2>3. k * 0 = 0
    OBVIOUS
  <2>4. QED BY <1>3, <2>2, <2>3
<1> DEFINE r == s \ {Picked(s)}
<1>5. f[Picked(s)] \in Nat /\ g[Picked(s)] = k * f[Picked(s)]
  BY <1>4, PickedIn DEF Scaled
<1>6. r \in SUBSET D /\ Cardinality(r) = n - 1 /\ Cardinality(r) \in Nat /\ n \in Nat
  BY <1>0, <1>3, <1>4, Smaller
<1>7. SumOn(f, s) = f[Picked(s)] + SumOn(f, r) /\ SumOn(g, s) = g[Picked(s)] + SumOn(g, r)
  BY <1>0, <1>4, SumPicked
<1> HIDE DEF r
<1>8. Cardinality(r) \notin S
  BY <1>2, <1>6
<1>9. SumOn(g, r) = k * SumOn(f, r)
  BY <1>6, <1>8
<1>10. SumOn(f, r) \in Nat
  <2>1. \A x \in r : f[x] \in Nat
    BY <1>6 DEF Scaled
  <2>2. QED BY <1>0, <1>6, <2>1, SumType
<1>11. \A a, b \in Nat : k * (a + b) = k * a + k * b
  OBVIOUS
<1>12. SumOn(g, s) = k * SumOn(f, s)
  <2>1. k * (f[Picked(s)] + SumOn(f, r)) = k * f[Picked(s)] + k * SumOn(f, r)
    BY ONLY <1>5, <1>10, <1>11
  <2>2. QED BY ONLY <1>5, <1>7, <1>9, <2>1
<1>13. QED BY <1>3, <1>12

\* A row added to a table: the pairs <<w, 1>> to <<w, n>> add what the row sums to.
RowOf(f, D, w, g, n) ==
    /\ IsFiniteSet(D) /\ n \in Nat
    /\ \A x \in D : f[x] \in Nat
    /\ \A i \in 1 .. n : <<w, i>> \notin D
    /\ \A i \in 1 .. n : f[<<w, i>>] = g[i] /\ g[i] \in Nat

LEMMA SumRow ==
    ASSUME NEW f, NEW D, NEW w, NEW g, NEW n, RowOf(f, D, w, g, n)
    PROVE  SumOn(f, D \union ({w} \X (1 .. n))) = SumOn(f, D) + SumOn(g, 1 .. n)
<1> USE DEF RowOf
<1> DEFINE Row(m) == D \union ({w} \X (1 .. m))
           S == {m \in Nat : m <= n /\ SumOn(f, Row(m)) # SumOn(f, D) + SumOn(g, 1 .. m)}
<1>1. CASE S = {}
  BY <1>1
<1>2. CASE S # {}
  <2>1. PICK m \in S : \A k \in S : m <= k
    BY <1>2, Least
  <2>2. m \in Nat /\ m <= n /\ SumOn(f, Row(m)) # SumOn(f, D) + SumOn(g, 1 .. m)
    OBVIOUS
  <2>0. SumOn(f, D) \in Nat
    BY SumType
  <2>3. CASE m = 0
    <3>1. 1 .. m = {} /\ Row(m) = D
      BY <2>3
    <3> HIDE DEF Row
    <3>2. QED BY <2>2, <2>0, <3>1, SumEmpty
  <2>4. CASE m # 0
    <3>1. m - 1 \in Nat /\ ~ (m <= m - 1) /\ m - 1 <= n /\ m \in 1 .. n
      BY <2>2, <2>4
    <3>2. SumOn(f, Row(m - 1)) = SumOn(f, D) + SumOn(g, 1 .. (m - 1))
      BY <2>1, <3>1
    <3>3. 1 .. m = (1 .. (m - 1)) \union {m} /\ m \notin 1 .. (m - 1) /\ 1 .. (m - 1) \subseteq 1 .. n
      BY <3>1
    <3>4. Row(m) = Row(m - 1) \union {<<w, m>>}
      BY <3>3
    <3>5. <<w, m>> \notin Row(m - 1)
      BY <3>1, <3>3
    <3>6. IsFiniteSet(1 .. (m - 1))
      BY <3>1, FS_Interval
    <3>7. IsFiniteSet(Row(m - 1))
      <4>1. IsFiniteSet({w} \X (1 .. (m - 1)))
        BY <3>6, FS_Singleton, FS_Product
      <4>2. QED BY <4>1, FS_Union
    <3>8. \A x \in Row(m - 1) : f[x] \in Nat
      BY <3>3
    <3>9. f[<<w, m>>] = g[m] /\ g[m] \in Nat
      BY <3>1
    <3> HIDE DEF Row
    <3>10. SumOn(f, Row(m)) = SumOn(f, Row(m - 1)) + g[m]
      BY <3>4, <3>5, <3>7, <3>8, <3>9, SumAdd
    <3>11. \A x \in 1 .. (m - 1) : g[x] \in Nat
      BY <3>3
    <3>12. SumOn(g, 1 .. m) = SumOn(g, 1 .. (m - 1)) + g[m]
      <4>1. SumOn(g, (1 .. (m - 1)) \union {m}) = SumOn(g, 1 .. (m - 1)) + g[m]
        BY ONLY <3>3, <3>6, <3>9, <3>11, SumAdd
      <4>2. QED BY ONLY <4>1, <3>3
    <3>13. SumOn(g, 1 .. (m - 1)) \in Nat
      BY <3>6, <3>11, SumType
    <3>14. QED BY <2>0, <2>2, <3>2, <3>9, <3>10, <3>12, <3>13
  <2>5. QED BY <2>3, <2>4
<1>3. QED BY <1>1, <1>2

\* Summing a table row by row.
TableOf(f, k, n, rows, row) ==
    /\ k \in Nat /\ n \in Nat
    /\ \A w \in 0 .. k - 1 : rows[w] = SumOn(row[w], 1 .. n)
    /\ \A w \in 0 .. k - 1 : \A i \in 1 .. n : f[<<w, i>>] = row[w][i] /\ row[w][i] \in Nat

LEMMA SumTable ==
    ASSUME NEW f, NEW k, NEW n, NEW rows, NEW row, TableOf(f, k, n, rows, row)
    PROVE  SumOn(f, (0 .. k - 1) \X (1 .. n)) = SumOn(rows, 0 .. k - 1)
<1> USE DEF TableOf
<1>0. k \in Nat /\ n \in Nat
  OBVIOUS
<1> DEFINE T(m) == (0 .. m - 1) \X (1 .. n)
           S == {m \in Nat : m <= k /\ SumOn(f, T(m)) # SumOn(rows, 0 .. m - 1)}
<1>1. CASE S = {}
  <2>0. k \notin S
    BY ONLY <1>1
  <2>1. k \notin S /\ k <= k
    BY ONLY <2>0, <1>0
  <2>2. SumOn(f, T(k)) = SumOn(rows, 0 .. k - 1)
    BY <2>1
  <2>3. QED BY <2>2
<1>2. CASE S # {}
  <2>1. PICK m \in S : \A j \in S : m <= j
    BY <1>2, Least
  <2>2. m \in Nat /\ m <= k /\ SumOn(f, T(m)) # SumOn(rows, 0 .. m - 1)
    OBVIOUS
  <2>3. CASE m = 0
    <3>1. 0 .. m - 1 = {} /\ T(m) = {}
      BY <2>3
    <3> HIDE DEF T
    <3>2. QED BY <2>2, <3>1, SumEmpty
  <2>4. CASE m # 0
    <3> DEFINE w == m - 1
               D == T(w)
    <3>1. w \in Nat /\ ~ (m <= w) /\ w <= k /\ w \in 0 .. k - 1 /\ w + 1 = m
      BY <2>2, <2>4
    <3>2. SumOn(f, D) = SumOn(rows, 0 .. w - 1)
      BY <2>1, <3>1
    <3>3. 0 .. m - 1 = (0 .. w - 1) \union {w} /\ w \notin 0 .. w - 1 /\ 0 .. w - 1 \subseteq 0 .. k - 1
      BY <3>1
    <3>4. T(m) = D \union ({w} \X (1 .. n))
      BY <3>3
    <3>5. IsFiniteSet(0 .. w - 1) /\ IsFiniteSet(1 .. n)
      <4>1. w - 1 \in Int
        BY <3>1
      <4>2. QED BY <4>1, FS_Interval
    <3>6. IsFiniteSet(D)
      BY <3>5, FS_Product
    <3>7. \A x \in D : f[x] \in Nat
      BY <3>3
    <3>8. \A i \in 1 .. n : <<w, i>> \notin D
      BY <3>3
    <3>9. rows[w] = SumOn(row[w], 1 .. n) /\ \A i \in 1 .. n : f[<<w, i>>] = row[w][i] /\ row[w][i] \in Nat
      BY <3>1
    <3>10. \A v \in 0 .. k - 1 : rows[v] \in Nat
      <4>1. SUFFICES ASSUME NEW v \in 0 .. k - 1 PROVE SumOn(row[v], 1 .. n) \in Nat
        OBVIOUS
      <4>2. QED BY <3>5, SumType
    <3> HIDE DEF w, D, T
    <3>11. SumOn(f, D \union ({w} \X (1 .. n))) = SumOn(f, D) + SumOn(row[w], 1 .. n)
      <4>1. RowOf(f, D, w, row[w], n)
        BY <3>6, <3>7, <3>8, <3>9 DEF RowOf
      <4>2. QED BY ONLY <4>1, SumRow
    <3>12. SumOn(rows, (0 .. w - 1) \union {w}) = SumOn(rows, 0 .. w - 1) + rows[w]
      <4>1. rows[w] \in Nat /\ \A x \in 0 .. w - 1 : rows[x] \in Nat
        BY <3>1, <3>3, <3>10
      <4>2. QED BY ONLY <4>1, <3>3, <3>5, SumAdd
    <3>13. QED BY <2>2, <3>2, <3>3, <3>4, <3>9, <3>11, <3>12
  <2>5. QED BY <2>3, <2>4
<1>3. QED BY <1>1, <1>2

-----------------------------------------------------------------------------
(* Quotients and remainders *)

LEMMA DivMod ==
    ASSUME NEW n \in Nat, NEW d \in Nat \ {0}
    PROVE  /\ n \div d \in Nat /\ n % d \in 0 .. d - 1
           /\ (n \div d) * d + (n % d) = n
OBVIOUS

\* A number and a remainder determine each other.
LEMMA Remainder ==
    ASSUME NEW d \in Nat \ {0}, NEW s \in Nat, NEW t \in Nat, t < d
    PROVE  (s * d + t) % d = t
<1> DEFINE n == s * d + t
           q == n \div d
           r == n % d
<1>1. n \in Nat
    OBVIOUS
<1>2. q \in Nat /\ r \in 0 .. d - 1 /\ q * d + r = n
    BY ONLY <1>1, d \in Nat \ {0}, DivMod
<1>3. q * d + r = s * d + t
    BY <1>2
<1> HIDE DEF n, q, r
<1>4. r \in Nat /\ r < d
    BY <1>2
<1>5. ~ (q < s)
    <2>1. SUFFICES ASSUME q < s PROVE FALSE
        OBVIOUS
    <2>2. (q + 1) * d <= s * d /\ (q + 1) * d = q * d + d
        BY <1>2, <2>1
    <2>3. q * d \in Nat /\ s * d \in Nat
        BY <1>2
    <2>4. QED BY <1>3, <1>4, <2>2, <2>3
<1>6. ~ (s < q)
    <2>1. SUFFICES ASSUME s < q PROVE FALSE
        OBVIOUS
    <2>2. (s + 1) * d <= q * d /\ (s + 1) * d = s * d + d
        BY <1>2, <2>1
    <2>3. q * d \in Nat /\ s * d \in Nat
        BY <1>2
    <2>4. QED BY <1>3, <1>4, <2>2, <2>3
<1>7. q = s
    BY <1>2, <1>5, <1>6
<1>8. r = t
    <2>1. q * d \in Nat
        BY <1>2
    <2>2. q * d + r = q * d + t
        BY <1>3, <1>7
    <2>3. QED BY <1>4, <2>1, <2>2
<1>9. QED BY <1>8 DEF r, n

\* Arithmetic modulo m: what is cut off on the way makes no difference.
LEMMA WrapOnTheWay ==
    ASSUME NEW m \in Nat \ {0}, NEW a \in Nat, NEW b \in Nat, NEW c \in Nat
    PROVE  ((a % m) * b + c) % m = (a * b + c) % m
<1> DEFINE q == a \div m
           r == a % m
           x == r * b + c
           k == x \div m
           t == x % m
<1>1. q \in Nat /\ r \in Nat /\ q * m + r = a
    BY ONLY a \in Nat, m \in Nat \ {0}, DivMod
<1>2. x \in Nat
    BY <1>1
<1>3. k \in Nat /\ t \in 0 .. m - 1 /\ k * m + t = x
    BY ONLY <1>2, m \in Nat \ {0}, DivMod
<1> HIDE DEF q, r, k, t
<1>4. a * b + c = (q * b + k) * m + t
    <2>1. (q * m + r) * b = (q * b) * m + r * b
        BY ONLY <1>1, m \in Nat, b \in Nat
    <2>2. (q * b + k) * m = (q * b) * m + k * m
        BY ONLY <1>1, <1>3, m \in Nat, b \in Nat
    <2>3. (q * b) * m \in Nat /\ k * m \in Nat /\ r * b \in Nat /\ t \in Nat
        BY ONLY <1>1, <1>3, m \in Nat, b \in Nat
    <2>4. a * b = (q * b) * m + r * b
        BY ONLY <1>1, <2>1
    <2>5. QED BY ONLY <1>3, <2>2, <2>3, <2>4, c \in Nat DEF x
<1>5. q * b + k \in Nat /\ t \in Nat /\ t < m
    BY ONLY <1>1, <1>3, m \in Nat \ {0}, b \in Nat
<1>6. ((q * b + k) * m + t) % m = t
    BY ONLY <1>5, m \in Nat \ {0}, Remainder
<1>7. QED BY <1>4, <1>6 DEF t, x, r
================================================================================
