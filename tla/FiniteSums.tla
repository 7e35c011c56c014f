----------------------------- MODULE FiniteSums ------------------------------
(***************************************************************************)
(* Laws of the sums that the modules take with the folds of Functions, for *)
(* any finite index set and any integer amounts.  A fold is a recursive    *)
(* function on the subsets of the index set, so each law is proved by      *)
(* looking at a smallest subset for which it fails.                        *)
(***************************************************************************)
EXTENDS Integers, Functions, FiniteSetTheorems, WellFoundedInduction, TLAPS

SumOver(f, S) == FoldFunctionOnSet(+, 0, f, S)

\* The element that a fold takes first.
Any(s) == CHOOSE x \in s : TRUE
Rest(s) == s \ {Any(s)}

\* g is what a fold of f over S recurs on.
Recurs(f, S, g) ==
  g = [s \in SUBSET S |-> IF s = {} THEN 0 ELSE f[Any(s)] + g[Rest(s)]]
Recursion(f, S) == CHOOSE g : Recurs(f, S, g)

LEMMA AnyIn == ASSUME NEW s, s # {} PROVE Any(s) \in s /\ Rest(s) \subseteq s /\ Rest(s) # s
BY DEF Any, Rest

LEMMA Unfold == ASSUME NEW f, NEW S PROVE SumOver(f, S) = Recursion(f, S)[S]
BY DEF SumOver, FoldFunctionOnSet, MapThenFoldSet, Recursion, Recurs, Any, Rest

Minimal(T, B) == \A U \in B : U \subseteq T => U = T

\* Induction: a set of finite subsets that is not empty has a smallest member.
LEMMA Smallest ==
  ASSUME NEW S, IsFiniteSet(S), NEW B \in SUBSET SUBSET S, B # {}
  PROVE  \E T \in B : Minimal(T, B)
<1> DEFINE R == StrictSubsetOrdering(S)
<1>1. IsWellFoundedOn(R, SUBSET S)
  BY FS_StrictSubsetOrderingWellFounded, FS_FiniteSubsetsOfFinite
<1>2. \E T \in B : \A U \in B : ~(<<U, T>> \in R)
  <2> HIDE DEF R
  <2> QED BY <1>1, WFMin
<1>3. PICK T \in B : \A U \in B : ~(<<U, T>> \in R)
  BY <1>2
<1>4. ASSUME NEW U \in B, U \subseteq T, U # T PROVE FALSE
  BY <1>3, <1>4 DEF StrictSubsetOrdering
<1> QED BY <1>4 DEF Minimal

-----------------------------------------------------------------------------
(* The recursion is defined on finite sets.                                *)

LEMMA RecursOnce ==
  ASSUME NEW f, NEW S, NEW T, NEW g, NEW h, Recurs(f, S, g), Recurs(f, T, h),
         NEW u \in SUBSET S, u \in SUBSET T, IsFiniteSet(u)
  PROVE  g[u] = h[u]
<1> DEFINE B == {s \in SUBSET u : g[s] # h[s]}
<1> SUFFICES ASSUME B # {} PROVE FALSE
  OBVIOUS
<1>1. \E s \in B : Minimal(s, B)
  <2>1. B \in SUBSET SUBSET u
    OBVIOUS
  <2> HIDE DEF B
  <2> QED BY <2>1, Smallest
<1>2. PICK s \in B : \A t \in B : t \subseteq s => t = s
  BY <1>1 DEF Minimal
<1>3. s \in SUBSET S /\ s \in SUBSET T
  OBVIOUS
<1>4. /\ g[s] = IF s = {} THEN 0 ELSE f[Any(s)] + g[Rest(s)]
      /\ h[s] = IF s = {} THEN 0 ELSE f[Any(s)] + h[Rest(s)]
  BY <1>3 DEF Recurs
<1>5. s # {}
  BY <1>4
<1>6. Rest(s) \in SUBSET u /\ Rest(s) \subseteq s /\ Rest(s) # s
  BY <1>5, AnyIn
<1>7. Rest(s) \notin B
  BY <1>2, <1>6
<1>8. g[Rest(s)] = h[Rest(s)]
  BY <1>6, <1>7
<1> QED BY <1>4, <1>8

LEMMA RecursSomehow ==
  ASSUME NEW f, NEW S, IsFiniteSet(S)
  PROVE  Recurs(f, S, Recursion(f, S))
<1> DEFINE B == {T \in SUBSET S : ~\E g : Recurs(f, T, g)}
<1>1. ASSUME B # {} PROVE FALSE
  <2>0. \E T \in B : Minimal(T, B)
    <3>1. B \in SUBSET SUBSET S
      OBVIOUS
    <3> HIDE DEF B
    <3> QED BY <1>1, <3>1, Smallest
  <2>1. PICK T \in B : \A U \in B : U \subseteq T => U = T
    BY <2>0 DEF Minimal
  <2>2. ASSUME NEW U \in SUBSET T, U # T PROVE Recurs(f, U, Recursion(f, U))
    <3>1. U \notin B /\ U \in SUBSET S
      BY <2>1, <2>2
    <3> QED BY <3>1 DEF Recursion
  <2>3. ASSUME NEW U \in SUBSET T PROVE IsFiniteSet(U)
    <3>1. U \in SUBSET S
      OBVIOUS
    <3> QED BY <3>1, FS_Subset
  <2> DEFINE V(s) == Recursion(f, s)[s]
             g == [s \in SUBSET T |-> IF s = {} THEN 0 ELSE f[Any(s)] + V(Rest(s))]
  <2>4. ASSUME NEW s \in SUBSET T, s # {} PROVE g[Rest(s)] = V(Rest(s))
    <3> DEFINE u == Rest(s)
    <3>1. u \in SUBSET T /\ u # T
      BY <2>4, AnyIn
    <3>2. Recurs(f, u, Recursion(f, u))
      BY <2>2, <3>1
    <3>3. V(u) = IF u = {} THEN 0 ELSE f[Any(u)] + Recursion(f, u)[Rest(u)]
      BY <3>2 DEF Recurs
    <3>4. ASSUME u # {} PROVE Recursion(f, u)[Rest(u)] = V(Rest(u))
      <4>1. Rest(u) \in SUBSET u /\ Rest(u) # u /\ Rest(u) \in SUBSET T /\ Rest(u) # T
        BY <3>1, <3>4, AnyIn
      <4>2. Recurs(f, Rest(u), Recursion(f, Rest(u))) /\ IsFiniteSet(Rest(u))
        BY <2>2, <2>3, <4>1
      <4>3. Rest(u) \in SUBSET Rest(u)
        OBVIOUS
      <4> QED BY <3>2, <4>1, <4>2, <4>3, RecursOnce
    <3>5. g[u] = IF u = {} THEN 0 ELSE f[Any(u)] + V(Rest(u))
      BY <3>1
    <3> QED BY <3>3, <3>4, <3>5
  <2>5. g = [s \in SUBSET T |-> IF s = {} THEN 0 ELSE f[Any(s)] + g[Rest(s)]]
    BY <2>4
  <2>6. Recurs(f, T, g)
    BY <2>5 DEF Recurs
  <2> QED BY <2>6
<1>2. \E g : Recurs(f, S, g)
  BY <1>1
<1> QED BY <1>2 DEF Recursion

\* The sum of a set is one of its amounts and the sum of the rest.
LEMMA SumStep ==
  ASSUME NEW f, NEW S, IsFiniteSet(S)
  PROVE  SumOver(f, S) = IF S = {} THEN 0 ELSE f[Any(S)] + SumOver(f, Rest(S))
<1>1. Recurs(f, S, Recursion(f, S))
  BY RecursSomehow
<1>2. SumOver(f, S) = IF S = {} THEN 0 ELSE f[Any(S)] + Recursion(f, S)[Rest(S)]
  BY <1>1, Unfold DEF Recurs
<1>3. ASSUME S # {} PROVE Recursion(f, S)[Rest(S)] = SumOver(f, Rest(S))
  <2>1. Rest(S) \in SUBSET S /\ Rest(S) \in SUBSET Rest(S) /\ IsFiniteSet(Rest(S))
    BY <1>3, AnyIn, FS_Subset
  <2>2. Recurs(f, Rest(S), Recursion(f, Rest(S)))
    BY <2>1, RecursSomehow
  <2> QED BY <1>1, <2>1, <2>2, RecursOnce, Unfold
<1> QED BY <1>2, <1>3

-----------------------------------------------------------------------------
(* Laws.                                                                   *)

SmallestIn(T, B) ==
  /\ T # {} /\ IsFiniteSet(T)
  /\ Any(T) \in T /\ Rest(T) \subseteq T /\ Rest(T) # T
  /\ \A U \in B : U \subseteq T => U = T

\* A smallest set for which a law fails has a rest for which it holds.
LEMMA RestHolds ==
  ASSUME NEW S, IsFiniteSet(S), NEW B \in SUBSET SUBSET S, B # {}, {} \notin B
  PROVE  \E T \in B : SmallestIn(T, B)
<1>1. PICK T \in B : Minimal(T, B)
  BY Smallest
<1>2. T # {} /\ IsFiniteSet(T)
  BY FS_Subset
<1>3. Any(T) \in T /\ Rest(T) \subseteq T /\ Rest(T) # T
  BY <1>2, AnyIn
<1> QED BY <1>1, <1>2, <1>3 DEF SmallestIn, Minimal

LEMMA SumOfNone == ASSUME NEW f PROVE SumOver(f, {}) = 0
BY SumStep, FS_EmptySet

\* Sums stay in a set that is closed under addition.
LEMMA SumClosed ==
  ASSUME NEW f, NEW S, IsFiniteSet(S), NEW A, 0 \in A, \A m, n \in A : m + n \in A,
         \A x \in S : f[x] \in A
  PROVE  SumOver(f, S) \in A
<1> DEFINE B == {T \in SUBSET S : SumOver(f, T) \notin A}
<1>1. B \in SUBSET SUBSET S /\ {} \notin B
  BY SumOfNone
<1>2. ASSUME B # {} PROVE FALSE
  <2>0. \E T \in B : SmallestIn(T, B)
    <3> HIDE DEF B
    <3> QED BY <1>1, <1>2, RestHolds
  <2>1. PICK T \in B : SmallestIn(T, B)
    BY <2>0
  <2>2. /\ T # {} /\ IsFiniteSet(T)
        /\ Any(T) \in T /\ Rest(T) \subseteq T /\ Rest(T) # T
        /\ \A U \in B : U \subseteq T => U = T
    BY <2>1 DEF SmallestIn
  <2>3. SumOver(f, Rest(T)) \in A /\ f[Any(T)] \in A
    BY <2>2
  <2>4. SumOver(f, T) = f[Any(T)] + SumOver(f, Rest(T))
    BY <2>2, SumStep
  <2> QED BY <2>3, <2>4
<1> QED BY <1>2

\* A sum of integers is an integer.
LEMMA SumInt ==
  ASSUME NEW f, NEW S, IsFiniteSet(S), \A x \in S : f[x] \in Int
  PROVE  SumOver(f, S) \in Int
BY SumClosed

\* Amounts of zero sum to zero.
LEMMA SumZero ==
  ASSUME NEW f, NEW S, IsFiniteSet(S), \A x \in S : f[x] = 0
  PROVE  SumOver(f, S) = 0
<1>1. 0 \in {0} /\ (\A m, n \in {0} : m + n \in {0}) /\ \A x \in S : f[x] \in {0}
  OBVIOUS
<1>2. SumOver(f, S) \in {0}
  BY <1>1, SumClosed, Zenon
<1> QED BY <1>2

\* Equal amounts have equal sums.
LEMMA SumSame ==
  ASSUME NEW f, NEW h, NEW S, IsFiniteSet(S), \A x \in S : f[x] = h[x]
  PROVE  SumOver(f, S) = SumOver(h, S)
<1> DEFINE B == {T \in SUBSET S : SumOver(f, T) # SumOver(h, T)}
<1>1. B \in SUBSET SUBSET S /\ {} \notin B
  BY SumOfNone
<1>2. ASSUME B # {} PROVE FALSE
  <2>0. \E T \in B : SmallestIn(T, B)
    <3> HIDE DEF B
    <3> QED BY <1>1, <1>2, RestHolds
  <2>1. PICK T \in B : SmallestIn(T, B)
    BY <2>0
  <2>2. /\ T # {} /\ IsFiniteSet(T)
        /\ Any(T) \in T /\ Rest(T) \subseteq T /\ Rest(T) # T
        /\ \A U \in B : U \subseteq T => U = T
    BY <2>1 DEF SmallestIn
  <2>3. SumOver(f, Rest(T)) = SumOver(h, Rest(T)) /\ f[Any(T)] = h[Any(T)]
    BY <2>2
  <2>4. /\ SumOver(f, T) = f[Any(T)] + SumOver(f, Rest(T))
        /\ SumOver(h, T) = h[Any(T)] + SumOver(h, Rest(T))
    BY <2>2, SumStep
  <2> QED BY <2>3, <2>4
<1> QED BY <1>2

\* A sum is any one of its amounts and the sum of the others.
LEMMA SumPick ==
  ASSUME NEW f, NEW S, IsFiniteSet(S), \A y \in S : f[y] \in Int, NEW x \in S
  PROVE  SumOver(f, S) = f[x] + SumOver(f, S \ {x})
<1> DEFINE B == {T \in SUBSET S : \E y \in T : SumOver(f, T) # f[y] + SumOver(f, T \ {y})}
<1>1. B \in SUBSET SUBSET S /\ {} \notin B
  OBVIOUS
<1>2. ASSUME B # {} PROVE FALSE
  <2>0. \E T \in B : SmallestIn(T, B)
    <3> HIDE DEF B
    <3> QED BY <1>1, <1>2, RestHolds
  <2>1. PICK T \in B : SmallestIn(T, B)
    BY <2>0
  <2>2. /\ T # {} /\ IsFiniteSet(T)
        /\ Any(T) \in T /\ Rest(T) \subseteq T /\ Rest(T) # T
        /\ \A U \in B : U \subseteq T => U = T
    BY <2>1 DEF SmallestIn
  <2>3. PICK y \in T : SumOver(f, T) # f[y] + SumOver(f, T \ {y})
    OBVIOUS
  <2> DEFINE a == Any(T)
             others == (T \ {a}) \ {y}
  <2>4. SumOver(f, T) = f[a] + SumOver(f, T \ {a})
    BY <2>2, SumStep DEF Rest
  <2>5. y # a
    BY <2>3, <2>4
  <2>6. T \ {a} \in SUBSET S /\ T \ {a} # T /\ T \ {a} \subseteq T /\ y \in T \ {a}
    BY <2>2, <2>5
  <2>7. SumOver(f, T \ {a}) = f[y] + SumOver(f, others)
    BY <2>2, <2>6
  <2>8. T \ {y} \in SUBSET S /\ T \ {y} # T /\ T \ {y} \subseteq T /\ a \in T \ {y}
    BY <2>2, <2>5
  <2>9. SumOver(f, T \ {y}) = f[a] + SumOver(f, (T \ {y}) \ {a})
    BY <2>2, <2>8
  <2>10. (T \ {y}) \ {a} = others
    OBVIOUS
  <2>11. IsFiniteSet(others) /\ others \subseteq S
    BY <2>2, FS_Subset
  <2>12. SumOver(f, others) \in Int /\ f[a] \in Int /\ f[y] \in Int
    BY <2>2, <2>11, SumInt
  <2>13. SumOver(f, T \ {y}) = f[a] + SumOver(f, others)
    BY <2>9, <2>10
  <2>14. SumOver(f, T) = f[y] + (f[a] + SumOver(f, others))
    <3> HIDE DEF a, others
    <3> QED BY <2>4, <2>7, <2>12
  <2> QED BY <2>3, <2>13, <2>14
<1> QED BY <1>2

\* Changing one amount changes the sum by the difference.
LEMMA SumChange ==
  ASSUME NEW f, NEW h, NEW S, IsFiniteSet(S), NEW x \in S,
         \A y \in S : f[y] \in Int /\ h[y] \in Int,
         \A y \in S \ {x} : h[y] = f[y]
  PROVE  SumOver(h, S) = SumOver(f, S) + h[x] - f[x]
<1>1. IsFiniteSet(S \ {x})
  BY FS_Subset
<1>2. SumOver(f, S \ {x}) = SumOver(h, S \ {x})
  BY <1>1, SumSame
<1>3. SumOver(f, S \ {x}) \in Int
  BY <1>1, SumInt
<1> QED BY <1>2, <1>3, SumPick

\* Sums add up.
LEMMA SumPlus ==
  ASSUME NEW f, NEW g, NEW h, NEW S, IsFiniteSet(S),
         \A x \in S : f[x] \in Int /\ g[x] \in Int /\ h[x] = f[x] + g[x]
  PROVE  SumOver(h, S) = SumOver(f, S) + SumOver(g, S)
<1> DEFINE B == {T \in SUBSET S : SumOver(h, T) # SumOver(f, T) + SumOver(g, T)}
<1>1. B \in SUBSET SUBSET S /\ {} \notin B
  BY SumOfNone
<1>2. ASSUME B # {} PROVE FALSE
  <2>0. \E T \in B : SmallestIn(T, B)
    <3> HIDE DEF B
    <3> QED BY <1>1, <1>2, RestHolds
  <2>1. PICK T \in B : SmallestIn(T, B)
    BY <2>0
  <2>2. /\ T # {} /\ IsFiniteSet(T)
        /\ Any(T) \in T /\ Rest(T) \subseteq T /\ Rest(T) # T
        /\ \A U \in B : U \subseteq T => U = T
    BY <2>1 DEF SmallestIn
  <2>3. SumOver(h, Rest(T)) = SumOver(f, Rest(T)) + SumOver(g, Rest(T))
    BY <2>2
  <2>4. /\ SumOver(f, T) = f[Any(T)] + SumOver(f, Rest(T))
        /\ SumOver(g, T) = g[Any(T)] + SumOver(g, Rest(T))
        /\ SumOver(h, T) = h[Any(T)] + SumOver(h, Rest(T))
    BY <2>2, SumStep
  <2>5. IsFiniteSet(Rest(T)) /\ Rest(T) \subseteq S
    BY <2>2, FS_Subset
  <2>6. SumOver(f, Rest(T)) \in Int /\ SumOver(g, Rest(T)) \in Int
    BY <2>5, SumInt
  <2>7. f[Any(T)] \in Int /\ g[Any(T)] \in Int /\ h[Any(T)] = f[Any(T)] + g[Any(T)]
    BY <2>2
  <2>8. SumOver(h, T) # SumOver(f, T) + SumOver(g, T)
    OBVIOUS
  <2> HIDE DEF B
  <2> QED BY <2>3, <2>4, <2>6, <2>7, <2>8
<1> QED BY <1>2

\* Amounts that are not negative: the sum is not, and is no less than any of them.
LEMMA SumNat ==
  ASSUME NEW f, NEW S, IsFiniteSet(S), \A x \in S : f[x] \in Nat
  PROVE  /\ SumOver(f, S) \in Nat
         /\ \A x \in S : f[x] <= SumOver(f, S)
<1>1. ASSUME NEW T \in SUBSET S PROVE SumOver(f, T) \in Nat
  <2>1. IsFiniteSet(T) /\ \A x \in T : f[x] \in Nat
    BY FS_Subset
  <2>2. 0 \in Nat /\ \A m, n \in Nat : m + n \in Nat
    OBVIOUS
  <2> QED BY <2>1, <2>2, SumClosed, Zenon
<1>2. ASSUME NEW x \in S PROVE f[x] <= SumOver(f, S)
  <2>1. f[x] \in Nat /\ SumOver(f, S \ {x}) \in Nat
    BY <1>1
  <2>2. \A y \in S : f[y] \in Int
    OBVIOUS
  <2>3. SumOver(f, S) = f[x] + SumOver(f, S \ {x})
    BY <2>2, SumPick
  <2> QED BY <2>1, <2>3
<1>3. SumOver(f, S) \in Nat
  BY <1>1
<1> QED BY <1>2, <1>3

\* Larger amounts have a larger sum.
LEMMA SumMonotone ==
  ASSUME NEW f, NEW h, NEW S, IsFiniteSet(S),
         \A x \in S : f[x] \in Int /\ h[x] \in Int /\ f[x] <= h[x]
  PROVE  SumOver(f, S) <= SumOver(h, S)
<1> DEFINE d == [x \in S |-> h[x] - f[x]]
<1>1. \A x \in S : f[x] \in Int /\ d[x] \in Nat /\ d[x] \in Int /\ h[x] = f[x] + d[x]
  OBVIOUS
<1> HIDE DEF d
<1>2. SumOver(h, S) = SumOver(f, S) + SumOver(d, S)
  BY <1>1, SumPlus
<1>3. SumOver(f, S) \in Int /\ SumOver(d, S) \in Nat
  BY <1>1, SumInt, SumNat
<1> QED BY <1>2, <1>3

\* What lies outside adds its amount, and a part sums to no more than the whole.
LEMMA SumGrow ==
  ASSUME NEW f, NEW S, IsFiniteSet(S), \A y \in S : f[y] \in Int,
         NEW x, x \notin S, f[x] \in Int
  PROVE  SumOver(f, S \cup {x}) = f[x] + SumOver(f, S)
<1>1. IsFiniteSet(S \cup {x}) /\ (S \cup {x}) \ {x} = S
  BY FS_AddElement
<1>2. \A y \in S \cup {x} : f[y] \in Int
  OBVIOUS
<1> QED BY <1>1, <1>2, SumPick

LEMMA SumSubset ==
  ASSUME NEW f, NEW S, IsFiniteSet(S), \A x \in S : f[x] \in Nat, NEW T \in SUBSET S
  PROVE  SumOver(f, T) <= SumOver(f, S)
<1> DEFINE in == [x \in S |-> IF x \in T THEN f[x] ELSE 0]
           B == {U \in SUBSET S : SumOver(f, U \cap T) # SumOver(in, U)}
<1>1. B \in SUBSET SUBSET S /\ {} \notin B
  BY SumOfNone
<1>2. ASSUME B # {} PROVE FALSE
  <2>0. \E U \in B : SmallestIn(U, B)
    <3> HIDE DEF B
    <3> QED BY <1>1, <1>2, RestHolds
  <2>1. PICK U \in B : SmallestIn(U, B)
    BY <2>0
  <2>2. /\ U # {} /\ IsFiniteSet(U)
        /\ Any(U) \in U /\ Rest(U) \subseteq U /\ Rest(U) # U
        /\ \A V \in B : V \subseteq U => V = U
    BY <2>1 DEF SmallestIn
  <2> DEFINE a == Any(U)
             others == Rest(U) \cap T
  <2>3. SumOver(f, others) = SumOver(in, Rest(U))
    BY <2>2
  <2>4. SumOver(in, U) = in[a] + SumOver(in, Rest(U))
    BY <2>2, SumStep
  <2>5. IsFiniteSet(others) /\ others \subseteq S /\ a \in S /\ a \notin others
    BY <2>2, FS_Subset DEF Rest
  <2>6. SumOver(f, others) \in Int
    BY <2>5, SumInt
  <2>7. CASE a \in T
    <3>1. U \cap T = others \cup {a} /\ f[a] \in Int /\ \A y \in others : f[y] \in Int
      BY <2>2, <2>5, <2>7 DEF Rest
    <3>2. SumOver(f, U \cap T) = f[a] + SumOver(f, others)
      <4> HIDE DEF a, others
      <4> QED BY <2>5, <3>1, SumGrow
    <3> QED BY <2>1, <2>3, <2>4, <2>5, <2>7, <3>2
  <2>8. CASE a \notin T
    <3>1. U \cap T = others /\ in[a] = 0
      BY <2>2, <2>5, <2>8 DEF Rest
    <3> QED BY <2>1, <2>3, <2>4, <2>6, <3>1
  <2> QED BY <2>7, <2>8
<1>3. SumOver(f, T) = SumOver(in, S)
  <2>1. S \notin B /\ S \cap T = T
    BY <1>2
  <2> QED BY <2>1
<1>4. \A x \in S : in[x] \in Int /\ f[x] \in Int /\ in[x] <= f[x]
  OBVIOUS
<1> QED BY <1>3, <1>4, SumMonotone

\* A finite set of naturals that is not empty has a largest member.
LEMMA Largest ==
  ASSUME NEW S, IsFiniteSet(S), S \subseteq Nat, S # {}
  PROVE  \E m \in S : \A n \in S : n <= m
<1> DEFINE B == {{n \in S : m <= n} : m \in S}
<1>1. B \in SUBSET SUBSET S /\ B # {}
  OBVIOUS
<1>2. \E T \in B : Minimal(T, B)
  <2> HIDE DEF B
  <2> QED BY <1>1, Smallest
<1>3. PICK T \in B : \A U \in B : U \subseteq T => U = T
  BY <1>2 DEF Minimal
<1>4. PICK m \in S : T = {n \in S : m <= n}
  OBVIOUS
<1>5. \A k \in S : k \in Nat
  OBVIOUS
<1>6. ASSUME NEW k \in S, m < k PROVE FALSE
  <2> DEFINE U == {n \in S : k <= n}
  <2>1. m \in Nat /\ k \in Nat
    BY <1>5
  <2>2. ASSUME NEW n \in U PROVE n \in T
    <3>1. n \in S /\ n \in Nat /\ k <= n
      BY <1>5
    <3> QED BY <1>4, <1>6, <2>1, <3>1
  <2>3. m \in T /\ m \notin U
    BY <1>4, <1>6, <2>1
  <2>4. U \in B
    OBVIOUS
  <2> HIDE DEF U, B
  <2> QED BY <1>3, <2>2, <2>3, <2>4
<1> QED BY <1>5, <1>6
=============================================================================
