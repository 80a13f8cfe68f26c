------------------------------- MODULE Sums -------------------------------
(***************************************************************************)
(* Facts about the sums of Functions, for finite index sets: the sum of    *)
(* amounts is what one of them adds to the sum of the others.  A fold over *)
(* a set is shown to satisfy its equation, and facts about it are shown by *)
(* looking at a smallest set for which they fail.                          *)
(***************************************************************************)
EXTENDS Functions, Integers, Sequences, FiniteSets, TLAPS, FiniteSetTheorems, WellFoundedInduction

\* The element that a fold takes out of s.
Pick(s) == CHOOSE x \in s : TRUE

\* g adds up the values of f over the subsets of S, one element after the other.
Adds(g, f, S) ==
    g = [s \in SUBSET S |-> IF s = {} THEN 0 ELSE f[Pick(s)] + g[s \ {Pick(s)}]]

LEMMA SumIsFold ==
    ASSUME NEW f, NEW S
    PROVE  SumFunctionOnSet(f, S) = (CHOOSE g : Adds(g, f, S))[S]
BY DEF SumFunctionOnSet, FoldFunctionOnSet, MapThenFoldSet, Adds, Pick

LEMMA PickIn ==
    ASSUME NEW s, s # {}
    PROVE  Pick(s) \in s
BY DEF Pick

\* Among subsets of a finite set there is a smallest one.
LEMMA SmallestSubset ==
    ASSUME NEW S, IsFiniteSet(S), NEW T \in SUBSET SUBSET S, T # {}
    PROVE  \E U \in T : \A V \in T : V \subseteq U => V = U
<1>1. IsWellFoundedOn(StrictSubsetOrdering(S), SUBSET S)
  BY FS_StrictSubsetOrderingWellFounded, FS_FiniteSubsetsOfFinite
<1>2. PICK U \in T : \A V \in T : ~ (<<V, U>> \in StrictSubsetOrdering(S))
  BY <1>1, WFMin
<1>3. ASSUME NEW V \in T, V \subseteq U, V # U PROVE FALSE
  <2>1. V \in SUBSET S /\ U \in SUBSET S
    OBVIOUS
  <2>2. <<V, U>> \in StrictSubsetOrdering(S)
    BY <1>3, <2>1 DEF StrictSubsetOrdering
  <2> QED
    BY <1>2, <2>2
<1> QED
  BY <1>3
\* Two such functions agree where both are defined.
LEMMA AddsAgree ==
    ASSUME NEW f, NEW S, IsFiniteSet(S), NEW T, NEW g, NEW h, Adds(g, f, S), Adds(h, f, T),
           NEW s \in SUBSET S, s \in SUBSET T
    PROVE  g[s] = h[s]
<1> DEFINE Bad == {u \in SUBSET S : u \in SUBSET T /\ g[u] # h[u]}
<1> SUFFICES ASSUME Bad # {} PROVE FALSE
  OBVIOUS
<1>1. PICK u \in Bad : \A v \in Bad : v \subseteq u => v = u
  <2>1. Bad \in SUBSET SUBSET S
    OBVIOUS
  <2> HIDE DEF Bad
  <2> QED
    BY <2>1, SmallestSubset
<1>2. /\ g[u] = IF u = {} THEN 0 ELSE f[Pick(u)] + g[u \ {Pick(u)}]
      /\ h[u] = IF u = {} THEN 0 ELSE f[Pick(u)] + h[u \ {Pick(u)}]
  BY DEF Adds
<1>3. u # {} /\ g[u \ {Pick(u)}] # h[u \ {Pick(u)}]
  BY <1>1, <1>2
<1>4. u \ {Pick(u)} \in Bad
  BY <1>3
<1>5. Pick(u) \in u
  BY <1>3, PickIn
<1> QED
  BY <1>1, <1>4, <1>5

Solution(f, S) == CHOOSE g : Adds(g, f, S)

\* There is such a function for every finite set.
LEMMA AddsExists ==
    ASSUME NEW f, NEW S, IsFiniteSet(S)
    PROVE  \E g : Adds(g, f, S)
<1> DEFINE Bad == {u \in SUBSET S : ~ \E g : Adds(g, f, u)}
<1> SUFFICES ASSUME Bad # {} PROVE FALSE
  OBVIOUS
<1>1. PICK u \in Bad : \A v \in Bad : v \subseteq u => v = u
  <2>1. Bad \in SUBSET SUBSET S
    OBVIOUS
  <2> HIDE DEF Bad
  <2> QED
    BY <2>1, SmallestSubset
<1>u. u \in SUBSET S /\ ~ \E g : Adds(g, f, u)
  OBVIOUS
<1>v. \A v \in SUBSET u : v = u \/ \E g : Adds(g, f, v)
  BY <1>1
<1> HIDE DEF Bad
<1>2. ASSUME NEW v \in SUBSET u, v # u PROVE Adds(Solution(f, v), f, v)
  <2>1. \E g : Adds(g, f, v)
    BY <1>2, <1>v
  <2> QED
    BY <2>1 DEF Solution
<1>3. PICK g : g = [v \in SUBSET u |->
                       IF v = {} THEN 0
                       ELSE f[Pick(v)] + Solution(f, v \ {Pick(v)})[v \ {Pick(v)}]]
  OBVIOUS
<1>4. ASSUME NEW v \in SUBSET u, v # u PROVE g[v] = Solution(f, v)[v]
  <2>1. Adds(Solution(f, v), f, v) /\ IsFiniteSet(v)
    BY <1>2, <1>4, <1>u, FS_Subset
  <2>2. Solution(f, v)[v] = IF v = {} THEN 0 ELSE f[Pick(v)] + Solution(f, v)[v \ {Pick(v)}]
    BY <2>1 DEF Adds
  <2>3. ASSUME NEW w, w = v \ {Pick(v)}, v # {}
        PROVE  Solution(f, v)[w] = Solution(f, w)[w]
    <3>1. w \in SUBSET u /\ w # u /\ w \in SUBSET v /\ w \in SUBSET w
      BY <1>4, <2>3, PickIn
    <3>2. Adds(Solution(f, w), f, w)
      BY <1>2, <3>1
    <3> QED
      BY <2>1, <3>1, <3>2, AddsAgree
  <2> QED
    BY <1>3, <2>2, <2>3
<1>5. ASSUME NEW v \in SUBSET u, v # {}
      PROVE  g[v] = f[Pick(v)] + g[v \ {Pick(v)}]
  <2>1. v \ {Pick(v)} \in SUBSET u /\ v \ {Pick(v)} # u
    BY <1>5, PickIn
  <2>2. g[v \ {Pick(v)}] = Solution(f, v \ {Pick(v)})[v \ {Pick(v)}]
    BY <1>4, <2>1
  <2> QED
    BY <1>3, <1>5, <2>2
<1>6. g = [v \in SUBSET u |-> g[v]] /\ g[{}] = 0
  BY <1>3
<1>7. Adds(g, f, u)
  BY <1>5, <1>6 DEF Adds
<1> QED
  BY <1>7, <1>u

LEMMA SumAdds ==
    ASSUME NEW f, NEW S, IsFiniteSet(S), NEW g, Adds(g, f, S), NEW s \in SUBSET S
    PROVE  SumFunctionOnSet(f, s) = g[s]
<1>1. IsFiniteSet(s)
  BY FS_Subset
<1>2. \E k : Adds(k, f, s)
  BY <1>1, AddsExists
<1>3. Adds(CHOOSE k : Adds(k, f, s), f, s)
  BY <1>2
<1>4. PICK h : Adds(h, f, s) /\ SumFunctionOnSet(f, s) = h[s]
  BY <1>3, SumIsFold
<1>5. s \in SUBSET s
  OBVIOUS
<1> QED
  BY <1>1, <1>4, <1>5, AddsAgree

\* The sum over no element is 0, and an element can be taken out.
LEMMA SumNone ==
    ASSUME NEW f
    PROVE  SumFunctionOnSet(f, {}) = 0
<1>1. PICK g : Adds(g, f, {})
  BY AddsExists, FS_EmptySet
<1>2. SumFunctionOnSet(f, {}) = g[{}]
  BY <1>1, SumAdds, FS_EmptySet
<1> QED
  BY <1>1, <1>2 DEF Adds

LEMMA SumPick ==
    ASSUME NEW f, NEW S, IsFiniteSet(S), S # {}
    PROVE  SumFunctionOnSet(f, S) = f[Pick(S)] + SumFunctionOnSet(f, S \ {Pick(S)})
<1>1. PICK g : Adds(g, f, S)
  BY AddsExists
<1>2. SumFunctionOnSet(f, S) = g[S] /\ SumFunctionOnSet(f, S \ {Pick(S)}) = g[S \ {Pick(S)}]
  BY <1>1, SumAdds
<1> QED
  BY <1>1, <1>2 DEF Adds
\* A sum of integers is one, and of naturals a natural.
LEMMA SumType ==
    ASSUME NEW f, NEW S, IsFiniteSet(S), NEW N \in {Nat, Int}, \A x \in S : f[x] \in N
    PROVE  SumFunctionOnSet(f, S) \in N
<1> DEFINE Bad == {u \in SUBSET S : SumFunctionOnSet(f, u) \notin N}
<1> SUFFICES ASSUME Bad # {} PROVE FALSE
  OBVIOUS
<1>1. PICK u \in Bad : \A v \in Bad : v \subseteq u => v = u
  <2>1. Bad \in SUBSET SUBSET S
    OBVIOUS
  <2> HIDE DEF Bad
  <2> QED
    BY <2>1, SmallestSubset
<1>2. u # {} /\ IsFiniteSet(u)
  <2>1. IsFiniteSet(u)
    BY FS_Subset
  <2>2. 0 \in N
    OBVIOUS
  <2> QED
    BY <2>1, <2>2, SumNone
<1>3. Pick(u) \in u
  BY <1>2, PickIn
<1>4. SumFunctionOnSet(f, u) = f[Pick(u)] + SumFunctionOnSet(f, u \ {Pick(u)})
  BY <1>2, SumPick
<1>5. SumFunctionOnSet(f, u \ {Pick(u)}) \in N
  <2>1. u \ {Pick(u)} \notin Bad
    BY <1>1, <1>3
  <2> QED
    BY <2>1
<1>6. f[Pick(u)] \in N
  BY <1>3
<1>7. \A m, n \in N : m + n \in N
  <2>1. CASE N = Nat
    BY <2>1
  <2>2. CASE N = Int
    BY <2>2
  <2> QED
    BY <2>1, <2>2
<1> QED
  BY <1>4, <1>5, <1>6, <1>7

\* Any element can be taken out of a sum.
LEMMA SumWithout ==
    ASSUME NEW f, NEW S, IsFiniteSet(S), \A x \in S : f[x] \in Int, NEW x \in S
    PROVE  SumFunctionOnSet(f, S) = f[x] + SumFunctionOnSet(f, S \ {x})
<1> DEFINE Fits(u, y) == SumFunctionOnSet(f, u) = f[y] + SumFunctionOnSet(f, u \ {y})
           Bad == {u \in SUBSET S : \E y \in u : ~ Fits(u, y)}
<1> SUFFICES ASSUME Bad # {} PROVE FALSE
  OBVIOUS
<1>1. PICK u \in Bad : \A v \in Bad : v \subseteq u => v = u
  <2>1. Bad \in SUBSET SUBSET S
    OBVIOUS
  <2> HIDE DEF Bad
  <2> QED
    BY <2>1, SmallestSubset
<1>2. PICK y \in u : ~ Fits(u, y)
  OBVIOUS
<1>3. PICK p : p = Pick(u)
  OBVIOUS
<1>4. IsFiniteSet(u) /\ u # {} /\ u \subseteq S
  BY FS_Subset
<1>5. p \in u /\ Fits(u, p)
  BY <1>3, <1>4, PickIn, SumPick
<1>6. y # p
  BY <1>2, <1>5
<1>7. \A v \in SUBSET u : v # u => \A z \in v : Fits(v, z)
  BY <1>1
<1> HIDE DEF Bad
<1>8. Fits(u \ {p}, y) /\ Fits(u \ {y}, p)
  BY <1>5, <1>6, <1>7
<1>9. (u \ {p}) \ {y} = (u \ {y}) \ {p}
  OBVIOUS
<1>10. SumFunctionOnSet(f, (u \ {p}) \ {y}) \in Int
  <2>1. IsFiniteSet((u \ {p}) \ {y}) /\ \A z \in (u \ {p}) \ {y} : f[z] \in Int
    BY <1>4, FS_Subset
  <2> QED
    BY <2>1, SumType
<1>11. f[p] \in Int /\ f[y] \in Int
  BY <1>4, <1>5
<1>12. SumFunctionOnSet(f, u) = f[p] + (f[y] + SumFunctionOnSet(f, (u \ {p}) \ {y}))
  BY <1>5, <1>8
<1>13. SumFunctionOnSet(f, u \ {y}) = f[p] + SumFunctionOnSet(f, (u \ {p}) \ {y})
  BY <1>8, <1>9
<1>14. SumFunctionOnSet(f, u) # f[y] + SumFunctionOnSet(f, u \ {y})
  BY <1>2
<1> QED
  BY <1>10, <1>11, <1>12, <1>13, <1>14

\* Sums of the same amounts are the same.
LEMMA SumSame ==
    ASSUME NEW f, NEW g, NEW S, IsFiniteSet(S), \A x \in S : f[x] = g[x]
    PROVE  SumFunctionOnSet(f, S) = SumFunctionOnSet(g, S)
<1> DEFINE Bad == {u \in SUBSET S : SumFunctionOnSet(f, u) # SumFunctionOnSet(g, u)}
<1> SUFFICES ASSUME Bad # {} PROVE FALSE
  OBVIOUS
<1>1. PICK u \in Bad : \A v \in Bad : v \subseteq u => v = u
  <2>1. Bad \in SUBSET SUBSET S
    OBVIOUS
  <2> HIDE DEF Bad
  <2> QED
    BY <2>1, SmallestSubset
<1>2. u # {} /\ IsFiniteSet(u)
  BY SumNone, FS_Subset
<1>3. Pick(u) \in u
  BY <1>2, PickIn
<1>4. /\ SumFunctionOnSet(f, u) = f[Pick(u)] + SumFunctionOnSet(f, u \ {Pick(u)})
      /\ SumFunctionOnSet(g, u) = g[Pick(u)] + SumFunctionOnSet(g, u \ {Pick(u)})
  BY <1>2, SumPick
<1>5. SumFunctionOnSet(f, u \ {Pick(u)}) = SumFunctionOnSet(g, u \ {Pick(u)})
  <2>1. u \ {Pick(u)} \notin Bad
    BY <1>1, <1>3
  <2> QED
    BY <2>1
<1> QED
  BY <1>3, <1>4, <1>5

\* A sum changes by as much as the one amount that changes.
LEMMA SumChange ==
    ASSUME NEW S, IsFiniteSet(S), NEW f \in [S -> Int], NEW g \in [S -> Int], NEW x \in S,
           \A y \in S \ {x} : f[y] = g[y]
    PROVE  /\ SumFunction(f) \in Int /\ SumFunction(g) \in Int
           /\ SumFunction(g) = SumFunction(f) + g[x] - f[x]
<1>1. SumFunction(f) = SumFunctionOnSet(f, S) /\ SumFunction(g) = SumFunctionOnSet(g, S)
  BY DEF SumFunction
<1>2. IsFiniteSet(S \ {x})
  BY FS_Subset
<1>3. /\ SumFunctionOnSet(f, S) = f[x] + SumFunctionOnSet(f, S \ {x})
      /\ SumFunctionOnSet(g, S) = g[x] + SumFunctionOnSet(g, S \ {x})
  BY SumWithout
<1>4. SumFunctionOnSet(f, S \ {x}) = SumFunctionOnSet(g, S \ {x})
  BY <1>2, SumSame
<1>5. SumFunctionOnSet(f, S \ {x}) \in Int
  BY <1>2, SumType
<1>6. f[x] \in Int /\ g[x] \in Int
  OBVIOUS
<1> QED
  BY <1>1, <1>3, <1>4, <1>5, <1>6

\* A sum of naturals is a natural, and at least each of them.
LEMMA SumNat ==
    ASSUME NEW S, IsFiniteSet(S), NEW f \in [S -> Nat]
    PROVE  SumFunction(f) \in Nat /\ \A x \in S : f[x] <= SumFunction(f)
<1>1. SumFunction(f) = SumFunctionOnSet(f, S)
  BY DEF SumFunction
<1>2. SumFunction(f) \in Nat
  BY <1>1, SumType
<1>3. ASSUME NEW x \in S PROVE f[x] <= SumFunction(f)
  <2>1. SumFunctionOnSet(f, S) = f[x] + SumFunctionOnSet(f, S \ {x})
    BY SumWithout
  <2>2. IsFiniteSet(S \ {x})
    BY FS_Subset
  <2>3. SumFunctionOnSet(f, S \ {x}) \in Nat
    BY <2>2, SumType
  <2>4. f[x] \in Nat
    OBVIOUS
  <2> QED
    BY <1>1, <2>1, <2>3, <2>4
<1> QED
  BY <1>2, <1>3
-----------------------------------------------------------------------------
(* Sums along a sequence *)

\* A non-empty set of naturals has a smallest element.
LEMMA SmallestNat ==
    ASSUME NEW T \in SUBSET Nat, T # {}
    PROVE  \E m \in T : \A n \in T : m <= n
<1>1. PICK n \in T : TRUE
  OBVIOUS
<1> DEFINE Initial == {0..m : m \in T \cap (0..n)}
<1>2. IsFiniteSet(0..n) /\ Initial \in SUBSET SUBSET (0..n) /\ Initial # {}
  <2>1. IsFiniteSet(0..n)
    BY FS_Interval
  <2>2. \A m \in 0..n : 0..m \in SUBSET (0..n)
    OBVIOUS
  <2>3. n \in T \cap (0..n)
    OBVIOUS
  <2> QED
    BY <2>1, <2>2, <2>3
<1>3. PICK U \in Initial : \A V \in Initial : V \subseteq U => V = U
  <2>1. PICK S : S = 0..n
    OBVIOUS
  <2>2. PICK W : W = Initial
    OBVIOUS
  <2>3. IsFiniteSet(S) /\ W \in SUBSET SUBSET S /\ W # {}
    BY <1>2, <2>1, <2>2
  <2> HIDE DEF Initial
  <2>4. \E U \in W : \A V \in W : V \subseteq U => V = U
    <3>1. \A s : IsFiniteSet(s) => \A t \in SUBSET SUBSET s :
              t # {} => \E u \in t : \A v \in t : v \subseteq u => v = u
      BY SmallestSubset
    <3>2. IsFiniteSet(S)
      BY <2>3
    <3>3. W \in SUBSET SUBSET S /\ W # {}
      BY <2>3
    <3> QED
      BY ONLY <3>1, <3>2, <3>3
  <2> QED
    BY <2>2, <2>4
<1>4. PICK m \in T \cap (0..n) : U = 0..m
  OBVIOUS
<1>5. ASSUME NEW k \in T, k < m PROVE FALSE
  <2>1. 0..k \in Initial
    BY <1>4, <1>5
  <2>2. 0..k \subseteq 0..m
    BY <1>5
  <2>3. 0..k = 0..m
    BY <1>3, <1>4, <2>1, <2>2
  <2>4. m \in 0..m /\ m \notin 0..k
    BY <1>5
  <2> QED
    BY <2>3, <2>4
<1> QED
  BY <1>4, <1>5

\* Intervals, and intervals less their first or last element.
LEMMA Interval ==
    /\ \A i, j \in Int : IsFiniteSet(i..j)
    /\ \A n \in Nat : /\ (1..n + 1) \ {1} = 2..n + 1 /\ 1 \in 1..n + 1
                      /\ (1..n + 1) \ {n + 1} = 1..n /\ n + 1 \in 1..n + 1
                      /\ (2..(n + 1) + 1) \ {(n + 1) + 1} = 2..n + 1
                      /\ (n + 1) + 1 \in 2..(n + 1) + 1
<1>1. \A i, j \in Int : IsFiniteSet(i..j)
  BY FS_Interval
<1>2. ASSUME NEW n \in Nat
      PROVE  /\ (1..n + 1) \ {1} = 2..n + 1 /\ 1 \in 1..n + 1
             /\ (1..n + 1) \ {n + 1} = 1..n /\ n + 1 \in 1..n + 1
             /\ (2..(n + 1) + 1) \ {(n + 1) + 1} = 2..n + 1
             /\ (n + 1) + 1 \in 2..(n + 1) + 1
  OBVIOUS
<1> QED
  BY <1>1, <1>2

\* Moving all amounts by one place does not change their sum.
LEMMA SumShift ==
    ASSUME NEW n \in Nat, NEW f, NEW g, \A i \in 1..n : f[i] \in Int /\ g[i + 1] = f[i]
    PROVE  SumFunctionOnSet(g, 2..n + 1) = SumFunctionOnSet(f, 1..n)
<1> DEFINE Bad == {k \in 0..n : SumFunctionOnSet(g, 2..k + 1) # SumFunctionOnSet(f, 1..k)}
<1> SUFFICES ASSUME Bad # {} PROVE FALSE
  OBVIOUS
<1>1. PICK k \in Bad : \A m \in Bad : k <= m
  <2>1. Bad \in SUBSET Nat
    OBVIOUS
  <2> HIDE DEF Bad
  <2> QED
    BY <2>1, SmallestNat
<1>2. k # 0
  <2>1. 2..0 + 1 = {} /\ 1..0 = {}
    OBVIOUS
  <2> QED
    BY <2>1, SumNone
<1>3. PICK m \in 0..n : k = m + 1
  <2>1. k \in 1..n
    BY <1>2
  <2> QED
    BY <2>1
<1>4. m \notin Bad
  BY <1>1, <1>3
<1>5. SumFunctionOnSet(g, 2..m + 1) = SumFunctionOnSet(f, 1..m)
  BY <1>4
<1>6. /\ IsFiniteSet(2..k + 1) /\ (2..k + 1) \ {k + 1} = 2..m + 1 /\ k + 1 \in 2..k + 1
      /\ IsFiniteSet(1..k) /\ (1..k) \ {k} = 1..m /\ k \in 1..k
  BY <1>3, Interval
<1>7. /\ \A i \in 1..k : f[i] \in Int
      /\ \A i \in 2..k + 1 : g[i] \in Int
  <2>1. \A i \in 2..k + 1 : i - 1 \in 1..n /\ i = (i - 1) + 1
    BY <1>3
  <2>2. \A i \in 1..k : i \in 1..n
    OBVIOUS
  <2> QED
    BY <2>1, <2>2
<1>8. SumFunctionOnSet(g, 2..k + 1) = g[k + 1] + SumFunctionOnSet(g, 2..m + 1)
  <2>1. PICK S, T, l : S = 2..k + 1 /\ T = 2..m + 1 /\ l = k + 1
    OBVIOUS
  <2>2. IsFiniteSet(S) /\ T = S \ {l} /\ l \in S /\ \A i \in S : g[i] \in Int
    BY <1>6, <1>7, <2>1
  <2>3. SumFunctionOnSet(g, S) = g[l] + SumFunctionOnSet(g, T)
    BY <2>2, SumWithout
  <2> QED
    BY <2>1, <2>3
<1>9. SumFunctionOnSet(f, 1..k) = f[k] + SumFunctionOnSet(f, 1..m)
  <2>1. PICK S, T : S = 1..k /\ T = 1..m
    OBVIOUS
  <2>2. IsFiniteSet(S) /\ T = S \ {k} /\ k \in S /\ \A i \in S : f[i] \in Int
    BY <1>6, <1>7, <2>1
  <2> HIDE DEF Bad
  <2>3. SumFunctionOnSet(f, S) = f[k] + SumFunctionOnSet(f, T)
    BY <2>2, SumWithout
  <2> QED
    BY <2>1, <2>3
<1>10. g[k + 1] = f[k]
  BY <1>6
<1> QED
  BY <1>5, <1>8, <1>9, <1>10

\* The amounts of a sequence, less the first one.
LEMMA SumTail ==
    ASSUME NEW n \in Nat, NEW f \in [1..n -> Int], NEW g \in [1..n + 1 -> Int],
           \A i \in 1..n : g[i + 1] = f[i]
    PROVE  SumFunction(g) = g[1] + SumFunction(f) /\ SumFunction(f) \in Int
<1>1. SumFunction(g) = SumFunctionOnSet(g, 1..n + 1) /\ SumFunction(f) = SumFunctionOnSet(f, 1..n)
  BY DEF SumFunction
<1>2. IsFiniteSet(1..n + 1) /\ IsFiniteSet(1..n) /\ (1..n + 1) \ {1} = 2..n + 1 /\ 1 \in 1..n + 1
  BY Interval
<1>3. SumFunctionOnSet(g, 1..n + 1) = g[1] + SumFunctionOnSet(g, 2..n + 1)
  <2>1. PICK S, T : S = 1..n + 1 /\ T = 2..n + 1
    OBVIOUS
  <2>2. IsFiniteSet(S) /\ T = S \ {1} /\ 1 \in S /\ \A i \in S : g[i] \in Int
    BY <1>2, <2>1
  <2>3. SumFunctionOnSet(g, S) = g[1] + SumFunctionOnSet(g, T)
    BY <2>2, SumWithout
  <2> QED
    BY <2>1, <2>3
<1>4. SumFunctionOnSet(g, 2..n + 1) = SumFunctionOnSet(f, 1..n)
  BY SumShift
<1>5. SumFunctionOnSet(f, 1..n) \in Int
  BY <1>2, SumType
<1> QED
  BY <1>1, <1>3, <1>4, <1>5

\* The amounts of a sequence, and one more.
LEMMA SumAppend ==
    ASSUME NEW n \in Nat, NEW f \in [1..n -> Int], NEW g \in [1..n + 1 -> Int],
           \A i \in 1..n : g[i] = f[i]
    PROVE  SumFunction(g) = SumFunction(f) + g[n + 1] /\ SumFunction(f) \in Int
<1>1. SumFunction(g) = SumFunctionOnSet(g, 1..n + 1) /\ SumFunction(f) = SumFunctionOnSet(f, 1..n)
  BY DEF SumFunction
<1>2. /\ IsFiniteSet(1..n + 1) /\ IsFiniteSet(1..n)
      /\ (1..n + 1) \ {n + 1} = 1..n /\ n + 1 \in 1..n + 1
  BY Interval
<1>3. SumFunctionOnSet(g, 1..n + 1) = g[n + 1] + SumFunctionOnSet(g, 1..n)
  BY <1>2, SumWithout
<1>4. SumFunctionOnSet(g, 1..n) = SumFunctionOnSet(f, 1..n)
  BY <1>2, SumSame
<1>5. SumFunctionOnSet(f, 1..n) \in Int /\ g[n + 1] \in Int
  BY <1>2, SumType
<1> QED
  BY <1>1, <1>3, <1>4, <1>5

\* SumChange, for functions of natural numbers.
LEMMA SumMoves ==
    ASSUME NEW S, IsFiniteSet(S), NEW f \in [S -> Nat], NEW g \in [S -> Nat], NEW x \in S,
           \A y \in S \ {x} : g[y] = f[y]
    PROVE  /\ SumFunction(f) \in Nat /\ SumFunction(g) \in Nat
           /\ SumFunction(g) = SumFunction(f) + g[x] - f[x]
<1>1. f \in [S -> Int] /\ g \in [S -> Int]
  OBVIOUS
<1>2. SumFunction(g) = SumFunction(f) + g[x] - f[x]
  BY <1>1, SumChange
<1> QED
  BY <1>2, SumNat

\* What a queue of numbers adds up to, when one is appended and when the first is taken.
LEMMA QueueSums ==
    ASSUME NEW n \in Nat, NEW f \in [1..n -> Nat], NEW g \in [1..n + 1 -> Nat]
    PROVE  /\ SumFunction(f) \in Nat /\ SumFunction(g) \in Nat
           /\ (\A i \in 1..n : g[i] = f[i]) => SumFunction(g) = SumFunction(f) + g[n + 1]
           /\ (\A i \in 1..n : g[i + 1] = f[i]) => SumFunction(g) = g[1] + SumFunction(f)
<1>1. f \in [1..n -> Int] /\ g \in [1..n + 1 -> Int]
  OBVIOUS
<1>2. SumFunction(f) \in Nat /\ SumFunction(g) \in Nat
  <2>1. IsFiniteSet(1..n) /\ IsFiniteSet(1..n + 1)
    BY Interval
  <2> QED
    BY <2>1, SumNat
<1>3. ASSUME \A i \in 1..n : g[i] = f[i] PROVE SumFunction(g) = SumFunction(f) + g[n + 1]
  BY <1>1, <1>3, SumAppend
<1>4. ASSUME \A i \in 1..n : g[i + 1] = f[i] PROVE SumFunction(g) = g[1] + SumFunction(f)
  BY <1>1, <1>4, SumTail
<1> QED
  BY <1>2, <1>3, <1>4

\* What the elements of a sequence are worth together.
Worth(v, q) == SumFunction([i \in DOMAIN q |-> v[q[i]]])

\* The worth of a sequence grows with what is appended and shrinks with what is taken.
LEMMA WorthSums ==
    ASSUME NEW M, NEW v \in [M -> Nat]
    PROVE  /\ Worth(v, <<>>) = 0
           /\ \A q \in Seq(M) : Worth(v, q) \in Nat
           /\ \A q \in Seq(M), m \in M : Worth(v, Append(q, m)) = Worth(v, q) + v[m]
           /\ \A q \in Seq(M) : q # <<>> => Worth(v, q) = v[Head(q)] + Worth(v, Tail(q))
<1>2. ASSUME NEW q \in Seq(M)
      PROVE  [i \in DOMAIN q |-> v[q[i]]] \in [1..Len(q) -> Nat]
  OBVIOUS
<1>3. ASSUME NEW q \in Seq(M) PROVE Worth(v, q) \in Nat
  <2>1. PICK f \in [1..Len(q) -> Nat] : f = [i \in DOMAIN q |-> v[q[i]]]
    BY <1>2
  <2>2. PICK k \in Nat : k = Len(q)
    OBVIOUS
  <2>3. IsFiniteSet(1..k)
    BY Interval
  <2> QED
    BY <2>1, <2>2, <2>3, SumNat DEF Worth
<1>4. ASSUME NEW q \in Seq(M), NEW m \in M
      PROVE  Worth(v, Append(q, m)) = Worth(v, q) + v[m]
  <2>1. PICK k \in Nat : k = Len(q)
    OBVIOUS
  <2>2. PICK f \in [1..k -> Nat] : f = [i \in DOMAIN q |-> v[q[i]]]
    BY <1>2, <2>1
  <2>3. Append(q, m) \in Seq(M) /\ Len(Append(q, m)) = k + 1
        /\ Append(q, m)[k + 1] = m /\ \A i \in 1..k : Append(q, m)[i] = q[i]
    BY <2>1
  <2>4. PICK r : r = Append(q, m)
    OBVIOUS
  <2>5. r \in Seq(M) /\ Len(r) = k + 1 /\ r[k + 1] = m /\ \A i \in 1..k : r[i] = q[i]
    BY <2>3, <2>4
  <2>6. PICK g \in [1..k + 1 -> Nat] : g = [i \in DOMAIN r |-> v[r[i]]]
    BY <1>2, <2>5
  <2>7. g[k + 1] = v[m] /\ \A i \in 1..k : g[i] = f[i]
    BY <2>1, <2>2, <2>5, <2>6
  <2>8. SumFunction(g) = SumFunction(f) + g[k + 1]
    BY ONLY k \in Nat, <2>7, QueueSums, f \in [1..k -> Nat], g \in [1..k + 1 -> Nat]
  <2> QED
    BY <2>2, <2>4, <2>6, <2>7, <2>8 DEF Worth
<1>5. ASSUME NEW q \in Seq(M), q # <<>>
      PROVE  Worth(v, q) = v[Head(q)] + Worth(v, Tail(q))
  <2>1. PICK k \in Nat : k = Len(q) - 1
    BY <1>5
  <2>2. /\ Tail(q) \in Seq(M) /\ Len(Tail(q)) = k
        /\ \A i \in 1..k : q[i + 1] = Tail(q)[i]
    BY <1>5, <2>1
  <2>3. PICK r : r = Tail(q)
    OBVIOUS
  <2>4. /\ r \in Seq(M) /\ Len(r) = k /\ Len(q) = k + 1 /\ q[1] = Head(q)
        /\ \A i \in 1..k : q[i + 1] = r[i]
    BY <1>5, <2>1, <2>2, <2>3
  <2>5. PICK f \in [1..k -> Nat] : f = [i \in DOMAIN r |-> v[r[i]]]
    BY <1>2, <2>4
  <2>6. PICK g \in [1..k + 1 -> Nat] : g = [i \in DOMAIN q |-> v[q[i]]]
    BY <1>2, <2>4
  <2>7. g[1] = v[Head(q)] /\ \A i \in 1..k : g[i + 1] = f[i]
    BY <2>4, <2>5, <2>6
  <2>8. SumFunction(g) = g[1] + SumFunction(f)
    BY ONLY k \in Nat, <2>7, QueueSums, f \in [1..k -> Nat], g \in [1..k + 1 -> Nat]
  <2> QED
    BY <2>3, <2>5, <2>6, <2>7, <2>8 DEF Worth
<1>6. Worth(v, <<>>) = 0
  <2>1. DOMAIN [i \in DOMAIN <<>> |-> v[<<>>[i]]] = {}
    OBVIOUS
  <2> QED
    BY <2>1, SumNone DEF Worth, SumFunction
<1> QED
  BY <1>3, <1>4, <1>5, <1>6

\* One more, or one less, of the same amount.
LEMMA Times ==
    ASSUME NEW n \in Nat, NEW k \in Nat
    PROVE  n * k \in Nat /\ n * (k + 1) = n * k + n /\ n * (k - 1) = n * k - n
  OBVIOUS

\* A sum of nothing but zeros.
LEMMA SumZeros ==
    ASSUME NEW f, NEW S, IsFiniteSet(S), \A x \in S : f[x] = 0
    PROVE  SumFunctionOnSet(f, S) = 0
<1> DEFINE Bad == {u \in SUBSET S : SumFunctionOnSet(f, u) # 0}
<1> SUFFICES ASSUME Bad # {} PROVE FALSE
  OBVIOUS
<1>1. PICK u \in Bad : \A v \in Bad : v \subseteq u => v = u
  <2>1. Bad \in SUBSET SUBSET S
    OBVIOUS
  <2> HIDE DEF Bad
  <2> QED
    BY <2>1, SmallestSubset
<1>2. u # {} /\ IsFiniteSet(u)
  BY FS_Subset, SumNone
<1>3. Pick(u) \in u
  BY <1>2, PickIn
<1>4. SumFunctionOnSet(f, u) = f[Pick(u)] + SumFunctionOnSet(f, u \ {Pick(u)})
  BY <1>2, SumPick
<1>5. SumFunctionOnSet(f, u \ {Pick(u)}) = 0
  <2>1. u \ {Pick(u)} \notin Bad
    BY <1>1, <1>3
  <2> QED
    BY <2>1
<1>6. f[Pick(u)] = 0
  BY <1>3
<1> QED
  BY <1>4, <1>5, <1>6

LEMMA ZeroFunction ==
    ASSUME NEW S, IsFiniteSet(S), NEW f, DOMAIN f = S, \A x \in S : f[x] = 0
    PROVE  SumFunction(f) = 0
  BY SumZeros DEF SumFunction

\* A sum of amounts that are each in two parts.
LEMMA SumParts ==
    ASSUME NEW f, NEW g, NEW h, NEW S, IsFiniteSet(S),
           \A x \in S : f[x] \in Nat /\ g[x] \in Nat /\ h[x] = f[x] + g[x]
    PROVE  SumFunctionOnSet(h, S) = SumFunctionOnSet(f, S) + SumFunctionOnSet(g, S)
<1> DEFINE Bad == {u \in SUBSET S :
                     SumFunctionOnSet(h, u) # SumFunctionOnSet(f, u) + SumFunctionOnSet(g, u)}
<1> SUFFICES ASSUME Bad # {} PROVE FALSE
  OBVIOUS
<1>1. PICK u \in Bad : \A v \in Bad : v \subseteq u => v = u
  <2>1. Bad \in SUBSET SUBSET S
    OBVIOUS
  <2> HIDE DEF Bad
  <2> QED
    BY <2>1, SmallestSubset
<1>2. u # {} /\ IsFiniteSet(u)
  <2>1. SumFunctionOnSet(f, {}) = 0 /\ SumFunctionOnSet(g, {}) = 0 /\ SumFunctionOnSet(h, {}) = 0
    BY SumNone
  <2>2. {} \notin Bad
    BY <2>1
  <2> QED
    BY <2>2, FS_Subset
<1>3. PICK p \in u : p = Pick(u)
  BY <1>2, PickIn
<1>4. /\ SumFunctionOnSet(f, u) = f[p] + SumFunctionOnSet(f, u \ {p})
      /\ SumFunctionOnSet(g, u) = g[p] + SumFunctionOnSet(g, u \ {p})
      /\ SumFunctionOnSet(h, u) = h[p] + SumFunctionOnSet(h, u \ {p})
  BY <1>2, <1>3, SumPick
<1>5. SumFunctionOnSet(h, u \ {p}) = SumFunctionOnSet(f, u \ {p}) + SumFunctionOnSet(g, u \ {p})
  <2>1. u \ {p} \notin Bad
    BY <1>1, <1>3
  <2> QED
    BY <2>1
<1>6. f[p] \in Nat /\ g[p] \in Nat /\ h[p] = f[p] + g[p]
  BY <1>3
<1>7. SumFunctionOnSet(f, u \ {p}) \in Nat /\ SumFunctionOnSet(g, u \ {p}) \in Nat
  <2>1. IsFiniteSet(u \ {p}) /\ \A x \in u \ {p} : f[x] \in Nat /\ g[x] \in Nat
    BY <1>2, FS_Subset
  <2> QED
    BY <2>1, SumType
<1>8. SumFunctionOnSet(h, u) # SumFunctionOnSet(f, u) + SumFunctionOnSet(g, u)
  OBVIOUS
<1> QED
  BY ONLY <1>4, <1>5, <1>6, <1>7, <1>8

LEMMA SumPlus ==
    ASSUME NEW S, IsFiniteSet(S), NEW f \in [S -> Nat], NEW g \in [S -> Nat], NEW h \in [S -> Nat],
           \A x \in S : h[x] = f[x] + g[x]
    PROVE  SumFunction(h) = SumFunction(f) + SumFunction(g)
  BY SumParts DEF SumFunction
=============================================================================
