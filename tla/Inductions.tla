----------------------------- MODULE Inductions -----------------------------
(***************************************************************************)
(* Facts that take an induction: the greatest value of a function, sums as *)
(* recursive functions, the positions a comprehension keeps.               *)
(*                                                                         *)
(* They need one fact: a set of naturals that is not empty has a least     *)
(* element.  It comes without an operator parameter from the well-         *)
(* foundedness of the strict subsets of a finite set, since n < m just     *)
(* when 0..n is a strict subset of 0..m.  What would be an induction on n  *)
(* is then a proof that the set of counterexamples has no least element.   *)
(***************************************************************************)
EXTENDS Integers, Positions, FiniteSetTheorems, WellFoundedInduction, TLAPS

\* A set of naturals that is not empty has a least element.
LEMMA LeastNatural ==
    ASSUME NEW T, T \subseteq Nat, T # {}
    PROVE  \E m \in T : \A n \in T : m <= n
<1> DEFINE D == {0..n : n \in T}
           R == StrictSubsetOrdering(Nat)
<1>1. D \subseteq FiniteSubsetsOf(Nat) /\ D # {}
  <2>1. \A n \in T : 0..n \in SUBSET Nat /\ IsFiniteSet(0..n)
    BY FS_Interval
  <2> QED BY <2>1 DEF FiniteSubsetsOf
<1>2. IsWellFoundedOn(R, FiniteSubsetsOf(Nat))
  BY FS_StrictSubsetOrderingWellFounded
<1>3. \E x \in D : \A y \in D : ~(<<y, x>> \in R)
  <2> HIDE DEF D, R
  <2> QED BY <1>1, <1>2, WFMin
<1>4. PICK x \in D : \A y \in D : ~(<<y, x>> \in R)
  BY <1>3
<1>5. PICK m \in T : x = 0..m
  OBVIOUS
<1>6. \A n \in T : m <= n
  <2> SUFFICES ASSUME NEW n \in T, ~(m <= n) PROVE FALSE
    OBVIOUS
  <2>1. 0..n \subseteq 0..m /\ m \in 0..m /\ m \notin 0..n
    OBVIOUS
  <2>2. 0..n \in SUBSET Nat /\ 0..m \in SUBSET Nat /\ 0..n # 0..m
    BY <2>1
  <2>3. <<0..n, 0..m>> \in R
    BY <2>1, <2>2, Zenon DEF StrictSubsetOrdering
  <2>4. 0..n \in D
    OBVIOUS
  <2> QED BY <1>4, <1>5, <2>3, <2>4
<1> QED BY <1>6


\* f adds up the first n values of g.
Adds(f, g, n) ==
    /\ f \in [0..n -> Int] /\ f[0] = 0
    /\ \A k \in 1..n : f[k] = f[k - 1] + g[k]

\* Every function of integers can be added up.
LEMMA SumExists ==
    ASSUME NEW N \in Nat, NEW g \in [1..N -> Int]
    PROVE  \E f : Adds(f, g, N)
<1> DEFINE Bad == {n \in 0..N : ~ \E f : Adds(f, g, n)}
<1>1. ASSUME Bad # {} PROVE FALSE
  <2>1. PICK m \in Bad : \A n \in Bad : m <= n
    <3>1. Bad \subseteq Nat
      OBVIOUS
    <3> HIDE DEF Bad
    <3> QED BY <1>1, <3>1, LeastNatural
  <2>2. m \in 0..N /\ m # 0
    <3>1. Adds([k \in 0..0 |-> 0], g, 0)
      BY DEF Adds
    <3> QED BY <3>1
  <2>3. PICK f : Adds(f, g, m - 1)
    <3>1. m - 1 \in 0..N /\ m - 1 \notin Bad
      BY <2>1, <2>2
    <3> QED BY <3>1
  <2> DEFINE h == [k \in 0..m |-> IF k = m THEN f[m - 1] + g[m] ELSE f[k]]
  <2>4. f[m - 1] \in Int /\ g[m] \in Int
    BY <2>2, <2>3 DEF Adds
  <2>5. h \in [0..m -> Int] /\ h[0] = 0
    BY <2>2, <2>3, <2>4 DEF Adds
  <2>6. \A k \in 1..m : h[k] = h[k - 1] + g[k]
    BY <2>2, <2>3, <2>4 DEF Adds
  <2>7. Adds(h, g, m)
    BY <2>5, <2>6 DEF Adds
  <2> QED BY <2>7
<1>2. N \notin Bad
  BY <1>1
<1> QED BY <1>2


\* The sum of the values of g.
Sigma(g, n) == (CHOOSE f : Adds(f, g, n))[n]

\* Whatever satisfies the recursion is that sum.
LEMMA SumUnique ==
    ASSUME NEW N \in Nat, NEW g \in [1..N -> Int], NEW f, NEW h, Adds(f, g, N),
           h = [k \in 0..N |-> IF k = 0 THEN 0 ELSE h[k - 1] + g[k]]
    PROVE  h = f
<1> DEFINE Bad == {n \in 0..N : f[n] # h[n]}
<1>1. h[0] = 0 /\ \A k \in 1..N : h[k] = h[k - 1] + g[k]
  <2>1. 0 \in 0..N /\ \A k \in 1..N : k \in 0..N /\ k # 0
    OBVIOUS
  <2> QED BY <2>1
<1>2. ASSUME Bad # {} PROVE FALSE
  <2>1. PICK m \in Bad : \A n \in Bad : m <= n
    <3>1. Bad \subseteq Nat
      OBVIOUS
    <3> HIDE DEF Bad
    <3> QED BY <1>2, <3>1, LeastNatural
  <2>2. m \in 1..N
    BY <1>1 DEF Adds
  <2>3. f[m - 1] = h[m - 1]
    BY <2>1, <2>2
  <2> QED BY <1>1, <2>2, <2>3 DEF Adds
<1>3. \A n \in 0..N : h[n] = f[n]
  BY <1>2
<1>4. DOMAIN h = 0..N
  OBVIOUS
<1> QED BY <1>3, <1>4 DEF Adds

\* The sum is where an adding function ends, and an integer.
LEMMA SigmaAdds ==
    ASSUME NEW N \in Nat, NEW g \in [1..N -> Int]
    PROVE  /\ \E f : Adds(f, g, N) /\ f[N] = Sigma(g, N)
           /\ Sigma(g, N) \in Int
<1>1. PICK f : Adds(f, g, N) /\ f[N] = Sigma(g, N)
  BY SumExists DEF Sigma
<1>2. N \in 0..N
  OBVIOUS
<1> QED BY <1>1, <1>2 DEF Adds

\* A recursive function that adds up g ends in its sum.
LEMMA SigmaDefined ==
    ASSUME NEW N \in Nat, NEW g \in [1..N -> Int], NEW h,
           h = [k \in 0..N |-> IF k = 0 THEN 0 ELSE h[k - 1] + g[k]]
    PROVE  h[N] = Sigma(g, N)
BY SigmaAdds, SumUnique

\* Changing one term changes the sum by as much.
LEMMA SigmaChange ==
    ASSUME NEW N \in Nat, NEW g \in [1..N -> Int], NEW h \in [1..N -> Int],
           NEW j \in 1..N, \A k \in 1..N : k # j => h[k] = g[k]
    PROVE  Sigma(h, N) = Sigma(g, N) + h[j] - g[j]
<1>1. PICK f : Adds(f, g, N) /\ f[N] = Sigma(g, N)
  BY SigmaAdds
<1> DEFINE e == [k \in 0..N |-> IF k < j THEN f[k] ELSE f[k] + (h[j] - g[j])]
<1>2. f \in [0..N -> Int] /\ f[0] = 0 /\ \A k \in 1..N : f[k] = f[k - 1] + g[k]
  BY <1>1 DEF Adds
<1>3. e \in [0..N -> Int] /\ e[0] = 0 /\ e[N] = f[N] + (h[j] - g[j])
  BY <1>2
<1>4. \A k \in 1..N : e[k] = e[k - 1] + h[k]
  <2> TAKE k \in 1..N
  <2>1. k \in 0..N /\ k - 1 \in 0..N /\ f[k] = f[k - 1] + g[k]
    BY <1>2
  <2>2. f[k] \in Int /\ f[k - 1] \in Int /\ g[k] \in Int /\ h[k] \in Int /\ g[j] \in Int /\ h[j] \in Int
    BY <1>2, <2>1
  <2>3. CASE k < j
    BY <2>1, <2>2, <2>3
  <2>4. CASE k = j
    BY <2>1, <2>2, <2>4
  <2>5. CASE k > j
    BY <2>1, <2>2, <2>5
  <2> QED BY <2>3, <2>4, <2>5
<1>5. Adds(e, h, N)
  BY <1>3, <1>4 DEF Adds
<1>6. PICK d : Adds(d, h, N) /\ d[N] = Sigma(h, N)
  BY SigmaAdds
<1>7. d = [k \in 0..N |-> IF k = 0 THEN 0 ELSE d[k - 1] + h[k]]
  BY <1>6 DEF Adds
<1>8. d = e
  <2> HIDE DEF e
  <2> QED BY <1>5, <1>7, SumUnique
<1> QED BY <1>1, <1>3, <1>6, <1>8, SigmaAdds

\* Nothing adds up to nothing.
LEMMA SigmaZero ==
    ASSUME NEW N \in Nat, NEW g \in [1..N -> Int], \A k \in 1..N : g[k] = 0
    PROVE  Sigma(g, N) = 0
<1> DEFINE e == [k \in 0..N |-> 0]
<1>1. e = [k \in 0..N |-> IF k = 0 THEN 0 ELSE e[k - 1] + g[k]]
  OBVIOUS
<1>2. e[N] = 0
  OBVIOUS
<1> HIDE DEF e
<1> QED BY <1>1, <1>2, SigmaDefined

-----------------------------------------------------------------------------
(* The positions a comprehension keeps. *)

\* f lists T, a set of positions, in ascending order.
Lists(f, T) ==
    /\ f \in [1..Cardinality(T) -> T]
    /\ \A i, j \in 1..Cardinality(T) : i < j => f[i] < f[j]

LEMMA ListExists ==
    ASSUME NEW N \in Nat, NEW S \in SUBSET (1..N)
    PROVE  \E f : Lists(f, S)
<1> DEFINE Bad == {n \in 0..N : \E T \in SUBSET (1..n) : ~ \E f : Lists(f, T)}
<1>1. ASSUME Bad # {} PROVE FALSE
  <2>1. PICK m \in Bad : \A n \in Bad : m <= n
    <3>1. Bad \subseteq Nat
      OBVIOUS
    <3> HIDE DEF Bad
    <3> QED BY <1>1, <3>1, LeastNatural
  <2>2. PICK T \in SUBSET (1..m) : ~ \E f : Lists(f, T)
    BY <2>1
  <2>3. m \in Nat /\ m # 0
    <3>1. \E f : Lists(f, {})
      <4>1. Cardinality({}) = 0 /\ 1..0 = {}
        BY FS_EmptySet
      <4>2. [i \in {} |-> 0] \in [{} -> {}]
        OBVIOUS
      <4>3. Lists([i \in {} |-> 0], {})
        BY <4>1, <4>2 DEF Lists
      <4> QED BY <4>3
    <3>2. m = 0 => T = {}
      BY <2>2
    <3>3. m \in Nat
      BY <2>1
    <3> QED BY <2>2, <3>1, <3>2, <3>3
  <2>4. \A V \in SUBSET (1..(m - 1)) : \E f : Lists(f, V)
    <3>1. m - 1 \in 0..N /\ m - 1 \notin Bad
      BY <2>1, <2>3
    <3> QED BY <3>1
  <2> HIDE DEF Bad
  <2>t. T \subseteq 1..m
    BY <2>2
  <2>5. IsFiniteSet(T) /\ m \in T
    <3>1. IsFiniteSet(1..m)
      BY <2>3, FS_Interval
    <3>2. m \notin T => T \in SUBSET (1..(m - 1))
      BY <2>3, <2>t
    <3> QED BY <2>2, <2>4, <2>t, <3>1, <3>2, FS_Subset
  <2>6. PICK U : U = T \ {m}
    OBVIOUS
  <2>7. U \in SUBSET (1..(m - 1)) /\ U \subseteq T
    BY <2>3, <2>6, <2>t
  <2>8. PICK f : Lists(f, U)
    BY <2>4, <2>7
  <2>9. PICK c \in Nat : c = Cardinality(U) /\ Cardinality(T) = c + 1
    <3>1. IsFiniteSet(U) /\ Cardinality(U) = Cardinality(T) - 1
      BY <2>5, <2>6, FS_RemoveElement
    <3> QED BY <2>5, <3>1, FS_CardinalityType
  <2>10. f \in [1..c -> U] /\ \A i, j \in 1..c : i < j => f[i] < f[j]
    BY <2>8, <2>9 DEF Lists
  <2>11. PICK h : h = [i \in 1..(c + 1) |-> IF i = c + 1 THEN m ELSE f[i]]
    OBVIOUS
  <2>12. h[c + 1] = m /\ \A i \in 1..c : h[i] = f[i] /\ f[i] \in U /\ f[i] < m /\ f[i] \in Int
    <3>1. h[c + 1] = m
      BY <2>11
    <3>2. ASSUME NEW i \in 1..c PROVE h[i] = f[i] /\ f[i] \in U
      BY <2>10, <2>11
    <3>3. \A u \in U : u \in Int /\ u < m
      BY <2>3, <2>7
    <3> QED BY <3>1, <3>2, <3>3
  <2>13. h \in [1..(c + 1) -> T]
    <3>1. \A i \in 1..(c + 1) : i = c + 1 \/ i \in 1..c
      OBVIOUS
    <3>2. \A i \in 1..(c + 1) : h[i] \in T
      BY <2>5, <2>7, <2>12, <3>1
    <3> QED BY <2>11, <3>2
  <2>14. ASSUME NEW i \in 1..(c + 1), NEW j \in 1..(c + 1), i < j PROVE h[i] < h[j]
    <3>1. i \in 1..c
      BY <2>14
    <3>2. CASE j = c + 1
      BY <2>12, <3>1, <3>2
    <3>3. CASE j # c + 1
      <4>1. j \in 1..c
        BY <3>3
      <4> QED BY <2>10, <2>12, <2>14, <3>1, <4>1
    <3> QED BY <3>2, <3>3
  <2>15. Lists(h, T)
    BY <2>9, <2>13, <2>14 DEF Lists
  <2> QED BY <2>2, <2>15
<1>2. N \notin Bad
  BY <1>1
<1> QED BY <1>2

\* A member of a list has as many smaller ones as stand before it.
LEMMA RankInList ==
    ASSUME NEW N \in Nat, NEW S \in SUBSET (1..N), NEW f, Lists(f, S), NEW i \in 1..Cardinality(S)
    PROVE  Cardinality({y \in S : y < f[i]}) = i - 1
<1>0. IsFiniteSet(S) /\ Cardinality(S) \in Nat
  <2>1. IsFiniteSet(1..N)
    BY FS_Interval
  <2> QED BY <2>1, FS_Subset, FS_CardinalityType
<1>1. PICK n \in Nat : n = Cardinality(S)
  BY <1>0
<1>2. f \in [1..n -> S] /\ (\A a, b \in 1..n : a < b => f[a] < f[b]) /\ \A a \in 1..n : f[a] \in Int
  <2>1. f \in [1..n -> S] /\ \A a, b \in 1..n : a < b => f[a] < f[b]
    BY <1>1 DEF Lists
  <2>2. \A a \in 1..n : f[a] \in S
    BY <2>1
  <2>3. \A x \in S : x \in Int
    OBVIOUS
  <2> QED BY <2>1, <2>2, <2>3
<1>3. i \in 1..n
  BY <1>1
<1>4. f \in Surjection(1..n, S)
  <2>1. f \in Injection(1..n, S)
    BY <1>2 DEF Injection, IsInjective
  <2>2. IsFiniteSet(1..n) /\ Cardinality(1..n) = n
    BY FS_Interval
  <2> QED BY <1>0, <1>1, <2>1, <2>2, FS_Injection
<1> DEFINE Below == {y \in S : y < f[i]}
           g == [a \in 1..(i - 1) |-> f[a]]
<1>5. g \in [1..(i - 1) -> Below]
  <2>1. \A a \in 1..(i - 1) : a \in 1..n /\ a < i
    BY <1>3
  <2> QED BY <1>2, <1>3, <2>1
<1>6. ASSUME NEW y \in Below PROVE \E a \in 1..(i - 1) : g[a] = y
  <2>1. PICK a \in 1..n : f[a] = y
    BY <1>4 DEF Surjection
  <2>2. a < i
    BY <1>2, <1>3, <1>6, <2>1
  <2> QED BY <2>1, <2>2
<1>7. g \in Surjection(1..(i - 1), Below) /\ g \in Injection(1..(i - 1), Below)
  <2>1. \A a, b \in 1..(i - 1) : g[a] = g[b] => a = b
    BY <1>2, <1>3
  <2> HIDE DEF g, Below
  <2> QED BY <1>5, <1>6, <2>1 DEF Surjection, Injection, IsInjective
<1>8. IsFiniteSet(1..(i - 1)) /\ Cardinality(1..(i - 1)) = i - 1
  BY <1>3, FS_Interval
<1> HIDE DEF g, Below
<1>9. Cardinality(Below) = i - 1
  BY <1>7, <1>8, FS_Surjection
<1> QED BY <1>9 DEF Below

\* Ascending lists its set, each member once.
LEMMA AscendingLists ==
    ASSUME NEW N \in Nat, NEW S \in SUBSET (1..N)
    PROVE  \E n \in Nat :
              /\ n = Cardinality(S)
              /\ Ascending(S) \in [1..n -> S] /\ DOMAIN Ascending(S) = 1..n
              /\ \A i, j \in 1..n : i < j => Ascending(S)[i] < Ascending(S)[j]
              /\ \A i, j \in 1..n : Ascending(S)[i] = Ascending(S)[j] => i = j
              /\ \A x \in S : \E i \in 1..n : Ascending(S)[i] = x
<1>1. IsFiniteSet(S)
  <2>1. IsFiniteSet(1..N)
    BY FS_Interval
  <2> QED BY <2>1, FS_Subset
<1>2. PICK n \in Nat : n = Cardinality(S)
  BY <1>1, FS_CardinalityType
<1>3. PICK f : Lists(f, S)
  BY ListExists
<1>4. f \in [1..n -> S] /\ \A i, j \in 1..n : i < j => f[i] < f[j]
  BY <1>2, <1>3 DEF Lists
<1>5. \A i, j \in 1..n : f[i] = f[j] => i = j
  <2>1. \A i \in 1..n : f[i] \in 1..N
    BY <1>4
  <2> QED BY <1>4, <2>1
<1>6. f \in Surjection(1..n, S)
  <2>1. f \in Injection(1..n, S)
    <3>1. DOMAIN f = 1..n
      BY <1>4
    <3> QED BY <1>4, <1>5, <3>1 DEF Injection, IsInjective
  <2>2. Cardinality(1..n) = n /\ IsFiniteSet(1..n)
    BY FS_Interval
  <2> QED BY <1>1, <1>2, <2>1, <2>2, FS_Injection
<1>7. \A x \in S : \E i \in 1..n : f[i] = x
  BY <1>6 DEF Surjection
<1>8. Ascending(S) = f
  <2>1. \A i \in 1..n : Cardinality({y \in S : y < f[i]}) = i - 1
    BY <1>2, <1>3, RankInList
  <2>2. ASSUME NEW i \in 1..n
        PROVE  f[i] = CHOOSE x \in S : Cardinality({y \in S : y < x}) = i - 1
    <3>1. ASSUME NEW x \in S, Cardinality({y \in S : y < x}) = i - 1 PROVE x = f[i]
      <4>1. PICK j \in 1..n : f[j] = x
        BY <1>7
      <4>2. j - 1 = i - 1
        BY <2>1, <3>1, <4>1
      <4> QED BY <4>1, <4>2
    <3>2. f[i] \in S /\ Cardinality({y \in S : y < f[i]}) = i - 1
      BY <1>4, <2>1
    <3> DEFINE P(x) == Cardinality({y \in S : y < x}) = i - 1
    <3>3. f[i] \in S /\ P(f[i]) /\ \A x \in S : P(x) => x = f[i]
      BY <3>1, <3>2
    <3> HIDE DEF P
    <3>4. f[i] = CHOOSE x \in S : P(x)
      BY <3>3
    <3> QED BY <3>4 DEF P
  <2>3. f = [i \in 1..n |-> CHOOSE x \in S : Cardinality({y \in S : y < x}) = i - 1]
    BY <1>4, <2>2
  <2> QED BY <1>2, <2>3 DEF Ascending
<1>9. DOMAIN f = 1..n
  BY <1>4
<1> QED BY <1>2, <1>4, <1>5, <1>7, <1>8, <1>9

\* There is one ascending list of a set.
LEMMA ListUnique ==
    ASSUME NEW n \in Nat, NEW S \in SUBSET Int, NEW f \in [1..n -> S], NEW g \in [1..n -> S],
           \A i, j \in 1..n : i < j => f[i] < f[j],
           \A i, j \in 1..n : i < j => g[i] < g[j],
           \A x \in S : \E i \in 1..n : f[i] = x,
           \A x \in S : \E i \in 1..n : g[i] = x
    PROVE  f = g
<1> DEFINE Bad == {i \in 1..n : f[i] # g[i]}
<1>1. ASSUME Bad # {} PROVE FALSE
  <2>1. PICK m \in Bad : \A i \in Bad : m <= i
    <3>1. Bad \subseteq Nat
      OBVIOUS
    <3> HIDE DEF Bad
    <3> QED BY <1>1, <3>1, LeastNatural
  <2>2. m \in 1..n /\ f[m] # g[m] /\ \A i \in 1..n : i < m => f[i] = g[i]
    BY <2>1
  <2>3. \A i \in 1..n : f[i] \in Int /\ g[i] \in Int
    OBVIOUS
  <2>4. PICK j \in 1..n : g[j] = f[m]
    BY <2>2
  <2>5. PICK i \in 1..n : f[i] = g[m]
    BY <2>2
  <2>6. m < j /\ m < i
    <3> HIDE DEF Bad
    <3>1. j < m => f[j] = f[m] /\ f[j] < f[m] /\ f[m] \in Int
      BY <2>2, <2>3, <2>4
    <3>2. i < m => g[i] = g[m] /\ g[i] < g[m] /\ g[m] \in Int
      BY <2>2, <2>3, <2>5
    <3>3. j # m /\ i # m
      BY <2>2, <2>4, <2>5
    <3>4. ~ (j < m) /\ ~ (i < m)
      BY <3>1, <3>2
    <3>5. m \in Int /\ j \in Int /\ i \in Int
      BY <2>2
    <3> QED BY <3>3, <3>4, <3>5
  <2>7. g[m] < f[m] /\ f[m] < g[m]
    BY <2>2, <2>4, <2>5, <2>6
  <2> QED BY <2>2, <2>3, <2>7
<1>2. \A i \in 1..n : f[i] = g[i]
  BY <1>1
<1> QED BY <1>2

\* A position behind all others comes last.
LEMMA AscendingAppends ==
    ASSUME NEW N \in Nat, NEW S \in SUBSET (1..N), NEW T, T = S \cup {N + 1}
    PROVE  \E n \in Nat :
              /\ n = Cardinality(S) /\ DOMAIN Ascending(S) = 1..n /\ DOMAIN Ascending(T) = 1..(n + 1)
              /\ Ascending(T)[n + 1] = N + 1
              /\ \A i \in 1..n : Ascending(T)[i] = Ascending(S)[i]
<1>1. PICK n \in Nat :
              /\ n = Cardinality(S)
              /\ Ascending(S) \in [1..n -> S] /\ DOMAIN Ascending(S) = 1..n
              /\ \A i, j \in 1..n : i < j => Ascending(S)[i] < Ascending(S)[j]
              /\ \A x \in S : \E i \in 1..n : Ascending(S)[i] = x
  BY AscendingLists
<1>2. Cardinality(T) = n + 1 /\ T \in SUBSET (1..(N + 1)) /\ N + 1 \in Nat
  <2>1. IsFiniteSet(S)
    <3>1. IsFiniteSet(1..N)
      BY FS_Interval
    <3> QED BY <3>1, FS_Subset
  <2>2. N + 1 \notin S
    OBVIOUS
  <2>3. Cardinality(S \cup {N + 1}) = Cardinality(S) + 1
    BY <2>1, <2>2, FS_AddElement
  <2>4. S \cup {N + 1} \in SUBSET (1..(N + 1)) /\ N + 1 \in Nat
    OBVIOUS
  <2> QED BY <1>1, <2>3, <2>4
<1>3. /\ Ascending(T) \in [1..(n + 1) -> T]
      /\ \A i, j \in 1..(n + 1) : i < j => Ascending(T)[i] < Ascending(T)[j]
      /\ \A x \in T : \E i \in 1..(n + 1) : Ascending(T)[i] = x
  <2>1. PICK p \in Nat :
              /\ p = Cardinality(T)
              /\ Ascending(T) \in [1..p -> T] /\ DOMAIN Ascending(T) = 1..p
              /\ \A i, j \in 1..p : i < j => Ascending(T)[i] < Ascending(T)[j]
              /\ \A i, j \in 1..p : Ascending(T)[i] = Ascending(T)[j] => i = j
              /\ \A x \in T : \E i \in 1..p : Ascending(T)[i] = x
    <3>1. PICK M \in Nat : M = N + 1
      BY <1>2
    <3>2. T \in SUBSET (1..M)
      BY <1>2, <3>1
    <3>3. ASSUME NEW U \in SUBSET (1..M)
          PROVE  \E p \in Nat :
              /\ p = Cardinality(U)
              /\ Ascending(U) \in [1..p -> U] /\ DOMAIN Ascending(U) = 1..p
              /\ \A i, j \in 1..p : i < j => Ascending(U)[i] < Ascending(U)[j]
              /\ \A i, j \in 1..p : Ascending(U)[i] = Ascending(U)[j] => i = j
              /\ \A x \in U : \E i \in 1..p : Ascending(U)[i] = x
      BY AscendingLists
    <3> QED BY <3>2, <3>3
  <2>2. p = n + 1
    BY <1>2, <2>1
  <2> QED BY <2>1, <2>2
<1> DEFINE g == [i \in 1..(n + 1) |-> IF i = n + 1 THEN N + 1 ELSE Ascending(S)[i]]
<1>4. g[n + 1] = N + 1 /\ \A i \in 1..n : g[i] = Ascending(S)[i] /\ g[i] \in S /\ g[i] < N + 1
  <2>1. \A i \in 1..n : Ascending(S)[i] \in S
    BY <1>1
  <2>2. \A x \in S : x < N + 1
    OBVIOUS
  <2>3. g[n + 1] = N + 1
    OBVIOUS
  <2>4. \A i \in 1..n : g[i] = Ascending(S)[i]
    OBVIOUS
  <2> QED BY <2>1, <2>2, <2>3, <2>4
<1>5. \A i \in 1..(n + 1) : i = n + 1 \/ i \in 1..n
  OBVIOUS
<1>6. g \in [1..(n + 1) -> T]
  <2>1. \A i \in 1..(n + 1) : g[i] \in T
    BY <1>4, <1>5
  <2> QED BY <2>1
<1>7. \A i, j \in 1..(n + 1) : i < j => g[i] < g[j]
  <2> SUFFICES ASSUME NEW i \in 1..(n + 1), NEW j \in 1..(n + 1), i < j PROVE g[i] < g[j]
    OBVIOUS
  <2>1. i \in 1..n
    OBVIOUS
  <2>2. j \in 1..n \/ j = n + 1
    OBVIOUS
  <2> HIDE DEF g
  <2> QED BY <1>1, <1>4, <2>1, <2>2
<1>8. \A x \in T : \E i \in 1..(n + 1) : g[i] = x
  <2> SUFFICES ASSUME NEW x \in T PROVE \E i \in 1..(n + 1) : g[i] = x
    OBVIOUS
  <2>1. CASE x = N + 1
    BY <1>4, <2>1
  <2>2. CASE x \in S
    <3>1. PICK i \in 1..n : Ascending(S)[i] = x
      BY <1>1, <2>2
    <3>2. i \in 1..(n + 1) /\ g[i] = x
      BY <1>4, <3>1
    <3> QED BY <3>2
  <2> QED BY <2>1, <2>2
<1> HIDE DEF g
<1>9. Ascending(T) = g
  <2>1. n + 1 \in Nat /\ T \in SUBSET Int
    BY <1>2
  <2>2. PICK p \in Nat : p = n + 1
    BY <2>1
  <2>3. /\ Ascending(T) \in [1..p -> T]
        /\ \A i, j \in 1..p : i < j => Ascending(T)[i] < Ascending(T)[j]
        /\ \A x \in T : \E i \in 1..p : Ascending(T)[i] = x
    BY <1>3, <2>2
  <2>4. g \in [1..p -> T] /\ (\A i, j \in 1..p : i < j => g[i] < g[j]) /\ \A x \in T : \E i \in 1..p : g[i] = x
    BY <1>6, <1>7, <1>8, <2>2
  <2> QED BY <2>1, <2>3, <2>4, ListUnique
<1> QED BY <1>1, <1>3, <1>4, <1>9

-----------------------------------------------------------------------------
(* Greatest and least *)

\* A function of integers on a finite set that is not empty has a greatest value.
LEMMA Greatest ==
    ASSUME NEW S, IsFiniteSet(S), S # {}, NEW v \in [S -> Int]
    PROVE  \E x \in S : \A y \in S : v[y] <= v[x]
<1>1. PICK n \in Nat : \E f : f \in Bijection(1..n, S)
  BY FS_CardinalityType DEF ExistsBijection
<1>2. PICK f : f \in [1..n -> S] /\ \A y \in S : \E i \in 1..n : f[i] = y
  BY <1>1 DEF Bijection, Surjection
<1>3. n # 0
  BY <1>2
<1> DEFINE Top(m) == \E i \in 1..m : \A j \in 1..m : v[f[j]] <= v[f[i]]
           Bad == {m \in 1..n : ~ Top(m)}
<1>4. ASSUME Bad # {} PROVE FALSE
  <2>1. PICK m \in Bad : \A i \in Bad : m <= i
    <3>1. Bad \subseteq Nat
      OBVIOUS
    <3> HIDE DEF Bad
    <3> QED BY <1>4, <3>1, LeastNatural
  <2>2. m \in 1..n /\ ~ Top(m)
    BY <2>1
  <2>3. \A i \in 1..n : v[f[i]] \in Int
    BY <1>2
  <2>4. m # 1
    <3>1. v[f[1]] <= v[f[1]]
      BY <1>3, <2>3
    <3>2. Top(1)
      BY <3>1
    <3> QED BY <2>2, <3>2
  <2>5. Top(m - 1)
    <3>1. m - 1 \in 1..n /\ m \in Int
      BY <2>2, <2>4
    <3>2. m - 1 \notin Bad
      <4> HIDE DEF Bad
      <4> QED BY <2>1, <3>1
    <3> QED BY <3>1, <3>2
  <2>6. PICK i \in 1..(m - 1) : \A j \in 1..(m - 1) : v[f[j]] <= v[f[i]]
    BY <2>5
  <2>7. i \in 1..m /\ v[f[i]] \in Int /\ v[f[m]] \in Int /\ m \in 1..m
    BY <2>2, <2>3
  <2>8. CASE v[f[m]] <= v[f[i]]
    <3>1. \A j \in 1..m : v[f[j]] <= v[f[i]]
      BY <2>2, <2>6, <2>8
    <3> QED BY <2>2, <2>7, <3>1
  <2>9. CASE v[f[i]] < v[f[m]]
    <3>1. \A j \in 1..m : v[f[j]] <= v[f[m]]
      BY <2>2, <2>3, <2>6, <2>7, <2>9
    <3> QED BY <2>2, <2>7, <3>1
  <2> QED BY <2>7, <2>8, <2>9
<1>5. Top(n)
  <2>1. n \in 1..n /\ Bad = {}
    BY <1>3, <1>4
  <2> HIDE DEF Top
  <2> QED BY <2>1
<1>6. PICK i \in 1..n : \A j \in 1..n : v[f[j]] <= v[f[i]]
  BY <1>5
<1>7. f[i] \in S /\ \A y \in S : v[y] <= v[f[i]]
  BY <1>2, <1>6
<1> QED BY <1>7

\* A finite set of integers that is not empty has a greatest and a least member.
LEMMA GreatestAndLeast ==
    ASSUME NEW S, S \subseteq Int, IsFiniteSet(S), S # {}
    PROVE  /\ \E x \in S : \A y \in S : y <= x
           /\ \E x \in S : \A y \in S : x <= y
<1>1. \E x \in S : \A y \in S : y <= x
  <2> DEFINE v == [x \in S |-> x]
  <2>1. v \in [S -> Int]
    OBVIOUS
  <2>2. \A x \in S : v[x] = x
    OBVIOUS
  <2> HIDE DEF v
  <2>3. \E x \in S : \A y \in S : v[y] <= v[x]
    BY <2>1, Greatest
  <2> QED BY <2>2, <2>3
<1>2. \E x \in S : \A y \in S : x <= y
  <2> DEFINE v == [x \in S |-> -x]
  <2>1. v \in [S -> Int]
    OBVIOUS
  <2>2. \A x \in S : v[x] = -x /\ x \in Int
    OBVIOUS
  <2> HIDE DEF v
  <2>3. PICK x \in S : \A y \in S : v[y] <= v[x]
    BY <2>1, Greatest
  <2>4. \A y \in S : x <= y
    BY <2>2, <2>3
  <2> QED BY <2>4
<1> QED BY <1>1, <1>2

=============================================================================
