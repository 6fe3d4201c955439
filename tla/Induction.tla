------------------------------- MODULE Induction -------------------------------
(***************************************************************************)
(* Induction over the subsets of a finite set, over the natural numbers    *)
(* and along a measure, and the functions that recursion along a measure   *)
(* defines: the equation of f[x \in S] == ... f ... says what f is only if  *)
(* some function satisfies it.                                             *)
(*                                                                         *)
(* All of it is stated of sets and functions in place of predicates and    *)
(* operators: a lemma that has no operator for parameter is one the        *)
(* provers can use.                                                        *)
(***************************************************************************)
EXTENDS Integers, FiniteSets, FiniteSetTheorems, WellFoundedInduction, TLAPS

\* Among some subsets of a finite set one is smallest.
LEMMA SmallestSubset ==
    ASSUME NEW A, IsFiniteSet(A), NEW S, S \subseteq SUBSET A, S # {}
    PROVE  \E T \in S : \A U \in S : U \subseteq T => U = T
<1>1. IsWellFoundedOn(StrictSubsetOrdering(A), SUBSET A)
  BY FS_StrictSubsetOrderingWellFounded, FS_FiniteSubsetsOfFinite
<1>2. PICK T \in S : \A U \in S : ~(<<U, T>> \in StrictSubsetOrdering(A))
  BY <1>1, WFMin
<1>3. \A U \in S : U \subseteq T => U = T
  BY <1>2 DEF StrictSubsetOrdering
<1> QED BY <1>3

LEMMA SmallestNat ==
    ASSUME NEW S, S \subseteq Nat, S # {}
    PROVE  \E n \in S : \A m \in S : n <= m
<1>1. PICK b \in S : TRUE
  OBVIOUS
<1> DEFINE C == {n \in S : n <= b}
           F == {0..k : k \in C}
<1>2. b \in C /\ \A k \in C : k \in S /\ k \in Nat /\ 0..k \subseteq 0..b
  BY <1>1
<1>3. \E T \in F : \A U \in F : U \subseteq T => U = T
  <2> HIDE DEF C
  <2>1. F \subseteq SUBSET (0..b)
    BY <1>2
  <2>2. F # {}
    BY <1>2
  <2>3. IsFiniteSet(0..b)
    BY <1>1, FS_Interval
  <2> DEFINE A == 0..b
  <2> HIDE DEF F, A
  <2>4. IsFiniteSet(A) /\ F \subseteq SUBSET A
    BY <2>1, <2>3 DEF A
  <2> QED BY <2>2, <2>4, SmallestSubset
<1>4. PICK n \in C : \A m \in C : 0..m \subseteq 0..n => 0..m = 0..n
  <2> HIDE DEF C
  <2>1. PICK T \in F : \A U \in F : U \subseteq T => U = T
    BY <1>3
  <2>2. PICK n \in C : T = 0..n
    BY <2>1
  <2>3. \A m \in C : 0..m \in F
    OBVIOUS
  <2> HIDE DEF F
  <2> QED BY <2>1, <2>2, <2>3
<1>5. ASSUME NEW m \in S PROVE n <= m
  <2> SUFFICES ASSUME m < n PROVE FALSE
    BY <1>2
  <2>1. m \in C /\ 0..m \subseteq 0..n
    BY <1>2
  <2>2. 0..m = 0..n
    BY <1>4, <2>1
  <2>3. n \in 0..n /\ n \notin 0..m
    BY <1>2
  <2> QED BY <2>2, <2>3
<1> QED BY <1>2, <1>5

LEMMA NatIsAll ==
    ASSUME NEW S, 0 \in S, \A n \in Nat : n \in S => n + 1 \in S
    PROVE  Nat \subseteq S
<1> SUFFICES ASSUME Nat \ S # {} PROVE FALSE
  OBVIOUS
<1>1. PICK n \in Nat \ S : \A m \in Nat \ S : n <= m
  BY SmallestNat
<1>2. n # 0 /\ n - 1 \in Nat
  BY <1>1
<1>3. n - 1 \in S
  BY <1>1, <1>2
<1>4. (n - 1) + 1 \in S
  BY <1>2, <1>3
<1> QED BY <1>1, <1>4

\* What holds of an element as soon as it holds of all that measure less holds of all.
LEMMA ByMeasure ==
    ASSUME NEW D, NEW m \in [D -> Nat], NEW S,
           \A s \in D : (\A t \in D : m[t] < m[s] => t \in S) => s \in S
    PROVE  D \subseteq S
<1> DEFINE N == {m[s] : s \in D \ S}
<1> SUFFICES ASSUME D \ S # {} PROVE FALSE
  OBVIOUS
<1>1. N \subseteq Nat /\ N # {}
  OBVIOUS
<1>2. PICK n \in N : \A k \in N : n <= k
  <2> HIDE DEF N
  <2> QED BY <1>1, SmallestNat
<1>3. PICK s \in D \ S : n = m[s]
  BY <1>2
<1>4. \A t \in D : m[t] < m[s] => t \in S
  <2> SUFFICES ASSUME NEW t \in D, m[t] < m[s], t \notin S PROVE FALSE
    OBVIOUS
  <2>1. m[t] \in N /\ m[s] \in Nat /\ m[t] \in Nat
    BY <1>3
  <2> HIDE DEF N
  <2>2. m[s] <= m[t]
    BY <1>2, <1>3, <2>1
  <2> QED BY <2>1, <2>2
<1> QED BY <1>3, <1>4

\* The definition g[s \in D] == H[s][g] of a function with values in V: the value
\* at s depends on what g is where m measures less.
Recursive(D, V, m, H) ==
    /\ V # {} /\ m \in [D -> Nat]
    /\ H \in [D -> [[D -> V] -> V]]
    /\ \A s \in D : \A g, h \in [D -> V] :
          (\A t \in D : m[t] < m[s] => g[t] = h[t]) => H[s][g] = H[s][h]

Solves(g, D, H) == \A s \in D : g[s] = H[s][g]

\* ... where m measures less than n.
SolvesBelow(n, g, D, m, H) == \A s \in D : m[s] < n => g[s] = H[s][g]

\* Up to each measure there is a solution,
LEMMA RecursionBelow ==
    ASSUME NEW D, NEW V, NEW m, NEW H, Recursive(D, V, m, H), NEW N \in Nat
    PROVE  \E g \in [D -> V] : SolvesBelow(N, g, D, m, H)
<1>01. PICK v \in V : TRUE
  BY DEF Recursive
<1>02. m \in [D -> Nat] /\ H \in [D -> [[D -> V] -> V]]
  BY DEF Recursive
<1> DEFINE Upto(n, g) == SolvesBelow(n, g, D, m, H)
           S == {n \in Nat : \E g \in [D -> V] : Upto(n, g)}
<1>0. \A s \in D : m[s] \in Nat /\ \A g \in [D -> V] : H[s][g] \in V
  BY <1>02
<1>1. 0 \in S
  <2>1. [s \in D |-> v] \in [D -> V]
    BY <1>01
  <2>2. \A s \in D : ~(m[s] < 0)
    BY <1>0
  <2> QED BY <2>1, <2>2 DEF SolvesBelow
<1>2. ASSUME NEW n \in Nat, n \in S PROVE n + 1 \in S
  <2>1. PICK g \in [D -> V] : Upto(n, g)
    BY <1>2
  <2> DEFINE h == [s \in D |-> IF m[s] < n THEN g[s] ELSE H[s][g]]
  <2>2. h \in [D -> V]
    BY <1>0
  <2>3. ASSUME NEW s \in D, m[s] < n + 1 PROVE h[s] = H[s][h]
    <3>1. ASSUME NEW t \in D, m[t] < m[s] PROVE h[t] = g[t]
      <4>1. m[t] < n
        BY <1>0, <2>3, <3>1
      <4> QED BY <4>1
    <3>2. h[s] = H[s][g]
      BY <2>1 DEF SolvesBelow
    <3> HIDE DEF h
    <3>3. H[s][h] = H[s][g]
      BY <2>2, <3>1 DEF Recursive
    <3> QED BY <3>2, <3>3
  <2> HIDE DEF h
  <2>4. Upto(n + 1, h)
    BY <2>3 DEF SolvesBelow
  <2>5. \E f \in [D -> V] : Upto(n + 1, f)
    BY <2>2, <2>4
  <2>6. n + 1 \in Nat
    BY <1>2
  <2> HIDE DEF Upto
  <2> QED BY <2>5, <2>6
<1>3. N \in S
  <2> HIDE DEF S
  <2> QED BY <1>1, <1>2, NatIsAll
<1> QED BY <1>3

\* ... and only one.
LEMMA RecursionUnique ==
    ASSUME NEW D, NEW V, NEW m, NEW H, Recursive(D, V, m, H), NEW k \in Nat, NEW n \in Nat, k <= n,
           NEW g \in [D -> V], NEW h \in [D -> V],
           SolvesBelow(k, g, D, m, H), SolvesBelow(n, h, D, m, H)
    PROVE  \A s \in D : m[s] < k => g[s] = h[s]
<1> DEFINE S == {s \in D : m[s] < k => g[s] = h[s]}
<1>1. m \in [D -> Nat]
  BY DEF Recursive
<1>2. ASSUME NEW s \in D, \A t \in D : m[t] < m[s] => t \in S PROVE s \in S
  <2> SUFFICES ASSUME m[s] < k PROVE g[s] = h[s]
    OBVIOUS
  <2>1. ASSUME NEW t \in D, m[t] < m[s] PROVE g[t] = h[t]
    <3>1. m[t] < k
      BY <1>1, <2>1
    <3>2. t \in S
      BY <1>2, <2>1
    <3> QED BY <3>1, <3>2
  <2>2. H[s][g] = H[s][h]
    BY <2>1 DEF Recursive
  <2>3. m[s] < n
    BY <1>1
  <2> QED BY <2>2, <2>3 DEF SolvesBelow
<1>3. D \subseteq S
  <2> HIDE DEF S
  <2> QED BY <1>1, <1>2, ByMeasure
<1> QED BY <1>3

\* Such a definition has a solution.
LEMMA RecursionSolved ==
    ASSUME NEW D, NEW V, NEW m, NEW H, Recursive(D, V, m, H)
    PROVE  \E g \in [D -> V] : Solves(g, D, H)
<1> DEFINE G == [n \in Nat |-> CHOOSE g \in [D -> V] : SolvesBelow(n, g, D, m, H)]
           f == [s \in D |-> G[m[s] + 1][s]]
<1>1. \A n \in Nat : G[n] \in [D -> V] /\ SolvesBelow(n, G[n], D, m, H)
  BY RecursionBelow
<1>2. \A s \in D : m[s] \in Nat /\ m[s] + 1 \in Nat
  BY DEF Recursive
<1> HIDE DEF G
<1>3. f \in [D -> V]
  BY <1>1, <1>2
<1>4. ASSUME NEW s \in D PROVE f[s] = H[s][f]
  <2> DEFINE g == G[m[s] + 1]
  <2>1. g \in [D -> V] /\ SolvesBelow(m[s] + 1, g, D, m, H)
    BY <1>1, <1>2
  <2>2. ASSUME NEW t \in D, m[t] < m[s] PROVE f[t] = g[t]
    <3> DEFINE h == G[m[t] + 1]
    <3>1. h \in [D -> V] /\ SolvesBelow(m[t] + 1, h, D, m, H)
      BY <1>1, <1>2
    <3>2. m[t] + 1 \in Nat /\ m[s] + 1 \in Nat /\ m[t] + 1 <= m[s] + 1 /\ m[t] < m[t] + 1
      BY <1>2, <2>2
    <3>3. f[t] = h[t]
      OBVIOUS
    <3> HIDE DEF g, h, f
    <3>4. h[t] = g[t]
      BY <2>1, <3>1, <3>2, RecursionUnique
    <3> QED BY <3>3, <3>4
  <2>3. f[s] = g[s]
    OBVIOUS
  <2> HIDE DEF f, g
  <2>4. g[s] = H[s][g]
    BY <1>2, <2>1 DEF SolvesBelow
  <2>5. H[s][f] = H[s][g]
    BY <1>3, <2>1, <2>2 DEF Recursive
  <2> QED BY <2>3, <2>4, <2>5
<1> HIDE DEF f
<1> QED BY <1>3, <1>4 DEF Solves

\* N values after c, each made of the one before.
Stepwise(N, V, c, G) == N \in Nat /\ c \in V /\ G \in [1..N -> [V -> V]]

LEMMA Iterated ==
    ASSUME NEW N, NEW V, NEW c, NEW G, Stepwise(N, V, c, G)
    PROVE  \E f \in [0..N -> V] : f[0] = c /\ \A n \in 1..N : f[n] = G[n][f[n - 1]]
<1>0. N \in Nat /\ c \in V /\ G \in [1..N -> [V -> V]]
  BY DEF Stepwise
<1> DEFINE D == 0..N
           m == [n \in D |-> n]
           H == [n \in D |-> [g \in [D -> V] |-> IF n = 0 THEN c ELSE G[n][g[n - 1]]]]
<1>1. \A n \in D : n \in Nat /\ (n # 0 => n \in 1..N /\ n - 1 \in D /\ n - 1 < n)
  BY <1>0
<1>2. m \in [D -> Nat]
  BY <1>1
<1>3. H \in [D -> [[D -> V] -> V]]
  <2> HIDE DEF D
  <2>1. ASSUME NEW n \in D, NEW g \in [D -> V]
        PROVE  (IF n = 0 THEN c ELSE G[n][g[n - 1]]) \in V
    <3>1. CASE n # 0
      <4>1. g[n - 1] \in V /\ G[n] \in [V -> V]
        BY <1>0, <1>1, <3>1
      <4> QED BY <3>1, <4>1
    <3> QED BY <1>0, <3>1
  <2> QED BY <2>1
<1>4. ASSUME NEW n \in D, NEW g \in [D -> V], NEW h \in [D -> V],
             \A k \in D : m[k] < m[n] => g[k] = h[k]
      PROVE  H[n][g] = H[n][h]
  <2>1. n # 0 => g[n - 1] = h[n - 1]
    BY <1>1, <1>4
  <2> HIDE DEF D
  <2> QED BY <2>1
<1>5. PICK f \in [D -> V] : Solves(f, D, H)
  <2> HIDE DEF D, m, H
  <2>1. Recursive(D, V, m, H)
    BY <1>0, <1>2, <1>3, <1>4 DEF Recursive
  <2> QED BY <2>1, RecursionSolved
<1>6. ASSUME NEW n \in D PROVE f[n] = IF n = 0 THEN c ELSE G[n][f[n - 1]]
  <2> HIDE DEF D
  <2> QED BY <1>5 DEF Solves
<1>7. 0 \in D /\ 1..N \subseteq D /\ \A n \in 1..N : n # 0
  BY <1>0
<1> HIDE DEF D
<1>8. f[0] = c /\ \A n \in 1..N : f[n] = G[n][f[n - 1]]
  BY <1>6, <1>7
<1> QED BY <1>8 DEF D
===============================================================================
