-------------------------- MODULE AnalyticsProofs --------------------------
(***************************************************************************)
(* Proofs about what the API answers from the pass table, for tables,      *)
(* fans, tiers and clocks of any size: the access routes agree, a content  *)
(* token outlives its pass by no more than its life, paging misses no pass *)
(* that was stored when it began, and the figures add up.                  *)
(* The figures are sums that the folds of the community modules compute by *)
(* a recursive function.  The first part derives the rules of such sums:   *)
(* that the recursion has a solution and only one, and that the order of   *)
(* the elements is irrelevant.  Induction itself is derived from the       *)
(* cardinality of finite sets.                                             *)
(***************************************************************************)
EXTENDS Analytics, FiniteSetTheorems, TLAPS

-----------------------------------------------------------------------------
(* Induction, and sums over finite sets.                                   *)

\* Were m not in S, the numbers up to m that are not would be closed under taking one
\* away: a finite set with a proper part of its own size.
LEMMA SetInduction ==
    ASSUME NEW S, 0 \in S, \A n \in Nat : n \in S => n + 1 \in S, NEW m \in Nat
    PROVE  m \in S
  <1> DEFINE T == {n \in 0..m : n \notin S}
             P == {n - 1 : n \in T}
  <1> SUFFICES ASSUME m \notin S PROVE FALSE
    OBVIOUS
  <1>1. IsFiniteSet(T)
    <2>1. T \in SUBSET (0..m)
      OBVIOUS
    <2>2. IsFiniteSet(0..m)
      BY FS_Interval
    <2>3. QED BY <2>1, <2>2, FS_Subset
  <1>2. P \subseteq T
    BY SMT
  <1>3. IsFiniteSet(P) /\ Cardinality(P) = Cardinality(T)
    <2> DEFINE g == [n \in T |-> n - 1]
    <2>1. g \in Bijection(T, P)
      BY DEF Bijection, Injection, Surjection, IsInjective
    <2>2. ExistsBijection(T, P)
      BY <2>1 DEF ExistsBijection
    <2> HIDE DEF T, P, g
    <2>3. QED BY <1>1, <2>2, FS_Bijection
  <1>4. P = T
    BY <1>1, <1>2, <1>3, FS_Subset
  <1>5. m \in P
    BY <1>4
  <1>6. QED BY <1>5

\* What holds of the empty set, and of a set with one more element when it holds of the
\* set, holds of every finite set.
LEMMA SubsetInduction ==
    ASSUME NEW U, IsFiniteSet(U), NEW G \in SUBSET (SUBSET U), {} \in G,
           \A T \in G : \A x \in U \ T : T \cup {x} \in G
    PROVE  U \in G
  <1> DEFINE N == {n \in Nat : \A T \in SUBSET U : Cardinality(T) = n => T \in G}
  <1>1. \A T \in SUBSET U : IsFiniteSet(T) /\ Cardinality(T) \in Nat
    BY FS_Subset, FS_CardinalityType
  <1>2. 0 \in N
    BY <1>1, FS_EmptySet
  <1>3. ASSUME NEW n \in Nat, n \in N PROVE n + 1 \in N
    <2> SUFFICES ASSUME NEW T \in SUBSET U, Cardinality(T) = n + 1 PROVE T \in G
      BY <1>3
    <2>1. T # {}
      <3>1. Cardinality({}) = 0 /\ n + 1 # 0
        BY FS_EmptySet
      <3>2. QED BY <3>1
    <2>2. PICK x \in T : TRUE
      BY <2>1
    <2>3. Cardinality(T \ {x}) = n
      BY <1>1, <2>2, FS_RemoveElement
    <2>4. T \ {x} \in G
      BY <1>3, <2>3
    <2>5. x \in U \ (T \ {x}) /\ (T \ {x}) \cup {x} = T
      BY <2>2
    <2>6. QED BY <2>4, <2>5
  <1>4. Cardinality(U) \in Nat
    BY FS_CardinalityType
  <1>5. \A n \in Nat : n \in N => n + 1 \in N
    BY <1>3
  <1> HIDE DEF N
  <1>6. Cardinality(U) \in N
    BY <1>2, <1>4, <1>5, SetInduction
  <1>7. QED BY <1>6 DEF N

Pick(s) == CHOOSE x \in s : TRUE

\* g holds the sums of c over the subsets of T.
Sums(c, g, T) ==
    g = [s \in SUBSET T |-> IF s = {} THEN 0 ELSE c[Pick(s)] + g[s \ {Pick(s)}]]

LEMMA PickIn == \A s : s # {} => Pick(s) \in s
  BY DEF Pick

LEMMA SumsExist ==
    ASSUME NEW U, IsFiniteSet(U), NEW c \in [U -> Int]
    PROVE  \E g \in [SUBSET U -> Int] : Sums(c, g, U)
  <1> DEFINE Lev(n) == {s \in SUBSET U : Cardinality(s) <= n}
             Step(h, s) == IF s = {} THEN 0 ELSE c[Pick(s)] + h[s \ {Pick(s)}]
             N == {n \in Nat : \E h \in [Lev(n) -> Int] : \A s \in Lev(n) : h[s] = Step(h, s)}
  <1>1. \A T \in SUBSET U : IsFiniteSet(T) /\ Cardinality(T) \in Nat
    BY FS_Subset, FS_CardinalityType
  <1>2. 0 \in N
    <2>1. \A s \in Lev(0) : s = {}
      BY <1>1, FS_EmptySet
    <2> DEFINE h == [s \in Lev(0) |-> 0]
    <2>2. h \in [Lev(0) -> Int] /\ \A s \in Lev(0) : h[s] = Step(h, s)
      BY <2>1
    <2>3. QED BY <2>2
  <1>3. ASSUME NEW n \in Nat, n \in N PROVE n + 1 \in N
    <2>1. PICK h \in [Lev(n) -> Int] : \A s \in Lev(n) : h[s] = Step(h, s)
      BY <1>3
    <2> DEFINE k == [s \in Lev(n + 1) |-> Step(h, s)]
    <2>2. ASSUME NEW s \in Lev(n + 1), s # {}
          PROVE  Pick(s) \in U /\ s \ {Pick(s)} \in Lev(n) /\ s \ {Pick(s)} \in Lev(n + 1)
      <3>1. Pick(s) \in s
        BY <2>2, PickIn
      <3>2. Cardinality(s \ {Pick(s)}) = Cardinality(s) - 1
        BY <1>1, <3>1, FS_RemoveElement
      <3>3. QED BY <1>1, <3>1, <3>2
    <2>3. k \in [Lev(n + 1) -> Int]
      BY <2>2
    <2>4. ASSUME NEW s \in Lev(n + 1) PROVE k[s] = Step(k, s)
      <3>1. \A t \in Lev(n) : t \in Lev(n + 1)
        BY <1>1
      <3>2. \A t \in Lev(n) : k[t] = h[t]
        BY <2>1, <3>1
      <3>3. QED BY <2>2, <3>2
    <2> HIDE DEF k
    <2>5. \E f \in [Lev(n + 1) -> Int] : \A s \in Lev(n + 1) : f[s] = Step(f, s)
      BY <2>3, <2>4
    <2> HIDE DEF Lev, Step
    <2>6. n + 1 \in Nat
      OBVIOUS
    <2>7. QED BY <2>5, <2>6, Zenon
  <1>4. Cardinality(U) \in Nat
    BY FS_CardinalityType
  <1>5. Lev(Cardinality(U)) = SUBSET U
    BY FS_Subset
  <1>6. \A n \in Nat : n \in N => n + 1 \in N
    BY <1>3
  <1> HIDE DEF N
  <1>7. Cardinality(U) \in N
    BY <1>2, <1>4, <1>6, SetInduction
  <1>8. PICK g \in [SUBSET U -> Int] : \A s \in SUBSET U : g[s] = Step(g, s)
    BY <1>5, <1>7 DEF N
  <1>9. g = [s \in SUBSET U |-> Step(g, s)]
    BY <1>8
  <1>10. QED BY <1>9 DEF Sums

LEMMA SumsGiveSum ==
    ASSUME NEW U, IsFiniteSet(U), NEW c \in [U -> Int],
           NEW g \in [SUBSET U -> Int], Sums(c, g, U), NEW T \in SUBSET U
    PROVE  SumFunctionOnSet(c, T) = g[T]
  <1> DEFINE h == CHOOSE h : Sums(c, h, T)
  <1>1. SumFunctionOnSet(c, T) = h[T]
    BY DEF SumFunctionOnSet, FoldFunctionOnSet, MapThenFoldSet, Sums, Pick
  <1>2. \A s \in SUBSET U : g[s] = IF s = {} THEN 0 ELSE c[Pick(s)] + g[s \ {Pick(s)}]
    BY DEF Sums
  <1>3. Sums(c, [s \in SUBSET T |-> g[s]], T)
    <2> DEFINE k == [s \in SUBSET T |-> g[s]]
    <2>1. \A s \in SUBSET T : k[s] = IF s = {} THEN 0 ELSE c[Pick(s)] + k[s \ {Pick(s)}]
      BY <1>2
    <2>2. k = [s \in SUBSET T |-> IF s = {} THEN 0 ELSE c[Pick(s)] + k[s \ {Pick(s)}]]
      BY <2>1
    <2>3. QED BY <2>2 DEF Sums
  <1>4. Sums(c, h, T)
    BY <1>3
  <1> HIDE DEF h
  <1>5. \A s \in SUBSET T : h[s] = IF s = {} THEN 0 ELSE c[Pick(s)] + h[s \ {Pick(s)}]
    BY <1>4 DEF Sums
  <1> DEFINE N == {n \in Nat : \A s \in SUBSET T : Cardinality(s) <= n => h[s] = g[s]}
  <1>6. \A s \in SUBSET T : IsFiniteSet(s) /\ Cardinality(s) \in Nat
    BY FS_Subset, FS_CardinalityType
  <1>7. 0 \in N
    <2>1. \A s \in SUBSET T : Cardinality(s) <= 0 => s = {}
      BY <1>6, FS_EmptySet
    <2>2. h[{}] = 0 /\ g[{}] = 0
      BY <1>2, <1>5
    <2>3. QED BY <2>1, <2>2
  <1>8. ASSUME NEW n \in Nat, n \in N PROVE n + 1 \in N
    <2>1. ASSUME NEW s \in SUBSET T, Cardinality(s) <= n + 1, s # {} PROVE h[s] = g[s]
      <3>1. Pick(s) \in s
        BY <2>1, PickIn
      <3>2. Cardinality(s \ {Pick(s)}) = Cardinality(s) - 1
        BY <1>6, <3>1, FS_RemoveElement
      <3>3. h[s \ {Pick(s)}] = g[s \ {Pick(s)}]
        BY <1>6, <1>8, <2>1, <3>2
      <3>4. h[s] = c[Pick(s)] + h[s \ {Pick(s)}] /\ g[s] = c[Pick(s)] + g[s \ {Pick(s)}]
        BY <1>2, <1>5, <2>1
      <3>5. QED BY <3>3, <3>4
    <2>2. h[{}] = g[{}]
      BY <1>2, <1>5
    <2>3. \A s \in SUBSET T : Cardinality(s) <= n + 1 => h[s] = g[s]
      BY <2>1, <2>2, Zenon
    <2>4. QED BY <2>3
  <1>9. \A n \in Nat : n \in N => n + 1 \in N
    BY <1>8
  <1> HIDE DEF N
  <1>10. Cardinality(T) \in N
    BY <1>6, <1>7, <1>9, SetInduction
  <1>11. h[T] = g[T]
    BY <1>6, <1>10 DEF N
  <1>12. QED BY <1>1, <1>11

\* The rules of sums over finite sets: any element may be taken out first.
LEMMA SumRules ==
    ASSUME NEW U, IsFiniteSet(U), NEW c \in [U -> Int]
    PROVE  /\ \A T \in SUBSET U : SumFunctionOnSet(c, T) \in Int
           /\ SumFunctionOnSet(c, {}) = 0
           /\ \A T \in SUBSET U : \A x \in T :
                 SumFunctionOnSet(c, T) = c[x] + SumFunctionOnSet(c, T \ {x})
  <1>1. PICK g \in [SUBSET U -> Int] : Sums(c, g, U)
    BY SumsExist
  <1>2. \A T \in SUBSET U : SumFunctionOnSet(c, T) = g[T]
    BY <1>1, SumsGiveSum
  <1>3. \A s \in SUBSET U : g[s] = IF s = {} THEN 0 ELSE c[Pick(s)] + g[s \ {Pick(s)}]
    BY <1>1 DEF Sums
  <1>4. \A T \in SUBSET U : IsFiniteSet(T) /\ Cardinality(T) \in Nat
    BY FS_Subset, FS_CardinalityType
  <1> DEFINE N == {n \in Nat : \A T \in SUBSET U : Cardinality(T) <= n =>
                                  \A x \in T : g[T] = c[x] + g[T \ {x}]}
  <1>5. 0 \in N
    BY <1>4, FS_EmptySet
  <1>6. ASSUME NEW n \in Nat, n \in N PROVE n + 1 \in N
    <2> SUFFICES ASSUME NEW T \in SUBSET U, Cardinality(T) <= n + 1, NEW x \in T
                 PROVE  g[T] = c[x] + g[T \ {x}]
      OBVIOUS
    <2> DEFINE y == Pick(T)
    <2>1. y \in T
      BY PickIn
    <2>2. g[T] = c[y] + g[T \ {y}]
      BY <1>3
    <2> HIDE DEF y
    <2>3. CASE x = y
      BY <2>2, <2>3
    <2>4. CASE x # y
      <3>1. Cardinality(T \ {y}) = Cardinality(T) - 1 /\ Cardinality(T \ {x}) = Cardinality(T) - 1
        BY <1>4, <2>1, FS_RemoveElement
      <3>2. Cardinality(T \ {y}) <= n /\ Cardinality(T \ {x}) <= n
        BY <1>4, <3>1
      <3>3. x \in T \ {y} /\ y \in T \ {x} /\ T \ {y} \in SUBSET U /\ T \ {x} \in SUBSET U
        BY <2>1, <2>4
      <3>4. g[T \ {y}] = c[x] + g[(T \ {y}) \ {x}]
        BY <1>6, <3>2, <3>3
      <3>5. g[T \ {x}] = c[y] + g[(T \ {x}) \ {y}]
        BY <1>6, <3>2, <3>3
      <3>6. (T \ {y}) \ {x} = (T \ {x}) \ {y} /\ (T \ {y}) \ {x} \in SUBSET U
        OBVIOUS
      <3>7. c[x] \in Int /\ c[y] \in Int /\ g[(T \ {y}) \ {x}] \in Int
        BY <2>1, <3>6
      <3> DEFINE v == g[(T \ {y}) \ {x}]
      <3>8. /\ g[T] = c[y] + g[T \ {y}] /\ g[T \ {y}] = c[x] + v
            /\ g[T \ {x}] = c[y] + v /\ v \in Int
        BY <2>2, <3>4, <3>5, <3>6, <3>7
      <3> HIDE DEF v
      <3>9. QED BY <3>7, <3>8
    <2>5. QED BY <2>3, <2>4
  <1>7. \A n \in Nat : n \in N => n + 1 \in N
    BY <1>6
  <1> HIDE DEF N
  <1>8. \A n \in Nat : n \in N
    BY <1>5, <1>7, SetInduction
  <1>9. \A T \in SUBSET U : \A x \in T : g[T] = c[x] + g[T \ {x}]
    <2> TAKE T \in SUBSET U
    <2>1. Cardinality(T) \in Nat /\ Cardinality(T) \in N
      BY <1>4, <1>8
    <2>2. QED BY <2>1 DEF N
  <1>10. QED BY SMTT(30), ZenonT(30), <1>2, <1>3, <1>9

\* The sum over a set depends on what is summed there alone.
LEMMA SumSame ==
    ASSUME NEW T, IsFiniteSet(T), NEW U, IsFiniteSet(U), NEW V, IsFiniteSet(V),
           T \subseteq U, T \subseteq V,
           NEW c \in [U -> Int], NEW d \in [V -> Int], \A x \in T : c[x] = d[x]
    PROVE  SumFunctionOnSet(c, T) = SumFunctionOnSet(d, T)
  <1> DEFINE G == {S \in SUBSET T : SumFunctionOnSet(c, S) = SumFunctionOnSet(d, S)}
  <1>1. {} \in G
    BY SumRules
  <1>2. ASSUME NEW S \in G, NEW x \in T \ S PROVE S \cup {x} \in G
    <2>1. /\ S \cup {x} \in SUBSET U /\ S \cup {x} \in SUBSET V /\ x \in S \cup {x}
          /\ (S \cup {x}) \ {x} = S
      OBVIOUS
    <2>2. SumFunctionOnSet(c, S \cup {x}) = c[x] + SumFunctionOnSet(c, S)
      BY <2>1, SumRules
    <2>3. SumFunctionOnSet(d, S \cup {x}) = d[x] + SumFunctionOnSet(d, S)
      BY <2>1, SumRules
    <2>4. QED BY <2>2, <2>3
  <1>3. \A S \in G : \A x \in T \ S : S \cup {x} \in G
    BY <1>2
  <1>4. G \in SUBSET (SUBSET T)
    OBVIOUS
  <1> HIDE DEF G
  <1>5. T \in G
    BY <1>1, <1>3, <1>4, SubsetInduction
  <1>6. QED BY <1>5 DEF G

LEMMA SumUnion ==
    ASSUME NEW U, IsFiniteSet(U), NEW c \in [U -> Int],
           NEW A \in SUBSET U, NEW B \in SUBSET U, A \cap B = {}
    PROVE  SumFunctionOnSet(c, A \cup B) = SumFunctionOnSet(c, A) + SumFunctionOnSet(c, B)
  <1> DEFINE G == {S \in SUBSET B :
                     SumFunctionOnSet(c, A \cup S) = SumFunctionOnSet(c, A) + SumFunctionOnSet(c, S)}
  <1>1. \A T \in SUBSET U : SumFunctionOnSet(c, T) \in Int
    BY SumRules
  <1>2. {} \in G
    <2>1. SumFunctionOnSet(c, {}) = 0 /\ A \cup {} = A
      BY SumRules
    <2>2. QED BY <1>1, <2>1
  <1>3. ASSUME NEW S \in G, NEW x \in B \ S PROVE S \cup {x} \in G
    <2>1. /\ S \cup {x} \in SUBSET U /\ x \in S \cup {x} /\ (S \cup {x}) \ {x} = S
          /\ A \cup (S \cup {x}) \in SUBSET U /\ x \in A \cup (S \cup {x})
          /\ (A \cup (S \cup {x})) \ {x} = A \cup S
      OBVIOUS
    <2>2. SumFunctionOnSet(c, S \cup {x}) = c[x] + SumFunctionOnSet(c, S)
      BY <2>1, SumRules
    <2>3. SumFunctionOnSet(c, A \cup (S \cup {x})) = c[x] + SumFunctionOnSet(c, A \cup S)
      BY <2>1, SumRules
    <2>4. /\ c[x] \in Int /\ SumFunctionOnSet(c, S) \in Int /\ SumFunctionOnSet(c, A) \in Int
          /\ SumFunctionOnSet(c, A \cup S) = SumFunctionOnSet(c, A) + SumFunctionOnSet(c, S)
      BY SMTT(30), <1>1
    <2> DEFINE a == SumFunctionOnSet(c, A)
               b == SumFunctionOnSet(c, S)
    <2>5. c[x] + (a + b) = a + (c[x] + b)
      <3>1. c[x] \in Int /\ a \in Int /\ b \in Int
        BY <2>4
      <3> HIDE DEF a, b
      <3>2. QED BY <3>1
    <2>6. SumFunctionOnSet(c, A \cup (S \cup {x})) = a + SumFunctionOnSet(c, S \cup {x})
      BY <2>2, <2>3, <2>4, <2>5
    <2>7. QED BY <2>1, <2>6
  <1>4. \A S \in G : \A x \in B \ S : S \cup {x} \in G
    BY <1>3
  <1>5. G \in SUBSET (SUBSET B) /\ IsFiniteSet(B)
    BY FS_Subset
  <1> HIDE DEF G
  <1>6. B \in G
    BY <1>2, <1>4, <1>5, SubsetInduction
  <1>7. QED BY <1>6 DEF G

\* Summed group by group.
LEMMA SumByKey ==
    ASSUME NEW U, IsFiniteSet(U), NEW c \in [U -> Int],
           NEW K, IsFiniteSet(K), NEW k \in [U -> K], NEW d \in [K -> Int],
           \A x \in K : d[x] = SumFunctionOnSet(c, {u \in U : k[u] = x})
    PROVE  SumFunctionOnSet(d, K) = SumFunctionOnSet(c, U)
  <1> DEFINE Of(L) == {u \in U : k[u] \in L}
             G == {L \in SUBSET K : SumFunctionOnSet(d, L) = SumFunctionOnSet(c, Of(L))}
  <1>1. {} \in G
    <2>1. Of({}) = {}
      BY SMTT(30), ZenonT(30)
    <2>2. QED BY <2>1, SumRules
  <1>2. ASSUME NEW L \in G, NEW x \in K \ L PROVE L \cup {x} \in G
    <2>1. L \cup {x} \in SUBSET K /\ x \in L \cup {x} /\ (L \cup {x}) \ {x} = L
      OBVIOUS
    <2>2. SumFunctionOnSet(d, L \cup {x}) = d[x] + SumFunctionOnSet(d, L)
      BY <2>1, SumRules
    <2> DEFINE X == {u \in U : k[u] = x}
    <2>3. Of(L \cup {x}) = X \cup Of(L) /\ X \cap Of(L) = {} /\ X \in SUBSET U /\ Of(L) \in SUBSET U
      OBVIOUS
    <2>4. d[x] = SumFunctionOnSet(c, X) /\ SumFunctionOnSet(d, L) = SumFunctionOnSet(c, Of(L))
      OBVIOUS
    <2> HIDE DEF X, Of
    <2>5. SumFunctionOnSet(c, X \cup Of(L)) = SumFunctionOnSet(c, X) + SumFunctionOnSet(c, Of(L))
      BY <2>3, SumUnion
    <2>6. SumFunctionOnSet(d, L \cup {x}) = SumFunctionOnSet(c, Of(L \cup {x}))
      BY <2>2, <2>3, <2>4, <2>5
    <2>7. QED BY <2>1, <2>6
  <1>3. \A L \in G : \A x \in K \ L : L \cup {x} \in G
    BY <1>2
  <1>4. G \in SUBSET (SUBSET K)
    OBVIOUS
  <1>5. Of(K) = U
    OBVIOUS
  <1> HIDE DEF G, Of
  <1>6. K \in G
    BY <1>1, <1>3, <1>4, SubsetInduction
  <1>7. QED BY <1>5, <1>6 DEF G

LEMMA SumOnes ==
    ASSUME NEW U, IsFiniteSet(U), NEW T \in SUBSET U
    PROVE  SumFunctionOnSet([u \in U |-> 1], T) = Cardinality(T)
  <1> DEFINE c == [u \in U |-> 1]
             G == {S \in SUBSET T : SumFunctionOnSet(c, S) = Cardinality(S)}
  <1>1. c \in [U -> Int] /\ \A u \in U : c[u] = 1
    OBVIOUS
  <1>2. IsFiniteSet(T) /\ \A S \in SUBSET T : IsFiniteSet(S) /\ Cardinality(S) \in Nat
    BY FS_Subset, FS_CardinalityType
  <1> HIDE DEF c
  <1>3. {} \in G
    BY <1>1, SumRules, FS_EmptySet
  <1>4. ASSUME NEW S \in G, NEW x \in T \ S PROVE S \cup {x} \in G
    <2>1. S \cup {x} \in SUBSET U /\ x \in S \cup {x} /\ (S \cup {x}) \ {x} = S
      OBVIOUS
    <2>2. SumFunctionOnSet(c, S \cup {x}) = c[x] + SumFunctionOnSet(c, S)
      BY <1>1, <2>1, SumRules
    <2>3. Cardinality(S \cup {x}) = Cardinality(S) + 1
      BY <1>2, FS_AddElement
    <2>4. QED BY <1>1, <1>2, <2>2, <2>3
  <1>5. \A S \in G : \A x \in T \ S : S \cup {x} \in G
    BY <1>4
  <1>6. G \in SUBSET (SUBSET T)
    OBVIOUS
  <1> HIDE DEF G
  <1>7. T \in G
    BY <1>2, <1>3, <1>5, <1>6, SubsetInduction
  <1>8. QED BY <1>7 DEF G, c

\* Counted group by group.
LEMMA CountByKey ==
    ASSUME NEW U, IsFiniteSet(U), NEW K, IsFiniteSet(K), NEW k \in [U -> K], NEW d \in [K -> Int],
           \A x \in K : d[x] = Cardinality({u \in U : k[u] = x})
    PROVE  SumFunctionOnSet(d, K) = Cardinality(U)
  <1> DEFINE c == [u \in U |-> 1]
  <1>1. c \in [U -> Int]
    OBVIOUS
  <1>2. ASSUME NEW x \in K PROVE d[x] = SumFunctionOnSet(c, {u \in U : k[u] = x})
    <2>1. {u \in U : k[u] = x} \in SUBSET U
      OBVIOUS
    <2>2. QED BY <2>1, SumOnes
  <1>3. SumFunctionOnSet(c, U) = Cardinality(U)
    BY SumOnes
  <1> HIDE DEF c
  <1>4. QED BY <1>1, <1>2, <1>3, SumByKey

LEMMA SumBound ==
    ASSUME NEW U, IsFiniteSet(U), NEW c \in [U -> Int], NEW m \in Int, \A u \in U : c[u] <= m
    PROVE  SumFunctionOnSet(c, U) <= Cardinality(U) * m
  <1> DEFINE G == {S \in SUBSET U : SumFunctionOnSet(c, S) <= Cardinality(S) * m}
  <1>1. \A S \in SUBSET U : IsFiniteSet(S) /\ Cardinality(S) \in Nat
    BY FS_Subset, FS_CardinalityType
  <1>2. {} \in G
    <2>1. SumFunctionOnSet(c, {}) = 0 /\ Cardinality({}) = 0
      BY SumRules, FS_EmptySet
    <2>2. QED BY <2>1
  <1>3. ASSUME NEW S \in G, NEW x \in U \ S PROVE S \cup {x} \in G
    <2>1. S \cup {x} \in SUBSET U /\ x \in S \cup {x} /\ (S \cup {x}) \ {x} = S
      OBVIOUS
    <2>2. SumFunctionOnSet(c, S \cup {x}) = c[x] + SumFunctionOnSet(c, S)
      BY <2>1, SumRules
    <2>3. Cardinality(S \cup {x}) = Cardinality(S) + 1
      BY <1>1, FS_AddElement
    <2>4. SumFunctionOnSet(c, S) \in Int /\ c[x] \in Int /\ c[x] <= m
      BY SumRules
    <2>5. \A n \in Nat : (n + 1) * m = m + n * m /\ n * m \in Int
      OBVIOUS
    <2> DEFINE w == Cardinality(S) * m
    <2>6. w \in Int /\ (Cardinality(S) + 1) * m = m + w /\ SumFunctionOnSet(c, S) <= w
      BY <1>1, <2>5
    <2> HIDE DEF w
    <2>7. SumFunctionOnSet(c, S \cup {x}) <= (Cardinality(S) + 1) * m
      BY <2>2, <2>4, <2>6
    <2>8. QED BY <2>1, <2>3, <2>7
  <1>4. \A S \in G : \A x \in U \ S : S \cup {x} \in G
    BY <1>3
  <1>5. G \in SUBSET (SUBSET U)
    OBVIOUS
  <1> HIDE DEF G
  <1>6. U \in G
    BY <1>2, <1>4, <1>5, SubsetInduction
  <1>7. QED BY <1>6 DEF G

\* Each within half a unit, the sums are within half a unit for each.
LEMMA SumNear ==
    ASSUME NEW U, IsFiniteSet(U), NEW c \in [U -> Int], NEW d \in [U -> Int], NEW unit \in Nat \ {0},
           \A u \in U : -unit <= 2 * (c[u] * unit - d[u]) /\ 2 * (c[u] * unit - d[u]) <= unit
    PROVE  LET x == 2 * (SumFunctionOnSet(c, U) * unit - SumFunctionOnSet(d, U))
           IN  -(Cardinality(U) * unit) <= x /\ x <= Cardinality(U) * unit
  <1> DEFINE Off(S) == 2 * (SumFunctionOnSet(c, S) * unit - SumFunctionOnSet(d, S))
             G == {S \in SUBSET U : /\ -(Cardinality(S) * unit) <= Off(S)
                                    /\ Off(S) <= Cardinality(S) * unit}
  <1>1. \A S \in SUBSET U : IsFiniteSet(S) /\ Cardinality(S) \in Nat
    BY FS_Subset, FS_CardinalityType
  <1>2. {} \in G
    <2>1. SumFunctionOnSet(c, {}) = 0 /\ SumFunctionOnSet(d, {}) = 0 /\ Cardinality({}) = 0
      BY SumRules, FS_EmptySet
    <2>2. QED BY <2>1
  <1>3. ASSUME NEW S \in G, NEW x \in U \ S PROVE S \cup {x} \in G
    <2>1. S \cup {x} \in SUBSET U /\ x \in S \cup {x} /\ (S \cup {x}) \ {x} = S
      OBVIOUS
    <2> DEFINE a == SumFunctionOnSet(c, S)
               b == SumFunctionOnSet(d, S)
               k == Cardinality(S)
    <2>2. /\ SumFunctionOnSet(c, S \cup {x}) = c[x] + a
          /\ SumFunctionOnSet(d, S \cup {x}) = d[x] + b
          /\ a \in Int /\ b \in Int
      BY SMTT(30), <2>1, SumRules
    <2>3. Cardinality(S \cup {x}) = k + 1 /\ k \in Nat
      BY <1>1, FS_AddElement
    <2>4. /\ -(k * unit) <= 2 * (a * unit - b) /\ 2 * (a * unit - b) <= k * unit
          /\ -unit <= 2 * (c[x] * unit - d[x]) /\ 2 * (c[x] * unit - d[x]) <= unit
          /\ c[x] \in Int /\ d[x] \in Int
      OBVIOUS
    <2> HIDE DEF a, b, k
    <2>5. /\ (k + 1) * unit = k * unit + unit /\ k * unit \in Int
          /\ (c[x] + a) * unit = c[x] * unit + a * unit /\ a * unit \in Int /\ c[x] * unit \in Int
      BY <2>2, <2>3, <2>4
    <2> DEFINE ku == k * unit
               au == a * unit
               cu == c[x] * unit
               q  == (k + 1) * unit
               w  == (c[x] + a) * unit
    <2>6. /\ q = ku + unit /\ w = cu + au
          /\ ku \in Int /\ au \in Int /\ cu \in Int
          /\ -ku <= 2 * (au - b) /\ 2 * (au - b) <= ku
          /\ -unit <= 2 * (cu - d[x]) /\ 2 * (cu - d[x]) <= unit
      BY <2>4, <2>5
    <2> HIDE DEF ku, au, cu, q, w
    <2>7. -q <= 2 * (w - (d[x] + b)) /\ 2 * (w - (d[x] + b)) <= q
      BY <2>2, <2>4, <2>6
    <2>8. QED BY <2>1, <2>2, <2>3, <2>7 DEF q, w
  <1>4. \A S \in G : \A x \in U \ S : S \cup {x} \in G
    BY <1>3
  <1>5. G \in SUBSET (SUBSET U)
    OBVIOUS
  <1> HIDE DEF G
  <1>6. U \in G
    BY <1>2, <1>4, <1>5, SubsetInduction
  <1>7. QED BY <1>6 DEF G

LEMMA MaxExists ==
    ASSUME NEW U, IsFiniteSet(U), U # {}, NEW c \in [U -> Int]
    PROVE  \E u \in U : \A v \in U : c[v] <= c[u]
  <1> DEFINE G == {S \in SUBSET U : S = {} \/ \E u \in S : \A v \in S : c[v] <= c[u]}
  <1>1. ASSUME NEW S \in G, NEW x \in U \ S PROVE S \cup {x} \in G
    <2>1. CASE S = {}
      BY <2>1
    <2>2. CASE S # {}
      <3>1. PICK u \in S : \A v \in S : c[v] <= c[u]
        BY <2>2
      <3>2. \E w \in S \cup {x} : \A v \in S \cup {x} : c[v] <= c[w]
        <4>1. c[u] \in Int /\ c[x] \in Int /\ \A v \in S : c[v] \in Int
          OBVIOUS
        <4>2. CASE c[x] <= c[u]
          BY <3>1, <4>2
        <4>3. CASE ~(c[x] <= c[u])
          BY <3>1, <4>1, <4>3
        <4>4. QED BY <4>2, <4>3
      <3>3. QED BY <3>2
    <2>3. QED BY <2>1, <2>2
  <1>2. \A S \in G : \A x \in U \ S : S \cup {x} \in G
    BY <1>1
  <1>3. {} \in G /\ G \in SUBSET (SUBSET U)
    OBVIOUS
  <1> HIDE DEF G
  <1>4. U \in G
    BY <1>2, <1>3, SubsetInduction
  <1>5. QED BY <1>4 DEF G

\* A finite set can be listed from the greatest value to the least.
LEMMA SortExists ==
    ASSUME NEW U, IsFiniteSet(U), NEW c \in [U -> Int]
    PROVE  \E s \in SetToSeqs(U) : \A i, j \in DOMAIN s : i < j => c[s[i]] >= c[s[j]]
  <1> DEFINE Sorted(s) == \A i, j \in DOMAIN s : i < j => c[s[i]] >= c[s[j]]
             N == {n \in Nat : \A T \in SUBSET U : Cardinality(T) = n =>
                                  \E s \in SetToSeqs(T) : Sorted(s)}
  <1>1. \A T \in SUBSET U : IsFiniteSet(T) /\ Cardinality(T) \in Nat
    BY FS_Subset, FS_CardinalityType
  <1>2. 0 \in N
    <2> SUFFICES ASSUME NEW T \in SUBSET U, Cardinality(T) = 0
                 PROVE  \E s \in SetToSeqs(T) : Sorted(s)
      OBVIOUS
    <2> DEFINE e == [i \in 1..0 |-> 0]
    <2>1. T = {} /\ 1..0 = {}
      BY <1>1, FS_EmptySet
    <2>2. e \in SetToSeqs(T) /\ DOMAIN e = {}
      BY <2>1 DEF SetToSeqs
    <2>3. QED BY <2>2
  <1>3. ASSUME NEW n \in Nat, n \in N PROVE n + 1 \in N
    <2>1. ASSUME NEW T \in SUBSET U, Cardinality(T) = n + 1
          PROVE  \E s \in SetToSeqs(T) : Sorted(s)
      <3>1. T # {}
        <4>1. Cardinality({}) = 0 /\ n + 1 # 0
          BY FS_EmptySet
        <4>2. QED BY <2>1, <4>1
      <3>2. PICK x \in T : \A v \in T : c[v] >= c[x]
        <4> DEFINE b == [v \in T |-> 0 - c[v]]
        <4>1. b \in [T -> Int] /\ \A v \in T : b[v] = 0 - c[v] /\ c[v] \in Int
          OBVIOUS
        <4> HIDE DEF b
        <4>2. \E u \in T : \A v \in T : b[v] <= b[u]
          BY <1>1, <3>1, <4>1, MaxExists
        <4>3. QED BY <4>1, <4>2
      <3>3. Cardinality(T \ {x}) = n
        BY <1>1, <2>1, <3>2, FS_RemoveElement
      <3>4. PICK s \in SetToSeqs(T \ {x}) : Sorted(s)
        BY <1>3, <3>3
      <3>5. s \in [1..n -> T \ {x}] /\ \A i, j \in 1..n : i # j => s[i] # s[j]
        BY <3>3, <3>4 DEF SetToSeqs
      <3> DEFINE t == [i \in 1..n + 1 |-> IF i = n + 1 THEN x ELSE s[i]]
      <3>6. /\ \A i \in 1..n + 1 : i # n + 1 => i \in 1..n
            /\ DOMAIN t = 1..n + 1 /\ n + 1 \in 1..n + 1 /\ DOMAIN s = 1..n
        BY <3>5
      <3>7. \A i \in 1..n + 1 : t[i] = IF i = n + 1 THEN x ELSE s[i]
        OBVIOUS
      <3>8. t \in [1..n + 1 -> T]
        BY <3>5, <3>6
      <3> HIDE DEF t
      <3>9. \A i, j \in 1..n + 1 : i # j => t[i] # t[j]
        BY <3>5, <3>6, <3>7
      <3>10. t \in SetToSeqs(T)
        BY <2>1, <3>8, <3>9 DEF SetToSeqs
      <3>11. Sorted(t)
        <4> SUFFICES ASSUME NEW i \in 1..n + 1, NEW j \in 1..n + 1, i < j PROVE c[t[i]] >= c[t[j]]
          BY <3>6
        <4>1. i # n + 1 /\ i \in 1..n /\ t[i] = s[i] /\ s[i] \in T
          BY <3>5, <3>6, <3>7
        <4>2. CASE j = n + 1
          BY <3>2, <3>7, <4>1, <4>2
        <4>3. CASE j # n + 1
          BY <3>4, <3>6, <3>7, <4>1, <4>3
        <4>4. QED BY <4>2, <4>3
      <3> HIDE DEF Sorted
      <3>12. QED BY <3>10, <3>11
    <2>2. QED BY <2>1
  <1>4. \A n \in Nat : n \in N => n + 1 \in N
    BY <1>3
  <1> HIDE DEF N, Sorted
  <1>5. Cardinality(U) \in N
    BY <1>1, <1>2, <1>4, SetInduction
  <1>6. QED BY <1>5 DEF N, Sorted

-----------------------------------------------------------------------------
(* The invariant.                                                          *)

Scrolls == [of : Fans \cup {None}, page : Nat \ {0}, limit : Nat \ {0},
            left : SUBSET PassIds, moved : BOOLEAN, done : BOOLEAN]

AnalyticsTyped ==
    /\ passes \in [PassIds -> Rows \cup {None}]
    /\ now \in Nat
    /\ token \in Tokens \cup {None}
    /\ held \in [Fans \X Tiers -> Nat \cup {None}]
    /\ scroll \in Scrolls

RowsGood == \A p \in Stored : Row(p).at <= now /\ Row(p).at < Row(p).until

\* Who has a valid pass is noted as holding it now; a token in hand has not run out, and
\* the moment it was issued at is still noted.
HeldGood ==
    /\ \A d \in Fans \X Tiers :
          /\ held[d] # None => held[d] <= now
          /\ HasValidPass(d[1], d[2]) => held[d] = now
    /\ token # None =>
          LET h == held[<<token.fan, token.tier>>] IN
          h # None /\ now <= token.until /\ token.until <= h + UnlockTicks

Listed == FindByFan(scroll.of, FALSE)
Tied(p) == \E q \in Listed \ {p} : Row(q).until = Row(p).until
Earlier(p) == {q \in Listed : Row(q).until < Row(p).until}

\* A pass that the client has not seen, and that shares its expiry with no other, comes
\* after the pages that the client has read, as long as no row has moved: sales can only
\* push it back.
ScrollGood ==
    \A p \in scroll.left :
        /\ p \in Listed
        /\ \/ scroll.moved
           \/ Tied(p)
           \/ ~scroll.done /\ Cardinality(Earlier(p)) >= Skipped(scroll.page, scroll.limit)

AnalyticsInv == AnalyticsTyped /\ RowsGood /\ HeldGood /\ ScrollGood

-----------------------------------------------------------------------------
(* The table and the tokens.                                               *)

LEMMA NoneIsNone ==
    None \notin Nat /\ None \notin BOOLEAN /\ None \notin Fans /\ None \notin Rows /\ None \notin Tokens
  BY AnalyticsNoneAssumption

LEMMA StoredTyped ==
    ASSUME AnalyticsTyped
    PROVE  /\ Stored \subseteq PassIds /\ IsFiniteSet(Stored)
           /\ \A p \in Stored : Row(p) \in Rows
  BY AnalyticsAssumption, FS_Subset DEF AnalyticsTyped, Stored, Row

LEMMA NotedIs ==
    ASSUME held \in [Fans \X Tiers -> Nat \cup {None}], NEW rows, NEW time \in Nat
    PROVE  /\ Noted(rows, time) \in [Fans \X Tiers -> Nat \cup {None}]
           /\ \A d \in Fans \X Tiers :
                 LET had == \E p \in PassIds :
                               /\ rows[p] # None /\ rows[p].fan = d[1] /\ rows[p].tier = d[2]
                               /\ rows[p].active /\ rows[p].until > time
                 IN  /\ had => Noted(rows, time)[d] = time
                     /\ ~had /\ held[d] # None /\ time - held[d] > UnlockTicks =>
                           Noted(rows, time)[d] = None
                     /\ ~had /\ ~(held[d] # None /\ time - held[d] > UnlockTicks) =>
                           Noted(rows, time)[d] = held[d]
  BY DEF Noted

\* The history is noted at the sale and at the tick, where time may have passed.
LEMMA NotedStep ==
    ASSUME AnalyticsInv, AnalyticsTyped', now' >= now, held' = Noted(passes', now'),
           token' # None => token' = token /\ now' <= token.until
    PROVE  HeldGood'
  <1>1. /\ now \in Nat /\ now' \in Nat /\ UnlockTicks \in Nat
        /\ held \in [Fans \X Tiers -> Nat \cup {None}]
        /\ held' \in [Fans \X Tiers -> Nat \cup {None}]
    BY AnalyticsAssumption DEF AnalyticsInv, AnalyticsTyped
  <1>2. ASSUME NEW d \in Fans \X Tiers
        PROVE  /\ held'[d] # None => held'[d] <= now'
               /\ HasValidPass(d[1], d[2])' => held'[d] = now'
               /\ held[d] # None => held[d] \in Nat /\ held[d] <= now
               /\ held'[d] = None => held[d] = None \/ now' - held[d] > UnlockTicks
               /\ held'[d] = now' \/ held'[d] = held[d] \/ held'[d] = None
    <2> DEFINE had == \E p \in PassIds :
                         /\ passes'[p] # None /\ passes'[p].fan = d[1] /\ passes'[p].tier = d[2]
                         /\ passes'[p].active /\ passes'[p].until > now'
    <2>1. /\ had => held'[d] = now'
          /\ ~had /\ held[d] # None /\ now' - held[d] > UnlockTicks => held'[d] = None
          /\ ~had /\ ~(held[d] # None /\ now' - held[d] > UnlockTicks) => held'[d] = held[d]
      BY <1>1, NotedIs
    <2>2. HasValidPass(d[1], d[2])' => had
      BY DEF HasValidPass, Stored, Row, Valid
    <2> HIDE DEF had
    <2>3. held[d] # None => held[d] \in Nat /\ held[d] <= now
      BY <1>1 DEF AnalyticsInv, HeldGood
    <2>4. now' # None
      BY <1>1, NoneIsNone
    <2>5. held'[d] # None => held'[d] <= now'
      BY <1>1, <2>1, <2>3
    <2>6. QED BY <2>1, <2>2, <2>3, <2>4, <2>5
  <1>3. ASSUME token' # None
        PROVE  LET h == held'[<<token'.fan, token'.tier>>] IN
               h # None /\ now' <= token'.until /\ token'.until <= h + UnlockTicks
    <2> DEFINE d == <<token.fan, token.tier>>
    <2>1. token' = token /\ token \in Tokens /\ now' <= token.until
      BY <1>3 DEF AnalyticsInv, AnalyticsTyped
    <2>2. d \in Fans \X Tiers /\ token.until \in Nat
      BY <2>1 DEF Tokens
    <2>3. held[d] # None /\ token.until <= held[d] + UnlockTicks
      BY <1>3, <2>1 DEF AnalyticsInv, HeldGood
    <2> HIDE DEF d
    <2>4. held[d] \in Nat /\ held[d] <= now
      BY <1>2, <2>2, <2>3
    <2>5. ~(now' - held[d] > UnlockTicks)
      BY <1>1, <2>1, <2>2, <2>3, <2>4
    <2>6. held'[d] # None
      BY <1>2, <2>2, <2>3, <2>5
    <2>7. token.until <= held'[d] + UnlockTicks
      BY <1>1, <1>2, <2>2, <2>3, <2>4, <2>6
    <2>8. QED BY <2>1, <2>6, <2>7 DEF d
  <1>4. QED BY <1>2, <1>3 DEF HeldGood

\* Rows are added and none is removed, and whether rows have moved is noted.
LEMMA ScrollKept ==
    ASSUME AnalyticsInv, AnalyticsTyped',
           scroll'.of = scroll.of, scroll'.left = scroll.left, scroll'.done = scroll.done,
           scroll'.page = scroll.page, scroll'.limit = scroll.limit,
           scroll.moved => scroll'.moved,
           \A p \in Stored : p \in Stored' /\ Row(p)'.fan = Row(p).fan,
           ~scroll'.moved => \A p \in Listed : Row(p)'.until = Row(p).until
    PROVE  ScrollGood'
  <1>1. \A p \in Listed : p \in Listed' /\ p \in Stored
    BY DEF Listed, FindByFan
  <1>2. CASE scroll'.moved
    <2> SUFFICES ASSUME NEW p \in scroll.left PROVE p \in Listed'
      BY <1>2 DEF ScrollGood
    <2>1. QED BY <1>1 DEF AnalyticsInv, ScrollGood
  <1>3. CASE ~scroll'.moved
    <2>1. \A p \in Listed : Row(p)'.until = Row(p).until
      BY <1>3
    <2>2. IsFiniteSet(Listed')
      <3>1. Listed' \in SUBSET PassIds
        BY DEF Listed, FindByFan, Stored
      <3>2. QED BY <3>1, AnalyticsAssumption, FS_Subset
    <2>3. \A p \in Listed : Tied(p) => Tied(p)'
      BY <1>1, <2>1 DEF Tied
    <2>4. ASSUME NEW p \in Listed PROVE Cardinality(Earlier(p)) <= Cardinality(Earlier(p)')
      <3>1. Earlier(p) \subseteq Earlier(p)'
        BY <1>1, <2>1 DEF Earlier
      <3>2. IsFiniteSet(Earlier(p)')
        BY <2>2, FS_Subset DEF Earlier
      <3>3. QED BY <3>1, <3>2, FS_Subset
    <2>5. ASSUME NEW p \in Listed
          PROVE  Cardinality(Earlier(p)) \in Nat /\ Cardinality(Earlier(p)') \in Nat
      <3>1. IsFiniteSet(Earlier(p)')
        BY <2>2, FS_Subset DEF Earlier
      <3>2. IsFiniteSet(Earlier(p))
        BY StoredTyped, FS_Subset DEF Earlier, Listed, FindByFan, AnalyticsInv
      <3>3. QED BY <3>1, <3>2, FS_CardinalityType
    <2>6. Skipped(scroll.page, scroll.limit)' = Skipped(scroll.page, scroll.limit)
      BY DEF Skipped, Capped
    <2>7. Skipped(scroll.page, scroll.limit) \in Int
      BY AnalyticsAssumption DEF Skipped, Capped, AnalyticsInv, AnalyticsTyped, Scrolls
    <2>8. ~scroll.moved
      BY <1>3
    <2> SUFFICES ASSUME NEW p \in scroll.left
                 PROVE  /\ p \in Listed'
                        /\ \/ Tied(p)'
                           \/ /\ ~scroll.done
                              /\ Cardinality(Earlier(p)') >= Skipped(scroll.page, scroll.limit)
      BY <2>6 DEF ScrollGood
    <2>9. /\ p \in Listed
          /\ \/ Tied(p)
             \/ ~scroll.done /\ Cardinality(Earlier(p)) >= Skipped(scroll.page, scroll.limit)
      BY <2>8 DEF AnalyticsInv, ScrollGood
    <2>10. QED BY <1>1, <2>3, <2>4, <2>5, <2>7, <2>9
  <1>4. QED BY <1>2, <1>3

LEMMA SaleStep ==
    ASSUME AnalyticsInv, NEW p \in PassIds, NEW f \in Fans, NEW t \in Tiers, Sale(p, f, t)
    PROVE  AnalyticsInv'
  <1>0. PICK ticks \in {Duration[t], Trial[t]} \ {0} :
           passes' = [passes EXCEPT ![p] =
               [fan |-> f, tier |-> t, at |-> now, until |-> now + ticks, active |-> TRUE]]
    BY DEF Sale
  <1> DEFINE x == [fan |-> f, tier |-> t, at |-> now, until |-> now + ticks, active |-> TRUE]
  <1>1. ticks \in Nat /\ ticks > 0 /\ now \in Nat
    BY AnalyticsAssumption DEF AnalyticsInv, AnalyticsTyped
  <1>2. x \in Rows /\ x # None /\ x.at = now /\ x.at <= now /\ x.at < x.until
    <2>1. now + ticks \in Nat /\ now < now + ticks
      BY <1>1
    <2>2. x \in Rows /\ x.at = now /\ x.until = now + ticks
      BY <1>1, <2>1 DEF Rows
    <2> HIDE DEF x
    <2>3. QED BY <1>1, <2>1, <2>2, NoneIsNone
  <1>3. /\ passes' = [passes EXCEPT ![p] = x] /\ passes[p] = None
        /\ held' = Noted(passes', now) /\ UNCHANGED <<now, token, scroll>>
    BY <1>0 DEF Sale
  <1> HIDE DEF x
  <1>4. /\ passes' \in [PassIds -> Rows \cup {None}]
        /\ passes'[p] = x /\ \A q \in PassIds : q # p => passes'[q] = passes[q]
    BY <1>2, <1>3 DEF AnalyticsInv, AnalyticsTyped
  <1>5. AnalyticsTyped'
    BY <1>1, <1>3, <1>4, NotedIs DEF AnalyticsInv, AnalyticsTyped
  <1>6. RowsGood'
    BY <1>2, <1>3, <1>4 DEF AnalyticsInv, RowsGood, Stored, Row
  <1>7. HeldGood'
    <2>1. now' >= now /\ held' = Noted(passes', now') /\ token' = token
      BY <1>1, <1>3
    <2>2. token # None => now' <= token.until
      BY <1>3 DEF AnalyticsInv, HeldGood
    <2>3. QED BY <1>5, <2>1, <2>2, NotedStep
  <1>8. ScrollGood'
    <2>1. \A q \in Stored : /\ q \in Stored' /\ Row(q)'.fan = Row(q).fan
                            /\ Row(q)'.until = Row(q).until
      BY <1>3, <1>4 DEF Stored, Row
    <2>2. Listed \subseteq Stored
      BY DEF Listed, FindByFan
    <2>3. scroll' = scroll
      BY <1>3
    <2>4. QED BY <1>5, <2>1, <2>2, <2>3, ScrollKept
  <1>9. QED BY <1>5, <1>6, <1>7, <1>8 DEF AnalyticsInv

LEMMA RedeliverStep ==
    ASSUME AnalyticsInv, NEW p \in PassIds, Redeliver(p)
    PROVE  AnalyticsInv'
  <1> DEFINE u == Row(p).at + Duration[Row(p).tier]
             x == [passes[p] EXCEPT !.until = u]
             moves == Row(p).fan = scroll.of /\ Row(p).until # u
  <1>1. /\ passes[p] \in Rows /\ passes[p] # None /\ Row(p) = passes[p]
        /\ passes[p].at \in Nat /\ passes[p].at <= now
    BY StoredTyped DEF AnalyticsInv, RowsGood, Redeliver, Stored, Row, Rows
  <1>2. u \in Nat /\ passes[p].at < u /\ now \in Nat
    <2>1. Duration[Row(p).tier] \in Nat \ {0}
      BY <1>1, AnalyticsAssumption DEF Rows
    <2>2. QED BY <1>1, <2>1 DEF AnalyticsInv, AnalyticsTyped
  <1>3. /\ passes' = [passes EXCEPT ![p] = x]
        /\ scroll' = [scroll EXCEPT !.moved = @ \/ moves]
        /\ held' = Noted(passes', now) /\ UNCHANGED <<now, token>>
    BY DEF Redeliver, AnalyticsInv, AnalyticsTyped
  <1> HIDE DEF u
  <1>4. /\ x \in Rows /\ x # None /\ x.fan = passes[p].fan /\ x.at = passes[p].at /\ x.until = u
    <2>1. /\ x \in Rows /\ x.fan = passes[p].fan /\ x.at = passes[p].at /\ x.until = u
      BY <1>1, <1>2 DEF Rows
    <2> HIDE DEF x
    <2>2. QED BY <2>1, NoneIsNone
  <1>5. scroll \in Scrolls
    BY DEF AnalyticsInv, AnalyticsTyped
  <1>6. /\ scroll' \in Scrolls /\ scroll'.of = scroll.of /\ scroll'.left = scroll.left
        /\ scroll'.done = scroll.done /\ scroll'.page = scroll.page /\ scroll'.limit = scroll.limit
        /\ scroll.moved => scroll'.moved
        /\ moves => scroll'.moved
    <2> DEFINE b == scroll.moved \/ moves
    <2>1. b \in BOOLEAN /\ scroll' = [scroll EXCEPT !.moved = b]
      BY <1>3
    <2>2. (scroll.moved => b) /\ (moves => b)
      OBVIOUS
    <2> HIDE DEF b, moves
    <2>3. QED BY <1>5, <2>1, <2>2 DEF Scrolls
  <1> HIDE DEF x
  <1>7. /\ passes' \in [PassIds -> Rows \cup {None}]
        /\ passes'[p] = x /\ \A q \in PassIds : q # p => passes'[q] = passes[q]
    BY <1>3, <1>4 DEF AnalyticsInv, AnalyticsTyped
  <1>8. AnalyticsTyped'
    BY <1>2, <1>3, <1>6, <1>7, NotedIs DEF AnalyticsInv, AnalyticsTyped
  <1>9. RowsGood'
    BY <1>1, <1>2, <1>3, <1>4, <1>7 DEF AnalyticsInv, RowsGood, Stored, Row
  <1>10. HeldGood'
    <2>1. now' >= now /\ held' = Noted(passes', now') /\ token' = token
      BY <1>2, <1>3
    <2>2. token # None => now' <= token.until
      BY <1>3 DEF AnalyticsInv, HeldGood
    <2>3. QED BY <1>8, <2>1, <2>2, NotedStep
  <1>11. ScrollGood'
    <2>1. \A q \in Stored : q \in Stored' /\ Row(q)'.fan = Row(q).fan
      BY <1>4, <1>7 DEF Stored, Row
    <2>2. ASSUME ~scroll'.moved, NEW q \in Listed PROVE Row(q)'.until = Row(q).until
      <3>1. q \in Stored /\ Row(q).fan = scroll.of
        BY DEF Listed, FindByFan
      <3>2. CASE q = p
        <4>1. Row(p).until = u
          BY <1>6, <2>2, <3>1, <3>2
        <4>2. QED BY <1>4, <1>7, <3>2, <4>1 DEF Row
      <3>3. CASE q # p
        BY <1>7, <3>1, <3>3 DEF Stored, Row
      <3>4. QED BY <3>2, <3>3
    <2> HIDE DEF moves
    <2>3. QED BY <1>6, <1>8, <2>1, <2>2, ScrollKept
  <1>12. QED BY <1>8, <1>9, <1>10, <1>11 DEF AnalyticsInv

LEMMA WithdrawStep ==
    ASSUME AnalyticsInv, NEW p \in PassIds, Withdraw(p)
    PROVE  AnalyticsInv'
  <1> DEFINE x == [passes[p] EXCEPT !.active = FALSE]
  <1>1. passes[p] \in Rows /\ passes[p] # None
    BY StoredTyped DEF AnalyticsInv, Withdraw, Stored, Row
  <1>2. /\ x \in Rows /\ x # None /\ x.fan = passes[p].fan /\ x.tier = passes[p].tier
        /\ x.at = passes[p].at /\ x.until = passes[p].until /\ ~x.active
    BY <1>1, NoneIsNone DEF Rows
  <1>3. passes' = [passes EXCEPT ![p] = x] /\ UNCHANGED <<now, token, held, scroll>>
    BY <1>1 DEF Withdraw, AnalyticsInv, AnalyticsTyped
  <1> HIDE DEF x
  <1>4. /\ passes' \in [PassIds -> Rows \cup {None}]
        /\ passes'[p] = x /\ \A q \in PassIds : q # p => passes'[q] = passes[q]
    BY <1>2, <1>3 DEF AnalyticsInv, AnalyticsTyped
  <1>5. AnalyticsTyped'
    BY <1>3, <1>4 DEF AnalyticsInv, AnalyticsTyped
  <1>6. RowsGood'
    BY <1>1, <1>2, <1>3, <1>4 DEF AnalyticsInv, RowsGood, Stored, Row
  <1>7. HeldGood'
    <2>1. ASSUME NEW f, NEW t, HasValidPass(f, t)' PROVE HasValidPass(f, t)
      BY <1>2, <1>3, <1>4, <2>1 DEF HasValidPass, Stored, Row, Valid
    <2>2. QED BY <1>3, <2>1 DEF AnalyticsInv, HeldGood
  <1>8. ScrollGood'
    <2>1. \A q \in Stored : /\ q \in Stored' /\ Row(q)'.fan = Row(q).fan
                            /\ Row(q)'.until = Row(q).until
      BY <1>1, <1>2, <1>4 DEF Stored, Row
    <2>2. Listed \subseteq Stored
      BY DEF Listed, FindByFan
    <2>3. scroll' = scroll
      BY <1>3
    <2>4. QED BY <1>5, <2>1, <2>2, <2>3, ScrollKept
  <1>9. QED BY <1>5, <1>6, <1>7, <1>8 DEF AnalyticsInv

LEMMA TickStep ==
    ASSUME AnalyticsInv, Tick
    PROVE  AnalyticsInv'
  <1>1. /\ now \in Nat /\ now' = now + 1 /\ UNCHANGED <<passes, scroll>>
        /\ token' = token \/ token' = None
        /\ token' # None => token' = token /\ now' <= token.until
        /\ held' = Noted(passes', now')
    <2>1. token # None => token.until \in Nat
      BY DEF AnalyticsInv, AnalyticsTyped, Tokens
    <2>2. QED BY <2>1 DEF Tick, AnalyticsInv, AnalyticsTyped
  <1>2. AnalyticsTyped'
    BY <1>1, NotedIs DEF AnalyticsInv, AnalyticsTyped
  <1>3. RowsGood'
    <2>1. \A p \in Stored : Row(p).at \in Nat
      BY StoredTyped DEF AnalyticsInv, Rows
    <2>2. QED BY <1>1, <2>1 DEF AnalyticsInv, RowsGood, Stored, Row
  <1>4. HeldGood'
    BY <1>1, <1>2, NotedStep
  <1>5. ScrollGood'
    <2>1. Listed \subseteq Stored /\ scroll' = scroll
      BY <1>1 DEF Listed, FindByFan
    <2>2. \A q \in Stored : /\ q \in Stored' /\ Row(q)'.fan = Row(q).fan
                            /\ Row(q)'.until = Row(q).until
      BY <1>1 DEF Stored, Row
    <2>3. QED BY <1>2, <2>1, <2>2, ScrollKept
  <1>6. QED BY <1>2, <1>3, <1>4, <1>5 DEF AnalyticsInv

LEMMA UnlockStep ==
    ASSUME AnalyticsInv, NEW f \in Fans, NEW t \in Tiers, UnlockContent(f, t)
    PROVE  AnalyticsInv'
  <1> DEFINE k == [fan |-> f, tier |-> t, until |-> now + UnlockTicks]
  <1>1. /\ token' = k /\ UNCHANGED <<passes, now, held, scroll>> /\ HasValidPass(f, t)
        /\ now \in Nat /\ UnlockTicks \in Nat
    BY AnalyticsAssumption DEF UnlockContent, Unlocks, AnalyticsInv, AnalyticsTyped
  <1>2. k \in Tokens /\ k.fan = f /\ k.tier = t /\ k.until = now + UnlockTicks
    BY <1>1 DEF Tokens
  <1> HIDE DEF k
  <1>3. AnalyticsTyped' /\ RowsGood'
    BY <1>1, <1>2 DEF AnalyticsInv, AnalyticsTyped, RowsGood, Stored, Row
  <1>4. ScrollGood'
    <2>1. Listed \subseteq Stored /\ scroll' = scroll
      BY <1>1 DEF Listed, FindByFan
    <2>2. \A q \in Stored : /\ q \in Stored' /\ Row(q)'.fan = Row(q).fan
                            /\ Row(q)'.until = Row(q).until
      BY <1>1 DEF Stored, Row
    <2>3. QED BY <1>3, <2>1, <2>2, ScrollKept
  <1>5. held[<<f, t>>] = now /\ now # None
    <2>1. <<f, t>> \in Fans \X Tiers /\ <<f, t>>[1] = f /\ <<f, t>>[2] = t
      OBVIOUS
    <2>2. QED BY <1>1, <2>1, NoneIsNone DEF AnalyticsInv, HeldGood
  <1>6. \A d \in Fans \X Tiers :
           /\ held'[d] # None => held'[d] <= now'
           /\ HasValidPass(d[1], d[2])' => held'[d] = now'
    BY <1>1 DEF AnalyticsInv, HeldGood, HasValidPass, Stored, Row, Valid
  <1>7. held'[<<token'.fan, token'.tier>>] = now /\ token'.until = now + UnlockTicks
    BY <1>1, <1>2, <1>5
  <1>8. HeldGood'
    BY <1>1, <1>5, <1>6, <1>7 DEF HeldGood
  <1>9. QED BY <1>3, <1>4, <1>8 DEF AnalyticsInv

-----------------------------------------------------------------------------
(* Paging.                                                                 *)

\* Where a pass that shares its expiry with no other stands in the list.
LEMMA PositionIs ==
    ASSUME AnalyticsTyped, NEW s \in ByExpiry(Listed), NEW p \in Listed, ~Tied(p)
    PROVE  \E i \in DOMAIN s : s[i] = p /\ i = Cardinality(Earlier(p)) + 1
  <1>1. IsFiniteSet(Listed) /\ Listed \subseteq Stored /\ Cardinality(Listed) \in Nat
    BY StoredTyped, FS_Subset, FS_CardinalityType DEF Listed, FindByFan
  <1> DEFINE n == Cardinality(Listed)
  <1>2. /\ s \in [1..n -> Listed] /\ \A i, j \in 1..n : i # j => s[i] # s[j]
        /\ \A i, j \in 1..n : i < j => Row(s[i]).until <= Row(s[j]).until
    BY DEF ByExpiry, SetToSeqs
  <1>3. Cardinality(1..n) = n
    <2>1. 1 \in Int /\ n \in Int
      BY <1>1
    <2> HIDE DEF n
    <2>2. Cardinality(1..n) = IF 1 > n THEN 0 ELSE n - 1 + 1
      BY <2>1, FS_Interval
    <2>3. QED BY <1>1, <2>2 DEF n
  <1> HIDE DEF n
  <1>4. s \in Surjection(1..n, Listed)
    <2>1. s \in Injection(1..n, Listed)
      BY <1>2 DEF Injection, IsInjective
    <2>2. QED BY <1>1, <1>3, <2>1, FS_Injection DEF n
  <1>5. PICK i \in 1..n : s[i] = p
    BY <1>2, <1>4 DEF Surjection
  <1>6. \A q \in Listed : Row(q).until \in Nat
    BY <1>1, StoredTyped DEF Rows
  <1>7. Earlier(p) = {s[j] : j \in 1..i - 1}
    <2>1. \A j \in 1..i - 1 : j \in 1..n /\ j < i /\ j # i
      BY <1>1, <1>5 DEF n
    <2>2. \A j \in 1..i - 1 : s[j] \in Earlier(p)
      <3> TAKE j \in 1..i - 1
      <3>1. s[j] \in Listed /\ s[j] # p /\ Row(s[j]).until <= Row(p).until
        BY <1>2, <1>5, <2>1
      <3>2. Row(s[j]).until # Row(p).until
        BY <3>1 DEF Tied
      <3>3. QED BY <1>6, <3>1, <3>2 DEF Earlier
    <2>3. ASSUME NEW q \in Earlier(p) PROVE \E j \in 1..i - 1 : q = s[j]
      <3>1. q \in Listed /\ Row(q).until < Row(p).until
        BY DEF Earlier
      <3>2. PICK j \in 1..n : s[j] = q
        BY <1>2, <1>4, <3>1 DEF Surjection
      <3>3. j # i /\ ~(i < j)
        <4>1. ~(Row(p).until <= Row(q).until) /\ p # q
          BY <1>6, <3>1
        <4>2. i < j => Row(s[i]).until <= Row(s[j]).until
          BY <1>2
        <4>3. QED BY <1>5, <3>2, <4>1, <4>2
      <3>4. j \in 1..i - 1
        BY <1>1, <1>5, <3>2, <3>3 DEF n
      <3>5. QED BY <3>2, <3>4
    <2>4. QED BY <2>2, <2>3
  <1>8. Cardinality(Earlier(p)) = i - 1
    <2> DEFINE g == [j \in 1..i - 1 |-> s[j]]
    <2>1. \A j \in 1..i - 1 : j \in 1..n
      BY <1>1, <1>5 DEF n
    <2>2. g \in Bijection(1..i - 1, Earlier(p))
      BY <1>2, <1>7, <2>1 DEF Bijection, Injection, Surjection, IsInjective
    <2>3. ExistsBijection(1..i - 1, Earlier(p))
      BY <2>2 DEF ExistsBijection
    <2>4. 1 \in Int /\ i - 1 \in Int /\ i \in Nat /\ i > 0
      BY <1>1, <1>5 DEF n
    <2>5. IsFiniteSet(1..i - 1) /\ Cardinality(1..i - 1) = IF 1 > i - 1 THEN 0 ELSE i - 1 - 1 + 1
      BY <2>4, FS_Interval
    <2>6. Cardinality(1..i - 1) = i - 1
      BY <2>4, <2>5
    <2>7. QED BY <2>3, <2>5, <2>6, FS_Bijection
  <1>9. DOMAIN s = 1..n /\ i \in Nat
    BY <1>1, <1>2, <1>5 DEF n
  <1>10. QED BY <1>5, <1>8, <1>9

\* A page that is not full reaches the end of the list.
LEMMA ShortPageIsLast ==
    ASSUME AnalyticsTyped, NEW s \in ByExpiry(Listed), NEW page \in Nat, NEW limit \in Nat,
           Skipped(page, limit) \in Nat, Capped(limit) \in Nat,
           Cardinality(PageOf(s, page, limit)) < Capped(limit), NEW i \in DOMAIN s
    PROVE  i <= Skipped(page, limit) + Capped(limit)
  <1> DEFINE a == Skipped(page, limit)
             m == Capped(limit)
             P == {j \in DOMAIN s : j > a /\ j <= a + m}
  <1>1. IsFiniteSet(Listed) /\ Cardinality(Listed) \in Nat
    BY StoredTyped, FS_Subset, FS_CardinalityType DEF Listed, FindByFan
  <1> DEFINE n == Cardinality(Listed)
  <1>2. /\ s \in [1..n -> Listed] /\ \A k, j \in 1..n : k # j => s[k] # s[j]
    BY DEF ByExpiry, SetToSeqs
  <1>3. PageOf(s, page, limit) = {s[j] : j \in P} /\ a \in Nat /\ m \in Nat /\ n \in Nat
    BY <1>1 DEF PageOf
  <1>4. Cardinality(PageOf(s, page, limit)) < m
    OBVIOUS
  <1> HIDE DEF a, m, n
  <1> SUFFICES ASSUME i > a + m PROVE FALSE
    BY <1>2, <1>3 DEF a, m
  <1>5. P = a + 1..a + m
    BY <1>2, <1>3
  <1> DEFINE g == [j \in P |-> s[j]]
  <1>6. g \in Bijection(P, PageOf(s, page, limit))
    BY <1>2, <1>3 DEF Bijection, Injection, Surjection, IsInjective
  <1>7. ExistsBijection(P, PageOf(s, page, limit))
    BY <1>6 DEF ExistsBijection
  <1>8. IsFiniteSet(P) /\ Cardinality(P) = m
    <2> DEFINE b == a + 1
               e == a + m
    <2>1. b \in Int /\ e \in Int /\ b = a + 1 /\ e = a + m /\ P = b..e
      BY <1>3, <1>5
    <2> HIDE DEF P, b, e
    <2>2. IsFiniteSet(b..e) /\ Cardinality(b..e) = IF b > e THEN 0 ELSE e - b + 1
      BY <2>1, FS_Interval
    <2>3. QED BY <1>3, <2>1, <2>2
  <1> HIDE DEF P, g
  <1>9. Cardinality(PageOf(s, page, limit)) = m
    BY <1>7, <1>8, FS_Bijection
  <1>10. QED BY <1>3, <1>4, <1>9

LEMMA SkippedIs ==
    ASSUME NEW page \in Nat \ {0}, NEW limit \in Nat \ {0}
    PROVE  /\ Capped(limit) \in Nat /\ Capped(limit) > 0 /\ Skipped(page, limit) \in Nat
           /\ Skipped(page + 1, limit) = Skipped(page, limit) + Capped(limit)
           /\ Skipped(1, limit) = 0
  <1>1. Capped(limit) \in Nat /\ Capped(limit) > 0
    BY AnalyticsAssumption DEF Capped
  <1> DEFINE m == Capped(limit)
  <1> HIDE DEF m
  <1>2. m \in Nat
    BY <1>1 DEF m
  <1>3. /\ (page - 1) * m \in Nat /\ (1 - 1) * m = 0
        /\ ((page + 1) - 1) * m = (page - 1) * m + m
    BY <1>2
  <1>4. QED BY <1>1, <1>3 DEF Skipped, m

LEMMA NextPageStep ==
    ASSUME AnalyticsInv, NextPage
    PROVE  AnalyticsInv'
  <1> DEFINE a == Skipped(scroll.page, scroll.limit)
             m == Capped(scroll.limit)
  <1>1. /\ scroll \in Scrolls /\ scroll.page \in Nat \ {0} /\ scroll.limit \in Nat \ {0}
        /\ scroll.left \in SUBSET PassIds /\ ~scroll.done /\ UNCHANGED <<passes, now, token, held>>
    BY DEF NextPage, AnalyticsInv, AnalyticsTyped, Scrolls
  <1>2. /\ a \in Nat /\ m \in Nat /\ m > 0
        /\ Skipped(scroll.page + 1, scroll.limit) = a + m
    BY <1>1, SkippedIs
  <1>3. PICK s \in ByExpiry(Listed) :
           LET got  == PageOf(s, scroll.page, scroll.limit)
               left == scroll.left \ got
           IN  scroll' = IF Cardinality(got) < m
                         THEN [NoScroll EXCEPT !.of = scroll.of, !.left = left,
                                               !.moved = scroll.moved, !.done = TRUE]
                         ELSE [scroll EXCEPT !.page = @ + 1, !.left = left]
    BY DEF NextPage, Listed
  <1> DEFINE got == PageOf(s, scroll.page, scroll.limit)
             left == scroll.left \ got
  \* What is left and shares its expiry with no other pass comes after this page.
  <1>4. ASSUME NEW p \in left, ~scroll.moved, ~Tied(p)
        PROVE  /\ p \in Listed /\ Cardinality(Earlier(p)) >= a + m
               /\ ~(Cardinality(got) < m)
    <2>1. p \in Listed /\ Cardinality(Earlier(p)) >= a
      BY <1>4 DEF AnalyticsInv, ScrollGood
    <2>2. PICK i \in DOMAIN s : s[i] = p /\ i = Cardinality(Earlier(p)) + 1
      BY <1>4, <2>1, PositionIs DEF AnalyticsInv
    <2>3. Cardinality(Earlier(p)) \in Nat
      BY <2>1, StoredTyped, FS_Subset, FS_CardinalityType DEF AnalyticsInv, Earlier, Listed, FindByFan
    <2>4. i \in Nat /\ i > a
      BY <1>2, <2>1, <2>2, <2>3
    <2>5. ~(i <= a + m)
      BY <2>2, <2>4 DEF PageOf
    <2>6. ~(Cardinality(got) < m)
      BY <1>1, <1>2, <2>5, ShortPageIsLast DEF AnalyticsInv
    <2> HIDE DEF a, m
    <2>7. QED BY <1>2, <2>1, <2>2, <2>3, <2>5, <2>6
  <1>5. \A p \in left : p \in Listed
    BY DEF AnalyticsInv, ScrollGood
  <1>6. /\ scroll' \in Scrolls /\ scroll'.of = scroll.of /\ scroll'.left = left
        /\ scroll'.moved = scroll.moved
        /\ Cardinality(got) < m \/ (scroll'.page = scroll.page + 1 /\ scroll'.limit = scroll.limit
                                    /\ ~scroll'.done)
    <2> HIDE DEF got, a, m
    <2>1. left \in SUBSET PassIds
      BY <1>1
    <2> HIDE DEF left
    <2>2. CASE Cardinality(got) < m
      <3>1. scroll' = [NoScroll EXCEPT !.of = scroll.of, !.left = left,
                                       !.moved = scroll.moved, !.done = TRUE]
        BY <1>3, <2>2 DEF got, left, a, m
      <3>2. /\ NoScroll \in Scrolls /\ scroll.of \in Fans \cup {None}
            /\ scroll.moved \in BOOLEAN
        BY <1>1 DEF NoScroll, Scrolls
      <3>3. QED BY <2>1, <2>2, <3>1, <3>2 DEF Scrolls
    <2>3. CASE ~(Cardinality(got) < m)
      <3>1. scroll' = [scroll EXCEPT !.page = @ + 1, !.left = left]
        BY <1>3, <2>3 DEF got, left, a, m
      <3>2. scroll.page + 1 \in Nat \ {0}
        BY <1>1
      <3>3. QED BY <1>1, <2>1, <3>1, <3>2 DEF Scrolls
    <2>4. QED BY <2>2, <2>3
  <1>7. AnalyticsTyped' /\ RowsGood' /\ HeldGood'
    BY <1>1, <1>6 DEF AnalyticsInv, AnalyticsTyped, RowsGood, HeldGood, Stored, Row, HasValidPass, Valid
  <1>8. /\ Listed' = Listed
        /\ \A p \in Listed : (Tied(p)' <=> Tied(p)) /\ Earlier(p)' = Earlier(p)
    BY <1>1, <1>6 DEF Listed, FindByFan, Stored, Row, Valid, Tied, Earlier
  <1>9. ScrollGood'
    <2> SUFFICES ASSUME NEW p \in left
                 PROVE  /\ p \in Listed'
                        /\ \/ scroll'.moved
                           \/ Tied(p)'
                           \/ /\ ~scroll'.done
                              /\ Cardinality(Earlier(p)') >= Skipped(scroll'.page, scroll'.limit)
      BY <1>6 DEF ScrollGood, Skipped, Capped
    <2>1. CASE scroll.moved \/ Tied(p)
      BY <1>5, <1>6, <1>8, <2>1
    <2>2. CASE ~scroll.moved /\ ~Tied(p)
      BY <1>2, <1>4, <1>6, <1>8, <2>2
    <2>3. QED BY <2>1, <2>2
  <1>10. QED BY <1>7, <1>9 DEF AnalyticsInv

LEMMA OpenListStep ==
    ASSUME AnalyticsInv, NEW f \in Fans, NEW limit \in Limits, OpenList(f, limit)
    PROVE  AnalyticsInv'
  <1>1. limit \in Nat \ {0} /\ UNCHANGED <<passes, now, token, held>>
    BY AnalyticsAssumption DEF OpenList
  <1>2. FindByFan(f, FALSE) \in SUBSET PassIds
    BY StoredTyped DEF FindByFan, AnalyticsInv
  <1>3. /\ scroll' \in Scrolls /\ scroll'.of = f /\ scroll'.left = FindByFan(f, FALSE)
        /\ scroll'.page = 1 /\ scroll'.limit = limit /\ ~scroll'.done
    <2>1. /\ NoScroll \in Scrolls /\ NoScroll.page = 1 /\ NoScroll.done = FALSE
      BY DEF NoScroll, Scrolls
    <2>2. scroll' = [NoScroll EXCEPT !.of = f, !.limit = limit, !.left = FindByFan(f, FALSE)]
      BY DEF OpenList
    <2> DEFINE S == FindByFan(f, FALSE)
    <2> HIDE DEF S
    <2>3. QED BY <1>1, <1>2, <2>1, <2>2 DEF Scrolls, S
  <1>4. AnalyticsTyped' /\ RowsGood' /\ HeldGood'
    BY <1>1, <1>3 DEF AnalyticsInv, AnalyticsTyped, RowsGood, HeldGood, Stored, Row, HasValidPass, Valid
  <1>5. Listed' = scroll'.left
    BY <1>1, <1>3 DEF Listed, FindByFan, Stored, Row, Valid
  <1>6. \A p \in Listed' : Cardinality(Earlier(p)') >= 0
    <2> TAKE p \in Listed'
    <2>1. Earlier(p)' \in SUBSET PassIds
      BY DEF Earlier, Listed, FindByFan, Stored
    <2>2. QED BY <2>1, AnalyticsAssumption, FS_Subset, FS_CardinalityType
  <1>7. Skipped(scroll'.page, scroll'.limit) = 0
    BY <1>1, <1>3, SkippedIs
  <1>8. Skipped(scroll.page, scroll.limit)' = Skipped(scroll'.page, scroll'.limit)
    BY DEF Skipped, Capped
  <1>9. ScrollGood'
    BY <1>3, <1>5, <1>6, <1>7, <1>8 DEF ScrollGood
  <1>10. QED BY <1>4, <1>9 DEF AnalyticsInv

-----------------------------------------------------------------------------
LEMMA InitAnalyticsInv == Init => AnalyticsInv
  <1> SUFFICES ASSUME Init PROVE AnalyticsInv
    OBVIOUS
  <1>1. NoScroll \in Scrolls /\ NoScroll.left = {}
    BY DEF NoScroll, Scrolls
  <1>2. Stored = {}
    BY DEF Init, Stored
  <1>3. AnalyticsTyped
    BY <1>1 DEF Init, AnalyticsTyped
  <1>4. RowsGood /\ HeldGood /\ ScrollGood
    BY <1>1, <1>2 DEF Init, RowsGood, HeldGood, ScrollGood, HasValidPass
  <1>5. QED BY <1>3, <1>4 DEF AnalyticsInv

LEMMA NextAnalyticsInv == AnalyticsInv /\ [Next]_vars => AnalyticsInv'
  <1> SUFFICES ASSUME AnalyticsInv, [Next]_vars PROVE AnalyticsInv'
    OBVIOUS
  <1>1. CASE Next
    BY <1>1, SaleStep, RedeliverStep, WithdrawStep, UnlockStep, OpenListStep, NextPageStep, TickStep DEF Next
  <1>2. CASE UNCHANGED vars
    <2>1. AnalyticsTyped' /\ RowsGood' /\ HeldGood'
      BY <1>2 DEF vars, AnalyticsInv, AnalyticsTyped, RowsGood, HeldGood, Stored, Row, HasValidPass, Valid
    <2>2. ScrollGood'
      <3>1. Listed \subseteq Stored /\ scroll' = scroll
        BY <1>2 DEF Listed, FindByFan, vars
      <3>2. \A q \in Stored : /\ q \in Stored' /\ Row(q)'.fan = Row(q).fan
                              /\ Row(q)'.until = Row(q).until
        BY <1>2 DEF Stored, Row, vars
      <3>3. QED BY <2>1, <3>1, <3>2, ScrollKept
    <2>3. QED BY <2>1, <2>2 DEF AnalyticsInv
  <1>3. QED BY <1>1, <1>2

LEMMA SpecAnalyticsInv == Spec => []AnalyticsInv
  BY InitAnalyticsInv, NextAnalyticsInv, PTL DEF Spec

\* A content token that verifyContentToken accepts was issued, no longer ago than its
\* life, to a fan with a valid pass of the tier.
THEOREM SpecTokenOutlives == Spec => []TokenOutlives
  <1>1. AnalyticsInv => TokenOutlives
    BY DEF AnalyticsInv, HeldGood, TokenOutlives
  <1>2. QED BY <1>1, SpecAnalyticsInv, PTL

\* A client that reads its subscriptions page by page, whatever is sold meanwhile, misses
\* none of those it had, unless two of them expire at the same instant or a purchase that
\* was delivered again has changed the expiry of one.
THEOREM SpecScrollMissesNone == Spec => []ScrollMissesNone
  <1>1. AnalyticsInv => ScrollMissesNone
    BY DEF AnalyticsInv, ScrollGood, Tied, Listed, ScrollMissesNone
  <1>2. QED BY <1>1, SpecAnalyticsInv, PTL

-----------------------------------------------------------------------------
(* Access.                                                                 *)

LEMMA BooleanIs == \A b \in BOOLEAN : b = TRUE \/ b = FALSE
  OBVIOUS

\* The folds over fans and tiers are sums.
LEMMA AccessSums ==
    /\ MapThenSumSet(LAMBDA f : Cardinality(FindByFan(f, TRUE)), Fans) =
          SumFunctionOnSet([f \in Fans |-> Cardinality(FindByFan(f, TRUE))], Fans)
    /\ MapThenSumSet(LAMBDA t : Cardinality(ActivePasses(t)), Tiers) =
          SumFunctionOnSet([t \in Tiers |-> Cardinality(ActivePasses(t))], Tiers)
  <1>1. /\ \A s \in SUBSET Fans : s # {} => (CHOOSE x \in s : TRUE) \in Fans
        /\ \A s \in SUBSET Tiers : s # {} => (CHOOSE x \in s : TRUE) \in Tiers
    BY PickIn DEF Pick
  <1>2. MapThenSumSet(LAMBDA f : Cardinality(FindByFan(f, TRUE)), Fans) =
          SumFunctionOnSet([f \in Fans |-> Cardinality(FindByFan(f, TRUE))], Fans)
    <2> DEFINE Size(f) == Cardinality(FindByFan(f, TRUE))
               c == [f \in Fans |-> Size(f)]
               Next1(g) == [s \in SUBSET Fans |-> IF s = {} THEN 0
                                ELSE Size(CHOOSE x \in s : TRUE) + g[s \ {CHOOSE x \in s : TRUE}]]
               Next2(g) == [s \in SUBSET Fans |-> IF s = {} THEN 0
                                ELSE c[CHOOSE x \in s : TRUE] + g[s \ {CHOOSE x \in s : TRUE}]]
    <2>1. MapThenSumSet(LAMBDA f : Cardinality(FindByFan(f, TRUE)), Fans) =
             (CHOOSE g : g = Next1(g))[Fans]
      BY DEF MapThenSumSet, MapThenFoldSet
    <2>2. SumFunctionOnSet(c, Fans) = (CHOOSE g : g = Next2(g))[Fans]
      BY DEF SumFunctionOnSet, FoldFunctionOnSet, MapThenFoldSet
    <2>3. \A g : Next1(g) = Next2(g)
      <3>1. \A f \in Fans : c[f] = Size(f)
        OBVIOUS
      <3> HIDE DEF Size, c
      <3>2. \A s \in SUBSET Fans : s # {} => Size(CHOOSE x \in s : TRUE) = c[CHOOSE x \in s : TRUE]
        BY <1>1, <3>1
      <3>3. QED BY <3>2
    <2> HIDE DEF Next1, Next2, c
    <2>4. QED BY <2>1, <2>2, <2>3, Zenon DEF c
  <1>3. MapThenSumSet(LAMBDA t : Cardinality(ActivePasses(t)), Tiers) =
          SumFunctionOnSet([t \in Tiers |-> Cardinality(ActivePasses(t))], Tiers)
    <2> DEFINE Size(t) == Cardinality(ActivePasses(t))
               c == [t \in Tiers |-> Size(t)]
               Next1(g) == [s \in SUBSET Tiers |-> IF s = {} THEN 0
                                ELSE Size(CHOOSE x \in s : TRUE) + g[s \ {CHOOSE x \in s : TRUE}]]
               Next2(g) == [s \in SUBSET Tiers |-> IF s = {} THEN 0
                                ELSE c[CHOOSE x \in s : TRUE] + g[s \ {CHOOSE x \in s : TRUE}]]
    <2>1. MapThenSumSet(LAMBDA t : Cardinality(ActivePasses(t)), Tiers) =
             (CHOOSE g : g = Next1(g))[Tiers]
      BY DEF MapThenSumSet, MapThenFoldSet
    <2>2. SumFunctionOnSet(c, Tiers) = (CHOOSE g : g = Next2(g))[Tiers]
      BY DEF SumFunctionOnSet, FoldFunctionOnSet, MapThenFoldSet
    <2>3. \A g : Next1(g) = Next2(g)
      <3>1. \A t \in Tiers : c[t] = Size(t)
        OBVIOUS
      <3> HIDE DEF Size, c
      <3>2. \A s \in SUBSET Tiers : s # {} => Size(CHOOSE x \in s : TRUE) = c[CHOOSE x \in s : TRUE]
        BY <1>1, <3>1
      <3>3. QED BY <3>2
    <2> HIDE DEF Next1, Next2, c
    <2>4. QED BY <2>1, <2>2, <2>3, Zenon DEF c
  <1>4. QED BY <1>2, <1>3

LEMMA AccessCounts ==
    ASSUME AnalyticsTyped
    PROVE  LET Held(f) == Cardinality(FindByFan(f, TRUE))
               Left(t) == Cardinality(ActivePasses(t))
           IN  /\ PassCount.active = MapThenSumSet(Held, Fans)
               /\ PassCount.active = MapThenSumSet(Left, Tiers)
  <1> DEFINE U == {p \in Stored : Valid(p)}
  <1>1. IsFiniteSet(U) /\ \A p \in U : Row(p).fan \in Fans /\ Row(p).tier \in Tiers
    BY StoredTyped, FS_Subset DEF Rows
  <1>2. PassCount.active = Cardinality(U)
    BY DEF PassCount
  <1>3. Cardinality(U) = SumFunctionOnSet([f \in Fans |-> Cardinality(FindByFan(f, TRUE))], Fans)
    <2> DEFINE k == [p \in U |-> Row(p).fan]
               d == [f \in Fans |-> Cardinality(FindByFan(f, TRUE))]
    <2>1. k \in [U -> Fans]
      BY <1>1
    <2>2. \A f \in Fans : FindByFan(f, TRUE) = {p \in U : k[p] = f}
      BY DEF FindByFan
    <2>3. d \in [Fans -> Int] /\ \A f \in Fans : d[f] = Cardinality({p \in U : k[p] = f})
      <3>1. \A f \in Fans : Cardinality(FindByFan(f, TRUE)) \in Int
        BY StoredTyped, FS_Subset, FS_CardinalityType DEF FindByFan
      <3>2. QED BY <2>2, <3>1
    <2> HIDE DEF k, d, U
    <2>4. SumFunctionOnSet(d, Fans) = Cardinality(U)
      BY <1>1, <2>1, <2>3, AnalyticsAssumption, CountByKey
    <2>5. QED BY <2>4 DEF d
  <1>4. Cardinality(U) = SumFunctionOnSet([t \in Tiers |-> Cardinality(ActivePasses(t))], Tiers)
    <2> DEFINE k == [p \in U |-> Row(p).tier]
               d == [t \in Tiers |-> Cardinality(ActivePasses(t))]
    <2>1. k \in [U -> Tiers]
      BY <1>1
    <2>2. \A t \in Tiers : ActivePasses(t) = {p \in U : k[p] = t}
      BY DEF ActivePasses
    <2>3. d \in [Tiers -> Int] /\ \A t \in Tiers : d[t] = Cardinality({p \in U : k[p] = t})
      <3>1. \A t \in Tiers : Cardinality(ActivePasses(t)) \in Int
        BY StoredTyped, FS_Subset, FS_CardinalityType DEF ActivePasses
      <3>2. QED BY <2>2, <3>1
    <2> HIDE DEF k, d, U
    <2>4. SumFunctionOnSet(d, Tiers) = Cardinality(U)
      BY <1>1, <2>1, <2>3, AnalyticsAssumption, CountByKey
    <2>5. QED BY <2>4 DEF d
  <1>5. QED BY <1>2, <1>3, <1>4, AccessSums, Zenon

LEMMA AccessHolds == AnalyticsInv => AccessAgrees
  <1> SUFFICES ASSUME AnalyticsInv PROVE AccessAgrees
    OBVIOUS
  <1>1. AnalyticsTyped /\ now \in Nat /\ WarnTicks \in Nat
    BY AnalyticsAssumption DEF AnalyticsInv, AnalyticsTyped
  <1>2. ASSUME NEW p \in Stored
        PROVE  /\ Row(p) \in Rows /\ Row(p).fan \in Fans /\ Row(p).tier \in Tiers
               /\ Row(p).until \in Nat /\ Row(p).active \in BOOLEAN
    BY <1>1, StoredTyped DEF Rows
  <1>3. PassCount = PlatformStats
    BY DEF PassCount, PlatformStats, Valid
  <1>4. \A p \in Stored : p \in ExpiringSoon <=> Valid(p) /\ Row(p).until - now <= WarnTicks
    BY <1>1, <1>2 DEF ExpiringSoon, Valid
  <1>5. ASSUME NEW f \in Fans
        PROVE  /\ HasAnyValidPass(f) <=> \E t \in Tiers : HasValidPass(f, t)
               /\ FindByFan(f, TRUE) = {p \in FindByFan(f, FALSE) : ~ShownExpired(p)}
               /\ FindByFan(f, TRUE) = {p \in FindAll(TRUE, FALSE) : Row(p).fan = f}
               /\ FindByFan(f, TRUE) = ShownWith(f)
               /\ f \in NewTierAudience <=> HasAnyValidPass(f)
               /\ \A p \in FindByFan(f, FALSE) : Status(p) = "active" <=> p \in FindByFan(f, TRUE)
    <2>1. HasAnyValidPass(f) <=> \E t \in Tiers : HasValidPass(f, t)
      BY <1>2 DEF HasAnyValidPass, HasValidPass
    <2>2. FindByFan(f, TRUE) = {p \in FindByFan(f, FALSE) : ~ShownExpired(p)}
      <3>1. \A p \in Stored : Valid(p) <=> ~ShownExpired(p)
        BY <1>1, <1>2 DEF Valid, ShownExpired
      <3>2. QED BY <3>1 DEF FindByFan
    <2>3. FindByFan(f, TRUE) = {p \in FindAll(TRUE, FALSE) : Row(p).fan = f}
      <3>1. \A p \in Stored : Row(p).until <= now <=> ~(Row(p).until > now)
        BY <1>1, <1>2
      <3>2. \A p \in Stored : ((Row(p).until <= now) = FALSE) <=> Row(p).until > now
        BY <3>1
      <3>3. \A p \in Stored : (Row(p).active = TRUE) <=> Row(p).active
        BY <1>2
      <3>4. None # TRUE /\ None # FALSE
        BY NoneIsNone
      <3>5. \A p \in Stored : p \in FindAll(TRUE, FALSE) <=> Valid(p)
        BY <3>2, <3>3, <3>4 DEF FindAll, Valid
      <3>6. FindAll(TRUE, FALSE) \subseteq Stored
        BY DEF FindAll
      <3>7. QED BY <3>5, <3>6 DEF FindByFan
    <2>4. FindByFan(f, TRUE) = ShownWith(f)
      BY DEF FindByFan, ShownWith, Valid
    <2>5. f \in NewTierAudience <=> HasAnyValidPass(f)
      BY DEF NewTierAudience, HasAnyValidPass, Valid
    <2>6. \A p \in FindByFan(f, FALSE) : Status(p) = "active" <=> p \in FindByFan(f, TRUE)
      BY DEF FindByFan, Status, Valid
    <2>7. QED BY <2>1, <2>2, <2>3, <2>4, <2>5, <2>6
  <1>6. LET Held(f) == Cardinality(FindByFan(f, TRUE))
            Left(t) == Cardinality(ActivePasses(t))
        IN  /\ PassCount.active = MapThenSumSet(Held, Fans)
            /\ PassCount.active = MapThenSumSet(Left, Tiers)
    BY <1>1, AccessCounts
  <1>7. QED BY <1>3, <1>4, <1>5, <1>6, Zenon DEF AccessAgrees

\* Whatever route the API is asked by, the answer to who has access is the same.
THEOREM SpecAccessAgrees == Spec => []AccessAgrees
  BY AccessHolds, SpecAnalyticsInv, PTL

-----------------------------------------------------------------------------
(* Figures.                                                                *)

LEMMA DivIs ==
    ASSUME NEW a \in Int, NEW b \in Nat \ {0}
    PROVE  /\ a \div b \in Int /\ b * (a \div b) <= a /\ a < b * (a \div b) + b
           /\ \A q \in Int : b * q <= a => q <= a \div b
           /\ \A q \in Int : a < b * q + b => a \div b <= q
  OBVIOUS

LEMMA RowsAre ==
    ASSUME AnalyticsInv, NEW p \in Stored
    PROVE  /\ Row(p) \in Rows /\ Row(p).fan \in Fans /\ Row(p).tier \in Tiers
           /\ Row(p).at \in Nat /\ Row(p).until \in Nat
           /\ Row(p).at <= now /\ Row(p).at < Row(p).until
  BY StoredTyped DEF Rows, AnalyticsInv, RowsGood

\* The window ends with the current day.
LEMMA WindowIs ==
    ASSUME AnalyticsInv, NEW period \in Periods
    PROVE  /\ now \in Nat /\ TicksPerDay \in Nat \ {0} /\ period \in Nat \ {0}
           /\ EndDate \in Int /\ EndDate <= now /\ now < EndDate + TicksPerDay
           /\ StartDate(period) \in Int /\ StartDate(period) <= EndDate
           /\ StartDate(period) + period * TicksPerDay = EndDate + TicksPerDay
           /\ BucketDays(period) \in Nat \ {0} /\ BucketCount(period) \in Int
           /\ InView(period) \in SUBSET Stored
  <1>1. now \in Nat /\ TicksPerDay \in Nat \ {0} /\ period \in Nat \ {0} /\ WeekLen \in Nat \ {0}
    BY AnalyticsAssumption DEF AnalyticsInv, AnalyticsTyped
  <1>2. now % TicksPerDay \in Nat /\ now % TicksPerDay < TicksPerDay
    BY <1>1
  <1>3. EndDate \in Int /\ EndDate <= now /\ now < EndDate + TicksPerDay
    BY <1>1, <1>2 DEF EndDate, Day
  <1>4. /\ (period - 1) * TicksPerDay \in Nat
        /\ (period - 1) * TicksPerDay + TicksPerDay = period * TicksPerDay
    BY <1>1
  <1>5. /\ StartDate(period) \in Int /\ StartDate(period) <= EndDate
        /\ StartDate(period) + period * TicksPerDay = EndDate + TicksPerDay
    BY <1>1, <1>3, <1>4 DEF StartDate
  <1>6. BucketDays(period) \in Nat \ {0}
    BY <1>1 DEF BucketDays
  <1>7. BucketCount(period) \in Int
    BY <1>1, <1>6, DivIs DEF BucketCount
  <1>8. InView(period) \in SUBSET Stored
    BY DEF InView
  <1>9. QED BY <1>1, <1>3, <1>5, <1>6, <1>7, <1>8

LEMMA GrowthHolds == AnalyticsInv => GrowthCounts
  <1> SUFFICES ASSUME AnalyticsInv, NEW period \in Periods, NEW i \in 1..BucketCount(period)
               PROVE  LET from == BucketStart(period, i)
                          to   == AddDays(from, BucketDays(period))
                      IN  SubscriberGrowth(period)[i] = Cardinality({p \in Stored :
                             \E time \in from..to : Row(p).at <= time /\ time < Row(p).until})
    BY DEF GrowthCounts
  <1> DEFINE from == BucketStart(period, i)
             to   == AddDays(from, BucketDays(period))
             a    == StartDate(period)
  <1>1. a \in Int /\ from \in Int /\ to \in Int /\ a <= from /\ from <= to
    <2>1. /\ i \in Int /\ i >= 1 /\ BucketDays(period) \in Nat /\ TicksPerDay \in Nat /\ a \in Int
      BY WindowIs
    <2>2. i - 1 \in Nat
      BY <2>1
    <2>3. \A x, y \in Nat : x * y \in Nat
      OBVIOUS
    <2>4. ((i - 1) * BucketDays(period)) * TicksPerDay \in Nat /\ BucketDays(period) * TicksPerDay \in Nat
      BY <2>1, <2>2, <2>3
    <2>5. /\ from = a + ((i - 1) * BucketDays(period)) * TicksPerDay
          /\ to = from + BucketDays(period) * TicksPerDay
      BY DEF BucketStart, AddDays
    <2> HIDE DEF from, to, a
    <2>6. QED BY <2>1, <2>4, <2>5
  <1>2. SubscriberGrowth(period)[i] = Cardinality({p \in InView(period) : InBucket(p, from, to)})
    BY DEF SubscriberGrowth
  <1> HIDE DEF from, to
  <1>3. {p \in InView(period) : InBucket(p, from, to)} =
        {p \in Stored : \E time \in from..to : Row(p).at <= time /\ time < Row(p).until}
    <2>1. ASSUME NEW p \in Stored
          PROVE  p \in InView(period) /\ InBucket(p, from, to) <=>
                 \E time \in from..to : Row(p).at <= time /\ time < Row(p).until
      <3>1. Row(p).at \in Int /\ Row(p).until \in Int /\ Row(p).at < Row(p).until
        BY RowsAre
      <3>2. ASSUME InBucket(p, from, to)
            PROVE  p \in InView(period) /\ \E time \in from..to : Row(p).at <= time /\ time < Row(p).until
        <4>1. Row(p).at <= to /\ Row(p).until > from
          BY <3>2 DEF InBucket
        <4>2. Row(p).until >= a
          BY <1>1, <3>1, <4>1
        <4>3. CASE Row(p).at <= from
          <5>1. from \in from..to
            BY <1>1
          <5>2. QED BY <4>1, <4>2, <4>3, <5>1 DEF InView
        <4>4. CASE ~(Row(p).at <= from)
          <5>1. Row(p).at \in from..to /\ Row(p).at <= Row(p).at
            BY <1>1, <3>1, <4>1, <4>4
          <5>2. QED BY <3>1, <4>2, <5>1 DEF InView
        <4>5. QED BY <4>3, <4>4
      <3>3. ASSUME NEW time \in from..to, Row(p).at <= time, time < Row(p).until
            PROVE  InBucket(p, from, to)
        BY <1>1, <3>1, <3>3 DEF InBucket
      <3>4. QED BY <3>2, <3>3
    <2>2. QED BY <2>1, WindowIs
  <1>4. QED BY <1>2, <1>3 DEF from, to

-----------------------------------------------------------------------------
(* Churn and retention.                                                    *)

LEMMA RoundedIs ==
    ASSUME NEW x \in Int, NEW unit \in Nat \ {0}, NEW n \in Rounded(x, unit)
    PROVE  n \in Int /\ -unit <= 2 * (n * unit - x) /\ 2 * (n * unit - x) <= unit
  <1>1. x \div unit \in Int
    BY DivIs
  <1>2. n \in Int /\ 2 * (n * unit - x) \in -unit..unit
    BY <1>1 DEF Rounded
  <1>3. n * unit \in Int
    BY <1>2
  <1> DEFINE w == n * unit
  <1> HIDE DEF w
  <1>4. w \in Int /\ 2 * (w - x) \in -unit..unit
    BY <1>2, <1>3 DEF w
  <1>5. -unit <= 2 * (w - x) /\ 2 * (w - x) <= unit
    BY <1>4
  <1>6. QED BY <1>2, <1>5 DEF w

\* A factor may be taken from both sides.
LEMMA Cancel ==
    ASSUME NEW a \in Int, NEW b \in Int, NEW k \in Nat \ {0}, k * a <= k * b
    PROVE  a <= b
  <1> SUFFICES ASSUME a >= b + 1 PROVE FALSE
    OBVIOUS
  <1>1. k * a >= k * (b + 1) /\ k * (b + 1) = k * b + k
    OBVIOUS
  <1>2. k * a \in Int /\ k * b \in Int
    OBVIOUS
  <1>3. QED BY <1>1, <1>2

LEMMA RateAtMost ==
    ASSUME NEW n \in Nat, NEW base \in Nat, n <= base, NEW x \in Rate(n, base)
    PROVE  x <= 1000
  <1>1. CASE base = 0
    BY <1>1 DEF Rate
  <1>2. CASE base # 0
    <2> DEFINE u == x * base
               x2 == 2 * x
    <2>1. x \in Int /\ 2 * (u - 1000 * n) <= base
      BY <1>2, RoundedIs DEF Rate
    <2>2. u \in Int /\ base * x2 = 2 * u
      BY <2>1
    <2> HIDE DEF u
    <2>3. x2 \in Int /\ base \in Nat \ {0} /\ base * x2 <= base * 2001
      BY <1>2, <2>1, <2>2
    <2> HIDE DEF x2
    <2>4. x2 <= 2001
      BY <2>3, Cancel
    <2>5. QED BY <2>1, <2>4 DEF x2
  <1>3. QED BY <1>1, <1>2

LEMMA RatesAddUp ==
    ASSUME NEW n \in Nat, NEW base \in Nat \ {0}, n <= base,
           NEW x \in Rate(n, base), NEW y \in Rate(base - n, base)
    PROVE  x + y \in 999..1001
  <1> DEFINE u == x * base
             v == y * base
             m == 1000 * (base - n)
             z == x + y
  <1>1. x \in Int /\ 2 * (u - 1000 * n) <= base /\ -base <= 2 * (u - 1000 * n)
    BY RoundedIs DEF Rate
  <1>2. y \in Int /\ 2 * (v - m) <= base /\ -base <= 2 * (v - m)
    <2>1. m \in Int /\ y \in Rounded(m, base)
      BY DEF Rate
    <2> HIDE DEF m
    <2>2. QED BY <2>1, RoundedIs
  <1>3. /\ u \in Int /\ v \in Int /\ m = 1000 * base - 1000 * n
        /\ z \in Int /\ base * z = u + v
    BY <1>1, <1>2
  <1> HIDE DEF u, v, m, z
  <1>4. base * z <= base * 1001 /\ base * 999 <= base * z
    BY <1>1, <1>2, <1>3
  <1>5. z <= 1001 /\ 999 <= z
    BY <1>3, <1>4, Cancel
  <1>6. QED BY <1>3, <1>5 DEF z

LEMMA CountUnion ==
    ASSUME NEW A, NEW B, IsFiniteSet(A), IsFiniteSet(B), A \cap B = {}
    PROVE  Cardinality(A \cup B) = Cardinality(A) + Cardinality(B)
  <1>1. Cardinality(A) \in Nat /\ Cardinality(B) \in Nat
    BY FS_CardinalityType
  <1>2. Cardinality(A \cup B) = Cardinality(A) + Cardinality(B) - Cardinality(A \cap B)
    BY FS_Union
  <1>3. Cardinality(A \cap B) = 0
    BY FS_EmptySet
  <1>4. QED BY <1>1, <1>2, <1>3

LEMMA FlowHolds == AnalyticsInv => FlowBalances
  <1> SUFFICES ASSUME AnalyticsInv, NEW period \in Periods
               PROVE  LET old  == ActiveAt(StartDate(period), Stored)
                          new  == {p \in ActiveAt(EndDate, Stored) : Row(p).at > StartDate(period)}
                      IN  /\ Cardinality(ActiveAt(EndDate, Stored)) =
                                Cardinality(old) - Cardinality(Churned(period)) + Cardinality(new)
                          /\ \A churn \in ChurnRate(period), kept \in RetentionRate(period) :
                                /\ churn <= 1000
                                /\ old # {} /\ new = {} => churn + kept \in 999..1001
    BY DEF FlowBalances
  <1> DEFINE a == StartDate(period)
             old == ActiveAt(a, Stored)
             new == {p \in ActiveAt(EndDate, Stored) : Row(p).at > a}
             end == ActiveAt(EndDate, Stored)
             gone == Churned(period)
             stay == {p \in old : Row(p).until > EndDate}
  <1>1. a \in Int /\ EndDate \in Int /\ a <= EndDate
    BY WindowIs
  <1> HIDE DEF a
  <1>2. \A p \in Stored : Row(p).at \in Int /\ Row(p).until \in Int
    BY RowsAre
  <1>3. /\ ActiveAt(a, InView(period)) = old
        /\ ActiveAt(EndDate, InView(period)) = end
    <2>1. \A p \in Stored : Row(p).until > a \/ Row(p).until > EndDate => p \in InView(period)
      BY <1>1, <1>2 DEF InView, a
    <2>2. InView(period) \subseteq Stored
      BY DEF InView
    <2>3. QED BY <2>1, <2>2 DEF ActiveAt
  <1>4. gone = {p \in old : Row(p).until <= EndDate}
    BY <1>3 DEF Churned, a
  <1>5. /\ old = gone \cup stay /\ gone \cap stay = {}
        /\ end = stay \cup new /\ stay \cap new = {}
    BY <1>1, <1>2, <1>4 DEF ActiveAt
  <1>6. \A S \in {old, new, end, gone, stay} : S \in SUBSET Stored
    BY <1>4 DEF ActiveAt
  <1> HIDE DEF old, new, end, gone, stay
  <1>7. \A S \in {old, new, end, gone, stay} : IsFiniteSet(S) /\ Cardinality(S) \in Nat
    BY <1>6, StoredTyped, FS_Subset, FS_CardinalityType DEF AnalyticsInv
  <1>8. /\ Cardinality(old) = Cardinality(gone) + Cardinality(stay)
        /\ Cardinality(end) = Cardinality(stay) + Cardinality(new)
    BY <1>5, <1>7, CountUnion
  <1>9. /\ ChurnRate(period) = Rate(Cardinality(gone), Cardinality(old))
        /\ RetentionRate(period) = Rate(Cardinality(end), Cardinality(old))
    BY <1>3 DEF ChurnRate, RetentionRate, gone, a
  <1>10. Cardinality(end) = Cardinality(old) - Cardinality(gone) + Cardinality(new)
    BY <1>7, <1>8
  <1>11. \A churn \in ChurnRate(period) : churn <= 1000
    BY <1>7, <1>8, <1>9, RateAtMost
  <1>12. ASSUME NEW churn \in ChurnRate(period), NEW kept \in RetentionRate(period),
                old # {}, new = {}
         PROVE  churn + kept \in 999..1001
    <2>1. Cardinality(old) # 0 /\ Cardinality(new) = 0
      BY <1>7, <1>12, FS_EmptySet
    <2>2. Cardinality(end) = Cardinality(old) - Cardinality(gone) /\ Cardinality(gone) <= Cardinality(old)
      BY <1>7, <1>8, <2>1
    <2>3. QED BY <1>7, <1>9, <2>1, <2>2, RatesAddUp
  <1>13. QED BY <1>10, <1>11, <1>12 DEF old, new, end, gone, a

-----------------------------------------------------------------------------
(* Purchases by day.                                                       *)

LEMMA SeriesHolds == AnalyticsInv => SeriesAddsUp
  <1> SUFFICES ASSUME AnalyticsInv, NEW t \in Tiers, NEW period \in Periods
               PROVE  FoldSeq(+, 0, PurchasesByDay(t, period)) = Cardinality(Purchases(t, period))
    BY DEF SeriesAddsUp
  <1> DEFINE q == PurchasesByDay(t, period)
             U == Purchases(t, period)
             a == StartDate(period)
             k == [p \in U |-> (Row(p).at - a) \div TicksPerDay + 1]
  <1>1. FoldSeq(+, 0, q) = SumFunctionOnSet(q, DOMAIN q)
    BY DEF FoldSeq, FoldFunction, SumFunctionOnSet
  <1>2. /\ a \in Int /\ TicksPerDay \in Nat \ {0} /\ period \in Nat \ {0} /\ now \in Nat
        /\ EndDate \in Int /\ a + period * TicksPerDay = EndDate + TicksPerDay
        /\ now < EndDate + TicksPerDay
    BY WindowIs
  <1>3. IsFiniteSet(U) /\ \A p \in U : Row(p).at \in Nat /\ a <= Row(p).at /\ Row(p).at <= now
    <2>1. U \in SUBSET Stored
      BY DEF Purchases
    <2>2. QED BY <2>1, RowsAre, StoredTyped, FS_Subset DEF Purchases, AnalyticsInv
  <1>4. DOMAIN q = 1..period
    BY DEF PurchasesByDay
  <1> HIDE DEF a, U, k
  <1>5. ASSUME NEW p \in U, NEW i \in 1..period
        PROVE  k[p] \in 1..period /\ (OnDay(p, AddDays(a, i - 1)) <=> k[p] = i)
    <2> DEFINE b == TicksPerDay
               n == Row(p).at - a
               d == n \div b
    <2>1. /\ b \in Nat \ {0} /\ n \in Int /\ n >= 0 /\ n < period * b /\ i \in Int /\ i >= 1
          /\ i <= period /\ k[p] = d + 1
      BY <1>2, <1>3 DEF k
    <2>2. OnDay(p, AddDays(a, i - 1)) <=> (i - 1) * b <= n /\ n < (i - 1) * b + b
      <3> DEFINE m == (i - 1) * b
      <3>1. m \in Int /\ 1 * b = b
        BY <2>1
      <3>2. AddDays(a, i - 1) = a + m /\ AddDays(AddDays(a, i - 1), 1) = a + m + b
        BY <3>1 DEF AddDays
      <3>3. Row(p).at \in Int /\ a \in Int /\ n = Row(p).at - a
        BY <1>2, <1>3
      <3> HIDE DEF m, n, b
      <3>4. QED BY <2>1, <3>1, <3>2, <3>3 DEF OnDay, m
    <2> HIDE DEF b, n, d
    <2>3. /\ d \in Int /\ b * d <= n /\ n < b * d + b
          /\ \A z \in Int : b * z <= n => z <= d
          /\ \A z \in Int : n < b * z + b => d <= z
      BY <2>1, DivIs DEF d
    <2>4. d >= 0
      BY <2>1, <2>3
    <2>5. d <= period - 1
      <3>1. period - 1 \in Int /\ b * (period - 1) + b = period * b
        BY <1>2, <2>1
      <3>2. QED BY <2>1, <2>3, <3>1
    <2>6. k[p] \in 1..period
      BY <1>2, <2>1, <2>3, <2>4, <2>5
    <2>7. (i - 1) * b <= n /\ n < (i - 1) * b + b <=> d = i - 1
      <3>1. i - 1 \in Int /\ (i - 1) * b = b * (i - 1)
        BY <2>1
      <3>2. b * (i - 1) <= n /\ n < b * (i - 1) + b => d = i - 1
        BY <2>3, <3>1
      <3>3. QED BY <2>3, <3>1, <3>2
    <2>8. QED BY <2>1, <2>2, <2>3, <2>6, <2>7
  <1>6. k \in [U -> 1..period]
    <2>1. 1 \in 1..period
      BY <1>2
    <2>2. QED BY <1>5, <2>1 DEF k
  <1>7. /\ q \in [1..period -> Int]
        /\ \A i \in 1..period : q[i] = Cardinality({p \in U : k[p] = i})
    <2>1. \A i \in 1..period : q[i] = Cardinality({p \in U : OnDay(p, AddDays(a, i - 1))})
      BY DEF PurchasesByDay, U, a
    <2>2. \A i \in 1..period : {p \in U : OnDay(p, AddDays(a, i - 1))} = {p \in U : k[p] = i}
      BY <1>5
    <2>3. \A i \in 1..period : Cardinality({p \in U : k[p] = i}) \in Int
      BY <1>3, FS_Subset, FS_CardinalityType
    <2>4. \A i \in 1..period : q[i] \in Int /\ q[i] = Cardinality({p \in U : k[p] = i})
      BY <2>1, <2>2, <2>3
    <2>5. q = [i \in 1..period |-> q[i]]
      BY DEF PurchasesByDay
    <2> HIDE DEF q
    <2>6. QED BY <2>4, <2>5
  <1>8. IsFiniteSet(1..period)
    <2>1. 1 \in Int /\ period \in Int
      BY <1>2
    <2>2. QED BY <2>1, FS_Interval
  <1> HIDE DEF q
  <1>9. SumFunctionOnSet(q, 1..period) = Cardinality(U)
    BY <1>3, <1>6, <1>7, <1>8, CountByKey
  <1>10. QED BY <1>1, <1>4, <1>9 DEF q, U

-----------------------------------------------------------------------------
(* Revenue.                                                                *)

Paid == [p \in Stored |-> PriceOf(p)]

LEMMA PaidTyped ==
    ASSUME AnalyticsInv
    PROVE  IsFiniteSet(Stored) /\ Paid \in [Stored -> Int] /\ \A p \in Stored : Paid[p] = PriceOf(p)
  BY RowsAre, StoredTyped, AnalyticsAssumption DEF AnalyticsInv, Paid, PriceOf

LEMMA PricesAreSum ==
    ASSUME NEW T \in SUBSET Stored
    PROVE  MapThenSumSet(PriceOf, T) = SumFunctionOnSet(Paid, T)
  <1> DEFINE Next1(g) == [s \in SUBSET T |-> IF s = {} THEN 0
                              ELSE PriceOf(CHOOSE x \in s : TRUE) + g[s \ {CHOOSE x \in s : TRUE}]]
             Next2(g) == [s \in SUBSET T |-> IF s = {} THEN 0
                              ELSE Paid[CHOOSE x \in s : TRUE] + g[s \ {CHOOSE x \in s : TRUE}]]
  <1>1. MapThenSumSet(PriceOf, T) = (CHOOSE g : g = Next1(g))[T]
    BY DEF MapThenSumSet, MapThenFoldSet
  <1>2. SumFunctionOnSet(Paid, T) = (CHOOSE g : g = Next2(g))[T]
    BY DEF SumFunctionOnSet, FoldFunctionOnSet, MapThenFoldSet
  <1>3. \A g : Next1(g) = Next2(g)
    <2>1. \A s \in SUBSET T : s # {} => (CHOOSE x \in s : TRUE) \in Stored
      BY PickIn DEF Pick
    <2>2. \A p \in Stored : Paid[p] = PriceOf(p)
      BY DEF Paid
    <2>3. \A s \in SUBSET T : s # {} => PriceOf(CHOOSE x \in s : TRUE) = Paid[CHOOSE x \in s : TRUE]
      BY <2>1, <2>2
    <2>4. QED BY <2>3
  <1> HIDE DEF Next1, Next2
  <1>4. QED BY <1>1, <1>2, <1>3, Zenon

\* getEarnings adds each price to what it has: a recursion of its own, with one solution.
LEMMA EarningsAreSum ==
    ASSUME AnalyticsInv
    PROVE  TotalEarnings = SumFunctionOnSet(Paid, Stored)
  <1> DEFINE Next1(g) == [s \in SUBSET Stored |-> IF s = {} THEN 0
                              ELSE g[s \ {Pick(s)}] + PriceOf(Pick(s))]
             h == CHOOSE g : g = Next1(g)
  <1>1. TotalEarnings = h[Stored]
    BY DEF TotalEarnings, FoldSet, MapThenFoldSet, Pick
  <1>2. PICK g \in [SUBSET Stored -> Int] : Sums(Paid, g, Stored)
    BY PaidTyped, SumsExist
  <1>3. /\ \A s \in SUBSET Stored : g[s] = IF s = {} THEN 0 ELSE Paid[Pick(s)] + g[s \ {Pick(s)}]
        /\ SumFunctionOnSet(Paid, Stored) = g[Stored]
    <2>1. Stored \in SUBSET Stored
      OBVIOUS
    <2>2. SumFunctionOnSet(Paid, Stored) = g[Stored]
      BY <1>2, <2>1, PaidTyped, SumsGiveSum
    <2>3. QED BY <1>2, <2>2 DEF Sums
  <1>4. \A s \in SUBSET Stored : s # {} =>
           /\ Pick(s) \in s /\ s \ {Pick(s)} \in SUBSET Stored /\ g[s \ {Pick(s)}] \in Int
           /\ PriceOf(Pick(s)) = Paid[Pick(s)] /\ Paid[Pick(s)] \in Int
    BY PickIn, PaidTyped
  <1>5. g = Next1(g)
    BY <1>3, <1>4
  <1>6. h = Next1(h)
    BY <1>5
  <1> HIDE DEF h
  <1>7. \A s \in SUBSET Stored : h[s] = IF s = {} THEN 0 ELSE h[s \ {Pick(s)}] + PriceOf(Pick(s))
    BY <1>6
  <1> DEFINE N == {n \in Nat : \A s \in SUBSET Stored : Cardinality(s) <= n => h[s] = g[s]}
  <1>8. \A s \in SUBSET Stored : IsFiniteSet(s) /\ Cardinality(s) \in Nat
    BY PaidTyped, FS_Subset, FS_CardinalityType
  <1>9. h[{}] = g[{}]
    BY <1>3, <1>7
  <1>10. 0 \in N
    <2>1. \A s \in SUBSET Stored : Cardinality(s) <= 0 => s = {}
      BY <1>8, FS_EmptySet
    <2>2. QED BY <1>9, <2>1
  <1>11. ASSUME NEW n \in Nat, n \in N PROVE n + 1 \in N
    <2>1. ASSUME NEW s \in SUBSET Stored, Cardinality(s) <= n + 1, s # {} PROVE h[s] = g[s]
      <3>1. Cardinality(s \ {Pick(s)}) = Cardinality(s) - 1
        BY <1>4, <1>8, <2>1, FS_RemoveElement
      <3>2. h[s \ {Pick(s)}] = g[s \ {Pick(s)}]
        BY <1>8, <1>11, <2>1, <3>1
      <3>3. /\ h[s] = h[s \ {Pick(s)}] + PriceOf(Pick(s))
            /\ g[s] = Paid[Pick(s)] + g[s \ {Pick(s)}]
        BY <1>3, <1>7, <2>1
      <3>4. QED BY <1>4, <2>1, <3>2, <3>3
    <2>2. \A s \in SUBSET Stored : Cardinality(s) <= n + 1 => h[s] = g[s]
      BY <1>9, <2>1, Zenon
    <2>3. QED BY <2>2
  <1>12. \A n \in Nat : n \in N => n + 1 \in N
    BY <1>11
  <1> HIDE DEF N
  <1>13. Cardinality(Stored) \in N
    BY <1>8, <1>10, <1>12, SetInduction
  <1>14. h[Stored] = g[Stored]
    BY <1>8, <1>13 DEF N
  <1>15. QED BY <1>1, <1>3, <1>14

LEMMA TierRevenues ==
    ASSUME AnalyticsInv
    PROVE  /\ IsFiniteSet(SoldTiers)
           /\ \A t \in SoldTiers : RevenueOf(t) \in Int
           /\ SumFunctionOnSet([t \in SoldTiers |-> RevenueOf(t)], SoldTiers) =
                 SumFunctionOnSet(Paid, Stored)
  <1> DEFINE d == [t \in SoldTiers |-> RevenueOf(t)]
             k == [p \in Stored |-> Row(p).tier]
  <1>1. IsFiniteSet(SoldTiers)
    <2>1. SoldTiers \in SUBSET Tiers
      BY RowsAre DEF SoldTiers
    <2>2. QED BY <2>1, AnalyticsAssumption, FS_Subset
  <1>2. ASSUME NEW t \in SoldTiers
        PROVE  RevenueOf(t) \in Int /\ RevenueOf(t) = SumFunctionOnSet(Paid, {p \in Stored : k[p] = t})
    <2>1. {p \in Stored : Row(p).tier = t} \in SUBSET Stored
      OBVIOUS
    <2>2. RevenueOf(t) = SumFunctionOnSet(Paid, {p \in Stored : Row(p).tier = t})
      BY <2>1, PricesAreSum DEF RevenueOf
    <2>3. {p \in Stored : Row(p).tier = t} = {p \in Stored : k[p] = t}
      OBVIOUS
    <2>4. SumFunctionOnSet(Paid, {p \in Stored : Row(p).tier = t}) \in Int
      BY <2>1, PaidTyped, SumRules
    <2>5. QED BY <2>2, <2>3, <2>4
  <1>3. d \in [SoldTiers -> Int] /\ k \in [Stored -> SoldTiers]
    BY <1>2 DEF SoldTiers
  <1>4. \A t \in SoldTiers : d[t] = SumFunctionOnSet(Paid, {p \in Stored : k[p] = t})
    BY <1>2
  <1> HIDE DEF k
  <1>5. SumFunctionOnSet(d, SoldTiers) = SumFunctionOnSet(Paid, Stored)
    <2> HIDE DEF d
    <2>1. QED BY <1>1, <1>3, <1>4, PaidTyped, SumByKey
  <1>6. QED BY <1>1, <1>2, <1>5

LEMMA TopEarnMost ==
    ASSUME AnalyticsInv, NEW t \in SoldTiers \ ToSet(TopTiers), NEW u \in ToSet(TopTiers)
    PROVE  RevenueOf(t) <= RevenueOf(u)
  <1> DEFINE InOrder(s) == \A i, j \in DOMAIN s : i < j => EarnsMore(s[i], s[j])
             z == CHOOSE s \in SetToSeqs(SoldTiers) : InOrder(s)
             n == Cardinality(SoldTiers)
             m == IF Len(z) < TopCount THEN Len(z) ELSE TopCount
  <1>1. IsFiniteSet(SoldTiers) /\ \A v \in SoldTiers : RevenueOf(v) \in Int
    BY TierRevenues
  <1>2. \E s \in SetToSeqs(SoldTiers) : InOrder(s)
    <2> DEFINE c == [v \in SoldTiers |-> RevenueOf(v)]
    <2>1. c \in [SoldTiers -> Int] /\ \A v \in SoldTiers : c[v] = RevenueOf(v)
      BY <1>1
    <2> HIDE DEF c
    <2>2. PICK s \in SetToSeqs(SoldTiers) : \A i, j \in DOMAIN s : i < j => c[s[i]] >= c[s[j]]
      BY <1>1, <2>1, SortExists
    <2>3. \A i \in DOMAIN s : s[i] \in SoldTiers
      BY DEF SetToSeqs
    <2>4. QED BY <2>1, <2>2, <2>3 DEF EarnsMore
  <1>3. z \in SetToSeqs(SoldTiers) /\ InOrder(z)
    BY <1>2
  <1>4. TopTiers = SubSeq(z, 1, m)
    BY DEF TopTiers
  <1> HIDE DEF z
  <1>5. n \in Nat
    BY <1>1, FS_CardinalityType
  <1>6. z \in [1..n -> SoldTiers] /\ \A i, j \in 1..n : i # j => z[i] # z[j]
    BY <1>3 DEF SetToSeqs
  <1>7. Cardinality(1..n) = n
    <2>1. 1 \in Int /\ n \in Int
      BY <1>5
    <2> HIDE DEF n
    <2>2. Cardinality(1..n) = IF 1 > n THEN 0 ELSE n - 1 + 1
      BY <2>1, FS_Interval
    <2>3. QED BY <1>5, <2>2
  <1>8. z \in Surjection(1..n, SoldTiers)
    <2>1. z \in Injection(1..n, SoldTiers)
      BY <1>6 DEF Injection, IsInjective
    <2> DEFINE I == 1..n
    <2> HIDE DEF I
    <2>2. QED BY <1>1, <1>7, <2>1, FS_Injection DEF I
  <1> HIDE DEF n
  <1>9. z \in Seq(SoldTiers) /\ Len(z) = n /\ DOMAIN z = 1..n
    BY <1>5, <1>6
  <1>10. m \in Nat /\ m <= n
    BY <1>5, <1>9, AnalyticsAssumption
  <1> HIDE DEF m
  <1>11. ToSet(TopTiers) = {z[i] : i \in 1..m}
    <2>1. DOMAIN TopTiers = 1..m /\ \A i \in 1..m : TopTiers[i] = z[i]
      BY <1>4, <1>5, <1>9, <1>10
    <2>2. QED BY <2>1 DEF ToSet
  <1>12. PICK i \in 1..m : u = z[i]
    BY <1>11
  <1>13. PICK j \in 1..n : t = z[j]
    BY <1>8 DEF Surjection
  <1>14. j \notin 1..m
    BY <1>11, <1>13
  <1>15. i \in 1..n /\ i < j
    BY <1>5, <1>10, <1>12, <1>13, <1>14
  <1>16. RevenueOf(z[i]) >= RevenueOf(z[j])
    BY <1>3, <1>9, <1>13, <1>15 DEF EarnsMore
  <1>17. RevenueOf(z[i]) \in Int /\ RevenueOf(z[j]) \in Int
    BY <1>1, <1>6, <1>13, <1>15
  <1>18. QED BY <1>12, <1>13, <1>16, <1>17

LEMMA RevenueHolds == AnalyticsInv => RevenueAddsUp
  <1> SUFFICES ASSUME AnalyticsInv PROVE RevenueAddsUp
    OBVIOUS
  <1> DEFINE sum == SumFunctionOnSet(Paid, Stored)
             d == [t \in SoldTiers |-> RevenueOf(t)]
             n == Cardinality(SoldTiers)
  <1>1. TotalRevenue = Rounded(sum, Cent) /\ TotalEarnings = sum
    BY PricesAreSum, EarningsAreSum DEF TotalRevenue
  <1>2. sum \in Int /\ Cent \in Nat \ {0}
    BY PaidTyped, SumRules, AnalyticsAssumption
  <1>3. /\ IsFiniteSet(SoldTiers) /\ n \in Nat
        /\ d \in [SoldTiers -> Int] /\ SumFunctionOnSet(d, SoldTiers) = sum
        /\ \A t \in SoldTiers : d[t] = RevenueOf(t)
    BY TierRevenues, FS_CardinalityType
  <1> HIDE DEF sum, d, n
  <1>4. ASSUME NEW total \in TotalRevenue
        PROVE  total \in Int /\ -Cent <= 2 * (total * Cent - sum) /\ 2 * (total * Cent - sum) <= Cent
    BY <1>1, <1>2, RoundedIs
  <1>5. ASSUME NEW total \in TotalRevenue,
               NEW shown \in [SoldTiers -> UNION {ShownRevenue(t) : t \in SoldTiers}],
               \A t \in SoldTiers : shown[t] \in ShownRevenue(t)
        PROVE  2 * (SumFunctionOnSet(shown, SoldTiers) - total) \in -(n + 1)..(n + 1)
    <2>1. \A t \in SoldTiers :
             /\ shown[t] \in Int
             /\ -Cent <= 2 * (shown[t] * Cent - d[t]) /\ 2 * (shown[t] * Cent - d[t]) <= Cent
      <3> TAKE t \in SoldTiers
      <3>1. shown[t] \in Rounded(d[t], Cent) /\ d[t] \in Int
        BY <1>3, <1>5 DEF ShownRevenue
      <3>2. QED BY <1>2, <3>1, RoundedIs
    <2>2. shown \in [SoldTiers -> Int]
      BY <2>1
    <2> DEFINE s == SumFunctionOnSet(shown, SoldTiers)
               sc == s * Cent
               tc == total * Cent
               nc == n * Cent
    <2>3. s \in Int
      BY <1>3, <2>2, SumRules
    <2>4. -nc <= 2 * (sc - sum) /\ 2 * (sc - sum) <= nc
      BY <1>2, <1>3, <2>1, <2>2, SumNear DEF n
    <2> DEFINE e == 2 * (s - total)
               m == n + 1
    <2> HIDE DEF s
    <2>5. /\ sc \in Int /\ tc \in Int /\ nc \in Int /\ e \in Int /\ m \in Nat
          /\ Cent * e = 2 * sc - 2 * tc /\ Cent * m = nc + Cent /\ Cent * (-m) = -nc - Cent
      BY <1>2, <1>3, <1>4, <2>3
    <2>6. -Cent <= 2 * (tc - sum) /\ 2 * (tc - sum) <= Cent
      BY <1>4
    <2> HIDE DEF sc, tc, nc, e, m
    <2>7. Cent * (-m) <= Cent * e /\ Cent * e <= Cent * m
      BY <1>2, <2>4, <2>5, <2>6
    <2>8. -m <= e /\ e <= m
      BY <1>2, <2>5, <2>7, Cancel
    <2>9. QED BY <2>5, <2>8 DEF e, m, s
  <1>6. ASSUME NEW total \in TotalRevenue PROVE 2 * (total * Cent - TotalEarnings) \in -Cent..Cent
    <2> DEFINE tc == total * Cent
    <2>1. tc \in Int /\ -Cent <= 2 * (tc - sum) /\ 2 * (tc - sum) <= Cent
      BY <1>2, <1>4
    <2> HIDE DEF tc
    <2>2. QED BY <1>1, <1>2, <2>1 DEF tc
  <1>7. QED BY <1>5, <1>6, TopEarnMost DEF RevenueAddsUp, n

-----------------------------------------------------------------------------
(* The average.                                                            *)

LEMMA RanIsSum ==
    ASSUME NEW T
    PROVE  MapThenSumSet(Ran, T) = SumFunctionOnSet([p \in T |-> Ran(p)], T)
  <1> DEFINE c == [p \in T |-> Ran(p)]
             Next1(g) == [s \in SUBSET T |-> IF s = {} THEN 0
                              ELSE Ran(CHOOSE x \in s : TRUE) + g[s \ {CHOOSE x \in s : TRUE}]]
             Next2(g) == [s \in SUBSET T |-> IF s = {} THEN 0
                              ELSE c[CHOOSE x \in s : TRUE] + g[s \ {CHOOSE x \in s : TRUE}]]
  <1>1. MapThenSumSet(Ran, T) = (CHOOSE g : g = Next1(g))[T]
    BY DEF MapThenSumSet, MapThenFoldSet
  <1>2. SumFunctionOnSet(c, T) = (CHOOSE g : g = Next2(g))[T]
    BY DEF SumFunctionOnSet, FoldFunctionOnSet, MapThenFoldSet
  <1>3. \A g : Next1(g) = Next2(g)
    <2>1. \A p \in T : c[p] = Ran(p)
      OBVIOUS
    <2>2. \A s \in SUBSET T : s # {} => (CHOOSE x \in s : TRUE) \in T
      BY PickIn DEF Pick
    <2> HIDE DEF c
    <2>3. \A s \in SUBSET T : s # {} => Ran(CHOOSE x \in s : TRUE) = c[CHOOSE x \in s : TRUE]
      BY <2>1, <2>2
    <2>4. QED BY <2>3
  <1> HIDE DEF Next1, Next2, c
  <1>4. QED BY <1>1, <1>2, <1>3, Zenon DEF c

LEMMA AverageHolds == AnalyticsInv => AverageIsOne
  <1> SUFFICES ASSUME AnalyticsInv, NEW period \in Periods,
                      NEW average \in AvgPassDuration(period), InView(period) # {}
               PROVE  \E p \in InView(period) :
                         2 * average * TicksPerDay <= 20 * Ran(p) + TicksPerDay
    BY DEF AverageIsOne
  <1> DEFINE V == InView(period)
             c == [p \in V |-> Ran(p)]
  <1>1. /\ V \in SUBSET Stored /\ EndDate \in Int /\ TicksPerDay \in Nat \ {0}
        /\ IsFiniteSet(V) /\ Cardinality(V) \in Nat
    BY WindowIs, StoredTyped, FS_Subset, FS_CardinalityType DEF AnalyticsInv
  <1>2. \A p \in V : Ran(p) \in Int
    <2> SUFFICES ASSUME NEW p \in Stored PROVE Ran(p) \in Int
      BY <1>1
    <2>1. Row(p).at \in Int /\ Row(p).until \in Int
      BY RowsAre
    <2>2. QED BY <1>1, <2>1 DEF Ran
  <1>3. c \in [V -> Int] /\ V # {} /\ Cardinality(V) # 0
    BY <1>1, <1>2, FS_EmptySet
  <1> HIDE DEF V
  <1>4. PICK p \in V : \A v \in V : c[v] <= c[p]
    BY <1>1, <1>3, MaxExists
  <1> DEFINE r == Ran(p)
             k == Cardinality(V)
             b == TicksPerDay
             total == SumFunctionOnSet(c, V)
             n == k * b
  <1>5. r \in Int /\ k \in Nat /\ k > 0 /\ b \in Nat /\ b > 0
    BY <1>1, <1>2, <1>3, <1>4
  <1>6. total \in Int /\ total <= k * r
    <2>1. \A v \in V : c[v] <= r
      BY <1>2, <1>4
    <2>2. V \in SUBSET V
      OBVIOUS
    <2> HIDE DEF r, c, k
    <2>3. QED BY <1>1, <1>3, <1>5, <2>1, <2>2, SumRules, SumBound DEF k
  <1>7. average \in Rounded(10 * total, n) /\ n \in Nat \ {0}
    <2>1. MapThenSumSet(Ran, V) = total
      BY RanIsSum
    <2>2. n \in Nat \ {0}
      <3> HIDE DEF k, b
      <3>1. QED BY <1>5
    <2>3. QED BY <2>1, <2>2 DEF AvgPassDuration, V
  <1> HIDE DEF c, k, b, r, total
  <1>8. average \in Int /\ 2 * (average * n - 10 * total) <= n
    <2> DEFINE ten == 10 * total
    <2>1. ten \in Int
      BY <1>6
    <2> HIDE DEF ten, n
    <2>2. average \in Int /\ 2 * (average * n - ten) <= n
      BY <1>7, <2>1, RoundedIs DEF ten
    <2>3. QED BY <2>2 DEF ten
  <1> DEFINE x == 2 * average * b
             y == 20 * r + b
             an == average * n
             kr == k * r
  <1>9. /\ x \in Int /\ y \in Int /\ an \in Int /\ kr \in Int /\ n \in Int
        /\ k * x = 2 * an /\ k * y = 20 * kr + n
    BY <1>5, <1>8
  <1> HIDE DEF an, kr, n, x, y
  <1>10. k * x <= k * y
    BY <1>6, <1>8, <1>9 DEF an, kr
  <1>11. x <= y
    BY <1>5, <1>9, <1>10, Cancel
  <1>12. QED BY <1>4, <1>11 DEF x, y, r, b, V

\* For any table, prices and windows, the figures are consistent with the table and with
\* one another.
THEOREM SpecFiguresAddUp == Spec => []FiguresAddUp
  <1>1. AnalyticsInv => FiguresAddUp
    BY GrowthHolds, FlowHolds, SeriesHolds, RevenueHolds, AverageHolds DEF FiguresAddUp
  <1>2. QED BY <1>1, SpecAnalyticsInv, PTL
=============================================================================
