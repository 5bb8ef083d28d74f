-------------------------- MODULE AllocationProofs --------------------------
(***************************************************************************)
(* The laws of sums that the ledger's invariants rest on, and what every   *)
(* allocation satisfies, whatever the lots.                                *)
(***************************************************************************)
EXTENDS Allocation, FiniteSetTheorems, FunctionTheorems, WellFoundedInduction, TLAPS

-----------------------------------------------------------------------------
(* Sums. *)

(***************************************************************************)
(* A set of natural numbers that has a member has a least one.  (The       *)
(* library's own least-number principle takes an operator, so this one is  *)
(* drawn from the intervals 0..k instead.)                                 *)
(***************************************************************************)
LEMMA LeastNumber ==
  ASSUME NEW S, S \subseteq Nat, S # {}
  PROVE  \E m \in S : \A k \in S : m <= k
<1> DEFINE T == {0..k : k \in S}
<1>1. T \subseteq FiniteSubsetsOf(Nat) /\ T # {}
  <2>1. \A k \in S : 0..k \in SUBSET Nat /\ IsFiniteSet(0..k)
    BY FS_Interval
  <2>2. QED
    BY <2>1 DEF FiniteSubsetsOf
<1>2. IsWellFoundedOn(StrictSubsetOrdering(Nat), FiniteSubsetsOf(Nat))
  BY FS_StrictSubsetOrderingWellFounded
<1>3. PICK x \in T : \A y \in T : <<y, x>> \notin StrictSubsetOrdering(Nat)
  <2> HIDE DEF T
  <2> QED BY <1>1, <1>2, WFMin
<1>4. PICK m \in S : x = 0..m
  OBVIOUS
<1>5. ASSUME NEW k \in S, k < m
      PROVE  FALSE
  <2>1. 0..k \in T /\ 0..k \subseteq 0..m /\ 0..k # 0..m
    BY <1>5
  <2>2. <<0..k, 0..m>> \in StrictSubsetOrdering(Nat)
    BY <2>1 DEF StrictSubsetOrdering
  <2>3. QED
    BY <2>1, <2>2, <1>3, <1>4
<1>6. QED
  BY <1>5

(***************************************************************************)
(* A finite set of natural numbers that has a member has a largest one:    *)
(* the one with the fewest members above it.                               *)
(***************************************************************************)
LEMMA LargestNumber ==
  ASSUME NEW S, S \subseteq Nat, IsFiniteSet(S), S # {}
  PROVE  \E m \in S : \A k \in S : m >= k
<1> DEFINE above(x) == {y \in S : y > x}
           T == {above(x) : x \in S}
<1>1. T \subseteq FiniteSubsetsOf(S) /\ T # {}
  <2>1. \A x \in S : above(x) \in SUBSET S
    OBVIOUS
  <2>2. \A x \in S : IsFiniteSet(above(x))
    BY <2>1, FS_Subset
  <2>3. QED
    BY <2>1, <2>2 DEF FiniteSubsetsOf
<1>2. IsWellFoundedOn(StrictSubsetOrdering(S), FiniteSubsetsOf(S))
  BY FS_StrictSubsetOrderingWellFounded
<1>3. PICK x \in T : \A y \in T : <<y, x>> \notin StrictSubsetOrdering(S)
  <2> HIDE DEF T
  <2> QED BY <1>1, <1>2, WFMin
<1>4. PICK m \in S : x = above(m)
  OBVIOUS
<1>5. ASSUME NEW k \in S, k > m
      PROVE  FALSE
  <2>1. above(k) \subseteq above(m)
    <3>1. SUFFICES ASSUME NEW y \in S, y > k
                   PROVE  y > m
      OBVIOUS
    <3>2. y \in Nat /\ k \in Nat /\ m \in Nat
      OBVIOUS
    <3>3. QED
      BY <1>5, <3>1, <3>2
  <2>2. k \in above(m) /\ k \notin above(k)
    BY <1>5
  <2>3. <<above(k), above(m)>> \in StrictSubsetOrdering(S)
    BY <2>1, <2>2 DEF StrictSubsetOrdering
  <2>4. above(k) \in T
    OBVIOUS
  <2>5. QED
    BY <2>3, <2>4, <1>3, <1>4
<1>6. QED
  BY <1>5

(***************************************************************************)
(* Induction, with a set for the property: what holds of 0 and of every    *)
(* number after one it holds of holds of all.  D is Nat, or 0..n.          *)
(***************************************************************************)
LEMMA Induction ==
  ASSUME NEW D \in SUBSET Nat, \A k \in D : k = 0 \/ k - 1 \in D,
         NEW G, \A k \in D : k = 0 \/ k - 1 \in G => k \in G
  PROVE  D \subseteq G
<1>1. SUFFICES ASSUME D \ G # {}
               PROVE  FALSE
  OBVIOUS
<1>2. PICK m \in D \ G : \A k \in D \ G : m <= k
  <2> DEFINE S == D \ G
  <2>1. S \subseteq Nat /\ S # {}
    BY <1>1
  <2> HIDE DEF S
  <2>2. \E m \in S : \A k \in S : m <= k
    BY <2>1, LeastNumber
  <2>3. QED
    BY <2>2 DEF S
<1>3. m # 0 /\ m \in Nat /\ m - 1 \in D
  OBVIOUS
<1>4. m - 1 \in G
  <2>1. ~(m <= m - 1)
    BY <1>3
  <2>2. QED
    BY <1>2, <1>3, <2>1
<1>5. QED
  BY <1>3, <1>4

(***************************************************************************)
(* A recursive definition defines a function.                              *)
(***************************************************************************)
Downward(D) == \A k \in D : k = 0 \/ k - 1 \in D
ClosedIn(h, D, V) == \A k \in D : \A v \in V : h[<<k, v>>] \in V
Recurs(f, D, a, h) == \A k \in D : f[k] = IF k = 0 THEN a ELSE h[<<k, f[k - 1]>>]

\* A function that calls itself on the number below exists.
LEMMA Recursion ==
  ASSUME NEW D \in SUBSET Nat, NEW V, NEW a \in V, NEW h, Downward(D), ClosedIn(h, D, V)
  PROVE  \E f \in [D -> V] : Recurs(f, D, a, h)
<1> USE DEF Downward, ClosedIn
<1> DEFINE follows(g, k) ==
             \A i \in 0..k : g[i] = IF i = 0 THEN a ELSE h[<<i, g[i - 1]>>]
           G == {k \in Nat : \E g \in [0..k -> V] : follows(g, k)}
           upto(k) == CHOOSE g \in [0..k -> V] : follows(g, k)
           f == [k \in D |-> upto(k)[k]]
<1>0. ASSUME NEW k \in D
      PROVE  k \in Nat /\ k \in 0..k
  <2>1. k \in Nat
    OBVIOUS
  <2>2. QED
    BY <2>1
<1>1. ASSUME NEW k \in D, k = 0 \/ k - 1 \in G
      PROVE  k \in G
  <2>1. CASE k = 0
    <3> DEFINE g == [i \in 0..0 |-> a]
    <3>1. g \in [0..k -> V] /\ follows(g, k)
      BY <2>1
    <3>2. QED
      BY <3>1
  <2>2. CASE k # 0
    <3>1. PICK g \in [0..k - 1 -> V] : follows(g, k - 1)
      BY <1>1, <2>2
    <3>2. k \in Nat /\ k - 1 \in 0..k - 1 /\ \A i \in 0..k : i = k \/ i \in 0..k - 1
      BY <1>0, <2>2
    <3> DEFINE e == [i \in 0..k |-> IF i = k THEN h[<<k, g[k - 1]>>] ELSE g[i]]
    <3>3. e \in [0..k -> V]
      BY <3>1, <3>2
    <3>4. follows(e, k)
      <4>1. ASSUME NEW i \in 0..k - 1
            PROVE  e[i] = IF i = 0 THEN a ELSE h[<<i, e[i - 1]>>]
        <5>1. i \in 0..k /\ i # k /\ (i # 0 => i - 1 \in 0..k /\ i - 1 # k)
          BY <3>2
        <5>2. e[i] = g[i] /\ (i # 0 => e[i - 1] = g[i - 1])
          BY <5>1
        <5> HIDE DEF e
        <5>3. g[i] = IF i = 0 THEN a ELSE h[<<i, g[i - 1]>>]
          BY <3>1
        <5>4. QED
          BY <5>2, <5>3
      <4>2. e[k] = h[<<k, e[k - 1]>>]
        <5>1. k \in 0..k /\ k - 1 \in 0..k /\ k - 1 # k
          BY <3>2
        <5>2. QED
          BY <5>1
      <4> HIDE DEF e
      <4>3. QED
        BY <2>2, <3>2, <4>1, <4>2
    <3> HIDE DEF e, follows
    <3>5. QED
      BY <3>2, <3>3, <3>4
  <2>3. QED
    BY <2>1, <2>2
<1>2. D \subseteq G
  <2> HIDE DEF G
  <2> QED BY <1>1, Induction
<1>3. \A k \in D : upto(k) \in [0..k -> V] /\ follows(upto(k), k)
  <2> HIDE DEF follows
  <2> QED BY <1>2
<1> HIDE DEF upto
<1>4. ASSUME NEW k \in D, k # 0
      PROVE  upto(k)[k - 1] = upto(k - 1)[k - 1]
  <2> DEFINE E == 0..k - 1
             S == {i \in Nat : upto(k)[i] = upto(k - 1)[i]}
  <2>1. k \in Nat /\ k - 1 \in D
    BY <1>4
  <2>2. ASSUME NEW i \in E, i = 0 \/ i - 1 \in S
        PROVE  i \in S
    <3>1. i \in 0..k /\ i \in 0..k - 1 /\ i \in Nat
      BY <2>1
    <3>2. /\ upto(k)[i] = IF i = 0 THEN a ELSE h[<<i, upto(k)[i - 1]>>]
          /\ upto(k - 1)[i] = IF i = 0 THEN a ELSE h[<<i, upto(k - 1)[i - 1]>>]
      BY <1>3, <2>1, <3>1
    <3>3. QED
      BY <2>2, <3>1, <3>2
  <2>3. E \in SUBSET Nat /\ (\A i \in E : i = 0 \/ i - 1 \in E) /\ k - 1 \in E
    BY <1>4, <2>1
  <2> HIDE DEF E, S
  <2>4. E \subseteq S
    BY <2>2, <2>3, Induction
  <2>5. QED
    BY <2>3, <2>4 DEF S
<1>5. f \in [D -> V]
  BY <1>0, <1>3
<1>6. ASSUME NEW k \in D
      PROVE  f[k] = IF k = 0 THEN a ELSE h[<<k, f[k - 1]>>]
  <2>1. upto(k)[k] = IF k = 0 THEN a ELSE h[<<k, upto(k)[k - 1]>>]
    <3>1. k \in 0..k
      BY <1>0
    <3>2. QED
      BY <1>3, <3>1
  <2>2. QED
    BY <1>4, <2>1
<1>7. QED
  BY <1>5, <1>6 DEF Recurs

(***************************************************************************)
(* Induction over a finite set, with a set for the property: what holds of *)
(* the empty set, and of a set with one member more, holds of all.         *)
(***************************************************************************)
LEMMA SetInduction ==
  ASSUME NEW S, IsFiniteSet(S), NEW G, {} \in G,
         \A T \in SUBSET S : \A x \in S \ T : T \in G => T \cup {x} \in G
  PROVE  S \in G
<1> DEFINE B == (SUBSET S) \ G
<1>1. SUFFICES ASSUME S \notin G
               PROVE  FALSE
  OBVIOUS
<1>2. B \subseteq FiniteSubsetsOf(S) /\ B # {}
  <2>1. \A T \in SUBSET S : IsFiniteSet(T)
    BY FS_Subset
  <2>2. QED
    BY <1>1, <2>1 DEF FiniteSubsetsOf
<1>3. PICK T \in B : \A R \in B : <<R, T>> \notin StrictSubsetOrdering(S)
  <2> HIDE DEF B
  <2> QED BY <1>2, WFMin, FS_StrictSubsetOrderingWellFounded
<1>4. PICK x \in T : TRUE
  BY <1>3
<1>5. T \ {x} \in SUBSET S /\ x \in S \ (T \ {x}) /\ (T \ {x}) \cup {x} = T
  BY <1>4
<1>6. T \ {x} \in B
  BY <1>3, <1>5
<1>7. <<T \ {x}, T>> \in StrictSubsetOrdering(S)
  BY <1>4, <1>5 DEF StrictSubsetOrdering
<1>8. QED
  BY <1>3, <1>6, <1>7

(***************************************************************************)
(* One member is worth exactly its weight.                                 *)
(***************************************************************************)
LEMMA PointsOfOne ==
  ASSUME NEW f, NEW x, f[x] \in Nat
  PROVE  /\ IsFiniteSet(PointsOf(f, x))
         /\ Cardinality(PointsOf(f, x)) = f[x]
<1>1. /\ IsFiniteSet({x}) /\ Cardinality({x}) = 1
  BY FS_Singleton
<1>2. /\ IsFiniteSet(1..f[x]) /\ Cardinality(1..f[x]) = f[x]
  BY FS_Interval
<1>3. /\ IsFiniteSet({x} \X (1..f[x]))
      /\ Cardinality({x} \X (1..f[x])) = Cardinality({x}) * Cardinality(1..f[x])
  BY <1>1, <1>2, FS_Product
<1>4. QED
  BY <1>1, <1>2, <1>3 DEF PointsOf

(***************************************************************************)
(* The image of a finite set is finite.                                    *)
(***************************************************************************)
LEMMA ImageFinite ==
  ASSUME NEW S, IsFiniteSet(S), NEW g
  PROVE  IsFiniteSet({g[x] : x \in S})
<1> DEFINE T == {g[x] : x \in S}
           h == [x \in S |-> g[x]]
<1>1. h \in Surjection(S, T)
  BY Zenon DEF Surjection
<1>2. IsFiniteSet(T)
  BY <1>1, FS_Surjection
<1>3. QED
  BY <1>2

(***************************************************************************)
(* The points of a finite set of members are finitely many.                *)
(***************************************************************************)
LEMMA AllPointsFinite ==
  ASSUME NEW f, NEW S, IsFiniteSet(S), \A x \in S : f[x] \in Nat
  PROVE  IsFiniteSet(AllPoints(f, S))
<1>1. IsFiniteSet({PointsOf(f, x) : x \in S})
  <2> DEFINE T == {PointsOf(f, x) : x \in S}
             g == [x \in S |-> PointsOf(f, x)]
  <2>1. g \in Surjection(S, T)
    BY Zenon DEF Surjection
  <2>2. IsFiniteSet(T)
    BY <2>1, FS_Surjection
  <2>3. QED
    BY <2>2
<1>2. \A T \in {PointsOf(f, x) : x \in S} : IsFiniteSet(T)
  BY PointsOfOne
<1>3. QED
  BY <1>1, <1>2, FS_UNION DEF AllPoints

(***************************************************************************)
(* A sum of natural numbers is one.                                        *)
(***************************************************************************)
THEOREM SumType ==
  ASSUME NEW f, NEW S, IsFiniteSet(S), \A x \in S : f[x] \in Nat
  PROVE  SumOver(f, S) \in Nat
BY AllPointsFinite, FS_CardinalityType DEF SumOver

(***************************************************************************)
(* Nothing is worth nothing.                                               *)
(***************************************************************************)
THEOREM SumEmpty ==
  ASSUME NEW f
  PROVE  SumOver(f, {}) = 0
BY FS_EmptySet DEF SumOver, AllPoints

(***************************************************************************)
(* A larger set is worth at least as much.                                 *)
(***************************************************************************)
LEMMA SumMonotone ==
  ASSUME NEW f, NEW S, IsFiniteSet(S), \A x \in S : f[x] \in Nat,
         NEW T \in SUBSET S
  PROVE  SumOver(f, T) <= SumOver(f, S)
<1>1. AllPoints(f, T) \in SUBSET AllPoints(f, S)
  BY DEF AllPoints
<1>2. QED
  BY <1>1, AllPointsFinite, FS_Subset DEF SumOver

(***************************************************************************)
(* Disjoint sets add up.                                                   *)
(***************************************************************************)
LEMMA SumDisjoint ==
  ASSUME NEW f, NEW S, NEW T, IsFiniteSet(S), IsFiniteSet(T), S \cap T = {},
         \A x \in S \cup T : f[x] \in Nat
  PROVE  SumOver(f, S \cup T) = SumOver(f, S) + SumOver(f, T)
<1>1. AllPoints(f, S \cup T) = AllPoints(f, S) \cup AllPoints(f, T)
  BY DEF AllPoints
<1>2. AllPoints(f, S) \cap AllPoints(f, T) = {}
  BY DEF AllPoints, PointsOf
<1>3. IsFiniteSet(AllPoints(f, S)) /\ IsFiniteSet(AllPoints(f, T))
  BY AllPointsFinite
<1>4. Cardinality(AllPoints(f, S) \cup AllPoints(f, T))
        = Cardinality(AllPoints(f, S)) + Cardinality(AllPoints(f, T))
            - Cardinality({})
  BY <1>2, <1>3, FS_Union
<1>5. /\ Cardinality(AllPoints(f, S)) \in Nat
      /\ Cardinality(AllPoints(f, T)) \in Nat
  BY <1>3, FS_CardinalityType
<1>6. Cardinality({}) = 0
  BY FS_EmptySet
<1>7. Cardinality(AllPoints(f, S \cup T))
        = Cardinality(AllPoints(f, S)) + Cardinality(AllPoints(f, T))
  <2>1. Cardinality(AllPoints(f, S \cup T))
          = Cardinality(AllPoints(f, S) \cup AllPoints(f, T))
    BY <1>1
  <2>2. QED
    BY <2>1, <1>4, <1>5, <1>6
<1>8. QED
  BY <1>7 DEF SumOver

(***************************************************************************)
(* One member more adds its weight.                                        *)
(***************************************************************************)
THEOREM SumAdd ==
  ASSUME NEW f, NEW S, NEW x, IsFiniteSet(S), x \notin S,
         \A y \in S \cup {x} : f[y] \in Nat
  PROVE  SumOver(f, S \cup {x}) = SumOver(f, S) + f[x]
<1>1. IsFiniteSet({x})
  BY FS_Singleton
<1>2. SumOver(f, {x}) = f[x]
  <2>1. AllPoints(f, {x}) = PointsOf(f, x)
    BY DEF AllPoints
  <2>2. QED
    BY <2>1, PointsOfOne DEF SumOver
<1>3. QED
  BY <1>1, <1>2, SumDisjoint

(***************************************************************************)
(* Weights that are at least lo times, and at most hi times, others have   *)
(* a sum that is.                                                          *)
(***************************************************************************)
THEOREM SumScaled ==
  ASSUME NEW w, NEW f, NEW S, IsFiniteSet(S), NEW lo \in Nat, NEW hi \in Nat,
         \A x \in S : w[x] \in Nat /\ f[x] \in Nat,
         \A x \in S : lo * w[x] <= f[x] /\ f[x] <= hi * w[x]
  PROVE  /\ lo * SumOver(w, S) <= SumOver(f, S)
         /\ SumOver(f, S) <= hi * SumOver(w, S)
<1> DEFINE G == {T \in SUBSET S : /\ lo * SumOver(w, T) <= SumOver(f, T)
                                 /\ SumOver(f, T) <= hi * SumOver(w, T)}
<1>1. {} \in G
  BY SumEmpty
<1>2. ASSUME NEW T \in SUBSET S, NEW x \in S \ T, T \in G
      PROVE  T \cup {x} \in G
  <2>1. IsFiniteSet(T) /\ T \cup {x} \in SUBSET S
    BY FS_Subset
  <2>2. /\ SumOver(w, T \cup {x}) = SumOver(w, T) + w[x]
        /\ SumOver(f, T \cup {x}) = SumOver(f, T) + f[x]
        /\ SumOver(w, T) \in Nat /\ SumOver(f, T) \in Nat
    BY <2>1, SumAdd, SumType
  <2>3. /\ lo * (SumOver(w, T) + w[x]) = lo * SumOver(w, T) + lo * w[x]
        /\ hi * (SumOver(w, T) + w[x]) = hi * SumOver(w, T) + hi * w[x]
    BY <2>2
  <2>4. /\ lo * SumOver(w, T) \in Nat /\ hi * SumOver(w, T) \in Nat
        /\ lo * w[x] \in Nat /\ hi * w[x] \in Nat
    BY <2>2
  <2>5. /\ lo * SumOver(w, T) + lo * w[x] <= SumOver(f, T) + f[x]
        /\ SumOver(f, T) + f[x] <= hi * SumOver(w, T) + hi * w[x]
    BY <1>2, <2>2, <2>4
  <2>6. QED
    BY <2>1, <2>2, <2>3, <2>5
<1>3. S \in G
  <2> HIDE DEF G
  <2> QED BY <1>1, <1>2, SetInduction
<1>4. QED
  BY <1>3

(***************************************************************************)
(* Only the weights of the members count.                                  *)
(***************************************************************************)
THEOREM SumCongruent ==
  ASSUME NEW f, NEW g, NEW S, \A x \in S : f[x] = g[x]
  PROVE  SumOver(f, S) = SumOver(g, S)
<1>1. AllPoints(f, S) = AllPoints(g, S)
  BY DEF AllPoints, PointsOf
<1>2. QED
  BY <1>1 DEF SumOver

(***************************************************************************)
(* A sum does not depend on what its members are called.                   *)
(***************************************************************************)
THEOREM SumRenamed ==
  ASSUME NEW f, NEW S, IsFiniteSet(S), \A x \in S : f[x] \in Nat,
         NEW g, \A x, y \in S : g[x] = g[y] => x = y,
         NEW h, \A x \in S : h[g[x]] = f[x]
  PROVE  SumOver(h, {g[x] : x \in S}) = SumOver(f, S)
<1> DEFINE T == {g[x] : x \in S}
           from == AllPoints(f, S)
           to == AllPoints(h, T)
           move == [p \in from |-> <<g[p[1]], p[2]>>]
<1>1. \A p : p \in from <=> \E x \in S : \E i \in 1..f[x] : p = <<x, i>>
  BY DEF AllPoints, PointsOf
<1>2. \A p : p \in to <=> \E x \in S : \E i \in 1..f[x] : p = <<g[x], i>>
  BY DEF AllPoints, PointsOf
<1>3. IsFiniteSet(from)
  BY AllPointsFinite
<1> HIDE DEF from, to
<1>4. \A x \in S : \A i \in 1..f[x] : <<x, i>> \in from /\ move[<<x, i>>] = <<g[x], i>>
  BY <1>1
<1>5. move \in [from -> to]
  BY <1>1, <1>2
<1>6. \A p, q \in from : move[p] = move[q] => p = q
  BY <1>1
<1>7. ASSUME NEW t \in to
      PROVE  \E p \in from : move[p] = t
  <2>1. PICK x \in S : \E i \in 1..f[x] : t = <<g[x], i>>
    BY <1>2
  <2>2. PICK i \in 1..f[x] : t = <<g[x], i>>
    BY <2>1
  <2>3. <<x, i>> \in from /\ move[<<x, i>>] = t
    BY <1>4, <2>2
  <2>4. QED
    BY <2>3
<1> HIDE DEF move
<1>8. move \in Bijection(from, to)
  BY <1>5, <1>6, <1>7, Fun_IsInj, Fun_IsSurj DEF Bijection
<1>9. Cardinality(to) = Cardinality(from)
  BY <1>3, <1>8, FS_Bijection, Fun_ExistsBij
<1>10. QED
  BY <1>9 DEF SumOver, from, to

-----------------------------------------------------------------------------
(* Ranks: in a finite set that is totally ordered, every place is taken.   *)

\* Orders(R, S): R is a strict total order of the members of S.
Orders(R, S) ==
  /\ \A s \in S : <<s, s>> \notin R
  /\ \A s, t, u \in S : <<s, t>> \in R /\ <<t, u>> \in R => <<s, u>> \in R
  /\ \A s, t \in S : s = t \/ <<s, t>> \in R \/ <<t, s>> \in R

Preceding(R, S, s) == {t \in S : <<t, s>> \in R}

(***************************************************************************)
(* As many members of S as there are before s, and s itself.               *)
(***************************************************************************)
LEMMA BeforeAndItself ==
  ASSUME NEW R, NEW S, IsFiniteSet(S), Orders(R, S), NEW s \in S
  PROVE  /\ IsFiniteSet(Preceding(R, S, s)) /\ Cardinality(Preceding(R, S, s)) \in Nat
         /\ IsFiniteSet(Preceding(R, S, s) \cup {s})
         /\ Cardinality(Preceding(R, S, s) \cup {s}) = Cardinality(Preceding(R, S, s)) + 1
<1>1. Preceding(R, S, s) \in SUBSET S /\ s \notin Preceding(R, S, s)
  BY DEF Preceding, Orders
<1>2. IsFiniteSet(Preceding(R, S, s))
  BY <1>1, FS_Subset
<1>3. QED
  BY <1>1, <1>2, FS_AddElement, FS_CardinalityType

(***************************************************************************)
(* A place is taken by one member alone.                                   *)
(***************************************************************************)
LEMMA OnePlaceEach ==
  ASSUME NEW R, NEW S, IsFiniteSet(S), Orders(R, S), NEW s \in S, NEW t \in S,
         Cardinality(Preceding(R, S, s)) = Cardinality(Preceding(R, S, t))
  PROVE  s = t
<1>1. ASSUME NEW x \in S, NEW y \in S, <<x, y>> \in R
      PROVE  Cardinality(Preceding(R, S, x)) # Cardinality(Preceding(R, S, y))
  <2>1. Preceding(R, S, x) \cup {x} \in SUBSET Preceding(R, S, y)
    BY <1>1 DEF Preceding, Orders
  <2>2. Cardinality(Preceding(R, S, x) \cup {x}) <= Cardinality(Preceding(R, S, y))
    BY <2>1, BeforeAndItself, FS_Subset
  <2>3. QED
    BY <2>2, BeforeAndItself
<1>2. QED
  BY <1>1 DEF Orders

(***************************************************************************)
(* Every place of the order is some member's.                              *)
(***************************************************************************)
LEMMA EveryPlaceTaken ==
  ASSUME NEW R, NEW S, IsFiniteSet(S), Orders(R, S),
         NEW k \in 1..Cardinality(S)
  PROVE  \E s \in S : Cardinality(Preceding(R, S, s)) = k - 1
<1> DEFINE n == Cardinality(S)
           place == [s \in S |-> Cardinality(Preceding(R, S, s)) + 1]
<1>0. \A s \in S : /\ place[s] = Cardinality(Preceding(R, S, s)) + 1
                     /\ Cardinality(Preceding(R, S, s)) \in Nat
  BY BeforeAndItself
<1> HIDE DEF place
<1>1. n \in Nat
  BY FS_CardinalityType
<1>2. ASSUME NEW s \in S
      PROVE  place[s] \in 1..n
  <2>1. Preceding(R, S, s) \cup {s} \in SUBSET S
    BY DEF Preceding
  <2>2. Cardinality(Preceding(R, S, s) \cup {s}) <= n
    BY <2>1, FS_Subset
  <2>3. Cardinality(Preceding(R, S, s) \cup {s}) = place[s] /\ place[s] \in Nat /\ place[s] >= 1
    <3>1. Cardinality(Preceding(R, S, s) \cup {s}) = Cardinality(Preceding(R, S, s)) + 1
      BY BeforeAndItself
    <3>2. QED
      BY <1>0, <3>1
  <2>4. QED
    BY <1>1, <2>2, <2>3
<1>3. ASSUME NEW s \in S, NEW t \in S, place[s] = place[t]
      PROVE  s = t
  BY <1>0, <1>3, OnePlaceEach
<1>5. place \in Injection(S, 1..n)
  <2> HIDE DEF n
  <2>1. place \in [S -> 1..n]
    BY <1>2 DEF place
  <2>2. QED
    BY <1>3, <2>1 DEF Injection, IsInjective
<1>6. /\ IsFiniteSet(1..n) /\ Cardinality(1..n) = n
  BY <1>1, FS_Interval
<1>7. place \in Surjection(S, 1..n)
  BY <1>5, <1>6, FS_Injection
<1>8. PICK s \in S : place[s] = k
  BY <1>7 DEF Surjection
<1>9. QED
  BY <1>0, <1>1, <1>8

-----------------------------------------------------------------------------
(* Allocations. *)

(***************************************************************************)
(* The need left when the walk reaches a lot is a whole number.            *)
(***************************************************************************)
LEMMA NeedAtType ==
  ASSUME NEW month, NEW left, IsFiniteSet(DOMAIN left),
         \A lot \in DOMAIN left : left[lot] \in Int,
         NEW checkIn, NEW points \in Int, NEW lot
  PROVE  NeedAt(month, left, checkIn, points, lot) \in Int
<1> DEFINE before == {a \in Candidates(month, left, checkIn) :
                        DrawnBefore(month, checkIn, a, lot)}
<1>1. before \in SUBSET DOMAIN left /\ \A a \in before : left[a] \in Nat
  BY DEF Candidates
<1>2. IsFiniteSet(before)
  BY <1>1, FS_Subset
<1>3. SumOver(left, before) \in Nat
  <2> HIDE DEF before
  <2> QED BY <1>1, <1>2, SumType
<1>4. QED
  BY <1>3 DEF NeedAt

(***************************************************************************)
(* AllocateStayPoints draws from known lots only, takes something from     *)
(* each of them, never more than it has left, and draws from each once.    *)
(***************************************************************************)
THEOREM DrawsWithinLots ==
  ASSUME NEW month, NEW left, IsFiniteSet(DOMAIN left),
         \A lot \in DOMAIN left : left[lot] \in Int,
         NEW checkIn, NEW points \in Int
  PROVE  LET D == AllocateStayPoints(month, left, checkIn, points) IN
         /\ IsFiniteSet(D)
         /\ \A draw \in D : /\ draw.lot \in DOMAIN left
                            /\ draw.points \in Nat \ {0}
                            /\ draw.points <= left[draw.lot]
         /\ \A a, b \in D : a.lot = b.lot => a = b
<1> DEFINE D == AllocateStayPoints(month, left, checkIn, points)
           need(lot) == NeedAt(month, left, checkIn, points, lot)
           drawn == {a \in Candidates(month, left, checkIn) : need(a) > 0}
           draw == [lot \in drawn |-> [lot    |-> lot,
                                       rank   |-> Rank(month, checkIn, lot),
                                       points |-> Smaller(need(lot), left[lot])]]
<1>1. D = {draw[lot] : lot \in drawn}
  BY DEF AllocateStayPoints
<1>2. drawn \in SUBSET DOMAIN left
  BY DEF Candidates
<1>3. \A lot \in drawn : /\ draw[lot].lot = lot
                         /\ draw[lot].points \in Nat \ {0}
                         /\ draw[lot].points <= left[lot]
  <2>1. SUFFICES ASSUME NEW lot \in drawn
                 PROVE  /\ draw[lot].lot = lot
                        /\ draw[lot].points \in Nat \ {0}
                        /\ draw[lot].points <= left[lot]
    OBVIOUS
  <2>2. need(lot) \in Int
    BY NeedAtType
  <2>3. left[lot] \in Int /\ left[lot] > 0 /\ need(lot) > 0
    BY DEF Candidates
  <2>4. Smaller(need(lot), left[lot]) \in Nat \ {0}
        /\ Smaller(need(lot), left[lot]) <= left[lot]
    <3> HIDE DEF need
    <3> QED BY <2>2, <2>3 DEF Smaller
  <2>5. draw[lot].lot = lot /\ draw[lot].points = Smaller(need(lot), left[lot])
    <3> HIDE DEF need
    <3> QED BY DEF draw
  <2>6. QED
    <3> HIDE DEF need, draw
    <3> QED BY <2>4, <2>5
<1>4. IsFiniteSet(drawn)
  BY <1>2, FS_Subset
<1> HIDE DEF draw, drawn, need, D
<1>5. IsFiniteSet(D)
  BY <1>1, <1>4, ImageFinite
<1>6. \A d \in D : /\ d.lot \in DOMAIN left
                   /\ d.points \in Nat \ {0}
                   /\ d.points <= left[d.lot]
  BY <1>1, <1>2, <1>3
<1>7. \A a, b \in D : a.lot = b.lot => a = b
  BY <1>1, <1>3
<1>8. QED
  BY <1>5, <1>6, <1>7 DEF D

(***************************************************************************)
(* Candidates are drawn in a strict total order: lots of one contract and  *)
(* one disposition are one lot.                                            *)
(***************************************************************************)
LEMMA DrawnInOrder ==
  ASSUME NEW month, DOMAIN month \subseteq Int, \A c \in DOMAIN month : month[c] \in Int,
         NEW left, \A lot \in DOMAIN left : left[lot] \in Int,
         \A lot \in DOMAIN left :
           lot = [contract |-> lot.contract, useYear |-> lot.useYear] /\ lot.useYear \in Int,
         NEW checkIn, checkIn.year \in Int, checkIn.month \in Int,
         NEW a \in Candidates(month, left, checkIn),
         NEW b \in Candidates(month, left, checkIn),
         NEW c \in Candidates(month, left, checkIn)
  PROVE  /\ ~DrawnBefore(month, checkIn, a, a)
         /\ DrawnBefore(month, checkIn, a, b) /\ DrawnBefore(month, checkIn, b, c)
              => DrawnBefore(month, checkIn, a, c)
         /\ a = b \/ DrawnBefore(month, checkIn, a, b) \/ DrawnBefore(month, checkIn, b, a)
<1> DEFINE rank(lot) == Rank(month, checkIn, lot)
           year(lot) == UseYearForDate(checkIn, month[lot.contract])
           C == Candidates(month, left, checkIn)
<1>1. \A lot \in C : /\ lot \in DOMAIN left /\ lot.contract \in DOMAIN month
                     /\ lot.contract \in Int
  BY DEF Candidates, Eligible
<1>2. \A lot \in C : year(lot) \in Int
  BY <1>1 DEF UseYearForDate
<1>3. \A lot \in C : rank(lot) = lot.useYear - (year(lot) - 1)
  BY DEF Rank
<1> HIDE DEF year
<1>4. \A lot \in C : rank(lot) \in Int
  BY <1>1, <1>2, <1>3
<1>5. rank(a) = rank(b) /\ a.contract = b.contract => a = b
  <2>1. ASSUME rank(a) = rank(b), a.contract = b.contract
        PROVE  a = b
    <3>1. year(a) = year(b)
      BY <2>1 DEF year
    <3>2. a.useYear = b.useYear
      BY <1>1, <1>2, <1>3, <2>1, <3>1
    <3>3. QED
      BY <1>1, <2>1, <3>2
  <2>2. QED
    BY <2>1
<1>6. \A x, y : DrawnBefore(month, checkIn, x, y) <=>
        rank(x) < rank(y) \/ (rank(x) = rank(y) /\ x.contract < y.contract)
  BY DEF DrawnBefore
<1> HIDE DEF rank
<1>7. QED
  BY <1>1, <1>4, <1>5, <1>6

(***************************************************************************)
(* The draws of a fundable stay add up to its price.  The last lot drawn   *)
(* from is the one that leaves least needed; all before it are emptied,    *)
(* and it has enough for the rest, because the first lot that is left      *)
(* alone, or the end of the walk, comes right after it.                    *)
(***************************************************************************)
THEOREM DrawsAddUp ==
  ASSUME NEW month, DOMAIN month \subseteq Int, \A c \in DOMAIN month : month[c] \in Int,
         NEW left, IsFiniteSet(DOMAIN left), \A lot \in DOMAIN left : left[lot] \in Int,
         \A lot \in DOMAIN left :
           lot = [contract |-> lot.contract, useYear |-> lot.useYear] /\ lot.useYear \in Int,
         NEW checkIn, checkIn.year \in Int, checkIn.month \in Int,
         NEW points \in Nat \ {0}, Fundable(month, left, checkIn, points)
  PROVE  LET D == AllocateStayPoints(month, left, checkIn, points) IN
         SumOver([draw \in D |-> draw.points], D) = points
<1> DEFINE C == Candidates(month, left, checkIn)
           before(lot) == {a \in C : DrawnBefore(month, checkIn, a, lot)}
           need == [lot \in C |-> NeedAt(month, left, checkIn, points, lot)]
           drawn == {lot \in C : need[lot] > 0}
           draw == [lot \in drawn |-> [lot    |-> lot,
                                       rank   |-> Rank(month, checkIn, lot),
                                       points |-> Smaller(need[lot], left[lot])]]
           share == [lot \in drawn |-> Smaller(need[lot], left[lot])]
           D == AllocateStayPoints(month, left, checkIn, points)
           worth == [d \in D |-> d.points]
<1>1. /\ C \subseteq DOMAIN left /\ IsFiniteSet(C)
      /\ \A lot \in C : left[lot] \in Nat \ {0}
  <2>1. C \in SUBSET DOMAIN left
    BY DEF Candidates
  <2>2. \A lot \in C : left[lot] \in Nat \ {0}
    BY DEF Candidates
  <2>3. QED
    BY <2>1, <2>2, FS_Subset
<1>2. \A a \in C : ~DrawnBefore(month, checkIn, a, a)
  BY DrawnInOrder
<1>3. \A a, b, c \in C : DrawnBefore(month, checkIn, a, b) /\ DrawnBefore(month, checkIn, b, c)
                          => DrawnBefore(month, checkIn, a, c)
  BY DrawnInOrder
<1>4. \A a, b \in C : a = b \/ DrawnBefore(month, checkIn, a, b) \/ DrawnBefore(month, checkIn, b, a)
  BY DrawnInOrder
<1>5. \A lot \in C : before(lot) \in SUBSET C /\ IsFiniteSet(before(lot))
                    /\ SumOver(left, before(lot)) \in Nat
                    /\ need[lot] = points - SumOver(left, before(lot)) /\ need[lot] \in Int
  <2> TAKE lot \in C
  <2>1. before(lot) \in SUBSET C
    OBVIOUS
  <2>2. IsFiniteSet(before(lot))
    BY <1>1, <2>1, FS_Subset
  <2>3. SumOver(left, before(lot)) \in Nat
    <3> HIDE DEF before, C
    <3> QED BY <1>1, <2>1, <2>2, SumType
  <2>4. need[lot] = points - SumOver(left, before(lot))
    BY DEF NeedAt
  <2>5. QED
    <3> HIDE DEF before, C, need
    <3> QED BY <2>1, <2>2, <2>3, <2>4
<1>6. \A a, b \in C : a \in before(b) <=> DrawnBefore(month, checkIn, a, b)
  OBVIOUS
<1>7. IsFiniteSet(drawn) /\ drawn \in SUBSET C /\ \A lot \in C : lot \in drawn <=> need[lot] > 0
  <2> HIDE DEF C, need
  <2>1. drawn \in SUBSET C
    OBVIOUS
  <2>2. QED
    BY <1>1, <2>1, FS_Subset
<1>8. Capacity(month, left, checkIn) = SumOver(left, C) /\ points <= SumOver(left, C)
  <2>1. Capacity(month, left, checkIn) = SumOver(left, C)
    BY DEF Capacity
  <2>2. QED
    BY <2>1 DEF Fundable
<1>9. SumOver(worth, D) = SumOver(share, drawn)
  <2>1. D = {draw[lot] : lot \in drawn}
    BY DEF AllocateStayPoints
  <2>2. \A lot \in drawn : draw[lot].lot = lot /\ draw[lot].points = share[lot]
    OBVIOUS
  <2>3. \A lot \in drawn : share[lot] \in Nat
    <3> TAKE lot \in drawn
    <3>1. share[lot] = Smaller(need[lot], left[lot])
      OBVIOUS
    <3> HIDE DEF C, need, draw, worth, D, share, drawn
    <3>2. lot \in C /\ need[lot] > 0
      BY <1>7
    <3>3. need[lot] \in Int /\ left[lot] \in Nat
      BY <1>1, <1>5, <3>2
    <3>4. QED
      BY <3>1, <3>2, <3>3 DEF Smaller
  <2>4. \A lot \in drawn : draw[lot] \in D
    BY <2>1
  <2>5. \A lot \in drawn : worth[draw[lot]] = share[lot]
    <3> HIDE DEF draw, share, drawn, D
    <3> QED BY <2>2, <2>4 DEF worth
  <2>6. \A x, y \in drawn : draw[x] = draw[y] => x = y
    <3> HIDE DEF draw, share, drawn, D
    <3> QED BY <2>2
  <2> HIDE DEF draw, share, drawn, worth, D
  <2>7. SumOver(worth, {draw[lot] : lot \in drawn}) = SumOver(share, drawn)
    BY <1>7, <2>3, <2>5, <2>6, SumRenamed
  <2>8. QED
    BY <2>1, <2>7
<1> HIDE DEF C, before, need, drawn, draw, D, worth
\* Of two candidates, the later finds less needed.
<1>10. ASSUME NEW a \in C, NEW b \in C, DrawnBefore(month, checkIn, a, b)
       PROVE  need[b] <= need[a] - left[a]
  <2>1. before(a) \cup {a} \in SUBSET before(b) /\ a \notin before(a)
    <3>1. \A x \in before(a) : x \in before(b)
      BY <1>3, <1>5, <1>6, <1>10
    <3>2. QED
      BY <1>2, <1>6, <1>10, <3>1
  <2>2. SumOver(left, before(a) \cup {a}) = SumOver(left, before(a)) + left[a]
    BY <1>1, <1>5, <2>1, SumAdd
  <2>3. SumOver(left, before(a) \cup {a}) <= SumOver(left, before(b))
    <3>1. \A x \in before(b) : left[x] \in Nat
      BY <1>1, <1>5
    <3>2. QED
      BY <1>5, <2>1, <3>1, SumMonotone
  <2>4. QED
    BY <1>1, <1>5, <2>2, <2>3
<1>11. PICK m \in drawn : \A lot \in drawn : need[m] <= need[lot]
  <2>1. drawn # {}
    \* Else the first candidate, the one that finds most needed, finds nothing needed.
    <3>1. SUFFICES ASSUME drawn = {}
                   PROVE  FALSE
      OBVIOUS
    <3>2. C # {}
      BY <1>8, SumEmpty
    <3>3. \A lot \in C : -need[lot] \in Nat
      BY <1>5, <1>7, <3>1
    <3>4. PICK f \in C : \A lot \in C : need[lot] <= need[f]
      <4> DEFINE S == {-need[lot] : lot \in C}
      <4>1. PICK n \in S : \A k \in S : n <= k
        <5>1. S \subseteq Nat /\ S # {}
          BY <3>2, <3>3
        <5> HIDE DEF S
        <5>2. QED
          BY <5>1, LeastNumber
      <4>2. PICK f \in C : n = -need[f]
        BY <4>1
      <4>3. \A lot \in C : n <= -need[lot]
        BY <4>1
      <4>4. QED
        BY <1>5, <4>2, <4>3
    <3>5. before(f) = {}
      <4>1. ASSUME NEW a \in before(f)
            PROVE  FALSE
        <5>1. a \in C /\ need[f] <= need[a] - left[a]
          BY <1>5, <1>6, <1>10, <4>1
        <5>2. QED
          BY <1>1, <1>5, <3>4, <5>1
      <4>2. QED
        BY <4>1
    <3>6. need[f] = points
      BY <1>5, <3>5, SumEmpty
    <3>7. QED
      BY <1>7, <3>1, <3>6
  <2> DEFINE S == {need[lot] : lot \in drawn}
  <2>2. PICK n \in S : \A k \in S : n <= k
    <3>1. S \subseteq Nat /\ S # {}
      BY <1>5, <1>7, <2>1
    <3> HIDE DEF S
    <3>2. QED
      BY <3>1, LeastNumber
  <2>3. PICK m \in drawn : n = need[m]
    BY <2>2
  <2>4. \A lot \in drawn : n <= need[lot]
    BY <2>2
  <2>5. QED
    BY <2>3, <2>4
<1>12. m \in C /\ need[m] > 0
  BY <1>7
<1>13. /\ before(m) \cup {m} = drawn /\ m \notin before(m)
       /\ \A a \in before(m) : share[a] = left[a]
  <2>1. ASSUME NEW a \in before(m)
        PROVE  a \in drawn /\ share[a] = left[a]
    <3>1. a \in C /\ need[m] <= need[a] - left[a]
      BY <1>5, <1>6, <1>10, <1>12
    <3>2. need[a] > left[a] /\ a \in drawn
      BY <1>1, <1>5, <1>7, <1>12, <3>1
    <3>3. QED
      BY <1>1, <1>5, <3>1, <3>2 DEF Smaller
  <2>2. ASSUME NEW a \in drawn, a # m
        PROVE  a \in before(m)
    <3>1. a \in C
      BY <1>7
    <3>2. CASE DrawnBefore(month, checkIn, m, a)
      <4>1. need[a] <= need[m] - left[m]
        BY <1>10, <1>12, <3>1, <3>2
      <4>2. QED
        BY <1>1, <1>5, <1>11, <1>12, <3>1, <4>1
    <3>3. QED
      BY <1>4, <1>6, <1>12, <2>2, <3>1, <3>2
  <2>3. QED
    BY <1>2, <1>6, <1>12, <2>1, <2>2
<1>14. SumOver(left, drawn) = SumOver(left, before(m)) + left[m]
  BY <1>1, <1>5, <1>12, <1>13, SumAdd
<1>15. need[m] <= left[m]
  <2> DEFINE rest == C \ drawn
  <2>1. CASE rest = {}
    <3>1. drawn = C
      BY <1>7, <2>1
    <3>2. QED
      BY <1>1, <1>5, <1>8, <1>12, <1>14, <3>1
  <2>2. CASE rest # {}
    <3>1. PICK b \in rest : \A lot \in rest : need[lot] <= need[b]
      <4> DEFINE S == {-need[lot] : lot \in rest}
      <4>1. PICK n \in S : \A k \in S : n <= k
        <5>1. S \subseteq Nat /\ S # {}
          BY <1>5, <1>7, <2>2
        <5> HIDE DEF S
        <5>2. QED
          BY <5>1, LeastNumber
      <4>2. PICK b \in rest : n = -need[b]
        BY <4>1
      <4>3. \A lot \in rest : n <= -need[lot]
        BY <4>1
      <4>4. QED
        BY <1>5, <4>2, <4>3
    <3>2. b \in C /\ need[b] <= 0
      BY <1>5, <1>7
    <3>3. before(b) = drawn
      <4>1. ASSUME NEW a \in before(b), a \notin drawn
            PROVE  FALSE
        <5>1. a \in rest /\ need[b] <= need[a] - left[a]
          BY <1>5, <1>6, <1>10, <3>2, <4>1
        <5>2. QED
          BY <1>1, <1>5, <3>1, <3>2, <5>1
      <4>2. ASSUME NEW a \in drawn, a \notin before(b)
            PROVE  FALSE
        <5>1. a \in C /\ need[a] > 0 /\ a # b
          BY <1>7, <4>2
        <5>2. DrawnBefore(month, checkIn, b, a)
          BY <1>4, <1>6, <3>2, <4>2, <5>1
        <5>3. need[a] <= need[b] - left[b]
          BY <1>10, <3>2, <5>1, <5>2
        <5>4. QED
          BY <1>1, <1>5, <3>2, <5>1, <5>3
      <4>3. QED
        BY <4>1, <4>2
    <3>4. QED
      BY <1>1, <1>5, <1>12, <1>14, <3>2, <3>3
  <2>3. QED
    BY <2>1, <2>2
<1>16. share[m] = need[m]
  BY <1>1, <1>5, <1>12, <1>15 DEF Smaller
<1>17. SumOver(share, before(m)) = SumOver(left, before(m))
  BY <1>13, SumCongruent
<1>18. SumOver(share, drawn) = SumOver(share, before(m)) + share[m]
  <2>1. \A lot \in before(m) \cup {m} : share[lot] \in Nat
    BY <1>1, <1>5, <1>12, <1>13, <1>16
  <2> HIDE DEF share
  <2>2. QED
    BY <1>5, <1>12, <1>13, <2>1, SumAdd
<1>19. SumOver(share, drawn) = points
  BY <1>5, <1>12, <1>16, <1>17, <1>18
<1>20. QED
  BY <1>9, <1>19 DEF worth, D

=============================================================================
