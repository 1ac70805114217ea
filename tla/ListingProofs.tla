---------------------------- MODULE ListingProofs -----------------------------
(***************************************************************************)
(* What the lists of Listing hold, for every finite set of rows and every  *)
(* order without ties: each row once, in its place, and of a filtered list *)
(* the rows that pass, in order.  Sets are counted where a recursion would *)
(* call for induction.                                                     *)
(***************************************************************************)
EXTENDS Listing, FiniteSetTheorems, TLAPS

-------------------------------------------------------------------------------
(* Lists in an order without ties *)

StrictOrder(S, R) ==
  /\ \A x \in S : <<x, x>> \notin R
  /\ \A x, y, z \in S : <<x, y>> \in R /\ <<y, z>> \in R => <<x, z>> \in R
  /\ \A x, y \in S : x = y \/ <<x, y>> \in R \/ <<y, x>> \in R

Ahead(x, S, R) == {y \in S : <<y, x>> \in R}

\* How many come before x.
Rank(x, S, R) == Cardinality(Ahead(x, S, R))

InOrder(S, R) == [i \in 1 .. Cardinality(S) |-> CHOOSE x \in S : Rank(x, S, R) = i - 1]

LEMMA RankType ==
  ASSUME NEW S, IsFiniteSet(S), NEW R, NEW x
  PROVE  Rank(x, S, R) \in Nat /\ IsFiniteSet(Ahead(x, S, R))
<1>1. Ahead(x, S, R) \in SUBSET S
  BY DEF Ahead
<1> QED
  BY <1>1, FS_Subset, FS_CardinalityType DEF Rank

\* Who comes before another has fewer before it.
LEMMA RankGrows ==
  ASSUME NEW S, IsFiniteSet(S), NEW R, StrictOrder(S, R), NEW x \in S, NEW y \in S, <<x, y>> \in R
  PROVE  Rank(x, S, R) < Rank(y, S, R)
<1> DEFINE A == Ahead(x, S, R)
           B == Ahead(y, S, R)
<1>1. A \in SUBSET B /\ x \in B /\ x \notin A
  BY DEF StrictOrder, Ahead
<1>2. IsFiniteSet(A) /\ IsFiniteSet(B) /\ Cardinality(A) \in Nat /\ Cardinality(B) \in Nat
  BY RankType DEF Rank
<1> HIDE DEF A, B
<1>3. Cardinality(A) <= Cardinality(B) /\ (Cardinality(B) = Cardinality(A) => B = A)
  BY <1>1, <1>2, FS_Subset
<1>4. Cardinality(A) < Cardinality(B)
  BY <1>1, <1>2, <1>3
<1> QED
  BY <1>4 DEF A, B, Rank

\* Each rank is that of exactly one element.
LEMMA RanksAreTaken ==
  ASSUME NEW S, IsFiniteSet(S), NEW R, StrictOrder(S, R)
  PROVE  /\ \A x \in S : Rank(x, S, R) \in 0 .. Cardinality(S) - 1
         /\ \A x, y \in S : Rank(x, S, R) = Rank(y, S, R) => x = y
         /\ \A x, y \in S : <<x, y>> \in R <=> Rank(x, S, R) < Rank(y, S, R)
         /\ \A n \in 0 .. Cardinality(S) - 1 : \E x \in S : Rank(x, S, R) = n
<1>0. Cardinality(S) \in Nat
  BY FS_CardinalityType
<1>1. ASSUME NEW x \in S
      PROVE  Rank(x, S, R) \in 0 .. Cardinality(S) - 1
  <2> DEFINE A == Ahead(x, S, R)
  <2>1. A \in SUBSET S /\ x \notin A
    BY DEF StrictOrder, Ahead
  <2>2. Cardinality(A) \in Nat
    BY RankType DEF Rank
  <2> HIDE DEF A
  <2>3. Cardinality(A) <= Cardinality(S) /\ (Cardinality(S) = Cardinality(A) => S = A)
    BY <2>1, FS_Subset
  <2>4. Cardinality(A) \in 0 .. Cardinality(S) - 1
    BY <1>0, <2>1, <2>2, <2>3
  <2> QED
    BY <2>4 DEF A, Rank
<1>2. ASSUME NEW x \in S, NEW y \in S
      PROVE  /\ Rank(x, S, R) = Rank(y, S, R) => x = y
             /\ <<x, y>> \in R <=> Rank(x, S, R) < Rank(y, S, R)
  <2>1. <<x, y>> \in R => Rank(x, S, R) < Rank(y, S, R)
    BY RankGrows
  <2>2. <<y, x>> \in R => Rank(y, S, R) < Rank(x, S, R)
    BY RankGrows
  <2>3. x = y \/ <<x, y>> \in R \/ <<y, x>> \in R
    BY DEF StrictOrder
  <2>4. Rank(x, S, R) \in Nat /\ Rank(y, S, R) \in Nat
    BY RankType
  <2> QED
    BY <2>1, <2>2, <2>3, <2>4
<1>3. \A n \in 0 .. Cardinality(S) - 1 : \E x \in S : Rank(x, S, R) = n
  <2> DEFINE T == 0 .. Cardinality(S) - 1
             f == [x \in S |-> Rank(x, S, R)]
  <2>1. IsFiniteSet(T) /\ Cardinality(T) = Cardinality(S)
    BY <1>0, FS_Interval
  <2>2. f \in Injection(S, T)
    BY <1>1, <1>2 DEF Injection, IsInjective
  <2> HIDE DEF T
  <2>3. f \in Surjection(S, T)
    <3> HIDE DEF f
    <3> QED
      BY <2>1, <2>2, FS_Injection
  <2>4. \A n \in T : \E x \in S : f[x] = n
    BY <2>3 DEF Surjection
  <2> QED
    BY <2>4 DEF T
<1> QED
  BY <1>1, <1>2, <1>3

\* The list l of n elements has every element of S once, in order.
Lists(l, n, S, R) ==
  /\ n \in Nat
  /\ l \in [1 .. n -> S]
  /\ \A i \in 1 .. n : Rank(l[i], S, R) = i - 1
  /\ \A x \in S : Rank(x, S, R) + 1 \in 1 .. n /\ l[Rank(x, S, R) + 1] = x
  /\ \A i, j \in 1 .. n : i < j <=> <<l[i], l[j]>> \in R

LEMMA InOrderLists ==
  ASSUME NEW S, IsFiniteSet(S), NEW R, StrictOrder(S, R)
  PROVE  Lists(InOrder(S, R), Cardinality(S), S, R)
<1> DEFINE l == InOrder(S, R)
           n == Cardinality(S)
<1>0. n \in Nat
  BY FS_CardinalityType
<1>1. ASSUME NEW i \in 1 .. n
      PROVE  l[i] \in S /\ Rank(l[i], S, R) = i - 1
  <2>1. i - 1 \in 0 .. n - 1
    BY <1>0
  <2>2. \E x \in S : Rank(x, S, R) = i - 1
    BY <2>1, RanksAreTaken
  <2>3. l[i] = CHOOSE x \in S : Rank(x, S, R) = i - 1
    BY DEF InOrder
  <2> QED
    BY <2>2, <2>3
<1>2. l \in [1 .. n -> S]
  <2>1. l = [i \in 1 .. n |-> l[i]]
    BY DEF InOrder
  <2> HIDE DEF l, n
  <2> QED
    BY <1>1, <2>1
<1> HIDE DEF l, n
<1>3. ASSUME NEW x \in S
      PROVE  Rank(x, S, R) + 1 \in 1 .. n /\ l[Rank(x, S, R) + 1] = x
  <2>1. Rank(x, S, R) \in 0 .. n - 1
    BY RanksAreTaken DEF n
  <2>2. Rank(x, S, R) + 1 \in 1 .. n /\ (Rank(x, S, R) + 1) - 1 = Rank(x, S, R)
    BY <1>0, <2>1
  <2>3. l[Rank(x, S, R) + 1] \in S /\ Rank(l[Rank(x, S, R) + 1], S, R) = Rank(x, S, R)
    BY <1>1, <2>2
  <2> QED
    BY <2>2, <2>3, RanksAreTaken
<1>4. ASSUME NEW i \in 1 .. n, NEW j \in 1 .. n
      PROVE  i < j <=> <<l[i], l[j]>> \in R
  <2>1. /\ l[i] \in S /\ Rank(l[i], S, R) = i - 1
        /\ l[j] \in S /\ Rank(l[j], S, R) = j - 1
    BY <1>1
  <2>2. <<l[i], l[j]>> \in R <=> i - 1 < j - 1
    BY <2>1, RanksAreTaken
  <2> QED
    BY <1>0, <2>2
<1> QED
  BY <1>0, <1>1, <1>2, <1>3, <1>4 DEF Lists, l, n

\* A list that has every element once, in order, is that list.
LEMMA OnlyInOrder ==
  ASSUME NEW S, IsFiniteSet(S), NEW R, StrictOrder(S, R),
         NEW l \in [1 .. Cardinality(S) -> S],
         \A i, j \in 1 .. Cardinality(S) : i < j => <<l[i], l[j]>> \in R
  PROVE  l = InOrder(S, R)
<1> DEFINE n == Cardinality(S)
           f == [i \in 1 .. n |-> l[i]]
<1>0. n \in Nat /\ IsFiniteSet(1 .. n) /\ Cardinality(1 .. n) = n
  BY FS_CardinalityType, FS_Interval
<1>1. \A i, j \in 1 .. n : i < j <=> <<l[i], l[j]>> \in R
  <2> SUFFICES ASSUME NEW i \in 1 .. n, NEW j \in 1 .. n, <<l[i], l[j]>> \in R PROVE i < j
    OBVIOUS
  <2>1. l[i] \in S /\ l[j] \in S
    OBVIOUS
  <2>2. i # j
    BY <2>1 DEF StrictOrder
  <2>3. ~(j < i)
    <3>1. j < i => <<l[j], l[i]>> \in R
      OBVIOUS
    <3> QED
      BY <2>1, <3>1 DEF StrictOrder
  <2> QED
    BY <1>0, <2>2, <2>3
<1> HIDE DEF n
<1>2. l \in Injection(1 .. n, S)
  <2>1. \A i, j \in 1 .. n : l[i] = l[j] => i = j
    <3> SUFFICES ASSUME NEW i \in 1 .. n, NEW j \in 1 .. n, l[i] = l[j], i # j PROVE FALSE
      OBVIOUS
    <3>1. i < j \/ j < i
      BY <1>0
    <3>2. l[i] \in S /\ <<l[i], l[i]>> \in R
      BY <1>1, <3>1 DEF n
    <3> QED
      BY <3>2 DEF StrictOrder
  <2> QED
    BY <2>1 DEF n, Injection, IsInjective
<1>3. l \in Surjection(1 .. n, S)
  BY <1>0, <1>2, FS_Injection DEF n
<1>4. ASSUME NEW i \in 1 .. n
      PROVE  l[i] \in S /\ Rank(l[i], S, R) = i - 1
  <2> DEFINE A == Ahead(l[i], S, R)
             g == [j \in 1 .. i - 1 |-> l[j]]
  <2>1. \A j \in 1 .. i - 1 : j \in 1 .. n /\ j < i
    BY <1>0
  <2>2. \A j \in 1 .. n : j < i => j \in 1 .. i - 1
    BY <1>0
  <2>3. g \in [1 .. i - 1 -> A]
    BY <1>1, <2>1 DEF Ahead, n
  <2>4. g \in Injection(1 .. i - 1, A)
    BY <1>2, <2>1, <2>3 DEF Injection, IsInjective
  <2>5. \A x \in A : \E j \in 1 .. i - 1 : g[j] = x
    <3> SUFFICES ASSUME NEW x \in A PROVE \E j \in 1 .. i - 1 : g[j] = x
      OBVIOUS
    <3>1. x \in S /\ <<x, l[i]>> \in R
      BY DEF Ahead
    <3>2. PICK j \in 1 .. n : l[j] = x
      BY <1>3, <3>1 DEF Surjection
    <3>3. j < i
      BY <1>1, <3>1, <3>2
    <3> QED
      BY <2>2, <3>2, <3>3
  <2> HIDE DEF A, g
  <2>6. g \in Bijection(1 .. i - 1, A)
    BY <2>3, <2>4, <2>5 DEF Bijection, Surjection
  <2>7. IsFiniteSet(1 .. i - 1) /\ Cardinality(1 .. i - 1) = i - 1
    BY <1>0, FS_Interval
  <2>8. Cardinality(A) = i - 1
    BY <2>6, <2>7, FS_Bijection DEF ExistsBijection
  <2> QED
    BY <2>8 DEF A, Rank, n
<1> DEFINE m == InOrder(S, R)
<1>5. Lists(m, n, S, R)
  BY InOrderLists DEF n
<1> HIDE DEF m
<1>6. ASSUME NEW i \in 1 .. n
      PROVE  l[i] = m[i]
  <2>1. m[i] \in S /\ Rank(m[i], S, R) = i - 1
    BY <1>5 DEF Lists
  <2> QED
    BY <1>4, <2>1, RanksAreTaken
<1>7. l \in [1 .. n -> S] /\ m \in [1 .. n -> S]
  BY <1>5 DEF Lists, n
<1>8. l = m
  <2>1. l = [i \in 1 .. n |-> l[i]] /\ m = [i \in 1 .. n |-> m[i]]
    BY <1>7, Zenon
  <2>2. [i \in 1 .. n |-> l[i]] = [i \in 1 .. n |-> m[i]]
    BY <1>6, Zenon
  <2> QED
    BY <2>1, <2>2, Zenon
<1> QED
  BY <1>8 DEF m

\* What is left of a list is the list of what is left.
Less == {p \in Nat \X Nat : p[1] < p[2]}

KeptAt(l, places) ==
  [k \in 1 .. Cardinality(places) |->
     l[CHOOSE i \in places : Cardinality({j \in places : j < i}) = k - 1]]

LEMMA OrderWithin ==
  ASSUME NEW S, NEW R, StrictOrder(S, R), NEW T \in SUBSET S
  PROVE  StrictOrder(T, R)
  BY DEF StrictOrder

LEMMA LessIsAnOrder ==
  ASSUME NEW P \in SUBSET Nat
  PROVE  StrictOrder(P, Less)
<1>1. \A i, j \in P : <<i, j>> \in Less <=> i < j
  BY DEF Less
<1>2. \A i \in P : i \in Nat
  OBVIOUS
<1> QED
  BY <1>1, <1>2 DEF StrictOrder

LEMMA KeptInOrder ==
  ASSUME NEW S, IsFiniteSet(S), NEW R, StrictOrder(S, R), NEW l, NEW n, Lists(l, n, S, R),
         NEW T \in SUBSET S
  PROVE  KeptAt(l, {i \in 1 .. n : l[i] \in T}) = InOrder(T, R)
<1> DEFINE P == {i \in 1 .. n : l[i] \in T}
           q == InOrder(P, Less)
           m == KeptAt(l, P)
           c == Cardinality(P)
<1>1. n \in Nat /\ P \in SUBSET Nat /\ P \in SUBSET (1 .. n) /\ IsFiniteSet(P)
  <2>1. n \in Nat /\ P \in SUBSET Nat /\ P \in SUBSET (1 .. n)
    BY DEF Lists
  <2>2. IsFiniteSet(1 .. n)
    BY <2>1, FS_Interval
  <2> HIDE DEF P
  <2> QED
    BY <2>1, <2>2, FS_Subset
<1>2. \A i \in P : i \in 1 .. n /\ l[i] \in T
  OBVIOUS
<1>3. \A i \in 1 .. n : l[i] \in T => i \in P
  OBVIOUS
<1>4. IsFiniteSet(T) /\ StrictOrder(T, R)
  BY FS_Subset, OrderWithin
<1> HIDE DEF P
<1>5. Lists(q, c, P, Less)
  BY <1>1, LessIsAnOrder, InOrderLists
<1>6. c = Cardinality(T)
  <2> DEFINE f == [i \in P |-> l[i]]
  <2>1. f \in [P -> T]
    BY <1>2
  <2>2. \A i, j \in P : f[i] = f[j] => i = j
    <3> SUFFICES ASSUME NEW i \in P, NEW j \in P, l[i] = l[j] PROVE i = j
      OBVIOUS
    <3>1. i - 1 = j - 1 /\ i \in Nat /\ j \in Nat
      BY <1>1, <1>2 DEF Lists
    <3> QED
      BY <3>1
  <2>3. \A x \in T : \E i \in P : f[i] = x
    <3> SUFFICES ASSUME NEW x \in T PROVE \E i \in P : f[i] = x
      OBVIOUS
    <3>1. Rank(x, S, R) + 1 \in 1 .. n /\ l[Rank(x, S, R) + 1] = x
      BY DEF Lists
    <3> QED
      BY <1>3, <3>1
  <2> HIDE DEF f
  <2>4. f \in Bijection(P, T)
    BY <2>1, <2>2, <2>3 DEF Bijection, Injection, Surjection, IsInjective
  <2> QED
    BY <1>1, <2>4, FS_Bijection DEF ExistsBijection
<1>7. ASSUME NEW k \in 1 .. c
      PROVE  q[k] \in P /\ m[k] = l[q[k]]
  <2>1. q[k] = CHOOSE i \in P : Rank(i, P, Less) = k - 1
    BY DEF InOrder
  <2>2. \A i \in P : Rank(i, P, Less) = Cardinality({j \in P : j < i})
    <3> SUFFICES ASSUME NEW i \in P PROVE Ahead(i, P, Less) = {j \in P : j < i}
      BY DEF Rank
    <3> QED
      BY <1>1 DEF Ahead, Less
  <2>3. (CHOOSE i \in P : Rank(i, P, Less) = k - 1)
          = (CHOOSE i \in P : Cardinality({j \in P : j < i}) = k - 1)
    BY <2>2
  <2>4. m[k] = l[CHOOSE i \in P : Cardinality({j \in P : j < i}) = k - 1]
    BY DEF KeptAt
  <2>5. q[k] \in P
    BY <1>5 DEF Lists
  <2> HIDE DEF q, m
  <2> QED
    BY <2>1, <2>3, <2>4, <2>5
<1>8. m = [k \in 1 .. c |-> m[k]]
  BY DEF KeptAt
<1> HIDE DEF m, q
<1>9. \A k \in 1 .. c : m[k] \in T
  BY <1>2, <1>7
<1>10. m \in [1 .. c -> T]
  BY <1>8, <1>9
<1>11. ASSUME NEW i \in 1 .. c, NEW j \in 1 .. c, i < j
       PROVE  <<m[i], m[j]>> \in R
  <2>1. <<q[i], q[j]>> \in Less
    BY <1>5, <1>11 DEF Lists
  <2>2. q[i] < q[j] /\ q[i] \in 1 .. n /\ q[j] \in 1 .. n
    BY <1>2, <1>7, <2>1 DEF Less
  <2>3. <<l[q[i]], l[q[j]]>> \in R
    BY <2>2 DEF Lists
  <2> QED
    BY <1>7, <2>3
<1>12. m = InOrder(T, R)
  BY <1>4, <1>6, <1>10, <1>11, OnlyInOrder
<1> QED
  BY <1>12 DEF m, P

-------------------------------------------------------------------------------
(* Numbers in ascending order *)

LEMMA OrderedNumbers ==
  ASSUME NEW S \in SUBSET Nat, IsFiniteSet(S)
  PROVE  Lists(Ordered(S, <), Cardinality(S), S, Less)
<1>1. \A x \in S : {y \in S : y < x} = Ahead(x, S, Less)
  BY DEF Ahead, Less
<1>2. \A i : (CHOOSE x \in S : Cardinality({y \in S : y < x}) = i - 1)
               = (CHOOSE x \in S : Rank(x, S, Less) = i - 1)
  BY <1>1 DEF Rank
<1>3. Ordered(S, <) = [i \in 1 .. Cardinality(S) |->
         CHOOSE x \in S : Cardinality({y \in S : y < x}) = i - 1]
  BY DEF Ordered
<1>4. InOrder(S, Less) = [i \in 1 .. Cardinality(S) |->
         CHOOSE x \in S : Rank(x, S, Less) = i - 1]
  BY DEF InOrder
<1>5. Ordered(S, <) = InOrder(S, Less)
  BY <1>2, <1>3, <1>4, Zenon
<1> QED
  BY <1>5, LessIsAnOrder, InOrderLists

===============================================================================
