-------------------------- MODULE EscrowSolvencyProofs --------------------------
(***************************************************************************)
(* The solvency of AgroasysEscrow, and that its parties end up with what   *)
(* they are owed, for every number of accounts, trades and proposals, all  *)
(* orders and amounts.  The sums are folds over finite sets; the first     *)
(* section derives the few facts about them that the proofs need: a sum is *)
(* the term of any element plus the sum of the rest, changing one term     *)
(* changes the sum by the difference, and terms of zero add nothing.       *)
(* The last sections are about BuyerSDK: which call made which trade, and  *)
(* that a contract used by the SDK's buyers is a contract.                 *)
(***************************************************************************)
EXTENDS AgroasysEscrowProofs, BuyerSDK, WellFoundedInduction

USE DEF switchVars, roleVars, unpauseVars, proposalVars, govVars,
        tradeRecordVars, disputeVars, accountVars, tradeVars, vars, Kinds

-------------------------------------------------------------------------------
(* Sums over finite sets *)

LEMMA SmallestByOrder ==
  \A R, Q, U : IsWellFoundedOn(R, Q) /\ U \subseteq Q /\ U # {} =>
    \E x \in U : \A y \in U : ~(<<y, x>> \in R)
  BY WFMin

\* A nonempty set of subsets of a finite set has a smallest member.
LEMMA SmallestSubset ==
  ASSUME NEW S, IsFiniteSet(S), NEW T \in SUBSET (SUBSET S), T # {}
  PROVE  \E s \in T : \A r \in T : r \subseteq s => r = s
<1>1. T \subseteq FiniteSubsetsOf(S)
  BY FS_Subset DEF FiniteSubsetsOf
<1>2. IsWellFoundedOn(StrictSubsetOrdering(S), FiniteSubsetsOf(S))
  BY FS_StrictSubsetOrderingWellFounded
<1>3. PICK s \in T : \A r \in T : ~(<<r, s>> \in StrictSubsetOrdering(S))
  BY <1>1, <1>2, SmallestByOrder
<1>4. \A r \in T : r \subseteq s => r = s
  BY <1>3 DEF StrictSubsetOrdering
<1> QED
  BY <1>4

\* The least element of a nonempty set of numbers.
LEMMA LeastNumber ==
  ASSUME NEW T \in SUBSET Nat, T # {}
  PROVE  \E n \in T : \A m \in T : n <= m
<1> DEFINE R == {ss \in Nat \X Nat : ss[1] < ss[2]}
<1>1. IsWellFoundedOn(R, Nat)
  BY NatLessThanWellFounded, Zenon DEF OpToRel
<1>2. \E n \in T : \A m \in T : ~(<<m, n>> \in R)
  <2>1. T \subseteq Nat
    OBVIOUS
  <2> HIDE DEF R
  <2> QED
    BY <1>1, <2>1, SmallestByOrder, Zenon
<1>3. PICK n \in T : \A m \in T : ~(<<m, n>> \in R)
  BY <1>2, Zenon
<1>4. ASSUME NEW m \in T
      PROVE  n <= m
  <2>1. m \in Nat /\ n \in Nat /\ (m < n => <<m, n>> \in R)
    OBVIOUS
  <2>2. ~(<<m, n>> \in R)
    BY <1>3
  <2> HIDE DEF R
  <2> QED
    BY <2>1, <2>2
<1> QED
  BY <1>4

Pick(s) == CHOOSE x \in s : TRUE

\* What one unfolding of a sum over s is, if f has the sums over smaller sets.
Unfolded(f, g, s) == IF s = {} THEN 0 ELSE g[Pick(s)] + f[s \ {Pick(s)}]

\* f has the sums of g over the subsets of S.
Adds(f, g, S) == f = [s \in SUBSET S |-> Unfolded(f, g, s)]

\* The sum of g[x] for the elements x of S.
Total(g, S) == (CHOOSE f : Adds(f, g, S))[S]

LEMMA PickIsIn ==
  ASSUME NEW s, s # {}
  PROVE  Pick(s) \in s
  BY DEF Pick

\* A table that unfolds correctly for the sets of up to n elements.
LEMMA AddsExists ==
  ASSUME NEW S, IsFiniteSet(S), NEW g
  PROVE  \E f : Adds(f, g, S)
<1> DEFINE Upto(f, n) == \A s \in SUBSET S : Cardinality(s) <= n => f[s] = Unfolded(f, g, s)
           T == {n \in Nat : ~\E f : Upto(f, n)}
<1>1. \A s \in SUBSET S : IsFiniteSet(s) /\ Cardinality(s) \in Nat
                            /\ Cardinality(s) <= Cardinality(S)
  BY FS_Subset, FS_CardinalityType
<1>2. T = {}
  <2>1. SUFFICES ASSUME T # {} PROVE FALSE
    OBVIOUS
  <2>2. PICK n \in T : \A m \in T : n <= m
    BY <2>1, LeastNumber
  <2>3. \E f : Upto(f, n)
    <3>1. CASE n = 0
      <4>1. \A s \in SUBSET S : Cardinality(s) <= n => s = {}
        BY <1>1, <3>1, FS_EmptySet
      <4>2. Upto([s \in SUBSET S |-> 0], n)
        BY <4>1 DEF Unfolded
      <4> QED
        BY <4>2
    <3>2. CASE n # 0
      <4>1. n - 1 \in Nat /\ ~(n <= n - 1)
        BY <3>2
      <4>2. PICK f : Upto(f, n - 1)
        BY <2>2, <4>1
      <4> DEFINE h == [s \in SUBSET S |-> Unfolded(f, g, s)]
      <4>3. ASSUME NEW s \in SUBSET S, Cardinality(s) <= n
            PROVE  h[s] = Unfolded(h, g, s)
        <5>1. CASE s = {}
          BY <5>1 DEF Unfolded
        <5>2. CASE s # {}
          <6> DEFINE r == s \ {Pick(s)}
          <6>1. r \in SUBSET S /\ Cardinality(r) <= n - 1
            BY <1>1, <4>3, <5>2, PickIsIn, FS_RemoveElement
          <6>2. f[r] = h[r]
            BY <4>2, <6>1
          <6> QED
            BY <5>2, <6>2 DEF Unfolded
        <5> QED
          BY <5>1, <5>2
      <4>4. Upto(h, n)
        BY <4>3
      <4> QED
        BY <4>4
    <3> QED
      BY <3>1, <3>2
  <2> QED
    BY <2>3
<1>3. Cardinality(S) \in Nat
  BY FS_CardinalityType
<1>4. PICK f : Upto(f, Cardinality(S))
  BY <1>2, <1>3
<1> DEFINE h == [s \in SUBSET S |-> Unfolded(f, g, s)]
<1>5. \A s \in SUBSET S : f[s] = h[s]
  BY <1>1, <1>4
<1>6. ASSUME NEW s \in SUBSET S
      PROVE  Unfolded(f, g, s) = Unfolded(h, g, s)
  <2>1. CASE s = {}
    BY <2>1 DEF Unfolded
  <2>2. CASE s # {}
    <3>1. f[s \ {Pick(s)}] = h[s \ {Pick(s)}]
      BY <1>5
    <3> QED
      BY <2>2, <3>1 DEF Unfolded
  <2> QED
    BY <2>1, <2>2
<1>7. Adds(h, g, S)
  BY <1>6 DEF Adds
<1> QED
  BY <1>7

\* Adds, unfolded at one set.
LEMMA AddsAt ==
  ASSUME NEW f, NEW g, NEW S, Adds(f, g, S), NEW s \in SUBSET S
  PROVE  f[s] = Unfolded(f, g, s)
<1> DEFINE F == [r \in SUBSET S |-> Unfolded(f, g, r)]
<1>1. f = F
  BY DEF Adds
<1>2. F[s] = Unfolded(f, g, s)
  OBVIOUS
<1> QED
  BY <1>1, <1>2

\* Two sums over the same set of equal terms are equal.
LEMMA AddsAgree ==
  ASSUME NEW S, IsFiniteSet(S), NEW A, NEW B, S \subseteq A, S \subseteq B,
         NEW f, NEW g, Adds(f, g, A), NEW h, NEW k, Adds(h, k, B),
         \A x \in S : g[x] = k[x]
  PROVE  f[S] = h[S]
<1> DEFINE T == {s \in SUBSET S : f[s] # h[s]}
<1>1. SUFFICES ASSUME T # {} PROVE FALSE
  BY DEF T
<1>2. PICK s \in T : \A r \in T : r \subseteq s => r = s
  <2> HIDE DEF T
  <2>1. T \in SUBSET (SUBSET S)
    BY DEF T
  <2> QED
    BY <1>1, <2>1, SmallestSubset
<1>3. f[s] = Unfolded(f, g, s) /\ h[s] = Unfolded(h, k, s)
  BY AddsAt
<1>4. CASE s = {}
  BY <1>3, <1>4 DEF Unfolded
<1>5. CASE s # {}
  <2>1. Pick(s) \in s
    BY <1>5, PickIsIn
  <2>2. f[s \ {Pick(s)}] = h[s \ {Pick(s)}] /\ g[Pick(s)] = k[Pick(s)]
    BY <1>2, <2>1
  <2> QED
    BY <1>3, <1>5, <2>2 DEF Unfolded
<1> QED
  BY <1>4, <1>5

LEMMA AddsType ==
  ASSUME NEW S, IsFiniteSet(S), NEW f, NEW g, Adds(f, g, S), \A x \in S : g[x] \in Int,
         NEW u \in SUBSET S
  PROVE  f[u] \in Int
<1> DEFINE T == {s \in SUBSET S : f[s] \notin Int}
<1>1. SUFFICES ASSUME T # {} PROVE FALSE
  BY DEF T
<1>2. PICK s \in T : \A r \in T : r \subseteq s => r = s
  <2> HIDE DEF T
  <2>1. T \in SUBSET (SUBSET S)
    BY DEF T
  <2> QED
    BY <1>1, <2>1, SmallestSubset
<1>3. f[s] = Unfolded(f, g, s)
  BY AddsAt
<1>4. CASE s = {}
  BY <1>3, <1>4 DEF Unfolded
<1>5. CASE s # {}
  <2>1. Pick(s) \in s
    BY <1>5, PickIsIn
  <2>2. f[s \ {Pick(s)}] \in Int /\ g[Pick(s)] \in Int
    BY <1>2, <2>1
  <2> QED
    BY <1>3, <1>5, <2>2 DEF Unfolded
<1> QED
  BY <1>4, <1>5

\* A sum is any of its terms plus the sum of the others.
LEMMA AddsOne ==
  ASSUME NEW S, IsFiniteSet(S), NEW f, NEW g, Adds(f, g, S), \A x \in S : g[x] \in Int,
         NEW u \in SUBSET S, NEW e \in u
  PROVE  f[u] = g[e] + f[u \ {e}]
<1> DEFINE T == {s \in SUBSET S : \E x \in s : f[s] # g[x] + f[s \ {x}]}
<1>1. SUFFICES ASSUME T # {} PROVE FALSE
  BY DEF T
<1>2. PICK s \in T : \A r \in T : r \subseteq s => r = s
  <2> HIDE DEF T
  <2>1. T \in SUBSET (SUBSET S)
    BY DEF T
  <2> QED
    BY <1>1, <2>1, SmallestSubset
<1>3. PICK x \in s : f[s] # g[x] + f[s \ {x}]
  OBVIOUS
<1> DEFINE c == Pick(s)
           r == s \ {x}
           q == s \ {c}
           o == s \ {c, x}
<1>4. c \in s
  BY PickIsIn
<1>5. f[s] = g[c] + f[q]
  <2>1. f[s] = Unfolded(f, g, s) /\ s # {}
    BY <1>3, AddsAt
  <2> QED
    BY <2>1 DEF Unfolded
<1>6. c # x
  BY <1>3, <1>5
<1>7. f[q] = g[x] + f[o]
  <2>1. q \notin T /\ x \in q /\ q \in SUBSET S
    BY <1>2, <1>4, <1>6
  <2>2. q \ {x} = o
    OBVIOUS
  <2> QED
    BY <2>1, <2>2
<1>8. f[r] = g[c] + f[o]
  <2>1. r \notin T /\ c \in r /\ r \in SUBSET S
    BY <1>2, <1>4, <1>6
  <2>2. r \ {c} = o
    OBVIOUS
  <2> QED
    BY <2>1, <2>2
<1>9. g[c] \in Int /\ g[x] \in Int /\ f[o] \in Int
  <2>1. o \in SUBSET S
    OBVIOUS
  <2> QED
    BY <1>3, <1>4, <2>1, AddsType
<1> QED
  BY <1>3, <1>5, <1>7, <1>8, <1>9

LEMMA TotalAdds ==
  ASSUME NEW S, IsFiniteSet(S), NEW g
  PROVE  \E f : Adds(f, g, S) /\ Total(g, S) = f[S]
  BY AddsExists DEF Total

LEMMA TotalEmpty ==
  ASSUME NEW g
  PROVE  Total(g, {}) = 0
<1>1. PICK f : Adds(f, g, {}) /\ Total(g, {}) = f[{}]
  BY TotalAdds, FS_EmptySet
<1> QED
  BY <1>1, AddsAt DEF Unfolded

LEMMA TotalAgree ==
  ASSUME NEW S, IsFiniteSet(S), NEW g, NEW k, \A x \in S : g[x] = k[x]
  PROVE  Total(g, S) = Total(k, S)
<1>1. PICK f : Adds(f, g, S) /\ Total(g, S) = f[S]
  BY TotalAdds
<1>2. PICK h : Adds(h, k, S) /\ Total(k, S) = h[S]
  BY TotalAdds
<1> QED
  BY <1>1, <1>2, AddsAgree

LEMMA TotalOne ==
  ASSUME NEW S, IsFiniteSet(S), NEW g, \A x \in S : g[x] \in Int, NEW e \in S
  PROVE  /\ Total(g, S) \in Int /\ Total(g, S \ {e}) \in Int
         /\ Total(g, S) = g[e] + Total(g, S \ {e})
<1> DEFINE R == S \ {e}
<1>0. IsFiniteSet(R)
  BY FS_RemoveElement
<1>1. PICK f : Adds(f, g, S) /\ Total(g, S) = f[S]
  BY TotalAdds
<1>2. PICK h : Adds(h, g, R) /\ Total(g, R) = h[R]
  BY <1>0, TotalAdds
<1>3. h[R] = f[R]
  BY <1>0, <1>1, <1>2, AddsAgree
<1>4. f[S] = g[e] + f[R]
  BY <1>1, AddsOne
<1>5. f[S] \in Int /\ f[R] \in Int
  BY <1>1, AddsType
<1> QED
  BY <1>1, <1>2, <1>3, <1>4, <1>5

LEMMA TotalNat ==
  ASSUME NEW S, IsFiniteSet(S), NEW g, \A x \in S : g[x] \in Nat
  PROVE  Total(g, S) \in Nat
<1> DEFINE T == {s \in SUBSET S : Total(g, s) \notin Nat}
<1>1. SUFFICES ASSUME T # {} PROVE FALSE
  BY DEF T
<1>2. PICK s \in T : \A r \in T : r \subseteq s => r = s
  <2> HIDE DEF T
  <2>1. T \in SUBSET (SUBSET S)
    BY DEF T
  <2> QED
    BY <1>1, <2>1, SmallestSubset
<1>3. IsFiniteSet(s)
  BY FS_Subset
<1>4. s # {}
  <2>1. Total(g, {}) = 0
    BY TotalEmpty
  <2>2. Total(g, s) \notin Nat
    BY <1>2
  <2> HIDE DEF T
  <2> QED
    BY <2>1, <2>2
<1>5. PICK e : e \in s
  BY <1>4
<1>6. Total(g, s) = g[e] + Total(g, s \ {e})
  BY <1>3, <1>5, TotalOne
<1>7. Total(g, s \ {e}) \in Nat
  <2>1. s \ {e} \in SUBSET S /\ s \ {e} \subseteq s /\ s \ {e} # s
    BY <1>5
  <2> QED
    BY <1>2, <2>1
<1>8. Total(g, s) \notin Nat /\ g[e] \in Nat
  BY <1>2, <1>5
<1> HIDE DEF T
<1> QED
  BY <1>6, <1>7, <1>8

\* Changing one term changes the sum by the difference.
LEMMA TotalChange ==
  ASSUME NEW S, IsFiniteSet(S), NEW g, NEW k, NEW e \in S,
         \A x \in S : g[x] \in Int /\ k[x] \in Int,
         \A x \in S \ {e} : k[x] = g[x]
  PROVE  Total(k, S) = Total(g, S) + k[e] - g[e]
<1> DEFINE R == S \ {e}
<1>1. IsFiniteSet(R)
  BY FS_RemoveElement
<1>2. Total(k, R) = Total(g, R)
  BY <1>1, TotalAgree
<1>3. /\ Total(g, S) = g[e] + Total(g, R) /\ Total(k, S) = k[e] + Total(k, R)
      /\ Total(g, R) \in Int
  BY TotalOne
<1> QED
  BY <1>2, <1>3

LEMMA TotalInt ==
  ASSUME NEW S, IsFiniteSet(S), NEW g, \A x \in S : g[x] \in Int
  PROVE  Total(g, S) \in Int
<1>1. CASE S = {}
  <2>1. Total(g, {}) = 0
    BY TotalEmpty
  <2> QED
    BY <1>1, <2>1
<1>2. CASE S # {}
  BY <1>2, TotalOne
<1> QED
  BY <1>1, <1>2

\* The sum of differences is the difference of the sums.
LEMMA TotalMinus ==
  ASSUME NEW S, IsFiniteSet(S), NEW g, NEW k, NEW m,
         \A x \in S : g[x] \in Int /\ k[x] \in Int /\ m[x] = g[x] - k[x]
  PROVE  Total(m, S) = Total(g, S) - Total(k, S)
<1> DEFINE T == {s \in SUBSET S : Total(m, s) # Total(g, s) - Total(k, s)}
<1>1. SUFFICES ASSUME T # {} PROVE FALSE
  BY DEF T
<1>2. PICK s \in T : \A r \in T : r \subseteq s => r = s
  <2> HIDE DEF T
  <2>1. T \in SUBSET (SUBSET S)
    BY DEF T
  <2> QED
    BY <1>1, <2>1, SmallestSubset
<1>3. s \in SUBSET S /\ Total(m, s) # Total(g, s) - Total(k, s)
  BY <1>2
<1>4. IsFiniteSet(s)
  BY <1>3, FS_Subset
<1>5. s # {}
  <2>1. Total(m, {}) = 0 /\ Total(g, {}) = 0 /\ Total(k, {}) = 0
    BY TotalEmpty
  <2> HIDE DEF T
  <2> QED
    BY <1>3, <2>1
<1>6. PICK e : e \in s
  BY <1>5
<1> DEFINE r == s \ {e}
<1>7. /\ g[e] \in Int /\ k[e] \in Int /\ m[e] = g[e] - k[e]
      /\ \A x \in s : g[x] \in Int
      /\ \A x \in s : k[x] \in Int
      /\ \A x \in s : m[x] \in Int
  BY <1>3, <1>6
<1>8. /\ Total(g, s) = g[e] + Total(g, r) /\ Total(g, r) \in Int
      /\ Total(k, s) = k[e] + Total(k, r) /\ Total(k, r) \in Int
      /\ Total(m, s) = m[e] + Total(m, r) /\ Total(m, r) \in Int
  <2> HIDE DEF T
  <2> QED
    BY <1>4, <1>6, <1>7, TotalOne
<1>9. Total(m, r) = Total(g, r) - Total(k, r)
  <2>1. r \in SUBSET S /\ r \subseteq s /\ r # s
    BY <1>3, <1>6
  <2>2. r \notin T
    BY <1>2, <2>1
  <2> QED
    BY <2>1, <2>2
<1> HIDE DEF T, r
<1> QED
  BY <1>3, <1>7, <1>8, <1>9

LEMMA TotalZero ==
  ASSUME NEW S, IsFiniteSet(S), NEW g, \A x \in S : g[x] = 0
  PROVE  Total(g, S) = 0
<1>1. \A x \in S : g[x] \in Int /\ g[x] \in Int /\ g[x] = g[x] - g[x]
  OBVIOUS
<1>2. Total(g, S) = Total(g, S) - Total(g, S)
  BY <1>1, TotalMinus
<1>3. Total(g, S) \in Int
  BY TotalInt
<1> QED
  BY <1>2, <1>3

\* Terms that are zero add nothing to a sum.
LEMMA TotalSuperset ==
  ASSUME NEW S, IsFiniteSet(S), NEW R \in SUBSET S, NEW g, \A x \in S : g[x] \in Int,
         \A x \in S \ R : g[x] = 0
  PROVE  Total(g, S) = Total(g, R)
<1> DEFINE T == {s \in SUBSET (S \ R) : Total(g, R \cup s) # Total(g, R)}
<1>1. SUFFICES ASSUME T # {} PROVE FALSE
  <2>1. PICK D : D = S \ R
    OBVIOUS
  <2>2. R \cup D = S
    BY <2>1
  <2>3. Total(g, R \cup D) = Total(g, R)
    BY <2>1
  <2> QED
    BY <2>2, <2>3
<1>2. PICK s \in T : \A r \in T : r \subseteq s => r = s
  <2> HIDE DEF T
  <2>1. T \in SUBSET (SUBSET (S \ R))
    BY DEF T
  <2>2. IsFiniteSet(S \ R)
    BY FS_Subset
  <2> QED
    BY <1>1, <2>1, <2>2, SmallestSubset
<1>3. s \in SUBSET (S \ R) /\ Total(g, R \cup s) # Total(g, R)
  BY <1>2
<1>4. PICK e : e \in s
  <2>1. s = {} => R \cup s = R
    OBVIOUS
  <2> QED
    BY <1>3, <2>1
<1> DEFINE U == R \cup s
           V == R \cup (s \ {e})
<1>5. IsFiniteSet(U) /\ e \in U /\ U \ {e} = V /\ \A x \in U : g[x] \in Int
  BY <1>3, <1>4, FS_Subset
<1>6. g[e] = 0
  BY <1>3, <1>4
<1>7. Total(g, V) = Total(g, R)
  <2>1. s \ {e} \in SUBSET (S \ R) /\ s \ {e} \subseteq s /\ s \ {e} # s
    BY <1>3, <1>4
  <2> QED
    BY <1>2, <2>1
<1>8. Total(g, U) # Total(g, R)
  BY <1>3
<1> HIDE DEF T, U, V
<1>9. Total(g, U) = g[e] + Total(g, U \ {e}) /\ Total(g, U \ {e}) \in Int
  BY <1>5, TotalOne
<1>10. Total(g, U \ {e}) = Total(g, V)
  BY <1>5, Zenon
<1> QED
  BY <1>6, <1>7, <1>8, <1>9, <1>10

-------------------------------------------------------------------------------
(* Solvency, with its sums as totals *)

HeldOf == [t \in TradeIds |-> Held(t)]

Solvent ==
  /\ totalClaimableUsdc = Total(claimableUsdc, Accounts)
  /\ usdc[Escrow] = Total(HeldOf, Created) + totalClaimableUsdc

LEMMA CreatedFinite == IsFiniteSet(Created) /\ IsFiniteSet(TradeIds)
<1>1. IsFiniteSet(TradeIds)
  BY FS_Interval, EscrowAssumption DEF TradeIds
<1> QED
  BY <1>1, FS_Subset DEF Created

LEMMA SolventMeans == Solvency <=> Solvent
<1>1. MapThenSumSet(LAMBDA a : claimableUsdc[a], Accounts) = Total(claimableUsdc, Accounts)
  BY Zenon DEF MapThenSumSet, MapThenFoldSet, Total, Adds, Unfolded, Pick
<1>2. MapThenSumSet(Held, Created) = Total(HeldOf, Created)
  <2> DEFINE Sums(f) == f = [s \in SUBSET Created |->
                               IF s = {} THEN 0 ELSE Held(Pick(s)) + f[s \ {Pick(s)}]]
             h == CHOOSE f : Sums(f)
  <2>1. MapThenSumSet(Held, Created) = h[Created]
    BY Zenon DEF MapThenSumSet, MapThenFoldSet, Pick
  <2>2. ASSUME NEW f, NEW s \in SUBSET Created
        PROVE  Unfolded(f, HeldOf, s) = IF s = {} THEN 0 ELSE Held(Pick(s)) + f[s \ {Pick(s)}]
    <3>1. CASE s # {}
      <4>1. Pick(s) \in TradeIds
        BY <3>1, PickIsIn DEF Created
      <4> QED
        BY <3>1, <4>1 DEF Unfolded, HeldOf
    <3> QED
      BY <3>1 DEF Unfolded
  <2>3. \A f : Sums(f) <=> Adds(f, HeldOf, Created)
    BY <2>2 DEF Adds
  <2>4. PICK f : Adds(f, HeldOf, Created) /\ Total(HeldOf, Created) = f[Created]
    BY CreatedFinite, TotalAdds
  <2> HIDE DEF Sums
  <2>5. Sums(h)
    BY <2>3, <2>4
  <2>6. h[Created] = f[Created]
    BY <2>3, <2>4, <2>5, CreatedFinite, AddsAgree
  <2> QED
    BY <2>1, <2>4, <2>6
<1> QED
  BY <1>1, <1>2 DEF Solvency, Solvent

\* The buyer and the supplier of a trade that exists are addresses that can claim.
PartiesKnown ==
  \A t \in Created : trades[t].buyerAddress \in Accounts /\ trades[t].supplierAddress \in Accounts

(***************************************************************************)
(* The inductive invariant: what a trade accrues goes to a party that has  *)
(* an account (createTrade refuses the zero supplier), and what MoneyInv   *)
(* says of the amounts makes each release match what the trade held.       *)
(***************************************************************************)
SolvencyInv == MoneyInv /\ PartiesKnown /\ Solvent

SumsTyped ==
  /\ \A a \in Accounts : claimableUsdc[a] \in Int
  /\ \A t \in TradeIds : HeldOf[t] = Held(t) /\ Held(t) \in Int
  /\ totalClaimableUsdc \in Int
  /\ usdc[Escrow] \in Int

LEMMA SumTypes == TypeOK => SumsTyped
<1>1. TypeOK => \A t \in TradeIds : Held(t) \in Int
  BY TypeGroups, TradeTermTypes DEF Held
<1> QED
  BY <1>1, TypeGroups DEF SumsTyped, AccountTypes, MoneyTypes, HeldOf

\* Nothing moves: what the trades hold and what is claimable stays.
LEMMA StillSolvent ==
  ASSUME SolvencyInv, UNCHANGED <<tradeCounter, claimableUsdc, totalClaimableUsdc, usdc>>,
         \A t \in TradeIds : SameTerms(t) /\ Held(t)' = Held(t)
  PROVE  PartiesKnown' /\ Solvent'
<1>1. HeldOf' = HeldOf
  BY DEF HeldOf
<1>2. Created' = Created
  BY DEF Created
<1> QED
  BY <1>1, <1>2 DEF SolvencyInv, PartiesKnown, Solvent, SameTerms, Created

\* An amount leaves what trade t holds and becomes claimable.
LEMMA AccrualSolvent ==
  ASSUME SolvencyInv, TypeOK', NEW t \in Created, NEW n \in Nat,
         Total(claimableUsdc', Accounts) = Total(claimableUsdc, Accounts) + n,
         totalClaimableUsdc' = totalClaimableUsdc + n,
         UNCHANGED <<tradeCounter, usdc>>, OnlyTouches(t), SameTerms(t),
         Held(t)' = Held(t) - n
  PROVE  PartiesKnown' /\ Solvent'
<1>0. TypeOK /\ t \in TradeIds
  BY DEF SolvencyInv, MoneyInv, TypeInv, Created
<1>1. Created' = Created
  BY DEF Created
<1>2. SumsTyped /\ SumsTyped'
  BY <1>0, SumTypes, PTL
<1>3. \A u \in TradeIds \ {t} : Held(u)' = Held(u)
  BY DEF OnlyTouches, Held
<1>4. PICK H : H = HeldOf
  OBVIOUS
<1>5. PICK K : K = HeldOf'
  OBVIOUS
<1>6. /\ \A u \in Created : H[u] \in Int /\ K[u] \in Int
      /\ \A u \in Created \ {t} : K[u] = H[u]
      /\ K[t] = H[t] - n
  BY <1>0, <1>2, <1>3, <1>4, <1>5 DEF SumsTyped, Created
<1>7. Total(H, Created) \in Int
  <2>1. \A u \in Created : H[u] \in Int
    BY <1>6
  <2> QED
    BY <2>1, CreatedFinite, TotalOne
<1>8. Total(K, Created) = Total(H, Created) + K[t] - H[t]
  BY <1>6, CreatedFinite, TotalChange
<1>9. totalClaimableUsdc \in Int
  BY <1>2 DEF SumsTyped
<1>10. Solvent'
  BY <1>1, <1>4, <1>5, <1>6, <1>7, <1>8, <1>9 DEF SolvencyInv, Solvent
<1>11. PartiesKnown'
  BY <1>1 DEF SolvencyInv, PartiesKnown, OnlyTouches, SameTerms, Created
<1> QED
  BY <1>10, <1>11

\* Crediting an account adds to the sum of all accounts.
LEMMA CreditTotal ==
  ASSUME NEW f \in [Accounts -> Nat], NEW r \in Accounts, NEW n \in Nat
  PROVE  /\ Credit(f, r, n) \in [Accounts -> Nat]
         /\ Total(Credit(f, r, n), Accounts) = Total(f, Accounts) + n
         /\ Total(f, Accounts) \in Int
<1>1. PICK k : k = Credit(f, r, n)
  OBVIOUS
<1>2. /\ k \in [Accounts -> Nat]
      /\ k[r] = f[r] + n
      /\ \A x \in Accounts \ {r} : k[x] = f[x]
  BY <1>1, CreditType DEF Credit
<1>3. \A x \in Accounts : f[x] \in Int /\ k[x] \in Int
  BY <1>2
<1>4. Total(f, Accounts) \in Int
  BY <1>3, AddressAssumption, TotalOne
<1>5. Total(k, Accounts) = Total(f, Accounts) + k[r] - f[r]
  BY <1>2, <1>3, AddressAssumption, TotalChange
<1> QED
  BY <1>1, <1>2, <1>3, <1>4, <1>5

LEMMA PayOutSolvent ==
  ASSUME SolvencyInv, NEW i \in Accounts, NEW r \in Accounts, PayOut(i, r)
  PROVE  PartiesKnown' /\ Solvent'
<1>0. TypeOK /\ AccountTypes /\ MoneyTypes /\ SumsTyped
  BY TypeGroups, SumTypes DEF SolvencyInv, MoneyInv, TypeInv
<1>1. PICK n : n = claimableUsdc[i]
  OBVIOUS
<1>2. PICK k : k = [claimableUsdc EXCEPT ![i] = 0]
  OBVIOUS
<1>3. /\ claimableUsdc' = k
      /\ totalClaimableUsdc' = totalClaimableUsdc - n
      /\ usdc' = [usdc EXCEPT ![Escrow] = @ - n, ![r] = @ + n]
      /\ UNCHANGED tradeRecordVars
  BY <1>1, <1>2, Zenon DEF PayOut
<1>4. n \in Nat /\ usdc'[Escrow] = usdc[Escrow] - n
  <2>1. Escrow # r
    BY EscrowAssumption
  <2> QED
    BY <1>0, <1>1, <1>3, <2>1 DEF AccountTypes, MoneyTypes
<1>12. PICK f : f = claimableUsdc
  OBVIOUS
<1>5. /\ k[i] = 0 /\ f[i] = n
      /\ \A x \in Accounts : f[x] \in Int /\ k[x] \in Int
      /\ \A x \in Accounts \ {i} : k[x] = f[x]
  BY <1>0, <1>1, <1>2, <1>12 DEF AccountTypes
<1>6. Total(k, Accounts) = Total(f, Accounts) + k[i] - f[i]
  BY <1>5, AddressAssumption, TotalChange
<1>7. Total(f, Accounts) \in Int
  BY <1>5, AddressAssumption, TotalOne
<1>8. Created' = Created /\ HeldOf' = HeldOf
  BY <1>3 DEF Created, HeldOf, Held
<1>9. Total(HeldOf, Created) \in Int
  <2>1. \A t \in Created : HeldOf[t] \in Int
    BY <1>0 DEF SumsTyped, Created
  <2>2. CASE Created = {}
    BY <2>2, TotalEmpty
  <2> QED
    BY <2>1, <2>2, CreatedFinite, TotalOne
<1>10. Solvent'
  <2>1. claimableUsdc' = k /\ totalClaimableUsdc' = totalClaimableUsdc - n
    BY <1>3
  <2> QED
    BY <1>0, <1>12, <1>4, <1>5, <1>6, <1>7, <1>8, <1>9, <2>1
       DEF SolvencyInv, Solvent, SumsTyped
<1>11. PartiesKnown'
  BY <1>3, <1>8 DEF SolvencyInv, PartiesKnown
<1> QED
  BY <1>10, <1>11

LEMMA CreateSolvent ==
  ASSUME SolvencyInv, TypeOK', NEW s \in Accounts, NEW o \in Orders, NEW n, NEW dl, NEW sg,
         createTrade(s, o, n, dl, sg)
  PROVE  PartiesKnown' /\ Solvent'
<1>0. TypeOK /\ RecordTypes /\ MoneyTypes /\ SumsTyped /\ SumsTyped'
  BY TypeGroups, SumTypes, PTL DEF SolvencyInv, MoneyInv, TypeInv
<1>1. PICK t : t = tradeCounter
  OBVIOUS
<1>2. PICK rec : rec = [status |-> "LOCKED", ricardianHash |-> o.ricardianHash,
                        buyerAddress |-> s, supplierAddress |-> o.supplier,
                        totalAmountLocked |-> o.total, logisticsAmount |-> o.logistics,
                        platformFeesAmount |-> o.platformFees,
                        supplierFirstTranche |-> o.firstTranche,
                        supplierSecondTranche |-> o.secondTranche,
                        createdAt |-> now, arrivalTimestamp |-> 0]
  OBVIOUS
<1>3. /\ trades' = [trades EXCEPT ![t] = rec]
      /\ tradeCounter' = t + 1
      /\ t < MaxTrades
      /\ o.supplier # ZeroAddress
      /\ usdc' = [usdc EXCEPT ![s] = @ - o.total, ![Escrow] = @ + o.total]
      /\ UNCHANGED accountVars
  BY <1>1, <1>2, Zenon DEF createTrade, AcceptsTrade, ValidOrder
<1>4. t \in TradeIds /\ t \in Nat
  BY <1>0, <1>1, <1>3, EscrowAssumption DEF RecordTypes, TradeIds
<1>5. trades'[t] = rec /\ \A u \in TradeIds \ {t} : trades'[u] = trades[u]
  BY <1>0, <1>3, <1>4 DEF RecordTypes
<1>6. /\ rec.status = "LOCKED" /\ rec.buyerAddress = s /\ rec.supplierAddress = o.supplier
      /\ rec.totalAmountLocked = o.total
  BY <1>2
<1>7. Created' = Created \cup {t} /\ t \notin Created /\ Created \subseteq TradeIds
  BY <1>1, <1>3, <1>4 DEF Created, TradeIds
<1>8. o.total \in Nat /\ o.supplier \in Accounts
  BY <1>3, EscrowAssumption DEF Order
<1>9. usdc'[Escrow] = usdc[Escrow] + o.total
  <2>1. Escrow # s
    BY EscrowAssumption
  <2> QED
    BY <1>0, <1>3, <1>8, <2>1 DEF MoneyTypes
<1>10. Held(t)' = o.total /\ \A u \in TradeIds \ {t} : Held(u)' = Held(u)
  BY <1>5, <1>6 DEF Held
<1>11. PICK H : H = HeldOf
  OBVIOUS
<1>12. PICK K : K = HeldOf'
  OBVIOUS
<1>13. PICK C : C = Created \cup {t}
  OBVIOUS
<1>14. /\ \A u \in Created : H[u] \in Int
       /\ \A u \in C : K[u] \in Int
       /\ \A u \in Created : K[u] = H[u]
       /\ K[t] = o.total
  BY <1>0, <1>4, <1>7, <1>10, <1>11, <1>12, <1>13 DEF SumsTyped
<1>15. IsFiniteSet(C) /\ t \in C /\ C \ {t} = Created
  BY <1>7, <1>13, CreatedFinite, FS_AddElement
<1>16. Total(K, C) = K[t] + Total(K, C \ {t}) /\ Total(K, C \ {t}) \in Int
  BY <1>14, <1>15, TotalOne
<1>17. Total(K, Created) = Total(H, Created)
  BY <1>14, CreatedFinite, TotalAgree
<1>18. totalClaimableUsdc \in Int
  BY <1>0 DEF SumsTyped
<1>19. Solvent'
  <2>1. UNCHANGED <<claimableUsdc, totalClaimableUsdc>>
    BY <1>3
  <2>2. usdc[Escrow] \in Int /\ usdc[Escrow] = Total(H, Created) + totalClaimableUsdc
    BY <1>0, <1>11 DEF SumsTyped, SolvencyInv, Solvent
  <2>3. Total(K, C) = o.total + Total(H, Created) /\ Total(H, Created) \in Int
    BY <1>14, <1>15, <1>16, <1>17
  <2>4. usdc'[Escrow] = Total(K, C) + totalClaimableUsdc
    BY <1>8, <1>9, <1>18, <2>2, <2>3
  <2>5. Total(HeldOf, Created)' = Total(K, C)
    BY <1>7, <1>12, <1>13
  <2> QED
    BY <2>1, <2>4, <2>5 DEF SolvencyInv, Solvent
<1>20. PartiesKnown'
  BY <1>5, <1>6, <1>7, <1>8 DEF SolvencyInv, PartiesKnown
<1> QED
  BY <1>19, <1>20

LEMMA CloseSolvent ==
  ASSUME SolvencyInv, TypeOK', NEW t \in Created, NEW r \in Accounts, NEW c \in ClaimType,
         NEW n \in Nat, n = Held(t), Close(t, r, n, c)
  PROVE  PartiesKnown' /\ Solvent'
<1>0. RecordTypes /\ AccountTypes /\ t \in TradeIds
  BY TypeGroups DEF SolvencyInv, MoneyInv, TypeInv, Created
<1>1. /\ trades'[t].status = "CLOSED" /\ SameTerms(t) /\ OnlyTouches(t)
      /\ tradeCounter' = tradeCounter
  BY <1>0, CloseEffect
<1>2. /\ claimableUsdc' = Credit(claimableUsdc, r, n)
      /\ totalClaimableUsdc' = totalClaimableUsdc + n
      /\ UNCHANGED usdc
  BY Zenon DEF Close, AccrueClaimable
<1>3. Total(claimableUsdc', Accounts) = Total(claimableUsdc, Accounts) + n
  BY <1>0, <1>2, CreditTotal DEF AccountTypes
<1>4. Held(t)' = Held(t) - n
  BY <1>1 DEF Held
<1> QED
  BY <1>1, <1>2, <1>3, <1>4, AccrualSolvent

LEMMA ReleaseSolvent ==
  ASSUME SolvencyInv, TypeOK', NEW s, NEW t \in TradeIds, releaseFundsStage1(s, t)
  PROVE  PartiesKnown' /\ Solvent'
<1>0. /\ RecordTypes /\ AccountTypes /\ SumsTyped /\ Treasury \in Accounts
      /\ AmountsAddUp /\ PartiesKnown
  BY TypeGroups, SumTypes, GovernanceAssumption DEF SolvencyInv, MoneyInv, TypeInv
<1>1. PICK first, fee1, fee2, supplier :
        /\ first = trades[t].supplierFirstTranche
        /\ fee1 = trades[t].logisticsAmount
        /\ fee2 = trades[t].platformFeesAmount
        /\ supplier = trades[t].supplierAddress
  OBVIOUS
<1>2. /\ Exists(t)
      /\ trades[t].status = "LOCKED"
      /\ trades' = [trades EXCEPT ![t] = [trades[t] EXCEPT !.status = "IN_TRANSIT"]]
      /\ claimableUsdc' = Credit(Credit(Credit(claimableUsdc, supplier, first),
                                        Treasury, fee1), Treasury, fee2)
      /\ totalClaimableUsdc' = totalClaimableUsdc + first + fee1 + fee2
      /\ UNCHANGED <<tradeCounter, usdc>>
  BY <1>1, Zenon DEF releaseFundsStage1
<1>3. t \in Created /\ supplier \in Accounts
  BY <1>0, <1>1, <1>2 DEF Created, Exists, PartiesKnown
<1>4. /\ first \in Nat /\ fee1 \in Nat /\ fee2 \in Nat
      /\ trades[t].supplierSecondTranche \in Nat
      /\ trades[t].totalAmountLocked = fee1 + fee2 + first + trades[t].supplierSecondTranche
  BY <1>0, <1>1, <1>3, TradeTermTypes DEF AmountsAddUp
<1>5. /\ trades'[t].status = "IN_TRANSIT" /\ SameTerms(t)
      /\ \A u \in TradeIds \ {t} : trades'[u] = trades[u]
  BY <1>0, <1>2, StatusEffect DEF TradeStatus
<1>6. OnlyTouches(t)
  BY <1>0, <1>5, ReleaseAccrues DEF OnlyTouches
<1>7. PICK n : n = first + fee1 + fee2
  OBVIOUS
<1>8. Held(t)' = Held(t) - n /\ n \in Nat
  BY <1>2, <1>4, <1>5, <1>7 DEF Held, SameTerms
<1>9. PICK f : f = claimableUsdc
  OBVIOUS
<1>10. PICK g : g = Credit(f, supplier, first)
  OBVIOUS
<1>11. PICK h : h = Credit(g, Treasury, fee1)
  OBVIOUS
<1>12. f \in [Accounts -> Nat]
  BY <1>0, <1>9 DEF AccountTypes
<1>13. /\ g \in [Accounts -> Nat] /\ Total(f, Accounts) \in Int
       /\ Total(g, Accounts) = Total(f, Accounts) + first
  BY <1>3, <1>4, <1>10, <1>12, CreditTotal
<1>14. h \in [Accounts -> Nat] /\ Total(h, Accounts) = Total(g, Accounts) + fee1
  BY <1>0, <1>4, <1>11, <1>13, CreditTotal
<1>15. Total(Credit(h, Treasury, fee2), Accounts) = Total(h, Accounts) + fee2
  BY <1>0, <1>4, <1>14, CreditTotal
<1>16. claimableUsdc' = Credit(h, Treasury, fee2)
  BY <1>2, <1>9, <1>10, <1>11, Zenon
<1>17. Total(claimableUsdc', Accounts) = Total(claimableUsdc, Accounts) + n
  BY <1>4, <1>7, <1>9, <1>13, <1>14, <1>15, <1>16
<1>18. totalClaimableUsdc' = totalClaimableUsdc + n
  <2>1. totalClaimableUsdc \in Int
    BY <1>0 DEF SumsTyped
  <2> QED
    BY <1>2, <1>4, <1>7, <2>1
<1> QED
  BY <1>2, <1>3, <1>5, <1>6, <1>8, <1>17, <1>18, AccrualSolvent

LEMMA AdvanceSolvent ==
  ASSUME SolvencyInv, NEW s, NEW t \in TradeIds, confirmArrival(s, t) \/ openDispute(s, t)
  PROVE  PartiesKnown' /\ Solvent'
<1>0. RecordTypes
  BY TypeGroups DEF SolvencyInv, MoneyInv, TypeInv
<1>1. /\ trades[t].status \in {"IN_TRANSIT", "ARRIVAL_CONFIRMED"}
      /\ trades'[t].status \in {"ARRIVAL_CONFIRMED", "FROZEN"}
      /\ SameTerms(t)
      /\ \A u \in TradeIds \ {t} : trades'[u] = trades[u]
      /\ UNCHANGED tradeCounter
      /\ UNCHANGED accountVars
      /\ UNCHANGED usdc
  <2>1. CASE openDispute(s, t)
    <3>1. /\ trades[t].status = "ARRIVAL_CONFIRMED"
          /\ trades' = [trades EXCEPT ![t] = [trades[t] EXCEPT !.status = "FROZEN"]]
          /\ UNCHANGED tradeCounter
          /\ UNCHANGED accountVars
          /\ UNCHANGED usdc
      BY <2>1, Zenon DEF openDispute, AcceptsDispute
    <3>2. "FROZEN" \in TradeStatus
      BY DEF TradeStatus
    <3> QED
      BY <1>0, <3>1, <3>2, StatusEffect
  <2>2. CASE confirmArrival(s, t)
    <3>1. PICK rec :
            rec = [trades[t] EXCEPT !.status = "ARRIVAL_CONFIRMED", !.arrivalTimestamp = now]
      OBVIOUS
    <3>2. /\ trades[t].status = "IN_TRANSIT"
          /\ trades' = [trades EXCEPT ![t] = rec]
          /\ UNCHANGED tradeCounter
          /\ UNCHANGED accountVars
          /\ UNCHANGED usdc
      BY <2>2, <3>1, Zenon DEF confirmArrival
    <3>3. trades'[t] = rec /\ \A u \in TradeIds \ {t} : trades'[u] = trades[u]
      BY <1>0, <3>2 DEF RecordTypes
    <3>4. trades[t] \in Trade
      BY <1>0, TradeTermTypes
    <3>5. rec.status = "ARRIVAL_CONFIRMED" /\ SameTerms(t)
      BY <3>1, <3>3, <3>4 DEF SameTerms, Trade
    <3> QED
      BY <3>2, <3>3, <3>5
  <2> QED
    BY <2>1, <2>2
<1>2. \A u \in TradeIds : SameTerms(u) /\ Held(u)' = Held(u)
  BY <1>1 DEF SameTerms, Held
<1> QED
  BY <1>1, <1>2, StillSolvent

LEMMA SimpleCloseSolvent ==
  ASSUME SolvencyInv, TypeOK', NEW s, NEW t \in TradeIds, SimpleClose(s, t)
  PROVE  PartiesKnown' /\ Solvent'
<1>0. /\ trades[t].supplierSecondTranche \in Nat /\ trades[t].totalAmountLocked \in Nat
      /\ PartiesKnown
  BY TypeGroups, TradeTermTypes DEF SolvencyInv, MoneyInv, TypeInv
<1>1. ASSUME Exists(t)
      PROVE  /\ t \in Created
             /\ trades[t].buyerAddress \in Accounts /\ trades[t].supplierAddress \in Accounts
  BY <1>0, <1>1 DEF Created, Exists, PartiesKnown
<1>2. CASE finalizeAfterDisputeWindow(t)
  <2>1. /\ Close(t, trades[t].supplierAddress, trades[t].supplierSecondTranche, "STAGE2_SUPPLIER")
        /\ Exists(t)
        /\ trades[t].status = "ARRIVAL_CONFIRMED"
    BY <1>2, Zenon DEF finalizeAfterDisputeWindow, AcceptsFinalization
  <2>2. "STAGE2_SUPPLIER" \in ClaimType /\ Held(t) = trades[t].supplierSecondTranche
    BY <2>1 DEF ClaimType, Held
  <2> QED
    BY <1>0, <1>1, <2>1, <2>2, CloseSolvent
<1>3. CASE cancelLockedTradeAfterTimeout(s, t)
  <2>1. /\ Close(t, trades[t].buyerAddress, trades[t].totalAmountLocked,
                 "LOCK_TIMEOUT_BUYER_REFUND")
        /\ Exists(t)
        /\ trades[t].status = "LOCKED"
    BY <1>3, Zenon DEF cancelLockedTradeAfterTimeout
  <2>2. "LOCK_TIMEOUT_BUYER_REFUND" \in ClaimType /\ Held(t) = trades[t].totalAmountLocked
    BY <2>1 DEF ClaimType, Held
  <2> QED
    BY <1>0, <1>1, <2>1, <2>2, CloseSolvent
<1>4. CASE refundInTransitAfterTimeout(s, t)
  <2>1. /\ Close(t, trades[t].buyerAddress, trades[t].supplierSecondTranche,
                 "IN_TRANSIT_TIMEOUT_BUYER_REFUND")
        /\ Exists(t)
        /\ trades[t].status = "IN_TRANSIT"
    BY <1>4, Zenon DEF refundInTransitAfterTimeout
  <2>2. /\ "IN_TRANSIT_TIMEOUT_BUYER_REFUND" \in ClaimType
        /\ Held(t) = trades[t].supplierSecondTranche
    BY <2>1 DEF ClaimType, Held
  <2> QED
    BY <1>0, <1>1, <2>1, <2>2, CloseSolvent
<1> QED
  BY <1>2, <1>3, <1>4 DEF SimpleClose

LEMMA ExecuteSolvent ==
  ASSUME SolvencyInv, TypeOK', NEW table, NEW d, table[d] \in MadeDispute,
         ExecuteDispute(table, d)
  PROVE  PartiesKnown' /\ Solvent'
<1>1. PICK t : t = table[d].tradeId
  OBVIOUS
<1>2. PICK r, c :
        /\ r = IF table[d].disputeStatus = "REFUND" THEN trades[t].buyerAddress
                                                    ELSE trades[t].supplierAddress
        /\ c = IF table[d].disputeStatus = "REFUND" THEN "DISPUTE_REFUND_BUYER"
                                                    ELSE "DISPUTE_RESOLVE_SUPPLIER"
  OBVIOUS
<1>3. t \in TradeIds /\ c \in ClaimType /\ trades[t].supplierSecondTranche \in Nat
  BY <1>1, <1>2, TypeGroups, TradeTermTypes
     DEF MadeDispute, ClaimType, SolvencyInv, MoneyInv, TypeInv
<1>4. Close(t, r, trades[t].supplierSecondTranche, c) /\ trades[t].status = "FROZEN"
  BY <1>1, <1>2, Zenon DEF ExecuteDispute
<1>5. t \in Created
  BY <1>3, <1>4 DEF SolvencyInv, MoneyInv, FreshTrades, NoTrade, Created, Exists
<1>6. r \in Accounts /\ Held(t) = trades[t].supplierSecondTranche
  BY <1>2, <1>4, <1>5 DEF SolvencyInv, PartiesKnown, Held
<1> QED
  BY <1>3, <1>4, <1>5, <1>6, CloseSolvent

\* A step that leaves the trades, the claims and the balances alone.
LEMMA RestSolvent ==
  ASSUME SolvencyInv, UNCHANGED <<trades, tradeCounter>>,
         UNCHANGED <<claimableUsdc, totalClaimableUsdc, usdc>>
  PROVE  PartiesKnown' /\ Solvent'
  BY StillSolvent DEF SameTerms, Held

LEMMA DisputeActionSolvent ==
  ASSUME SolvencyInv, TypeOK',
         \/ \E a \in Accounts, t \in TradeIds, ds \in DisputeStatus :
              proposeDisputeSolution(a, t, ds)
         \/ \E a \in Accounts, d \in DisputeIds : approveDisputeSolution(a, d)
  PROVE  PartiesKnown' /\ Solvent'
<1>0. TypeInv
  BY DEF SolvencyInv, MoneyInv
<1>1. CASE \E table, d : table[d] \in MadeDispute /\ ExecuteDispute(table, d)
  BY <1>1, ExecuteSolvent
<1>2. CASE UNCHANGED tradeRecordVars /\ UNCHANGED accountVars /\ UNCHANGED <<govVars, usdc>>
  BY <1>2, RestSolvent
<1> QED
  BY <1>0, <1>1, <1>2, DisputeActionKinds

LEMMA SolventStep ==
  ASSUME SolvencyInv, TypeOK', [Next]_vars
  PROVE  PartiesKnown' /\ Solvent'
<1> DEFINE Stays == PartiesKnown' /\ Solvent'
<1>0. Treasury \in Accounts /\ treasuryPayoutAddress \in Accounts
  BY TypeGroups, GovernanceAssumption DEF SolvencyInv, MoneyInv, TypeInv, GovTypeOK
<1>1. ASSUME Clock \/ AdminStep \/ UNCHANGED vars
      PROVE  Stays
  <2>1. UNCHANGED tradeVars
    BY <1>1, Zenon DEF Clock, AdminStep
  <2> QED
    BY <2>1, RestSolvent
<1>2. ASSUME NEW i \in Accounts, NEW r \in Accounts, PayOut(i, r)
      PROVE  Stays
  BY <1>2, PayOutSolvent
<1>3. ASSUME NEW s \in Accounts, NEW d \in DisputeIds, cancelExpiredDisputeProposal(s, d)
      PROVE  Stays
  <2>1. UNCHANGED tradeRecordVars /\ UNCHANGED accountVars /\ UNCHANGED usdc
    BY <1>3, Zenon DEF cancelExpiredDisputeProposal
  <2> QED
    BY <2>1, RestSolvent
<1>4. ASSUME NEW s \in Accounts, NEW t \in TradeIds, TradeStep(s, t)
      PROVE  Stays
  <2>1. CASE releaseFundsStage1(s, t)
    BY <2>1, ReleaseSolvent
  <2>2. CASE confirmArrival(s, t) \/ openDispute(s, t)
    BY <2>2, AdvanceSolvent
  <2>3. CASE SimpleClose(s, t)
    BY <2>3, SimpleCloseSolvent
  <2>4. CASE \E ds \in DisputeStatus : proposeDisputeSolution(s, t, ds)
    BY <2>4, DisputeActionSolvent
  <2> QED
    BY <1>4, <2>1, <2>2, <2>3, <2>4, Zenon DEF TradeStep, SimpleClose
<1>5. ASSUME NEW t \in TradeIds, finalizeAfterDisputeWindow(t)
      PROVE  Stays
  BY <1>5, SimpleCloseSolvent DEF SimpleClose
<1>6. ASSUME NEW s \in Accounts, NEW d \in DisputeIds, approveDisputeSolution(s, d)
      PROVE  Stays
  BY <1>6, DisputeActionSolvent
<1>7. ASSUME NEW s \in Accounts, NEW o \in Orders, NEW n \in 0 .. MaxTrades,
             NEW dl \in {now - 1, now}, NEW sg \in Accounts, createTrade(s, o, n, dl, sg)
      PROVE  Stays
  BY <1>7, CreateSolvent
<1> HIDE DEF Stays
<1>8. Stays
  BY <1>0, <1>1, <1>2, <1>3, <1>4, <1>5, <1>6, <1>7, Zenon DEF Next, claim, claimTreasury
<1> QED
  BY <1>8 DEF Stays

LEMMA SolventInit ==
  ASSUME Init
  PROVE  SolvencyInv
<1>1. /\ tradeCounter = 0
      /\ totalClaimableUsdc = 0
      /\ usdc[Escrow] = 0
      /\ claimableUsdc = [a \in Accounts |-> 0]
  BY DEF Init, TradeInit
<1>2. Created = {}
  BY <1>1 DEF Created, TradeIds
<1>3. Total(HeldOf, Created) = 0
  BY <1>2, TotalEmpty
<1>4. Total(claimableUsdc, Accounts) = 0
  <2>1. PICK g : g = [a \in Accounts |-> 0]
    OBVIOUS
  <2>2. Total(g, Accounts) = 0
    <3>1. PICK f : Adds(f, g, Accounts) /\ Total(g, Accounts) = f[Accounts]
      BY AddressAssumption, TotalAdds
    <3>2. f[Accounts] = 0
      <4> DEFINE T == {s \in SUBSET Accounts : f[s] # 0}
      <4>1. SUFFICES ASSUME T # {} PROVE FALSE
        BY DEF T
      <4>2. PICK s \in T : \A r \in T : r \subseteq s => r = s
        <5> HIDE DEF T
        <5>1. T \in SUBSET (SUBSET Accounts)
          BY DEF T
        <5> QED
          BY <4>1, <5>1, AddressAssumption, SmallestSubset
      <4>3. f[s] = Unfolded(f, g, s)
        BY <3>1, AddsAt
      <4>4. CASE s = {}
        BY <4>3, <4>4 DEF Unfolded
      <4>5. CASE s # {}
        <5>1. Pick(s) \in s
          BY <4>5, PickIsIn
        <5>2. f[s \ {Pick(s)}] = 0 /\ g[Pick(s)] = 0
          BY <2>1, <4>2, <5>1
        <5> QED
          BY <4>3, <4>5, <5>2 DEF Unfolded
      <4> QED
        BY <4>4, <4>5
    <3> QED
      BY <3>1, <3>2
  <2> QED
    BY <1>1, <2>1, <2>2
<1>5. Solvent
  BY <1>1, <1>3, <1>4 DEF Solvent
<1>6. PartiesKnown
  BY <1>2 DEF PartiesKnown
<1> QED
  BY <1>5, <1>6, MoneyInvInit DEF SolvencyInv

LEMMA SolvencyInvStep ==
  ASSUME SolvencyInv, [Next]_vars
  PROVE  SolvencyInv'
<1>1. MoneyInv'
  BY MoneyInvStep DEF SolvencyInv
<1>2. TypeOK'
  BY <1>1 DEF MoneyInv, TypeInv
<1> QED
  BY <1>1, <1>2, SolventStep DEF SolvencyInv

LEMMA SolvencyInvariance == Spec => []SolvencyInv
<1>1. Init => SolvencyInv
  BY SolventInit
<1>2. SolvencyInv /\ [Next]_vars => SolvencyInv'
  BY SolvencyInvStep
<1> QED
  BY <1>1, <1>2, PTL DEF Spec

(***************************************************************************)
(* The contract is solvent: for any accounts, orders and number of trades, *)
(* its USDC balance is always exactly what open trades hold plus what is   *)
(* claimable, and totalClaimableUsdc is the sum of the claimable balances  *)
(* (createTrade, _accrueClaimable, claim, claimTreasury).                  *)
(***************************************************************************)
THEOREM SolvencyHolds == Spec => []Solvency
<1>1. SolvencyInv => Solvency
  BY SolventMeans DEF SolvencyInv
<1> QED
  BY <1>1, SolvencyInvariance, PTL

(***************************************************************************)
(* No claim fails for want of funds: whatever is claimable by an account   *)
(* is covered by totalClaimableUsdc and by the contract's balance, which   *)
(* are the two checked subtractions of claim() and claimTreasury().        *)
(***************************************************************************)
ClaimsAreCovered ==
  \A a \in Accounts : /\ claimableUsdc[a] <= totalClaimableUsdc
                      /\ claimableUsdc[a] <= usdc[Escrow]

LEMMA SolventCovers ==
  ASSUME SolvencyInv
  PROVE  ClaimsAreCovered
<1>1. TypeOK
  BY DEF SolvencyInv, MoneyInv, TypeInv
<1>2. /\ \A a \in Accounts : claimableUsdc[a] \in Nat
      /\ totalClaimableUsdc \in Nat /\ usdc[Escrow] \in Int
  BY <1>1, TypeGroups DEF AccountTypes, MoneyTypes
<1>3. ASSUME NEW a \in Accounts
      PROVE  claimableUsdc[a] <= totalClaimableUsdc
  <2>1. IsFiniteSet(Accounts) /\ IsFiniteSet(Accounts \ {a})
    BY AddressAssumption, FS_RemoveElement
  <2>2. Total(claimableUsdc, Accounts)
          = claimableUsdc[a] + Total(claimableUsdc, Accounts \ {a})
    BY <1>2, <2>1, TotalOne
  <2>3. Total(claimableUsdc, Accounts \ {a}) \in Nat
    BY <1>2, <2>1, TotalNat
  <2> QED
    BY <1>2, <2>2, <2>3 DEF SolvencyInv, Solvent
<1>4. Total(HeldOf, Created) \in Nat
  <2>1. ASSUME NEW t \in Created
        PROVE  HeldOf[t] \in Nat
    BY <1>1, TypeGroups, TradeTermTypes DEF HeldOf, Held, Created
  <2> QED
    BY <2>1, CreatedFinite, TotalNat
<1>5. totalClaimableUsdc <= usdc[Escrow]
  BY <1>2, <1>4 DEF SolvencyInv, Solvent
<1> QED
  BY <1>2, <1>3, <1>5 DEF ClaimsAreCovered

(***************************************************************************)
(* So claim() and claimTreasury() never fail for want of funds: what they  *)
(* subtract is there, for every account, whoever claimed before.           *)
(***************************************************************************)
THEOREM ClaimsCovered == Spec => []ClaimsAreCovered
<1>1. SolvencyInv => ClaimsAreCovered
  BY SolventCovers
<1> QED
  BY <1>1, SolvencyInvariance, PTL

-------------------------------------------------------------------------------
(* What the parties own and what they should own, with their sums as totals *)

ClaimsOf(a, t) == {c \in ClaimType : Recipient(t, c) = a}

Gained(a, t) == Total(claimableAccrued[t], ClaimsOf(a, t))

BalancesOf(a) == [t \in TradeIds |-> Gained(a, t) - Cost(a, t)]

\* How much more account a owns than it should.
Surplus == [a \in Accounts |-> usdc[a] + claimableUsdc[a]
                                 - InitialUsdc[a] - Total(BalancesOf(a), Created)]

Whole ==
  /\ \A a \in Accounts \ PayoutReceivers : Surplus[a] = 0
  /\ Total(Surplus, PayoutReceivers) = 0

\* The payout receiver is one of those that claimTreasury may have paid before it changes.
ReceiverKnown ==
  \/ treasuryPayoutAddress = Treasury
  \/ \E id \in ProposalIds : /\ govProposals["payout"][id].executed
                             /\ govProposals["payout"][id].target = treasuryPayoutAddress

LEMMA ClaimTypeFinite == IsFiniteSet(ClaimType)
<1>1. PICK A, B :
        /\ A = (({"STAGE1_SUPPLIER"} \cup {"STAGE1_LOGISTICS_FEE"})
                 \cup {"STAGE1_PLATFORM_FEE"}) \cup {"STAGE2_SUPPLIER"}
        /\ B = (({"LOCK_TIMEOUT_BUYER_REFUND"} \cup {"IN_TRANSIT_TIMEOUT_BUYER_REFUND"})
                 \cup {"DISPUTE_REFUND_BUYER"}) \cup {"DISPUTE_RESOLVE_SUPPLIER"}
  OBVIOUS
<1>2. ASSUME NEW x
      PROVE  IsFiniteSet({x})
  BY FS_Singleton
<1>3. IsFiniteSet(A) /\ IsFiniteSet(B)
  BY <1>1, <1>2, FS_Union, Zenon
<1>4. ClaimType = A \cup B
  BY <1>1 DEF ClaimType
<1> QED
  BY <1>3, <1>4, FS_Union, Zenon

LEMMA ClaimsFinite ==
  ASSUME NEW a, NEW t
  PROVE  IsFiniteSet(ClaimsOf(a, t)) /\ ClaimsOf(a, t) \subseteq ClaimType
  BY ClaimTypeFinite, FS_Subset DEF ClaimsOf

LEMMA BalanceTypes ==
  ASSUME RecordTypes, AccountTypes, NEW a, NEW t \in TradeIds
  PROVE  /\ Gained(a, t) \in Nat
         /\ Cost(a, t) \in Nat
         /\ BalancesOf(a)[t] = Gained(a, t) - Cost(a, t)
         /\ BalancesOf(a)[t] \in Int
<1>1. \A c \in ClaimsOf(a, t) : claimableAccrued[t][c] \in Nat
  BY ClaimsFinite DEF AccountTypes
<1>2. Gained(a, t) \in Nat
  BY <1>1, ClaimsFinite, TotalNat DEF Gained
<1>3. Cost(a, t) \in Nat
  BY TradeTermTypes DEF Cost
<1> QED
  BY <1>2, <1>3 DEF BalancesOf

GainsTyped == \A a \in Accounts, t \in TradeIds : Gained(a, t) \in Nat /\ Cost(a, t) \in Nat

LEMMA GainTypes == TypeOK => GainsTyped
  BY BalanceTypes, TypeGroups DEF GainsTyped

LEMMA SurplusTypes ==
  ASSUME TypeOK, NEW a \in Accounts
  PROVE  /\ Total(BalancesOf(a), Created) \in Int
         /\ Surplus[a] = usdc[a] + claimableUsdc[a]
                           - InitialUsdc[a] - Total(BalancesOf(a), Created)
         /\ Surplus[a] \in Int
         /\ usdc[a] \in Int /\ claimableUsdc[a] \in Int /\ InitialUsdc[a] \in Int
<1>0. RecordTypes /\ AccountTypes /\ MoneyTypes
  BY TypeGroups
<1>1. \A t \in Created : BalancesOf(a)[t] \in Int
  BY <1>0, BalanceTypes DEF Created
<1>2. Total(BalancesOf(a), Created) \in Int
  BY <1>1, CreatedFinite, TotalInt
<1>3. usdc[a] \in Int /\ claimableUsdc[a] \in Int /\ InitialUsdc[a] \in Int
  BY <1>0, EscrowAssumption DEF AccountTypes, MoneyTypes
<1> QED
  BY <1>2, <1>3 DEF Surplus

ReceiversAreAccounts == PayoutReceivers \subseteq Accounts /\ IsFiniteSet(PayoutReceivers)

LEMMA ReceiversFinite == GovTypeOK => ReceiversAreAccounts
<1> SUFFICES ASSUME GovTypeOK PROVE ReceiversAreAccounts
  OBVIOUS
<1>1. ASSUME NEW q \in Range(govProposals["payout"]), q.executed
      PROVE  q.target \in Accounts
  <2>1. q \in GovProposal
    BY DEF Range, GovTypeOK
  <2> QED
    BY <1>1, <2>1 DEF GovProposal, MadeProposal, NoProposal
<1>2. PayoutReceivers \subseteq Accounts
  BY <1>1, GovernanceAssumption DEF PayoutReceivers, GovTypeOK
<1> QED
  BY <1>2, AddressAssumption, FS_Subset DEF ReceiversAreAccounts

LEMMA GainIs ==
  ASSUME NEW a, NEW t
  PROVE  Gain(a, t) = Gained(a, t)
  BY Zenon DEF Gain, Gained, ClaimsOf, MapThenSumSet, MapThenFoldSet, Total, Adds, Unfolded, Pick

\* Each sum below is the total of a table with the same terms.
LEMMA DueIs ==
  ASSUME NEW a
  PROVE  Due(a) = Total(BalancesOf(a), Created)
<1> DEFINE Sums(f) == f = [s \in SUBSET Created |->
                             IF s = {} THEN 0
                             ELSE (Gain(a, Pick(s)) - Cost(a, Pick(s))) + f[s \ {Pick(s)}]]
           h == CHOOSE f : Sums(f)
<1>1. Due(a) = h[Created]
  BY Zenon DEF Due, MapThenSumSet, MapThenFoldSet, Pick
<1>2. ASSUME NEW f, NEW s \in SUBSET Created
      PROVE  Unfolded(f, BalancesOf(a), s)
               = IF s = {} THEN 0
                 ELSE (Gain(a, Pick(s)) - Cost(a, Pick(s))) + f[s \ {Pick(s)}]
  <2>1. CASE s # {}
    <3>1. Pick(s) \in TradeIds
      BY <2>1, PickIsIn DEF Created
    <3>2. BalancesOf(a)[Pick(s)] = Gain(a, Pick(s)) - Cost(a, Pick(s))
      BY <3>1, GainIs DEF BalancesOf
    <3> QED
      BY <2>1, <3>2 DEF Unfolded
  <2> QED
    BY <2>1 DEF Unfolded
<1>3. \A f : Sums(f) <=> Adds(f, BalancesOf(a), Created)
  BY <1>2 DEF Adds
<1>4. PICK f : Adds(f, BalancesOf(a), Created) /\ Total(BalancesOf(a), Created) = f[Created]
  BY CreatedFinite, TotalAdds
<1> HIDE DEF Sums
<1>5. Sums(h)
  BY <1>3, <1>4
<1>6. h[Created] = f[Created]
  BY <1>3, <1>4, <1>5, CreatedFinite, AddsAgree
<1> QED
  BY <1>1, <1>4, <1>6

LEMMA WholeMeans ==
  ASSUME TypeOK, Whole
  PROVE  PartiesMadeWhole
<1> DEFINE W == [a \in Accounts |-> Worth(a)]
           O == [a \in Accounts |-> Owed(a)]
<1>1. PICK P : P = PayoutReceivers
  OBVIOUS
<1>2. P \subseteq Accounts /\ IsFiniteSet(P)
  BY <1>1, ReceiversFinite, TypeGroups DEF ReceiversAreAccounts
<1>3. ASSUME NEW a \in Accounts
      PROVE  /\ W[a] = Worth(a) /\ O[a] = Owed(a)
             /\ W[a] \in Int /\ O[a] \in Int
             /\ Surplus[a] = W[a] - O[a]
  <2>1. /\ Worth(a) = usdc[a] + claimableUsdc[a]
        /\ Owed(a) = InitialUsdc[a] + Total(BalancesOf(a), Created)
    BY DueIs DEF Worth, Owed
  <2> QED
    BY <2>1, SurplusTypes
<1>4. MapThenSumSet(Worth, P) = Total(W, P)
  <2> DEFINE Sums(f) == f = [s \in SUBSET P |->
                               IF s = {} THEN 0 ELSE Worth(Pick(s)) + f[s \ {Pick(s)}]]
             h == CHOOSE f : Sums(f)
  <2>1. MapThenSumSet(Worth, P) = h[P]
    BY Zenon DEF MapThenSumSet, MapThenFoldSet, Pick
  <2> HIDE DEF W
  <2>2. ASSUME NEW f, NEW s \in SUBSET P
        PROVE  Unfolded(f, W, s) = IF s = {} THEN 0 ELSE Worth(Pick(s)) + f[s \ {Pick(s)}]
    <3>1. s # {} => W[Pick(s)] = Worth(Pick(s))
      BY <1>2, <1>3, PickIsIn
    <3> QED
      BY <3>1 DEF Unfolded
  <2>3. \A f : Sums(f) <=> Adds(f, W, P)
    BY <2>2 DEF Adds
  <2>4. PICK f : Adds(f, W, P) /\ Total(W, P) = f[P]
    BY <1>2, TotalAdds
  <2> HIDE DEF Sums
  <2>5. Sums(h)
    BY <2>3, <2>4
  <2>6. h[P] = f[P]
    BY <1>2, <2>3, <2>4, <2>5, AddsAgree
  <2> QED
    BY <2>1, <2>4, <2>6
<1>5. MapThenSumSet(Owed, P) = Total(O, P)
  <2> DEFINE Sums(f) == f = [s \in SUBSET P |->
                               IF s = {} THEN 0 ELSE Owed(Pick(s)) + f[s \ {Pick(s)}]]
             h == CHOOSE f : Sums(f)
  <2>1. MapThenSumSet(Owed, P) = h[P]
    BY Zenon DEF MapThenSumSet, MapThenFoldSet, Pick
  <2> HIDE DEF O
  <2>2. ASSUME NEW f, NEW s \in SUBSET P
        PROVE  Unfolded(f, O, s) = IF s = {} THEN 0 ELSE Owed(Pick(s)) + f[s \ {Pick(s)}]
    <3>1. s # {} => O[Pick(s)] = Owed(Pick(s))
      BY <1>2, <1>3, PickIsIn
    <3> QED
      BY <3>1 DEF Unfolded
  <2>3. \A f : Sums(f) <=> Adds(f, O, P)
    BY <2>2 DEF Adds
  <2>4. PICK f : Adds(f, O, P) /\ Total(O, P) = f[P]
    BY <1>2, TotalAdds
  <2> HIDE DEF Sums
  <2>5. Sums(h)
    BY <2>3, <2>4
  <2>6. h[P] = f[P]
    BY <1>2, <2>3, <2>4, <2>5, AddsAgree
  <2> QED
    BY <2>1, <2>4, <2>6
<1> HIDE DEF W, O
<1>6. PICK D : D = Surplus
  OBVIOUS
<1>7. \A a \in P : W[a] \in Int /\ O[a] \in Int /\ D[a] = W[a] - O[a]
  BY <1>2, <1>3, <1>6
<1>8. Total(D, P) = Total(W, P) - Total(O, P)
  BY <1>2, <1>7, TotalMinus
<1>9. Total(W, P) \in Int /\ Total(O, P) \in Int
  BY <1>2, <1>7, TotalInt
<1>10. Total(D, P) = 0 /\ \A a \in Accounts \ P : D[a] = 0
  BY <1>1, <1>6 DEF Whole
<1>11. MapThenSumSet(Worth, P) = MapThenSumSet(Owed, P)
  BY <1>4, <1>5, <1>8, <1>9, <1>10
<1>12. \A a \in Accounts \ P : Worth(a) = Owed(a)
  BY <1>3, <1>6, <1>10
<1> QED
  BY <1>1, <1>11, <1>12, Zenon DEF PartiesMadeWhole

-------------------------------------------------------------------------------
(* What one step does to the surpluses *)

\* The parties of the trades stay, and so does whose claims are whose.
LEMMA ClaimsStay ==
  ASSUME NEW t, SameTerms(t), NEW a
  PROVE  ClaimsOf(a, t)' = ClaimsOf(a, t) /\ Cost(a, t)' = Cost(a, t)
<1>1. ASSUME NEW c \in ClaimType
      PROVE  Recipient(t, c)' = Recipient(t, c)
  BY Zenon DEF Recipient, SameTerms
<1> QED
  BY <1>1 DEF ClaimsOf, Cost, SameTerms

\* Account a is paid for trade t what it gains by it.
LEMMA SurplusStays ==
  ASSUME TypeOK, TypeOK', NEW t \in Created, OnlyTouches(t), SameTerms(t),
         UNCHANGED <<tradeCounter, usdc>>, NEW a \in Accounts,
         claimableUsdc'[a] - Total(claimableAccrued'[t], ClaimsOf(a, t))
           = claimableUsdc[a] - Total(claimableAccrued[t], ClaimsOf(a, t))
  PROVE  Surplus'[a] = Surplus[a]
<1>0. /\ RecordTypes /\ AccountTypes /\ RecordTypes' /\ AccountTypes'
      /\ GainsTyped /\ GainsTyped'
  BY TypeGroups, GainTypes, PTL
<1>1. Created' = Created /\ t \in TradeIds /\ Created \subseteq TradeIds
  BY DEF Created
<1>2. ASSUME NEW u \in TradeIds
      PROVE  /\ SameTerms(u)
             /\ ClaimsOf(a, u)' = ClaimsOf(a, u) /\ Cost(a, u)' = Cost(a, u)
  <2>1. SameTerms(u)
    BY DEF OnlyTouches, SameTerms
  <2> QED
    BY <2>1, ClaimsStay
<1>3. PICK g : g = BalancesOf(a)
  OBVIOUS
<1>4. PICK k : k = BalancesOf(a)'
  OBVIOUS
<1>5. ASSUME NEW u \in TradeIds
      PROVE  /\ Gained(a, u) \in Int /\ Gained(a, u)' \in Int /\ Cost(a, u) \in Int
             /\ g[u] = Gained(a, u) - Cost(a, u)
             /\ k[u] = Gained(a, u)' - Cost(a, u)
             /\ g[u] \in Int /\ k[u] \in Int
  <2>1. /\ Gained(a, u) \in Nat /\ Cost(a, u) \in Nat
        /\ g[u] = Gained(a, u) - Cost(a, u)
    BY <1>0, <1>3, BalanceTypes
  <2>2. Gained(a, u)' \in Nat
    BY <1>0, Zenon DEF GainsTyped
  <2>3. k[u] = Gained(a, u)' - Cost(a, u)'
    BY <1>4 DEF BalancesOf
  <2> QED
    BY <1>2, <2>1, <2>2, <2>3
<1>6. ASSUME NEW u \in Created \ {t}
      PROVE  k[u] = g[u]
  <2>1. u \in TradeIds /\ claimableAccrued'[u] = claimableAccrued[u]
    BY <1>1 DEF OnlyTouches
  <2>2. Gained(a, u)' = Gained(a, u)
    BY <1>2, <2>1 DEF Gained
  <2> QED
    BY <1>5, <2>1, <2>2
<1>7. Total(k, Created) = Total(g, Created) + k[t] - g[t]
  <2>1. PICK C : C = Created
    OBVIOUS
  <2>2. /\ t \in C /\ IsFiniteSet(C)
        /\ \A u \in C : g[u] \in Int /\ k[u] \in Int
        /\ \A u \in C \ {t} : k[u] = g[u]
    BY <1>1, <1>5, <1>6, <2>1, CreatedFinite
  <2>3. Total(k, C) = Total(g, C) + k[t] - g[t]
    BY <2>2, TotalChange
  <2> QED
    BY <2>1, <2>3
<1>8. Total(g, Created) \in Int
  BY <1>1, <1>5, CreatedFinite, TotalInt
<1>9. /\ Gained(a, t) = Total(claimableAccrued[t], ClaimsOf(a, t))
      /\ Gained(a, t)' = Total(claimableAccrued'[t], ClaimsOf(a, t))
  BY <1>1, <1>2 DEF Gained
<1>10. /\ Surplus[a] = usdc[a] + claimableUsdc[a] - InitialUsdc[a] - Total(g, Created)
       /\ usdc[a] \in Int /\ claimableUsdc[a] \in Int /\ InitialUsdc[a] \in Int
  BY <1>3, SurplusTypes
<1>11. Surplus'[a] = usdc'[a] + claimableUsdc'[a] - InitialUsdc[a] - Total(k, Created)
  BY <1>1, <1>4 DEF Surplus
<1>12. claimableUsdc'[a] \in Int
  BY <1>0 DEF AccountTypes
<1> QED
  BY <1>1, <1>5, <1>7, <1>8, <1>9, <1>10, <1>11, <1>12

\* One accrual: the recipient can claim as much more as it gained, and nobody else gains.
LEMMA OneAccrual ==
  ASSUME NEW t, NEW c \in ClaimType, NEW n \in Nat, NEW r \in Accounts, Recipient(t, c) = r,
         NEW acc \in [ClaimType -> Nat], NEW next \in [ClaimType -> Nat],
         next[c] = acc[c] + n, \A e \in ClaimType \ {c} : next[e] = acc[e],
         NEW f \in [Accounts -> Nat], NEW a \in Accounts
  PROVE  Credit(f, r, n)[a] - Total(next, ClaimsOf(a, t)) = f[a] - Total(acc, ClaimsOf(a, t))
<1>1. PICK S : S = ClaimsOf(a, t)
  OBVIOUS
<1>2. IsFiniteSet(S) /\ S \subseteq ClaimType
  BY <1>1, ClaimsFinite
<1>3. PICK k : k = Credit(f, r, n)
  OBVIOUS
<1>4. k[a] = IF a = r THEN f[a] + n ELSE f[a]
  BY <1>3 DEF Credit
<1>5. \A x \in S : acc[x] \in Int /\ next[x] \in Int
  BY <1>2
<1>6. Total(acc, S) \in Int
  BY <1>2, <1>5, TotalInt
<1>7. CASE a = r
  <2>1. c \in S
    BY <1>1, <1>7 DEF ClaimsOf
  <2>2. \A x \in S \ {c} : next[x] = acc[x]
    BY <1>2
  <2>3. Total(next, S) = Total(acc, S) + next[c] - acc[c]
    BY <1>2, <1>5, <2>1, <2>2, TotalChange
  <2>4. f[a] \in Int /\ acc[c] \in Int
    OBVIOUS
  <2> QED
    BY <1>1, <1>3, <1>4, <1>6, <1>7, <2>3, <2>4
<1>8. CASE a # r
  <2>1. c \notin S
    BY <1>1, <1>8 DEF ClaimsOf
  <2>2. \A x \in S : next[x] = acc[x]
    BY <1>2, <2>1
  <2>3. Total(next, S) = Total(acc, S)
    BY <1>2, <2>2, TotalAgree
  <2> QED
    BY <1>1, <1>3, <1>4, <1>8, <2>3
<1> QED
  BY <1>7, <1>8

SurplusKept == \A a \in Accounts : Surplus'[a] = Surplus[a]

LEMMA CloseSurplus ==
  ASSUME TypeOK, TypeOK', NEW t \in Created, NEW r \in Accounts, NEW c \in ClaimType,
         NEW n \in Nat, Recipient(t, c) = r, Close(t, r, n, c)
  PROVE  SurplusKept
<1>0. RecordTypes /\ AccountTypes /\ AccountTypes' /\ t \in TradeIds
  <2>1. RecordTypes /\ AccountTypes /\ AccountTypes'
    BY TypeGroups, PTL
  <2>2. t \in TradeIds
    BY DEF Created
  <2> QED
    BY <2>1, <2>2
<1>1. /\ SameTerms(t) /\ OnlyTouches(t) /\ Accrues(t, c, n) /\ UNCHANGED tradeCounter
  BY <1>0, CloseEffect
<1>2. claimableUsdc' = Credit(claimableUsdc, r, n) /\ UNCHANGED usdc
  BY Zenon DEF Close, AccrueClaimable
<1>3. PICK acc, next : acc = claimableAccrued[t] /\ next = claimableAccrued'[t]
  OBVIOUS
<1>4. /\ acc \in [ClaimType -> Nat] /\ next \in [ClaimType -> Nat]
      /\ next[c] = acc[c] + n /\ \A e \in ClaimType \ {c} : next[e] = acc[e]
  BY <1>0, <1>1, <1>3 DEF AccountTypes, Accrues
<1>5. PICK f : f = claimableUsdc
  OBVIOUS
<1>6. f \in [Accounts -> Nat]
  BY <1>0, <1>5 DEF AccountTypes
<1>7. ASSUME NEW a \in Accounts
      PROVE  Surplus'[a] = Surplus[a]
  <2>1. Credit(f, r, n)[a] - Total(next, ClaimsOf(a, t)) = f[a] - Total(acc, ClaimsOf(a, t))
    BY <1>4, <1>6, OneAccrual
  <2>2. claimableUsdc'[a] - Total(claimableAccrued'[t], ClaimsOf(a, t))
          = claimableUsdc[a] - Total(claimableAccrued[t], ClaimsOf(a, t))
    BY <1>2, <1>3, <1>5, <2>1
  <2> QED
    BY <1>1, <1>2, <2>2, SurplusStays
<1> QED
  BY <1>7 DEF SurplusKept

LEMMA SimpleCloseSurplus ==
  ASSUME SolvencyInv, TypeOK', NEW s, NEW t \in TradeIds, SimpleClose(s, t)
  PROVE  SurplusKept
<1>0. /\ trades[t].supplierSecondTranche \in Nat /\ trades[t].totalAmountLocked \in Nat
      /\ PartiesKnown /\ TypeOK
  BY TypeGroups, TradeTermTypes DEF SolvencyInv, MoneyInv, TypeInv
<1>1. ASSUME Exists(t)
      PROVE  /\ t \in Created
             /\ trades[t].buyerAddress \in Accounts /\ trades[t].supplierAddress \in Accounts
  BY <1>0, <1>1 DEF Created, Exists, PartiesKnown
<1>2. CASE finalizeAfterDisputeWindow(t)
  <2>1. /\ Close(t, trades[t].supplierAddress, trades[t].supplierSecondTranche, "STAGE2_SUPPLIER")
        /\ Exists(t)
    BY <1>2, Zenon DEF finalizeAfterDisputeWindow, AcceptsFinalization
  <2>2. "STAGE2_SUPPLIER" \in ClaimType
    BY DEF ClaimType
  <2>3. Recipient(t, "STAGE2_SUPPLIER") = trades[t].supplierAddress
    BY DEF Recipient
  <2> QED
    BY <1>0, <1>1, <2>1, <2>2, <2>3, CloseSurplus
<1>3. CASE cancelLockedTradeAfterTimeout(s, t)
  <2>1. /\ Close(t, trades[t].buyerAddress, trades[t].totalAmountLocked,
                 "LOCK_TIMEOUT_BUYER_REFUND")
        /\ Exists(t)
    BY <1>3, Zenon DEF cancelLockedTradeAfterTimeout
  <2>2. "LOCK_TIMEOUT_BUYER_REFUND" \in ClaimType
    BY DEF ClaimType
  <2>3. Recipient(t, "LOCK_TIMEOUT_BUYER_REFUND") = trades[t].buyerAddress
    BY DEF Recipient
  <2> QED
    BY <1>0, <1>1, <2>1, <2>2, <2>3, CloseSurplus
<1>4. CASE refundInTransitAfterTimeout(s, t)
  <2>1. /\ Close(t, trades[t].buyerAddress, trades[t].supplierSecondTranche,
                 "IN_TRANSIT_TIMEOUT_BUYER_REFUND")
        /\ Exists(t)
    BY <1>4, Zenon DEF refundInTransitAfterTimeout
  <2>2. "IN_TRANSIT_TIMEOUT_BUYER_REFUND" \in ClaimType
    BY DEF ClaimType
  <2>3. Recipient(t, "IN_TRANSIT_TIMEOUT_BUYER_REFUND") = trades[t].buyerAddress
    BY DEF Recipient
  <2> QED
    BY <1>0, <1>1, <2>1, <2>2, <2>3, CloseSurplus
<1> QED
  BY <1>2, <1>3, <1>4 DEF SimpleClose

LEMMA ExecuteSurplus ==
  ASSUME SolvencyInv, TypeOK', NEW table, NEW d, table[d] \in MadeDispute,
         ExecuteDispute(table, d)
  PROVE  SurplusKept
<1>1. PICK t : t = table[d].tradeId
  OBVIOUS
<1>2. PICK r, c :
        /\ r = IF table[d].disputeStatus = "REFUND" THEN trades[t].buyerAddress
                                                    ELSE trades[t].supplierAddress
        /\ c = IF table[d].disputeStatus = "REFUND" THEN "DISPUTE_REFUND_BUYER"
                                                    ELSE "DISPUTE_RESOLVE_SUPPLIER"
  OBVIOUS
<1>3. /\ t \in TradeIds /\ c \in ClaimType /\ trades[t].supplierSecondTranche \in Nat
      /\ TypeOK
  BY <1>1, <1>2, TypeGroups, TradeTermTypes
     DEF MadeDispute, ClaimType, SolvencyInv, MoneyInv, TypeInv
<1>4. Close(t, r, trades[t].supplierSecondTranche, c) /\ trades[t].status = "FROZEN"
  BY <1>1, <1>2, Zenon DEF ExecuteDispute
<1>5. t \in Created
  BY <1>3, <1>4 DEF SolvencyInv, MoneyInv, FreshTrades, NoTrade, Created, Exists
<1>6. r \in Accounts /\ Recipient(t, c) = r
  BY <1>2, <1>5 DEF SolvencyInv, PartiesKnown, Recipient
<1> QED
  BY <1>3, <1>4, <1>5, <1>6, CloseSurplus

LEMMA ReleaseSurplus ==
  ASSUME SolvencyInv, TypeOK', NEW s, NEW t \in TradeIds, releaseFundsStage1(s, t)
  PROVE  SurplusKept
<1>0. TypeOK /\ RecordTypes /\ AccountTypes /\ Treasury \in Accounts /\ PartiesKnown
  BY TypeGroups, GovernanceAssumption DEF SolvencyInv, MoneyInv, TypeInv
<1>1. PICK first, fee1, fee2, supplier :
        /\ first = trades[t].supplierFirstTranche
        /\ fee1 = trades[t].logisticsAmount
        /\ fee2 = trades[t].platformFeesAmount
        /\ supplier = trades[t].supplierAddress
  OBVIOUS
<1>2. /\ Exists(t)
      /\ trades' = [trades EXCEPT ![t] = [trades[t] EXCEPT !.status = "IN_TRANSIT"]]
      /\ claimableUsdc' = Credit(Credit(Credit(claimableUsdc, supplier, first),
                                        Treasury, fee1), Treasury, fee2)
      /\ UNCHANGED <<tradeCounter, usdc>>
  BY <1>1, Zenon DEF releaseFundsStage1
<1>3. t \in Created /\ supplier \in Accounts
  BY <1>0, <1>1, <1>2 DEF Created, Exists, PartiesKnown
<1>4. first \in Nat /\ fee1 \in Nat /\ fee2 \in Nat
  BY <1>0, <1>1, TradeTermTypes
<1>5. SameTerms(t) /\ OnlyTouches(t)
  <2>1. SameTerms(t) /\ \A u \in TradeIds \ {t} : trades'[u] = trades[u]
    BY <1>0, <1>2, StatusEffect DEF TradeStatus
  <2> QED
    BY <1>0, <2>1, ReleaseAccrues DEF OnlyTouches
<1>6. /\ Recipient(t, "STAGE1_SUPPLIER") = supplier
      /\ Recipient(t, "STAGE1_LOGISTICS_FEE") = Treasury
      /\ Recipient(t, "STAGE1_PLATFORM_FEE") = Treasury
  BY <1>1 DEF Recipient
<1>7. /\ "STAGE1_SUPPLIER" \in ClaimType /\ "STAGE1_LOGISTICS_FEE" \in ClaimType
      /\ "STAGE1_PLATFORM_FEE" \in ClaimType
  BY DEF ClaimType
<1>8. PICK f, g, h, k :
        /\ f = claimableUsdc
        /\ g = Credit(f, supplier, first)
        /\ h = Credit(g, Treasury, fee1)
        /\ k = Credit(h, Treasury, fee2)
  OBVIOUS
<1>9. f \in [Accounts -> Nat] /\ g \in [Accounts -> Nat] /\ h \in [Accounts -> Nat]
        /\ k \in [Accounts -> Nat]
  BY <1>0, <1>4, <1>8, CreditType DEF AccountTypes
<1>10. PICK A, D : A = claimableAccrued[t] /\ D = claimableAccrued'[t]
  OBVIOUS
<1>11. /\ A \in [ClaimType -> Nat] /\ D \in [ClaimType -> Nat]
       /\ \A c \in ClaimType \ Stage1Claims : D[c] = A[c]
       /\ D["STAGE1_SUPPLIER"] = A["STAGE1_SUPPLIER"] + first
       /\ D["STAGE1_LOGISTICS_FEE"] = A["STAGE1_LOGISTICS_FEE"] + fee1
       /\ D["STAGE1_PLATFORM_FEE"] = A["STAGE1_PLATFORM_FEE"] + fee2
  BY <1>0, <1>1, <1>10, ReleaseAccrues DEF AccountTypes
<1>12. PICK B : B = [A EXCEPT !["STAGE1_SUPPLIER"] = @ + first]
  OBVIOUS
<1>13. PICK C : C = [B EXCEPT !["STAGE1_LOGISTICS_FEE"] = @ + fee1]
  OBVIOUS
<1>14. /\ B \in [ClaimType -> Nat] /\ B["STAGE1_SUPPLIER"] = A["STAGE1_SUPPLIER"] + first
       /\ \A e \in ClaimType \ {"STAGE1_SUPPLIER"} : B[e] = A[e]
  BY <1>4, <1>7, <1>11, <1>12
<1>15. /\ C \in [ClaimType -> Nat]
       /\ C["STAGE1_LOGISTICS_FEE"] = B["STAGE1_LOGISTICS_FEE"] + fee1
       /\ \A e \in ClaimType \ {"STAGE1_LOGISTICS_FEE"} : C[e] = B[e]
  BY <1>4, <1>7, <1>13, <1>14
<1>16. /\ D["STAGE1_PLATFORM_FEE"] = C["STAGE1_PLATFORM_FEE"] + fee2
       /\ \A e \in ClaimType \ {"STAGE1_PLATFORM_FEE"} : D[e] = C[e]
  BY <1>7, <1>11, <1>14, <1>15 DEF Stage1Claims
<1>17. ASSUME NEW a \in Accounts
       PROVE  Surplus'[a] = Surplus[a]
  <2>1. PICK S : S = ClaimsOf(a, t)
    OBVIOUS
  <2>2. g[a] - Total(B, S) = f[a] - Total(A, S)
    <3>1. /\ g = Credit(f, supplier, first) /\ f \in [Accounts -> Nat]
          /\ first \in Nat /\ supplier \in Accounts
      BY <1>3, <1>4, <1>8, <1>9
    <3>2. /\ A \in [ClaimType -> Nat] /\ B \in [ClaimType -> Nat]
          /\ "STAGE1_SUPPLIER" \in ClaimType /\ Recipient(t, "STAGE1_SUPPLIER") = supplier
      BY <1>6, <1>7, <1>11, <1>14
    <3> QED BY <1>14, <2>1, <3>1, <3>2, OneAccrual
  <2>3. h[a] - Total(C, S) = g[a] - Total(B, S)
    <3>1. /\ h = Credit(g, Treasury, fee1) /\ g \in [Accounts -> Nat]
          /\ fee1 \in Nat /\ Treasury \in Accounts
      BY <1>0, <1>4, <1>8, <1>9
    <3>2. /\ B \in [ClaimType -> Nat] /\ C \in [ClaimType -> Nat]
          /\ "STAGE1_LOGISTICS_FEE" \in ClaimType /\ Recipient(t, "STAGE1_LOGISTICS_FEE") = Treasury
      BY <1>6, <1>7, <1>14, <1>15
    <3> QED BY <1>15, <2>1, <3>1, <3>2, OneAccrual
  <2>4. k[a] - Total(D, S) = h[a] - Total(C, S)
    <3>1. /\ k = Credit(h, Treasury, fee2) /\ h \in [Accounts -> Nat]
          /\ fee2 \in Nat /\ Treasury \in Accounts
      BY <1>0, <1>4, <1>8, <1>9
    <3>2. /\ C \in [ClaimType -> Nat] /\ D \in [ClaimType -> Nat]
          /\ "STAGE1_PLATFORM_FEE" \in ClaimType /\ Recipient(t, "STAGE1_PLATFORM_FEE") = Treasury
      BY <1>6, <1>7, <1>11, <1>15
    <3> QED BY <1>16, <2>1, <3>1, <3>2, OneAccrual
  <2>5. claimableUsdc' = k
    BY <1>2, <1>8
  <2>6. claimableUsdc'[a] - Total(claimableAccrued'[t], ClaimsOf(a, t))
          = claimableUsdc[a] - Total(claimableAccrued[t], ClaimsOf(a, t))
    BY <1>8, <1>10, <2>1, <2>2, <2>3, <2>4, <2>5
  <2> QED
    BY <1>0, <1>2, <1>3, <1>5, <2>6, SurplusStays
<1> QED
  BY <1>17 DEF SurplusKept

LEMMA CreateSurplus ==
  ASSUME SolvencyInv, TypeOK', NEW s \in Accounts, NEW o \in Orders, NEW n, NEW dl, NEW sg,
         createTrade(s, o, n, dl, sg)
  PROVE  SurplusKept
<1>0. TypeOK /\ RecordTypes /\ AccountTypes /\ MoneyTypes /\ FreshTrades
  BY TypeGroups DEF SolvencyInv, MoneyInv, TypeInv
<1>1. PICK t : t = tradeCounter
  OBVIOUS
<1>2. PICK rec : rec = [status |-> "LOCKED", ricardianHash |-> o.ricardianHash,
                        buyerAddress |-> s, supplierAddress |-> o.supplier,
                        totalAmountLocked |-> o.total, logisticsAmount |-> o.logistics,
                        platformFeesAmount |-> o.platformFees,
                        supplierFirstTranche |-> o.firstTranche,
                        supplierSecondTranche |-> o.secondTranche,
                        createdAt |-> now, arrivalTimestamp |-> 0]
  OBVIOUS
<1>3. /\ trades' = [trades EXCEPT ![t] = rec]
      /\ tradeCounter' = t + 1
      /\ t < MaxTrades
      /\ usdc' = [usdc EXCEPT ![s] = @ - o.total, ![Escrow] = @ + o.total]
      /\ UNCHANGED accountVars
  BY <1>1, <1>2, Zenon DEF createTrade, AcceptsTrade
<1>4. t \in TradeIds /\ t \in Nat /\ ~Exists(t)
  BY <1>0, <1>1, <1>3, EscrowAssumption DEF RecordTypes, TradeIds, Exists
<1>5. trades'[t] = rec /\ \A u \in TradeIds \ {t} : trades'[u] = trades[u]
  BY <1>0, <1>3, <1>4 DEF RecordTypes
<1>6. rec.buyerAddress = s /\ rec.totalAmountLocked = o.total
  BY <1>2
<1>7. Created' = Created \cup {t} /\ t \notin Created /\ Created \subseteq TradeIds
  BY <1>1, <1>3, <1>4 DEF Created, TradeIds
<1>8. o.total \in Nat
  BY EscrowAssumption DEF Order
<1>9. ASSUME NEW a \in Accounts
      PROVE  usdc'[a] = usdc[a] - (IF a = s THEN o.total ELSE 0)
  <2>1. Escrow # a /\ Escrow # s
    BY EscrowAssumption
  <2> QED
    BY <1>0, <1>3, <1>8, <2>1 DEF MoneyTypes
<1>10. GainsTyped'
  BY GainTypes, PTL
<1>11. ASSUME NEW a \in Accounts
       PROVE  Surplus'[a] = Surplus[a]
  <2>1. PICK g : g = BalancesOf(a)
    OBVIOUS
  <2>2. PICK k : k = BalancesOf(a)'
    OBVIOUS
  <2>3. ASSUME NEW u \in TradeIds
        PROVE  /\ k[u] = Gained(a, u)' - Cost(a, u)'
               /\ k[u] \in Int
               /\ g[u] = Gained(a, u) - Cost(a, u)
               /\ g[u] \in Int
    <3>1. k[u] = Gained(a, u)' - Cost(a, u)'
      BY <2>2 DEF BalancesOf
    <3>2. Gained(a, u)' \in Nat /\ Cost(a, u)' \in Nat
      BY <1>10, Zenon DEF GainsTyped
    <3> QED
      BY <1>0, <2>1, <3>1, <3>2, BalanceTypes
  <2>4. ASSUME NEW u \in Created
        PROVE  k[u] = g[u]
    <3>1. u \in TradeIds \ {t} /\ SameTerms(u)
      BY <1>5, <1>7 DEF SameTerms
    <3>2. ClaimsOf(a, u)' = ClaimsOf(a, u) /\ Cost(a, u)' = Cost(a, u)
      BY <3>1, ClaimsStay
    <3>3. Gained(a, u)' = Gained(a, u)
      BY <1>3, <3>2 DEF Gained
    <3> QED
      BY <2>3, <3>1, <3>2, <3>3
  <2>5. Gained(a, t)' = 0
    <3>1. PICK S : S = ClaimsOf(a, t)'
      OBVIOUS
    <3>2. S \subseteq ClaimType /\ IsFiniteSet(S)
      BY <3>1, ClaimTypeFinite, FS_Subset DEF ClaimsOf
    <3>3. \A c \in ClaimType : claimableAccrued[t][c] = 0
      BY <1>0, <1>4 DEF FreshTrades, NothingAccrued
    <3>4. Total(claimableAccrued[t], S) = 0
      BY <3>2, <3>3, TotalZero
    <3> QED
      BY <1>3, <3>1, <3>4 DEF Gained
  <2>6. Cost(a, t)' = IF a = s THEN o.total ELSE 0
    BY <1>5, <1>6 DEF Cost
  <2>7. k[t] = 0 - (IF a = s THEN o.total ELSE 0)
    BY <1>4, <2>3, <2>5, <2>6
  <2>8. PICK C : C = Created \cup {t}
    OBVIOUS
  <2>9. IsFiniteSet(C) /\ t \in C /\ C \ {t} = Created /\ \A u \in C : k[u] \in Int
    BY <1>4, <1>7, <2>3, <2>8, CreatedFinite, FS_AddElement
  <2>10. Total(k, C) = k[t] + Total(k, Created) /\ Total(k, Created) \in Int
    <3>1. Total(k, C) = k[t] + Total(k, C \ {t}) /\ Total(k, C \ {t}) \in Int
      BY <2>9, TotalOne
    <3> QED
      BY <2>9, <3>1
  <2>11. Total(k, Created) = Total(g, Created)
    BY <2>4, CreatedFinite, TotalAgree
  <2>12. /\ Surplus[a] = usdc[a] + claimableUsdc[a] - InitialUsdc[a] - Total(g, Created)
         /\ usdc[a] \in Int /\ claimableUsdc[a] \in Int /\ InitialUsdc[a] \in Int
    BY <1>0, <2>1, SurplusTypes
  <2>13. Surplus'[a] = usdc'[a] + claimableUsdc[a] - InitialUsdc[a] - Total(k, C)
    BY <1>3, <1>7, <2>2, <2>8 DEF Surplus
  <2> QED
    BY <1>8, <1>9, <2>7, <2>10, <2>11, <2>12, <2>13
<1> QED
  BY <1>11 DEF SurplusKept

\* Steps that leave the terms, the accruals and the balances alone.
LEMMA RestSurplus ==
  ASSUME TypeOK, UNCHANGED <<tradeCounter, claimableUsdc, claimableAccrued, usdc>>,
         \A t \in TradeIds : SameTerms(t)
  PROVE  SurplusKept
<1>1. ASSUME NEW a \in Accounts
      PROVE  BalancesOf(a)' = BalancesOf(a)
  <2>1. ASSUME NEW t \in TradeIds
        PROVE  Gained(a, t)' - Cost(a, t)' = Gained(a, t) - Cost(a, t)
    <3>1. ClaimsOf(a, t)' = ClaimsOf(a, t) /\ Cost(a, t)' = Cost(a, t)
      BY ClaimsStay
    <3>2. Gained(a, t)' = Gained(a, t)
      BY <3>1 DEF Gained
    <3> QED
      BY <3>1, <3>2
  <2> QED
    BY <2>1 DEF BalancesOf
<1>2. Created' = Created
  BY DEF Created
<1> QED
  BY <1>1, <1>2 DEF Surplus, SurplusKept

LEMMA AdvanceSurplus ==
  ASSUME TypeOK, NEW s, NEW t \in TradeIds, confirmArrival(s, t) \/ openDispute(s, t)
  PROVE  SurplusKept
<1>0. RecordTypes
  BY TypeGroups
<1>1. /\ SameTerms(t)
      /\ \A u \in TradeIds \ {t} : trades'[u] = trades[u]
      /\ UNCHANGED tradeCounter
      /\ UNCHANGED accountVars
      /\ UNCHANGED usdc
  <2>1. CASE openDispute(s, t)
    <3>1. /\ trades' = [trades EXCEPT ![t] = [trades[t] EXCEPT !.status = "FROZEN"]]
          /\ UNCHANGED tradeCounter
          /\ UNCHANGED accountVars
          /\ UNCHANGED usdc
      BY <2>1, Zenon DEF openDispute, AcceptsDispute
    <3>2. "FROZEN" \in TradeStatus
      BY DEF TradeStatus
    <3> QED
      BY <1>0, <3>1, <3>2, StatusEffect
  <2>2. CASE confirmArrival(s, t)
    <3>1. PICK rec :
            rec = [trades[t] EXCEPT !.status = "ARRIVAL_CONFIRMED", !.arrivalTimestamp = now]
      OBVIOUS
    <3>2. /\ trades' = [trades EXCEPT ![t] = rec]
          /\ UNCHANGED tradeCounter
          /\ UNCHANGED accountVars
          /\ UNCHANGED usdc
      BY <2>2, <3>1, Zenon DEF confirmArrival
    <3>3. trades'[t] = rec /\ \A u \in TradeIds \ {t} : trades'[u] = trades[u]
      BY <1>0, <3>2 DEF RecordTypes
    <3>4. trades[t] \in Trade
      BY <1>0, TradeTermTypes
    <3>5. SameTerms(t)
      BY <3>1, <3>3, <3>4 DEF SameTerms, Trade
    <3> QED
      BY <3>2, <3>3, <3>5
  <2> QED
    BY <2>1, <2>2
<1>2. \A u \in TradeIds : SameTerms(u)
  BY <1>1 DEF SameTerms
<1> QED
  BY <1>1, <1>2, RestSurplus

\* A claim of account i that account r is paid moves the amount from i to r.
LEMMA PayOutSurplus ==
  ASSUME TypeOK, NEW i \in Accounts, NEW r \in Accounts, PayOut(i, r), NEW a \in Accounts
  PROVE  Surplus'[a] = Surplus[a] - (IF a = i THEN claimableUsdc[i] ELSE 0)
                                  + (IF a = r THEN claimableUsdc[i] ELSE 0)
<1>0. AccountTypes /\ MoneyTypes
  BY TypeGroups
<1>1. PICK n : n = claimableUsdc[i]
  OBVIOUS
<1>2. /\ claimableUsdc' = [claimableUsdc EXCEPT ![i] = 0]
      /\ usdc' = [usdc EXCEPT ![Escrow] = @ - n, ![r] = @ + n]
      /\ UNCHANGED <<trades, tradeCounter, claimableAccrued>>
  BY <1>1, Zenon DEF PayOut
<1>3. n \in Nat
  BY <1>0, <1>1 DEF AccountTypes
<1>4. usdc'[a] = usdc[a] + (IF a = r THEN n ELSE 0)
  <2>1. Escrow # r /\ Escrow # a
    BY EscrowAssumption
  <2> QED
    BY <1>0, <1>2, <1>3, <2>1 DEF MoneyTypes
<1>5. claimableUsdc'[a] = claimableUsdc[a] - (IF a = i THEN n ELSE 0)
  BY <1>0, <1>1, <1>2, <1>3 DEF AccountTypes
<1>6. BalancesOf(a)' = BalancesOf(a) /\ Created' = Created
  BY <1>2 DEF BalancesOf, Gained, Cost, ClaimsOf, Recipient, Created
<1>7. Surplus'[a] = usdc'[a] + claimableUsdc'[a] - InitialUsdc[a] - Total(BalancesOf(a), Created)
  BY <1>6 DEF Surplus
<1> QED
  BY <1>1, <1>3, <1>4, <1>5, <1>7, SurplusTypes

-------------------------------------------------------------------------------
(* The invariant *)

\* No surplus moves, and no receiver is forgotten.
LEMMA StillWhole ==
  ASSUME Whole, TypeOK, SurplusKept, PayoutReceivers \subseteq PayoutReceivers',
         PayoutReceivers' \subseteq Accounts, IsFiniteSet(PayoutReceivers')
  PROVE  Whole'
<1>1. PICK P, Q : P = PayoutReceivers /\ Q = PayoutReceivers'
  OBVIOUS
<1>2. PICK g : g = Surplus
  OBVIOUS
<1>3. PICK k : k = Surplus'
  OBVIOUS
<1>4. \A a \in Accounts : k[a] = g[a] /\ g[a] \in Int
  BY <1>2, <1>3, SurplusTypes DEF SurplusKept
<1>5. (\A a \in Accounts \ P : g[a] = 0) /\ Total(g, P) = 0
  BY <1>1, <1>2 DEF Whole
<1>6. P \in SUBSET Q /\ Q \subseteq Accounts /\ IsFiniteSet(Q)
  BY <1>1
<1>7. Total(k, Q) = Total(g, Q)
  BY <1>4, <1>6, TotalAgree
<1>8. (\A x \in Q : g[x] \in Int) /\ (\A x \in Q \ P : g[x] = 0)
  BY <1>4, <1>5, <1>6
<1>9. Total(g, Q) = Total(g, P)
  BY <1>6, <1>8, TotalSuperset
<1>10. (\A a \in Accounts \ Q : k[a] = 0) /\ Total(k, Q) = 0
  BY <1>4, <1>5, <1>6, <1>7, <1>9
<1> QED
  BY <1>1, <1>3, <1>10 DEF Whole

\* Between receivers an amount may move.
LEMMA ShiftWhole ==
  ASSUME Whole, TypeOK, UNCHANGED govVars, NEW i \in PayoutReceivers, NEW r \in PayoutReceivers,
         NEW n \in Int,
         \A a \in Accounts : Surplus'[a] = Surplus[a] - (IF a = i THEN n ELSE 0)
                                                      + (IF a = r THEN n ELSE 0)
  PROVE  Whole'
<1>1. PICK P : P = PayoutReceivers
  OBVIOUS
<1>2. P \subseteq Accounts /\ IsFiniteSet(P) /\ PayoutReceivers' = P /\ i \in P /\ r \in P
  BY <1>1, ReceiversFinite, TypeGroups DEF ReceiversAreAccounts, PayoutReceivers
<1>3. PICK g : g = Surplus
  OBVIOUS
<1>4. PICK k : k = Surplus'
  OBVIOUS
<1>5. ASSUME NEW a \in Accounts
      PROVE  /\ g[a] \in Int
             /\ k[a] = g[a] - (IF a = i THEN n ELSE 0) + (IF a = r THEN n ELSE 0)
  BY <1>3, <1>4, SurplusTypes
<1>6. (\A a \in Accounts \ P : g[a] = 0) /\ Total(g, P) = 0
  BY <1>1, <1>3 DEF Whole
<1>7. \A a \in Accounts \ P : k[a] = 0
  BY <1>1, <1>5, <1>6
<1> DEFINE m == [a \in P |-> IF a = i THEN g[a] - n ELSE g[a]]
<1>8. Total(m, P) = Total(g, P) + m[i] - g[i]
  <2>1. /\ \A x \in P : g[x] \in Int /\ m[x] \in Int
        /\ \A x \in P \ {i} : m[x] = g[x]
    BY <1>2, <1>5
  <2>2. IsFiniteSet(P) /\ i \in P /\ r \in P
    BY <1>2
  <2> HIDE DEF m
  <2> QED
    BY <2>1, <2>2, TotalChange
<1>9. Total(k, P) = Total(m, P) + k[r] - m[r]
  <2>1. /\ \A x \in P : m[x] \in Int /\ k[x] \in Int
        /\ \A x \in P \ {r} : k[x] = m[x]
    BY <1>2, <1>5
  <2>2. IsFiniteSet(P) /\ i \in P /\ r \in P
    BY <1>2
  <2> HIDE DEF m
  <2> QED
    BY <2>1, <2>2, TotalChange
<1>10. m[i] = g[i] - n /\ k[r] = m[r] + n /\ m[r] \in Int /\ g[i] \in Int
  BY <1>1, <1>2, <1>5
<1> HIDE DEF m
<1>11. Total(k, P) = 0
  BY <1>6, <1>8, <1>9, <1>10
<1> QED
  BY <1>2, <1>4, <1>7, <1>11 DEF Whole

\* The payout receivers only grow, and the current one stays among them.
LEMMA ReceiversGrow ==
  ASSUME GovInv, NumberedInOrder, ReceiverKnown, [GovNext]_govVars
  PROVE  ReceiverKnown' /\ PayoutReceivers \subseteq PayoutReceivers'
<1>0. GovTypeOK /\ GovTypeOK' /\ ProposalsKept
  BY ContractKeeps DEF GovInv
<1>1. PICK p : p = govProposals["payout"]
  OBVIOUS
<1>2. PICK q : q = govProposals'["payout"]
  OBVIOUS
<1>3. /\ p \in [ProposalIds -> GovProposal] /\ q \in [ProposalIds -> GovProposal]
      /\ \A id \in ProposalIds : Kept(p[id], q[id])
  BY <1>0, <1>1, <1>2 DEF GovTypeOK, ProposalsKept
<1>4. ASSUME NEW id \in ProposalIds, p[id].executed
      PROVE  q[id].executed /\ q[id].target = p[id].target
  <2>1. p[id] \in GovProposal /\ Kept(p[id], q[id])
    BY <1>3
  <2>2. p[id].createdAt # 0
    BY <1>4, <2>1 DEF GovProposal, MadeProposal, NoProposal
  <2> QED
    BY <1>4, <2>1, <2>2 DEF Kept
<1>5. ReceiverKnown'
  <2>1. CASE treasuryPayoutAddress' = treasuryPayoutAddress
    BY <1>1, <1>2, <1>4, <2>1 DEF ReceiverKnown
  <2>2. CASE treasuryPayoutAddress' # treasuryPayoutAddress
    <3>1. PICK id \in ProposalIds :
            Consumes("payout", id) /\ treasuryPayoutAddress' = govProposals["payout"][id].target
      BY <2>2, PrivilegedStepHolds, Zenon DEF PrivilegedStep
    <3>2. q[id].executed /\ Cardinality(p[id].approvedBy) >= governanceApprovals
      BY <1>1, <1>2, <3>1 DEF Consumes, Matured
    <3>3. p[id] # NoProposal
      BY <3>2, ApprovalsType, FS_EmptySet DEF NoProposal
    <3>4. p[id].createdAt # 0
      BY <1>3, <3>3 DEF GovProposal, MadeProposal
    <3>5. q[id].target = p[id].target
      BY <1>3, <3>4 DEF Kept
    <3> QED
      BY <1>1, <1>2, <3>1, <3>2, <3>5 DEF ReceiverKnown
  <2> QED
    BY <2>1, <2>2
<1>6. ASSUME NEW id \in ProposalIds, q[id].executed
      PROVE  q[id].target \in PayoutReceivers'
  <2>1. q[id] \in Range(q)
    BY <1>3 DEF Range
  <2> QED
    BY <1>2, <1>6, <2>1 DEF PayoutReceivers
<1>7. ASSUME NEW a \in PayoutReceivers
      PROVE  a \in PayoutReceivers'
  <2>1. a = Treasury \/ \E id \in ProposalIds : p[id].executed /\ p[id].target = a
    <3>1. CASE a \in {Treasury, treasuryPayoutAddress}
      BY <1>1, <3>1 DEF ReceiverKnown
    <3>2. CASE a \notin {Treasury, treasuryPayoutAddress}
      BY <1>1, <1>3, <3>2 DEF PayoutReceivers, Range
    <3> QED
      BY <3>1, <3>2
  <2>2. CASE a = Treasury
    BY <2>2 DEF PayoutReceivers
  <2>3. CASE \E id \in ProposalIds : p[id].executed /\ p[id].target = a
    BY <1>4, <1>6, <2>3
  <2> QED
    BY <2>1, <2>2, <2>3
<1> QED
  BY <1>5, <1>7

(***************************************************************************)
(* The inductive invariant: the surpluses are zero, or add up to zero over *)
(* the payout receivers; the receivers are known from the executed         *)
(* proposals, which keep their targets; and a trade accrues to its parties *)
(* only, which SolvencyInv says are accounts.                              *)
(***************************************************************************)
WholeInv == SolvencyInv /\ GovInv /\ NumberedInOrder /\ ReceiverKnown /\ Whole

LEMMA WholeInit ==
  ASSUME Init
  PROVE  WholeInv
<1>1. SolvencyInv
  BY SolventInit
<1>2. GovInv
  BY GovInvInit DEF Init
<1>3. NumberedInOrder /\ ReceiverKnown
  BY DEF Init, GovInit, NumberedInOrder, ReceiverKnown
<1>4. TypeOK
  BY <1>1 DEF SolvencyInv, MoneyInv, TypeInv
<1>5. Created = {}
  BY DEF Init, TradeInit, Created, TradeIds
<1>6. ASSUME NEW a \in Accounts
      PROVE  Surplus[a] = 0
  <2>1. Total(BalancesOf(a), Created) = 0
    BY <1>5, TotalEmpty
  <2>2. Escrow # a
    BY EscrowAssumption
  <2>3. usdc[a] = InitialUsdc[a] /\ claimableUsdc[a] = 0
    BY <2>2 DEF Init, TradeInit
  <2> QED
    BY <1>4, <2>1, <2>3, SurplusTypes
<1>7. PICK P, g : P = PayoutReceivers /\ g = Surplus
  OBVIOUS
<1>8. P \subseteq Accounts /\ IsFiniteSet(P)
  BY <1>4, <1>7, ReceiversFinite, TypeGroups DEF ReceiversAreAccounts
<1>9. \A a \in P : g[a] = 0
  BY <1>6, <1>7, <1>8
<1>10. Total(g, P) = 0
  BY <1>8, <1>9, TotalZero
<1>11. Whole
  BY <1>6, <1>7, <1>10 DEF Whole
<1> QED
  BY <1>1, <1>2, <1>3, <1>11 DEF WholeInv

LEMMA WholeStep ==
  ASSUME WholeInv, [Next]_vars
  PROVE  Whole'
<1>0. SolvencyInv /\ GovInv /\ NumberedInOrder /\ ReceiverKnown /\ Whole
  BY DEF WholeInv
<1>1. TypeOK /\ GovTypeOK /\ TypeInv
  BY <1>0, TypeGroups DEF SolvencyInv, MoneyInv, TypeInv
<1>2. TypeOK'
  BY <1>0, SolvencyInvStep DEF SolvencyInv, MoneyInv, TypeInv
<1>3. PayoutReceivers' \subseteq Accounts /\ IsFiniteSet(PayoutReceivers')
  <2>1. ReceiversAreAccounts'
    BY <1>2, TypeGroups, ReceiversFinite, PTL
  <2> QED
    BY <2>1 DEF ReceiversAreAccounts
<1>4. PayoutReceivers \subseteq PayoutReceivers'
  BY <1>0, GovernancePart, ReceiversGrow
<1>5. ASSUME SurplusKept
      PROVE  Whole'
  BY <1>0, <1>1, <1>3, <1>4, <1>5, StillWhole
<1>6. ASSUME UNCHANGED <<trades, tradeCounter>>,
             UNCHANGED <<claimableUsdc, claimableAccrued, usdc>>
      PROVE  Whole'
  BY <1>1, <1>5, <1>6, RestSurplus DEF SameTerms
<1>7. CASE Clock \/ AdminStep \/ UNCHANGED vars
  <2>1. UNCHANGED tradeVars
    BY <1>7, Zenon DEF Clock, AdminStep
  <2> QED
    BY <1>6, <2>1
<1>8. ASSUME NEW s \in Accounts, claim(s)
      PROVE  Whole'
  <2>1. PayOut(s, s)
    BY <1>8, Zenon DEF claim
  <2>2. claimableUsdc[s] \in Int
    BY <1>1, SurplusTypes
  <2>3. \A a \in Accounts : Surplus'[a] = Surplus[a] - (IF a = s THEN claimableUsdc[s] ELSE 0)
                                                    + (IF a = s THEN claimableUsdc[s] ELSE 0)
    BY <1>1, <2>1, PayOutSurplus
  <2>4. SurplusKept
    BY <1>1, <2>2, <2>3, SurplusTypes DEF SurplusKept
  <2> QED
    BY <1>5, <2>4
<1>9. CASE claimTreasury
  <2>1. PayOut(Treasury, treasuryPayoutAddress)
    BY <1>9, Zenon DEF claimTreasury
  <2>2. /\ Treasury \in Accounts /\ treasuryPayoutAddress \in Accounts
        /\ Treasury \in PayoutReceivers /\ treasuryPayoutAddress \in PayoutReceivers
    BY <1>1, GovernanceAssumption DEF GovTypeOK, PayoutReceivers
  <2>3. claimableUsdc[Treasury] \in Int
    BY <1>1, <2>2, SurplusTypes
  <2>4. UNCHANGED govVars
    BY <2>1, Zenon DEF PayOut
  <2>5. \A a \in Accounts :
          Surplus'[a] = Surplus[a]
                          - (IF a = Treasury THEN claimableUsdc[Treasury] ELSE 0)
                          + (IF a = treasuryPayoutAddress THEN claimableUsdc[Treasury] ELSE 0)
    BY <1>1, <2>1, <2>2, PayOutSurplus
  <2> QED
    BY <1>0, <1>1, <2>2, <2>3, <2>4, <2>5, ShiftWhole
<1>10. ASSUME NEW s \in Accounts, NEW d \in DisputeIds, cancelExpiredDisputeProposal(s, d)
       PROVE  Whole'
  <2>1. UNCHANGED tradeRecordVars /\ UNCHANGED accountVars /\ UNCHANGED usdc
    BY <1>10, Zenon DEF cancelExpiredDisputeProposal
  <2> QED
    BY <1>6, <2>1
<1>11. ASSUME \/ \E a \in Accounts, t \in TradeIds, ds \in DisputeStatus :
                   proposeDisputeSolution(a, t, ds)
              \/ \E a \in Accounts, d \in DisputeIds : approveDisputeSolution(a, d)
       PROVE  Whole'
  <2>1. CASE \E table, d : table[d] \in MadeDispute /\ ExecuteDispute(table, d)
    BY <1>0, <1>2, <1>5, <2>1, ExecuteSurplus
  <2>2. CASE UNCHANGED tradeRecordVars /\ UNCHANGED accountVars /\ UNCHANGED <<govVars, usdc>>
    BY <1>6, <2>2
  <2> QED
    BY <1>1, <1>11, <2>1, <2>2, DisputeActionKinds
<1>12. ASSUME NEW s \in Accounts, NEW t \in TradeIds, TradeStep(s, t)
       PROVE  Whole'
  <2>1. CASE releaseFundsStage1(s, t)
    BY <1>0, <1>2, <1>5, <2>1, ReleaseSurplus
  <2>2. CASE confirmArrival(s, t) \/ openDispute(s, t)
    BY <1>1, <1>5, <2>2, AdvanceSurplus
  <2>3. CASE SimpleClose(s, t)
    BY <1>0, <1>2, <1>5, <2>3, SimpleCloseSurplus
  <2>4. CASE \E ds \in DisputeStatus : proposeDisputeSolution(s, t, ds)
    BY <1>11, <2>4
  <2> QED
    BY <1>12, <2>1, <2>2, <2>3, <2>4, Zenon DEF TradeStep, SimpleClose
<1>13. ASSUME NEW t \in TradeIds, finalizeAfterDisputeWindow(t)
       PROVE  Whole'
  BY <1>0, <1>2, <1>5, <1>13, SimpleCloseSurplus DEF SimpleClose
<1>14. ASSUME NEW s \in Accounts, NEW d \in DisputeIds, approveDisputeSolution(s, d)
       PROVE  Whole'
  BY <1>11, <1>14
<1>15. ASSUME NEW s \in Accounts, NEW o \in Orders, NEW n \in 0 .. MaxTrades,
              NEW dl \in {now - 1, now}, NEW sg \in Accounts, createTrade(s, o, n, dl, sg)
       PROVE  Whole'
  BY <1>0, <1>2, <1>5, <1>15, CreateSurplus
<1> QED
  BY <1>7, <1>8, <1>9, <1>10, <1>12, <1>13, <1>14, <1>15, Zenon DEF Next

LEMMA WholeInvStep ==
  ASSUME WholeInv, [Next]_vars
  PROVE  WholeInv'
<1>1. GovInv /\ NumberedInOrder /\ ReceiverKnown /\ GovTypeOK /\ [GovNext]_govVars
  BY GovernancePart DEF WholeInv, GovInv
<1>2. SolvencyInv'
  BY SolvencyInvStep DEF WholeInv
<1>3. GovInv'
  BY <1>1, GovInvStep
<1>4. NumberedInOrder'
  BY <1>1, ContractKeeps
<1>5. ReceiverKnown'
  BY <1>1, ReceiversGrow
<1> QED
  BY <1>2, <1>3, <1>4, <1>5, WholeStep DEF WholeInv

(***************************************************************************)
(* Everybody ends up with what the trades owe them: for any accounts,      *)
(* orders and amounts, an account owns in USDC and claims exactly what it  *)
(* started with plus what its trades earned it, and the payout receivers   *)
(* together own what the treasury and they are due (createTrade,           *)
(* _accrueClaimable, claim, claimTreasury and the changes of the payout    *)
(* receiver, in any order).                                                *)
(***************************************************************************)
THEOREM PartiesMadeWholeHolds == Spec => []PartiesMadeWhole
<1>1. Init => WholeInv
  BY WholeInit
<1>2. WholeInv /\ [Next]_vars => WholeInv'
  BY WholeInvStep
<1>3. WholeInv => PartiesMadeWhole
  BY WholeMeans DEF WholeInv, SolvencyInv, MoneyInv, TypeInv
<1> QED
  BY <1>1, <1>2, <1>3, PTL DEF Spec

-------------------------------------------------------------------------------
(* The calls of a buyer *)

\* The contract's operations other than createTrade.
Untraded ==
  \/ Clock \/ AdminStep \/ claimTreasury
  \/ \E s \in Accounts : claim(s)
  \/ \E s \in Accounts, t \in TradeIds : TradeStep(s, t)
  \/ \E t \in TradeIds : finalizeAfterDisputeWindow(t)
  \/ \E s \in Accounts, d \in DisputeIds :
       approveDisputeSolution(s, d) \/ cancelExpiredDisputeProposal(s, d)

\* None of them makes a trade or uses a nonce.
LEMMA UntradedKeeps ==
  ASSUME Untraded
  PROVE  Next /\ UNCHANGED <<tradeCounter, nonces>>
<1>1. ASSUME NEW s, NEW t, TradeStep(s, t)
      PROVE  UNCHANGED <<tradeCounter, nonces>>
  BY <1>1, Zenon DEF TradeStep, releaseFundsStage1, confirmArrival, openDispute,
     cancelLockedTradeAfterTimeout, refundInTransitAfterTimeout, proposeDisputeSolution,
     ExecuteDispute, Close
<1>2. ASSUME NEW a, NEW d, approveDisputeSolution(a, d) \/ cancelExpiredDisputeProposal(a, d)
      PROVE  UNCHANGED <<tradeCounter, nonces>>
  BY <1>2, Zenon DEF approveDisputeSolution, cancelExpiredDisputeProposal, ExecuteDispute, Close
<1>3. ASSUME NEW t, finalizeAfterDisputeWindow(t)
      PROVE  UNCHANGED <<tradeCounter, nonces>>
  BY <1>3, Zenon DEF finalizeAfterDisputeWindow, AcceptsFinalization, Close
<1>4. ASSUME NEW i, NEW r, PayOut(i, r)
      PROVE  UNCHANGED <<tradeCounter, nonces>>
  BY <1>4, Zenon DEF PayOut
<1>5. ASSUME Clock \/ AdminStep
      PROVE  UNCHANGED <<tradeCounter, nonces>>
  BY <1>5, Zenon DEF Clock, AdminStep
<1>6. UNCHANGED <<tradeCounter, nonces>>
  BY <1>1, <1>2, <1>3, <1>4, <1>5, Zenon DEF Untraded, claim, claimTreasury
<1>7. Next
  BY Zenon DEF Untraded, Next
<1> QED
  BY <1>6, <1>7

\* The step makes no trade, and keeps the terms of those there are.
ChainKept ==
  /\ [Next]_vars
  /\ UNCHANGED <<tradeCounter, nonces>>
  /\ \A t \in Created : SameTerms(t)

LEMMA UntradedChain ==
  ASSUME MoneyInv, Untraded \/ UNCHANGED vars
  PROVE  ChainKept
<1>1. [Next]_vars /\ UNCHANGED <<tradeCounter, nonces>>
  BY UntradedKeeps, Zenon
<1>2. TypeInv /\ FreshTrades /\ tradeCounter \in Nat
  BY TypeGroups DEF MoneyInv, TypeInv, RecordTypes
<1>3. MoneyStep
  BY <1>1, <1>2, NextMoney
<1>4. CASE UNCHANGED <<trades, tradeCounter, claimableAccrued>>
  BY <1>1, <1>4 DEF ChainKept, SameTerms
<1>5. CASE \E t \in TradeIds : BecomesTrade(t) /\ OnlyTouches(t)
  BY <1>1, <1>2, <1>5 DEF BecomesTrade
<1>6. ASSUME NEW t \in TradeIds, Moves(t), OnlyTouches(t)
      PROVE  ChainKept
  <2>1. SameTerms(t)
    BY <1>6, Zenon DEF Moves, Released, Advanced, Refunded, SecondPaid
  <2>2. \A u \in TradeIds : u # t => SameTerms(u)
    BY <1>6 DEF OnlyTouches, SameTerms
  <2>3. \A u \in Created : SameTerms(u)
    BY <2>1, <2>2 DEF Created
  <2> QED
    BY <1>1, <2>3 DEF ChainKept
<1> QED
  BY <1>3, <1>4, <1>5, <1>6, Zenon DEF MoneyStep

\* What the other parties do, and the transactions of the calls other than createTrade.
LEMMA OthersAreUntraded ==
  ASSUME OthersStep
  PROVE  Untraded
  BY Zenon DEF OthersStep, Untraded

LEMMA CallTxIsUntraded ==
  ASSUME TypeOK, NEW op, NEW t \in Nat, CallTx(op, t)
  PROVE  Untraded
<1>0. Buyer \in Accounts /\ MaxTrades \in Nat /\ tradeCounter \in 0 .. MaxTrades
  BY BuyerAssumption, EscrowAssumption, TypeGroups DEF RecordTypes
<1>1. CASE claim(Buyer)
  BY <1>0, <1>1, Zenon DEF Untraded
<1>2. CASE \/ openDispute(Buyer, t) \/ cancelLockedTradeAfterTimeout(Buyer, t)
           \/ refundInTransitAfterTimeout(Buyer, t)
  <2>1. Exists(t)
    BY <1>2, Zenon DEF openDispute, AcceptsDispute, cancelLockedTradeAfterTimeout, refundInTransitAfterTimeout
  <2>2. t \in TradeIds
    BY <1>0, <2>1 DEF Exists, TradeIds
  <2>3. TradeStep(Buyer, t)
    BY <1>2, Zenon DEF TradeStep
  <2> QED
    BY <1>0, <2>2, <2>3, Zenon DEF Untraded
<1> QED
  BY <1>1, <1>2, Zenon DEF CallTx

\* Time goes by only when the clock ticks.
LEMMA TimeOnlyTicks ==
  ASSUME [Next]_vars
  PROVE  UNCHANGED now \/ (now < MaxTime /\ now' = now + 1)
<1>1. [GovNext]_govVars
  BY GovernancePart
<1> QED
  BY <1>1, GovStepKeepsTime, Zenon DEF GovNext, Tick

-------------------------------------------------------------------------------
(* The invariant of the calls *)

TradeCall ==
  [op : {"createTrade"}, at : {"allowance", "approval", "nonce", "sign"}, params : Wanted,
   nonce : Nat \cup {None}, deadline : Nat \cup {None}, made : Nat \cup {None},
   answer : {None, "ok", "lost", "failed", "excused", "refused"},
   sent : {"none", "approve", "trade"}, alone : BOOLEAN]

OtherCall ==
  [op : {"openDispute", "cancelLockedTradeAfterTimeout", "refundInTransitAfterTimeout", "claim"},
   trade : Nat, answer : {None}, sent : {"none"}, alone : BOOLEAN]

Call == {NoCall} \cup TradeCall \cup OtherCall

CallTypes ==
  /\ calls \in [Calls -> Call]
  /\ allowance \in Nat

\* What is known of a createTrade call by how far it got.
Sound(call) ==
  /\ call.sent = "approve" => call.at = "approval"
  /\ call.sent = "trade" => call.at = "sign"
  /\ call.at = "sign" => call.nonce \in Nat /\ call.deadline \in Nat
  /\ call.made # None => call.at = "sign" /\ call.answer \in {"ok", "lost"} /\ call.sent = "none"
  /\ call.answer = "ok" => call.made # None
  /\ call.answer \in {"failed", "excused", "refused"} => call.sent = "none"
  /\ call.answer = "refused" => ~call.alone
  /\ validateTradeParameters(call.params)

CallsSound == \A c \in Creations : Sound(calls[c])

\* A call that nothing overlapped finds what it provided for itself.
Undisturbed(c) ==
  /\ \A d \in Calls : d # c => ~Unfinished(d)
  /\ calls[c].at \in {"nonce", "sign"} => allowance >= calls[c].params.order.total
  /\ calls[c].at = "sign" => calls[c].nonce = nonces[Buyer]

AloneIsUndisturbed ==
  \A c \in Creations : Unfinished(c) /\ calls[c].alone => Undisturbed(c)

Makers == {c \in Creations : calls[c].made # None}

\* Call c made the trade it says it did.
MadeIt(c) ==
  LET trade == trades[calls[c].made] IN
  /\ calls[c].made \in Created
  /\ calls[c].nonce = calls[c].made
  /\ trade.buyerAddress = Buyer
  /\ trade.totalAmountLocked = calls[c].params.order.total
  /\ trade.supplierAddress = calls[c].params.order.supplier
  /\ trade.createdAt <= calls[c].deadline

OneMaker ==
  /\ \A c \in Makers : MadeIt(c)
  /\ \A c, d \in Makers : calls[c].made = calls[d].made => c = d
  /\ \A t \in Created : \E c \in Makers : calls[c].made = t
  /\ nonces[Buyer] = tradeCounter
  /\ tradeCounter = Cardinality(Makers)

InTime == now <= LastInputTime

(***************************************************************************)
(* The inductive invariant: nonces and trades are counted together, so the *)
(* nonce that a call used is the number of the trade it made; and what a   *)
(* call read stays true as long as no other call is under way.             *)
(***************************************************************************)
BuyerInv ==
  MoneyInv /\ CallTypes /\ CallsSound /\ AloneIsUndisturbed /\ OneMaker /\ InTime

\* What a call that made a trade keeps.
SameTrade(c) ==
  /\ calls'[c].made = calls[c].made
  /\ calls'[c].nonce = calls[c].nonce
  /\ calls'[c].deadline = calls[c].deadline
  /\ calls'[c].params = calls[c].params

LEMMA CallKinds ==
  ASSUME CallTypes, NEW c \in Calls
  PROVE  /\ calls[c] \in Call
         /\ calls[c].op = "createTrade" <=> calls[c] \in TradeCall
         /\ calls[c].op = "none" <=> calls[c] = NoCall
         /\ calls[c].op \notin {"none", "createTrade"} <=> calls[c] \in OtherCall
  BY DEF CallTypes, Call, TradeCall, OtherCall, NoCall

LEMMA NoneIsNone ==
  /\ None \notin Nat
  /\ None \notin {"ok", "lost", "failed", "excused", "refused"}
  BY BuyerAssumption

\* A record that stands for the outcome of a step of call c.
Outcome(c, call) ==
  /\ call \in TradeCall \cup {NoCall}
  /\ call.op = "createTrade" => Sound(call)
  /\ call.op = "createTrade" /\ (call.answer = None \/ call.sent # "none") /\ call.alone =>
       /\ calls[c] \in TradeCall /\ calls[c].alone
       /\ call.at \in {"nonce", "sign"} => allowance' >= call.params.order.total
       /\ call.at = "sign" => call.nonce = nonces'[Buyer]

\* A call that goes on was under way, so no other call counts on being alone.
LEMMA CallGoesOn ==
  ASSUME CallTypes, CallsSound, AloneIsUndisturbed, NEW c \in Calls, Unfinished(c),
         NEW call, Outcome(c, call), Becomes(c, call), allowance' \in Nat
  PROVE  CallTypes' /\ CallsSound' /\ AloneIsUndisturbed'
<1>1. /\ calls' \in [Calls -> Call]
      /\ calls'[c] = call
      /\ \A d \in Calls : d # c => calls'[d] = calls[d]
  BY DEF CallTypes, Call, Outcome, Becomes
<1>2. CallTypes'
  BY <1>1 DEF CallTypes
<1>3. CallsSound'
  BY <1>1 DEF CallsSound, Creations, Outcome
<1>4. \A d \in Calls : d # c => (Unfinished(d)' <=> Unfinished(d))
  BY <1>1 DEF Unfinished
<1>5. ASSUME NEW d \in Creations', Unfinished(d)', calls'[d].alone
      PROVE  Undisturbed(d)'
  <2>1. CASE d # c
    <3>1. d \in Creations /\ Unfinished(d) /\ calls[d].alone
      BY <1>1, <1>4, <1>5, <2>1 DEF Creations
    <3>2. ~Unfinished(c)
      BY <2>1, <3>1 DEF AloneIsUndisturbed, Undisturbed
    <3> QED
      BY <3>2
  <2>2. CASE d = c
    <3>1. call.op = "createTrade" /\ call.alone /\ (call.answer = None \/ call.sent # "none")
      BY <1>1, <1>5, <2>2 DEF Creations, Unfinished
    <3>2. c \in Creations /\ calls[c].alone
      BY <3>1, CallKinds DEF Outcome, Creations
    <3>3. \A e \in Calls : e # c => ~Unfinished(e)
      BY <3>2 DEF AloneIsUndisturbed, Undisturbed
    <3> QED
      BY <1>1, <1>4, <2>2, <3>1, <3>3 DEF Undisturbed, Outcome
  <2> QED
    BY <2>1, <2>2
<1>6. AloneIsUndisturbed'
  BY <1>5 DEF AloneIsUndisturbed
<1> QED
  BY <1>2, <1>3, <1>6

\* A call begins: those under way no longer count on being alone.
LEMMA CallBegins ==
  ASSUME CallTypes, CallsSound, AloneIsUndisturbed, NEW c \in Calls,
         NEW call \in TradeCall \cup OtherCall,
         call.answer = None, call.sent = "none", call.alone => Quiet,
         call.op = "createTrade" =>
           call.at = "allowance" /\ call.made = None /\ validateTradeParameters(call.params),
         Begin(c, call), UNCHANGED allowance
  PROVE  /\ CallTypes' /\ CallsSound' /\ AloneIsUndisturbed'
         /\ Makers' = Makers
         /\ \A d \in Makers : SameTrade(d)
<1> DEFINE Overlapped(d) == [calls[d] EXCEPT !.alone = FALSE]
<1>1. ASSUME NEW d \in Calls, Unfinished(d)
      PROVE  /\ Overlapped(d) \in TradeCall \cup OtherCall
             /\ Overlapped(d).op = calls[d].op
             /\ ~Overlapped(d).alone
             /\ Overlapped(d).answer = calls[d].answer
             /\ Overlapped(d).sent = calls[d].sent
             /\ calls[d].op = "createTrade" =>
                  /\ Sound(Overlapped(d))
                  /\ Overlapped(d).made = calls[d].made
                  /\ Overlapped(d).nonce = calls[d].nonce
                  /\ Overlapped(d).deadline = calls[d].deadline
                  /\ Overlapped(d).params = calls[d].params
  <2>1. CASE calls[d] \in TradeCall
    <3>1. Sound(calls[d]) /\ calls[d].op = "createTrade"
      BY <2>1 DEF CallsSound, Creations, TradeCall
    <3> QED
      BY <2>1, <3>1 DEF TradeCall, Sound
  <2>2. CASE calls[d] \in OtherCall
    BY <2>2 DEF OtherCall
  <2> QED
    BY <1>1, <2>1, <2>2, CallKinds DEF Unfinished
<1> HIDE DEF Overlapped
<1>2. /\ calls[c] = NoCall
      /\ calls'[c] = call
      /\ \A d \in Calls : d # c /\ Unfinished(d) => calls'[d] = Overlapped(d)
      /\ \A d \in Calls : d # c /\ ~Unfinished(d) => calls'[d] = calls[d]
  BY DEF Begin, Overlapped
<1>3. ~Unfinished(c) /\ c \notin Creations /\ call.op # "none"
  BY <1>2 DEF Unfinished, NoCall, Creations, TradeCall, OtherCall
<1>4. ASSUME NEW d \in Calls PROVE calls'[d] \in Call
  BY <1>1, <1>2, CallKinds DEF Call
<1>5. CallTypes'
  BY <1>4 DEF CallTypes, Begin
<1>6. call.op = "createTrade" => Sound(call)
  BY NoneIsNone DEF Sound
<1>7. \A d \in Calls : d # c => (Unfinished(d)' <=> Unfinished(d))
  BY <1>1, <1>2 DEF Unfinished
<1>8. \A d \in Calls : d # c => (d \in Creations' <=> d \in Creations)
  BY <1>1, <1>2 DEF Creations
<1>9. CallsSound'
  BY <1>1, <1>2, <1>6, <1>8 DEF CallsSound, Creations
<1>10. AloneIsUndisturbed'
  <2> SUFFICES ASSUME NEW d \in Creations', Unfinished(d)', calls'[d].alone
               PROVE  Undisturbed(d)'
    BY DEF AloneIsUndisturbed
  <2>1. d \in Calls
    BY DEF Creations
  <2>2. d = c
    BY <1>1, <1>2, <1>7, <2>1
  <2>3. \A e \in Calls : e # c => ~Unfinished(e)'
    BY <1>2, <1>7, <2>2 DEF Quiet
  <2>4. calls'[c].at = "allowance"
    BY <1>2, <2>2 DEF Creations
  <2> QED
    BY <2>2, <2>3, <2>4 DEF Undisturbed
<1>11. Makers' = Makers
  <2>1. c \notin Makers /\ c \notin Makers'
    BY <1>2, <1>3 DEF Makers, Creations
  <2>2. ASSUME NEW d \in Calls, d # c PROVE d \in Makers' <=> d \in Makers
    BY <1>1, <1>2, <1>8, <2>2 DEF Makers, Creations
  <2> QED
    BY <2>1, <2>2 DEF Makers, Creations
<1>12. \A d \in Makers : SameTrade(d)
  BY <1>1, <1>2, <1>3 DEF Makers, Creations, SameTrade
<1> QED
  BY <1>5, <1>9, <1>10, <1>11, <1>12

\* The makers stay makers, and their trades are kept.
LEMMA MakersStay ==
  ASSUME tradeCounter \in Nat, OneMaker, ChainKept, Makers' = Makers,
         \A d \in Makers : SameTrade(d)
  PROVE  OneMaker'
<1>1. UNCHANGED <<tradeCounter, nonces>> /\ Created' = Created
  BY DEF ChainKept, Created
<1>2. ASSUME NEW d \in Makers PROVE MadeIt(d)'
  <2>1. MadeIt(d) /\ SameTrade(d)
    BY <1>2 DEF OneMaker
  <2>2. SameTerms(calls[d].made)
    BY <2>1 DEF MadeIt, ChainKept
  <2> QED
    BY <1>1, <2>1, <2>2 DEF MadeIt, SameTrade, SameTerms
<1>3. \A d \in Makers : calls'[d].made = calls[d].made
  BY DEF SameTrade
<1> QED
  BY <1>1, <1>2, <1>3 DEF OneMaker

\* A step of a call that has made no trade and makes none.
LEMMA NoneMade ==
  ASSUME CallTypes, NEW c \in Calls, NEW call, Becomes(c, call),
         calls[c].op = "createTrade" => calls[c].made = None,
         call.op = "createTrade" => call.made = None
  PROVE  Makers' = Makers /\ \A d \in Makers : SameTrade(d)
<1>1. calls'[c] = call /\ \A d \in Calls : d # c => calls'[d] = calls[d]
  BY DEF CallTypes, Becomes
<1>2. c \notin Makers /\ c \notin Makers'
  BY <1>1 DEF Makers, Creations
<1> QED
  BY <1>1, <1>2 DEF Makers, Creations, SameTrade

\* What the invariant says of the calls.
CallsInv == CallTypes /\ CallsSound /\ AloneIsUndisturbed /\ OneMaker

LEMMA BuyerFacts ==
  ASSUME BuyerInv
  PROVE  /\ CallsInv
         /\ TypeOK /\ now \in Nat /\ tradeCounter \in Nat /\ MaxTrades \in Nat
         /\ nonces[Buyer] \in Nat /\ nonces[Buyer] = tradeCounter
         /\ allowance \in Nat
<1>1. TypeInv /\ TypeOK
  BY DEF BuyerInv, MoneyInv, TypeInv
<1> QED
  BY <1>1, TypeGroups, EscrowAssumption, BuyerAssumption
     DEF BuyerInv, CallsInv, OneMaker, CallTypes, RecordTypes, GovTypeOK

\* A createTrade call that is still under way.
Going(c) == calls[c].op = "createTrade" /\ Unfinished(c)

LEMMA GoingFacts ==
  ASSUME CallsInv, NEW c \in Calls, Going(c)
  PROVE  /\ c \in Creations /\ calls[c] \in TradeCall /\ Sound(calls[c])
         /\ calls[c].made = None
         /\ calls[c].params.order \in Orders
         /\ calls[c].params.order.total \in Nat
         /\ calls[c].params.deadline \in Nat
         /\ calls[c].alone => Undisturbed(c)
<1>1. c \in Creations /\ calls[c] \in TradeCall /\ Sound(calls[c])
  BY CallKinds DEF CallsInv, CallsSound, Creations, Going
<1>2. calls[c].made = None
  BY <1>1, NoneIsNone DEF Sound, Going, Unfinished
<1>3. calls[c].params \in [order : Orders, deadline : Nat]
  BY <1>1, BuyerAssumption DEF TradeCall
<1>4. calls[c].params.order \in Order
  BY <1>3, EscrowAssumption
<1>5. calls[c].alone => Undisturbed(c)
  BY <1>1 DEF CallsInv, AloneIsUndisturbed, Going
<1> QED
  BY <1>1, <1>2, <1>3, <1>4, <1>5 DEF Order

\* A createTrade call goes on without making a trade.
LEMMA TradelessStep ==
  ASSUME BuyerInv, NEW c \in Calls, Going(c), NEW call, Outcome(c, call), Becomes(c, call),
         call.op = "createTrade", call.made = None, ChainKept, allowance' \in Nat
  PROVE  CallsInv'
<1>1. CallsInv /\ tradeCounter \in Nat
  BY BuyerFacts
<1>2. calls[c].made = None
  BY <1>1, GoingFacts
<1>3. CallTypes' /\ CallsSound' /\ AloneIsUndisturbed'
  BY <1>1, CallGoesOn DEF CallsInv, Going
<1>4. Makers' = Makers /\ \A d \in Makers : SameTrade(d)
  BY <1>1, <1>2, NoneMade DEF CallsInv
<1>5. OneMaker'
  BY <1>1, <1>4, MakersStay DEF CallsInv
<1> QED
  BY <1>3, <1>5 DEF CallsInv

LEMMA IdleChain ==
  ASSUME BuyerInv, UNCHANGED vars
  PROVE  ChainKept /\ UNCHANGED nonces
<1>1. MoneyInv
  BY DEF BuyerInv
<1> QED
  BY <1>1, UntradedChain

LEMMA getUSDCAllowanceKeeps ==
  ASSUME BuyerInv, NEW c \in Calls, getUSDCAllowance(c)
  PROVE  CallsInv'
<1>1. CallsInv /\ allowance \in Nat /\ ChainKept /\ UNCHANGED <<nonces, allowance>>
  BY BuyerFacts, IdleChain DEF getUSDCAllowance
<1>2. Going(c) /\ calls[c].answer = None /\ calls[c].at = "allowance"
  BY DEF getUSDCAllowance, At, Going, Unfinished
<1>3. calls[c] \in TradeCall /\ Sound(calls[c]) /\ calls[c].made = None
  BY <1>1, <1>2, GoingFacts
<1>4. CASE Covers(allowance, calls[c].params)
  <2> DEFINE call == [calls[c] EXCEPT !.at = "nonce"]
  <2>1. Becomes(c, call)
    BY <1>4 DEF getUSDCAllowance
  <2>2. call \in TradeCall /\ call.op = "createTrade" /\ call.made = None
    BY <1>3 DEF TradeCall
  <2>3. Outcome(c, call)
    BY <1>1, <1>2, <1>3, <1>4, <2>2, NoneIsNone DEF Outcome, Sound, TradeCall, Covers
  <2> HIDE DEF call
  <2> QED
    BY <1>1, <1>2, <2>1, <2>2, <2>3, TradelessStep
<1>5. CASE ~Covers(allowance, calls[c].params)
  <2> DEFINE call == [calls[c] EXCEPT !.at = "approval", !.sent = "approve"]
  <2>1. Becomes(c, call)
    BY <1>5 DEF getUSDCAllowance
  <2>2. call \in TradeCall /\ call.op = "createTrade" /\ call.made = None
    BY <1>3 DEF TradeCall
  <2>3. Outcome(c, call)
    BY <1>1, <1>2, <1>3, <2>2, NoneIsNone DEF Outcome, Sound, TradeCall
  <2> HIDE DEF call
  <2> QED
    BY <1>1, <1>2, <2>1, <2>2, <2>3, TradelessStep
<1> QED
  BY <1>4, <1>5

LEMMA approveUSDCKeeps ==
  ASSUME BuyerInv, NEW c \in Calls, approveUSDC(c)
  PROVE  CallsInv'
<1> DEFINE call == [calls[c] EXCEPT !.at = "nonce", !.sent = "none"]
<1>1. CallsInv /\ ChainKept /\ UNCHANGED nonces
  BY BuyerFacts, IdleChain DEF approveUSDC
<1>2. Going(c) /\ calls[c].sent = "approve" /\ calls[c].at = "approval"
  BY DEF approveUSDC, At, Going, Unfinished
<1>3. /\ calls[c] \in TradeCall /\ Sound(calls[c]) /\ calls[c].made = None
      /\ calls[c].params.order.total \in Nat
  BY <1>1, <1>2, GoingFacts
<1>4. Becomes(c, call) /\ allowance' = calls[c].params.order.total
  BY DEF approveUSDC
<1>5. call \in TradeCall /\ call.op = "createTrade" /\ call.made = None
  BY <1>3 DEF TradeCall
<1>6. Outcome(c, call)
  BY <1>1, <1>2, <1>3, <1>4, <1>5, NoneIsNone DEF Outcome, Sound, TradeCall
<1> HIDE DEF call
<1> QED
  BY <1>1, <1>2, <1>3, <1>4, <1>5, <1>6, TradelessStep

LEMMA getBuyerNonceKeeps ==
  ASSUME BuyerInv, NEW c \in Calls, getBuyerNonce(c)
  PROVE  CallsInv'
<1> DEFINE call == [calls[c] EXCEPT !.at = "sign", !.nonce = nonces[Buyer],
                                   !.deadline = DeadlineOf(calls[c].params)]
<1>1. /\ CallsInv /\ allowance \in Nat /\ nonces[Buyer] \in Nat /\ now \in Nat
      /\ ChainKept /\ UNCHANGED <<nonces, allowance>>
  BY BuyerFacts, IdleChain DEF getBuyerNonce
<1>2. Going(c) /\ calls[c].answer = None /\ calls[c].at = "nonce"
  BY DEF getBuyerNonce, At, Going, Unfinished
<1>3. /\ calls[c] \in TradeCall /\ Sound(calls[c]) /\ calls[c].made = None
      /\ calls[c].alone => allowance >= calls[c].params.order.total
      /\ calls[c].params.deadline \in Nat
  BY <1>1, <1>2, GoingFacts DEF Undisturbed
<1>4. DeadlineOf(calls[c].params) \in Nat
  BY <1>1, <1>3, BuyerAssumption DEF DeadlineOf
<1>5. Becomes(c, call)
  BY DEF getBuyerNonce
<1>6. call \in TradeCall /\ call.op = "createTrade" /\ call.made = None
  BY <1>1, <1>3, <1>4 DEF TradeCall
<1>7. Outcome(c, call)
  BY <1>1, <1>2, <1>3, <1>4, <1>6, NoneIsNone DEF Outcome, Sound, TradeCall
<1> HIDE DEF call
<1> QED
  BY <1>1, <1>2, <1>5, <1>6, <1>7, TradelessStep

\* There is room in the contract for the trade of a call that has made none.
LEMMA RoomForOneMore ==
  ASSUME OneMaker, NEW c \in Calls, c \notin Makers
  PROVE  tradeCounter < MaxTrades
<1>1. Makers \in SUBSET (Calls \ {c})
  BY DEF Makers, Creations
<1>2. /\ IsFiniteSet(Calls) /\ Cardinality(Calls) \in Nat /\ Cardinality(Calls) <= MaxTrades
      /\ MaxTrades \in Nat
  BY BuyerAssumption, EscrowAssumption, FS_CardinalityType
<1>3. IsFiniteSet(Calls \ {c}) /\ Cardinality(Calls \ {c}) = Cardinality(Calls) - 1
  BY <1>2, FS_RemoveElement
<1>4. IsFiniteSet(Makers) /\ Cardinality(Makers) <= Cardinality(Calls) - 1
  BY <1>1, <1>3, FS_Subset
<1>5. Cardinality(Makers) \in Nat
  BY <1>4, FS_CardinalityType
<1> QED
  BY <1>2, <1>4, <1>5 DEF OneMaker

\* The transaction of a call that nothing overlapped is refused for a reason its caller sees.
LEMMA AloneLands ==
  ASSUME BuyerInv, NEW c \in Calls, Going(c), calls[c].at = "sign", calls[c].alone, ~Excused(c)
  PROVE  WouldLand(c)
<1> DEFINE o == calls[c].params.order
<1>1. CallsInv /\ TypeOK /\ nonces[Buyer] \in Nat /\ now \in Nat
  BY BuyerFacts
<1>2. /\ Sound(calls[c]) /\ Undisturbed(c) /\ calls[c].made = None /\ calls[c] \in TradeCall
      /\ o \in Orders
  BY <1>1, GoingFacts
<1>3. o \in Order
  BY <1>2, EscrowAssumption
<1>4. ValidOrder(o)
  <2>1. validateTradeParameters(calls[c].params) /\ o.ricardianHash # ZeroHash
    BY <1>2 DEF Sound, Excused
  <2> QED
    BY <1>3, <2>1 DEF validateTradeParameters, ValidOrder, Order
<1>5. Authorised(Buyer, calls[c].nonce, calls[c].deadline, Buyer)
  <2>1. calls[c].nonce = nonces[Buyer] /\ calls[c].deadline \in Nat
    BY <1>2 DEF Undisturbed, Sound
  <2>2. ~(now > calls[c].deadline)
    BY DEF Excused
  <2> QED
    BY <1>1, <2>1, <2>2 DEF Authorised
<1>6. ~paused /\ usdc[Buyer] >= o.total
  <2>1. o.total \in Nat
    BY <1>3 DEF Order
  <2>2. usdc[Buyer] \in Nat
    BY <1>1, TypeGroups, BuyerAssumption DEF MoneyTypes
  <2> QED
    BY <2>1, <2>2 DEF Excused
<1>7. tradeCounter < MaxTrades
  <2>1. c \notin Makers
    BY <1>2 DEF Makers
  <2> QED
    BY <1>1, <2>1, RoomForOneMore DEF CallsInv
<1>8. allowance >= o.total
  BY <1>2 DEF Undisturbed
<1>9. now <= LastInputTime
  BY DEF BuyerInv, InTime
<1> QED
  BY <1>4, <1>5, <1>6, <1>7, <1>8, <1>9, Zenon DEF WouldLand, AcceptsTrade, signTradeMessage

\* A refusal is the end of a call, and one that could not be foreseen takes another call.
LEMMA RefusalIsOutcome ==
  ASSUME BuyerInv, NEW c \in Calls, Going(c), calls[c].at = "sign", ~WouldLand(c)
  PROVE  Outcome(c, Refusal(c)) /\ Refusal(c).op = "createTrade" /\ Refusal(c).made = None
<1>1. CallsInv
  BY BuyerFacts
<1>2. Sound(calls[c]) /\ calls[c].made = None /\ calls[c] \in TradeCall
  BY <1>1, GoingFacts
<1>3. ~Excused(c) => ~calls[c].alone
  BY AloneLands
<1>4. ASSUME NEW answer \in {"excused", "refused"}, answer = "refused" => ~calls[c].alone
      PROVE  LET call == [calls[c] EXCEPT !.answer = answer, !.sent = "none"]
             IN  Outcome(c, call) /\ call.op = "createTrade" /\ call.made = None
  <2> DEFINE call == [calls[c] EXCEPT !.answer = answer, !.sent = "none"]
  <2>1. call \in TradeCall /\ call.op = "createTrade" /\ call.made = None
    BY <1>2 DEF TradeCall
  <2>2. call.answer = answer /\ call.sent = "none" /\ answer # None
    BY <1>2, NoneIsNone DEF TradeCall
  <2>3. Sound(call)
    BY <1>2, <1>4, NoneIsNone DEF Sound, TradeCall
  <2> QED
    BY <2>1, <2>2, <2>3 DEF Outcome
<1>5. CASE Excused(c)
  <2>1. Refusal(c) = [calls[c] EXCEPT !.answer = "excused", !.sent = "none"]
    BY <1>5 DEF Refusal
  <2> QED
    BY <1>4, <2>1
<1>6. CASE ~Excused(c)
  <2>1. Refusal(c) = [calls[c] EXCEPT !.answer = "refused", !.sent = "none"]
    BY <1>6 DEF Refusal
  <2> QED
    BY <1>3, <1>4, <1>6, <2>1
<1> QED
  BY <1>5, <1>6

LEMMA sendTradeKeeps ==
  ASSUME BuyerInv, NEW c \in Calls, sendTrade(c)
  PROVE  CallsInv'
<1>1. CallsInv /\ allowance \in Nat /\ ChainKept /\ UNCHANGED <<nonces, allowance>>
  BY BuyerFacts, IdleChain DEF sendTrade
<1>2. Going(c) /\ calls[c].answer = None /\ calls[c].at = "sign"
  BY DEF sendTrade, At, Going, Unfinished
<1>3. /\ calls[c] \in TradeCall /\ Sound(calls[c]) /\ calls[c].made = None
      /\ calls[c].alone => Undisturbed(c)
  BY <1>1, <1>2, GoingFacts
<1>4. CASE WouldLand(c) /\ Becomes(c, [calls[c] EXCEPT !.sent = "trade"])
  <2> DEFINE call == [calls[c] EXCEPT !.sent = "trade"]
  <2>1. call \in TradeCall /\ call.op = "createTrade" /\ call.made = None
    BY <1>3 DEF TradeCall
  <2>2. Outcome(c, call)
    BY <1>1, <1>2, <1>3, <2>1, NoneIsNone DEF Outcome, Sound, TradeCall, Undisturbed
  <2>3. Becomes(c, call)
    BY <1>4
  <2> HIDE DEF call
  <2> QED
    BY <1>1, <1>2, <2>1, <2>2, <2>3, TradelessStep
<1>5. CASE ~WouldLand(c) /\ Becomes(c, Refusal(c))
  BY <1>1, <1>2, <1>5, RefusalIsOutcome, TradelessStep
<1> QED
  BY <1>4, <1>5 DEF sendTrade

LEMMA readFailsKeeps ==
  ASSUME BuyerInv, NEW c \in Calls, readFails(c)
  PROVE  CallsInv'
<1> DEFINE call == [calls[c] EXCEPT !.answer = "failed"]
<1>1. CallsInv /\ allowance \in Nat /\ ChainKept /\ UNCHANGED <<nonces, allowance>>
  BY BuyerFacts, IdleChain DEF readFails
<1>2. Going(c) /\ calls[c].sent = "none"
  BY DEF readFails, Going, Unfinished
<1>3. calls[c] \in TradeCall /\ Sound(calls[c]) /\ calls[c].made = None
  BY <1>1, <1>2, GoingFacts
<1>4. Becomes(c, call)
  BY DEF readFails
<1>5. call \in TradeCall /\ call.op = "createTrade" /\ call.made = None
  BY <1>3 DEF TradeCall
<1>6. Outcome(c, call)
  BY <1>2, <1>3, <1>5, NoneIsNone DEF Outcome, Sound, TradeCall
<1> HIDE DEF call
<1> QED
  BY <1>1, <1>2, <1>4, <1>5, <1>6, TradelessStep

LEMMA receiptLostKeeps ==
  ASSUME BuyerInv, NEW c \in Calls, receiptLost(c)
  PROVE  CallsInv'
<1> DEFINE call == [calls[c] EXCEPT !.answer = "lost"]
<1>1. CallsInv /\ allowance \in Nat /\ ChainKept /\ UNCHANGED <<nonces, allowance>>
  BY BuyerFacts, IdleChain DEF receiptLost
<1>2. Going(c) /\ calls[c].sent # "none" /\ calls[c].answer = None
  BY DEF receiptLost, Going, Unfinished
<1>3. /\ calls[c] \in TradeCall /\ Sound(calls[c]) /\ calls[c].made = None
      /\ calls[c].alone => Undisturbed(c)
  BY <1>1, <1>2, GoingFacts
<1>4. Becomes(c, call)
  BY DEF receiptLost
<1>5. call \in TradeCall /\ call.op = "createTrade" /\ call.made = None
  BY <1>3 DEF TradeCall
<1>6. Outcome(c, call)
  BY <1>1, <1>2, <1>3, <1>5, NoneIsNone DEF Outcome, Sound, TradeCall, Undisturbed
<1> HIDE DEF call
<1> QED
  BY <1>1, <1>2, <1>4, <1>5, <1>6, TradelessStep

\* The trade of call c is made: its effects on the contract and on the call.
LEMMA TradeTxEffect ==
  ASSUME BuyerInv, NEW c \in Calls, Going(c), calls[c].at = "sign", TradeTx(c)
  PROVE  /\ [Next]_vars
         /\ allowance' \in Nat
         /\ calls[c].nonce = tradeCounter
         /\ tradeCounter \in TradeIds
         /\ tradeCounter' = tradeCounter + 1
         /\ nonces'[Buyer] = tradeCounter + 1
         /\ \A t \in Created : trades'[t] = trades[t]
         /\ trades'[tradeCounter].buyerAddress = Buyer
         /\ trades'[tradeCounter].totalAmountLocked = calls[c].params.order.total
         /\ trades'[tradeCounter].supplierAddress = calls[c].params.order.supplier
         /\ trades'[tradeCounter].createdAt <= calls[c].deadline
<1> DEFINE o == calls[c].params.order
           n == calls[c].nonce
           r == [status |-> "LOCKED", ricardianHash |-> o.ricardianHash,
                 buyerAddress |-> Buyer, supplierAddress |-> o.supplier,
                 totalAmountLocked |-> o.total, logisticsAmount |-> o.logistics,
                 platformFeesAmount |-> o.platformFees,
                 supplierFirstTranche |-> o.firstTranche,
                 supplierSecondTranche |-> o.secondTranche,
                 createdAt |-> now, arrivalTimestamp |-> 0]
<1>1. /\ CallsInv /\ TypeOK /\ now \in Nat /\ tradeCounter \in Nat /\ MaxTrades \in Nat
      /\ nonces[Buyer] = tradeCounter /\ allowance \in Nat
  BY BuyerFacts
<1>2. o \in Orders /\ o.total \in Nat
  BY <1>1, GoingFacts
<1>3. /\ createTrade(Buyer, o, n, calls[c].deadline, Buyer)
      /\ allowance >= o.total
      /\ allowance' = allowance - o.total
  BY Zenon DEF TradeTx, signTradeMessage
<1>4. Buyer \in Accounts /\ RecordTypes
  BY <1>1, BuyerAssumption, TypeGroups
<1>5. /\ n = nonces[Buyer] /\ now <= calls[c].deadline /\ tradeCounter < MaxTrades
      /\ nonces' = [nonces EXCEPT ![Buyer] = n + 1]
      /\ tradeCounter' = tradeCounter + 1
      /\ trades' = [trades EXCEPT ![tradeCounter] = r]
  BY <1>3, Zenon DEF createTrade, AcceptsTrade, Authorised
<1>6. [Next]_vars
  <2>1. now <= now
    BY <1>1
  <2>2. createTrade(Buyer, o, n, now, Buyer)
    BY <1>3, <2>1, Zenon DEF createTrade, AcceptsTrade, Authorised
  <2>3. n \in 0 .. MaxTrades /\ now \in {now - 1, now}
    BY <1>1, <1>5
  <2> HIDE DEF o, n
  <2> QED
    BY <1>2, <1>4, <2>2, <2>3, Zenon DEF Next
<1>7. allowance' \in Nat
  <2> HIDE DEF o
  <2> QED
    BY <1>1, <1>2, <1>3
<1>8. tradeCounter \in TradeIds
  BY <1>1, <1>5 DEF TradeIds
<1>9. nonces'[Buyer] = tradeCounter + 1
  BY <1>1, <1>4, <1>5 DEF RecordTypes
<1>10. trades'[tradeCounter] = r /\ \A t \in Created : trades'[t] = trades[t]
  <2> HIDE DEF r
  <2> QED
    BY <1>1, <1>4, <1>5, <1>8 DEF RecordTypes, Created
<1>11. /\ r.buyerAddress = Buyer /\ r.totalAmountLocked = o.total
       /\ r.supplierAddress = o.supplier /\ r.createdAt = now
  <2> HIDE DEF o
  <2> QED
    OBVIOUS
<1> HIDE DEF r
<1>12. calls[c].nonce = tradeCounter
  BY <1>1, <1>5
<1>13. /\ trades'[tradeCounter].buyerAddress = Buyer
       /\ trades'[tradeCounter].totalAmountLocked = calls[c].params.order.total
       /\ trades'[tradeCounter].supplierAddress = calls[c].params.order.supplier
       /\ trades'[tradeCounter].createdAt <= calls[c].deadline
  BY <1>5, <1>10, <1>11
<1>14. tradeCounter' = tradeCounter + 1
  BY <1>5
<1> HIDE DEF o, n
<1> QED
  BY <1>6, <1>7, <1>8, <1>9, <1>10, <1>12, <1>13, <1>14, Zenon

\* A trade that lands is the trade of one call more.
LEMMA tradeLandsKeeps ==
  ASSUME BuyerInv, NEW c \in Calls, tradeLands(c)
  PROVE  CallsInv' /\ [Next]_vars
<1>1. CallsInv /\ tradeCounter \in Nat /\ allowance \in Nat
  BY BuyerFacts
<1>2. Going(c) /\ calls[c].sent = "trade"
  BY DEF tradeLands, Going, Unfinished
<1>3. /\ calls[c] \in TradeCall /\ Sound(calls[c]) /\ calls[c].made = None /\ c \in Creations
      /\ calls[c].alone => Undisturbed(c)
  BY <1>1, <1>2, GoingFacts
<1>4. calls[c].at = "sign"
  BY <1>2, <1>3 DEF Sound
<1>5. ASSUME ~WouldLand(c), UNCHANGED vars, UNCHANGED allowance,
             Becomes(c, IF calls[c].answer = None THEN Refusal(c)
                                                ELSE [calls[c] EXCEPT !.sent = "none"])
      PROVE  CallsInv' /\ [Next]_vars
  <2>1. ChainKept /\ UNCHANGED nonces
    BY <1>5, IdleChain
  <2>2. CASE calls[c].answer = None
    BY <1>1, <1>2, <1>4, <1>5, <2>1, <2>2, RefusalIsOutcome, TradelessStep
  <2>3. CASE calls[c].answer # None
    <3> DEFINE call == [calls[c] EXCEPT !.sent = "none"]
    <3>1. call \in TradeCall /\ call.op = "createTrade" /\ call.made = None
      BY <1>3 DEF TradeCall
    <3>2. Outcome(c, call)
      BY <1>2, <1>3, <2>3, <3>1, NoneIsNone DEF Outcome, Sound, TradeCall
    <3>3. Becomes(c, call)
      BY <1>5, <2>3
    <3> HIDE DEF call
    <3> QED
      BY <1>1, <1>2, <1>5, <2>1, <3>1, <3>2, <3>3, TradelessStep
  <2> QED
    BY <2>2, <2>3
<1>6. ASSUME TradeTx(c), Becomes(c, [calls[c] EXCEPT !.answer = Landed(c), !.sent = "none",
                                                    !.made = tradeCounter])
      PROVE  CallsInv' /\ [Next]_vars
  <2> DEFINE call == [calls[c] EXCEPT !.answer = Landed(c), !.sent = "none",
                                     !.made = tradeCounter]
  <2>1. Landed(c) \in {"ok", "lost"}
    BY <1>2, <1>3 DEF Landed, Sound, TradeCall
  <2>2. /\ [Next]_vars /\ allowance' \in Nat
        /\ calls[c].nonce = tradeCounter
        /\ tradeCounter \in TradeIds
        /\ tradeCounter' = tradeCounter + 1
        /\ nonces'[Buyer] = tradeCounter + 1
        /\ \A t \in Created : trades'[t] = trades[t]
        /\ trades'[tradeCounter].buyerAddress = Buyer
        /\ trades'[tradeCounter].totalAmountLocked = calls[c].params.order.total
        /\ trades'[tradeCounter].supplierAddress = calls[c].params.order.supplier
        /\ trades'[tradeCounter].createdAt <= calls[c].deadline
    BY <1>2, <1>4, <1>6, TradeTxEffect
  <2>3. /\ call \in TradeCall /\ call.op = "createTrade" /\ call.made = tradeCounter
        /\ call.at = "sign" /\ call.answer = Landed(c) /\ call.sent = "none"
        /\ call.nonce = calls[c].nonce /\ call.deadline = calls[c].deadline
        /\ call.params = calls[c].params
    BY <1>1, <1>3, <1>4, <2>1 DEF TradeCall
  <2>5. Becomes(c, call)
    BY <1>6
  <2> HIDE DEF call
  <2>4. Sound(call)
    <3>1. calls[c].nonce \in Nat /\ calls[c].deadline \in Nat
          /\ validateTradeParameters(calls[c].params)
      BY <1>3, <1>4 DEF Sound
    <3>2. call.answer \in {"ok", "lost"} /\ call.sent = "none" /\ call.at = "sign"
      BY <2>1, <2>3
    <3>3. call.nonce \in Nat /\ call.deadline \in Nat /\ call.made # None
      BY <1>1, <2>3, <3>1, NoneIsNone
    <3>4. validateTradeParameters(call.params)
      BY <2>3, <3>1, Zenon
    <3> QED
      BY <3>2, <3>3, <3>4 DEF Sound
  <2>6. Outcome(c, call)
    BY <2>1, <2>3, <2>4, NoneIsNone DEF Outcome
  <2>7. CallTypes' /\ CallsSound' /\ AloneIsUndisturbed'
    BY <1>1, <1>2, <2>2, <2>5, <2>6, CallGoesOn DEF CallsInv, Going
  <2>8. calls'[c] = call /\ \A d \in Calls : d # c => calls'[d] = calls[d]
    BY <1>1, <2>5 DEF CallsInv, CallTypes, Becomes
  <2>9. Makers' = Makers \cup {c} /\ c \notin Makers
    <3>1. c \in Makers' /\ c \notin Makers
      BY <1>1, <1>3, <2>3, <2>8, NoneIsNone DEF Makers, Creations
    <3>2. \A d \in Calls : d # c => (d \in Makers' <=> d \in Makers)
      BY <2>8 DEF Makers, Creations
    <3> QED
      BY <3>1, <3>2 DEF Makers, Creations
  <2>10. OneMaker
    BY <1>1 DEF CallsInv
  <2>11. /\ \A t \in Created : t \in Created' /\ t # tradeCounter
         /\ \A t \in Created' : t = tradeCounter \/ t \in Created
         /\ tradeCounter \in Created'
    BY <1>1, <2>2 DEF Created, TradeIds
  <2>12. ASSUME NEW d \in Makers
         PROVE  /\ calls'[d] = calls[d] /\ MadeIt(d)'
                /\ calls[d].made # tradeCounter
    <3>1. calls'[d] = calls[d] /\ MadeIt(d)
      BY <2>8, <2>9, <2>10 DEF OneMaker, Makers, Creations
    <3> QED
      BY <2>2, <2>11, <3>1 DEF MadeIt
  <2>13. MadeIt(c)'
    BY <2>2, <2>3, <2>8, <2>11 DEF MadeIt
  <2>14. \A d, e \in Makers' : calls'[d].made = calls'[e].made => d = e
    BY <2>3, <2>8, <2>9, <2>10, <2>12 DEF OneMaker
  <2>15. \A t \in Created' : \E d \in Makers' : calls'[d].made = t
    BY <2>3, <2>8, <2>9, <2>10, <2>11, <2>12 DEF OneMaker
  <2>16. tradeCounter' = Cardinality(Makers')
    <3>1. Makers \in SUBSET Calls /\ IsFiniteSet(Calls)
      BY BuyerAssumption DEF Makers, Creations
    <3>2. IsFiniteSet(Makers)
      BY <3>1, FS_Subset
    <3>3. Cardinality(Makers \cup {c}) = Cardinality(Makers) + 1
      BY <2>9, <3>2, FS_AddElement
    <3> QED
      BY <2>2, <2>9, <2>10, <3>3 DEF OneMaker
  <2>17. OneMaker'
    BY <2>2, <2>9, <2>12, <2>13, <2>14, <2>15, <2>16 DEF OneMaker
  <2> QED
    BY <2>2, <2>7, <2>17 DEF CallsInv
<1> QED
  BY <1>5, <1>6, Zenon DEF tradeLands

LEMMA callLandsKeeps ==
  ASSUME BuyerInv, NEW c \in Calls, callLands(c)
  PROVE  CallsInv' /\ [Next]_vars
<1>1. CallsInv /\ TypeOK /\ MoneyInv /\ allowance \in Nat /\ tradeCounter \in Nat
  BY BuyerFacts DEF BuyerInv
<1>2. calls[c] \in OtherCall
  BY <1>1, CallKinds DEF callLands, CallsInv
<1>3. calls[c].trade \in Nat /\ Unfinished(c) /\ calls[c].op # "createTrade"
  BY <1>2 DEF OtherCall, Unfinished
<1>4. Untraded \/ UNCHANGED vars
  BY <1>1, <1>3, CallTxIsUntraded, Zenon DEF callLands
<1>5. ChainKept /\ [Next]_vars
  BY <1>1, <1>4, UntradedChain DEF ChainKept
<1>6. Becomes(c, NoCall) /\ UNCHANGED allowance
  BY Zenon DEF callLands
<1>7. Outcome(c, NoCall) /\ NoCall.op # "createTrade"
  BY DEF Outcome, NoCall
<1>8. CallTypes' /\ CallsSound' /\ AloneIsUndisturbed'
  BY <1>1, <1>3, <1>6, <1>7, CallGoesOn DEF CallsInv
<1>9. Makers' = Makers /\ \A d \in Makers : SameTrade(d)
  BY <1>1, <1>3, <1>6, <1>7, NoneMade DEF CallsInv
<1>10. OneMaker'
  BY <1>1, <1>5, <1>9, MakersStay DEF CallsInv
<1> QED
  BY <1>5, <1>8, <1>10 DEF CallsInv

\* A call begins on a contract that stays as it is.
LEMMA BeginKeeps ==
  ASSUME BuyerInv, NEW c \in Calls, NEW call \in TradeCall \cup OtherCall,
         call.answer = None, call.sent = "none", call.alone => Quiet,
         call.op = "createTrade" =>
           call.at = "allowance" /\ call.made = None /\ validateTradeParameters(call.params),
         Begin(c, call), UNCHANGED <<vars, allowance>>
  PROVE  CallsInv'
<1>1. CallsInv /\ tradeCounter \in Nat /\ ChainKept
  BY BuyerFacts, IdleChain
<1>2. /\ CallTypes' /\ CallsSound' /\ AloneIsUndisturbed'
      /\ Makers' = Makers /\ \A d \in Makers : SameTrade(d)
  BY <1>1, CallBegins DEF CallsInv
<1>3. OneMaker'
  BY <1>1, <1>2, MakersStay DEF CallsInv
<1> QED
  BY <1>2, <1>3 DEF CallsInv

LEMMA sdkCreateTradeKeeps ==
  ASSUME BuyerInv, NEW c \in Calls, NEW params \in Wanted, sdkCreateTrade(c, params)
  PROVE  CallsInv'
<1> DEFINE call == NewTrade(params)
<1>1. Quiet \in BOOLEAN
  BY DEF Quiet
<1>2. /\ call \in TradeCall /\ call.answer = None /\ call.sent = "none" /\ call.alone = Quiet
      /\ call.at = "allowance" /\ call.made = None /\ call.params = params
  BY <1>1 DEF NewTrade, TradeCall
<1>3. validateTradeParameters(params) /\ Begin(c, call) /\ UNCHANGED <<vars, allowance>>
  BY Zenon DEF sdkCreateTrade
<1> HIDE DEF call
<1> QED
  BY <1>2, <1>3, BeginKeeps

LEMMA sendKeeps ==
  ASSUME BuyerInv, NEW c \in Calls, NEW t \in Nat,
         NEW op \in {"openDispute", "cancelLockedTradeAfterTimeout",
                     "refundInTransitAfterTimeout", "claim"},
         send(c, op, t)
  PROVE  CallsInv'
<1> DEFINE call == [op |-> op, trade |-> t, answer |-> None, sent |-> "none", alone |-> Quiet]
<1>1. Quiet \in BOOLEAN
  BY DEF Quiet
<1>2. /\ call \in OtherCall /\ call.answer = None /\ call.sent = "none" /\ call.alone = Quiet
      /\ call.op # "createTrade"
  BY <1>1 DEF OtherCall
<1>3. Begin(c, call) /\ UNCHANGED <<vars, allowance>>
  BY Zenon DEF send
<1> HIDE DEF call
<1> QED
  BY <1>2, <1>3, BeginKeeps

LEMMA OtherCallsBegin ==
  ASSUME BuyerInv, NEW c \in Calls,
         \/ \E t \in TradeIds :
              sdkOpenDispute(c, t) \/ sdkCancelLockedTradeAfterTimeout(c, t)
              \/ sdkRefundInTransitAfterTimeout(c, t)
         \/ sdkClaim(c)
  PROVE  CallsInv' /\ UNCHANGED vars
<1>1. TradeIds \subseteq Nat
  BY EscrowAssumption DEF TradeIds
<1>2. PICK op \in {"openDispute", "cancelLockedTradeAfterTimeout",
                   "refundInTransitAfterTimeout", "claim"} : \E t \in Nat : send(c, op, t)
  BY <1>1 DEF sdkOpenDispute, sdkCancelLockedTradeAfterTimeout,
     sdkRefundInTransitAfterTimeout, sdkClaim
<1>3. PICK t \in Nat : send(c, op, t)
  BY <1>2
<1>4. CallsInv'
  BY <1>3, sendKeeps
<1>5. UNCHANGED vars
  BY <1>3, Zenon DEF send
<1> QED
  BY <1>4, <1>5

\* The others, and steps in which nothing happens, leave the calls alone.
LEMMA OthersKeep ==
  ASSUME BuyerInv, OthersStep \/ UNCHANGED vars, UNCHANGED sdkVars
  PROVE  CallsInv' /\ [Next]_vars
<1>1. CallsInv /\ MoneyInv /\ tradeCounter \in Nat
  BY BuyerFacts DEF BuyerInv
<1>2. ChainKept
  BY <1>1, OthersAreUntraded, UntradedChain
<1>3. calls' = calls /\ allowance' = allowance /\ nonces' = nonces
  BY <1>2 DEF sdkVars, ChainKept
<1>4. CallTypes' /\ CallsSound' /\ AloneIsUndisturbed'
  BY <1>1, <1>3 DEF CallsInv, CallTypes, CallsSound, AloneIsUndisturbed, Undisturbed,
     Unfinished, Creations
<1>5. Makers' = Makers /\ \A d \in Makers : SameTrade(d)
  BY <1>3 DEF Makers, Creations, SameTrade
<1>6. OneMaker'
  BY <1>1, <1>2, <1>5, MakersStay DEF CallsInv
<1> QED
  BY <1>2, <1>4, <1>6 DEF CallsInv, ChainKept

LEMMA BuyerCallsStep ==
  ASSUME BuyerInv, [SDKNext]_<<vars, sdkVars>>
  PROVE  CallsInv' /\ [Next]_vars
<1>1. ASSUME NEW c \in Calls, NEW params \in Wanted, sdkCreateTrade(c, params)
      PROVE  CallsInv' /\ UNCHANGED vars
  BY <1>1, sdkCreateTradeKeeps, Zenon DEF sdkCreateTrade
<1>2. ASSUME NEW c \in Calls,
             getUSDCAllowance(c) \/ approveUSDC(c) \/ getBuyerNonce(c) \/ sendTrade(c)
             \/ readFails(c) \/ receiptLost(c)
      PROVE  CallsInv' /\ UNCHANGED vars
  <2>1. CallsInv'
    BY <1>2, getUSDCAllowanceKeeps, approveUSDCKeeps, getBuyerNonceKeeps, sendTradeKeeps,
       readFailsKeeps, receiptLostKeeps
  <2>2. UNCHANGED vars
    BY <1>2, Zenon DEF getUSDCAllowance, approveUSDC, getBuyerNonce, sendTrade, readFails,
       receiptLost
  <2> QED
    BY <2>1, <2>2
<1>3. ASSUME NEW c \in Calls, tradeLands(c) \/ callLands(c)
      PROVE  CallsInv' /\ [Next]_vars
  BY <1>3, tradeLandsKeeps, callLandsKeeps
<1>4. BuyerStep => CallsInv' /\ [Next]_vars
  BY <1>1, <1>2, <1>3, OtherCallsBegin, Zenon DEF BuyerStep
<1>5. CASE (OthersStep /\ UNCHANGED sdkVars) \/ UNCHANGED <<vars, sdkVars>>
  BY <1>5, OthersKeep
<1> QED
  BY <1>4, <1>5 DEF SDKNext

LEMMA BuyerInvStep ==
  ASSUME BuyerInv, [SDKNext]_<<vars, sdkVars>>
  PROVE  BuyerInv'
<1>1. CallsInv' /\ [Next]_vars
  BY BuyerCallsStep
<1>2. MoneyInv'
  BY <1>1, MoneyInvStep DEF BuyerInv
<1>3. InTime'
  <2>1. /\ now \in Nat /\ now <= LastInputTime
        /\ MaxTime \in Nat /\ LastInputTime \in Nat /\ MaxTime <= LastInputTime
    BY BuyerFacts, GovernanceAssumption, EscrowAssumption, BuyerAssumption DEF BuyerInv, InTime
  <2> QED
    BY <1>1, <2>1, TimeOnlyTicks DEF InTime
<1> QED
  BY <1>1, <1>2, <1>3 DEF BuyerInv, CallsInv

LEMMA BuyerInvInit ==
  ASSUME Init, SDKInit
  PROVE  BuyerInv
<1>1. MoneyInv
  BY MoneyInvInit
<1>2. Creations = {} /\ Makers = {}
  BY DEF SDKInit, NoCall, Creations, Makers
<1>3. CallTypes
  BY BuyerAssumption DEF SDKInit, CallTypes, Call
<1>4. CallsSound /\ AloneIsUndisturbed
  BY <1>2 DEF CallsSound, AloneIsUndisturbed
<1>5. tradeCounter = 0 /\ nonces[Buyer] = 0 /\ Created = {}
  BY BuyerAssumption, EscrowAssumption DEF Init, TradeInit, Created, TradeIds
<1>6. OneMaker
  BY <1>2, <1>5, FS_EmptySet DEF OneMaker
<1>7. InTime
  BY BuyerAssumption DEF Init, GovInit, InTime
<1> QED
  BY <1>1, <1>3, <1>4, <1>6, <1>7 DEF BuyerInv

LEMMA BuyerInvariance == SDKSpec => []BuyerInv
<1>1. Init /\ SDKInit => BuyerInv
  BY BuyerInvInit
<1>2. BuyerInv /\ [SDKNext]_<<vars, sdkVars>> => BuyerInv'
  BY BuyerInvStep
<1> QED
  BY <1>1, <1>2, PTL DEF SDKSpec

LEMMA OneTradeEach ==
  ASSUME BuyerInv
  PROVE  EachCallOneTrade
<1> DEFINE made == {c \in Creations : calls[c].made # None}
<1>1. CallTypes /\ CallsSound /\ OneMaker
  BY DEF BuyerInv
<1>2. made = Makers
  BY DEF Makers
<1>3. ASSUME NEW t \in Created
      PROVE  Cardinality({c \in made : calls[c].made = t}) = 1
  <2>1. PICK c \in Makers : calls[c].made = t
    BY <1>1 DEF OneMaker
  <2>2. {d \in made : calls[d].made = t} = {c}
    BY <1>1, <1>2, <2>1 DEF OneMaker
  <2> QED
    BY <2>2, FS_Singleton
<1>4. \A c \in made :
        LET trade == trades[calls[c].made] IN
          /\ trade.buyerAddress = Buyer
          /\ trade.totalAmountLocked = calls[c].params.order.total
          /\ trade.supplierAddress = calls[c].params.order.supplier
          /\ trade.createdAt <= calls[c].deadline
  BY <1>1, <1>2 DEF OneMaker, MadeIt
<1>5. ASSUME NEW c \in Creations
      PROVE  /\ calls[c].answer = "ok" => c \in made
             /\ calls[c].answer \in {"failed", "excused", "refused"} => c \notin made
             /\ calls[c].answer = "refused" => ~calls[c].alone
  BY <1>1, <1>5 DEF CallsSound, Sound
<1>6. \A c, d \in made : c # d => calls[c].nonce # calls[d].nonce
  BY <1>1, <1>2 DEF OneMaker, MadeIt
<1>7. nonces[Buyer] = Cardinality(made)
  BY <1>1, <1>2 DEF OneMaker
<1> HIDE DEF made
<1> QED
  BY <1>3, <1>4, <1>5, <1>6, <1>7 DEF EachCallOneTrade, made

(***************************************************************************)
(* However the calls of a buyer overlap with each other and with the other *)
(* parties, and whichever receipts and reads are lost (buyerSDK.ts:89-156),*)
(* each trade in the contract is the doing of exactly one of them and has  *)
(* its terms, and a call that nothing overlapped is refused only for a     *)
(* reason its caller can see.                                              *)
(***************************************************************************)
THEOREM EachCallOneTradeHolds == SDKSpec => []EachCallOneTrade
  BY BuyerInvariance, OneTradeEach, PTL

(***************************************************************************)
(* What a buyer's application does to the contract, the other parties and  *)
(* the clock going on at each await, is a behaviour of the contract: every *)
(* property proved of Spec holds for the buyers of the SDK.                *)
(***************************************************************************)
THEOREM BuyersKeepTheContract == SDKSpec => Spec
<1>1. BuyerInv /\ [SDKNext]_<<vars, sdkVars>> => [Next]_vars
  BY BuyerCallsStep
<1> QED
  BY <1>1, BuyerInvariance, PTL DEF SDKSpec, Spec

===============================================================================
