----------------------------- MODULE FoldLemmas -----------------------------
(***************************************************************************)
(* Induction, recursive functions and folds, for the proofs about the      *)
(* components.  The installed provers cannot instantiate a theorem that    *)
(* takes an operator, so each fact is stated about sets and functions: a   *)
(* set of numbers in place of a predicate, a function in place of a step.  *)
(***************************************************************************)
EXTENDS Integers, FiniteSets, FiniteSetsExt, FiniteSetTheorems, TLAPS

-----------------------------------------------------------------------------
(* Induction *)

\* A set of natural numbers that is not empty has a lowest member.
LEMMA Lowest ==
  ASSUME NEW S, S \subseteq Nat, S # {}
  PROVE  \E m \in S : \A k \in S : m <= k
  <1> DEFINE R == OpToRel(<, Nat)
  <1>1. \E m \in S : \A k \in S : <<k, m>> \notin R
    <2>1. IsWellFoundedOn(R, Nat)
      BY NatLessThanWellFounded, Zenon
    <2> HIDE DEF R
    <2> QED BY <2>1, WFMin
  <1>2. \A k, m \in Nat : k < m => <<k, m>> \in R
    BY DEF OpToRel
  <1> HIDE DEF R
  <1>3. PICK m \in S : \A k \in S : <<k, m>> \notin R
    BY <1>1
  <1>4. \A k \in S : k \in Nat /\ m \in Nat /\ ~(k < m)
    BY <1>2, <1>3
  <1>5. \A k \in S : m <= k
    BY <1>4
  <1> QED BY <1>5

\* One that is bounded has a highest member.
LEMMA Highest ==
  ASSUME NEW S, S \subseteq Nat, S # {}, NEW n \in Nat, \A k \in S : k <= n
  PROVE  \E m \in S : \A k \in S : k <= m
  <1> DEFINE T == {n - k : k \in S}
  <1>1. T \subseteq Nat
    OBVIOUS
  <1>2. T # {}
    <2>1. PICK k \in S : TRUE
      OBVIOUS
    <2>2. n - k \in T
      BY <2>1
    <2> QED BY <2>2
  <1>3. PICK t \in T : \A u \in T : t <= u
    <2> HIDE DEF T
    <2> QED BY <1>1, <1>2, Lowest
  <1>4. PICK m \in S : t = n - m
    OBVIOUS
  <1>5. \A k \in S : n - m <= n - k
    BY <1>3, <1>4
  <1>6. \A k \in S : k \in Nat /\ m \in Nat
    OBVIOUS
  <1> HIDE DEF T
  <1> QED BY <1>4, <1>5, <1>6

\* What holds of 0, and of each k of 1 .. n if of k - 1, holds of 0 .. n.
LEMMA Induction ==
  ASSUME NEW n \in Nat, NEW P, 0 \in P, \A k \in 1 .. n : k - 1 \in P => k \in P
  PROVE  \A k \in 0 .. n : k \in P
  <1> DEFINE Bad == {k \in 0 .. n : k \notin P}
  <1>1. SUFFICES ASSUME Bad # {} PROVE FALSE
    OBVIOUS
  <1>2. PICK m \in Bad : \A k \in Bad : m <= k
    <2>1. Bad \subseteq Nat
      OBVIOUS
    <2> HIDE DEF Bad
    <2> QED BY <1>1, <2>1, Lowest
  <1>3. m \in 1 .. n /\ m - 1 \in 0 .. n
    OBVIOUS
  <1>4. m - 1 \notin Bad
    BY <1>2, <1>3
  <1> QED BY <1>3, <1>4

-----------------------------------------------------------------------------
(* Recursive functions *)

\* Functions that take a value and a member of S to the next value.
Steps(B, S) == [B \X S -> B]

\* The functions of 0 .. n that are b at 0, and at k what F makes of k - 1.
Chains(n, B, b, F) ==
  {h \in [0 .. n -> B] : h[0] = b /\ \A k \in 1 .. n : h[k] = F[<<h[k - 1], k>>]}

\* There is such a function: one can define by recursion.
LEMMA ChainExists ==
  ASSUME NEW n \in Nat, NEW B, NEW b \in B, NEW F, F \in Steps(B, 1 .. n)
  PROVE  Chains(n, B, b, F) # {}
  <1> DEFINE IsChain(h, m) == /\ h \in [0 .. m -> B] /\ h[0] = b
                              /\ \A k \in 1 .. m : h[k] = F[<<h[k - 1], k>>]
             P == {m \in 0 .. n : \E h : IsChain(h, m)}
  <1>0. F \in [B \X (1 .. n) -> B]
    BY DEF Steps
  <1>1. 0 \in P
    <2>1. IsChain([k \in 0 .. 0 |-> b], 0)
      OBVIOUS
    <2> HIDE DEF IsChain
    <2> QED BY <2>1
  <1>2. ASSUME NEW m \in 1 .. n, m - 1 \in P PROVE m \in P
    <2>1. PICK g : IsChain(g, m - 1)
      BY <1>2
    <2> DEFINE h == [k \in 0 .. m |-> IF k = m THEN F[<<g[m - 1], m>>] ELSE g[k]]
    <2>2. g[m - 1] \in B
      BY <2>1
    <2>3. h \in [0 .. m -> B] /\ h[0] = b
      BY <1>0, <2>1, <2>2
    <2>4. ASSUME NEW k \in 1 .. m PROVE h[k] = F[<<h[k - 1], k>>]
      <3>1. k - 1 \in 0 .. m /\ k - 1 # m /\ h[k - 1] = g[k - 1]
        OBVIOUS
      <3>2. CASE k = m
        BY <3>1, <3>2
      <3>3. CASE k # m
        <4>1. k \in 1 .. (m - 1)
          BY <3>3
        <4> QED BY <2>1, <3>1, <3>3, <4>1
      <3> QED BY <3>2, <3>3
    <2>5. IsChain(h, m)
      BY <2>3, <2>4
    <2> HIDE DEF IsChain, h
    <2> QED BY <2>5
  <1>3. n \in P
    <2> HIDE DEF P
    <2> QED BY <1>1, <1>2, Induction
  <1>4. PICK h : IsChain(h, n)
    BY <1>3
  <1>5. h \in Chains(n, B, b, F)
    BY <1>4 DEF Chains
  <1> QED BY <1>5

\* The functions of the subsets of S that are b at {}, and at s what F makes of s
\* without its member c[s].
FoldsOf(S, c, B, b, F) ==
  {g \in [SUBSET S -> B] : \A s \in SUBSET S :
     g[s] = IF s = {} THEN b ELSE F[<<g[s \ {c[s]}], c[s]>>]}

Chooses(c, S) == \A s \in SUBSET S : s # {} => c[s] \in s

\* There is such a function for every finite S.
LEMMA FoldExists ==
  ASSUME NEW S, IsFiniteSet(S), NEW c, Chooses(c, S),
         NEW B, NEW b \in B, NEW F, F \in Steps(B, S)
  PROVE  FoldsOf(S, c, B, b, F) # {}
  <1> DEFINE Small(n) == {s \in SUBSET S : Cardinality(s) <= n}
             IsFold(g, n) == /\ g \in [Small(n) -> B]
                             /\ \A s \in Small(n) :
                                  g[s] = IF s = {} THEN b ELSE F[<<g[s \ {c[s]}], c[s]>>]
             N == Cardinality(S)
             P == {n \in 0 .. N : \E g : IsFold(g, n)}
  <1> USE DEF Chooses
  <1>a. F \in [B \X S -> B]
    BY DEF Steps
  <1>0. N \in Nat
    BY FS_CardinalityType
  <1>1. \A s \in SUBSET S : Cardinality(s) \in 0 .. N /\ (Cardinality(s) = 0 <=> s = {})
    <2>1. \A s \in SUBSET S : IsFiniteSet(s) /\ Cardinality(s) <= N
      BY FS_Subset
    <2>2. \A s \in SUBSET S : Cardinality(s) \in Nat /\ (Cardinality(s) = 0 <=> s = {})
      BY <2>1, FS_CardinalityType, FS_EmptySet
    <2> HIDE DEF N
    <2> QED BY <1>0, <2>1, <2>2
  <1>2. \A s \in SUBSET S : s # {} =>
          /\ s \ {c[s]} \in SUBSET S /\ c[s] \in S
          /\ Cardinality(s \ {c[s]}) = Cardinality(s) - 1
    <2>1. ASSUME NEW s \in SUBSET S, s # {} PROVE Cardinality(s \ {c[s]}) = Cardinality(s) - 1
      <3>1. IsFiniteSet(s) /\ c[s] \in s
        BY <2>1, FS_Subset
      <3> QED BY <3>1, FS_RemoveElement
    <2> QED BY <2>1
  <1> HIDE DEF N
  <1>3. 0 \in P
    <2> DEFINE g == [s \in Small(0) |-> b]
    <2>1. \A s \in Small(0) : s = {}
      BY <1>0, <1>1
    <2>2. IsFold(g, 0)
      BY <2>1
    <2> HIDE DEF IsFold, g
    <2> QED BY <1>0, <2>2
  <1>4. ASSUME NEW m \in 1 .. N, m - 1 \in P PROVE m \in P
    <2>1. PICK h : IsFold(h, m - 1)
      BY <1>4
    <2> DEFINE g == [s \in Small(m) |-> IF s = {} THEN b ELSE F[<<h[s \ {c[s]}], c[s]>>]]
    <2>2. \A s \in Small(m) : s # {} => s \ {c[s]} \in Small(m - 1) /\ c[s] \in S
      <3> SUFFICES ASSUME NEW s \in Small(m), s # {}
                   PROVE  s \ {c[s]} \in Small(m - 1) /\ c[s] \in S
        OBVIOUS
      <3>1. Cardinality(s) \in 0 .. N /\ Cardinality(s) <= m
        BY <1>1
      <3>2. /\ s \ {c[s]} \in SUBSET S /\ c[s] \in S
            /\ Cardinality(s \ {c[s]}) = Cardinality(s) - 1
        BY <1>2
      <3>3. Cardinality(s \ {c[s]}) <= m - 1
        BY <1>0, <3>1, <3>2
      <3> QED BY <3>2, <3>3
    <2>3. Small(m - 1) \subseteq Small(m)
      <3>1. \A x \in 0 .. N : x <= m - 1 => x <= m
        BY <1>0
      <3> QED BY <1>1, <3>1
    <2>4. g \in [Small(m) -> B]
      <3> HIDE DEF Small
      <3> QED BY <1>a, <2>1, <2>2
    <2>5. \A s \in Small(m - 1) : g[s] = h[s]
      <3> HIDE DEF Small
      <3> QED BY <2>1, <2>3
    <2>6. \A s \in Small(m) : g[s] = IF s = {} THEN b ELSE F[<<g[s \ {c[s]}], c[s]>>]
      <3> HIDE DEF Small
      <3> QED BY <2>2, <2>5
    <2>7. IsFold(g, m)
      <3> HIDE DEF g, Small
      <3> QED BY <2>4, <2>6
    <2> HIDE DEF IsFold, g
    <2> QED BY <1>0, <2>7
  <1>5. Small(N) = SUBSET S
    <2>1. \A x \in 0 .. N : x <= N
      BY <1>0
    <2> QED BY <1>1, <2>1
  <1>6. N \in P
    <2> HIDE DEF P
    <2> QED BY <1>0, <1>3, <1>4, Induction
  <1>7. PICK g : IsFold(g, N)
    BY <1>6
  <1>8. g \in FoldsOf(S, c, B, b, F)
    <2> HIDE DEF Small
    <2> QED BY <1>5, <1>7 DEF FoldsOf
  <1> QED BY <1>8

-----------------------------------------------------------------------------
(* FoldLeft goes through the subsets 1 .. k of the domain of a list *)

MaxOf(n) == [s \in SUBSET (1 .. n) |-> Max(s)]

\* The member that is taken out of 1 .. k is k.
LEMMA MaxChooses ==
  ASSUME NEW n \in Nat
  PROVE  /\ Chooses(MaxOf(n), 1 .. n) /\ IsFiniteSet(1 .. n)
         /\ \A k \in 1 .. n : 1 .. k \in SUBSET (1 .. n) /\ Max(1 .. k) = k
                              /\ (1 .. k) \ {k} = 1 .. (k - 1) /\ 1 .. k # {}
         /\ 1 .. 0 = {}
  <1>1. ASSUME NEW s \in SUBSET (1 .. n), s # {} PROVE Max(s) \in s
    <2>1. s \subseteq Nat /\ \A k \in s : k <= n
      OBVIOUS
    <2>2. PICK m \in s : \A k \in s : k <= m
      BY <1>1, <2>1, Highest
    <2>3. \A k \in s : m >= k
      BY <2>1, <2>2
    <2> QED BY <2>3 DEF Max
  <1>2. Chooses(MaxOf(n), 1 .. n)
    BY <1>1 DEF Chooses, MaxOf
  <1>3. ASSUME NEW k \in 1 .. n PROVE Max(1 .. k) = k
    <2> DEFINE Top(x) == x \in 1 .. k /\ \A y \in 1 .. k : x >= y
    <2>1. Top(k)
      OBVIOUS
    <2>2. \A x : Top(x) => x = k
      OBVIOUS
    <2>3. Max(1 .. k) = CHOOSE x : Top(x)
      BY DEF Max
    <2> HIDE DEF Top
    <2> QED BY <2>1, <2>2, <2>3
  <1>4. IsFiniteSet(1 .. n)
    BY FS_Interval
  <1>5. \A k \in 1 .. n : /\ 1 .. k \in SUBSET (1 .. n)
                          /\ (1 .. k) \ {k} = 1 .. (k - 1) /\ 1 .. k # {}
    OBVIOUS
  <1> QED BY <1>2, <1>3, <1>4, <1>5

LEMMA Intervals ==
  ASSUME NEW n \in Nat
  PROVE  \A k \in 1 .. n : /\ 1 .. k \in SUBSET (1 .. n) /\ Max(1 .. k) = k
                           /\ (1 .. k) \ {k} = 1 .. (k - 1) /\ 1 .. k # {}
  BY MaxChooses

\* The values of a fold at 1 .. k are a chain.
LEMMA FoldIsChain ==
  ASSUME NEW n \in Nat, NEW B, NEW b \in B, NEW F, F \in Steps(B, 1 .. n), NEW it,
         it[{}] = b,
         \A k \in 1 .. n : it[1 .. (k - 1)] \in B => it[1 .. k] = F[<<it[1 .. (k - 1)], k>>]
  PROVE  \E h \in Chains(n, B, b, F) : h[n] = it[1 .. n]
  <1> DEFINE h == [k \in 0 .. n |-> it[1 .. k]]
             P == {k \in 0 .. n : it[1 .. k] \in B}
  <1>1. 1 .. 0 = {}
    OBVIOUS
  <1>2. 0 \in P
    BY <1>1
  <1>3. ASSUME NEW k \in 1 .. n, k - 1 \in P PROVE k \in P
    <2>1. it[1 .. (k - 1)] \in B
      BY <1>3
    <2>2. F[<<it[1 .. (k - 1)], k>>] \in B
      BY <2>1 DEF Steps
    <2>3. it[1 .. k] \in B
      BY <2>1, <2>2
    <2> QED BY <2>3
  <1>4. \A k \in 0 .. n : k \in P
    <2> HIDE DEF P
    <2> QED BY <1>2, <1>3, Induction
  <1>5. h \in [0 .. n -> B] /\ h[0] = b
    BY <1>1, <1>4
  <1>6. ASSUME NEW k \in 1 .. n PROVE h[k] = F[<<h[k - 1], k>>]
    <2>1. k - 1 \in 0 .. n /\ k \in 0 .. n
      OBVIOUS
    <2> QED BY <1>4, <2>1
  <1>7. h \in Chains(n, B, b, F)
    BY <1>5, <1>6 DEF Chains
  <1> QED BY <1>7

\* g goes through a list of length n, from the first entry to the last.
GoesThrough(g, n, B, b, F) ==
  /\ g = [s \in SUBSET (1 .. n) |-> g[s]]
  /\ \A s \in SUBSET (1 .. n) :
       /\ g[s] = IF s = {} THEN b ELSE F[<<g[s \ {Max(s)}], Max(s)>>]
       /\ s # {} => Max(s) \in 1 .. n /\ g[s \ {Max(s)}] \in B

\* Every list can be gone through.
LEMMA LeftFoldExists ==
  ASSUME NEW n \in Nat, NEW B, NEW b \in B, NEW F, F \in Steps(B, 1 .. n)
  PROVE  \E g : GoesThrough(g, n, B, b, F)
  <1> DEFINE c == MaxOf(n)
  <1>1. Chooses(c, 1 .. n) /\ IsFiniteSet(1 .. n)
    BY MaxChooses
  <1>2. \A s \in SUBSET (1 .. n) : c[s] = Max(s)
    BY DEF MaxOf
  <1> HIDE DEF c
  <1>3. PICK g : g \in FoldsOf(1 .. n, c, B, b, F)
    BY <1>1, FoldExists
  <1>4. /\ g \in [SUBSET (1 .. n) -> B]
        /\ \A s \in SUBSET (1 .. n) : g[s] = IF s = {} THEN b ELSE F[<<g[s \ {c[s]}], c[s]>>]
    BY <1>3 DEF FoldsOf
  <1>5. \A s \in SUBSET (1 .. n) : s # {} => c[s] \in 1 .. n /\ s \ {c[s]} \in SUBSET (1 .. n)
    BY <1>1 DEF Chooses
  <1>6. ASSUME NEW s \in SUBSET (1 .. n)
        PROVE  /\ g[s] = IF s = {} THEN b ELSE F[<<g[s \ {Max(s)}], Max(s)>>]
               /\ s # {} => Max(s) \in 1 .. n /\ g[s \ {Max(s)}] \in B
    BY <1>2, <1>4, <1>5
  <1>7. g = [s \in SUBSET (1 .. n) |-> g[s]]
    BY <1>4
  <1> QED BY <1>6, <1>7 DEF GoesThrough

\* A list none of whose entries leads out of B does not.
Follows(it, n, B, b, F) ==
  /\ it[{}] = b
  /\ \A k \in 1 .. n : it[1 .. (k - 1)] \in B => it[1 .. k] = F[<<it[1 .. (k - 1)], k>>]

LEMMA LeftFoldStays ==
  ASSUME NEW n \in Nat, NEW B, NEW b \in B, NEW F, F \in Steps(B, 1 .. n),
         NEW it, Follows(it, n, B, b, F)
  PROVE  it[1 .. n] \in B
  <1>1. /\ it[{}] = b
        /\ \A k \in 1 .. n : it[1 .. (k - 1)] \in B => it[1 .. k] = F[<<it[1 .. (k - 1)], k>>]
    BY DEF Follows
  <1>2. PICK h \in Chains(n, B, b, F) : h[n] = it[1 .. n]
    BY <1>1, FoldIsChain
  <1> QED BY <1>2 DEF Chains

-----------------------------------------------------------------------------
(* Sums *)

AnyOf(S) == [s \in SUBSET S |-> CHOOSE x \in s : TRUE]

LEMMA AnyChooses == ASSUME NEW S PROVE Chooses(AnyOf(S), S)
  BY DEF Chooses, AnyOf

\* The sums of w over the subsets of S, adding up in any order.
SumsOf(S, w) ==
  {g \in [SUBSET S -> Nat] : \A s \in SUBSET S :
     g[s] = IF s = {} THEN 0 ELSE g[s \ {AnyOf(S)[s]}] + w[AnyOf(S)[s]]}

\* A finite set has a sum.
LEMMA SumExists ==
  ASSUME NEW S, IsFiniteSet(S), NEW w \in [S -> Nat]
  PROVE  SumsOf(S, w) # {}
  <1> DEFINE F == [x \in Nat \X S |-> x[1] + w[x[2]]]
             c == AnyOf(S)
  <1>1. F \in Steps(Nat, S)
    BY DEF Steps
  <1>2. Chooses(c, S)
    BY AnyChooses
  <1>3. PICK g : g \in FoldsOf(S, c, Nat, 0, F)
    <2> HIDE DEF F, c
    <2> QED BY <1>1, <1>2, FoldExists
  <1>4. ASSUME NEW s \in SUBSET S, s # {} PROVE g[s] = g[s \ {c[s]}] + w[c[s]]
    <2>1. c[s] \in S /\ s \ {c[s]} \in SUBSET S
      BY <1>2, <1>4 DEF Chooses
    <2>2. g[s \ {c[s]}] \in Nat
      BY <1>3, <2>1 DEF FoldsOf
    <2> HIDE DEF c
    <2>3. g[s] = F[<<g[s \ {c[s]}], c[s]>>]
      BY <1>3, <1>4 DEF FoldsOf
    <2> QED BY <2>1, <2>2, <2>3
  <1>5. g \in SumsOf(S, w)
    <2> HIDE DEF F
    <2> QED BY <1>3, <1>4 DEF FoldsOf, SumsOf
  <1> QED BY <1>5

\* What adds up step by step is a sum.
LEMMA SumIs ==
  ASSUME NEW S, IsFiniteSet(S), NEW w \in [S -> Nat], NEW it, it[{}] = 0,
         \A s \in SUBSET S : s # {} => it[s] = it[s \ {AnyOf(S)[s]}] + w[AnyOf(S)[s]]
  PROVE  \E g \in SumsOf(S, w) : g[S] = it[S]
  <1>1. PICK g : g \in SumsOf(S, w)
    BY SumExists
  <1> DEFINE Order == StrictSubsetOrdering(S)
             Bad == {u \in SUBSET S : g[u] # it[u]}
  <1>2. SUFFICES ASSUME Bad # {} PROVE FALSE
    BY <1>1
  <1>3. \E u \in Bad : \A v \in Bad : <<v, u>> \notin Order
    <2>1. FiniteSubsetsOf(S) = SUBSET S
      BY FS_FiniteSubsetsOfFinite
    <2>2. IsWellFoundedOn(Order, SUBSET S)
      BY <2>1, FS_StrictSubsetOrderingWellFounded
    <2>3. Bad \subseteq SUBSET S
      OBVIOUS
    <2> HIDE DEF Bad, Order
    <2> QED BY <1>2, <2>2, <2>3, WFMin
  <1>4. PICK u \in Bad : \A v \in Bad : <<v, u>> \notin Order
    BY <1>3
  <1>5. u \in SUBSET S /\ u # {}
    BY <1>1 DEF SumsOf
  <1> DEFINE a == AnyOf(S)[u]
  <1>6. a \in u
    BY <1>5, AnyChooses DEF Chooses
  <1>7. u \ {a} \notin Bad /\ u \ {a} \in SUBSET S
    <2>1. u \ {a} \in SUBSET S /\ u \ {a} \subseteq u /\ u \ {a} # u
      BY <1>5, <1>6
    <2> HIDE DEF Bad, a
    <2>2. <<u \ {a}, u>> \in Order
      BY <1>5, <2>1 DEF StrictSubsetOrdering
    <2> HIDE DEF Order
    <2> QED BY <1>4, <2>1, <2>2
  <1>8. g[u] = g[u \ {a}] + w[a]
    BY <1>1, <1>5 DEF SumsOf
  <1>9. it[u] = it[u \ {a}] + w[a]
    BY <1>5
  <1> QED BY <1>7, <1>8, <1>9

\* Any member of a set can be added last.
LEMMA SumTakesOut ==
  ASSUME NEW S, IsFiniteSet(S), NEW w \in [S -> Nat], NEW g \in SumsOf(S, w),
         NEW s \in SUBSET S, NEW x \in s
  PROVE  g[s] = g[s \ {x}] + w[x]
  <1> DEFINE Order == StrictSubsetOrdering(S)
             Bad == {u \in SUBSET S : \E y \in u : g[u] # g[u \ {y}] + w[y]}
  <1>1. SUFFICES ASSUME Bad # {} PROVE FALSE
    OBVIOUS
  <1>2. \E u \in Bad : \A v \in Bad : <<v, u>> \notin Order
    <2>1. FiniteSubsetsOf(S) = SUBSET S
      BY FS_FiniteSubsetsOfFinite
    <2>2. IsWellFoundedOn(Order, SUBSET S)
      BY <2>1, FS_StrictSubsetOrderingWellFounded
    <2>3. Bad \subseteq SUBSET S
      OBVIOUS
    <2> HIDE DEF Bad, Order
    <2> QED BY <1>1, <2>2, <2>3, WFMin
  <1>3. PICK u \in Bad : \A v \in Bad : <<v, u>> \notin Order
    BY <1>2
  <1>4. PICK y \in u : g[u] # g[u \ {y}] + w[y]
    OBVIOUS
  <1> DEFINE a == AnyOf(S)[u]
  <1>5. u \in SUBSET S /\ u # {} /\ a \in u
    BY <1>4, AnyChooses DEF Chooses
  <1>6. g[u] = g[u \ {a}] + w[a]
    BY <1>5 DEF SumsOf
  <1>7. a # y
    BY <1>4, <1>6
  <1>8. \A v \in SUBSET u : v # u => v \notin Bad
    BY <1>3, <1>5 DEF StrictSubsetOrdering
  <1>9. g[u \ {a}] = g[(u \ {a}) \ {y}] + w[y]
    <2>1. u \ {a} \notin Bad /\ y \in u \ {a} /\ u \ {a} \in SUBSET S
      BY <1>5, <1>7, <1>8
    <2> QED BY <2>1
  <1>10. g[u \ {y}] = g[(u \ {y}) \ {a}] + w[a]
    <2>1. u \ {y} \notin Bad /\ a \in u \ {y} /\ u \ {y} \in SUBSET S
      BY <1>5, <1>7, <1>8
    <2> QED BY <2>1
  <1>11. (u \ {a}) \ {y} = (u \ {y}) \ {a}
    OBVIOUS
  <1>12. /\ g[(u \ {a}) \ {y}] \in Nat /\ w[a] \in Nat /\ w[y] \in Nat
    <2>1. (u \ {a}) \ {y} \in SUBSET S
      BY <1>5
    <2>2. g \in [SUBSET S -> Nat]
      BY DEF SumsOf
    <2> QED BY <1>5, <2>1, <2>2
  <1>13. /\ g[(u \ {a}) \ {y}] + w[y] + w[a] = g[(u \ {a}) \ {y}] + w[a] + w[y]
    <2> HIDE DEF a, Bad
    <2> QED BY <1>12
  <1>14. g[u] = (g[(u \ {a}) \ {y}] + w[y]) + w[a]
    BY <1>6, <1>9
  <1>15. g[u \ {y}] = g[(u \ {a}) \ {y}] + w[a]
    BY <1>10, <1>11
  <1> HIDE DEF a, Bad
  <1> QED BY <1>4, <1>13, <1>14, <1>15

\* Where two functions agree, so do their sums.
LEMMA SumsAgree ==
  ASSUME NEW S, IsFiniteSet(S), NEW v \in [S -> Nat], NEW g \in SumsOf(S, v),
         NEW T, IsFiniteSet(T), NEW w \in [T -> Nat], NEW h \in SumsOf(T, w),
         NEW s \in SUBSET (S \cap T), \A x \in s : v[x] = w[x]
  PROVE  g[s] = h[s]
  <1> DEFINE Order == StrictSubsetOrdering(s)
             Bad == {u \in SUBSET s : g[u] # h[u]}
  <1>0. IsFiniteSet(s)
    BY FS_Subset
  <1>1. SUFFICES ASSUME Bad # {} PROVE FALSE
    OBVIOUS
  <1>2. \E u \in Bad : \A t \in Bad : <<t, u>> \notin Order
    <2>1. FiniteSubsetsOf(s) = SUBSET s
      BY <1>0, FS_FiniteSubsetsOfFinite
    <2>2. IsWellFoundedOn(Order, SUBSET s)
      BY <2>1, FS_StrictSubsetOrderingWellFounded
    <2>3. Bad \subseteq SUBSET s
      OBVIOUS
    <2> HIDE DEF Bad, Order
    <2> QED BY <1>1, <2>2, <2>3, WFMin
  <1>3. PICK u \in Bad : \A t \in Bad : <<t, u>> \notin Order
    BY <1>2
  <1>4. u # {}
    BY DEF SumsOf
  <1>5. PICK x \in u : TRUE
    BY <1>4
  <1>6. u \ {x} \in SUBSET s /\ u \ {x} # u /\ u \in SUBSET s
    BY <1>5
  <1>7. g[u \ {x}] = h[u \ {x}]
    BY <1>3, <1>6 DEF StrictSubsetOrdering
  <1>8. g[u] = g[u \ {x}] + v[x] /\ h[u] = h[u \ {x}] + w[x]
    BY <1>5, <1>6, SumTakesOut
  <1> QED BY <1>5, <1>6, <1>7, <1>8

\* A new member adds what it weighs.
LEMMA SumGrows ==
  ASSUME NEW S, IsFiniteSet(S), NEW v \in [S -> Nat], NEW g \in SumsOf(S, v),
         NEW T, NEW w \in [T -> Nat], NEW h \in SumsOf(T, w),
         NEW x, x \notin S, T = S \cup {x}, \A y \in S : v[y] = w[y]
  PROVE  h[T] = g[S] + w[x]
  <1>1. IsFiniteSet(T)
    BY FS_AddElement
  <1>2. x \in T /\ T \in SUBSET T /\ T \ {x} = S /\ S \in SUBSET (S \cap T)
    OBVIOUS
  <1>3. h[T] = h[T \ {x}] + w[x]
    BY <1>1, <1>2, SumTakesOut
  <1>4. g[S] = h[S]
    BY <1>1, <1>2, SumsAgree
  <1> QED BY <1>2, <1>3, <1>4

\* Where one member comes to weigh something else, so much is the sum another.
LEMMA SumChanges ==
  ASSUME NEW S, IsFiniteSet(S), NEW v \in [S -> Nat], NEW g \in SumsOf(S, v),
         NEW w \in [S -> Nat], NEW h \in SumsOf(S, w), NEW x \in S,
         \A y \in S \ {x} : v[y] = w[y]
  PROVE  h[S] + v[x] = g[S] + w[x]
  <1>1. S \in SUBSET S /\ S \ {x} \in SUBSET (S \cap S) /\ S \ {x} \in SUBSET S
    OBVIOUS
  <1>2. g[S] = g[S \ {x}] + v[x] /\ h[S] = h[S \ {x}] + w[x]
    BY <1>1, SumTakesOut
  <1>3. g[S \ {x}] = h[S \ {x}]
    BY <1>1, SumsAgree
  <1>4. g[S \ {x}] \in Nat /\ v[x] \in Nat /\ w[x] \in Nat
    BY <1>1 DEF SumsOf
  <1> QED BY <1>2, <1>3, <1>4
=============================================================================
