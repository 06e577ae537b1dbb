--------------------------- MODULE Positions_proofs ----------------------------
(***************************************************************************)
(* Facts about sets of positions in a sequence, and induction over them:   *)
(* what the proofs about the reassembly (Defrag_proofs), the calls that    *)
(* use it (SndRcv_proofs), the tone map (Tonemap_proofs), the list of      *)
(* interfaces (Command_proofs) and the members of a document               *)
(* (ConfFile_proofs) have in common.                                       *)
(***************************************************************************)
EXTENDS Integers, FiniteSetTheorems, FunctionTheorems, TLAPS

-----------------------------------------------------------------------------
(* Counting the members of a set of positions.                             *)

\* A set of natural numbers that is not empty has a least member.
LEMMA LeastExists ==
    ASSUME NEW S \in SUBSET Nat, S # {}
    PROVE  \E least \in S : \A n \in S : least <= n
  <1> DEFINE below == {0..n : n \in S}
  <1>1. below \subseteq FiniteSubsetsOf(Nat)
    <2> SUFFICES ASSUME NEW n \in Nat PROVE 0..n \in FiniteSubsetsOf(Nat)
      OBVIOUS
    <2>1. IsFiniteSet(0..n)
      BY FS_Interval
    <2>2. 0..n \in SUBSET Nat
      OBVIOUS
    <2> QED BY <2>1, <2>2 DEF FiniteSubsetsOf
  <1>2. IsWellFoundedOn(StrictSubsetOrdering(Nat), FiniteSubsetsOf(Nat))
    BY FS_StrictSubsetOrderingWellFounded
  <1>3. PICK x \in below :
            \A y \in below : <<y, x>> \notin StrictSubsetOrdering(Nat)
    <2>1. below # {}
      OBVIOUS
    <2> HIDE DEF below
    <2> QED BY <1>1, <1>2, <2>1, WFMin
  <1>4. PICK least \in S : x = 0..least
    OBVIOUS
  <1>5. ASSUME NEW n \in S, n < least PROVE FALSE
    <2>1. 0..n \subseteq 0..least /\ 0..n # 0..least
      <3>1. least \in 0..least /\ least \notin 0..n
        BY <1>5
      <3> QED BY <1>5, <3>1
    <2>2. <<0..n, x>> \in StrictSubsetOrdering(Nat)
      BY <1>4, <2>1 DEF StrictSubsetOrdering
    <2> QED BY <1>3, <1>5, <2>2
  <1> QED BY <1>4, <1>5

\* Induction up to n, over a set.
LEMMA SetInduction ==
    ASSUME NEW n \in Nat, NEW S, 0 \in S,
           \A m \in 0..(n - 1) : m \in S => m + 1 \in S
    PROVE  0..n \subseteq S
  <1> DEFINE left == {m \in 0..n : m \notin S}
  <1> SUFFICES ASSUME left # {} PROVE FALSE
    OBVIOUS
  <1>1. left \in SUBSET Nat
    OBVIOUS
  <1> HIDE DEF left
  <1>2. PICK least \in left : \A m \in left : least <= m
    BY <1>1, LeastExists
  <1>3. least \in 0..n /\ least \notin S
    BY <1>2 DEF left
  <1>4. least - 1 \in 0..(n - 1)
    BY <1>3
  <1>5. least - 1 \notin left
    BY <1>2, <1>3, <1>4
  <1>6. least - 1 \in S /\ (least - 1) + 1 = least
    BY <1>4, <1>5 DEF left
  <1> QED BY <1>3, <1>4, <1>6

\* The members of an increasing sequence, and those below one of them, are as
\* many as their places say.
LEMMA IncreasingCount ==
    ASSUME NEW n \in Nat, NEW g \in [1..n -> Nat],
           \A k, l \in 1..n : k < l => g[k] < g[l],
           NEW S, S = {g[k] : k \in 1..n}
    PROVE  /\ IsFiniteSet(S) /\ Cardinality(S) = n
           /\ \A k \in 1..n : Cardinality({i \in S : i < g[k]}) = k - 1
  <1>1. \A k, l \in 1..n : g[k] = g[l] => k = l
    OBVIOUS
  <1>2. \A m \in 0..n : Cardinality({g[k] : k \in 1..m}) = m
    <2> SUFFICES ASSUME NEW m \in 0..n
                 PROVE  Cardinality({g[k] : k \in 1..m}) = m
      OBVIOUS
    <2> DEFINE T == {g[k] : k \in 1..m}
               f == [k \in 1..m |-> g[k]]
    <2>1. f \in [1..m -> T]
      OBVIOUS
    <2>2. \A k, l \in 1..m : f[k] = f[l] => k = l
      BY <1>1
    <2>3. \A t \in T : \E k \in 1..m : f[k] = t
      OBVIOUS
    <2> HIDE DEF T, f
    <2>4. f \in Bijection(1..m, T)
      BY <2>1, <2>2, <2>3, Fun_IsBij
    <2>5. ExistsBijection(1..m, T)
      BY <2>4, Fun_ExistsBij
    <2>6. Cardinality(T) = m
      BY <2>5, FS_CountingElements
    <2> QED BY <2>6 DEF T
  <1>3. IsFiniteSet(S)
    <2>1. g \in [1..n -> S] /\ \A t \in S : \E k \in 1..n : g[k] = t
      OBVIOUS
    <2>2. g \in Surjection(1..n, S)
      BY <2>1, Fun_IsSurj
    <2>3. IsFiniteSet(1..n)
      BY FS_Interval
    <2> QED BY <2>2, <2>3, FS_Surjection
  <1>4. ASSUME NEW k \in 1..n
        PROVE  {i \in S : i < g[k]} = {g[l] : l \in 1..(k - 1)}
    <2>1. \A l \in 1..n : g[l] < g[k] => l < k
      OBVIOUS
    <2> QED BY <2>1
  <1>5. Cardinality(S) = n
    BY <1>2
  <1>6. ASSUME NEW k \in 1..n
        PROVE  Cardinality({i \in S : i < g[k]}) = k - 1
    <2>1. k - 1 \in 0..n
      OBVIOUS
    <2> QED BY <1>2, <1>4, <2>1
  <1> QED BY <1>3, <1>5, <1>6
\* As many numbers start from 0 as the first one left out says.
LEMMA InitialSegment ==
    ASSUME NEW n \in Nat
    PROVE  IsFiniteSet(0..(n - 1)) /\ Cardinality(0..(n - 1)) = n
  <1>1. 0 \in Int /\ n - 1 \in Int
    OBVIOUS
  <1>2. /\ IsFiniteSet(0..(n - 1))
        /\ Cardinality(0..(n - 1)) = IF 0 > n - 1 THEN 0 ELSE (n - 1) - 0 + 1
    BY <1>1, FS_Interval
  <1> QED BY <1>2

\* The rank of a member: how many come before it.
Rank(G, j) == Cardinality({k \in G : k < j})

\* Members that follow each other have ranks that do, below the cardinality.
LEMMA RanksIncrease ==
    ASSUME NEW G \in SUBSET Nat, IsFiniteSet(G)
    PROVE  /\ \A j \in G : Rank(G, j) \in 0..(Cardinality(G) - 1)
           /\ \A j, l \in G : j < l => Rank(G, j) < Rank(G, l)
  <1>1. ASSUME NEW j \in G
        PROVE  /\ IsFiniteSet({k \in G : k < j})
               /\ Rank(G, j) \in Nat
               /\ Rank(G, j) < Cardinality(G)
    <2>1. /\ IsFiniteSet({k \in G : k < j})
          /\ Cardinality({k \in G : k < j}) <= Cardinality(G)
          /\ Cardinality({k \in G : k < j}) = Cardinality(G) =>
                G = {k \in G : k < j}
      BY FS_Subset
    <2>2. G # {k \in G : k < j}
      OBVIOUS
    <2>3. Cardinality({k \in G : k < j}) \in Nat /\ Cardinality(G) \in Nat
      BY <2>1, FS_CardinalityType
    <2> QED BY <2>1, <2>2, <2>3 DEF Rank
  <1>2. ASSUME NEW j \in G, NEW l \in G, j < l
        PROVE  Rank(G, j) < Rank(G, l)
    <2>1. {k \in G : k < j} \subseteq {k \in G : k < l}
      <3>1. \A k \in G : k < j => k < l
        BY <1>2
      <3> QED BY <3>1
    <2>2. {k \in G : k < j} # {k \in G : k < l}
      BY <1>2
    <2>3. IsFiniteSet({k \in G : k < l})
      BY <1>1
    <2> DEFINE low == {k \in G : k < j}
               high == {k \in G : k < l}
    <2>4. low \in SUBSET high /\ low # high /\ IsFiniteSet(high)
      BY <2>1, <2>2, <2>3
    <2>5. Rank(G, j) = Cardinality(low) /\ Rank(G, l) = Cardinality(high)
      BY DEF Rank
    <2> HIDE DEF low, high
    <2>6. Cardinality(low) <= Cardinality(high)
          /\ Cardinality(low) # Cardinality(high)
      BY <2>4, FS_Subset
    <2>7. Rank(G, j) \in Nat /\ Rank(G, l) \in Nat
      BY <1>1
    <2> QED BY <2>5, <2>6, <2>7
  <1>3. ASSUME NEW j \in G PROVE Rank(G, j) \in 0..(Cardinality(G) - 1)
    <2>1. Cardinality(G) \in Nat
      BY FS_CardinalityType
    <2>2. \A x, c \in Nat : x < c => x \in 0..(c - 1)
      OBVIOUS
    <2> QED BY <1>1, <2>1, <2>2
  <1> QED BY <1>2, <1>3

\* The ranks of the members are all the numbers below the cardinality.
LEMMA RanksCover ==
    ASSUME NEW G \in SUBSET Nat, IsFiniteSet(G)
    PROVE  {Rank(G, j) : j \in G} = 0..(Cardinality(G) - 1)
  <1> DEFINE n == Cardinality(G)
             r == [j \in G |-> Rank(G, j)]
  <1>1. n \in Nat
    BY FS_CardinalityType
  <1>2. r \in [G -> 0..(n - 1)]
    BY RanksIncrease
  <1>3. \A j, l \in G : r[j] = r[l] => j = l
    <2>1. \A j, l \in G : j < l => r[j] < r[l]
      BY RanksIncrease
    <2>2. \A j \in G : r[j] \in Nat
      BY <1>1, <1>2
    <2> HIDE DEF r
    <2> QED BY <2>1, <2>2
  <1>4. IsFiniteSet(0..(n - 1)) /\ Cardinality(0..(n - 1)) = n
    BY <1>1, InitialSegment
  <1>5. {r[j] : j \in G} = 0..(n - 1)
    <2> HIDE DEF r
    <2>1. r \in Injection(G, 0..(n - 1))
      BY <1>2, <1>3, Fun_IsInj
    <2>2. r \in Surjection(G, 0..(n - 1))
      BY <1>4, <2>1, FS_Injection
    <2> QED BY <1>2, <2>2 DEF Surjection
  <1> QED BY <1>5

\* As many increasing numbers as there are below a bound are the ranks.
LEMMA IncreasingIsRank ==
    ASSUME NEW G \in SUBSET Nat, IsFiniteSet(G),
           NEW f \in [G -> 0..(Cardinality(G) - 1)],
           \A j, l \in G : j < l => f[j] < f[l]
    PROVE  \A j \in G : f[j] = Rank(G, j)
  <1> DEFINE n == Cardinality(G)
  <1>1. n \in Nat
    BY FS_CardinalityType
  <1>2. \A j, l \in G : f[j] = f[l] => j = l
    <2>1. \A j \in G : f[j] \in Nat
      BY <1>1
    <2> QED BY <2>1
  <1>3. \A m \in 0..(n - 1) : \E j \in G : f[j] = m
    <2>1. f \in Injection(G, 0..(n - 1))
      BY <1>2, Fun_IsInj
    <2>2. IsFiniteSet(0..(n - 1)) /\ Cardinality(0..(n - 1)) = n
      BY <1>1, InitialSegment
    <2>3. f \in Surjection(G, 0..(n - 1))
      BY <2>1, <2>2, FS_Injection
    <2> QED BY <2>3 DEF Surjection
  <1> SUFFICES ASSUME NEW j \in G PROVE f[j] = Rank(G, j)
    OBVIOUS
  <1> DEFINE low == {k \in G : k < j}
             b == [k \in low |-> f[k]]
  <1>4. f[j] \in 0..(n - 1) /\ f[j] \in Nat
    BY <1>1
  <1>5. b \in [low -> 0..(f[j] - 1)]
    <2> SUFFICES ASSUME NEW k \in low PROVE f[k] \in 0..(f[j] - 1)
      OBVIOUS
    <2>1. k \in G /\ k < j /\ f[k] < f[j]
      OBVIOUS
    <2>2. f[k] \in Nat
      BY <1>1, <2>1
    <2> QED BY <1>4, <2>1, <2>2
  <1>6. \A k, l \in low : b[k] = b[l] => k = l
    BY <1>2
  <1>7. ASSUME NEW m \in 0..(f[j] - 1) PROVE \E k \in low : b[k] = m
    <2>1. m \in 0..(n - 1) /\ m < f[j]
      BY <1>1, <1>4
    <2>2. PICK k \in G : f[k] = m
      BY <1>3, <2>1
    <2>3. k < j
      BY <2>1, <2>2
    <2> QED BY <2>2, <2>3
  <1>8. Rank(G, j) = Cardinality(low)
    BY DEF Rank
  <1> HIDE DEF low, b
  <1>9. b \in Bijection(low, 0..(f[j] - 1))
    BY <1>5, <1>6, <1>7, Fun_IsBij
  <1>10. IsFiniteSet(low)
    BY FS_Subset DEF low
  <1>11. Cardinality(low) = Cardinality(0..(f[j] - 1))
    <2>1. ExistsBijection(low, 0..(f[j] - 1))
      BY <1>9, Fun_ExistsBij
    <2> QED BY <1>10, <2>1, FS_Bijection
  <1>12. Cardinality(0..(f[j] - 1)) = f[j]
    BY <1>4, InitialSegment
  <1> QED BY <1>8, <1>11, <1>12
=============================================================================
