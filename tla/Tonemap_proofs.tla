---------------------------- MODULE Tonemap_proofs ----------------------------
(***************************************************************************)
(* Proofs about the listing of a tone map, for maps of any number of runs  *)
(* of every length a station can encode, and lines of every length.        *)
(* Digits are above every modulation, so that the next nibble tells        *)
(* whether the loop is between two runs, after a modulation or after its   *)
(* first digit; the invariant says for each of the three what is listed.   *)
(***************************************************************************)
EXTENDS Tonemap, Positions_proofs, SequenceTheorems

-----------------------------------------------------------------------------
(* FlattenSeq, whose recursive function has to be shown to exist.          *)

FlatAfter(s, f, n) == IF n = 1 THEN s[n] ELSE f[n - 1] \o s[n]

\* f puts the first n parts of s together, one after the other.
IsFlat(s, f, n) == \A k \in 1..n : f[k] = FlatAfter(s, f, k)

LEMMA FlattenFunction ==
    ASSUME NEW s, Len(s) \in Nat \ {0}
    PROVE  \E f : /\ FlattenSeq(s) = f[Len(s)]
                  /\ IsFlat(s, f, Len(s))
  <1> DEFINE N == Len(s)
             Is(f, m) == f = [n \in 1..m |->
                                  IF n = 1 THEN s[n] ELSE f[n - 1] \o s[n]]
             S == {m \in 0..N : \E f : Is(f, m)}
             F == CHOOSE f : Is(f, N)
  <1>1. FlattenSeq(s) = F[N]
    BY DEF FlattenSeq
  <1>2. 0 \in S
    <2>1. [n \in 1..0 |-> <<>>] =
              [n \in 1..0 |-> IF n = 1 THEN s[n]
                              ELSE [k \in 1..0 |-> <<>>][n - 1] \o s[n]]
      <3>1. 1..0 = {}
        OBVIOUS
      <3> QED BY <3>1
    <2>2. \E f : Is(f, 0)
      BY <2>1
    <2>3. 0 \in 0..N
      OBVIOUS
    <2> HIDE DEF Is, N
    <2> QED BY <2>2, <2>3
  <1>3. ASSUME NEW m \in 0..(N - 1), m \in S
        PROVE  m + 1 \in S
    <2>1. PICK f : Is(f, m)
      BY <1>3
    <2> DEFINE g == [n \in 1..(m + 1) |-> IF n <= m THEN f[n] ELSE FlatAfter(s, f, n)]
               h == [n \in 1..(m + 1) |-> FlatAfter(s, g, n)]
    <2>2. \A n \in 1..m : f[n] = FlatAfter(s, f, n)
      BY <2>1 DEF FlatAfter
    <2>3. ASSUME NEW n \in 1..(m + 1)
          PROVE  g[n] = h[n]
      <3>1. n # 1 => n - 1 \in 1..m /\ n - 1 \in 1..(m + 1)
        OBVIOUS
      <3>2. n # 1 => g[n - 1] = f[n - 1]
        BY <3>1
      <3>3. g[n] = FlatAfter(s, f, n)
        BY <2>2
      <3>4. FlatAfter(s, g, n) = FlatAfter(s, f, n)
        <4> HIDE DEF g
        <4> QED BY <3>2 DEF FlatAfter
      <3> QED BY <3>3, <3>4
    <2>4. g = h
      BY <2>3
    <2>5. Is(g, m + 1)
      <3> HIDE DEF g
      <3> QED BY <2>4 DEF FlatAfter
    <2>6. m + 1 \in 0..N
      OBVIOUS
    <2> HIDE DEF Is, g
    <2> QED BY <2>5, <2>6
  <1>4. N \in S
    <2> HIDE DEF S
    <2>1. 0..N \subseteq S
      BY <1>2, <1>3, SetInduction
    <2> QED BY <2>1
  <1>5. Is(F, N)
    <2>1. \E f : Is(f, N)
      BY <1>4
    <2> HIDE DEF Is
    <2> QED BY <2>1
  <1> HIDE DEF F
  <1>6. IsFlat(s, F, N)
    BY <1>5 DEF IsFlat, FlatAfter
  <1> QED BY <1>1, <1>6

\* Two functions that do so are the same.
LEMMA SameFlat ==
    ASSUME NEW n \in Nat \ {0}, NEW s, NEW f, NEW g, IsFlat(s, f, n), IsFlat(s, g, n)
    PROVE  f[n] = g[n]
  <1> USE DEF IsFlat
  <1> DEFINE S == {k \in 0..(n - 1) : f[k + 1] = g[k + 1]}
  <1>1. 0 \in S
    <2>1. f[1] = s[1] /\ g[1] = s[1]
      BY DEF FlatAfter
    <2>2. 0 \in 0..(n - 1) /\ 0 + 1 = 1
      OBVIOUS
    <2>3. f[0 + 1] = g[0 + 1]
      BY <2>1, <2>2
    <2> QED BY <2>2, <2>3
  <1>2. ASSUME NEW m \in 0..((n - 1) - 1), m \in S
        PROVE  m + 1 \in S
    <2>1. m + 2 \in 1..n /\ m + 2 # 1 /\ (m + 2) - 1 = m + 1 /\ (m + 1) + 1 = m + 2
      OBVIOUS
    <2>2. f[m + 2] = f[m + 1] \o s[m + 2] /\ g[m + 2] = g[m + 1] \o s[m + 2]
      BY <2>1 DEF FlatAfter
    <2>3. f[m + 1] = g[m + 1]
      BY <1>2
    <2>4. f[(m + 1) + 1] = g[(m + 1) + 1]
      BY <2>1, <2>2, <2>3
    <2>5. m + 1 \in 0..(n - 1)
      OBVIOUS
    <2> QED BY <2>4, <2>5
  <1>3. n - 1 \in S
    <2> HIDE DEF S
    <2>1. n - 1 \in Nat
      OBVIOUS
    <2>2. 0..(n - 1) \subseteq S
      BY <1>1, <1>2, <2>1, SetInduction
    <2> QED BY <2>1, <2>2
  <1> QED BY <1>3

LEMMA FlattenNothing ==
    ASSUME NEW s, Len(s) = 0
    PROVE  FlattenSeq(s) = s
  BY DEF FlattenSeq

\* The last part comes after the others.
LEMMA FlattenStep ==
    ASSUME NEW n \in Nat, NEW T, NEW s \in Seq(Seq(T)), Len(s) = n + 1
    PROVE  FlattenSeq(s) = FlattenSeq([k \in 1..n |-> s[k]]) \o s[n + 1]
  <1> DEFINE t == [k \in 1..n |-> s[k]]
  <1>1. t \in Seq(Seq(T)) /\ Len(t) = n /\ s[n + 1] \in Seq(T)
    OBVIOUS
  <1>2. \A k \in 1..n : t[k] = s[k]
    OBVIOUS
  <1> HIDE DEF t
  <1>3. PICK g : /\ FlattenSeq(s) = g[n + 1]
                 /\ IsFlat(s, g, n + 1)
    BY FlattenFunction
  <1>4. CASE n = 0
    <2>1. g[n + 1] = s[n + 1]
      <3>1. n + 1 = 1 /\ 1 \in 1..(n + 1)
        BY <1>4
      <3> QED BY <1>3, <3>1 DEF IsFlat, FlatAfter
    <2>2. FlattenSeq(t) = t /\ t = <<>>
      BY <1>1, <1>4, FlattenNothing, EmptySeq
    <2>3. <<>> \o s[n + 1] = s[n + 1]
      BY <1>1, ConcatEmptySeq
    <2> QED BY <1>3, <2>1, <2>2, <2>3 DEF t
  <1>5. CASE n # 0
    <2>1. PICK f : /\ FlattenSeq(t) = f[n]
                   /\ IsFlat(t, f, n)
      <3>1. Len(t) \in Nat \ {0}
        BY <1>1, <1>5
      <3> QED BY <1>1, <3>1, FlattenFunction
    <2>2. /\ n + 1 \in 1..(n + 1) /\ n + 1 # 1 /\ (n + 1) - 1 = n
          /\ \A k \in 1..n : k \in 1..(n + 1)
      BY <1>5
    <2>3. g[n + 1] = g[n] \o s[n + 1]
      BY <1>3, <2>2 DEF IsFlat, FlatAfter
    <2>4. f[n] = g[n]
      <3>1. n \in Nat \ {0}
        BY <1>5
      <3>2. ASSUME NEW k \in 1..n
            PROVE  g[k] = FlatAfter(t, g, k)
        <4>1. g[k] = FlatAfter(s, g, k)
          BY <1>3, <2>2 DEF IsFlat
        <4> QED BY <1>2, <4>1 DEF FlatAfter
      <3>3. IsFlat(t, g, n)
        BY <3>2 DEF IsFlat
      <3> QED BY <2>1, <3>1, <3>3, SameFlat
    <2> QED BY <1>3, <2>1, <2>3, <2>4 DEF t
  <1> QED BY <1>4, <1>5

\* The first k parts of s put together.
Together(s, k) == FlattenSeq([j \in 1..k |-> s[j]])

LEMMA TogetherStep ==
    ASSUME NEW T, NEW s \in Seq(Seq(T))
    PROVE  /\ Together(s, 0) = <<>>
           /\ Together(s, Len(s)) = FlattenSeq(s)
           /\ \A k \in 0..(Len(s) - 1) : Together(s, k + 1) = Together(s, k) \o s[k + 1]
  <1> DEFINE Upto(k) == [j \in 1..k |-> s[j]]
  <1>1. Together(s, 0) = <<>>
    <2>1. Upto(0) = <<>> /\ Len(<<>>) = 0
      OBVIOUS
    <2> HIDE DEF Upto
    <2>2. FlattenSeq(Upto(0)) = Upto(0)
      BY <2>1, FlattenNothing
    <2> QED BY <2>1, <2>2 DEF Together, Upto
  <1>2. Together(s, Len(s)) = FlattenSeq(s)
    <2>1. Upto(Len(s)) = s
      OBVIOUS
    <2> QED BY <2>1 DEF Together
  <1>3. ASSUME NEW k \in 0..(Len(s) - 1)
        PROVE  Together(s, k + 1) = Together(s, k) \o s[k + 1]
    <2>1. k \in Nat /\ Upto(k + 1) \in Seq(Seq(T)) /\ Len(Upto(k + 1)) = k + 1
      OBVIOUS
    <2>2. [j \in 1..k |-> Upto(k + 1)[j]] = Upto(k)
      OBVIOUS
    <2>3. Upto(k + 1)[k + 1] = s[k + 1]
      OBVIOUS
    <2> HIDE DEF Upto
    <2>4. FlattenSeq(Upto(k + 1)) =
              FlattenSeq([j \in 1..k |-> Upto(k + 1)[j]]) \o Upto(k + 1)[k + 1]
      BY <2>1, FlattenStep
    <2>5. FlattenSeq(Upto(k + 1)) = FlattenSeq(Upto(k)) \o s[k + 1]
      BY <2>2, <2>3, <2>4
    <2> QED BY <2>5 DEF Together, Upto
  <1> QED BY <1>1, <1>2, <1>3

LEMMA TogetherType ==
    ASSUME NEW T, NEW s \in Seq(Seq(T)), NEW k \in 0..Len(s)
    PROVE  Together(s, k) \in Seq(T)
  <1> DEFINE N == Len(s)
             S == {m \in 0..N : Together(s, m) \in Seq(T)}
  <1>1. 0 \in S
    <2>1. Together(s, 0) = <<>> /\ <<>> \in Seq(T) /\ 0 \in 0..N
      BY TogetherStep
    <2> QED BY <2>1
  <1>2. ASSUME NEW m \in 0..(N - 1), m \in S
        PROVE  m + 1 \in S
    <2>1. Together(s, m + 1) = Together(s, m) \o s[m + 1] /\ s[m + 1] \in Seq(T)
      BY TogetherStep
    <2>2. m + 1 \in 0..N
      OBVIOUS
    <2>3. \A a, b \in Seq(T) : a \o b \in Seq(T)
      OBVIOUS
    <2>4. Together(s, m) \in Seq(T)
      BY <1>2
    <2>5. Together(s, m + 1) \in Seq(T)
      BY <2>1, <2>3, <2>4
    <2> QED BY <2>2, <2>5
  <1>3. N \in Nat
    OBVIOUS
  <1>4. 0..N \subseteq S
    <2> HIDE DEF S, N
    <2> QED BY <1>1, <1>2, <1>3, SetInduction
  <1> QED BY <1>4

\* Where the elements of part k + 1 are in the whole.
LEMMA TogetherPlaces ==
    ASSUME NEW T, NEW s \in Seq(Seq(T)),
           NEW k \in 0..(Len(s) - 1), NEW i \in 1..Len(s[k + 1])
    PROVE  /\ Len(Together(s, k)) + i \in 1..Len(FlattenSeq(s))
           /\ FlattenSeq(s)[Len(Together(s, k)) + i] = s[k + 1][i]
  <1> DEFINE N == Len(s)
             at0 == Len(Together(s, k))
             In(m) == /\ at0 + i \in 1..Len(Together(s, m))
                      /\ Together(s, m)[at0 + i] = s[k + 1][i]
             S == {m \in 0..N : m <= k \/ In(m)}
  <1>0. /\ N \in Nat /\ k \in 0..N /\ k + 1 \in 1..N /\ s[k + 1] \in Seq(T)
        /\ \A m \in 0..N : Together(s, m) \in Seq(T) /\ Len(Together(s, m)) \in Nat
        /\ i \in Nat /\ i >= 1 /\ i <= Len(s[k + 1]) /\ at0 \in Nat
    BY TogetherType
  <1>1. 0 \in S
    OBVIOUS
  <1>2. ASSUME NEW m \in 0..(N - 1), m \in S
        PROVE  m + 1 \in S
    <2>1. /\ m \in 0..N /\ m + 1 \in 0..N /\ s[m + 1] \in Seq(T)
          /\ Together(s, m + 1) = Together(s, m) \o s[m + 1]
      <3>1. m \in 0..N /\ m + 1 \in 0..N /\ s[m + 1] \in Seq(T)
        OBVIOUS
      <3>2. Together(s, m + 1) = Together(s, m) \o s[m + 1]
        BY TogetherStep, Zenon
      <3> QED BY <3>1, <3>2, Zenon
    <2>2. Together(s, m) \in Seq(T) /\ Len(Together(s, m)) \in Nat
      <3>1. m \in 0..N
        BY <2>1
      <3> QED BY <1>0, <3>1, Zenon
    <2>3. CASE m + 1 <= k
      BY <2>1, <2>3
    <2>4. CASE m = k
      <3>1. /\ Len(Together(s, k) \o s[k + 1]) = at0 + Len(s[k + 1])
            /\ (Together(s, k) \o s[k + 1])[at0 + i] = s[k + 1][i]
        <4> DEFINE a == Together(s, k)
                   b == s[k + 1]
        <4>1. a \in Seq(T) /\ b \in Seq(T) /\ i \in 1..Len(b)
          BY <1>0
        <4> HIDE DEF a, b
        <4>2. Len(a \o b) = Len(a) + Len(b) /\ (a \o b)[Len(a) + i] = b[i]
          BY <4>1
        <4> QED BY <4>2 DEF a, b
      <3>2. at0 + i \in 1..(at0 + Len(s[k + 1]))
        <4>1. Len(s[k + 1]) \in Nat
          BY <1>0
        <4> DEFINE len == Len(s[k + 1])
        <4>2. i \in Nat /\ i >= 1 /\ i <= len /\ at0 \in Nat /\ len \in Nat
          BY <1>0, <4>1, Zenon
        <4> HIDE DEF at0, len
        <4>3. at0 + i \in 1..(at0 + len)
          BY <4>2
        <4> QED BY <4>3 DEF len
      <3>3. Together(s, m + 1) = Together(s, k) \o s[k + 1]
        BY <2>1, <2>4, Zenon
      <3>4. In(m + 1)
        BY <3>1, <3>2, <3>3, Zenon
      <3> HIDE DEF In
      <3> QED BY <2>1, <3>4, Zenon
    <2>5. CASE m > k
      <3>1. In(m)
        BY <1>2, <2>5
      <3>2. ASSUME NEW a \in Seq(T), NEW b \in Seq(T), NEW n \in 1..Len(a)
            PROVE  n \in 1..Len(a \o b) /\ (a \o b)[n] = a[n]
        OBVIOUS
      <3>3. /\ at0 + i \in 1..Len(Together(s, m) \o s[m + 1])
            /\ (Together(s, m) \o s[m + 1])[at0 + i] = s[k + 1][i]
        <4> HIDE DEF at0
        <4>1. at0 + i \in 1..Len(Together(s, m)) /\ Together(s, m)[at0 + i] = s[k + 1][i]
          BY <3>1
        <4> QED BY <2>1, <2>2, <3>2, <4>1
      <3>4. In(m + 1)
        BY <2>1, <3>3
      <3> HIDE DEF In
      <3> QED BY <2>1, <3>4
    <2>6. m + 1 <= k \/ m = k \/ m > k
      OBVIOUS
    <2> QED BY <2>3, <2>4, <2>5, <2>6
  <1>3. N \in S
    <2> HIDE DEF S, N
    <2>1. 0..N \subseteq S
      BY <1>0, <1>1, <1>2, SetInduction
    <2> QED BY <1>0, <2>1
  <1>4. In(N)
    BY <1>0, <1>3
  <1> QED BY <1>4, TogetherStep

\* If no part is empty, every part makes the whole longer.
LEMMA TogetherGrows ==
    ASSUME NEW T, NEW s \in Seq(Seq(T)), \A j \in 1..Len(s) : Len(s[j]) >= 1,
           NEW k \in 0..Len(s), NEW l \in 0..Len(s), k < l
    PROVE  Len(Together(s, k)) + Len(s[k + 1]) <= Len(Together(s, l))
  <1> DEFINE N == Len(s)
             S == {m \in 0..N : m <= k \/ Len(Together(s, k)) + Len(s[k + 1]) <= Len(Together(s, m))}
  <1>0. /\ N \in Nat
        /\ \A m \in 0..N : Together(s, m) \in Seq(T) /\ Len(Together(s, m)) \in Nat
        /\ \A m \in 1..N : s[m] \in Seq(T) /\ Len(s[m]) \in Nat
    BY TogetherType
  <1>1. 0 \in S
    OBVIOUS
  <1>2. ASSUME NEW m \in 0..(N - 1), m \in S
        PROVE  m + 1 \in S
    <2>1. /\ m \in 0..N /\ m + 1 \in 0..N /\ m + 1 \in 1..N /\ s[m + 1] \in Seq(T)
          /\ Together(s, m + 1) = Together(s, m) \o s[m + 1]
      <3>1. m \in 0..N /\ m + 1 \in 0..N /\ m + 1 \in 1..N
        BY <1>0
      <3>2. s[m + 1] \in Seq(T)
        BY <1>0, <3>1, Zenon
      <3>3. Together(s, m + 1) = Together(s, m) \o s[m + 1]
        BY TogetherStep, Zenon
      <3> QED BY <3>1, <3>2, <3>3, Zenon
    <2>2. Len(Together(s, m + 1)) = Len(Together(s, m)) + Len(s[m + 1])
      BY <1>0, <2>1
    <2>3. Len(s[m + 1]) >= 1 /\ Len(s[m + 1]) \in Nat /\ Len(Together(s, m)) \in Nat
      BY <1>0, <2>1
    <2>4. m <= k => m + 1 <= k \/ m = k
      OBVIOUS
    <2>5. Len(Together(s, k)) + Len(s[k + 1]) \in Nat
      <3>1. k \in 0..N /\ (k + 1 \in 1..N)
        BY <1>0
      <3>2. Len(Together(s, k)) \in Nat /\ Len(s[k + 1]) \in Nat
        BY <1>0, <3>1, Zenon
      <3>3. \A a, b \in Nat : a + b \in Nat
        OBVIOUS
      <3> QED BY <3>2, <3>3, Zenon
    <2> DEFINE sum == Len(Together(s, k)) + Len(s[k + 1])
    <2>6. m > k => sum <= Len(Together(s, m))
      BY <1>2
    <2>7. sum \in Nat
      BY <2>5
    <2>8. m = k => sum = Len(Together(s, m + 1))
      BY <2>2
    <2> HIDE DEF sum
    <2>9. m + 1 <= k \/ sum <= Len(Together(s, m + 1))
      <3> DEFINE a == Len(Together(s, m))
                 b == Len(s[m + 1])
                 c == Len(Together(s, m + 1))
      <3>1. /\ a \in Nat /\ b \in Nat /\ c = a + b /\ (m > k => sum <= a)
            /\ (m = k => sum = c)
        BY <2>2, <2>3, <2>6, <2>8, Zenon
      <3>2. m \in Int /\ k \in Int
        OBVIOUS
      <3> HIDE DEF a, b, c
      <3>3. m + 1 <= k \/ sum <= c
        BY <2>7, <3>1, <3>2
      <3> QED BY <3>3, Zenon DEF c
    <2>10. m + 1 <= k \/ Len(Together(s, k)) + Len(s[k + 1]) <= Len(Together(s, m + 1))
      BY <2>9, Zenon DEF sum
    <2> QED BY <2>1, <2>10, Zenon
  <1>3. l \in S
    <2> HIDE DEF S, N
    <2>1. 0..N \subseteq S
      BY <1>0, <1>1, <1>2, SetInduction
    <2> QED BY <2>1 DEF N
  <1> QED BY <1>3

-----------------------------------------------------------------------------
(* The nibbles of the runs.                                                *)

LEMMA RunFacts ==
    ASSUME NEW r \in Runs
    PROVE  /\ r.modulation \in 0..8 /\ r.length \in 1..58
           /\ r \in [modulation : 0..8, length : Nat]
           /\ r.length = 1 \/ r.length \in 3..9 \/ r.length \in 10..58
  BY TonemapAssumption

\* How the intervals lie.
LEMMA Intervals ==
    /\ \A n \in 9..15 : n \in 0..15 /\ n \notin 0..8 /\ n >= 9
    /\ \A n \in 0..8 : n \in 0..15 /\ ~(n >= 9)
    /\ \A n \in 10..58 : n \notin 3..9 /\ n \in 3..58 /\ n # 1
    /\ \A n \in 3..9 : n + 6 \in 9..15 /\ n \in 3..58 /\ n # 1
  OBVIOUS

LEMMA EncodedFacts ==
    ASSUME NEW r \in Runs
    PROVE  /\ Encoded(r) \in Seq(0..15)
           /\ Len(Encoded(r)) \in 1..3
           /\ Encoded(r)[1] = r.modulation
           /\ r.length = 1 => Len(Encoded(r)) = 1
           /\ r.length \in 3..9 => /\ Len(Encoded(r)) = 2
                                   /\ Encoded(r)[2] = r.length + 6
           /\ r.length \in 10..58 => /\ Len(Encoded(r)) = 3
                                     /\ Encoded(r)[2] = 9 + ((r.length - 3) % 7)
                                     /\ Encoded(r)[3] = 8 + ((r.length - 3) \div 7)
  <1> DEFINE low == 9 + ((r.length - 3) % 7)
             high == 8 + ((r.length - 3) \div 7)
  <1>1. r.modulation \in 0..15
    BY RunFacts
  <1>2. CASE r.length = 1
    <2>1. Encoded(r) = <<r.modulation>>
      BY <1>2 DEF Encoded
    <2> QED BY <1>1, <1>2, <2>1
  <1>3. CASE r.length \in 3..9
    <2>1. r.length # 1
      BY <1>3
    <2>2. Encoded(r) = <<r.modulation, r.length + 6>>
      BY <1>3, <2>1 DEF Encoded
    <2>3. r.length + 6 \in 0..15
      BY <1>3
    <2> QED BY <1>1, <1>3, <2>2, <2>3
  <1>4. CASE r.length \in 10..58
    <2>1. r.length # 1 /\ r.length \notin 3..9
      BY <1>4
    <2>2. Encoded(r) = <<r.modulation, low, high>>
      BY <2>1 DEF Encoded
    <2>3. low \in 0..15 /\ high \in 0..15
      BY <1>4
    <2> HIDE DEF low, high
    <2>4. /\ Encoded(r) \in Seq(0..15) /\ Len(Encoded(r)) = 3
          /\ Encoded(r)[1] = r.modulation
          /\ Encoded(r)[2] = low /\ Encoded(r)[3] = high
      BY <1>1, <2>2, <2>3
    <2> QED BY <1>4, <2>1, <2>4 DEF low, high
  <1> QED BY <1>2, <1>3, <1>4, RunFacts

\* The digits of a length give it back.
LEMMA DigitsFacts ==
    ASSUME NEW length \in 3..58
    PROVE  /\ length \in 3..9 => GET_RLE_LEN(8, length + 6) = length
           /\ length \in 10..58 =>
                 /\ 9 + ((length - 3) % 7) \in 9..15
                 /\ 8 + ((length - 3) \div 7) \in 9..15
                 /\ GET_RLE_LEN(8 + ((length - 3) \div 7), 9 + ((length - 3) % 7)) = length
  <1>1. length \in 3..9 => GET_RLE_LEN(8, length + 6) = length
    BY DEF GET_RLE_LEN
  <1>2. ASSUME length \in 10..58
        PROVE  /\ 9 + ((length - 3) % 7) \in 9..15
               /\ 8 + ((length - 3) \div 7) \in 9..15
               /\ GET_RLE_LEN(8 + ((length - 3) \div 7), 9 + ((length - 3) % 7)) = length
    <2> DEFINE d == (length - 3) \div 7
               m == (length - 3) % 7
    <2>1. d \in 1..7 /\ m \in 0..6 /\ d * 7 + m = length - 3
      BY <1>2
    <2> HIDE DEF d, m
    <2>2. ((8 + d) - 8) * 7 + ((9 + m) - 9) + 3 = length
      BY <1>2, <2>1
    <2> QED BY <2>1, <2>2 DEF d, m, GET_RLE_LEN
  <1> QED BY <1>1, <1>2

Codes == [k \in DOMAIN runs |-> Encoded(runs[k])]

LEMMA CodesFacts ==
    ASSUME runs \in Seq(Runs)
    PROVE  /\ Codes \in Seq(Seq(0..15)) /\ Len(Codes) = Len(runs)
           /\ \A j \in 1..Len(runs) : Codes[j] = Encoded(runs[j]) /\ Len(Codes[j]) >= 1
           /\ nibbles = FlattenSeq(Codes)
           /\ \A k \in 0..Len(runs) : EndOf(k) = Len(Together(Codes, k))
  <1>1. \A j \in 1..Len(runs) : Codes[j] = Encoded(runs[j])
    BY DEF Codes
  <1>2. \A j \in 1..Len(runs) : Encoded(runs[j]) \in Seq(0..15) /\ Len(Encoded(runs[j])) \in 1..3
    BY EncodedFacts
  <1>3. Codes \in Seq(Seq(0..15)) /\ Len(Codes) = Len(runs)
    <2>1. DOMAIN runs = 1..Len(runs) /\ Len(runs) \in Nat
      BY LenProperties
    <2> HIDE DEF Encoded
    <2>2. Codes = [k \in 1..Len(runs) |-> Encoded(runs[k])]
      BY <2>1, Zenon DEF Codes
    <2>3. Codes \in [1..Len(runs) -> Seq(0..15)]
      BY <1>2, <2>2, Zenon
    <2> HIDE DEF Codes
    <2>4. \A S, n, f : n \in Nat /\ f \in [1..n -> S] => f \in Seq(S) /\ Len(f) = n
      OBVIOUS
    <2> QED BY <2>1, <2>3, <2>4, Zenon
  <1>4. ASSUME NEW j \in 1..Len(runs)
        PROVE  Len(Codes[j]) >= 1
    <2>1. Codes[j] = Encoded(runs[j])
      BY <1>1
    <2>2. Len(Encoded(runs[j])) \in 1..3
      BY <1>2
    <2>3. \A n \in 1..3 : n >= 1
      OBVIOUS
    <2>4. Len(Encoded(runs[j])) >= 1
      BY <2>2, <2>3
    <2> QED BY <2>1, <2>4
  <1>5. ASSUME NEW k \in 0..Len(runs)
        PROVE  EndOf(k) = Len(Together(Codes, k))
    <2>1. [j \in 1..k |-> Encoded(runs[j])] = [j \in 1..k |-> Codes[j]]
      BY <1>1
    <2> QED BY <2>1 DEF EndOf, Together
  <1> QED BY <1>1, <1>3, <1>4, <1>5 DEF nibbles, Codes

\* Where the runs are among the nibbles.
LEMMA Places ==
    ASSUME runs \in Seq(Runs)
    PROVE  /\ nibbles \in Seq(0..15) /\ Len(nibbles) \in Nat
           /\ EndOf(0) = 0 /\ EndOf(Len(runs)) = Len(nibbles)
           /\ \A k \in 0..Len(runs) : EndOf(k) \in Nat
           /\ \A k \in 0..(Len(runs) - 1) :
                 /\ EndOf(k + 1) = EndOf(k) + Len(Encoded(runs[k + 1]))
                 /\ \A i \in 1..Len(Encoded(runs[k + 1])) :
                       /\ EndOf(k) + i <= Len(nibbles)
                       /\ nibbles[EndOf(k) + i] = Encoded(runs[k + 1])[i]
           /\ \A k, l \in 0..Len(runs) :
                 k < l => EndOf(k) + Len(Encoded(runs[k + 1])) <= EndOf(l)
  <1> DEFINE N == Len(runs)
  <1>1. /\ Codes \in Seq(Seq(0..15)) /\ Len(Codes) = N
        /\ \A j \in 1..N : Codes[j] = Encoded(runs[j]) /\ Len(Codes[j]) >= 1
        /\ nibbles = FlattenSeq(Codes)
        /\ \A k \in 0..N : EndOf(k) = Len(Together(Codes, k))
    BY CodesFacts
  <1>2. N \in Nat /\ 0 \in 0..N /\ N \in 0..N
    OBVIOUS
  <1>3. \A k \in 0..N : Together(Codes, k) \in Seq(0..15) /\ Len(Together(Codes, k)) \in Nat
    BY <1>1, TogetherType
  <1>4. /\ Together(Codes, 0) = <<>> /\ Together(Codes, N) = nibbles
        /\ \A k \in 0..(N - 1) : Together(Codes, k + 1) = Together(Codes, k) \o Codes[k + 1]
    BY <1>1, TogetherStep
  <1>5. EndOf(0) = 0 /\ EndOf(N) = Len(nibbles) /\ nibbles \in Seq(0..15)
    BY <1>1, <1>2, <1>3, <1>4
  <1>6. ASSUME NEW k \in 0..(N - 1)
        PROVE  /\ EndOf(k + 1) = EndOf(k) + Len(Encoded(runs[k + 1]))
               /\ \A i \in 1..Len(Encoded(runs[k + 1])) :
                     /\ EndOf(k) + i <= Len(nibbles)
                     /\ nibbles[EndOf(k) + i] = Encoded(runs[k + 1])[i]
    <2>1. k \in 0..N /\ k + 1 \in 0..N /\ k + 1 \in 1..N
      OBVIOUS
    <2>2. /\ EndOf(k) = Len(Together(Codes, k)) /\ EndOf(k + 1) = Len(Together(Codes, k + 1))
          /\ Codes[k + 1] = Encoded(runs[k + 1])
          /\ Codes[k + 1] \in Seq(0..15) /\ Together(Codes, k) \in Seq(0..15)
      BY <1>1, <1>3, <2>1
    <2>3. EndOf(k + 1) = EndOf(k) + Len(Encoded(runs[k + 1]))
      <3>1. Together(Codes, k + 1) = Together(Codes, k) \o Codes[k + 1]
        BY <1>4
      <3>2. \A a, b \in Seq(0..15) : Len(a \o b) = Len(a) + Len(b)
        OBVIOUS
      <3>3. Len(Together(Codes, k) \o Codes[k + 1]) = Len(Together(Codes, k)) + Len(Codes[k + 1])
        BY <2>2, <3>2
      <3> QED BY <2>2, <3>1, <3>3
    <2>4. ASSUME NEW i \in 1..Len(Encoded(runs[k + 1]))
          PROVE  /\ EndOf(k) + i <= Len(nibbles)
                 /\ nibbles[EndOf(k) + i] = Encoded(runs[k + 1])[i]
      <3>1. /\ Len(Together(Codes, k)) + i \in 1..Len(FlattenSeq(Codes))
            /\ FlattenSeq(Codes)[Len(Together(Codes, k)) + i] = Codes[k + 1][i]
        <4>1. /\ Codes \in Seq(Seq(0..15)) /\ k \in 0..(Len(Codes) - 1)
              /\ i \in 1..Len(Codes[k + 1])
          <5>1. Codes \in Seq(Seq(0..15)) /\ Len(Codes) = N
            BY <1>1, Zenon
          <5> QED BY <2>2, <5>1, Zenon
        <4> QED BY <4>1, TogetherPlaces, Zenon
      <3>2. nibbles = FlattenSeq(Codes)
        BY <1>1
      <3>3. EndOf(k) + i \in 1..Len(nibbles) /\ nibbles[EndOf(k) + i] = Codes[k + 1][i]
        BY <2>2, <3>1, <3>2, Zenon
      <3>4. EndOf(k) + i <= Len(nibbles)
        BY <3>3
      <3> QED BY <2>2, <3>3, <3>4, Zenon
    <2> QED BY <2>3, <2>4
  <1>7. ASSUME NEW k \in 0..N, NEW l \in 0..N, k < l
        PROVE  EndOf(k) + Len(Encoded(runs[k + 1])) <= EndOf(l)
    <2>1. k + 1 \in 1..N
      BY <1>7
    <2>2. Len(Together(Codes, k)) + Len(Codes[k + 1]) <= Len(Together(Codes, l))
      BY <1>1, <1>7, TogetherGrows
    <2> QED BY <1>1, <2>1, <2>2
  <1> QED BY <1>1, <1>3, <1>5, <1>6, <1>7

-----------------------------------------------------------------------------
(* The carriers of the runs.                                               *)

AnyRun == [modulation : 0..8, length : Nat]

\* The carriers of the first k runs.
Listing(rs, k) == Carriers(SubSeq(rs, 1, k))

LEMMA TimesFacts ==
    ASSUME NEW n \in Nat, NEW x \in 0..8
    PROVE  /\ Times(n, x) \in Seq(0..8)
           /\ Times(0, x) = <<>>
           /\ Times(1, x) = <<x>>
  BY DEF Times

LEMMA ListingFacts ==
    ASSUME NEW rs \in Seq(AnyRun)
    PROVE  /\ Listing(rs, 0) = <<>>
           /\ Listing(rs, Len(rs)) = Carriers(rs)
           /\ \A k \in 0..Len(rs) : Listing(rs, k) \in Seq(0..8)
           /\ \A k \in 0..(Len(rs) - 1) :
                 Listing(rs, k + 1) =
                     Listing(rs, k) \o Times(rs[k + 1].length, rs[k + 1].modulation)
  <1> DEFINE N == Len(rs)
             parts == [k \in 1..N |-> Times(rs[k].length, rs[k].modulation)]
  <1>1. \A k \in 1..N : rs[k].length \in Nat /\ rs[k].modulation \in 0..8
    <2>1. \A k \in 1..N : rs[k] \in AnyRun
      OBVIOUS
    <2>2. \A r \in AnyRun : r.length \in Nat /\ r.modulation \in 0..8
      BY DEF AnyRun
    <2> QED BY <2>1, <2>2
  <1>2. parts \in Seq(Seq(0..8)) /\ Len(parts) = N
    <2>1. \A k \in 1..N : Times(rs[k].length, rs[k].modulation) \in Seq(0..8)
      BY <1>1, TimesFacts
    <2> QED BY <2>1
  <1>3. ASSUME NEW k \in 0..N
        PROVE  Listing(rs, k) = Together(parts, k)
    <2> DEFINE begin == SubSeq(rs, 1, k)
    <2>1. DOMAIN begin = 1..k /\ \A j \in 1..k : begin[j] = rs[j] /\ j \in 1..N
      OBVIOUS
    <2> HIDE DEF begin
    <2>2. [j \in DOMAIN begin |-> Times(begin[j].length, begin[j].modulation)]
              = [j \in 1..k |-> parts[j]]
      BY <2>1
    <2> HIDE DEF parts
    <2> QED BY <2>2 DEF Listing, Carriers, Together, begin
  <1>4. \A k \in 1..N : parts[k] = Times(rs[k].length, rs[k].modulation)
    OBVIOUS
  <1>5. SubSeq(rs, 1, N) = rs
    OBVIOUS
  <1> HIDE DEF parts
  <1>6. /\ Together(parts, 0) = <<>>
        /\ \A k \in 0..(N - 1) : Together(parts, k + 1) = Together(parts, k) \o parts[k + 1]
        /\ \A k \in 0..N : Together(parts, k) \in Seq(0..8)
    BY <1>2, TogetherStep, TogetherType
  <1>7. /\ N \in Nat /\ 0 \in 0..N
        /\ \A k \in 0..(N - 1) : k \in 0..N /\ k + 1 \in 0..N /\ k + 1 \in 1..N
    OBVIOUS
  <1> QED BY <1>3, <1>4, <1>5, <1>6, <1>7 DEF Listing

\* Only the first k runs count.
LEMMA SameListing ==
    ASSUME NEW rs \in Seq(AnyRun), NEW qs \in Seq(AnyRun), NEW k \in Nat,
           k <= Len(rs), k <= Len(qs), \A j \in 1..k : rs[j] = qs[j]
    PROVE  Listing(rs, k) = Listing(qs, k)
  <1>1. SubSeq(rs, 1, k) = SubSeq(qs, 1, k)
    OBVIOUS
  <1> QED BY <1>1 DEF Listing

-----------------------------------------------------------------------------
(* The invariant.                                                          *)

\* The run read last waits to be listed if it can have another digit.
Waits(k) == k # 0 /\ Open(k)

Listed(k) == IF Waits(k) THEN k - 1 ELSE k

\* Between run k and the next.
Between(k) ==
    /\ at = EndOf(k)
    /\ list = Listing(runs, Listed(k))
    /\ modulation = IF Waits(k) THEN runs[k].modulation ELSE Unset
    /\ rle = IF Waits(k) /\ runs[k].length # 1 THEN runs[k].length + 6 ELSE Unset

\* Within the run after run k, whose modulation has been read,
AfterModulation(k) ==
    /\ k < Len(runs)
    /\ runs[k + 1].length # 1
    /\ at = EndOf(k) + 1
    /\ list = Listing(runs, k)
    /\ modulation = runs[k + 1].modulation
    /\ rle = Unset

\* or the first of two digits.
AfterDigit(k) ==
    /\ k < Len(runs)
    /\ runs[k + 1].length \in 10..58
    /\ at = EndOf(k) + 2
    /\ list = Listing(runs, k)
    /\ modulation = runs[k + 1].modulation
    /\ rle = 9 + ((runs[k + 1].length - 3) % 7)

Reads(k) == Between(k) \/ AfterModulation(k) \/ AfterDigit(k)

\* The runs as they are listed: the one that ends with the last whole byte and
\* waits is left out.
Remaining == [k \in DOMAIN runs |-> IF EndOf(k) = Whole /\ Open(k)
                                    THEN [runs[k] EXCEPT !.length = 0]
                                    ELSE runs[k]]

Typing ==
    /\ runs \in Seq(Runs)
    /\ rle_enc \in BOOLEAN
    /\ pc \in {"bytes", "done"}
    /\ at \in 0..Len(nibbles)

RunsInv ==
    rle_enc =>
        /\ at <= Whole => \E k \in 0..Len(runs) : Reads(k)
        /\ at > Whole => at = Len(nibbles) /\ list = Carriers(Remaining)
        /\ pc = "done" => at = Len(nibbles)

Line == 2 * BYTES_PER_LINE

LinesInv ==
    ~rle_enc =>
        /\ list = SubSeq(nibbles, 1, at)
        /\ at < Whole => \E lines \in Nat : at = lines * Line
        /\ at >= Whole => at = IF Whole > 0 /\ Whole % Line = 0
                               THEN Len(nibbles) ELSE Whole
        /\ pc = "done" => at >= Whole

Inv == Typing /\ RunsInv /\ LinesInv

-----------------------------------------------------------------------------
(* What is read next.                                                      *)

LEMMA WholeFacts ==
    ASSUME runs \in Seq(Runs)
    PROVE  /\ Whole \in Nat
           /\ Whole = Len(nibbles) \/ Whole = Len(nibbles) - 1
  <1>1. Len(nibbles) \in Nat
    BY Places
  <1> QED BY <1>1 DEF Whole

LEMMA OpenFacts ==
    ASSUME runs \in Seq(Runs), NEW k \in 1..Len(runs)
    PROVE  /\ runs[k] \in Runs
           /\ Open(k) <=> runs[k].length \notin 10..58
  <1>1. runs[k] \in Runs
    OBVIOUS
  <1>2. CASE runs[k].length \in 10..58
    BY <1>1, <1>2, EncodedFacts DEF Open
  <1>3. CASE runs[k].length \notin 10..58
    <2>1. Len(Encoded(runs[k])) = 1 \/ Len(Encoded(runs[k])) = 2
      BY <1>1, <1>3, EncodedFacts, RunFacts
    <2>2. \A n \in {1, 2} : n < 3
      OBVIOUS
    <2>3. Len(Encoded(runs[k])) < 3
      BY <2>1, <2>2
    <2>4. Open(k)
      BY <2>3 DEF Open
    <2> QED BY <1>1, <1>3, <2>4
  <1> QED BY <1>1, <1>2, <1>3

\* The next nibble of a run, and where it is.
LEMMA NextNibble ==
    ASSUME runs \in Seq(Runs), NEW k \in 0..Len(runs), at < Len(nibbles)
    PROVE  /\ Between(k) => /\ k < Len(runs)
                            /\ nibbles[at + 1] = runs[k + 1].modulation
           /\ AfterModulation(k) =>
                 nibbles[at + 1] = IF runs[k + 1].length \in 3..9
                                   THEN runs[k + 1].length + 6
                                   ELSE 9 + ((runs[k + 1].length - 3) % 7)
           /\ AfterDigit(k) =>
                 nibbles[at + 1] = 8 + ((runs[k + 1].length - 3) \div 7)
  <1> DEFINE N == Len(runs)
             r == runs[k + 1]
  <1>1. Between(k) => k < N
    <2> SUFFICES ASSUME Between(k), k = N PROVE FALSE
      OBVIOUS
    <2>1. at = Len(nibbles) /\ Len(nibbles) \in Nat
      BY Places DEF Between
    <2> QED BY <2>1
  <1> SUFFICES ASSUME k < N
               PROVE  /\ Between(k) => nibbles[at + 1] = r.modulation
                      /\ AfterModulation(k) =>
                            nibbles[at + 1] = IF r.length \in 3..9
                                   THEN r.length + 6 ELSE 9 + ((r.length - 3) % 7)
                      /\ AfterDigit(k) => nibbles[at + 1] = 8 + ((r.length - 3) \div 7)
    BY <1>1 DEF AfterModulation, AfterDigit
  <1>2. k \in 0..(N - 1) /\ r \in Runs
    OBVIOUS
  <1>3. /\ EndOf(k) \in Nat
        /\ \A i \in 1..Len(Encoded(r)) : nibbles[EndOf(k) + i] = Encoded(r)[i]
    BY <1>2, Places
  <1> HIDE DEF r, N
  <1>4. Between(k) => nibbles[at + 1] = r.modulation
    <2>1. Len(Encoded(r)) \in 1..3 /\ Encoded(r)[1] = r.modulation
      BY <1>2, EncodedFacts
    <2>2. \A n \in 1..3 : 1 \in 1..n
      OBVIOUS
    <2>3. 1 \in 1..Len(Encoded(r))
      BY <2>1, <2>2
    <2> QED BY <1>3, <2>1, <2>3 DEF Between
  <1>5. AfterModulation(k) =>
            nibbles[at + 1] = IF r.length \in 3..9
                              THEN r.length + 6 ELSE 9 + ((r.length - 3) % 7)
    <2> SUFFICES ASSUME AfterModulation(k)
                 PROVE  nibbles[at + 1] = IF r.length \in 3..9
                              THEN r.length + 6 ELSE 9 + ((r.length - 3) % 7)
      OBVIOUS
    <2>1. r.length \in 3..9 \/ r.length \in 10..58
      BY <1>2, RunFacts DEF AfterModulation, r
    <2>2. at + 1 = EndOf(k) + 2
      BY <1>3 DEF AfterModulation
    <2>3. CASE r.length \in 3..9
      <3>1. 2 \in 1..Len(Encoded(r)) /\ Encoded(r)[2] = r.length + 6
        BY <1>2, <2>3, EncodedFacts
      <3> QED BY <1>3, <2>2, <2>3, <3>1
    <2>4. CASE r.length \in 10..58
      <3>1. 2 \in 1..Len(Encoded(r)) /\ Encoded(r)[2] = 9 + ((r.length - 3) % 7)
        BY <1>2, <2>4, EncodedFacts
      <3>2. r.length \notin 3..9
        BY <2>4, Intervals
      <3> QED BY <1>3, <2>2, <3>1, <3>2
    <2> QED BY <2>1, <2>3, <2>4
  <1>6. AfterDigit(k) => nibbles[at + 1] = 8 + ((r.length - 3) \div 7)
    <2> SUFFICES ASSUME AfterDigit(k)
                 PROVE  nibbles[at + 1] = 8 + ((r.length - 3) \div 7)
      OBVIOUS
    <2>1. r.length \in 10..58
      BY DEF AfterDigit, r
    <2>2. at + 1 = EndOf(k) + 3
      BY <1>3 DEF AfterDigit
    <2>3. 3 \in 1..Len(Encoded(r)) /\ Encoded(r)[3] = 8 + ((r.length - 3) \div 7)
      BY <1>2, <2>1, EncodedFacts
    <2> QED BY <1>3, <2>2, <2>3
  <1> QED BY <1>4, <1>5, <1>6

\* Digits are above 8, so that the next nibble says where the loop is.
LEMMA WhereItIs ==
    ASSUME runs \in Seq(Runs), NEW k \in 0..Len(runs), at < Len(nibbles), Reads(k)
    PROVE  /\ nibbles[at + 1] \in 0..15
           /\ nibbles[at + 1] \in 0..8 => Between(k)
           /\ nibbles[at + 1] >= 9 /\ rle = Unset => AfterModulation(k)
           /\ nibbles[at + 1] >= 9 /\ rle # Unset => AfterDigit(k)
  <1>1. CASE Between(k)
    <2>1. k < Len(runs) /\ nibbles[at + 1] = runs[k + 1].modulation
      BY <1>1, NextNibble
    <2>2. runs[k + 1].modulation \in 0..8
      <3>1. runs[k + 1] \in Runs
        BY <2>1
      <3> QED BY <3>1, RunFacts
    <2>3. nibbles[at + 1] \in 0..8 /\ ~(nibbles[at + 1] >= 9)
      BY <2>1, <2>2
    <2> QED BY <1>1, <2>3
  <1>2. CASE AfterModulation(k)
    <2>1. runs[k + 1] \in Runs /\ runs[k + 1].length # 1
      BY <1>2 DEF AfterModulation
    <2>2. runs[k + 1].length \in 3..9 \/ runs[k + 1].length \in 10..58
      BY <2>1, RunFacts
    <2>3. nibbles[at + 1] \in 9..15
      <3>1. CASE runs[k + 1].length \in 3..9
        <4>1. nibbles[at + 1] = runs[k + 1].length + 6
          BY <1>2, <3>1, NextNibble
        <4> QED BY <3>1, <4>1, Intervals
      <3>2. CASE runs[k + 1].length \in 10..58
        <4>1. runs[k + 1].length \notin 3..9 /\ runs[k + 1].length \in 3..58
          BY <3>2, Intervals
        <4>2. nibbles[at + 1] = 9 + ((runs[k + 1].length - 3) % 7)
          BY <1>2, <4>1, NextNibble
        <4> QED BY <3>2, <4>1, <4>2, DigitsFacts
      <3> QED BY <2>2, <3>1, <3>2
    <2>4. nibbles[at + 1] \notin 0..8 /\ nibbles[at + 1] \in 0..15
      BY <2>3, Intervals
    <2> QED BY <1>2, <2>4 DEF AfterModulation
  <1>3. CASE AfterDigit(k)
    <2>1. runs[k + 1].length \in 10..58 /\ runs[k + 1].length \in 3..58
      BY <1>3 DEF AfterDigit
    <2>2. nibbles[at + 1] \in 9..15 /\ rle \in 9..15
      BY <1>3, <2>1, NextNibble, DigitsFacts DEF AfterDigit
    <2>3. nibbles[at + 1] \notin 0..8 /\ nibbles[at + 1] \in 0..15
      BY <2>2, Intervals
    <2>4. rle # Unset
      <3>1. \A n \in 9..15 : n # -1
        OBVIOUS
      <3> QED BY <2>2, <3>1, Zenon DEF Unset
    <2> QED BY <1>3, <2>3, <2>4
  <1> QED BY <1>1, <1>2, <1>3 DEF Reads

-----------------------------------------------------------------------------
(* The steps.                                                              *)

\* The map stays, and what is defined from it.
LEMMA MapStays ==
    ASSUME runs' = runs
    PROVE  /\ nibbles' = nibbles /\ Whole' = Whole /\ Remaining' = Remaining
           /\ \A k \in 0..Len(runs) :
                 /\ EndOf(k)' = EndOf(k) /\ Listed(k)' = Listed(k)
                 /\ Waits(k)' = Waits(k)
                 /\ \A l : Listing(runs, l)' = Listing(runs, l)
  <1>1. nibbles' = nibbles
    BY DEF nibbles
  <1>2. Whole' = Whole
    BY <1>1 DEF Whole
  <1>3. \A k : EndOf(k)' = EndOf(k)
    BY DEF EndOf
  <1>4. \A k : Open(k)' = Open(k)
    BY DEF Open
  <1>5. \A k : Waits(k)' = Waits(k) /\ Listed(k)' = Listed(k)
    BY <1>4 DEF Waits, Listed
  <1>6. \A l : Listing(runs, l)' = Listing(runs, l)
    BY DEF Listing
  <1>7. Remaining' = Remaining
    BY <1>2, <1>3, <1>4 DEF Remaining
  <1> QED BY <1>1, <1>2, <1>3, <1>5, <1>6, <1>7

\* What the end of a run of each length is.
LEMMA NextRun ==
    ASSUME runs \in Seq(Runs), NEW k \in 0..(Len(runs) - 1)
    PROVE  /\ runs[k + 1] \in Runs /\ EndOf(k) \in Nat
           /\ runs[k + 1].length = 1 => /\ EndOf(k + 1) = EndOf(k) + 1
                                        /\ Waits(k + 1) /\ Listed(k + 1) = k
           /\ runs[k + 1].length \in 3..9 => /\ EndOf(k + 1) = EndOf(k) + 2
                                             /\ Waits(k + 1) /\ Listed(k + 1) = k
           /\ runs[k + 1].length \in 10..58 => /\ EndOf(k + 1) = EndOf(k) + 3
                                               /\ ~Waits(k + 1) /\ Listed(k + 1) = k + 1
           /\ Listing(runs, k) \in Seq(0..8)
           /\ Listing(runs, k + 1) =
                  Listing(runs, k) \o Times(runs[k + 1].length, runs[k + 1].modulation)
  <1> DEFINE r == runs[k + 1]
  <1>1. /\ r \in Runs /\ k + 1 \in 1..Len(runs) /\ k \in 0..Len(runs)
        /\ k + 1 # 0 /\ (k + 1) - 1 = k
    OBVIOUS
  <1>2. EndOf(k) \in Nat /\ EndOf(k + 1) = EndOf(k) + Len(Encoded(r))
    BY <1>1, Places
  <1>3. Open(k + 1) <=> r.length \notin 10..58
    BY <1>1, OpenFacts
  <1>4. runs \in Seq(AnyRun)
    <2>1. \A q \in Runs : q \in AnyRun
      BY RunFacts DEF AnyRun
    <2> QED BY <2>1
  <1>5. /\ Listing(runs, k) \in Seq(0..8)
        /\ Listing(runs, k + 1) = Listing(runs, k) \o Times(r.length, r.modulation)
    BY <1>1, <1>4, ListingFacts
  <1> HIDE DEF r
  <1>6. Waits(k + 1) <=> r.length \notin 10..58
    BY <1>1, <1>3 DEF Waits
  <1>7. Listed(k + 1) = IF r.length \in 10..58 THEN k + 1 ELSE k
    BY <1>1, <1>6 DEF Listed
  <1>8. ASSUME r.length = 1
        PROVE  EndOf(k + 1) = EndOf(k) + 1 /\ Waits(k + 1) /\ Listed(k + 1) = k
    <2>1. r.length \notin 10..58
      BY <1>8
    <2>2. Len(Encoded(r)) = 1
      BY <1>1, <1>8, EncodedFacts
    <2> QED BY <1>2, <1>6, <1>7, <2>1, <2>2
  <1>9. ASSUME r.length \in 3..9
        PROVE  EndOf(k + 1) = EndOf(k) + 2 /\ Waits(k + 1) /\ Listed(k + 1) = k
    <2>1. r.length \notin 10..58
      BY <1>9, Intervals
    <2>2. Len(Encoded(r)) = 2
      BY <1>1, <1>9, EncodedFacts
    <2> QED BY <1>2, <1>6, <1>7, <2>1, <2>2
  <1>10. ASSUME r.length \in 10..58
         PROVE  EndOf(k + 1) = EndOf(k) + 3 /\ ~Waits(k + 1) /\ Listed(k + 1) = k + 1
    <2>1. Len(Encoded(r)) = 3
      BY <1>1, <1>10, EncodedFacts
    <2> QED BY <1>2, <1>6, <1>7, <1>10, <2>1
  <1> QED BY <1>1, <1>2, <1>5, <1>8, <1>9, <1>10 DEF r

\* Between two runs, the next modulation lists the run that waits.
LEMMA Closing ==
    ASSUME runs \in Seq(Runs), NEW k \in 0..Len(runs), Between(k)
    PROVE  /\ modulation = Unset => rle = Unset /\ list = Listing(runs, k)
           /\ modulation # Unset /\ rle = Unset =>
                  list \o <<modulation>> = Listing(runs, k)
           /\ modulation # Unset /\ rle # Unset =>
                  list \o Times(GET_RLE_LEN(8, rle), modulation) = Listing(runs, k)
  <1>1. CASE ~Waits(k)
    BY <1>1 DEF Between, Listed
  <1>2. CASE Waits(k)
    <2> DEFINE j == k - 1
               r == runs[k]
    <2>1. /\ j \in 0..(Len(runs) - 1) /\ j + 1 = k /\ k \in 1..Len(runs)
      BY <1>2 DEF Waits
    <2>2. r \in Runs /\ r.length \notin 10..58 /\ r.modulation \in 0..8
      BY <1>2, <2>1, OpenFacts, RunFacts DEF Waits
    <2>3. Listing(runs, k) = Listing(runs, j) \o Times(r.length, r.modulation)
      BY <2>1, NextRun
    <2>4. list = Listing(runs, j) /\ modulation = r.modulation
      BY <1>2 DEF Between, Listed
    <2>5. rle = IF r.length # 1 THEN r.length + 6 ELSE Unset
      BY <1>2 DEF Between
    <2> HIDE DEF r, j
    <2>6. modulation # Unset
      <3>1. \A n \in 0..8 : n # Unset
        BY DEF Unset
      <3> QED BY <2>2, <2>4, <3>1
    <2>7. CASE r.length = 1
      <3>1. Times(r.length, r.modulation) = <<r.modulation>>
        BY <2>2, <2>7, TimesFacts
      <3>2. rle = Unset
        BY <2>5, <2>7
      <3> QED BY <2>3, <2>4, <2>6, <3>1, <3>2
    <2>8. CASE r.length \in 3..9
      <3>1. GET_RLE_LEN(8, r.length + 6) = r.length /\ r.length + 6 \in 9..15 /\ r.length # 1
        BY <2>8, DigitsFacts, Intervals
      <3>2. rle = r.length + 6 /\ rle # Unset
        BY <2>5, <3>1 DEF Unset
      <3> QED BY <2>3, <2>4, <2>6, <3>1, <3>2
    <2> QED BY <2>2, <2>7, <2>8, RunFacts
  <1> QED BY <1>1, <1>2

LEMMA ModulationStep ==
    ASSUME Typing, RunsInv, ModulationField
    PROVE  \E k \in 0..Len(runs) : Reads(k)'
  <1>1. /\ runs \in Seq(Runs) /\ runs' = runs /\ at < Whole /\ at <= Whole
        /\ at \in Nat /\ Len(nibbles) \in Nat /\ at < Len(nibbles) /\ rle_enc
    BY WholeFacts, Places DEF Typing, ModulationField, InWholeByte
  <1>2. PICK k \in 0..Len(runs) : Reads(k)
    BY <1>1 DEF RunsInv
  <1>3. Between(k)
    BY <1>1, <1>2, WhereItIs DEF ModulationField
  <1>4. k < Len(runs) /\ nibbles[at + 1] = runs[k + 1].modulation
    BY <1>1, <1>3, NextNibble
  <1> DEFINE r == runs[k + 1]
  <1>5. k \in 0..(Len(runs) - 1) /\ k + 1 \in 0..Len(runs)
    BY <1>4
  <1>6. /\ modulation' = r.modulation /\ at' = EndOf(k) + 1
        /\ rle' = Unset
    BY <1>3, <1>4, <1>1, Closing DEF ModulationField, Between
  <1>7. list' = Listing(runs, k)
    <2>1. Listing(runs, k) \o <<>> = Listing(runs, k)
      BY <1>1, <1>5, NextRun
    <2>2. CASE modulation = Unset
      <3>1. list' = list \o <<>>
        BY <2>2 DEF ModulationField
      <3> QED BY <1>1, <1>3, <2>1, <2>2, <3>1, Closing
    <2>3. CASE modulation # Unset /\ rle = Unset
      <3>1. list' = list \o <<modulation>>
        BY <2>3 DEF ModulationField
      <3> QED BY <1>1, <1>3, <2>3, <3>1, Closing
    <2>4. CASE modulation # Unset /\ rle # Unset
      <3>1. list' = list \o Times(GET_RLE_LEN(8, rle), modulation)
        BY <2>4 DEF ModulationField
      <3> QED BY <1>1, <1>3, <2>4, <3>1, Closing
    <2> QED BY <2>2, <2>3, <2>4
  <1>8. /\ \A l \in 0..Len(runs) :
              /\ EndOf(l)' = EndOf(l) /\ Listed(l)' = Listed(l) /\ Waits(l)' = Waits(l)
              /\ \A m : Listing(runs, m)' = Listing(runs, m)
    BY <1>1, MapStays
  <1>9. CASE r.length = 1
    <2>1. EndOf(k + 1) = EndOf(k) + 1 /\ Waits(k + 1) /\ Listed(k + 1) = k
      BY <1>1, <1>5, <1>9, NextRun
    <2>2. /\ EndOf(k + 1)' = at' /\ Waits(k + 1)' /\ Listed(k + 1)' = k
          /\ Listing(runs, k)' = list'
      BY <1>5, <1>6, <1>7, <1>8, <2>1
    <2>3. Between(k + 1)'
      BY <1>1, <1>6, <1>9, <2>2 DEF Between
    <2> QED BY <1>5, <2>3 DEF Reads
  <1>10. CASE r.length # 1
    <2>1. EndOf(k)' = EndOf(k) /\ Listing(runs, k)' = list'
      BY <1>7, <1>8
    <2>2. AfterModulation(k)'
      BY <1>1, <1>4, <1>6, <1>10, <2>1 DEF AfterModulation
    <2> QED BY <2>2 DEF Reads
  <1> QED BY <1>9, <1>10

LEMMA FirstDigitStep ==
    ASSUME Typing, RunsInv, FirstDigit
    PROVE  \E k \in 0..Len(runs) : Reads(k)'
  <1>1. /\ runs \in Seq(Runs) /\ runs' = runs /\ at < Whole /\ at <= Whole
        /\ at \in Nat /\ Len(nibbles) \in Nat /\ at < Len(nibbles) /\ rle_enc
    BY WholeFacts, Places DEF Typing, FirstDigit, InWholeByte
  <1>2. PICK k \in 0..Len(runs) : Reads(k)
    BY <1>1 DEF RunsInv
  <1>3. AfterModulation(k)
    BY <1>1, <1>2, WhereItIs DEF FirstDigit
  <1> DEFINE r == runs[k + 1]
  <1>4. k \in 0..(Len(runs) - 1) /\ k + 1 \in 0..Len(runs) /\ r \in Runs /\ r.length # 1
    BY <1>1, <1>3 DEF AfterModulation
  <1>5. /\ at' = EndOf(k) + 2 /\ list' = Listing(runs, k) /\ modulation' = r.modulation
        /\ rle' = nibbles[at + 1]
    <2>1. EndOf(k) \in Nat
      BY <1>1, <1>4, NextRun
    <2> QED BY <1>3, <2>1 DEF AfterModulation, FirstDigit
  <1>6. /\ \A l \in 0..Len(runs) :
              /\ EndOf(l)' = EndOf(l) /\ Listed(l)' = Listed(l) /\ Waits(l)' = Waits(l)
              /\ \A m : Listing(runs, m)' = Listing(runs, m)
    BY <1>1, MapStays
  <1>7. nibbles[at + 1] = IF r.length \in 3..9 THEN r.length + 6
                          ELSE 9 + ((r.length - 3) % 7)
    BY <1>1, <1>3, NextNibble
  <1>8. CASE r.length \in 3..9
    <2>1. EndOf(k + 1) = EndOf(k) + 2 /\ Waits(k + 1) /\ Listed(k + 1) = k
      BY <1>1, <1>4, <1>8, NextRun
    <2>2. /\ EndOf(k + 1)' = at' /\ Waits(k + 1)' /\ Listed(k + 1)' = k
          /\ Listing(runs, k)' = list'
      BY <1>4, <1>5, <1>6, <2>1
    <2>3. rle' = r.length + 6
      BY <1>5, <1>7, <1>8
    <2>4. Between(k + 1)'
      BY <1>1, <1>4, <1>5, <2>2, <2>3 DEF Between
    <2> QED BY <1>4, <2>4 DEF Reads
  <1>9. CASE r.length \in 10..58
    <2>1. EndOf(k)' = EndOf(k) /\ Listing(runs, k)' = list'
      BY <1>5, <1>6
    <2>2. rle' = 9 + ((r.length - 3) % 7)
      BY <1>5, <1>7, <1>9, Intervals
    <2>3. k < Len(runs)
      BY <1>3 DEF AfterModulation
    <2>4. AfterDigit(k)'
      BY <1>1, <1>5, <1>9, <2>1, <2>2, <2>3 DEF AfterDigit
    <2> QED BY <2>4 DEF Reads
  <1> QED BY <1>4, <1>8, <1>9, RunFacts

LEMMA SecondDigitStep ==
    ASSUME Typing, RunsInv, SecondDigit
    PROVE  \E k \in 0..Len(runs) : Reads(k)'
  <1>1. /\ runs \in Seq(Runs) /\ runs' = runs /\ at < Whole /\ at <= Whole
        /\ at \in Nat /\ Len(nibbles) \in Nat /\ at < Len(nibbles) /\ rle_enc
    BY WholeFacts, Places DEF Typing, SecondDigit, InWholeByte
  <1>2. PICK k \in 0..Len(runs) : Reads(k)
    BY <1>1 DEF RunsInv
  <1>3. AfterDigit(k)
    BY <1>1, <1>2, WhereItIs DEF SecondDigit
  <1> DEFINE r == runs[k + 1]
  <1>4. k \in 0..(Len(runs) - 1) /\ k + 1 \in 0..Len(runs) /\ r.length \in 10..58
    BY <1>3 DEF AfterDigit
  <1>5. EndOf(k + 1) = EndOf(k) + 3 /\ ~Waits(k + 1) /\ Listed(k + 1) = k + 1 /\ EndOf(k) \in Nat
    BY <1>1, <1>4, NextRun
  <1>6. /\ at' = EndOf(k) + 3 /\ modulation' = Unset /\ rle' = Unset
        /\ list' = list \o Times(GET_RLE_LEN(nibbles[at + 1], rle), modulation)
    BY <1>3, <1>5 DEF AfterDigit, SecondDigit
  <1>7. list' = Listing(runs, k + 1)
    <2>1. GET_RLE_LEN(nibbles[at + 1], rle) = r.length
      <3>1. nibbles[at + 1] = 8 + ((r.length - 3) \div 7)
        BY <1>1, <1>3, NextNibble
      <3>2. rle = 9 + ((r.length - 3) % 7)
        BY <1>3 DEF AfterDigit
      <3>3. r.length \in 3..58
        BY <1>4, Intervals
      <3> QED BY <1>4, <3>1, <3>2, <3>3, DigitsFacts
    <2>2. list = Listing(runs, k) /\ modulation = r.modulation
      BY <1>3 DEF AfterDigit
    <2> QED BY <1>1, <1>4, <1>6, <2>1, <2>2, NextRun
  <1>8. /\ EndOf(k + 1)' = EndOf(k + 1) /\ Listed(k + 1)' = Listed(k + 1)
        /\ Waits(k + 1)' = Waits(k + 1)
        /\ Listing(runs, k + 1)' = Listing(runs, k + 1)
    BY <1>1, <1>4, MapStays
  <1>9. Between(k + 1)'
    BY <1>5, <1>6, <1>7, <1>8 DEF Between
  <1> QED BY <1>4, <1>9 DEF Reads
-----------------------------------------------------------------------------
(* The half byte at the end.                                               *)

\* A run whose nibble i is the last of the map is the last run and ends there.
LEMMA LastRun ==
    ASSUME runs \in Seq(Runs), NEW k \in 0..(Len(runs) - 1),
           NEW i \in 1..Len(Encoded(runs[k + 1])), EndOf(k) + i = Len(nibbles)
    PROVE  k + 1 = Len(runs) /\ Len(Encoded(runs[k + 1])) = i
  <1> DEFINE N == Len(runs)
             len == Len(Encoded(runs[k + 1]))
  <1>1. /\ k \in 0..N /\ N \in 0..N /\ k < N /\ k + 1 \in 0..N /\ N \in Nat /\ k \in Nat
        /\ runs[k + 1] \in Runs
    OBVIOUS
  <1>2. len \in Nat /\ i \in Nat /\ i <= len
    <2>1. len \in 1..3
      BY <1>1, EncodedFacts
    <2>2. i \in 1..len
      OBVIOUS
    <2> HIDE DEF len
    <2> QED BY <2>1, <2>2
  <1>3. /\ EndOf(k) \in Nat /\ EndOf(N) = Len(nibbles)
        /\ EndOf(k) + len <= EndOf(N) /\ EndOf(k + 1) = EndOf(k) + len
    BY <1>1, Places
  <1>4. ASSUME k + 1 < N PROVE FALSE
    <2>1. k + 2 \in 1..N /\ (k + 1) + 1 = k + 2 /\ runs[k + 2] \in Runs
      BY <1>1, <1>4
    <2>2. EndOf(k + 1) + Len(Encoded(runs[k + 2])) <= EndOf(N)
      BY <1>1, <1>4, <2>1, Places
    <2> DEFINE next == Len(Encoded(runs[k + 2]))
    <2>3. next \in 1..3
      BY <2>1, EncodedFacts
    <2>4. EndOf(k + 1) + next <= EndOf(N)
      BY <2>2
    <2> DEFINE a == EndOf(k)
               b == EndOf(N)
    <2>5. /\ a \in Nat /\ a + len + next <= b /\ b = a + i /\ len \in Nat
          /\ i \in Nat /\ i <= len
      BY <1>2, <1>3, <2>4, Zenon
    <2> HIDE DEF next, len, N, a, b
    <2>6. \A n \in 1..3 : n \in Nat /\ n >= 1
      OBVIOUS
    <2>7. next \in Nat /\ next >= 1
      BY <2>3, <2>6, Zenon
    <2> QED BY <2>5, <2>7
  <1> HIDE DEF len, N
  <1>5. len = i
    BY <1>2, <1>3
  <1>6. k + 1 = N
    BY <1>1, <1>4
  <1> QED BY <1>5, <1>6 DEF len, N

\* At the end of a run the loop is within no other.
LEMMA NotWithin ==
    ASSUME runs \in Seq(Runs), NEW k \in 0..Len(runs), NEW l \in 0..Len(runs),
           Reads(l), at = EndOf(k)
    PROVE  l = k /\ Between(k)
  <1> DEFINE N == Len(runs)
  <1>1. EndOf(k) \in Nat /\ EndOf(l) \in Nat
    BY Places
  <1>2. ASSUME k < l PROVE EndOf(k) < EndOf(l)
    <2>1. EndOf(k) + Len(Encoded(runs[k + 1])) <= EndOf(l)
      BY <1>2, Places
    <2>2. runs[k + 1] \in Runs
      BY <1>2
    <2> DEFINE len == Len(Encoded(runs[k + 1]))
    <2>3. len \in 1..3
      BY <2>2, EncodedFacts
    <2>4. EndOf(k) + len <= EndOf(l)
      BY <2>1
    <2> HIDE DEF len
    <2> QED BY <1>1, <2>3, <2>4
  <1>3. ASSUME l < k
        PROVE  ~Between(l) /\ ~AfterModulation(l) /\ ~AfterDigit(l)
    <2> DEFINE len == Len(Encoded(runs[l + 1]))
    <2>1. EndOf(l) + len <= EndOf(k)
      BY <1>3, Places
    <2>2. runs[l + 1] \in Runs
      BY <1>3
    <2>3. len \in 1..3
      BY <2>2, EncodedFacts
    <2>4. runs[l + 1].length # 1 => len # 1
      <3>1. runs[l + 1].length \in 3..9 => len = 2
        BY <2>2, EncodedFacts
      <3>2. runs[l + 1].length \in 10..58 => len = 3
        BY <2>2, EncodedFacts
      <3> HIDE DEF len
      <3>3. runs[l + 1].length = 1 \/ len = 2 \/ len = 3
        BY <2>2, <3>1, <3>2, RunFacts
      <3> QED BY <3>3
    <2>5. runs[l + 1].length \in 10..58 => len = 3
      BY <2>2, EncodedFacts
    <2> HIDE DEF len
    <2>6. ~Between(l)
      BY <1>1, <2>1, <2>3 DEF Between
    <2>7. ~AfterModulation(l)
      BY <1>1, <2>1, <2>3, <2>4 DEF AfterModulation
    <2>8. ~AfterDigit(l)
      BY <1>1, <2>1, <2>3, <2>5 DEF AfterDigit
    <2> QED BY <2>6, <2>7, <2>8
  <1>4. ~(l < k)
    BY <1>3 DEF Reads
  <1>5. ~(k < l)
    <2> SUFFICES ASSUME k < l PROVE FALSE
      OBVIOUS
    <2>1. at >= EndOf(l)
      BY <1>1 DEF Reads, Between, AfterModulation, AfterDigit
    <2> QED BY <1>1, <1>2, <2>1
  <1>6. l = k
    BY <1>4, <1>5
  <1>7. ~AfterModulation(k) /\ ~AfterDigit(k)
    BY <1>1 DEF AfterModulation, AfterDigit
  <1> QED BY <1>6, <1>7 DEF Reads

\* What is left of a run.
Left(r) == [r EXCEPT !.length = 0]

LEMMA RemainingFacts ==
    ASSUME runs \in Seq(Runs)
    PROVE  /\ runs \in Seq(AnyRun) /\ Remaining \in Seq(AnyRun)
           /\ Len(Remaining) = Len(runs)
           /\ \A k \in 1..Len(runs) :
                 /\ Left(runs[k]).length = 0 /\ Left(runs[k]).modulation \in 0..8
                 /\ EndOf(k) = Whole /\ Open(k) => Remaining[k] = Left(runs[k])
                 /\ ~(EndOf(k) = Whole /\ Open(k)) => Remaining[k] = runs[k]
  <1>1. \A r \in Runs : r \in AnyRun
    BY RunFacts DEF AnyRun
  <1>2. \A r \in AnyRun : /\ Left(r) \in AnyRun /\ Left(r).length = 0
                          /\ Left(r).modulation \in 0..8
    BY DEF AnyRun, Left
  <1>3. \A k \in 1..Len(runs) : runs[k] \in Runs
    OBVIOUS
  <1>4. \A k \in 1..Len(runs) :
            Remaining[k] = IF EndOf(k) = Whole /\ Open(k) THEN Left(runs[k]) ELSE runs[k]
    <2>1. DOMAIN runs = 1..Len(runs)
      BY LenProperties
    <2> QED BY <2>1, Zenon DEF Remaining, Left
  <1>5. \A k \in 1..Len(runs) : Remaining[k] \in AnyRun
    <2> SUFFICES ASSUME NEW k \in 1..Len(runs) PROVE Remaining[k] \in AnyRun
      OBVIOUS
    <2>1. runs[k] \in AnyRun /\ Left(runs[k]) \in AnyRun
      BY <1>1, <1>2, <1>3, Zenon
    <2>2. Remaining[k] = Left(runs[k]) \/ Remaining[k] = runs[k]
      BY <1>4, Zenon
    <2> QED BY <2>1, <2>2, Zenon
  <1>6. DOMAIN Remaining = 1..Len(runs) /\ Remaining = [k \in 1..Len(runs) |-> Remaining[k]]
    BY DEF Remaining
  <1>7. Remaining \in Seq(AnyRun) /\ Len(Remaining) = Len(runs)
    <2> HIDE DEF Remaining
    <2> QED BY <1>5, <1>6
  <1>8. runs \in Seq(AnyRun)
    BY <1>1
  <1> QED BY <1>1, <1>2, <1>3, <1>4, <1>7, <1>8

\* With everything before run k + 1 listed but the run that waits there, what
\* remains of the runs up to run k is on the list.
LEMMA ListedRemains ==
    ASSUME runs \in Seq(Runs), NEW k \in 0..Len(runs), EndOf(k) = Whole
    PROVE  Listing(Remaining, k) = Listing(runs, Listed(k))
  <1> DEFINE N == Len(runs)
  <1>1. /\ runs \in Seq(AnyRun) /\ Remaining \in Seq(AnyRun) /\ Len(Remaining) = N
        /\ N \in Nat /\ k \in Nat /\ k <= N
    BY RemainingFacts
  <1>2. ASSUME NEW j \in 1..N, j < k PROVE Remaining[j] = runs[j]
    <2>1. j \in 0..N /\ j + 1 \in 1..N /\ runs[j + 1] \in Runs
      BY <1>2
    <2> DEFINE len == Len(Encoded(runs[j + 1]))
    <2>2. len \in 1..3
      BY <2>1, EncodedFacts
    <2>3. EndOf(j) + len <= EndOf(k) /\ EndOf(j) \in Nat /\ EndOf(k) \in Nat
      BY <1>2, <2>1, Places
    <2> HIDE DEF len
    <2>4. EndOf(j) # EndOf(k)
      BY <2>2, <2>3
    <2> QED BY <2>4, RemainingFacts
  <1>3. CASE Waits(k)
    <2> DEFINE p == k - 1
    <2>1. k \in 1..N /\ p \in 0..(N - 1) /\ p + 1 = k /\ p \in Nat /\ p <= N
      BY <1>1, <1>3 DEF Waits
    <2>2. Remaining[k] = Left(runs[k]) /\ Left(runs[k]).length = 0 /\ Left(runs[k]).modulation \in 0..8
      BY <1>3, <2>1, RemainingFacts DEF Waits
    <2>3. \A j \in 1..p : Remaining[j] = runs[j]
      <3> SUFFICES ASSUME NEW j \in 1..p PROVE Remaining[j] = runs[j]
        OBVIOUS
      <3>1. j \in 1..N /\ j < k
        BY <2>1
      <3> QED BY <1>2, <3>1
    <2>4. Listed(k) = p
      BY <1>3 DEF Listed
    <2> HIDE DEF p
    <2>5. Listing(Remaining, p) = Listing(runs, p)
      BY <1>1, <2>1, <2>3, SameListing
    <2>6. /\ Listing(Remaining, k) = Listing(Remaining, p)
                  \o Times(Remaining[k].length, Remaining[k].modulation)
          /\ Listing(Remaining, p) \in Seq(0..8)
      <3>1. p \in 0..(Len(Remaining) - 1) /\ p \in 0..Len(Remaining)
        BY <1>1, <2>1
      <3> QED BY <1>1, <2>1, <3>1, ListingFacts
    <2>7. Times(Remaining[k].length, Remaining[k].modulation) = <<>>
      BY <2>2, TimesFacts
    <2>8. \A s \in Seq(0..8) : s \o <<>> = s
      OBVIOUS
    <2> QED BY <2>4, <2>5, <2>6, <2>7, <2>8
  <1>4. CASE ~Waits(k)
    <2>1. \A j \in 1..k : Remaining[j] = runs[j]
      <3> SUFFICES ASSUME NEW j \in 1..k PROVE Remaining[j] = runs[j]
        OBVIOUS
      <3>1. j \in 1..N /\ (j < k \/ j = k) /\ k # 0
        BY <1>1
      <3>2. j = k => Remaining[j] = runs[j]
        BY <1>4, <3>1, RemainingFacts DEF Waits
      <3> QED BY <1>2, <3>1, <3>2
    <2>2. Listing(Remaining, k) = Listing(runs, k)
      BY <1>1, <2>1, SameListing
    <2> QED BY <1>4, <2>2 DEF Listed
  <1> QED BY <1>3, <1>4
\* The loop stands one nibble before the end, which is the half byte: only the
\* last run is left, and only the run before it can end with the whole bytes.
LEMMA BeforeTheLast ==
    ASSUME runs \in Seq(Runs), Whole = Len(nibbles) - 1,
           NEW k \in 0..(Len(runs) - 1), k + 1 = Len(runs), EndOf(k) <= Whole
    PROVE  /\ EndOf(k) # Whole => Listing(Remaining, k) = Listing(runs, k)
           /\ EndOf(k) = Whole => Listing(Remaining, k) = Listing(runs, Listed(k))
           /\ Carriers(Remaining) = Listing(Remaining, k)
                  \o Times(runs[k + 1].length, runs[k + 1].modulation)
  <1> DEFINE N == Len(runs)
  <1>1. /\ runs \in Seq(AnyRun) /\ Remaining \in Seq(AnyRun) /\ Len(Remaining) = N
        /\ N \in Nat /\ k \in Nat /\ k <= N /\ k \in 0..N /\ k + 1 \in 1..N /\ N \in 0..N
    BY RemainingFacts
  <1>2. EndOf(N) = Len(nibbles) /\ Len(nibbles) \in Nat /\ EndOf(k) \in Nat
    BY <1>1, Places
  <1>3. Remaining[k + 1] = runs[k + 1]
    <2>1. EndOf(k + 1) # Whole
      BY <1>2
    <2> QED BY <1>1, <2>1, RemainingFacts
  <1>4. Carriers(Remaining) = Listing(Remaining, k)
            \o Times(runs[k + 1].length, runs[k + 1].modulation)
    <2>1. Listing(Remaining, Len(Remaining)) = Carriers(Remaining)
      BY <1>1, ListingFacts
    <2>2. Listing(Remaining, k + 1) = Listing(Remaining, k)
            \o Times(Remaining[k + 1].length, Remaining[k + 1].modulation)
      BY <1>1, ListingFacts
    <2> QED BY <1>1, <1>3, <2>1, <2>2
  <1>5. ASSUME EndOf(k) # Whole
        PROVE  Listing(Remaining, k) = Listing(runs, k)
    <2>1. \A j \in 1..k : Remaining[j] = runs[j]
      <3> SUFFICES ASSUME NEW j \in 1..k PROVE Remaining[j] = runs[j]
        OBVIOUS
      <3>1. j \in 1..N /\ j \in 0..N /\ (j = k \/ j < k)
        BY <1>1
      <3>2. EndOf(j) # Whole
        <4>1. CASE j = k
          BY <1>5, <4>1
        <4>2. CASE j < k
          <5> DEFINE len == Len(Encoded(runs[j + 1]))
          <5>1. runs[j + 1] \in Runs
            BY <1>1, <3>1, <4>2
          <5>2. len \in 1..3
            BY <5>1, EncodedFacts
          <5>3. EndOf(j) + len <= EndOf(k) /\ EndOf(j) \in Nat
            BY <1>1, <3>1, <4>2, Places
          <5>4. Whole \in Nat
            BY WholeFacts
          <5> HIDE DEF len
          <5> QED BY <1>2, <5>2, <5>3, <5>4
        <4> QED BY <3>1, <4>1, <4>2
      <3> QED BY <3>1, <3>2, RemainingFacts
    <2> QED BY <1>1, <2>1, SameListing
  <1>6. EndOf(k) = Whole => Listing(Remaining, k) = Listing(runs, Listed(k))
    BY <1>1, ListedRemains
  <1> QED BY <1>4, <1>5, <1>6

LEMMA LastNibbleStep ==
    ASSUME Typing, RunsInv, LastNibble
    PROVE  /\ at' = Len(nibbles) /\ at' > Whole
           /\ list' = Carriers(Remaining)
  <1>1. /\ runs \in Seq(Runs) /\ at = Whole /\ at <= Whole
        /\ at \in Nat /\ Len(nibbles) \in Nat /\ at < Len(nibbles) /\ rle_enc
        /\ at' = at + 1
    BY WholeFacts, Places DEF Typing, LastNibble
  <1>2. Whole = Len(nibbles) - 1 /\ Whole \in Nat
    BY <1>1, WholeFacts
  <1>3. at' = Len(nibbles) /\ at' > Whole
    BY <1>1, <1>2
  <1>4. PICK k \in 0..Len(runs) : Reads(k)
    BY <1>1 DEF RunsInv
  <1> DEFINE r == runs[k + 1]
             N == Len(runs)
             last == nibbles[at + 1]
  <1>5. N \in Nat /\ k \in Nat /\ (k < N => k \in 0..(N - 1) /\ k + 1 \in 1..N /\ r \in Runs)
    BY <1>1
  <1>6. EndOf(k) \in Nat
    BY <1>1, Places
  <1>7. CASE Between(k)
    <2>1. k < N /\ last = r.modulation /\ EndOf(k) = Whole
      BY <1>1, <1>7, NextNibble DEF Between
    <2>2. 1 \in 1..Len(Encoded(r))
      <3>1. \A n \in 1..3 : 1 \in 1..n
        OBVIOUS
      <3> QED BY <1>5, <2>1, <3>1, EncodedFacts
    <2>3. EndOf(k) + 1 = Len(nibbles)
      BY <1>2, <2>1
    <2>4. k + 1 = N /\ Len(Encoded(r)) = 1
      BY <1>1, <1>5, <2>1, <2>2, <2>3, LastRun
    <2>5. r.length = 1 /\ r.modulation \in 0..8
      <3>1. r.length \in 3..9 => Len(Encoded(r)) = 2
        BY <1>5, <2>1, EncodedFacts
      <3>2. r.length \in 10..58 => Len(Encoded(r)) = 3
        BY <1>5, <2>1, EncodedFacts
      <3> QED BY <1>5, <2>1, <2>4, <3>1, <3>2, RunFacts
    <2>6. list = Listing(Remaining, k)
      <3>1. k \in 0..(Len(runs) - 1) /\ k + 1 = Len(runs) /\ EndOf(k) <= Whole
        BY <1>1, <1>5, <2>1, <2>4
      <3>2. Listing(Remaining, k) = Listing(runs, Listed(k))
        BY <1>1, <1>2, <2>1, <3>1, BeforeTheLast
      <3> QED BY <1>7, <3>2, Zenon DEF Between
    <2>7. list' = list \o <<r.modulation>>
      <3>1. list' = list \o (CASE last \in 0..8 -> <<last>>
                              [] last >= 9 /\ rle = Unset ->
                                     Times(GET_RLE_LEN(8, last), modulation)
                              [] OTHER -> Times(GET_RLE_LEN(last, rle), modulation))
        BY Zenon DEF LastNibble
      <3>2. last \in 0..8 /\ ~(last >= 9)
        BY <2>1, <2>5, Intervals, Zenon
      <3> HIDE DEF last, r
      <3> QED BY <2>1, <3>1, <3>2
    <2>8. Times(r.length, r.modulation) = <<r.modulation>>
      BY <2>5, TimesFacts
    <2>9. Carriers(Remaining) = Listing(Remaining, k) \o Times(r.length, r.modulation)
      BY <1>1, <1>2, <1>5, <2>1, <2>4, BeforeTheLast
    <2> QED BY <1>3, <2>6, <2>7, <2>8, <2>9
  <1>8. CASE AfterModulation(k)
    <2>1. /\ k < N /\ r.length # 1 /\ EndOf(k) + 1 = Whole
          /\ list = Listing(runs, k) /\ modulation = r.modulation /\ rle = Unset
      BY <1>1, <1>8 DEF AfterModulation
    <2>2. 2 \in 1..Len(Encoded(r))
      <3>1. r.length \in 3..9 => Len(Encoded(r)) = 2
        BY <1>5, <2>1, EncodedFacts
      <3>2. r.length \in 10..58 => Len(Encoded(r)) = 3
        BY <1>5, <2>1, EncodedFacts
      <3>3. Len(Encoded(r)) = 2 \/ Len(Encoded(r)) = 3
        BY <1>5, <2>1, <3>1, <3>2, RunFacts
      <3> QED BY <3>3
    <2>3. EndOf(k) + 2 = Len(nibbles) /\ EndOf(k) # Whole /\ EndOf(k) <= Whole
      BY <1>2, <1>6, <2>1
    <2>4. k + 1 = N /\ Len(Encoded(r)) = 2
      BY <1>1, <1>5, <2>1, <2>2, <2>3, LastRun
    <2>5. r.length \in 3..9
      <3>1. r.length \in 10..58 => Len(Encoded(r)) = 3
        BY <1>5, <2>1, EncodedFacts
      <3> QED BY <1>5, <2>1, <2>4, <3>1, RunFacts
    <2>6. last = r.length + 6
      BY <1>1, <1>8, <2>5, NextNibble
    <2>7. last \in 9..15 /\ GET_RLE_LEN(8, last) = r.length
      <3>1. r.length \in 3..58 /\ r.length + 6 \in 9..15
        BY <2>5, Intervals, Zenon
      <3>2. GET_RLE_LEN(8, r.length + 6) = r.length
        BY <2>5, <3>1, DigitsFacts, Zenon
      <3> QED BY <2>6, <3>1, <3>2, Zenon
    <2>8. last \notin 0..8 /\ last >= 9
      BY <2>7, Intervals
    <2>9. list' = list \o Times(r.length, r.modulation)
      <3>1. list' = list \o (CASE last \in 0..8 -> <<last>>
                              [] last >= 9 /\ rle = Unset ->
                                     Times(GET_RLE_LEN(8, last), modulation)
                              [] OTHER -> Times(GET_RLE_LEN(last, rle), modulation))
        BY Zenon DEF LastNibble
      <3> HIDE DEF last, r
      <3> QED BY <2>1, <2>7, <2>8, <3>1, Zenon
    <2>10. list = Listing(Remaining, k)
      BY <1>1, <1>2, <1>5, <2>1, <2>3, <2>4, BeforeTheLast
    <2>11. Carriers(Remaining) = Listing(Remaining, k) \o Times(r.length, r.modulation)
      BY <1>1, <1>2, <1>5, <2>1, <2>3, <2>4, BeforeTheLast
    <2> QED BY <1>3, <2>9, <2>10, <2>11
  <1>9. CASE AfterDigit(k)
    <2>1. /\ k < N /\ r.length \in 10..58 /\ EndOf(k) + 2 = Whole
          /\ list = Listing(runs, k) /\ modulation = r.modulation
          /\ rle = 9 + ((r.length - 3) % 7)
      BY <1>1, <1>9 DEF AfterDigit
    <2>2. 3 \in 1..Len(Encoded(r))
      <3>1. Len(Encoded(r)) = 3
        BY <1>5, <2>1, EncodedFacts
      <3> QED BY <3>1
    <2>3. EndOf(k) + 3 = Len(nibbles) /\ EndOf(k) # Whole /\ EndOf(k) <= Whole
      <3>1. EndOf(k) + 2 = Whole
        BY <2>1
      <3> QED BY <1>1, <1>2, <1>6, <3>1
    <2>4. k + 1 = N
      BY <1>1, <1>5, <2>1, <2>2, <2>3, LastRun
    <2>5. last = 8 + ((r.length - 3) \div 7)
      BY <1>1, <1>9, NextNibble
    <2>6. last \in 9..15 /\ rle \in 9..15 /\ GET_RLE_LEN(last, rle) = r.length
      <3>1. r.length \in 3..58
        BY <2>1, Intervals
      <3> QED BY <2>1, <2>5, <3>1, DigitsFacts
    <2>7. last \notin 0..8 /\ last >= 9 /\ rle # Unset
      <3>1. \A n \in 9..15 : n # Unset
        BY DEF Unset
      <3> QED BY <2>6, <3>1, Intervals
    <2>8. list' = list \o Times(r.length, r.modulation)
      BY <2>1, <2>6, <2>7 DEF LastNibble
    <2>9. list = Listing(Remaining, k)
      BY <1>1, <1>2, <1>5, <2>1, <2>3, <2>4, BeforeTheLast
    <2>10. Carriers(Remaining) = Listing(Remaining, k) \o Times(r.length, r.modulation)
      BY <1>1, <1>2, <1>5, <2>1, <2>3, <2>4, BeforeTheLast
    <2> QED BY <1>3, <2>8, <2>9, <2>10
  <1> QED BY <1>4, <1>7, <1>8, <1>9 DEF Reads
-----------------------------------------------------------------------------
(* The lines of a map without runs.                                        *)

LEMMA NextPart ==
    ASSUME NEW T, NEW s \in Seq(T), NEW m \in 0..Len(s), NEW n \in m..Len(s)
    PROVE  SubSeq(s, 1, m) \o SubSeq(s, m + 1, n) = SubSeq(s, 1, n)
  <1> DEFINE a == SubSeq(s, 1, m)
             b == SubSeq(s, m + 1, n)
             c == SubSeq(s, 1, n)
  <1>1. /\ m \in Nat /\ n \in Nat /\ m <= n /\ n <= Len(s) /\ Len(s) \in Nat
    OBVIOUS
  <1>2. a \in Seq(T) /\ Len(a) = m /\ \A i \in 1..m : a[i] = s[i]
    BY <1>1
  <1>3. b \in Seq(T) /\ Len(b) = n - m /\ \A i \in 1..(n - m) : b[i] = s[m + i]
    BY <1>1
  <1>4. c \in Seq(T) /\ Len(c) = n /\ \A i \in 1..n : c[i] = s[i]
    BY <1>1
  <1> HIDE DEF a, b, c
  <1>5. a \o b \in Seq(T) /\ Len(a \o b) = n
    BY <1>1, <1>2, <1>3
  <1>6. ASSUME NEW i \in 1..n PROVE (a \o b)[i] = c[i]
    <2>1. CASE i <= m
      BY <1>1, <1>2, <1>3, <1>4, <2>1
    <2>2. CASE i > m
      <3>1. i - m \in 1..(n - m) /\ m + (i - m) = i
        BY <1>1, <2>2
      <3>2. (a \o b)[i] = b[i - m]
        BY <1>1, <1>2, <1>3, <2>2
      <3> QED BY <1>3, <1>4, <3>1, <3>2
    <2>3. i <= m \/ i > m
      BY <1>1
    <2> QED BY <2>1, <2>2, <2>3
  <1>7. a \o b = c
    BY <1>1, <1>4, <1>5, <1>6, SeqEqual
  <1> QED BY <1>7 DEF a, b, c

\* A number between two multiples is none.
LEMMA BetweenMultiples ==
    ASSUME NEW c \in Nat \ {0}, NEW q \in Nat, NEW w \in Nat
    PROVE  /\ w = (q + 1) * c => w > 0 /\ w % c = 0
           /\ q * c < w /\ w < (q + 1) * c => w % c # 0
  <1> DEFINE d == w \div c
             m == w % c
  <1>1. d \in Nat /\ m \in Nat /\ m < c /\ w = d * c + m
    OBVIOUS
  <1>2. ASSUME NEW x \in Nat, NEW y \in Nat, x < y
        PROVE  x * c + c <= y * c /\ x * c \in Nat /\ y * c \in Nat
    <2> DEFINE e == y - (x + 1)
    <2>1. e \in Nat /\ y = (x + 1) + e
      BY <1>2
    <2> HIDE DEF e
    <2>2. y * c = x * c + c + e * c
      BY <2>1
    <2>3. e * c \in Nat /\ x * c \in Nat /\ y * c \in Nat
      BY <2>1
    <2> QED BY <2>2, <2>3
  <1>3. (q + 1) * c = q * c + c /\ q * c \in Nat /\ d * c \in Nat
    BY <1>1
  <1> HIDE DEF d, m
  <1>4. ASSUME w = (q + 1) * c PROVE w > 0 /\ m = 0
    <2>1. w > 0
      BY <1>3, <1>4
    <2>2. ~(d < q + 1)
      <3> SUFFICES ASSUME d < q + 1 PROVE FALSE
        OBVIOUS
      <3>1. d * c + c <= (q + 1) * c
        BY <1>1, <1>2
      <3> QED BY <1>1, <1>3, <1>4, <3>1
    <2>3. ~(q + 1 < d)
      <3> SUFFICES ASSUME q + 1 < d PROVE FALSE
        OBVIOUS
      <3>1. (q + 1) * c + c <= d * c
        BY <1>1, <1>2
      <3> QED BY <1>1, <1>3, <1>4, <3>1
    <2>4. d = q + 1
      BY <1>1, <2>2, <2>3
    <2>5. d * c = w
      BY <1>4, <2>4
    <2> QED BY <1>1, <1>3, <2>1, <2>5
  <1>5. ASSUME q * c < w, w < (q + 1) * c, m = 0 PROVE FALSE
    <2>1. w = d * c
      BY <1>1, <1>3, <1>5
    <2>2. CASE d < q
      <3>1. d * c + c <= q * c
        BY <1>1, <1>2, <2>2
      <3> QED BY <1>3, <1>5, <2>1, <3>1
    <2>3. CASE d = q
      BY <1>3, <1>5, <2>1, <2>3
    <2>4. CASE q < d
      <3>1. q * c + c <= d * c
        BY <1>1, <1>2, <2>4
      <3> QED BY <1>3, <1>5, <2>1, <3>1
    <2> QED BY <1>1, <2>2, <2>3, <2>4
  <1>6. m = w % c
    BY DEF m
  <1> QED BY <1>4, <1>5, <1>6

LEMMA DumpLineStep ==
    ASSUME Typing, LinesInv, DumpLine
    PROVE  LinesInv' /\ at' \in 0..Len(nibbles)
  <1>1. /\ runs \in Seq(Runs) /\ runs' = runs /\ rle_enc' = rle_enc /\ ~rle_enc
        /\ pc' = "bytes" /\ at < Whole /\ at \in Nat
    BY DEF Typing, DumpLine
  <1>2. /\ nibbles \in Seq(0..15) /\ Len(nibbles) \in Nat /\ Whole \in Nat
        /\ Whole = Len(nibbles) \/ Whole = Len(nibbles) - 1
    BY <1>1, Places, WholeFacts
  <1>3. nibbles' = nibbles /\ Whole' = Whole /\ Line' = Line
    BY <1>1, MapStays DEF Line
  <1>4. Line \in Nat \ {0} /\ 2 * BYTES_PER_LINE = Line
    BY TonemapAssumption DEF Line
  <1>5. PICK lines \in Nat : at = lines * Line
    BY <1>1 DEF LinesInv
  <1> DEFINE end == at + Line
  <1>6. end = (lines + 1) * Line /\ end \in Nat /\ end > at
    BY <1>1, <1>4, <1>5
  <1>7. /\ end < Whole => at' = end
        /\ end = Whole => at' = Len(nibbles)
        /\ end > Whole => at' = Whole
    BY <1>1, <1>2, <1>4 DEF DumpLine
  <1> HIDE DEF end
  <1>8. at' \in 0..Len(nibbles) /\ at' \in at..Len(nibbles)
    BY <1>1, <1>2, <1>6, <1>7
  <1>9. list' = SubSeq(nibbles, 1, at')
    <2>1. list' = SubSeq(nibbles, 1, at) \o SubSeq(nibbles, at + 1, at')
      BY <1>1 DEF DumpLine, LinesInv
    <2>2. at \in 0..Len(nibbles)
      BY DEF Typing
    <2> QED BY <1>2, <1>8, <2>1, <2>2, NextPart
  <1>10. at' < Whole => \E n \in Nat : at' = n * Line
    <2> SUFFICES ASSUME at' < Whole PROVE \E n \in Nat : at' = n * Line
      OBVIOUS
    <2>1. at' = (lines + 1) * Line /\ lines + 1 \in Nat
      BY <1>2, <1>6, <1>7
    <2> QED BY <2>1
  <1>11. at' >= Whole => at' = IF Whole > 0 /\ Whole % Line = 0
                               THEN Len(nibbles) ELSE Whole
    <2> SUFFICES ASSUME at' >= Whole
                 PROVE  at' = IF Whole > 0 /\ Whole % Line = 0 THEN Len(nibbles) ELSE Whole
      OBVIOUS
    <2>1. CASE end = Whole
      <3>1. Whole > 0 /\ Whole % Line = 0
        BY <1>2, <1>4, <1>6, <2>1, BetweenMultiples
      <3> QED BY <1>7, <2>1, <3>1
    <2>2. CASE end > Whole
      <3>1. Whole % Line # 0
        BY <1>1, <1>2, <1>4, <1>5, <1>6, <2>2, BetweenMultiples
      <3> QED BY <1>7, <2>2, <3>1
    <2>3. ~(end < Whole)
      BY <1>2, <1>6, <1>7
    <2> QED BY <1>2, <1>6, <2>1, <2>2, <2>3
  <1>12. LinesInv'
    BY <1>1, <1>3, <1>9, <1>10, <1>11 DEF LinesInv
  <1> QED BY <1>8, <1>12
-----------------------------------------------------------------------------
(* The invariant holds, and what follows from it.                          *)

LEMMA Starts ==
    ASSUME Init
    PROVE  Inv
  <1>1. PICK n \in 1..MaxRuns : runs \in [1..n -> Runs]
    BY DEF Init
  <1>2. n \in Nat /\ runs \in Seq(Runs)
    <2>1. n \in Nat
      BY TonemapAssumption
    <2> QED BY <1>1, <2>1
  <1>3. /\ nibbles \in Seq(0..15) /\ Len(nibbles) \in Nat /\ EndOf(0) = 0
        /\ Whole \in Nat
    BY <1>2, Places, WholeFacts
  <1>4. Typing
    BY <1>2, <1>3 DEF Typing, Init
  <1>5. Between(0)
    <2>1. ~Waits(0) /\ Listed(0) = 0
      BY DEF Waits, Listed
    <2>2. Listing(runs, 0) = <<>>
      BY <1>2, RemainingFacts, ListingFacts
    <2> QED BY <1>3, <2>1, <2>2 DEF Between, Init
  <1>6. RunsInv
    <2>1. 0 \in 0..Len(runs) /\ Reads(0)
      BY <1>2, <1>5 DEF Reads
    <2> QED BY <1>3, <2>1 DEF RunsInv, Init
  <1>7. LinesInv
    <2>1. SubSeq(nibbles, 1, 0) = <<>>
      BY <1>3
    <2>2. 0 = 0 * Line /\ 0 \in Nat
      BY TonemapAssumption DEF Line
    <2>3. 0 >= Whole => ~(Whole > 0) /\ 0 = Whole
      BY <1>3
    <2> QED BY <2>1, <2>2, <2>3 DEF LinesInv, Init
  <1> QED BY <1>4, <1>6, <1>7 DEF Inv

\* A step within the whole bytes of a map of runs.
LEMMA WithinBytes ==
    ASSUME Typing, InWholeByte, at' = at + 1, runs' = runs, rle_enc' = rle_enc,
           pc' = pc, \E k \in 0..Len(runs) : Reads(k)'
    PROVE  Inv'
  <1>1. /\ runs \in Seq(Runs) /\ rle_enc /\ pc = "bytes" /\ at \in Nat /\ at < Whole
        /\ Len(nibbles) \in Nat /\ Whole \in Nat
        /\ Whole = Len(nibbles) \/ Whole = Len(nibbles) - 1
    BY Places, WholeFacts DEF Typing, InWholeByte
  <1>2. nibbles' = nibbles /\ Whole' = Whole
    BY MapStays
  <1>3. Typing'
    BY <1>1, <1>2 DEF Typing
  <1>4. RunsInv'
    <2>1. ~(at' > Whole')
      BY <1>1, <1>2
    <2> QED BY <1>1, <2>1 DEF RunsInv
  <1>5. LinesInv'
    BY <1>1 DEF LinesInv
  <1> QED BY <1>3, <1>4, <1>5 DEF Inv

LEMMA EveryStep ==
    ASSUME Inv, [Next]_vars
    PROVE  Inv'
  <1>1. Typing /\ RunsInv /\ LinesInv
    BY DEF Inv
  <1>2. CASE ModulationField
    BY <1>1, <1>2, ModulationStep, WithinBytes DEF ModulationField
  <1>3. CASE FirstDigit
    BY <1>1, <1>3, FirstDigitStep, WithinBytes DEF FirstDigit
  <1>4. CASE SecondDigit
    BY <1>1, <1>4, SecondDigitStep, WithinBytes DEF SecondDigit
  <1>5. CASE LastNibble
    <2>1. /\ at' = Len(nibbles) /\ at' > Whole /\ list' = Carriers(Remaining)
      BY <1>1, <1>5, LastNibbleStep
    <2>2. /\ runs' = runs /\ rle_enc' = rle_enc /\ rle_enc /\ pc' = "bytes"
      BY <1>5 DEF LastNibble
    <2>3. nibbles' = nibbles /\ Whole' = Whole /\ Remaining' = Remaining
      BY <2>2, MapStays
    <2>4. Len(nibbles) \in Nat /\ Whole \in Nat
      BY <1>1, Places, WholeFacts DEF Typing
    <2>5. Typing'
      BY <1>1, <2>1, <2>2, <2>3, <2>4 DEF Typing
    <2>6. Carriers(Remaining)' = Carriers(Remaining)
      BY <2>3 DEF Carriers
    <2>7. RunsInv'
      <3>1. ~(at' <= Whole')
        BY <2>1, <2>3, <2>4
      <3> QED BY <2>1, <2>2, <2>3, <2>6, <3>1 DEF RunsInv
    <2>8. LinesInv'
      BY <2>2 DEF LinesInv
    <2> QED BY <2>5, <2>7, <2>8 DEF Inv
  <1>6. CASE DumpLine
    <2>1. LinesInv' /\ at' \in 0..Len(nibbles)
      BY <1>1, <1>6, DumpLineStep
    <2>2. /\ runs' = runs /\ rle_enc' = rle_enc /\ ~rle_enc /\ pc' = "bytes"
      BY <1>6 DEF DumpLine
    <2>3. nibbles' = nibbles
      BY <2>2, MapStays
    <2> QED BY <1>1, <2>1, <2>2, <2>3 DEF Inv, Typing, RunsInv
  <1>7. CASE Return
    <2>1. /\ runs' = runs /\ rle_enc' = rle_enc /\ at' = at /\ list' = list
          /\ modulation' = modulation /\ rle' = rle /\ pc' = "done"
          /\ rle_enc => at = Len(nibbles)
          /\ ~rle_enc => at >= Whole
      BY <1>7 DEF Return
    <2>2. /\ nibbles' = nibbles /\ Whole' = Whole /\ Remaining' = Remaining
          /\ Line' = Line /\ Carriers(Remaining)' = Carriers(Remaining)
      BY <2>1, MapStays DEF Line, Carriers
    <2>3. \A k \in 0..Len(runs) : Reads(k)' <=> Reads(k)
      BY <2>1, MapStays DEF Reads, Between, AfterModulation, AfterDigit
    <2>4. Typing'
      BY <1>1, <2>1, <2>2 DEF Typing
    <2>5. RunsInv'
      BY <1>1, <2>1, <2>2, <2>3 DEF RunsInv
    <2>6. LinesInv'
      BY <1>1, <2>1, <2>2 DEF LinesInv
    <2> QED BY <2>4, <2>5, <2>6 DEF Inv
  <1>8. CASE UNCHANGED vars
    <2>1. /\ runs' = runs /\ rle_enc' = rle_enc /\ at' = at /\ list' = list
          /\ modulation' = modulation /\ rle' = rle /\ pc' = pc
      BY <1>8 DEF vars
    <2>2. /\ nibbles' = nibbles /\ Whole' = Whole /\ Remaining' = Remaining
          /\ Line' = Line /\ Carriers(Remaining)' = Carriers(Remaining)
      BY <2>1, MapStays DEF Line, Carriers
    <2>3. \A k \in 0..Len(runs) : Reads(k)' <=> Reads(k)
      BY <2>1, MapStays DEF Reads, Between, AfterModulation, AfterDigit
    <2>4. Typing'
      BY <1>1, <2>1, <2>2 DEF Typing
    <2>5. RunsInv'
      BY <1>1, <2>1, <2>2, <2>3 DEF RunsInv
    <2>6. LinesInv'
      BY <1>1, <2>1, <2>2 DEF LinesInv
    <2> QED BY <2>4, <2>5, <2>6 DEF Inv
  <1> QED BY <1>2, <1>3, <1>4, <1>5, <1>6, <1>7, <1>8 DEF Next

\* Wherever hpav_dump_tonemap is, its modulation_list and the run it has open
\* are those of the nibbles it has read (hpav_utils.c:503-549), and what it has
\* printed of a map without runs is the start of the map (hpav_utils.c:566-591).
THEOREM Invariance == Spec => []Inv
  <1>1. Init => Inv
    BY Starts
  <1>2. Inv /\ [Next]_vars => Inv'
    BY EveryStep
  <1> QED BY <1>1, <1>2, PTL DEF Spec

\* Between two runs no run of a tone map has been dropped, listed twice or
\* given another length (hpav_utils.c:503-532).
THEOREM RunsStayKept == Spec => []RunsAreKept
  <1>1. Inv => RunsAreKept
    <2> SUFFICES ASSUME Inv, NEW k \in DOMAIN runs, pc = "bytes", rle_enc,
                        at = EndOf(k), at <= Whole
                 PROVE  IF Open(k)
                        THEN /\ list = Carriers(SubSeq(runs, 1, k - 1))
                             /\ modulation = runs[k].modulation
                        ELSE list = Carriers(SubSeq(runs, 1, k))
      BY DEF RunsAreKept
    <2>1. runs \in Seq(Runs) /\ k \in 0..Len(runs) /\ k # 0
      BY DEF Inv, Typing
    <2>2. PICK l \in 0..Len(runs) : Reads(l)
      BY DEF Inv, RunsInv
    <2>3. Between(k)
      BY <2>1, <2>2, NotWithin
    <2> QED BY <2>1, <2>3 DEF Between, Waits, Listed, Listing
  <1> QED BY <1>1, Invariance, PTL

\* When hpav_dump_tonemap returns, every run of the map is listed with its
\* length but the one that ends with the last whole byte and could have had
\* another digit (hpav_utils.c:535-549); a map without runs is printed whole
\* but for the half byte after a line that is not full (hpav_utils.c:584-588).
THEOREM WholeMapIsListed == Spec => []ListsAllButTheOpenRun
  <1>1. Inv => ListsAllButTheOpenRun
    <2> SUFFICES ASSUME Inv, pc = "done"
                 PROVE  IF rle_enc THEN list = Carriers(Remaining)
                        ELSE list = IF Whole > 0 /\ Whole % (2 * BYTES_PER_LINE) = 0
                                    THEN nibbles ELSE SubSeq(nibbles, 1, Whole)
      BY DEF ListsAllButTheOpenRun, Remaining
    <2>1. /\ runs \in Seq(Runs) /\ nibbles \in Seq(0..15) /\ Len(nibbles) \in Nat
          /\ Whole \in Nat /\ Len(runs) \in 0..Len(runs)
      BY Places, WholeFacts DEF Inv, Typing
    <2>2. CASE rle_enc
      <3>1. at = Len(nibbles)
        BY <2>2 DEF Inv, RunsInv
      <3>2. CASE at > Whole
        BY <2>2, <3>2 DEF Inv, RunsInv
      <3>3. CASE at <= Whole
        <4>1. PICK l \in 0..Len(runs) : Reads(l)
          BY <2>2, <3>3 DEF Inv, RunsInv
        <4> DEFINE n == Len(runs)
        <4>2. EndOf(n) = Len(nibbles)
          BY <2>1, Places
        <4>3. EndOf(n) = Whole
          BY <2>1, <3>1, <3>3, <4>2, WholeFacts
        <4>4. list = Listing(runs, Listed(n))
          BY <2>1, <3>1, <4>1, <4>2, NotWithin DEF Between
        <4>5. Listing(Remaining, n) = Listing(runs, Listed(n))
          BY <2>1, <4>3, ListedRemains
        <4>6. Listing(Remaining, Len(Remaining)) = Carriers(Remaining)
              /\ Len(Remaining) = n
          BY <2>1, RemainingFacts, ListingFacts
        <4> QED BY <2>2, <4>4, <4>5, <4>6
      <3>4. at > Whole \/ at <= Whole
        BY <2>1, <3>1
      <3> QED BY <3>2, <3>3, <3>4
    <2>3. CASE ~rle_enc
      <3>1. /\ list = SubSeq(nibbles, 1, at)
            /\ at = IF Whole > 0 /\ Whole % (2 * BYTES_PER_LINE) = 0
                    THEN Len(nibbles) ELSE Whole
        BY <2>3 DEF Inv, LinesInv, Line
      <3>2. SubSeq(nibbles, 1, Len(nibbles)) = nibbles
        BY <2>1
      <3> QED BY <2>3, <3>1, <3>2
    <2> QED BY <2>2, <2>3
  <1> QED BY <1>1, Invariance, PTL
===============================================================================
