-------------------------- MODULE ConfFile_proofs ---------------------------
(***************************************************************************)
(* Proofs about the configuration commands: for every file, every update   *)
(* and every edit, values nested up to any limit and objects of any size,  *)
(* calibrations of any number of lines and of carriers on every machine,   *)
(* and any number of commands.                                             *)
(*                                                                         *)
(* A recursive function of the model is the choice of a function that      *)
(* satisfies its equation; that there is one is proved first, from the     *)
(* number of levels a value has (or from a loop's count).  What it does    *)
(* then follows by induction over the same number.                         *)
(***************************************************************************)
EXTENDS ConfFile, Positions_proofs, SequenceTheorems

-----------------------------------------------------------------------------
(* Recursion.                                                              *)

\* A set with 0, and with the number after each it has, has them all.
LEMMA AllNumbers ==
  ASSUME NEW T, 0 \in T, \A n \in Nat : n \in T => n + 1 \in T
  PROVE  Nat \subseteq T
<1> SUFFICES ASSUME Nat \ T # {} PROVE FALSE
  OBVIOUS
<1>1. Nat \ T \in SUBSET Nat
  OBVIOUS
<1>2. PICK n \in Nat \ T : \A m \in Nat \ T : n <= m
  BY <1>1, LeastExists
<1>3. n # 0
  BY <1>2
<1>4. n - 1 \in Nat /\ n - 1 \in T
  BY <1>2, <1>3
<1>5. QED
  BY <1>2, <1>4

\* A recursive definition over S: B gives the value at a member, from a function
\* that it uses only at members of a smaller rank.
IsRecursion(B, S, V, rank, N) ==
    /\ N \in Nat /\ V # {}
    /\ rank \in [S -> 0..N]
    /\ B \in [[S -> V] \X S -> V]
    /\ \A f, g \in [S -> V], s \in S :
          (\A t \in S : rank[t] < rank[s] => f[t] = g[t]) => B[<<f, s>>] = B[<<g, s>>]

IsSolution(f, B, S, V) == f \in [S -> V] /\ \A s \in S : f[s] = B[<<f, s>>]

\* A recursion over a set whose members have a bounded rank has a solution.
LEMMA RecursionByRank ==
  ASSUME NEW S, NEW V, NEW rank, NEW N, NEW B, IsRecursion(B, S, V, rank, N)
  PROVE  \E f : IsSolution(f, B, S, V)
<1> PICK v : v \in V
  BY DEF IsRecursion
<1> SUFFICES ASSUME N \in Nat, B \in [[S -> V] \X S -> V],
                    rank \in [S -> 0..N],
                    \A f, g \in [S -> V], s \in S :
                       (\A t \in S : rank[t] < rank[s] => f[t] = g[t])
                          => B[<<f, s>>] = B[<<g, s>>]
             PROVE  \E f : IsSolution(f, B, S, V)
  BY DEF IsRecursion
<1> DEFINE Upto(f, n) == \A s \in S : rank[s] < n => f[s] = B[<<f, s>>]
           T == {n \in Nat : \E f \in [S -> V] : Upto(f, n)}
<1>1. 0 \in T
  <2>1. [s \in S |-> v] \in [S -> V]
    OBVIOUS
  <2>2. Upto([s \in S |-> v], 0)
    OBVIOUS
  <2>3. QED
    BY <2>1, <2>2
<1>2. ASSUME NEW n \in Nat, n \in T PROVE n + 1 \in T
  <2>1. PICK f \in [S -> V] : Upto(f, n)
    BY <1>2
  <2> DEFINE g == [s \in S |-> B[<<f, s>>]]
  <2>2. g \in [S -> V]
    OBVIOUS
  <2>3. ASSUME NEW s \in S, rank[s] < n + 1 PROVE g[s] = B[<<g, s>>]
    <3>1. \A t \in S : rank[t] < rank[s] => g[t] = f[t]
      BY <2>1, <2>3
    <3>2. B[<<g, s>>] = B[<<f, s>>]
      BY <3>1, <2>2
    <3>3. QED
      BY <3>2
  <2>4. Upto(g, n + 1)
    BY <2>3
  <2>5. QED
    <3> HIDE DEF Upto, g
    <3>1. n + 1 \in Nat
      OBVIOUS
    <3>2. QED
      BY <2>2, <2>4, <3>1
<1>3. N + 1 \in T
  <2> HIDE DEF T
  <2>1. QED
    BY <1>1, <1>2, AllNumbers
<1>4. PICK f \in [S -> V] : Upto(f, N + 1)
  <2> HIDE DEF Upto
  <2>1. QED
    BY <1>3
<1>5. ASSUME NEW s \in S PROVE f[s] = B[<<f, s>>]
  <2>1. rank[s] \in 0..N
    OBVIOUS
  <2>2. rank[s] < N + 1
    BY <2>1
  <2>3. QED
    BY <1>4, <2>2
<1>6. QED
  BY <1>5 DEF IsSolution

\* A loop that runs from 1 to n: B gives the state after a turn.
IsLoop(B, V, v, n) == n \in Nat /\ v \in V /\ B \in [V \X (1..n) -> V]

IsRun(f, B, V, v, n) ==
    f \in [0..n -> V] /\ f[0] = v /\ \A i \in 1..n : f[i] = B[<<f[i - 1], i>>]

\* A loop has a state before and after each of its turns.
LEMMA RecursionByCount ==
  ASSUME NEW V, NEW v, NEW n, NEW B, IsLoop(B, V, v, n)
  PROVE  \E f : IsRun(f, B, V, v, n)
<1> SUFFICES ASSUME n \in Nat, v \in V, B \in [V \X (1..n) -> V]
             PROVE  \E f : IsRun(f, B, V, v, n)
  BY DEF IsLoop
<1> DEFINE S == 0..n
           C == [p \in [S -> V] \X S |->
                    IF p[2] = 0 THEN v ELSE B[<<p[1][p[2] - 1], p[2]>>]]
           rank == [s \in S |-> s]
<1>1. rank \in [S -> 0..n] /\ \A s \in S : rank[s] = s
  OBVIOUS
<1>2. \A f \in [S -> V], s \in S :
          C[<<f, s>>] = IF s = 0 THEN v ELSE B[<<f[s - 1], s>>]
  <2> HIDE DEF S
  <2>1. QED
    BY Zenon
<1>3. \A f \in [S -> V], s \in S : s # 0 =>
          s - 1 \in S /\ s \in 1..n /\ f[s - 1] \in V /\ B[<<f[s - 1], s>>] \in V
  OBVIOUS
<1>4. C \in [[S -> V] \X S -> V]
  BY <1>3
<1>5. ASSUME NEW f \in [S -> V], NEW g \in [S -> V], NEW s \in S,
             \A t \in S : rank[t] < rank[s] => f[t] = g[t]
      PROVE  C[<<f, s>>] = C[<<g, s>>]
  <2>1. s # 0 => f[s - 1] = g[s - 1]
    BY <1>5, <1>1
  <2> HIDE DEF C
  <2>2. QED
    BY <2>1, <1>2
<1>6. PICK f : IsSolution(f, C, S, V)
  <2>1. IsRecursion(C, S, V, rank, n)
    <3> HIDE DEF S, C, rank
    <3>1. QED
      BY <1>1, <1>4, <1>5 DEF IsRecursion
  <2> HIDE DEF S, C, rank
  <2>2. QED
    BY <2>1, RecursionByRank
<1>7. 0 \in S /\ \A i \in 1..n : i \in S /\ i # 0
  OBVIOUS
<1>8. QED
  <2> HIDE DEF C, S
  <2>1. \A s \in S : f[s] = IF s = 0 THEN v ELSE B[<<f[s - 1], s>>]
    BY <1>6, <1>2 DEF IsSolution
  <2>2. f[0] = v /\ \A i \in 1..n : f[i] = B[<<f[i - 1], i>>]
    BY <1>7, <2>1
  <2>3. QED
    BY <1>6, <2>2 DEF S, IsSolution, IsRun

-----------------------------------------------------------------------------
(* The values of Json, and how they are nested.                            *)

\* The values of one more level than those of inner.
Level(inner) ==
    Scalars \cup [type : {"array"}, items : Seq(inner)]
    \cup [type : {"object"}, members : Seq([name : STRING, value : inner])]

\* The levels a value can have.
Depth == MAX_NESTING + 1

\* There are at least four of them.
LEMMA DepthIsNat == Depth \in Nat /\ Depth - 1 \in Nat /\ Depth - 1 \in 0..Depth /\ Depth - 1 >= 3
BY JsonAssumption DEF Depth

\* Nested satisfies its equation.
LEMMA NestedDef ==
  \A n \in 0..Depth : Nested[n] = IF n = 0 THEN {} ELSE Level(Nested[n - 1])
<1> DEFINE Levels(f, n) == f = [k \in 0..n |-> IF k = 0 THEN {} ELSE Level(f[k - 1])]
           T == {n \in Nat : \E f : Levels(f, n)}
<1>1. 0 \in T
  <2> DEFINE f == [k \in 0..0 |-> {}]
  <2>1. Levels(f, 0)
    <3>1. \A k \in 0..0 : k = 0
      OBVIOUS
    <3>2. QED
      BY <3>1
  <2> HIDE DEF f, Levels
  <2>2. QED
    BY <2>1
<1>2. ASSUME NEW n \in Nat, n \in T PROVE n + 1 \in T
  <2>1. PICK f : Levels(f, n)
    BY <1>2
  <2> DEFINE g == [k \in 0..n + 1 |-> IF k = 0 THEN {} ELSE Level(f[k - 1])]
  <2>2. \A k \in 0..n : f[k] = IF k = 0 THEN {} ELSE Level(f[k - 1])
    <3> HIDE DEF Level
    <3>1. QED
      BY <2>1, Zenon
  <2>3. \A k \in 0..n : k \in 0..n + 1 /\ g[k] = f[k]
    <3> HIDE DEF Level
    <3>1. QED
      BY <2>2
  <2>4. \A k \in 0..n + 1 : k # 0 => k - 1 \in 0..n
    OBVIOUS
  <2>5. Levels(g, n + 1)
    <3>1. \A k \in 0..n + 1 : (IF k = 0 THEN {} ELSE Level(f[k - 1]))
                              = IF k = 0 THEN {} ELSE Level(g[k - 1])
      BY <2>3, <2>4
    <3>2. QED
      BY <3>1, Zenon
  <2> HIDE DEF Levels, g
  <2>6. n + 1 \in Nat
    OBVIOUS
  <2>7. QED
    BY <2>5, <2>6
<1>3. Depth \in T
  <2> HIDE DEF T
  <2>1. QED
    BY <1>1, <1>2, AllNumbers, DepthIsNat
<1>4. \E f : Levels(f, Depth)
  BY <1>3
<1>5. Levels(Nested, Depth)
  BY <1>4, Zenon DEF Nested, Level, Depth
<1>6. QED
  <2> HIDE DEF Level
  <2>1. QED
    BY <1>5, Zenon

\* More can be made of more.
LEMMA LevelGrows ==
  ASSUME NEW X, NEW Y, X \subseteq Y
  PROVE  Level(X) \subseteq Level(Y)
<1>1. \A A, B : A \subseteq B => Seq(A) \subseteq Seq(B)
  OBVIOUS
<1>2. [name : STRING, value : X] \subseteq [name : STRING, value : Y]
  OBVIOUS
<1>3. Seq([name : STRING, value : X]) \subseteq Seq([name : STRING, value : Y])
  BY <1>1, <1>2, Zenon
<1>4. Seq(X) \subseteq Seq(Y)
  BY <1>1
<1>5. QED
  BY <1>3, <1>4 DEF Level

\* What has n levels at most has n + 1 at most.
LEMMA NestedGrows == \A n \in 0..Depth - 1 : Nested[n] \subseteq Nested[n + 1]
<1> DEFINE T == {n \in Nat : n + 1 \in 0..Depth => Nested[n] \subseteq Nested[n + 1]}
<1>1. 0 \in T
  BY NestedDef, DepthIsNat
<1>2. ASSUME NEW n \in Nat, n \in T PROVE n + 1 \in T
  <2> SUFFICES ASSUME n + 2 \in 0..Depth PROVE Nested[n + 1] \subseteq Nested[n + 2]
    OBVIOUS
  <2>1. n + 1 \in 0..Depth /\ Nested[n] \subseteq Nested[n + 1]
    BY <1>2, DepthIsNat
  <2>2. Nested[n + 1] = Level(Nested[n]) /\ Nested[n + 2] = Level(Nested[n + 1])
    <3>1. n + 1 # 0 /\ n + 2 # 0 /\ n + 1 - 1 = n /\ n + 2 - 1 = n + 1
      OBVIOUS
    <3> HIDE DEF Level
    <3>2. QED
      BY <2>1, <3>1, NestedDef
  <2>3. QED
    BY <2>1, <2>2, LevelGrows
<1>3. Nat \subseteq T
  <2> HIDE DEF T
  <2>1. QED
    BY <1>1, <1>2, AllNumbers
<1>4. QED
  BY <1>3, DepthIsNat

\* The same for any number of levels.
LEMMA NestedOrder == \A n, m \in 0..Depth : n <= m => Nested[n] \subseteq Nested[m]
<1> SUFFICES ASSUME NEW n \in 0..Depth
             PROVE  \A m \in 0..Depth : n <= m => Nested[n] \subseteq Nested[m]
  OBVIOUS
<1> DEFINE T == {k \in Nat : n + k \in 0..Depth => Nested[n] \subseteq Nested[n + k]}
<1>1. 0 \in T
  OBVIOUS
<1>2. ASSUME NEW k \in Nat, k \in T PROVE k + 1 \in T
  <2> SUFFICES ASSUME n + k + 1 \in 0..Depth PROVE Nested[n] \subseteq Nested[n + k + 1]
    OBVIOUS
  <2>1. n + k \in 0..Depth /\ n + k \in 0..Depth - 1
    BY DepthIsNat
  <2>2. Nested[n] \subseteq Nested[n + k]
    BY <1>2, <2>1
  <2>3. Nested[n + k] \subseteq Nested[n + k + 1]
    BY <2>1, NestedGrows
  <2>4. QED
    BY <2>2, <2>3
<1>3. Nat \subseteq T
  <2> HIDE DEF T
  <2>1. QED
    BY <1>1, <1>2, AllNumbers
<1>4. ASSUME NEW m \in 0..Depth, n <= m PROVE Nested[n] \subseteq Nested[m]
  <2>1. m - n \in Nat /\ n + (m - n) = m
    BY <1>4
  <2>2. m - n \in T
    BY <1>3, <2>1
  <2>3. QED
    BY <2>1, <2>2
<1>5. QED
  BY <1>4

\* What can be inside of a value.
Inner == Nested[Depth - 1]

\* A value is made of values that have one level less.
LEMMA JsonIsLevel == JSON = Level(Inner) /\ Inner \subseteq JSON
<1>1. Depth \in 0..Depth /\ Depth # 0 /\ Depth - 1 \in 0..Depth /\ JSON = Nested[Depth]
  BY DepthIsNat DEF JSON, Depth
<1>2. Nested[Depth] = Level(Nested[Depth - 1])
  BY <1>1, NestedDef
<1>3. QED
  BY <1>1, <1>2, NestedOrder, DepthIsNat DEF Inner

\* The cases of a value.
LEMMA LevelCases ==
  ASSUME NEW X, NEW v \in Level(X)
  PROVE  /\ v.type \in {"number", "boolean", "string", "array", "object"}
         /\ v.type \notin {"array", "object"} => v \in Scalars
         /\ v.type = "array" => v = Array(v.items) /\ v.items \in Seq(X)
         /\ v.type = "object" => /\ v = Object(v.members)
                                 /\ v.members \in Seq([name : STRING, value : X])
BY DEF Level, Scalars, Texts, Array, Object

\* What the accessors return.
Values == JSON \cup {NoValue}

\* The levels of a value; none for NoValue.
Height == [v \in Values |-> IF v = NoValue THEN 0
             ELSE CHOOSE n \in 1..Depth : v \in Nested[n] /\ v \notin Nested[n - 1]]

\* A value is not what stands for none.
LEMMA NoValueIsNoJson == NoValue \notin JSON
<1> SUFFICES ASSUME NoValue \in JSON PROVE FALSE
  OBVIOUS
<1>1. NoValue \in Level(Inner)
  BY JsonIsLevel
<1>2. NoValue.type \in {"number", "boolean", "string", "array", "object"}
  BY <1>1, LevelCases
<1>3. QED
  BY <1>2 DEF NoValue

\* The levels of a value are the fewest it can be made with.
LEMMA HeightIsLeast ==
  ASSUME NEW v \in JSON
  PROVE  /\ Height[v] \in 1..Depth
         /\ v \in Nested[Height[v]]
         /\ \A m \in 0..Depth : v \in Nested[m] => Height[v] <= m
<1> DEFINE T == {n \in 0..Depth : v \in Nested[n]}
<1>1. Depth \in T
  BY DepthIsNat DEF JSON, Depth
<1>2. PICK n \in T : \A m \in T : n <= m
  <2>1. T \in SUBSET Nat /\ T # {}
    BY <1>1, DepthIsNat
  <2> HIDE DEF T
  <2>2. QED
    BY <2>1, LeastExists
<1>3. n # 0 /\ n \in 1..Depth /\ n - 1 \in 0..Depth
  BY NestedDef, DepthIsNat
<1>4. v \in Nested[n] /\ v \notin Nested[n - 1]
  BY <1>2, <1>3
<1>5. Height[v] = CHOOSE k \in 1..Depth : v \in Nested[k] /\ v \notin Nested[k - 1]
  BY NoValueIsNoJson DEF Height, Values
<1>6. Height[v] \in 1..Depth /\ v \in Nested[Height[v]] /\ v \notin Nested[Height[v] - 1]
  BY <1>3, <1>4, <1>5
<1>7. ASSUME NEW m \in 0..Depth, v \in Nested[m] PROVE Height[v] <= m
  <2> SUFFICES ASSUME m < Height[v] PROVE FALSE
    BY <1>6
  <2>1. m <= Height[v] - 1 /\ Height[v] - 1 \in 0..Depth
    BY <1>6, DepthIsNat
  <2>2. Nested[m] \subseteq Nested[Height[v] - 1]
    BY <2>1, NestedOrder
  <2>3. QED
    BY <1>6, <1>7, <2>2
<1>8. QED
  BY <1>6, <1>7

\* Every value has some levels, up to Depth.
LEMMA HeightType == Height \in [Values -> 0..Depth] /\ Height[NoValue] = 0
<1>1. Height[NoValue] = 0
  BY DEF Height, Values
<1>2. \A v \in Values : Height[v] \in 0..Depth
  BY <1>1, HeightIsLeast, DepthIsNat DEF Values
<1>3. QED
  BY <1>1, <1>2 DEF Height

\* The shape of a value.
LEMMA JsonCases ==
  ASSUME NEW v \in JSON
  PROVE  /\ v.type \in {"number", "boolean", "string", "array", "object"}
         /\ v.type \notin {"array", "object"} => v \in Scalars
         /\ v.type = "array" => v = Array(v.items) /\ v.items \in Seq(Inner)
         /\ v.type = "object" => /\ v = Object(v.members)
                                 /\ v.members \in Seq([name : STRING, value : Inner])
BY JsonIsLevel, LevelCases

\* What is inside of a value is a value of fewer levels.
LEMMA ItemIsLower ==
  ASSUME NEW v \in JSON, v.type = "array", NEW i \in DOMAIN v.items
  PROVE  v.items[i] \in JSON /\ Height[v.items[i]] < Height[v]
<1> DEFINE h == Height[v]
<1>1. h \in 1..Depth /\ v \in Nested[h] /\ h - 1 \in 0..Depth /\ h \in 0..Depth /\ h # 0
  BY HeightIsLeast, DepthIsNat
<1>2. v \in Level(Nested[h - 1])
  BY <1>1, NestedDef
<1>3. v.items \in Seq(Nested[h - 1])
  BY <1>2, LevelCases
<1>4. v.items[i] \in Nested[h - 1]
  BY <1>3
<1>5. v.items[i] \in JSON
  BY JsonCases, JsonIsLevel
<1>6. Height[v.items[i]] <= h - 1
  BY <1>1, <1>4, <1>5, HeightIsLeast
<1>7. Height[v.items[i]] \in 1..Depth
  BY <1>5, HeightIsLeast
<1>8. QED
  BY <1>1, <1>5, <1>6, <1>7, DepthIsNat

\* A member of a sequence.
LEMMA MemberOfSeq ==
  ASSUME NEW X, NEW s \in Seq(X), NEW i \in DOMAIN s
  PROVE  s[i] \in X
OBVIOUS

\* A sequence is over every set that has its elements.
LEMMA SeqOfMembers ==
  ASSUME NEW S, NEW R, NEW s \in Seq(S), \A i \in DOMAIN s : s[i] \in R
  PROVE  s \in Seq(R)
<1>1. /\ Len(s) \in Nat /\ DOMAIN s = 1..Len(s)
      /\ s \in [1..Len(s) -> S]
  BY LenProperties
<1>2. s \in [1..Len(s) -> R]
  BY <1>1
<1>3. \A n, f : n \in Nat /\ f \in [1..n -> R] => f \in Seq(R)
  OBVIOUS
<1>4. QED
  BY <1>1, <1>2, <1>3, Zenon

\* The same for the members of an object.
LEMMA MemberIsLower ==
  ASSUME NEW v \in JSON, v.type = "object", NEW i \in DOMAIN v.members
  PROVE  /\ v.members[i] = Member(v.members[i].name, v.members[i].value)
         /\ v.members[i].name \in STRING
         /\ v.members[i].value \in Inner
         /\ v.members[i].value \in JSON
         /\ Height[v.members[i].value] < Height[v]
<1> DEFINE h == Height[v]
<1>1. h \in 1..Depth /\ v \in Nested[h] /\ h - 1 \in 0..Depth /\ h \in 0..Depth /\ h # 0
  BY HeightIsLeast, DepthIsNat
<1>2. v \in Level(Nested[h - 1])
  BY <1>1, NestedDef
<1>3. v.members \in Seq([name : STRING, value : Nested[h - 1]])
  BY <1>2, LevelCases
<1>4. v.members[i] \in [name : STRING, value : Nested[h - 1]]
  <2> DEFINE X == [name : STRING, value : Nested[h - 1]]
  <2>1. v.members \in Seq(X)
    BY <1>3
  <2> HIDE DEF X
  <2>2. v.members[i] \in X
    BY <2>1, MemberOfSeq
  <2>3. QED
    BY <2>2 DEF X
<1>5. v.members[i] \in [name : STRING, value : Inner]
  <2> DEFINE X == [name : STRING, value : Inner]
  <2>1. v.members \in Seq(X)
    BY JsonCases
  <2> HIDE DEF X
  <2>2. v.members[i] \in X
    BY <2>1, MemberOfSeq
  <2>3. QED
    BY <2>2 DEF X
<1>6. v.members[i].value \in Nested[h - 1]
  BY <1>4
<1>7. v.members[i].value \in Inner /\ v.members[i].value \in JSON
  BY <1>5, JsonIsLevel
<1>8. Height[v.members[i].value] <= h - 1
  BY <1>1, <1>6, <1>7, HeightIsLeast
<1>9. Height[v.members[i].value] \in 1..Depth
  BY <1>7, HeightIsLeast
<1>10. QED
  BY <1>1, <1>5, <1>7, <1>8, <1>9, DepthIsNat DEF Member

\* What json_object_get_value finds in an object has fewer levels than it.
LEMMA ValueIsLower ==
  ASSUME NEW v \in JSON, IsObject(v), NEW name
  PROVE  LET w == json_object_get_value(v, name)
         IN /\ name \in Names(v) => w \in JSON /\ w \in Inner
            /\ name \notin Names(v) => w = NoValue
            /\ w \in Values /\ Height[w] < Height[v]
<1>1. CASE name \in Names(v)
  <2>1. Place(v, name) \in DOMAIN v.members
    BY <1>1 DEF Names, Place
  <2>2. json_object_get_value(v, name) = v.members[Place(v, name)].value
    BY <1>1 DEF json_object_get_value
  <2>3. QED
    BY <1>1, <2>1, <2>2, MemberIsLower DEF IsObject, Values
<1>2. CASE name \notin Names(v)
  <2>1. json_object_get_value(v, name) = NoValue
    BY <1>2 DEF json_object_get_value
  <2>2. 0 < Height[v]
    BY HeightIsLeast
  <2>3. QED
    BY <1>2, <2>1, <2>2, HeightType DEF Values
<1>3. QED
  BY <1>1, <1>2

-----------------------------------------------------------------------------
(* What the parser takes, and what equals what.                            *)

\* The equation of Parses.
ParsesIn(f, v) ==
    /\ v.type = "array" => \A i \in DOMAIN v.items : f[v.items[i]]
    /\ v.type = "object" =>
           /\ \A i \in DOMAIN v.members : f[v.members[i].value]
           /\ \A i, j \in DOMAIN v.members :
                  v.members[i].name = v.members[j].name => i = j

\* Parses satisfies it.
LEMMA ParsesDef ==
  /\ Parses \in [JSON -> BOOLEAN]
  /\ \A v \in JSON : Parses[v] = ParsesIn(Parses, v)
<1> DEFINE B == [p \in [JSON -> BOOLEAN] \X JSON |-> ParsesIn(p[1], p[2])]
           rank == [v \in JSON |-> Height[v]]
<1>1. \A f \in [JSON -> BOOLEAN], v \in JSON : B[<<f, v>>] = ParsesIn(f, v)
  <2> HIDE DEF ParsesIn
  <2>1. QED
    BY Zenon
<1>2. \A f \in [JSON -> BOOLEAN], v \in JSON : ParsesIn(f, v) \in BOOLEAN
  BY Zenon DEF ParsesIn
<1>3. B \in [[JSON -> BOOLEAN] \X JSON -> BOOLEAN]
  <2> HIDE DEF ParsesIn
  <2>1. QED
    BY <1>2
<1>4. ASSUME NEW f \in [JSON -> BOOLEAN], NEW g \in [JSON -> BOOLEAN], NEW v \in JSON,
             \A w \in JSON : rank[w] < rank[v] => f[w] = g[w]
      PROVE  B[<<f, v>>] = B[<<g, v>>]
  <2>1. \A w \in JSON : Height[w] < Height[v] => f[w] = g[w]
    BY <1>4
  <2>2. CASE v.type = "array"
    <3>1. \A i \in DOMAIN v.items : f[v.items[i]] = g[v.items[i]]
      BY <2>1, <2>2, ItemIsLower
    <3>2. ParsesIn(f, v) = ParsesIn(g, v)
      BY <3>1, <2>2 DEF ParsesIn
    <3>3. QED
      BY <3>2, <1>1
  <2>3. CASE v.type = "object"
    <3>1. \A i \in DOMAIN v.members : f[v.members[i].value] = g[v.members[i].value]
      BY <2>1, <2>3, MemberIsLower
    <3>2. ParsesIn(f, v) = ParsesIn(g, v)
      BY <3>1, <2>3 DEF ParsesIn
    <3>3. QED
      BY <3>2, <1>1
  <2>4. CASE v.type \notin {"array", "object"}
    <3>1. ParsesIn(f, v) = ParsesIn(g, v)
      BY <2>4 DEF ParsesIn
    <3>2. QED
      BY <3>1, <1>1
  <2>5. QED
    BY <2>2, <2>3, <2>4
<1>5. rank \in [JSON -> 0..Depth]
  BY HeightType, JsonIsLevel DEF Values
<1>6. IsRecursion(B, JSON, BOOLEAN, rank, Depth)
  <2> HIDE DEF B, rank
  <2>1. QED
    BY <1>3, <1>4, <1>5, DepthIsNat DEF IsRecursion
<1>7. PICK f : IsSolution(f, B, JSON, BOOLEAN)
  <2> HIDE DEF B, rank
  <2>1. QED
    BY <1>6, RecursionByRank
<1>8. f = [v \in JSON |-> ParsesIn(f, v)]
  <2> HIDE DEF ParsesIn, B
  <2>1. f \in [JSON -> BOOLEAN] /\ \A v \in JSON : f[v] = ParsesIn(f, v)
    BY <1>7, <1>1 DEF IsSolution
  <2>2. QED
    BY <2>1
<1>9. Parses = [v \in JSON |-> ParsesIn(Parses, v)]
  <2> HIDE DEF B, rank
  <2>1. Parses = CHOOSE h : h = [v \in JSON |-> ParsesIn(h, v)]
    BY Zenon DEF Parses, ParsesIn
  <2> HIDE DEF ParsesIn
  <2>2. QED
    BY <1>8, <2>1, Zenon
<1>10. QED
  <2> HIDE DEF ParsesIn
  <2>1. \A v \in JSON : Parses[v] = ParsesIn(Parses, v)
    BY <1>9, Zenon
  <2>2. \A v \in JSON : Parses[v] \in BOOLEAN
    BY <2>1, Zenon DEF ParsesIn
  <2>3. QED
    BY <1>9, <2>1, <2>2

\* The equation of Printable.
PrintableIn(f, v) ==
    /\ v.type = "string" => v.kind # "control"
    /\ v.type = "array" => \A i \in DOMAIN v.items : f[v.items[i]]
    /\ v.type = "object" => \A i \in DOMAIN v.members : f[v.members[i].value]

\* Printable satisfies it.
LEMMA PrintableDef ==
  /\ Printable \in [JSON -> BOOLEAN]
  /\ \A v \in JSON : Printable[v] = PrintableIn(Printable, v)
<1> DEFINE B == [p \in [JSON -> BOOLEAN] \X JSON |-> PrintableIn(p[1], p[2])]
           rank == [v \in JSON |-> Height[v]]
<1>1. \A f \in [JSON -> BOOLEAN], v \in JSON : B[<<f, v>>] = PrintableIn(f, v)
  <2> HIDE DEF PrintableIn
  <2>1. QED
    BY Zenon
<1>2. \A f \in [JSON -> BOOLEAN], v \in JSON : PrintableIn(f, v) \in BOOLEAN
  BY Zenon DEF PrintableIn
<1>3. B \in [[JSON -> BOOLEAN] \X JSON -> BOOLEAN]
  <2> HIDE DEF PrintableIn
  <2>1. QED
    BY <1>2
<1>4. ASSUME NEW f \in [JSON -> BOOLEAN], NEW g \in [JSON -> BOOLEAN], NEW v \in JSON,
             \A w \in JSON : rank[w] < rank[v] => f[w] = g[w]
      PROVE  B[<<f, v>>] = B[<<g, v>>]
  <2>1. \A w \in JSON : Height[w] < Height[v] => f[w] = g[w]
    BY <1>4
  <2>2. CASE v.type = "array"
    <3>1. \A i \in DOMAIN v.items : f[v.items[i]] = g[v.items[i]]
      BY <2>1, <2>2, ItemIsLower
    <3>2. PrintableIn(f, v) = PrintableIn(g, v)
      BY <3>1, <2>2 DEF PrintableIn
    <3>3. QED
      BY <3>2, <1>1
  <2>3. CASE v.type = "object"
    <3>1. \A i \in DOMAIN v.members : f[v.members[i].value] = g[v.members[i].value]
      BY <2>1, <2>3, MemberIsLower
    <3>2. PrintableIn(f, v) = PrintableIn(g, v)
      BY <3>1, <2>3 DEF PrintableIn
    <3>3. QED
      BY <3>2, <1>1
  <2>4. CASE v.type \notin {"array", "object"}
    <3>1. PrintableIn(f, v) = PrintableIn(g, v)
      BY <2>4 DEF PrintableIn
    <3>2. QED
      BY <3>1, <1>1
  <2>5. QED
    BY <2>2, <2>3, <2>4
<1>5. rank \in [JSON -> 0..Depth]
  BY HeightType, JsonIsLevel DEF Values
<1>6. IsRecursion(B, JSON, BOOLEAN, rank, Depth)
  <2> HIDE DEF B, rank
  <2>1. QED
    BY <1>3, <1>4, <1>5, DepthIsNat DEF IsRecursion
<1>7. PICK f : IsSolution(f, B, JSON, BOOLEAN)
  <2> HIDE DEF B, rank
  <2>1. QED
    BY <1>6, RecursionByRank
<1>8. f = [v \in JSON |-> PrintableIn(f, v)]
  <2> HIDE DEF PrintableIn, B
  <2>1. f \in [JSON -> BOOLEAN] /\ \A v \in JSON : f[v] = PrintableIn(f, v)
    BY <1>7, <1>1 DEF IsSolution
  <2>2. QED
    BY <2>1
<1>9. Printable = [v \in JSON |-> PrintableIn(Printable, v)]
  <2> HIDE DEF B, rank
  <2>1. Printable = CHOOSE h : h = [v \in JSON |-> PrintableIn(h, v)]
    BY Zenon DEF Printable, PrintableIn
  <2> HIDE DEF PrintableIn
  <2>2. QED
    BY <1>8, <2>1, Zenon
<1>10. QED
  <2> HIDE DEF PrintableIn
  <2>1. \A v \in JSON : Printable[v] = PrintableIn(Printable, v)
    BY <1>9, Zenon
  <2>2. \A v \in JSON : Printable[v] \in BOOLEAN
    BY <2>1, Zenon DEF PrintableIn
  <2>3. QED
    BY <1>9, <2>1, <2>2

\* What can be written and parsed again.
Plain == {v \in JSON : Printable[v]}

\* A set of values that has an array or an object if it has all that is inside.
Inherits(P) ==
    /\ P \subseteq JSON
    /\ \A v \in JSON : v.type = "array" =>
          (v \in P <=> \A i \in DOMAIN v.items : v.items[i] \in P)
    /\ \A v \in JSON : v.type = "object" =>
          (v \in P <=> \A i \in DOMAIN v.members : v.members[i].value \in P)

\* The values are such a set, and so is what can be written and parsed again.
LEMMA TwoInherit == Inherits(JSON) /\ Inherits(Plain)
<1>1. Inherits(JSON)
  <2>1. \A v \in JSON : v.type = "array" => \A i \in DOMAIN v.items : v.items[i] \in JSON
    BY ItemIsLower
  <2>2. \A v \in JSON :
           v.type = "object" => \A i \in DOMAIN v.members : v.members[i].value \in JSON
    BY MemberIsLower
  <2>3. QED
    BY <2>1, <2>2 DEF Inherits
<1>2. ASSUME NEW v \in JSON, v.type = "array"
      PROVE  v \in Plain <=> \A i \in DOMAIN v.items : v.items[i] \in Plain
  <2>1. \A i \in DOMAIN v.items : v.items[i] \in JSON
    BY <1>2, ItemIsLower
  <2>2. Printable[v] <=> \A i \in DOMAIN v.items : Printable[v.items[i]]
    BY <1>2, PrintableDef DEF PrintableIn
  <2>3. QED
    BY <2>1, <2>2 DEF Plain
<1>3. ASSUME NEW v \in JSON, v.type = "object"
      PROVE  v \in Plain <=> \A i \in DOMAIN v.members : v.members[i].value \in Plain
  <2>1. \A i \in DOMAIN v.members : v.members[i].value \in JSON
    BY <1>3, MemberIsLower
  <2>2. Printable[v] <=> \A i \in DOMAIN v.members : Printable[v.members[i].value]
    BY <1>3, PrintableDef DEF PrintableIn
  <2>3. QED
    BY <2>1, <2>2 DEF Plain
<1>4. QED
  <2>1. Plain \subseteq JSON
    BY DEF Plain
  <2>2. QED
    BY <1>1, <1>2, <1>3, <2>1 DEF Inherits

\* What json_value_equals and json_value_merge compare and merge.
Pairs == Parsed \X Parsed

\* What the parser returns is a value or none.
LEMMA ParsedIsValue == Parsed \subseteq Values
BY DEF Parsed, Values

\* What is inside of a value the parser takes is one.
LEMMA ParsedInside ==
  ASSUME NEW v \in Parsed
  PROVE  /\ v \in JSON => Parses[v]
         /\ v.type = "array" => \A i \in DOMAIN v.items : v.items[i] \in Parsed
         /\ v.type = "object" =>
               /\ \A i \in DOMAIN v.members : v.members[i].value \in Parsed
               /\ \A i, j \in DOMAIN v.members :
                      v.members[i].name = v.members[j].name => i = j
         /\ \A name : json_object_get_value(v, name) \in Parsed
<1>1. v \in JSON => Parses[v]
  BY NoValueIsNoJson DEF Parsed
<1>2. v.type \in {"array", "object"} => v \in JSON /\ ParsesIn(Parses, v)
  BY <1>1, ParsesDef DEF Parsed, NoValue
<1>3. v.type = "array" => \A i \in DOMAIN v.items : v.items[i] \in Parsed
  BY <1>2, ItemIsLower DEF ParsesIn, Parsed
<1>4. v.type = "object" =>
        /\ \A i \in DOMAIN v.members : v.members[i].value \in Parsed
        /\ \A i, j \in DOMAIN v.members :
              v.members[i].name = v.members[j].name => i = j
  BY <1>2, MemberIsLower DEF ParsesIn, Parsed
<1>5. ASSUME NEW name PROVE json_object_get_value(v, name) \in Parsed
  <2>1. CASE IsObject(v) /\ name \in Names(v)
    <3>1. Place(v, name) \in DOMAIN v.members
      BY <2>1 DEF Names, Place
    <3>2. QED
      BY <2>1, <3>1, <1>4 DEF json_object_get_value, IsObject
  <2>2. CASE ~(IsObject(v) /\ name \in Names(v))
    <3>1. json_object_get_value(v, name) = NoValue
      BY <2>2 DEF json_object_get_value
    <3>2. QED
      BY <3>1 DEF Parsed
  <2>3. QED
    BY <2>1, <2>2
<1>6. QED
  BY <1>1, <1>3, <1>4, <1>5

\* The equation of json_value_equals.
EqualsIn(f, p) ==
    LET a == p[1]
        b == p[2]
    IN /\ a.type = b.type
       /\ a.type = "array" =>
              /\ Len(a.items) = Len(b.items)
              /\ \A i \in DOMAIN a.items : f[<<a.items[i], b.items[i]>>]
       /\ a.type = "object" =>
              /\ Len(a.members) = Len(b.members)
              /\ \A i \in DOMAIN a.members :
                     f[<<a.members[i].value,
                         json_object_get_value(b, a.members[i].name)>>]
       /\ a.type \notin {"array", "object"} => a = b

\* An array or an object is a value.
LEMMA ValueCases ==
  ASSUME NEW v \in Parsed, v.type \in {"array", "object"}
  PROVE  v \in JSON
BY DEF Parsed, NoValue

\* The places of an array and of an object are counted from 1.
LEMMA LengthIsDomain ==
  ASSUME NEW v \in JSON
  PROVE  /\ v.type = "array" => DOMAIN v.items = 1..Len(v.items) /\ Len(v.items) \in Nat
         /\ v.type = "object" =>
               DOMAIN v.members = 1..Len(v.members) /\ Len(v.members) \in Nat
<1>1. \A X, s : s \in Seq(X) => DOMAIN s = 1..Len(s) /\ Len(s) \in Nat
  OBVIOUS
<1>2. QED
  BY <1>1, JsonCases, Zenon

\* Its right side looks only at values of fewer levels.
LEMMA EqualsIsLocal ==
  ASSUME NEW f, NEW g, NEW p \in Pairs,
         \A q \in Pairs : Height[q[1]] < Height[p[1]] => f[q] = g[q]
  PROVE  EqualsIn(f, p) = EqualsIn(g, p)
<1> DEFINE a == p[1]
           b == p[2]
<1>0. a \in Parsed /\ b \in Parsed
  BY DEF Pairs
<1>1. ASSUME NEW x \in Parsed, NEW y \in Parsed, Height[x] < Height[a]
      PROVE  f[<<x, y>>] = g[<<x, y>>]
  <2>1. <<x, y>> \in Pairs /\ <<x, y>>[1] = x
    BY DEF Pairs
  <2>2. QED
    BY <1>1, <2>1
<1>2. CASE a.type = "array" /\ b.type = "array" /\ Len(a.items) = Len(b.items)
  <2>1. a \in JSON /\ b \in JSON
    BY <1>0, <1>2, ValueCases
  <2>2. DOMAIN a.items = DOMAIN b.items
    BY <1>2, <2>1, LengthIsDomain
  <2>3. \A i \in DOMAIN a.items : f[<<a.items[i], b.items[i]>>] = g[<<a.items[i], b.items[i]>>]
    <3> SUFFICES ASSUME NEW i \in DOMAIN a.items
                 PROVE  f[<<a.items[i], b.items[i]>>] = g[<<a.items[i], b.items[i]>>]
      OBVIOUS
    <3>1. a.items[i] \in Parsed /\ Height[a.items[i]] < Height[a] /\ b.items[i] \in Parsed
      BY <1>0, <1>2, <2>1, <2>2, ItemIsLower, ParsedInside
    <3> HIDE DEF a, b
    <3>2. QED
      BY <1>1, <3>1
  <2>4. QED
    BY <1>2, <2>3 DEF EqualsIn
<1>3. CASE a.type = "object" /\ b.type = "object"
  <2>1. a \in JSON /\ b \in JSON
    BY <1>0, <1>3, ValueCases
  <2>2. ASSUME NEW i \in DOMAIN a.members
        PROVE  f[<<a.members[i].value, json_object_get_value(b, a.members[i].name)>>]
               = g[<<a.members[i].value, json_object_get_value(b, a.members[i].name)>>]
    <3> DEFINE x == a.members[i].value
               y == json_object_get_value(b, a.members[i].name)
    <3>1. x \in Parsed /\ Height[x] < Height[a]
      BY <1>0, <1>3, <2>1, <2>2, MemberIsLower, ParsedInside
    <3>2. y \in Parsed
      BY <1>0, ParsedInside
    <3> HIDE DEF a, b, x, y
    <3>3. f[<<x, y>>] = g[<<x, y>>]
      BY <1>1, <3>1, <3>2
    <3>4. QED
      BY <3>3 DEF x, y
  <2>3. QED
    BY <1>3, <2>2 DEF EqualsIn
<1>4. CASE ~(a.type = "array" /\ b.type = "array" /\ Len(a.items) = Len(b.items))
           /\ ~(a.type = "object" /\ b.type = "object")
  BY <1>4 DEF EqualsIn
<1>5. QED
  BY <1>2, <1>3, <1>4

\* json_value_equals satisfies it.
LEMMA EqualsDef ==
  /\ json_value_equals \in [Pairs -> BOOLEAN]
  /\ \A p \in Pairs : json_value_equals[p] = EqualsIn(json_value_equals, p)
<1> DEFINE F == [Pairs -> BOOLEAN]
           B == [p \in F \X Pairs |-> EqualsIn(p[1], p[2])]
           rank == [p \in Pairs |-> Height[p[1]]]
<1>1. \A f \in F, p \in Pairs : B[<<f, p>>] = EqualsIn(f, p)
  <2> HIDE DEF EqualsIn, F, Pairs
  <2>1. QED
    BY Zenon
<1>2. \A f \in F, p \in Pairs : EqualsIn(f, p) \in BOOLEAN
  BY Zenon DEF EqualsIn
<1>3. B \in [F \X Pairs -> BOOLEAN]
  <2> HIDE DEF EqualsIn, F, Pairs
  <2>1. QED
    BY <1>2
<1>4. ASSUME NEW f \in F, NEW g \in F, NEW p \in Pairs,
             \A q \in Pairs : rank[q] < rank[p] => f[q] = g[q]
      PROVE  B[<<f, p>>] = B[<<g, p>>]
  <2>1. \A q \in Pairs : Height[q[1]] < Height[p[1]] => f[q] = g[q]
    BY <1>4
  <2> HIDE DEF B, F, Pairs, EqualsIn
  <2>2. QED
    BY <2>1, <1>1, EqualsIsLocal
<1>5. rank \in [Pairs -> 0..Depth]
  BY HeightType, ParsedIsValue DEF Pairs
<1>6. IsRecursion(B, Pairs, BOOLEAN, rank, Depth)
  <2> HIDE DEF B, rank, Pairs
  <2>1. QED
    BY <1>3, <1>4, <1>5, DepthIsNat DEF IsRecursion
<1>7. PICK f : IsSolution(f, B, Pairs, BOOLEAN)
  <2> HIDE DEF B, rank
  <2>1. QED
    BY <1>6, RecursionByRank
<1>8. f = [p \in Pairs |-> EqualsIn(f, p)]
  <2> HIDE DEF EqualsIn, B, Pairs
  <2>1. f \in [Pairs -> BOOLEAN] /\ \A p \in Pairs : f[p] = EqualsIn(f, p)
    BY <1>7, <1>1 DEF IsSolution
  <2>2. QED
    BY <2>1
<1>9. json_value_equals = [p \in Pairs |-> EqualsIn(json_value_equals, p)]
  <2> HIDE DEF B, rank, F
  <2>1. json_value_equals = CHOOSE h : h = [p \in Pairs |-> EqualsIn(h, p)]
    BY Zenon DEF json_value_equals, EqualsIn, Pairs
  <2> HIDE DEF EqualsIn, Pairs
  <2>2. QED
    BY <1>8, <2>1, Zenon
<1>10. QED
  <2> HIDE DEF EqualsIn, Pairs
  <2>1. \A p \in Pairs : json_value_equals[p] = EqualsIn(json_value_equals, p)
    BY <1>9, Zenon
  <2>2. \A p \in Pairs : json_value_equals[p] \in BOOLEAN
    BY <2>1, Zenon DEF EqualsIn
  <2>3. QED
    BY <1>9, <2>1, <2>2

-----------------------------------------------------------------------------
(* Objects: adding, setting and removing a value.                          *)

\* No two members have one name.
Distinct(o) ==
    \A i, j \in DOMAIN o.members : o.members[i].name = o.members[j].name => i = j

\* The members whose values are of X.
Pairing(X) == [name : STRING, value : X]

\* The objects with values of X, and no name twice.
ObjectOf(X) ==
    {o \in [type : {"object"}, members : Seq(Pairing(X))] : Distinct(o)}

\* r is o with the value under the name.
IsPut(r, o, name, value) ==
    /\ Names(r) = Names(o) \cup {name}
    /\ json_object_get_value(r, name) = value
    /\ \A n : n # name => json_object_get_value(r, n) = json_object_get_value(o, n)

\* An object is what Object makes of its members.
LEMMA ObjectShape ==
  ASSUME NEW X, NEW o \in ObjectOf(X)
  PROVE  /\ o = Object(o.members) /\ IsObject(o) /\ o # NoValue
         /\ o.members \in Seq(Pairing(X)) /\ Distinct(o)
BY DEF ObjectOf, Object, IsObject, NoValue

\* What Object makes of members with different names.
LEMMA ShapeObject ==
  ASSUME NEW X, NEW ms \in Seq(Pairing(X)),
         \A i, j \in DOMAIN ms : ms[i].name = ms[j].name => i = j
  PROVE  /\ Object(ms) \in ObjectOf(X) /\ Object(ms).members = ms
         /\ IsObject(Object(ms)) /\ Object(ms) # NoValue
BY DEF ObjectOf, Object, IsObject, NoValue, Distinct

\* A member is what Member makes of its name and value.
LEMMA PairIn ==
  ASSUME NEW X, NEW e \in Pairing(X)
  PROVE  e = Member(e.name, e.value) /\ e.name \in STRING /\ e.value \in X
BY DEF Pairing, Member

\* What Member makes of a name and a value.
LEMMA InPair ==
  ASSUME NEW X, NEW name \in STRING, NEW value \in X
  PROVE  /\ Member(name, value) \in Pairing(X)
         /\ Member(name, value).name = name /\ Member(name, value).value = value
BY DEF Pairing, Member

\* A value is found where its name is.
LEMMA GetAt ==
  ASSUME NEW X, NEW o \in ObjectOf(X)
  PROVE  /\ \A i \in DOMAIN o.members :
               /\ Place(o, o.members[i].name) = i
               /\ o.members[i].name \in Names(o)
               /\ json_object_get_value(o, o.members[i].name) = o.members[i].value
         /\ \A name \in Names(o) :
               /\ Place(o, name) \in DOMAIN o.members
               /\ o.members[Place(o, name)].name = name
               /\ json_object_get_value(o, name) = o.members[Place(o, name)].value
         /\ \A name : name \notin Names(o) => json_object_get_value(o, name) = NoValue
<1>1. \A name \in Names(o) : /\ Place(o, name) \in DOMAIN o.members
                             /\ o.members[Place(o, name)].name = name
  BY DEF Names, Place
<1>2. \A i \in DOMAIN o.members : /\ o.members[i].name \in Names(o)
                                  /\ Place(o, o.members[i].name) = i
  <2>1. \A i \in DOMAIN o.members : o.members[i].name \in Names(o)
    BY DEF Names
  <2>2. QED
    BY <1>1, <2>1, ObjectShape DEF Distinct
<1>3. \A name \in Names(o) :
         json_object_get_value(o, name) = o.members[Place(o, name)].value
  BY ObjectShape DEF json_object_get_value
<1>4. \A name : name \notin Names(o) => json_object_get_value(o, name) = NoValue
  BY DEF json_object_get_value
<1>5. QED
  BY <1>1, <1>2, <1>3, <1>4

\* What an object's names and values are.
LEMMA NamesAreStrings ==
  ASSUME NEW X, NEW o \in ObjectOf(X)
  PROVE  /\ Names(o) \subseteq STRING
         /\ \A name \in Names(o) : json_object_get_value(o, name) \in X
<1>1. \A i \in DOMAIN o.members : o.members[i].name \in STRING /\ o.members[i].value \in X
  BY ObjectShape, MemberOfSeq, PairIn
<1>2. QED
  BY <1>1, GetAt DEF Names

\* A sequence with a member more.
LEMMA Appended ==
  ASSUME NEW S, NEW s \in Seq(S), NEW e \in S
  PROVE  /\ Append(s, e) \in Seq(S)
         /\ DOMAIN Append(s, e) = DOMAIN s \cup {Len(s) + 1} /\ Len(s) + 1 \notin DOMAIN s
         /\ \A i \in DOMAIN s : Append(s, e)[i] = s[i]
         /\ Append(s, e)[Len(s) + 1] = e
OBVIOUS

\* A sequence with another member in one place.
LEMMA Replaced ==
  ASSUME NEW S, NEW s \in Seq(S), NEW k \in DOMAIN s, NEW e \in S
  PROVE  /\ [s EXCEPT ![k] = e] \in Seq(S)
         /\ DOMAIN [s EXCEPT ![k] = e] = DOMAIN s
         /\ \A i \in DOMAIN s : [s EXCEPT ![k] = e][i] = IF i = k THEN e ELSE s[i]
OBVIOUS

\* A sequence whose last member takes the place of another one.
LEMMA Shortened ==
  ASSUME NEW S, NEW s \in Seq(S), NEW k \in DOMAIN s
  PROVE  LET t == SubSeq([s EXCEPT ![k] = s[Len(s)]], 1, Len(s) - 1)
         IN /\ t \in Seq(S) /\ Len(s) \in DOMAIN s
            /\ DOMAIN t = DOMAIN s \ {Len(s)}
            /\ \A i \in DOMAIN t : t[i] = IF i = k THEN s[Len(s)] ELSE s[i]
<1>1. Len(s) \in DOMAIN s /\ Len(s) \in Nat /\ Len(s) >= 1 /\ s[Len(s)] \in S
  OBVIOUS
<1> DEFINE r == [s EXCEPT ![k] = s[Len(s)]]
<1>2. r \in Seq(S) /\ Len(r) = Len(s)
  BY <1>1, Replaced
<1>3. \A i \in DOMAIN s : r[i] = IF i = k THEN s[Len(s)] ELSE s[i]
  OBVIOUS
<1>4. \A i \in 1..Len(s) - 1 : i \in DOMAIN s
  OBVIOUS
<1> HIDE DEF r
<1>5. SubSeq(r, 1, Len(s) - 1) \in Seq(S) /\ Len(SubSeq(r, 1, Len(s) - 1)) = Len(s) - 1
  BY <1>1, <1>2
<1>6. \A i \in 1..Len(s) - 1 : SubSeq(r, 1, Len(s) - 1)[i] = r[i]
  BY <1>1, <1>2
<1>7. DOMAIN SubSeq(r, 1, Len(s) - 1) = 1..Len(s) - 1
  BY <1>5
<1>8. DOMAIN s \ {Len(s)} = 1..Len(s) - 1
  BY <1>1
<1>9. QED
  BY <1>1, <1>3, <1>4, <1>5, <1>6, <1>7, <1>8 DEF r

\* json_object_add puts a value under a name the object did not have.
LEMMA AddPuts ==
  ASSUME NEW X, NEW o \in ObjectOf(X), NEW capacity,
         NEW name \in STRING, NEW value \in X,
         json_object_add(o, capacity, name, value) # NoValue
  PROVE  LET r == json_object_add(o, capacity, name, value)
         IN r \in ObjectOf(X) /\ name \notin Names(o) /\ IsPut(r, o, name, value)
<1> DEFINE e == Member(name, value)
           ms == o.members
           r == json_object_add(o, capacity, name, value)
<1>1. name \notin Names(o) /\ r = Object(Append(ms, e))
  BY DEF json_object_add
<1>2. ms \in Seq(Pairing(X)) /\ e \in Pairing(X) /\ e.name = name /\ e.value = value
  BY ObjectShape, InPair
<1>3. \A i \in DOMAIN ms : ms[i].name # name
  BY <1>1 DEF Names
<1>4. /\ Append(ms, e) \in Seq(Pairing(X))
      /\ DOMAIN Append(ms, e) = DOMAIN ms \cup {Len(ms) + 1}
      /\ \A i \in DOMAIN ms : Append(ms, e)[i] = ms[i]
      /\ Append(ms, e)[Len(ms) + 1] = e
  BY <1>2, Appended
<1>5. \A i, j \in DOMAIN ms : ms[i].name = ms[j].name => i = j
  BY ObjectShape DEF Distinct
<1>6. r \in ObjectOf(X) /\ r.members = Append(ms, e)
  <2> DEFINE t == Append(ms, e)
  <2>1. \A i, j \in DOMAIN t : t[i].name = t[j].name => i = j
    <3> HIDE DEF e, ms
    <3>1. QED
      BY <1>2, <1>3, <1>4, <1>5
  <2>2. t \in Seq(Pairing(X))
    BY <1>4
  <2> HIDE DEF t
  <2>3. Object(t) \in ObjectOf(X) /\ Object(t).members = t
    BY <2>1, <2>2, ShapeObject
  <2>4. QED
    BY <2>3, <1>1 DEF t
<1> HIDE DEF e, r
<1>7. Names(r) = Names(o) \cup {name}
  BY <1>2, <1>4, <1>6 DEF Names
<1>8. json_object_get_value(r, name) = value
  BY <1>2, <1>4, <1>6, GetAt
<1>9. ASSUME NEW n, n # name
      PROVE  json_object_get_value(r, n) = json_object_get_value(o, n)
  <2>1. CASE n \in Names(o)
    <3>1. PICK i \in DOMAIN ms : ms[i].name = n
      BY <2>1 DEF Names
    <3>2. i \in DOMAIN r.members /\ r.members[i] = ms[i]
      BY <1>4, <1>6
    <3>3. QED
      BY <3>1, <3>2, <1>6, GetAt
  <2>2. CASE n \notin Names(o)
    <3>1. n \notin Names(r)
      BY <1>7, <1>9, <2>2
    <3>2. QED
      BY <2>2, <3>1, <1>6, GetAt
  <2>3. QED
    BY <2>1, <2>2
<1>10. QED
  BY <1>1, <1>6, <1>7, <1>8, <1>9 DEF IsPut, r

\* json_object_set_value puts a value under the name, and cannot fail to if the
\* object has it.
LEMMA SetPuts ==
  ASSUME NEW X, NoValue \notin X, NEW o \in ObjectOf(X),
         NEW name \in STRING, NEW value \in X
  PROVE  LET r == json_object_set_value(o, name, value)
         IN /\ r # NoValue => r \in ObjectOf(X) /\ IsPut(r, o, name, value)
            /\ name \in Names(o) => r # NoValue
<1> DEFINE e == Member(name, value)
           ms == o.members
           r == json_object_set_value(o, name, value)
<1>1. IsObject(o) /\ value # NoValue
  BY ObjectShape
<1>2. CASE name \in Names(o)
  <2> DEFINE k == Place(o, name)
             t == [ms EXCEPT ![k] = e]
  <2>1. r = Object(t)
    BY <1>1, <1>2 DEF json_object_set_value
  <2>2. ms \in Seq(Pairing(X)) /\ e \in Pairing(X) /\ e.name = name /\ e.value = value
    BY ObjectShape, InPair
  <2>3. k \in DOMAIN ms /\ ms[k].name = name
    BY <1>2, GetAt
  <2>4. /\ t \in Seq(Pairing(X)) /\ DOMAIN t = DOMAIN ms
        /\ \A i \in DOMAIN ms : t[i] = IF i = k THEN e ELSE ms[i]
    <3> HIDE DEF e, ms, k
    <3>1. QED
      BY <2>2, <2>3, Replaced
  <2>5. \A i \in DOMAIN ms : t[i].name = ms[i].name
    <3> HIDE DEF e, ms, k, t
    <3>1. QED
      BY <2>2, <2>3, <2>4
  <2>6. \A i, j \in DOMAIN ms : ms[i].name = ms[j].name => i = j
    BY ObjectShape DEF Distinct
  <2>7. r \in ObjectOf(X) /\ r.members = t /\ r # NoValue
    <3>1. \A i, j \in DOMAIN t : t[i].name = t[j].name => i = j
      <4> HIDE DEF t, ms, k, e
      <4>1. QED
        BY <2>4, <2>5, <2>6
    <3> HIDE DEF t, ms, k, e, r
    <3>2. QED
      BY <2>1, <2>4, <3>1, ShapeObject
  <2> HIDE DEF e, r, t, k
  <2>8. Names(r) = Names(o) /\ Names(o) = Names(o) \cup {name}
    BY <1>2, <2>4, <2>5, <2>7 DEF Names
  <2>9. json_object_get_value(r, name) = value
    BY <2>2, <2>3, <2>4, <2>7, GetAt
  <2>10. ASSUME NEW n, n # name
        PROVE  json_object_get_value(r, n) = json_object_get_value(o, n)
    <3>1. CASE n \in Names(o)
      <4>1. PICK i \in DOMAIN ms : ms[i].name = n
        BY <3>1 DEF Names
      <4>2. i # k
        BY <2>3, <2>10, <4>1
      <4>3. i \in DOMAIN r.members /\ r.members[i] = ms[i]
        BY <2>4, <2>7, <4>2
      <4>4. QED
        BY <4>1, <4>3, <2>7, GetAt
    <3>2. CASE n \notin Names(o)
      BY <3>2, <2>7, <2>8, GetAt
    <3>3. QED
      BY <3>1, <3>2
  <2>11. QED
    BY <2>7, <2>8, <2>9, <2>10 DEF IsPut, r
<1>3. CASE name \notin Names(o)
  <2>1. r = json_object_add(o, Len(ms), name, value)
    BY <1>1, <1>3 DEF json_object_set_value
  <2>2. QED
    BY <1>3, <2>1, AddPuts
<1>4. QED
  BY <1>2, <1>3

\* json_object_remove takes a name and its value out and keeps the others.
LEMMA RemoveTakes ==
  ASSUME NEW X, NEW o \in ObjectOf(X), NEW name \in Names(o)
  PROVE  LET r == json_object_remove(o, name)
         IN /\ r \in ObjectOf(X)
            /\ Names(r) = Names(o) \ {name}
            /\ \A n : n # name =>
                  json_object_get_value(r, n) = json_object_get_value(o, n)
<1> DEFINE ms == o.members
           last == Len(ms)
           k == Place(o, name)
           t == SubSeq([ms EXCEPT ![k] = ms[last]], 1, last - 1)
           r == json_object_remove(o, name)
<1>1. r = Object(t)
  BY DEF json_object_remove
<1>2. ms \in Seq(Pairing(X)) /\ k \in DOMAIN ms /\ ms[k].name = name
  BY ObjectShape, GetAt
<1>3. /\ t \in Seq(Pairing(X)) /\ last \in DOMAIN ms
      /\ DOMAIN t = DOMAIN ms \ {last}
      /\ \A i \in DOMAIN t : t[i] = IF i = k THEN ms[last] ELSE ms[i]
  <2> HIDE DEF ms, k
  <2>1. QED
    BY <1>2, Shortened
<1>4. \A i, j \in DOMAIN ms : ms[i].name = ms[j].name => i = j
  BY ObjectShape DEF Distinct
<1>5. \A i \in DOMAIN t : \E j \in DOMAIN ms : /\ j # k /\ t[i] = ms[j]
                                               /\ j = IF i = k THEN last ELSE i
  <2> HIDE DEF ms, k, last, t
  <2>1. QED
    BY <1>3
<1>6. \A j \in DOMAIN ms : j # k => \E i \in DOMAIN t : t[i] = ms[j]
  <2> HIDE DEF ms, k, last, t
  <2>1. SUFFICES ASSUME NEW j \in DOMAIN ms, j # k
                 PROVE  \E i \in DOMAIN t : t[i] = ms[j]
    OBVIOUS
  <2>2. CASE j = last
    BY <1>2, <1>3, <2>1, <2>2
  <2>3. CASE j # last
    BY <1>3, <2>1, <2>3
  <2>4. QED
    BY <2>2, <2>3
<1>7. r \in ObjectOf(X) /\ r.members = t
  <2>1. \A i, j \in DOMAIN t : t[i].name = t[j].name => i = j
    <3> HIDE DEF ms, k, last, t
    <3>1. QED
      BY <1>3, <1>4, <1>5
  <2> HIDE DEF ms, k, last, t, r
  <2>2. QED
    BY <1>1, <1>3, <2>1, ShapeObject
<1> HIDE DEF k, last, t, r
<1>8. \A j \in DOMAIN ms : j # k <=> ms[j].name # name
  BY <1>2, <1>4
<1>9. Names(r) = Names(o) \ {name}
  <2>1. \A n \in Names(r) : n \in Names(o) /\ n # name
    BY <1>5, <1>7, <1>8 DEF Names
  <2>2. \A n \in Names(o) : n # name => n \in Names(r)
    BY <1>6, <1>7, <1>8 DEF Names
  <2>3. QED
    BY <2>1, <2>2
<1>10. ASSUME NEW n, n # name
       PROVE  json_object_get_value(r, n) = json_object_get_value(o, n)
  <2>1. CASE n \in Names(o)
    <3>1. PICK j \in DOMAIN ms : ms[j].name = n
      BY <2>1 DEF Names
    <3>2. PICK i \in DOMAIN t : t[i] = ms[j]
      BY <1>6, <1>8, <1>10, <3>1
    <3>3. i \in DOMAIN r.members /\ r.members[i] = ms[j]
      BY <1>7, <3>2
    <3>4. QED
      BY <3>1, <3>3, <1>7, GetAt
  <2>2. CASE n \notin Names(o)
    BY <2>2, <1>7, <1>9, GetAt
  <2>3. QED
    BY <2>1, <2>2
<1>11. QED
  BY <1>7, <1>9, <1>10 DEF r

-----------------------------------------------------------------------------
(* Merging: one turn of the loop.                                          *)

\* The value of the i-th name of b in a, and in b.
OldAt(a, b, i) == json_object_get_value(a, b.members[i].name)

NewAt(b, i) == b.members[i].value

\* Two objects that can be merged, when their members have been.
Mergeable(X, a, b, inner) ==
    /\ X \subseteq Parsed /\ NoValue \notin X
    /\ a \in ObjectOf(X) /\ b \in ObjectOf(X)
    /\ \A i \in DOMAIN b.members :
          /\ inner[i].ok \in BOOLEAN /\ inner[i].whole \in BOOLEAN
          /\ IsObject(OldAt(a, b, i)) => inner[i].value \in X

\* A merge on its way.
States(X) == [object : ObjectOf(X), capacity : Nat, ok : BOOLEAN, whole : BOOLEAN]

\* One of b's members is merged inside, and what it becomes.
Deep(a, b, i) ==
    /\ IsObject(OldAt(a, b, i))
    /\ ~json_value_equals[<<OldAt(a, b, i), NewAt(b, i)>>]

\* What the i-th name of b has in the merged object.
OutAt(a, b, inner, i) ==
    IF OldAt(a, b, i) = NoValue THEN NewAt(b, i)
    ELSE IF json_value_equals[<<OldAt(a, b, i), NewAt(b, i)>>] THEN OldAt(a, b, i)
    ELSE IF IsObject(OldAt(a, b, i)) THEN inner[i].value
    ELSE NewAt(b, i)

\* Whether nothing is lost inside of it.
WholeAt(a, b, inner, i) ==
    Deep(a, b, i) => inner[i].whole /\ (IsObject(NewAt(b, i)) => inner[i].ok)

\* The i-th turn, from the state m.
TurnIn(a, b, inner, m, i) ==
    IF m.ok THEN MergeMember(m, b.members[i].name, OldAt(a, b, i), NewAt(b, i), inner[i])
    ELSE m

\* A turn that adds puts the value under the name, or fails.
LEMMA AddedPuts ==
  ASSUME NEW X, NoValue \notin X, NEW m \in States(X), NEW o \in ObjectOf(X),
         NEW name \in STRING, NEW value \in X, m.ok
  PROVE  LET t == Added(m, o, name, value)
         IN /\ t \in States(X)
            /\ t.ok => IsPut(t.object, o, name, value) /\ t.whole = m.whole
<1> DEFINE t == Added(m, o, name, value)
           added == json_object_add(o, m.capacity, name, value)
<1>1. CASE added = NoValue
  <2>1. t = [m EXCEPT !.object = o, !.ok = FALSE]
    BY <1>1 DEF Added
  <2>2. QED
    BY <2>1 DEF States
<1>2. CASE added # NoValue
  <2>1. added \in ObjectOf(X) /\ IsPut(added, o, name, value)
    BY <1>2, AddPuts
  <2>2. Grown(m.capacity, Len(o.members)) \in Nat
    <3>1. m.capacity \in Nat
      BY DEF States
    <3>2. QED
      BY <3>1, JsonAssumption DEF Grown
  <2> DEFINE c == Grown(m.capacity, Len(o.members))
  <2>3. t = [m EXCEPT !.object = added, !.capacity = c]
    BY <1>2 DEF Added
  <2> HIDE DEF added, t, c
  <2>4. t.object = added /\ t.whole = m.whole
    BY <2>3 DEF States
  <2>5. t \in States(X)
    BY <2>1, <2>2, <2>3 DEF States, c
  <2>6. QED
    BY <2>1, <2>4, <2>5 DEF t
<1>3. QED
  BY <1>1, <1>2

\* One turn puts what the member becomes under its name.
LEMMA TurnPuts ==
  ASSUME NEW X, NEW a, NEW b, NEW inner, Mergeable(X, a, b, inner),
         NEW i \in DOMAIN b.members, NEW m \in States(X),
         OldAt(a, b, i) # NoValue => /\ b.members[i].name \in Names(m.object)
                                     /\ json_object_get_value(m.object, b.members[i].name)
                                           = OldAt(a, b, i)
  PROVE  LET t == TurnIn(a, b, inner, m, i)
         IN /\ t \in States(X)
            /\ t.ok => m.ok
            /\ t.ok => /\ IsPut(t.object, m.object, b.members[i].name,
                                OutAt(a, b, inner, i))
                       /\ t.whole => (m.whole /\ WholeAt(a, b, inner, i))
<1> DEFINE name == b.members[i].name
           old == OldAt(a, b, i)
           new == NewAt(b, i)
           t == TurnIn(a, b, inner, m, i)
<1>0. /\ X \subseteq Parsed /\ NoValue \notin X /\ a \in ObjectOf(X) /\ b \in ObjectOf(X)
      /\ inner[i].ok \in BOOLEAN /\ inner[i].whole \in BOOLEAN
      /\ IsObject(old) => inner[i].value \in X
  BY DEF Mergeable
<1>1. name \in STRING /\ new \in X
  BY <1>0, ObjectShape, MemberOfSeq, PairIn DEF NewAt
<1>2. m.object \in ObjectOf(X) /\ m.ok \in BOOLEAN /\ m.whole \in BOOLEAN
  BY DEF States
<1>3. CASE ~m.ok
  BY <1>3 DEF TurnIn
<1>4. CASE m.ok /\ old = NoValue
  <2>1. t = Added(m, m.object, name, new)
    <3>1. ~IsObject(old)
      BY <1>4 DEF IsObject, NoValue
    <3>2. QED
      BY <1>4, <3>1, Zenon DEF TurnIn, MergeMember
  <2>2. OutAt(a, b, inner, i) = new /\ ~Deep(a, b, i)
    BY <1>4 DEF OutAt, Deep, IsObject, NoValue
  <2> HIDE DEF name, old, new, t
  <2>3. t \in States(X) /\ (t.ok => IsPut(t.object, m.object, name, new) /\ t.whole = m.whole)
    <3>1. NoValue \notin X /\ m.object \in ObjectOf(X) /\ m.ok
      BY <1>0, <1>2, <1>4
    <3>2. QED
      BY <2>1, <3>1, <1>1, AddedPuts
  <2>4. QED
    BY <2>2, <2>3, <1>4 DEF WholeAt, name, t
<1>5. CASE m.ok /\ old # NoValue /\ json_value_equals[<<old, new>>]
  <2>1. t = m
    BY <1>5, Zenon DEF TurnIn, MergeMember
  <2>2. OutAt(a, b, inner, i) = old /\ ~Deep(a, b, i)
    BY <1>5 DEF OutAt, Deep
  <2>3. name \in Names(m.object) /\ json_object_get_value(m.object, name) = old
    BY <1>5
  <2> HIDE DEF name, old, new, t
  <2>4. IsPut(m.object, m.object, name, old)
    BY <2>3 DEF IsPut
  <2>5. QED
    BY <1>5, <2>1, <2>2, <2>4 DEF WholeAt, name, t
<1>6. CASE m.ok /\ old # NoValue /\ ~json_value_equals[<<old, new>>] /\ IsObject(old)
  <2> DEFINE o == json_object_set_value(m.object, name, inner[i].value)
             w == m.whole /\ inner[i].whole /\ (IsObject(new) => inner[i].ok)
  <2>1. t = [m EXCEPT !.object = o, !.whole = w]
    BY <1>6, Zenon DEF TurnIn, MergeMember
  <2>2. OutAt(a, b, inner, i) = inner[i].value /\ Deep(a, b, i)
    BY <1>6 DEF OutAt, Deep
  <2>3. name \in Names(m.object) /\ inner[i].value \in X
    BY <1>0, <1>6
  <2>4. w \in BOOLEAN
    BY Zenon
  <2> HIDE DEF name, old, new, t, w
  <2>5. o \in ObjectOf(X) /\ IsPut(o, m.object, name, inner[i].value)
    BY <1>0, <1>1, <1>2, <2>3, SetPuts
  <2> HIDE DEF o
  <2>6. t \in States(X) /\ t.object = o /\ t.whole = w /\ t.ok = m.ok
    BY <2>1, <2>4, <2>5 DEF States
  <2>7. w => m.whole /\ WholeAt(a, b, inner, i)
    BY Zenon DEF w, WholeAt, new
  <2>8. QED
    BY <1>6, <2>2, <2>5, <2>6, <2>7 DEF name, t
<1>7. CASE m.ok /\ old # NoValue /\ ~json_value_equals[<<old, new>>] /\ ~IsObject(old)
  <2> DEFINE o == json_object_remove(m.object, name)
  <2>1. t = Added(m, o, name, new)
    BY <1>7, Zenon DEF TurnIn, MergeMember
  <2>2. OutAt(a, b, inner, i) = new /\ ~Deep(a, b, i)
    BY <1>7 DEF OutAt, Deep
  <2>3. name \in Names(m.object)
    BY <1>7
  <2> HIDE DEF name, old, new, t
  <2>4. /\ o \in ObjectOf(X) /\ Names(o) = Names(m.object) \ {name}
        /\ \A n : n # name =>
              json_object_get_value(o, n) = json_object_get_value(m.object, n)
    BY <1>2, <2>3, RemoveTakes
  <2> HIDE DEF o
  <2>5. t \in States(X) /\ (t.ok => IsPut(t.object, o, name, new) /\ t.whole = m.whole)
    BY <2>1, <2>4, <1>0, <1>1, <1>7, AddedPuts
  <2>6. IsPut(t.object, o, name, new) => IsPut(t.object, m.object, name, new)
    BY <2>3, <2>4 DEF IsPut
  <2>7. QED
    BY <2>2, <2>5, <2>6, <1>7 DEF WholeAt, name, t
<1>8. QED
  BY <1>2, <1>3, <1>4, <1>5, <1>6, <1>7

-----------------------------------------------------------------------------
(* Merging: all turns.                                                     *)

\* The names of b's first i members.
NamesUpto(b, i) == {b.members[j].name : j \in 1..i}

\* The state m after i turns: the first i names of b have what they are to have,
\* every other name what it had in a.
AfterInv(X, a, b, inner, m, i) ==
    /\ m \in States(X)
    /\ m.ok =>
          /\ Names(m.object) = Names(a) \cup NamesUpto(b, i)
          /\ \A n : n \notin NamesUpto(b, i) =>
                json_object_get_value(m.object, n) = json_object_get_value(a, n)
          /\ \A j \in 1..i :
                json_object_get_value(m.object, b.members[j].name) = OutAt(a, b, inner, j)
          /\ m.whole => \A j \in 1..i : WholeAt(a, b, inner, j)

\* The state before the first turn.
Start(a) == [object |-> a, capacity |-> Len(a.members), ok |-> TRUE, whole |-> TRUE]

\* h gives the states between the turns, as far as they are states.
IsAfter(h, X, a, b, inner) ==
    /\ h[0] = Start(a)
    /\ \A i \in 1..Len(b.members) :
          TurnIn(a, b, inner, h[i - 1], i) \in States(X) =>
             h[i] = TurnIn(a, b, inner, h[i - 1], i)

\* The places of an object's members.
LEMMA MembersCount ==
  ASSUME NEW X, NEW o \in ObjectOf(X)
  PROVE  Len(o.members) \in Nat /\ DOMAIN o.members = 1..Len(o.members)
<1>1. \A S, s : s \in Seq(S) => Len(s) \in Nat /\ DOMAIN s = 1..Len(s)
  OBVIOUS
<1>2. QED
  BY <1>1, ObjectShape, Zenon

\* One turn keeps AfterInv.
LEMMA AfterTurn ==
  ASSUME NEW X, NEW a, NEW b, NEW inner, Mergeable(X, a, b, inner),
         NEW i \in Nat, i + 1 \in 1..Len(b.members), NEW m,
         AfterInv(X, a, b, inner, m, i)
  PROVE  /\ TurnIn(a, b, inner, m, i + 1) \in States(X)
         /\ AfterInv(X, a, b, inner, TurnIn(a, b, inner, m, i + 1), i + 1)
<1> DEFINE t == TurnIn(a, b, inner, m, i + 1)
           name == b.members[i + 1].name
           Of(o, n) == json_object_get_value(o, n)
<1>0. a \in ObjectOf(X) /\ b \in ObjectOf(X) /\ m \in States(X)
  BY DEF Mergeable, AfterInv
<1>1. /\ i + 1 \in DOMAIN b.members
      /\ \A j \in 1..i : j \in DOMAIN b.members /\ j # i + 1
  BY <1>0, MembersCount
<1>2. \A j \in 1..i : b.members[j].name # name
  BY <1>0, <1>1, ObjectShape DEF Distinct
<1>3. name \notin NamesUpto(b, i)
  BY <1>2 DEF NamesUpto
<1>4. \A j \in 1..i + 1 : j \in 1..i \/ j = i + 1
  OBVIOUS
<1>5. NamesUpto(b, i + 1) = NamesUpto(b, i) \cup {name}
  <2>1. \A j \in 1..i : j \in 1..i + 1
    OBVIOUS
  <2>2. i + 1 \in 1..i + 1
    OBVIOUS
  <2>3. QED
    BY <1>4, <2>1, <2>2 DEF NamesUpto
<1>6. OldAt(a, b, i + 1) = Of(a, name)
  BY DEF OldAt
<1>7. CASE ~m.ok
  <2>1. t = m
    BY <1>7 DEF TurnIn
  <2>2. QED
    BY <1>0, <1>7, <2>1 DEF AfterInv
<1>8. CASE m.ok
  <2>1. /\ Names(m.object) = Names(a) \cup NamesUpto(b, i)
        /\ \A n : n \notin NamesUpto(b, i) => Of(m.object, n) = Of(a, n)
        /\ \A j \in 1..i : Of(m.object, b.members[j].name) = OutAt(a, b, inner, j)
        /\ m.whole => \A j \in 1..i : WholeAt(a, b, inner, j)
    BY <1>8 DEF AfterInv
  <2>2. OldAt(a, b, i + 1) # NoValue => /\ name \in Names(m.object)
                                        /\ Of(m.object, name) = OldAt(a, b, i + 1)
    BY <2>1, <1>0, <1>3, <1>6, GetAt
  <2>3. /\ t \in States(X)
        /\ t.ok => /\ IsPut(t.object, m.object, name, OutAt(a, b, inner, i + 1))
                   /\ t.whole => (m.whole /\ WholeAt(a, b, inner, i + 1))
    <3> HIDE DEF t
    <3>1. QED
      BY <1>0, <1>1, <2>2, TurnPuts DEF t
  <2> HIDE DEF t, name
  <2>4. ASSUME t.ok
        PROVE  /\ Names(t.object) = Names(a) \cup NamesUpto(b, i + 1)
               /\ \A n : n \notin NamesUpto(b, i + 1) => Of(t.object, n) = Of(a, n)
    BY <1>3, <1>5, <2>1, <2>3, <2>4 DEF IsPut
  <2>5. ASSUME t.ok, NEW j \in 1..i + 1
        PROVE  Of(t.object, b.members[j].name) = OutAt(a, b, inner, j)
    BY <1>2, <1>4, <2>1, <2>3, <2>5 DEF IsPut, name
  <2>6. ASSUME t.ok, t.whole, NEW j \in 1..i + 1
        PROVE  WholeAt(a, b, inner, j)
    BY <1>4, <2>1, <2>3, <2>6
  <2>7. AfterInv(X, a, b, inner, t, i + 1)
    BY <2>3, <2>4, <2>5, <2>6 DEF AfterInv
  <2>8. QED
    BY <2>3, <2>7 DEF t
<1>9. QED
  BY <1>7, <1>8

\* So do all of them.
LEMMA AfterInvariant ==
  ASSUME NEW X, NEW a, NEW b, NEW inner, Mergeable(X, a, b, inner),
         NEW h, IsAfter(h, X, a, b, inner)
  PROVE  \A i \in 0..Len(b.members) : AfterInv(X, a, b, inner, h[i], i)
<1> DEFINE T == {i \in Nat : i \in 0..Len(b.members) => AfterInv(X, a, b, inner, h[i], i)}
<1>0. a \in ObjectOf(X) /\ b \in ObjectOf(X) /\ Len(b.members) \in Nat /\ Len(a.members) \in Nat
  BY MembersCount DEF Mergeable
<1>1. 0 \in T
  <2>1. h[0] = Start(a)
    BY DEF IsAfter
  <2>2. Start(a) \in States(X)
    BY <1>0 DEF Start, States
  <2>3. Start(a).object = a
    BY DEF Start
  <2>4. NamesUpto(b, 0) = {} /\ \A j \in 1..0 : FALSE
    BY DEF NamesUpto
  <2>5. AfterInv(X, a, b, inner, Start(a), 0)
    BY <2>2, <2>3, <2>4 DEF AfterInv
  <2>6. QED
    BY <2>1, <2>5
<1>2. ASSUME NEW i \in Nat, i \in T PROVE i + 1 \in T
  <2> SUFFICES ASSUME i + 1 \in 0..Len(b.members)
               PROVE  AfterInv(X, a, b, inner, h[i + 1], i + 1)
    OBVIOUS
  <2>1. i \in 0..Len(b.members) /\ i + 1 \in 1..Len(b.members) /\ (i + 1) - 1 = i
    BY <1>0
  <2>2. AfterInv(X, a, b, inner, h[i], i)
    BY <1>2, <2>1
  <2>3. /\ TurnIn(a, b, inner, h[i], i + 1) \in States(X)
        /\ AfterInv(X, a, b, inner, TurnIn(a, b, inner, h[i], i + 1), i + 1)
    BY <2>1, <2>2, AfterTurn
  <2>4. h[i + 1] = TurnIn(a, b, inner, h[i], i + 1)
    BY <2>1, <2>3 DEF IsAfter
  <2>5. QED
    BY <2>3, <2>4
<1>3. Nat \subseteq T
  <2> HIDE DEF T
  <2>1. QED
    BY <1>1, <1>2, AllNumbers
<1>4. QED
  BY <1>0, <1>3

\* The equation of the loop in Merged.
AfterBody(a, b, inner, h) ==
    [i \in 0..Len(b.members) |->
        IF i = 0 THEN Start(a) ELSE TurnIn(a, b, inner, h[i - 1], i)]

\* There is a function that satisfies it.
LEMMA AfterExists ==
  ASSUME NEW X, NEW a, NEW b, NEW inner, Mergeable(X, a, b, inner)
  PROVE  \E h : h = AfterBody(a, b, inner, h)
<1> DEFINE n == Len(b.members)
           V == States(X)
           Turn(m, i) == TurnIn(a, b, inner, m, i)
           B == [p \in V \X (1..n) |-> IF Turn(p[1], p[2]) \in V THEN Turn(p[1], p[2])
                                       ELSE Start(a)]
<1>0. a \in ObjectOf(X) /\ b \in ObjectOf(X) /\ n \in Nat /\ Len(a.members) \in Nat
  BY MembersCount DEF Mergeable
<1>1. Start(a) \in V
  BY <1>0 DEF Start, States
<1>2. \A m \in V, i \in 1..n : B[<<m, i>>] = IF Turn(m, i) \in V THEN Turn(m, i) ELSE Start(a)
  <2> HIDE DEF V, Turn, n
  <2>1. QED
    BY Zenon
<1>3. B \in [V \X (1..n) -> V]
  <2> HIDE DEF V, Turn, n
  <2>1. QED
    BY <1>1
<1>4. PICK h : IsRun(h, B, V, Start(a), n)
  <2>1. IsLoop(B, V, Start(a), n)
    <3> HIDE DEF B, V, n
    <3>1. QED
      BY <1>0, <1>1, <1>3 DEF IsLoop
  <2> HIDE DEF B, V, n
  <2>2. QED
    BY <2>1, RecursionByCount
<1>5. /\ h \in [0..n -> V] /\ h[0] = Start(a)
      /\ \A i \in 1..n : h[i] = B[<<h[i - 1], i>>]
  <2> HIDE DEF B, V, n
  <2>1. QED
    BY <1>4 DEF IsRun
<1>6. \A i \in 1..n : i - 1 \in 0..n /\ i \in 0..n /\ i # 0 /\ h[i - 1] \in V
  <2> HIDE DEF B, V
  <2>1. \A i \in 1..n : i - 1 \in 0..n /\ i \in 0..n /\ i # 0
    BY <1>0
  <2>2. QED
    BY <1>5, <2>1
<1>7. \A i \in 1..n : h[i] = IF Turn(h[i - 1], i) \in V THEN Turn(h[i - 1], i) ELSE Start(a)
  <2> HIDE DEF B, V, n, Turn
  <2>1. QED
    BY <1>2, <1>5, <1>6
<1>8. IsAfter(h, X, a, b, inner)
  BY <1>5, <1>7 DEF IsAfter
<1>9. \A i \in 0..n : AfterInv(X, a, b, inner, h[i], i)
  BY <1>8, AfterInvariant
<1>10. \A i \in 1..n : Turn(h[i - 1], i) \in V
  <2> SUFFICES ASSUME NEW i \in 1..n PROVE Turn(h[i - 1], i) \in V
    OBVIOUS
  <2>1. i - 1 \in Nat /\ (i - 1) + 1 = i /\ i - 1 \in 0..n /\ (i - 1) + 1 \in 1..n
    BY <1>0
  <2>2. AfterInv(X, a, b, inner, h[i - 1], i - 1)
    BY <1>9, <2>1
  <2>3. TurnIn(a, b, inner, h[i - 1], (i - 1) + 1) \in States(X)
    BY <2>1, <2>2, AfterTurn
  <2>4. QED
    BY <2>1, <2>3
<1>11. \A i \in 0..n : h[i] = IF i = 0 THEN Start(a) ELSE Turn(h[i - 1], i)
  <2>1. \A i \in 0..n : i = 0 \/ i \in 1..n
    BY <1>0
  <2> HIDE DEF V, Turn, n
  <2>2. QED
    BY <1>5, <1>7, <1>10, <2>1
<1>12. h = [i \in 0..n |-> IF i = 0 THEN Start(a) ELSE Turn(h[i - 1], i)]
  <2> HIDE DEF V, Turn, n, B
  <2>1. QED
    BY <1>5, <1>11
<1>13. h = AfterBody(a, b, inner, h)
  BY <1>12, Zenon DEF AfterBody
<1>14. QED
  BY <1>13

\* The outcome of merging two objects.
IsMerged(X, a, b, inner, r) ==
    /\ r.value \in ObjectOf(X) /\ r.ok \in BOOLEAN /\ r.whole \in BOOLEAN
    /\ r = [value |-> r.value, ok |-> r.ok, whole |-> r.whole]
    /\ r.ok =>
          /\ Names(r.value) = Names(a) \cup Names(b)
          /\ \A n : n \notin Names(b) =>
                json_object_get_value(r.value, n) = json_object_get_value(a, n)
          /\ \A j \in DOMAIN b.members :
                /\ json_object_get_value(r.value, b.members[j].name) = OutAt(a, b, inner, j)
                /\ r.whole => WholeAt(a, b, inner, j)

\* Merged has this outcome.
LEMMA MergedIsMerged ==
  ASSUME NEW X, NEW a, NEW b, NEW inner, Mergeable(X, a, b, inner)
  PROVE  IsMerged(X, a, b, inner, Merged(a, b, inner))
<1> DEFINE n == Len(b.members)
           h == CHOOSE f : f = AfterBody(a, b, inner, f)
           r == Merged(a, b, inner)
           m == h[n]
<1>0. a \in ObjectOf(X) /\ b \in ObjectOf(X) /\ n \in Nat /\ DOMAIN b.members = 1..n
  BY MembersCount DEF Mergeable
<1>1. h = AfterBody(a, b, inner, h)
  BY AfterExists, Zenon
<1>2. r = [value |-> m.object, ok |-> m.ok, whole |-> m.whole]
  BY Zenon DEF Merged, AfterBody, Start, TurnIn, OldAt, NewAt
<1>3. IsAfter(h, X, a, b, inner)
  <2> HIDE DEF h
  <2>1. \A i \in 0..n : h[i] = IF i = 0 THEN Start(a) ELSE TurnIn(a, b, inner, h[i - 1], i)
    BY <1>1, Zenon DEF AfterBody
  <2>2. 0 \in 0..n /\ \A i \in 1..n : i \in 0..n /\ i # 0
    BY <1>0
  <2>3. QED
    BY <2>1, <2>2 DEF IsAfter
<1>4. AfterInv(X, a, b, inner, m, n)
  <2> HIDE DEF h
  <2>1. n \in 0..n
    BY <1>0
  <2>2. QED
    BY <1>3, <2>1, AfterInvariant
<1>5. NamesUpto(b, n) = Names(b)
  BY <1>0 DEF NamesUpto, Names
<1> HIDE DEF m, r
<1>6. m.object \in ObjectOf(X) /\ m.ok \in BOOLEAN /\ m.whole \in BOOLEAN
  BY <1>4 DEF AfterInv, States
<1>7. r.value = m.object /\ r.ok = m.ok /\ r.whole = m.whole
  BY <1>2
<1>8. r = [value |-> r.value, ok |-> r.ok, whole |-> r.whole]
  BY <1>2, <1>7
<1>9. IsMerged(X, a, b, inner, r)
  <2> HIDE DEF h, n
  <2>1. QED
    BY <1>0, <1>4, <1>5, <1>6, <1>7, <1>8 DEF IsMerged, AfterInv
<1>10. QED
  BY <1>9 DEF r

-----------------------------------------------------------------------------
(* Merging: one value inside the other.                                    *)

\* What the parser takes of up to n levels, and P has.
Good(n, P) == {v \in Nested[n] : v \in P /\ Parses[v]}

\* What the parser takes, by levels.
LEMMA GoodFacts ==
  /\ \A P : \A n \in 0..Depth : Good(n, P) \subseteq Parsed /\ NoValue \notin Good(n, P)
  /\ \A P : \A n, m \in 0..Depth : n <= m => Good(n, P) \subseteq Good(m, P)
  /\ Parsed = Good(Depth, JSON) \cup {NoValue}
  /\ \A P : P \subseteq JSON => Good(Depth, P) = P \cap Parsed
  /\ \A P : Good(0, P) = {}
<1>1. \A n \in 0..Depth : Nested[n] \subseteq JSON
  BY NestedOrder, DepthIsNat DEF JSON, Depth
<1>2. \A n, m \in 0..Depth : n <= m => Nested[n] \subseteq Nested[m]
  BY NestedOrder
<1>3. JSON = Nested[Depth] /\ Nested[0] = {}
  BY NestedDef, DepthIsNat DEF JSON, Depth
<1>4. QED
  BY <1>1, <1>2, <1>3, NoValueIsNoJson DEF Good, Parsed

\* The objects among them.
LEMMA GoodObject ==
  ASSUME NEW P, Inherits(P), NEW n \in 1..Depth, NEW v
  PROVE  (v \in Good(n, P) /\ IsObject(v)) <=> v \in ObjectOf(Good(n - 1, P))
<1> DEFINE X == Nested[n - 1]
<1>1. n \in 0..Depth /\ n # 0 /\ n - 1 \in 0..Depth
  BY DepthIsNat
<1>2. Nested[n] = Level(X) /\ Nested[n] \subseteq JSON /\ X \subseteq JSON
  BY <1>1, NestedDef, NestedOrder, DepthIsNat DEF JSON, Depth
<1>3. ASSUME v \in Good(n, P), IsObject(v) PROVE v \in ObjectOf(Good(n - 1, P))
  <2>1. v \in JSON /\ Parses[v] /\ v \in P /\ v.type = "object"
    BY <1>2, <1>3 DEF Good, IsObject
  <2>2. v = Object(v.members) /\ v.members \in Seq([name : STRING, value : X])
    BY <1>2, <1>3, <2>1, LevelCases DEF Good
  <2>3. /\ \A i \in DOMAIN v.members : Parses[v.members[i].value] /\ v.members[i].value \in P
        /\ \A i, j \in DOMAIN v.members :
              v.members[i].name = v.members[j].name => i = j
    BY <2>1, ParsesDef DEF ParsesIn, Inherits
  <2>4. \A i \in DOMAIN v.members : v.members[i] \in [name : STRING, value : X]
    <3> DEFINE S == [name : STRING, value : X]
    <3> HIDE DEF S
    <3>1. v.members \in Seq(S)
      BY <2>2 DEF S
    <3>2. \A i \in DOMAIN v.members : v.members[i] \in S
      BY <3>1, MemberOfSeq
    <3>3. QED
      BY <3>2 DEF S
  <2>5. \A i \in DOMAIN v.members : v.members[i] \in Pairing(Good(n - 1, P))
    BY <2>3, <2>4 DEF Pairing, Good
  <2>6. v.members \in Seq(Pairing(Good(n - 1, P)))
    <3> DEFINE S == [name : STRING, value : X]
               R == Pairing(Good(n - 1, P))
               s == v.members
    <3>1. s \in Seq(S) /\ \A i \in DOMAIN s : s[i] \in R
      BY <2>2, <2>5, Zenon
    <3> HIDE DEF S, R, s
    <3>2. s \in Seq(R)
      BY <3>1, SeqOfMembers, Zenon
    <3>3. QED
      BY <3>2, Zenon DEF R, s
  <2>7. QED
    BY <2>2, <2>3, <2>6, ShapeObject
<1>4. ASSUME v \in ObjectOf(Good(n - 1, P)) PROVE v \in Good(n, P) /\ IsObject(v)
  <2>1. /\ v = Object(v.members) /\ IsObject(v)
        /\ v.members \in Seq(Pairing(Good(n - 1, P))) /\ Distinct(v)
    BY <1>4, ObjectShape
  <2>2. \A i \in DOMAIN v.members : v.members[i] \in Pairing(Good(n - 1, P))
    BY <2>1, MemberOfSeq
  <2>3. \A i \in DOMAIN v.members : v.members[i] \in [name : STRING, value : X]
    BY <2>2 DEF Pairing, Good
  <2>4. v.members \in Seq([name : STRING, value : X])
    <3> DEFINE S == Pairing(Good(n - 1, P))
               R == [name : STRING, value : X]
               s == v.members
    <3>1. s \in Seq(S) /\ \A i \in DOMAIN s : s[i] \in R
      BY <2>1, <2>3, Zenon
    <3> HIDE DEF S, R, s
    <3>2. s \in Seq(R)
      BY <3>1, SeqOfMembers, Zenon
    <3>3. QED
      BY <3>2, Zenon DEF R, s
  <2>5. v \in Level(X)
    BY <2>1, <2>4 DEF Level, Object
  <2>6. v \in JSON /\ v.type = "object"
    BY <1>2, <2>1, <2>5 DEF Object
  <2>7. \A i \in DOMAIN v.members : Parses[v.members[i].value] /\ v.members[i].value \in P
    BY <2>2 DEF Pairing, Good
  <2>8. ParsesIn(Parses, v)
    BY <2>1, <2>6, <2>7 DEF ParsesIn, Distinct
  <2>9. v \in P
    BY <2>6, <2>7 DEF Inherits
  <2>10. QED
    BY <1>2, <2>1, <2>5, <2>6, <2>8, <2>9, ParsesDef DEF Good
<1>5. QED
  BY <1>3, <1>4

\* The members merged by the function f.
InnerOf(f, a, b) ==
    [i \in DOMAIN b.members |->
        f[<<json_object_get_value(a, b.members[i].name), b.members[i].value>>]]

\* The equation of json_value_merge.
MergeIn(f, p) ==
    LET a == p[1]
        b == p[2]
    IN IF IsObject(a) /\ IsObject(b) THEN Merged(a, b, InnerOf(f, a, b))
       ELSE [value |-> a, ok |-> FALSE, whole |-> TRUE]

\* What a merge returns if its value is of X.
OutcomesOf(X) == [value : X, ok : BOOLEAN, whole : BOOLEAN]
Outcomes == OutcomesOf(Parsed)

\* A merge that fails leaves its first value.
LEMMA FailedOutcome ==
  ASSUME NEW X, NEW x \in X
  PROVE  LET r == [value |-> x, ok |-> FALSE, whole |-> TRUE]
         IN r \in OutcomesOf(X) /\ r.ok \in BOOLEAN /\ r.whole \in BOOLEAN
BY DEF OutcomesOf

\* A function that merges, as far as its values are outcomes.
IsMerge(f) == \A p \in Pairs : MergeIn(f, p) \in Outcomes => f[p] = MergeIn(f, p)

\* Objects whose members have been merged can be merged.
LEMMA InnerIsMergeable ==
  ASSUME NEW P, NEW f, IsMerge(f), NEW n \in 0..Depth - 1,
         \A a \in Good(n, P), b \in Good(n, P) : MergeIn(f, <<a, b>>) \in OutcomesOf(Good(n, P)),
         NEW a \in ObjectOf(Good(n, P)), NEW b \in ObjectOf(Good(n, P))
  PROVE  Mergeable(Good(n, P), a, b, InnerOf(f, a, b))
<1> DEFINE X == Good(n, P)
<1>1. X \subseteq Parsed /\ NoValue \notin X
  BY GoodFacts, DepthIsNat
<1>2. ASSUME NEW i \in DOMAIN b.members
      PROVE  LET inner == InnerOf(f, a, b)[i]
             IN /\ inner.ok \in BOOLEAN /\ inner.whole \in BOOLEAN
                /\ IsObject(OldAt(a, b, i)) => inner.value \in X
  <2> DEFINE old == OldAt(a, b, i)
             new == NewAt(b, i)
             inner == InnerOf(f, a, b)[i]
  <2>1. inner = f[<<old, new>>]
    BY DEF InnerOf, OldAt, NewAt
  <2>2. new \in X
    BY ObjectShape, MemberOfSeq, PairIn DEF NewAt
  <2>3. old \in X \/ old = NoValue
    BY GetAt, NamesAreStrings DEF OldAt
  <2>4. old \in Parsed /\ new \in Parsed /\ <<old, new>> \in Pairs
    <3>1. old \in Parsed /\ new \in Parsed
      BY <1>1, <2>2, <2>3 DEF Parsed
    <3>2. QED
      BY <3>1 DEF Pairs
  <2> HIDE DEF old, new, inner
  <2>5. CASE IsObject(old)
    <3>1. old \in X
      BY <2>3, <2>5 DEF IsObject, NoValue
    <3>2. MergeIn(f, <<old, new>>) \in OutcomesOf(X)
      BY <3>1, <2>2
    <3> HIDE DEF X
    <3>3. MergeIn(f, <<old, new>>) \in Outcomes
      BY <3>2, <1>1 DEF Outcomes, OutcomesOf
    <3>4. inner = MergeIn(f, <<old, new>>)
      BY <2>1, <2>4, <3>3 DEF IsMerge
    <3>5. QED
      BY <3>2, <3>4 DEF OutcomesOf, old, inner
  <2>6. CASE ~IsObject(old)
    <3>1. MergeIn(f, <<old, new>>) = [value |-> old, ok |-> FALSE, whole |-> TRUE]
      BY <2>6 DEF MergeIn
    <3>2. MergeIn(f, <<old, new>>) \in Outcomes
      BY <2>4, <3>1, FailedOutcome DEF Outcomes
    <3>3. inner = MergeIn(f, <<old, new>>)
      BY <2>1, <2>4, <3>2 DEF IsMerge
    <3>4. QED
      BY <2>4, <2>6, <3>1, <3>3, FailedOutcome DEF old, inner
  <2>7. QED
    BY <2>5, <2>6
<1>3. QED
  <2> HIDE DEF X
  <2>1. QED
    BY <1>1, <1>2 DEF Mergeable, X

\* A merge keeps to the levels of what it merges.
LEMMA MergeKeepsLevels ==
  ASSUME NEW P, Inherits(P), NEW f, IsMerge(f)
  PROVE  \A n \in 0..Depth : \A a \in Good(n, P), b \in Parsed :
            (IsObject(b) => b \in Good(n, P)) => MergeIn(f, <<a, b>>) \in OutcomesOf(Good(n, P))
<1> DEFINE Kept(n) == \A a \in Good(n, P), b \in Parsed :
                         (IsObject(b) => b \in Good(n, P))
                            => MergeIn(f, <<a, b>>) \in OutcomesOf(Good(n, P))
           T == {n \in Nat : n \in 0..Depth => Kept(n)}
<1>1. 0 \in T
  BY GoodFacts
<1>2. ASSUME NEW n \in Nat, n \in T PROVE n + 1 \in T
  <2> SUFFICES ASSUME n + 1 \in 0..Depth,
                      NEW a \in Good(n + 1, P), NEW b \in Parsed,
                      IsObject(b) => b \in Good(n + 1, P)
               PROVE  MergeIn(f, <<a, b>>) \in OutcomesOf(Good(n + 1, P))
    OBVIOUS
  <2>1. n \in 0..Depth /\ n \in 0..Depth - 1 /\ n + 1 \in 1..Depth /\ (n + 1) - 1 = n
    BY DepthIsNat
  <2>2. Kept(n)
    BY <1>2, <2>1
  <2>3. CASE ~(IsObject(a) /\ IsObject(b))
    <3>1. MergeIn(f, <<a, b>>) = [value |-> a, ok |-> FALSE, whole |-> TRUE]
      BY <2>3 DEF MergeIn
    <3>2. QED
      BY <3>1, FailedOutcome
  <2>4. CASE IsObject(a) /\ IsObject(b)
    <3> DEFINE inner == InnerOf(f, a, b)
               r == Merged(a, b, inner)
    <3>1. a \in ObjectOf(Good(n, P)) /\ b \in ObjectOf(Good(n, P))
      BY <2>1, <2>4, GoodObject
    <3>2. \A x \in Good(n, P), y \in Good(n, P) : MergeIn(f, <<x, y>>) \in OutcomesOf(Good(n, P))
      BY <2>1, <2>2, GoodFacts
    <3>3. Mergeable(Good(n, P), a, b, inner)
      <4> HIDE DEF Kept
      <4>1. QED
        BY <2>1, <3>1, <3>2, InnerIsMergeable
    <3>4. IsMerged(Good(n, P), a, b, inner, r)
      <4> HIDE DEF inner
      <4>1. QED
        BY <3>3, MergedIsMerged
    <3>5. MergeIn(f, <<a, b>>) = r
      BY <2>4 DEF MergeIn
    <3> HIDE DEF r, inner
    <3>6. r.value \in Good(n + 1, P)
      BY <3>4, <2>1, GoodObject DEF IsMerged
    <3>7. QED
      BY <3>4, <3>5, <3>6 DEF IsMerged, OutcomesOf
  <2>5. QED
    BY <2>3, <2>4
<1>3. Nat \subseteq T
  <2> HIDE DEF T
  <2>1. QED
    BY <1>1, <1>2, AllNumbers
<1>4. QED
  BY <1>3, DepthIsNat

\* So its values are outcomes, and it satisfies the equation.
LEMMA MergeIsOutcome ==
  ASSUME NEW f, IsMerge(f), NEW p \in Pairs
  PROVE  MergeIn(f, p) \in Outcomes /\ f[p] = MergeIn(f, p)
<1> DEFINE a == p[1]
           b == p[2]
<1>1. a \in Parsed /\ b \in Parsed /\ p = <<a, b>>
  BY DEF Pairs
<1> HIDE DEF a, b
<1>2. CASE a = NoValue
  <2>1. MergeIn(f, <<a, b>>) = [value |-> a, ok |-> FALSE, whole |-> TRUE]
    BY <1>2 DEF MergeIn, IsObject, NoValue
  <2>2. QED
    BY <1>1, <2>1, FailedOutcome DEF Outcomes, IsMerge
<1>3. CASE a # NoValue
  <2>1. a \in Good(Depth, JSON) /\ (IsObject(b) => b \in Good(Depth, JSON)) /\ Depth \in 0..Depth
    BY <1>1, <1>3, GoodFacts, DepthIsNat DEF IsObject, NoValue
  <2>2. MergeIn(f, <<a, b>>) \in OutcomesOf(Good(Depth, JSON))
    BY <1>1, <2>1, MergeKeepsLevels, TwoInherit
  <2>3. Good(Depth, JSON) \subseteq Parsed
    BY <2>1, GoodFacts
  <2>4. QED
    BY <1>1, <2>2, <2>3 DEF Outcomes, OutcomesOf, IsMerge
<1>4. QED
  BY <1>2, <1>3

\* The right side looks only at values of fewer levels.
LEMMA MergeIsLocal ==
  ASSUME NEW f, NEW g, NEW p \in Pairs,
         \A q \in Pairs : Height[q[2]] < Height[p[2]] => f[q] = g[q]
  PROVE  MergeIn(f, p) = MergeIn(g, p)
<1> DEFINE a == p[1]
           b == p[2]
<1>1. a \in Parsed /\ b \in Parsed
  BY DEF Pairs
<1>2. CASE IsObject(a) /\ IsObject(b)
  <2>1. b \in JSON /\ b.type = "object"
    BY <1>1, <1>2, ValueCases DEF IsObject
  <2>2. ASSUME NEW i \in DOMAIN b.members
        PROVE  LET q == <<json_object_get_value(a, b.members[i].name), b.members[i].value>>
               IN f[q] = g[q]
    <3> DEFINE x == json_object_get_value(a, b.members[i].name)
               y == b.members[i].value
    <3>1. x \in Parsed /\ y \in Parsed /\ Height[y] < Height[b]
      BY <1>1, <2>1, ParsedInside, MemberIsLower
    <3> HIDE DEF x, y
    <3>2. <<x, y>> \in Pairs /\ <<x, y>>[2] = y
      BY <3>1 DEF Pairs
    <3>3. f[<<x, y>>] = g[<<x, y>>]
      BY <3>1, <3>2
    <3>4. QED
      BY <3>3 DEF x, y
  <2> HIDE DEF a, b
  <2>3. InnerOf(f, a, b) = InnerOf(g, a, b)
    BY <2>2 DEF InnerOf
  <2>4. QED
    BY <2>3 DEF MergeIn, a, b
<1>3. CASE ~(IsObject(a) /\ IsObject(b))
  BY <1>3 DEF MergeIn
<1>4. QED
  BY <1>2, <1>3

\* json_value_merge satisfies its equation.
LEMMA MergeDef ==
  \A p \in Pairs : /\ json_value_merge[p] = MergeIn(json_value_merge, p)
                   /\ json_value_merge[p] \in Outcomes
<1> DEFINE F == [Pairs -> Outcomes]
           fail == [value |-> NoValue, ok |-> FALSE, whole |-> TRUE]
           B == [q \in F \X Pairs |-> IF MergeIn(q[1], q[2]) \in Outcomes
                                      THEN MergeIn(q[1], q[2]) ELSE fail]
           rank == [p \in Pairs |-> Height[p[2]]]
<1>0. fail \in Outcomes
  BY DEF Outcomes, OutcomesOf, Parsed
<1>1. \A f \in F, p \in Pairs :
         B[<<f, p>>] = IF MergeIn(f, p) \in Outcomes THEN MergeIn(f, p) ELSE fail
  <2> HIDE DEF F, fail
  <2>1. QED
    BY Zenon
<1>2. B \in [F \X Pairs -> Outcomes]
  <2> HIDE DEF F, fail
  <2>1. QED
    BY <1>0
<1>3. ASSUME NEW f \in F, NEW g \in F, NEW p \in Pairs,
             \A q \in Pairs : rank[q] < rank[p] => f[q] = g[q]
      PROVE  B[<<f, p>>] = B[<<g, p>>]
  <2>1. \A q \in Pairs : Height[q[2]] < Height[p[2]] => f[q] = g[q]
    BY <1>3
  <2> HIDE DEF B, F, fail
  <2>2. MergeIn(f, p) = MergeIn(g, p)
    BY <2>1, MergeIsLocal
  <2>3. QED
    BY <1>1, <2>2
<1>4. rank \in [Pairs -> 0..Depth]
  BY HeightType, ParsedIsValue DEF Pairs, Values
<1>5. IsRecursion(B, Pairs, Outcomes, rank, Depth)
  <2> HIDE DEF B, rank, fail
  <2>1. QED
    BY <1>0, <1>2, <1>3, <1>4, DepthIsNat DEF IsRecursion
<1>6. PICK f : IsSolution(f, B, Pairs, Outcomes)
  <2> HIDE DEF B, rank
  <2>1. QED
    BY <1>5, RecursionByRank
<1>7. f \in F /\ \A p \in Pairs :
         f[p] = IF MergeIn(f, p) \in Outcomes THEN MergeIn(f, p) ELSE fail
  <2>1. f \in F /\ \A p \in Pairs : f[p] = B[<<f, p>>]
    BY <1>6 DEF IsSolution
  <2> HIDE DEF B, F, fail
  <2>2. QED
    BY <1>1, <2>1
<1>8. IsMerge(f)
  BY <1>7 DEF IsMerge
<1>9. f = [p \in Pairs |-> MergeIn(f, p)]
  <2>1. \A p \in Pairs : f[p] = MergeIn(f, p)
    BY <1>8, MergeIsOutcome
  <2>2. QED
    BY <1>7, <2>1
<1>10. json_value_merge = [p \in Pairs |-> MergeIn(json_value_merge, p)]
  <2> HIDE DEF B, rank, F, fail
  <2>1. json_value_merge = CHOOSE h : h = [p \in Pairs |-> MergeIn(h, p)]
    BY Zenon DEF json_value_merge, MergeIn, InnerOf, Pairs
  <2> HIDE DEF MergeIn, Pairs
  <2>2. QED
    BY <1>9, <2>1, Zenon
<1>11. \A p \in Pairs : json_value_merge[p] = MergeIn(json_value_merge, p)
  BY <1>10, Zenon
<1>12. IsMerge(json_value_merge)
  BY <1>11 DEF IsMerge
<1>13. QED
  BY <1>12, MergeIsOutcome

-----------------------------------------------------------------------------
(* The same value, and one value over another.                             *)

\* The value of a name.
In(v, name) == json_object_get_value(v, name)

\* The arguments of Same.
Two == JSON \X JSON

\* The equation of Same.
SameIn(f, p) ==
    LET a == p[1]
        b == p[2]
    IN /\ a.type = b.type
       /\ IsObject(a) =>
              /\ Names(a) = Names(b)
              /\ \A name \in Names(a) : f[<<In(a, name), In(b, name)>>]
       /\ a.type = "array" =>
              /\ DOMAIN a.items = DOMAIN b.items
              /\ \A i \in DOMAIN a.items : f[<<a.items[i], b.items[i]>>]
       /\ a.type \notin {"array", "object"} => a = b

\* Its right side looks only at values of fewer levels.
LEMMA SameIsLocal ==
  ASSUME NEW f, NEW g, NEW p \in Two,
         \A q \in Two : Height[q[1]] < Height[p[1]] => f[q] = g[q]
  PROVE  SameIn(f, p) = SameIn(g, p)
<1> DEFINE a == p[1]
           b == p[2]
<1>0. a \in JSON /\ b \in JSON
  BY DEF Two
<1>1. ASSUME NEW x \in JSON, NEW y \in JSON, Height[x] < Height[a]
      PROVE  f[<<x, y>>] = g[<<x, y>>]
  <2>1. <<x, y>> \in Two /\ <<x, y>>[1] = x
    BY DEF Two
  <2>2. QED
    BY <1>1, <2>1
<1>2. CASE a.type = "array" /\ b.type = "array" /\ DOMAIN a.items = DOMAIN b.items
  <2>1. \A i \in DOMAIN a.items : f[<<a.items[i], b.items[i]>>] = g[<<a.items[i], b.items[i]>>]
    <3> SUFFICES ASSUME NEW i \in DOMAIN a.items
                 PROVE  f[<<a.items[i], b.items[i]>>] = g[<<a.items[i], b.items[i]>>]
      OBVIOUS
    <3>1. a.items[i] \in JSON /\ Height[a.items[i]] < Height[a] /\ b.items[i] \in JSON
      BY <1>0, <1>2, ItemIsLower
    <3> HIDE DEF a, b
    <3>2. QED
      BY <1>1, <3>1
  <2>2. QED
    BY <1>2, <2>1 DEF SameIn, IsObject
<1>3. CASE IsObject(a) /\ IsObject(b) /\ Names(a) = Names(b)
  <2>1. ASSUME NEW name \in Names(a)
        PROVE  f[<<In(a, name), In(b, name)>>] = g[<<In(a, name), In(b, name)>>]
    <3>1. In(a, name) \in JSON /\ In(b, name) \in JSON /\ Height[In(a, name)] < Height[a]
      BY <1>0, <1>3, <2>1, ValueIsLower DEF In
    <3> HIDE DEF a, b
    <3>2. QED
      BY <1>1, <3>1
  <2>2. QED
    BY <1>3, <2>1 DEF SameIn, IsObject
<1>4. CASE ~(a.type = "array" /\ b.type = "array" /\ DOMAIN a.items = DOMAIN b.items)
           /\ ~(IsObject(a) /\ IsObject(b) /\ Names(a) = Names(b))
  BY <1>4 DEF SameIn, IsObject
<1>5. QED
  BY <1>2, <1>3, <1>4

\* Same satisfies it.
LEMMA SameDef ==
  /\ Same \in [Two -> BOOLEAN]
  /\ \A p \in Two : Same[p] = SameIn(Same, p)
<1> DEFINE F == [Two -> BOOLEAN]
           B == [p \in F \X Two |-> SameIn(p[1], p[2])]
           rank == [p \in Two |-> Height[p[1]]]
<1>1. \A f \in F, p \in Two : B[<<f, p>>] = SameIn(f, p)
  <2> HIDE DEF SameIn, F, Two
  <2>1. QED
    BY Zenon
<1>2. \A f \in F, p \in Two : SameIn(f, p) \in BOOLEAN
  BY Zenon DEF SameIn
<1>3. B \in [F \X Two -> BOOLEAN]
  <2> HIDE DEF SameIn, F, Two
  <2>1. QED
    BY <1>2
<1>4. ASSUME NEW f \in F, NEW g \in F, NEW p \in Two,
             \A q \in Two : rank[q] < rank[p] => f[q] = g[q]
      PROVE  B[<<f, p>>] = B[<<g, p>>]
  <2>1. \A q \in Two : Height[q[1]] < Height[p[1]] => f[q] = g[q]
    BY <1>4
  <2>2. \A q \in Two : f[q] \in BOOLEAN /\ g[q] \in BOOLEAN
    OBVIOUS
  <2> HIDE DEF B, F, Two, SameIn
  <2>3. SameIn(f, p) = SameIn(g, p)
    BY <2>1, SameIsLocal
  <2>4. QED
    BY <2>3, <1>1
<1>5. rank \in [Two -> 0..Depth]
  BY HeightType, ParsedIsValue DEF Two, Values
<1>6. IsRecursion(B, Two, BOOLEAN, rank, Depth)
  <2> HIDE DEF B, rank, Two
  <2>1. QED
    BY <1>3, <1>4, <1>5, DepthIsNat DEF IsRecursion
<1>7. PICK f : IsSolution(f, B, Two, BOOLEAN)
  <2> HIDE DEF B, rank
  <2>1. QED
    BY <1>6, RecursionByRank
<1>8. f = [p \in Two |-> SameIn(f, p)]
  <2> HIDE DEF SameIn, B, Two
  <2>1. f \in [Two -> BOOLEAN] /\ \A p \in Two : f[p] = SameIn(f, p)
    BY <1>7, <1>1 DEF IsSolution
  <2>2. QED
    BY <2>1
<1>9. Same = [p \in Two |-> SameIn(Same, p)]
  <2> HIDE DEF B, rank, F
  <2>1. Same = CHOOSE h : h = [p \in Two |-> SameIn(h, p)]
    BY Zenon DEF Same, SameIn, Two, In
  <2> HIDE DEF SameIn, Two
  <2>2. QED
    BY <1>8, <2>1, Zenon
<1>10. QED
  <2> HIDE DEF SameIn, Two
  <2>1. \A p \in Two : Same[p] = SameIn(Same, p)
    BY <1>9, Zenon
  <2>2. \A p \in Two : Same[p] \in BOOLEAN
    BY <2>1, Zenon DEF SameIn
  <2>3. QED
    BY <1>9, <2>1, <2>2

\* The arguments of IsOverlay.
Three == JSON \X JSON \X JSON

\* The equation of IsOverlay.
OverlayIn(f, p) ==
    LET r == p[1]
        a == p[2]
        b == p[3]
    IN /\ ~IsObject(a) => Same[<<r, b>>]
       /\ IsObject(a) /\ ~IsObject(b) => Same[<<r, a>>]
       /\ IsObject(a) /\ IsObject(b) =>
              /\ IsObject(r) /\ Names(r) = Names(a) \cup Names(b)
              /\ \A name \in Names(a) \ Names(b) : Same[<<In(r, name), In(a, name)>>]
              /\ \A name \in Names(b) \ Names(a) : Same[<<In(r, name), In(b, name)>>]
              /\ \A name \in Names(a) \cap Names(b) :
                     f[<<In(r, name), In(a, name), In(b, name)>>]

\* Its right side looks only at values of fewer levels.
LEMMA OverlayIsLocal ==
  ASSUME NEW f, NEW g, NEW p \in Three,
         \A q \in Three : Height[q[2]] < Height[p[2]] => f[q] = g[q]
  PROVE  OverlayIn(f, p) = OverlayIn(g, p)
<1> DEFINE r == p[1]
           a == p[2]
           b == p[3]
<1>0. r \in JSON /\ a \in JSON /\ b \in JSON
  BY DEF Three
<1>1. ASSUME NEW x \in JSON, NEW y \in JSON, NEW z \in JSON, Height[y] < Height[a]
      PROVE  f[<<x, y, z>>] = g[<<x, y, z>>]
  <2>1. <<x, y, z>> \in Three /\ <<x, y, z>>[2] = y
    BY DEF Three
  <2>2. QED
    BY <1>1, <2>1
<1>2. CASE /\ IsObject(a) /\ IsObject(b) /\ IsObject(r)
           /\ Names(r) = Names(a) \cup Names(b)
  <2>1. ASSUME NEW name \in Names(a) \cap Names(b)
        PROVE  f[<<In(r, name), In(a, name), In(b, name)>>]
               = g[<<In(r, name), In(a, name), In(b, name)>>]
    <3>1. /\ In(r, name) \in JSON /\ In(a, name) \in JSON /\ In(b, name) \in JSON
          /\ Height[In(a, name)] < Height[a]
      BY <1>0, <1>2, <2>1, ValueIsLower DEF In
    <3> HIDE DEF r, a, b
    <3>2. QED
      BY <1>1, <3>1
  <2>2. QED
    BY <1>2, <2>1 DEF OverlayIn
<1>3. CASE ~(/\ IsObject(a) /\ IsObject(b) /\ IsObject(r)
             /\ Names(r) = Names(a) \cup Names(b))
  BY <1>3 DEF OverlayIn
<1>4. QED
  BY <1>2, <1>3

\* IsOverlay satisfies it.
LEMMA OverlayDef ==
  /\ IsOverlay \in [Three -> BOOLEAN]
  /\ \A p \in Three : IsOverlay[p] = OverlayIn(IsOverlay, p)
<1> DEFINE F == [Three -> BOOLEAN]
           B == [p \in F \X Three |-> OverlayIn(p[1], p[2])]
           rank == [p \in Three |-> Height[p[2]]]
<1>1. \A f \in F, p \in Three : B[<<f, p>>] = OverlayIn(f, p)
  <2> HIDE DEF OverlayIn, F, Three
  <2>1. QED
    BY Zenon
<1>2. \A f \in F, p \in Three : OverlayIn(f, p) \in BOOLEAN
  BY Zenon DEF OverlayIn
<1>3. B \in [F \X Three -> BOOLEAN]
  <2> HIDE DEF OverlayIn, F, Three
  <2>1. QED
    BY <1>2
<1>4. ASSUME NEW f \in F, NEW g \in F, NEW p \in Three,
             \A q \in Three : rank[q] < rank[p] => f[q] = g[q]
      PROVE  B[<<f, p>>] = B[<<g, p>>]
  <2>1. \A q \in Three : Height[q[2]] < Height[p[2]] => f[q] = g[q]
    BY <1>4
  <2>2. \A q \in Three : f[q] \in BOOLEAN /\ g[q] \in BOOLEAN
    OBVIOUS
  <2> HIDE DEF B, F, Three, OverlayIn
  <2>3. OverlayIn(f, p) = OverlayIn(g, p)
    BY <2>1, OverlayIsLocal
  <2>4. QED
    BY <2>3, <1>1
<1>5. rank \in [Three -> 0..Depth]
  BY HeightType, ParsedIsValue DEF Three, Values
<1>6. IsRecursion(B, Three, BOOLEAN, rank, Depth)
  <2> HIDE DEF B, rank, Three
  <2>1. QED
    BY <1>3, <1>4, <1>5, DepthIsNat DEF IsRecursion
<1>7. PICK f : IsSolution(f, B, Three, BOOLEAN)
  <2> HIDE DEF B, rank
  <2>1. QED
    BY <1>6, RecursionByRank
<1>8. f = [p \in Three |-> OverlayIn(f, p)]
  <2> HIDE DEF OverlayIn, B, Three
  <2>1. f \in [Three -> BOOLEAN] /\ \A p \in Three : f[p] = OverlayIn(f, p)
    BY <1>7, <1>1 DEF IsSolution
  <2>2. QED
    BY <2>1
<1>9. IsOverlay = [p \in Three |-> OverlayIn(IsOverlay, p)]
  <2> HIDE DEF B, rank, F
  <2>1. IsOverlay = CHOOSE h : h = [p \in Three |-> OverlayIn(h, p)]
    BY Zenon DEF IsOverlay, OverlayIn, Three, In
  <2> HIDE DEF OverlayIn, Three
  <2>2. QED
    BY <1>8, <2>1, Zenon
<1>10. QED
  <2> HIDE DEF OverlayIn, Three
  <2>1. \A p \in Three : IsOverlay[p] = OverlayIn(IsOverlay, p)
    BY <1>9, Zenon
  <2>2. \A p \in Three : IsOverlay[p] \in BOOLEAN
    BY <2>1, Zenon DEF OverlayIn
  <2>3. QED
    BY <1>9, <2>1, <2>2

\* The relations, for values given one by one.
LEMMA SameCases ==
  ASSUME NEW a \in JSON, NEW b \in JSON
  PROVE  Same[<<a, b>>] <=>
            /\ a.type = b.type
            /\ IsObject(a) =>
                  /\ Names(a) = Names(b)
                  /\ \A name \in Names(a) : Same[<<In(a, name), In(b, name)>>]
            /\ a.type = "array" =>
                  /\ DOMAIN a.items = DOMAIN b.items
                  /\ \A i \in DOMAIN a.items : Same[<<a.items[i], b.items[i]>>]
            /\ a.type \notin {"array", "object"} => a = b
<1>1. <<a, b>> \in Two /\ <<a, b>>[1] = a /\ <<a, b>>[2] = b
  BY DEF Two
<1>2. Same[<<a, b>>] = SameIn(Same, <<a, b>>)
  BY <1>1, SameDef
<1>3. QED
  BY <1>1, <1>2 DEF SameIn

\* The equation of IsOverlay for three values.
LEMMA OverlayCases ==
  ASSUME NEW r \in JSON, NEW a \in JSON, NEW b \in JSON
  PROVE  IsOverlay[<<r, a, b>>] <=>
            /\ ~IsObject(a) => Same[<<r, b>>]
            /\ IsObject(a) /\ ~IsObject(b) => Same[<<r, a>>]
            /\ IsObject(a) /\ IsObject(b) =>
                  /\ IsObject(r) /\ Names(r) = Names(a) \cup Names(b)
                  /\ \A name \in Names(a) \ Names(b) : Same[<<In(r, name), In(a, name)>>]
                  /\ \A name \in Names(b) \ Names(a) : Same[<<In(r, name), In(b, name)>>]
                  /\ \A name \in Names(a) \cap Names(b) :
                         IsOverlay[<<In(r, name), In(a, name), In(b, name)>>]
<1>1. /\ <<r, a, b>> \in Three
      /\ <<r, a, b>>[1] = r /\ <<r, a, b>>[2] = a /\ <<r, a, b>>[3] = b
  BY DEF Three
<1>2. IsOverlay[<<r, a, b>>] = OverlayIn(IsOverlay, <<r, a, b>>)
  BY <1>1, OverlayDef
<1>3. QED
  BY <1>1, <1>2 DEF OverlayIn

\* What json_value_equals calls equal.
LEMMA EqualsCases ==
  ASSUME NEW a \in Parsed, NEW b \in Parsed, json_value_equals[<<a, b>>]
  PROVE  /\ a.type = b.type
         /\ a.type = "array" =>
               /\ Len(a.items) = Len(b.items)
               /\ \A i \in DOMAIN a.items : json_value_equals[<<a.items[i], b.items[i]>>]
         /\ a.type = "object" =>
               /\ Len(a.members) = Len(b.members)
               /\ \A i \in DOMAIN a.members :
                     json_value_equals[<<a.members[i].value, In(b, a.members[i].name)>>]
         /\ a.type \notin {"array", "object"} => a = b
<1>1. <<a, b>> \in Pairs /\ <<a, b>>[1] = a /\ <<a, b>>[2] = b
  BY DEF Pairs
<1>2. json_value_equals[<<a, b>>] = EqualsIn(json_value_equals, <<a, b>>)
  BY <1>1, EqualsDef
<1>3. QED
  BY <1>1, <1>2 DEF EqualsIn, In

\* A statement of all values holds, if it holds for one whose parts it holds of.
LEMMA HeightInduction ==
  ASSUME NEW S \in SUBSET JSON,
         \A v \in JSON : (\A w \in JSON : Height[w] < Height[v] => w \in S) => v \in S
  PROVE  JSON \subseteq S
<1> DEFINE T == {n \in Nat : \A v \in JSON : Height[v] < n => v \in S}
<1>0. \A v \in JSON : Height[v] \in Nat /\ Height[v] \in 0..Depth
  BY HeightType, DepthIsNat DEF Values
<1>1. 0 \in T
  BY <1>0
<1>2. ASSUME NEW n \in Nat, n \in T PROVE n + 1 \in T
  <2> SUFFICES ASSUME NEW v \in JSON, Height[v] < n + 1 PROVE v \in S
    OBVIOUS
  <2>1. \A w \in JSON : Height[w] < Height[v] => Height[w] < n
    BY <1>0
  <2>2. QED
    BY <1>2, <2>1
<1>3. Nat \subseteq T
  <2> HIDE DEF T
  <2>1. QED
    BY <1>1, <1>2, AllNumbers
<1>4. Depth + 1 \in Nat /\ \A v \in JSON : Height[v] < Depth + 1
  BY <1>0, DepthIsNat
<1>5. QED
  BY <1>3, <1>4

\* Every value is the same as itself.
LEMMA SameReflexive == \A v \in JSON : Same[<<v, v>>]
<1> DEFINE S == {v \in JSON : Same[<<v, v>>]}
<1>1. ASSUME NEW v \in JSON, \A w \in JSON : Height[w] < Height[v] => w \in S
      PROVE  v \in S
  <2>1. IsObject(v) => \A name \in Names(v) : Same[<<In(v, name), In(v, name)>>]
    <3> SUFFICES ASSUME IsObject(v), NEW name \in Names(v)
                 PROVE  Same[<<In(v, name), In(v, name)>>]
      OBVIOUS
    <3>1. In(v, name) \in JSON /\ Height[In(v, name)] < Height[v]
      BY ValueIsLower DEF In
    <3>2. QED
      BY <1>1, <3>1
  <2>2. v.type = "array" => \A i \in DOMAIN v.items : Same[<<v.items[i], v.items[i]>>]
    <3> SUFFICES ASSUME v.type = "array", NEW i \in DOMAIN v.items
                 PROVE  Same[<<v.items[i], v.items[i]>>]
      OBVIOUS
    <3>1. v.items[i] \in JSON /\ Height[v.items[i]] < Height[v]
      BY ItemIsLower
    <3>2. QED
      BY <1>1, <3>1
  <2>3. QED
    BY <2>1, <2>2, SameCases
<1>2. JSON \subseteq S
  <2>1. S \in SUBSET JSON
    OBVIOUS
  <2> HIDE DEF S
  <2>2. QED
    BY <1>1, <2>1, HeightInduction
<1>3. QED
  BY <1>2

\* An object has as many names as members.
LEMMA NamesAreCounted ==
  ASSUME NEW X, NEW o \in ObjectOf(X)
  PROVE  IsFiniteSet(Names(o)) /\ Cardinality(Names(o)) = Len(o.members)
<1> DEFINE n == Len(o.members)
           f == [i \in 1..n |-> o.members[i].name]
<1>1. n \in Nat /\ DOMAIN o.members = 1..n
  BY MembersCount
<1>2. \A i, j \in 1..n : o.members[i].name = o.members[j].name => i = j
  BY <1>1, ObjectShape DEF Distinct
<1>3. Names(o) = {o.members[i].name : i \in 1..n}
  BY <1>1 DEF Names
<1>4. f \in Bijection(1..n, Names(o))
  <2> HIDE DEF n
  <2>1. f \in [1..n -> Names(o)]
    BY <1>3
  <2>2. \A i, j \in 1..n : f[i] = f[j] => i = j
    BY <1>2
  <2>3. \A name \in Names(o) : \E i \in 1..n : f[i] = name
    BY <1>3
  <2>4. QED
    BY <2>1, <2>2, <2>3 DEF Bijection, Injection, Surjection, IsInjective
<1>5. ExistsBijection(1..n, Names(o))
  BY <1>4 DEF ExistsBijection
<1>6. QED
  <2> HIDE DEF n, f
  <2>1. IsFiniteSet(Names(o))
    BY <1>1, <1>5, FS_NatBijection
  <2>2. Cardinality(Names(o)) = n
    BY <1>1, <1>5, FS_CountingElements
  <2>3. QED
    BY <2>1, <2>2 DEF n

\* Inside of an object that the parser takes.
LEMMA ParsedObject ==
  ASSUME NEW v \in Parsed, IsObject(v)
  PROVE  /\ v \in ObjectOf(Good(Depth - 1, JSON)) /\ v \in JSON
         /\ \A name \in Names(v) : /\ In(v, name) \in Parsed /\ In(v, name) \in JSON
                                   /\ Height[In(v, name)] < Height[v]
<1>1. v # NoValue /\ v \in Good(Depth, JSON) /\ Depth \in 1..Depth /\ v \in JSON
  BY GoodFacts, DepthIsNat DEF IsObject, NoValue, Parsed
<1>2. v \in ObjectOf(Good(Depth - 1, JSON))
  BY <1>1, GoodObject, TwoInherit
<1>3. QED
  BY <1>1, <1>2, ValueIsLower, ParsedInside DEF In

\* What json_value_equals calls equal is the same.
LEMMA EqualsIsSame ==
  \A a, b \in Parsed : (a \in JSON /\ b \in JSON /\ json_value_equals[<<a, b>>])
                          => Same[<<a, b>>]
<1> DEFINE S == {a \in JSON : a \in Parsed =>
                     \A b \in Parsed : (b \in JSON /\ json_value_equals[<<a, b>>])
                                           => Same[<<a, b>>]}
<1>1. ASSUME NEW a \in JSON, \A w \in JSON : Height[w] < Height[a] => w \in S
      PROVE  a \in S
  <2> SUFFICES ASSUME a \in Parsed, NEW b \in Parsed, b \in JSON,
                      json_value_equals[<<a, b>>]
               PROVE  Same[<<a, b>>]
    OBVIOUS
  <2>1. a.type = b.type
    BY EqualsCases
  <2>2. CASE IsObject(a)
    <3>1. a.type = "object" /\ IsObject(b)
      BY <2>1, <2>2 DEF IsObject
    <3>2. /\ Len(a.members) = Len(b.members)
          /\ \A i \in DOMAIN a.members :
                json_value_equals[<<a.members[i].value, In(b, a.members[i].name)>>]
      BY <3>1, EqualsCases
    <3>3. a \in ObjectOf(Good(Depth - 1, JSON)) /\ b \in ObjectOf(Good(Depth - 1, JSON))
      BY <2>2, <3>1, ParsedObject
    <3>4. ASSUME NEW name \in Names(a)
          PROVE  name \in Names(b) /\ Same[<<In(a, name), In(b, name)>>]
      <4>1. json_value_equals[<<In(a, name), In(b, name)>>]
        BY <3>2, <3>3, <3>4, GetAt DEF In
      <4>2. In(a, name) \in Parsed /\ In(a, name) \in JSON /\ Height[In(a, name)] < Height[a]
        BY <2>2, <3>4, ParsedObject
      <4>3. In(b, name) \in Parsed
        BY ParsedInside DEF In
      <4>4. In(b, name) # NoValue
        <5>1. In(a, name).type = In(b, name).type
          BY <4>1, <4>2, <4>3, EqualsCases
        <5>2. In(a, name).type \in {"number", "boolean", "string", "array", "object"}
          BY <4>2, JsonCases
        <5>3. QED
          BY <5>1, <5>2 DEF NoValue
      <4>5. name \in Names(b)
        BY <3>3, <4>4, GetAt DEF In
      <4>6. In(b, name) \in JSON
        BY <3>1, <4>5, ParsedObject
      <4>7. QED
        BY <1>1, <4>1, <4>2, <4>3, <4>5, <4>6
    <3>5. Names(a) = Names(b)
      <4>1. Names(a) \in SUBSET Names(b)
        BY <3>4
      <4>2. IsFiniteSet(Names(b)) /\ Cardinality(Names(a)) = Cardinality(Names(b))
        BY <3>2, <3>3, NamesAreCounted
      <4>3. QED
        BY <4>1, <4>2, FS_Subset
    <3>6. QED
      BY <2>1, <3>1, <3>4, <3>5, SameCases
  <2>3. CASE a.type = "array"
    <3>1. /\ Len(a.items) = Len(b.items) /\ b.type = "array"
          /\ \A i \in DOMAIN a.items : json_value_equals[<<a.items[i], b.items[i]>>]
      BY <2>1, <2>3, EqualsCases
    <3>2. DOMAIN a.items = DOMAIN b.items
      BY <2>3, <3>1, LengthIsDomain
    <3>3. ASSUME NEW i \in DOMAIN a.items PROVE Same[<<a.items[i], b.items[i]>>]
      <4>1. /\ a.items[i] \in Parsed /\ a.items[i] \in JSON
            /\ Height[a.items[i]] < Height[a]
        BY <2>3, ItemIsLower, ParsedInside
      <4>2. b.items[i] \in Parsed /\ b.items[i] \in JSON
        BY <3>1, <3>2, ItemIsLower, ParsedInside
      <4>3. QED
        BY <1>1, <3>1, <4>1, <4>2
    <3>4. QED
      BY <2>1, <2>3, <3>2, <3>3, SameCases DEF IsObject
  <2>4. CASE ~IsObject(a) /\ a.type # "array"
    <3>1. a = b
      BY <2>4, EqualsCases DEF IsObject
    <3>2. QED
      BY <3>1, SameReflexive
  <2>5. QED
    BY <2>2, <2>3, <2>4
<1>2. JSON \subseteq S
  <2>1. S \in SUBSET JSON
    OBVIOUS
  <2> HIDE DEF S
  <2>2. QED
    BY <1>1, <2>1, HeightInduction
<1>3. QED
  BY <1>2

\* A value with one that is the same over it.
LEMMA SameIsOverlay ==
  \A a, b \in JSON : Same[<<a, b>>] => IsOverlay[<<a, a, b>>]
<1> DEFINE S == {a \in JSON : \A b \in JSON : Same[<<a, b>>] => IsOverlay[<<a, a, b>>]}
<1>1. ASSUME NEW a \in JSON, \A w \in JSON : Height[w] < Height[a] => w \in S
      PROVE  a \in S
  <2> SUFFICES ASSUME NEW b \in JSON, Same[<<a, b>>] PROVE IsOverlay[<<a, a, b>>]
    OBVIOUS
  <2>1. a.type = b.type
    BY SameCases
  <2>2. CASE IsObject(a)
    <3>1. IsObject(b)
      BY <2>1, <2>2 DEF IsObject
    <3>2. /\ Names(a) = Names(b)
          /\ \A name \in Names(a) : Same[<<In(a, name), In(b, name)>>]
      BY <2>2, SameCases
    <3>3. ASSUME NEW name \in Names(a)
          PROVE  IsOverlay[<<In(a, name), In(a, name), In(b, name)>>]
      <4>1. In(a, name) \in JSON /\ Height[In(a, name)] < Height[a] /\ In(b, name) \in JSON
        BY <2>2, <3>1, <3>2, ValueIsLower DEF In
      <4>2. QED
        BY <1>1, <3>2, <4>1
    <3>4. /\ Names(a) = Names(a) \cup Names(b)
          /\ Names(a) \ Names(b) = {} /\ Names(b) \ Names(a) = {}
          /\ Names(a) \cap Names(b) = Names(a)
      BY <3>2
    <3>5. QED
      BY <2>2, <3>1, <3>3, <3>4, OverlayCases
  <2>3. CASE ~IsObject(a)
    BY <2>3, OverlayCases
  <2>4. QED
    BY <2>2, <2>3
<1>2. JSON \subseteq S
  <2>1. S \in SUBSET JSON
    OBVIOUS
  <2> HIDE DEF S
  <2>2. QED
    BY <1>1, <2>1, HeightInduction
<1>3. QED
  BY <1>2

\* A merge that loses nothing lays the second value over the first.
THEOREM MergeIsOverlay ==
  \A a, b \in Parsed :
     LET r == json_value_merge[<<a, b>>]
     IN r.ok => /\ IsObject(a) /\ IsObject(b)
                /\ r.value \in JSON /\ r.value \in Parsed /\ IsObject(r.value)
                /\ r.whole => IsOverlay[<<r.value, a, b>>]
<1> DEFINE R(a, b) == json_value_merge[<<a, b>>]
           T == {n \in Nat : n \in 0..Depth =>
                    \A a, b \in Good(n, JSON) :
                       (R(a, b).ok /\ R(a, b).whole) => IsOverlay[<<R(a, b).value, a, b>>]}
<1>1. IsMerge(json_value_merge)
  BY MergeDef DEF IsMerge
<1>2. ASSUME NEW a \in Parsed, NEW b \in Parsed
      PROVE  /\ (IsObject(a) /\ IsObject(b)) =>
                    R(a, b) = Merged(a, b, InnerOf(json_value_merge, a, b))
             /\ ~(IsObject(a) /\ IsObject(b)) => ~R(a, b).ok /\ R(a, b).value = a
  <2>1. <<a, b>> \in Pairs /\ <<a, b>>[1] = a /\ <<a, b>>[2] = b
    BY DEF Pairs
  <2>2. R(a, b) = IF IsObject(a) /\ IsObject(b)
                  THEN Merged(a, b, InnerOf(json_value_merge, a, b))
                  ELSE [value |-> a, ok |-> FALSE, whole |-> TRUE]
    BY <2>1, MergeDef, Zenon DEF MergeIn
  <2> HIDE DEF R
  <2>3. ASSUME ~(IsObject(a) /\ IsObject(b)) PROVE ~R(a, b).ok /\ R(a, b).value = a
    <3>1. R(a, b) = [value |-> a, ok |-> FALSE, whole |-> TRUE]
      BY <2>2, <2>3, Zenon
    <3>2. QED
      BY <3>1
  <2>4. QED
    BY <2>2, <2>3, Zenon
<1>3. ASSUME NEW n \in 0..Depth - 1, NEW a \in ObjectOf(Good(n, JSON)), NEW b \in ObjectOf(Good(n, JSON))
      PROVE  IsMerged(Good(n, JSON), a, b, InnerOf(json_value_merge, a, b), R(a, b))
  <2>1. n \in 0..Depth /\ n + 1 \in 1..Depth /\ (n + 1) - 1 = n /\ n + 1 \in 0..Depth
    BY DepthIsNat
  <2>2. \A x, y \in Good(n, JSON) : MergeIn(json_value_merge, <<x, y>>) \in OutcomesOf(Good(n, JSON))
    BY <1>1, <2>1, MergeKeepsLevels, TwoInherit, GoodFacts
  <2>3. Mergeable(Good(n, JSON), a, b, InnerOf(json_value_merge, a, b))
    BY <1>1, <2>2, InnerIsMergeable
  <2>4. a \in Parsed /\ b \in Parsed /\ IsObject(a) /\ IsObject(b)
    BY <2>1, GoodObject, TwoInherit, GoodFacts
  <2>5. R(a, b) = Merged(a, b, InnerOf(json_value_merge, a, b))
    BY <1>2, <2>4
  <2> HIDE DEF R
  <2>6. QED
    BY <2>3, <2>5, MergedIsMerged
<1>4. 0 \in T
  BY GoodFacts
<1>5. ASSUME NEW n \in Nat, n \in T PROVE n + 1 \in T
  <2> SUFFICES ASSUME n + 1 \in 0..Depth, NEW a \in Good(n + 1, JSON), NEW b \in Good(n + 1, JSON),
                      R(a, b).ok, R(a, b).whole
               PROVE  IsOverlay[<<R(a, b).value, a, b>>]
    OBVIOUS
  <2> DEFINE inner == InnerOf(json_value_merge, a, b)
             r == R(a, b)
             v == r.value
  <2>1. n \in 0..Depth /\ n \in 0..Depth - 1 /\ n + 1 \in 1..Depth /\ (n + 1) - 1 = n
    BY DepthIsNat
  <2>2. a \in Parsed /\ b \in Parsed /\ a \in JSON /\ b \in JSON
    BY GoodFacts DEF Good, Parsed
  <2>3. IsObject(a) /\ IsObject(b)
    BY <1>2, <2>2
  <2>4. a \in ObjectOf(Good(n, JSON)) /\ b \in ObjectOf(Good(n, JSON))
    BY <2>1, <2>3, GoodObject, TwoInherit
  <2>5. IsMerged(Good(n, JSON), a, b, inner, r)
    BY <1>3, <2>1, <2>4
  <2> HIDE DEF inner
  <2>6. /\ v \in ObjectOf(Good(n, JSON)) /\ Names(v) = Names(a) \cup Names(b)
        /\ \A name : name \notin Names(b) => In(v, name) = In(a, name)
        /\ \A j \in DOMAIN b.members : /\ In(v, b.members[j].name) = OutAt(a, b, inner, j)
                                       /\ WholeAt(a, b, inner, j)
    BY <2>5 DEF IsMerged, In
  <2> HIDE DEF r, v, R
  <2>7. v \in Good(n + 1, JSON) /\ IsObject(v) /\ v \in Parsed /\ v \in JSON
    BY <2>1, <2>6, GoodObject, TwoInherit, GoodFacts DEF Good, Parsed
  <2>8. \A name \in Names(b) : \E j \in DOMAIN b.members :
           /\ b.members[j].name = name
           /\ OldAt(a, b, j) = In(a, name) /\ NewAt(b, j) = In(b, name)
           /\ inner[j] = json_value_merge[<<In(a, name), In(b, name)>>]
    <3> SUFFICES ASSUME NEW name \in Names(b)
                 PROVE  \E j \in DOMAIN b.members :
                           /\ b.members[j].name = name
                           /\ OldAt(a, b, j) = In(a, name) /\ NewAt(b, j) = In(b, name)
                           /\ inner[j] = json_value_merge[<<In(a, name), In(b, name)>>]
      OBVIOUS
    <3>1. PICK j \in DOMAIN b.members : b.members[j].name = name
      BY DEF Names
    <3>2. In(b, name) = b.members[j].value
      BY <2>4, <3>1, GetAt DEF In
    <3>3. inner[j] = json_value_merge[<<In(a, name), b.members[j].value>>]
      BY <3>1 DEF inner, InnerOf, In
    <3>4. QED
      BY <3>1, <3>2, <3>3 DEF OldAt, NewAt, In
  <2>9. ASSUME NEW name \in Names(a) \ Names(b) PROVE Same[<<In(v, name), In(a, name)>>]
    <3>1. In(a, name) \in JSON
      BY <2>2, <2>3, <2>9, ValueIsLower DEF In
    <3>2. QED
      BY <2>6, <2>9, <3>1, SameReflexive
  <2>10. ASSUME NEW name \in Names(b) \ Names(a) PROVE Same[<<In(v, name), In(b, name)>>]
    <3>1. In(a, name) = NoValue /\ In(b, name) \in JSON
      BY <2>2, <2>3, <2>4, <2>10, GetAt, ValueIsLower DEF In
    <3>2. In(v, name) = In(b, name)
      BY <2>6, <2>8, <2>10, <3>1 DEF OutAt
    <3>3. QED
      BY <3>1, <3>2, SameReflexive
  <2>11. ASSUME NEW name \in Names(a) \cap Names(b)
         PROVE  IsOverlay[<<In(v, name), In(a, name), In(b, name)>>]
    <3> DEFINE old == In(a, name)
               new == In(b, name)
               w == json_value_merge[<<old, new>>]
    <3>1. old \in Good(n, JSON) /\ new \in Good(n, JSON)
      BY <2>4, <2>11, NamesAreStrings DEF In
    <3>2. old \in JSON /\ new \in JSON /\ old \in Parsed /\ new \in Parsed /\ old # NoValue
      BY <2>1, <3>1, GoodFacts DEF Good, Parsed
    <3>3. PICK j \in DOMAIN b.members :
             /\ b.members[j].name = name
             /\ OldAt(a, b, j) = old /\ NewAt(b, j) = new /\ inner[j] = w
      BY <2>8, <2>11
    <3>4. In(v, name) = OutAt(a, b, inner, j) /\ WholeAt(a, b, inner, j)
      BY <2>6, <3>3
    <3> HIDE DEF old, new, w
    <3>5. CASE json_value_equals[<<old, new>>]
      <4>1. In(v, name) = old
        BY <3>2, <3>3, <3>4, <3>5 DEF OutAt
      <4>2. IsOverlay[<<old, old, new>>]
        BY <3>2, <3>5, EqualsIsSame, SameIsOverlay
      <4>3. QED
        BY <4>1, <4>2 DEF old, new
    <3>6. CASE ~json_value_equals[<<old, new>>] /\ ~IsObject(old)
      <4>1. In(v, name) = new
        BY <3>2, <3>3, <3>4, <3>6 DEF OutAt
      <4>2. IsOverlay[<<new, old, new>>]
        BY <3>2, <3>6, SameReflexive, OverlayCases
      <4>3. QED
        BY <4>1, <4>2 DEF old, new
    <3>7. CASE ~json_value_equals[<<old, new>>] /\ IsObject(old)
      <4>1. In(v, name) = w.value
        BY <3>2, <3>3, <3>4, <3>7 DEF OutAt
      <4>2. w.whole /\ (IsObject(new) => w.ok)
        BY <3>3, <3>4, <3>7 DEF WholeAt, Deep
      <4>3. CASE IsObject(new)
        <5>1. IsOverlay[<<w.value, old, new>>]
          BY <1>5, <2>1, <3>1, <4>2, <4>3 DEF w, R
        <5>2. QED
          BY <4>1, <5>1 DEF old, new
      <4>4. CASE ~IsObject(new)
        <5>1. w.value = old
          BY <1>2, <3>2, <4>4 DEF w, R
        <5>2. IsOverlay[<<old, old, new>>]
          BY <3>2, <3>7, <4>4, SameReflexive, OverlayCases
        <5>3. QED
          BY <4>1, <5>1, <5>2 DEF old, new
      <4>5. QED
        BY <4>3, <4>4
    <3>8. QED
      BY <3>5, <3>6, <3>7
  <2>12. IsOverlay[<<v, a, b>>]
    BY <2>2, <2>3, <2>6, <2>7, <2>9, <2>10, <2>11, OverlayCases
  <2>13. QED
    BY <2>12 DEF v, r
<1>6. Depth \in T
  <2> HIDE DEF T
  <2>1. QED
    BY <1>4, <1>5, AllNumbers, DepthIsNat
<1>7. ASSUME NEW a \in Parsed, NEW b \in Parsed, R(a, b).ok
      PROVE  /\ IsObject(a) /\ IsObject(b)
             /\ R(a, b).value \in JSON /\ R(a, b).value \in Parsed
             /\ IsObject(R(a, b).value)
             /\ R(a, b).whole => IsOverlay[<<R(a, b).value, a, b>>]
  <2>1. IsObject(a) /\ IsObject(b)
    BY <1>2, <1>7
  <2>2. a \in Good(Depth, JSON) /\ b \in Good(Depth, JSON) /\ Depth \in 0..Depth
    BY <2>1, GoodFacts, DepthIsNat DEF IsObject, NoValue
  <2>3. R(a, b).whole => IsOverlay[<<R(a, b).value, a, b>>]
    BY <1>6, <1>7, <2>2
  <2>4. R(a, b).value \in ObjectOf(Good(Depth - 1, JSON))
    <3>1. Depth - 1 \in 0..Depth - 1 /\ a \in ObjectOf(Good(Depth - 1, JSON)) /\ b \in ObjectOf(Good(Depth - 1, JSON))
      BY <2>1, ParsedObject, DepthIsNat
    <3>2. IsMerged(Good(Depth - 1, JSON), a, b, InnerOf(json_value_merge, a, b), R(a, b))
      BY <1>3, <3>1
    <3>3. QED
      BY <3>2 DEF IsMerged
  <2>5. R(a, b).value \in Good(Depth, JSON) /\ IsObject(R(a, b).value) /\ Depth \in 1..Depth
    BY <2>2, <2>4, GoodObject, TwoInherit, DepthIsNat
  <2>6. QED
    BY <2>1, <2>3, <2>5, GoodFacts DEF Good, Parsed, IsObject, NoValue
<1>8. QED
  BY <1>7

-----------------------------------------------------------------------------
(* Powers.                                                                 *)

\* The equation of the powers up to k.
PowerBody(base, k, p) == [i \in 0..k |-> IF i = 0 THEN 1 ELSE base * p[i - 1]]

\* There is a function that satisfies it.
LEMMA PowerRun ==
  ASSUME NEW base \in Nat \ {0}, NEW k \in Nat
  PROVE  \E p \in [0..k -> Nat \ {0}] : p = PowerBody(base, k, p)
<1> DEFINE V == Nat \ {0}
           B == [q \in V \X (1..k) |-> base * q[1]]
<1>1. \A x \in V, i \in 1..k : B[<<x, i>>] = base * x
  BY Zenon
<1>2. \A x \in V : base * x \in V
  OBVIOUS
<1>3. B \in [V \X (1..k) -> V]
  <2> HIDE DEF V
  <2>1. QED
    BY <1>2
<1>4. PICK p : IsRun(p, B, V, 1, k)
  <2>1. 1 \in V
    OBVIOUS
  <2>2. IsLoop(B, V, 1, k)
    <3> HIDE DEF B, V
    <3>1. QED
      BY <1>3, <2>1 DEF IsLoop
  <2> HIDE DEF B, V
  <2>3. QED
    BY <2>2, RecursionByCount
<1>5. \A i \in 0..k : p[i] = IF i = 0 THEN 1 ELSE base * p[i - 1]
  <2>1. \A i \in 1..k : i - 1 \in 0..k
    OBVIOUS
  <2>2. \A i \in 0..k : i = 0 \/ (i \in 1..k /\ i # 0)
    OBVIOUS
  <2>3. p \in [0..k -> V] /\ p[0] = 1 /\ \A i \in 1..k : p[i] = B[<<p[i - 1], i>>]
    BY <1>4 DEF IsRun
  <2> HIDE DEF B, V
  <2>4. \A i \in 1..k : p[i - 1] \in V
    BY <2>1, <2>3
  <2>5. QED
    BY <1>1, <2>2, <2>3, <2>4
<1>6. p \in [0..k -> V]
  BY <1>4 DEF IsRun
<1>7. p = [i \in 0..k |-> IF i = 0 THEN 1 ELSE base * p[i - 1]]
  <2> HIDE DEF V, B
  <2>1. QED
    BY <1>5, <1>6
<1>8. QED
  BY <1>6, <1>7 DEF PowerBody

\* The one that Power chooses.
PowerFun(base, k) == CHOOSE p : p = PowerBody(base, k, p)

\* It satisfies the equation.
LEMMA PowerFunFacts ==
  ASSUME NEW base \in Nat \ {0}, NEW k \in Nat
  PROVE  /\ Power(base, k) = PowerFun(base, k)[k]
         /\ PowerFun(base, k)[0] = 1
         /\ \A i \in 1..k : PowerFun(base, k)[i] = base * PowerFun(base, k)[i - 1]
<1> DEFINE p == PowerFun(base, k)
<1>1. p = PowerBody(base, k, p)
  BY PowerRun, Zenon DEF PowerFun
<1>2. Power(base, k) = p[k]
  BY Zenon DEF Power, PowerFun, PowerBody
<1> HIDE DEF p
<1>3. \A i \in 0..k : p[i] = IF i = 0 THEN 1 ELSE base * p[i - 1]
  BY <1>1, Zenon DEF PowerBody
<1>4. 0 \in 0..k /\ \A i \in 1..k : i \in 0..k /\ i # 0
  OBVIOUS
<1>5. QED
  BY <1>2, <1>3, <1>4 DEF p

\* It has the powers that every longer one has.
LEMMA PowerUnique ==
  ASSUME NEW base \in Nat \ {0}, NEW k \in Nat
  PROVE  \A i \in 0..k : /\ PowerFun(base, k)[i] = PowerFun(base, i)[i]
                         /\ PowerFun(base, k)[i] \in Nat \ {0}
<1> DEFINE p == PowerFun(base, k)
           T == {i \in Nat : i \in 0..k =>
                   /\ p[i] \in Nat \ {0}
                   /\ \A m \in 0..k : i <= m => PowerFun(base, m)[i] = p[i]}
<1>1. 0 \in T
  BY PowerFunFacts
<1>2. ASSUME NEW i \in Nat, i \in T PROVE i + 1 \in T
  <2> SUFFICES ASSUME i + 1 \in 0..k
               PROVE  /\ p[i + 1] \in Nat \ {0}
                      /\ \A m \in 0..k : i + 1 <= m => PowerFun(base, m)[i + 1] = p[i + 1]
    OBVIOUS
  <2>1. i \in 0..k /\ p[i] \in Nat \ {0}
        /\ \A m \in 0..k : i <= m => PowerFun(base, m)[i] = p[i]
    BY <1>2
  <2>2. \A m \in 0..k : i + 1 <= m => PowerFun(base, m)[i + 1] = base * p[i]
    <3> SUFFICES ASSUME NEW m \in 0..k, i + 1 <= m
                 PROVE  PowerFun(base, m)[i + 1] = base * p[i]
      OBVIOUS
    <3>1. m \in Nat /\ i + 1 \in 1..m /\ (i + 1) - 1 = i /\ i <= m
      OBVIOUS
    <3>2. PowerFun(base, m)[i + 1] = base * PowerFun(base, m)[(i + 1) - 1]
      <4> HIDE DEF p, T
      <4>1. QED
        BY <3>1, PowerFunFacts
    <3>3. QED
      BY <2>1, <3>1, <3>2
  <2>3. p[i + 1] = base * p[i] /\ k \in 0..k
    BY <2>2
  <2>4. base * p[i] \in Nat \ {0}
    BY <2>1
  <2>5. QED
    BY <2>2, <2>3, <2>4
<1>3. Nat \subseteq T
  <2> HIDE DEF T
  <2>1. QED
    BY <1>1, <1>2, AllNumbers
<1>4. QED
  BY <1>3

\* The laws of Power.
LEMMA PowerFacts ==
  ASSUME NEW base \in Nat \ {0}, NEW k \in Nat
  PROVE  /\ Power(base, k) \in Nat \ {0}
         /\ Power(base, 0) = 1
         /\ Power(base, k + 1) = base * Power(base, k)
<1>1. Power(base, k) \in Nat \ {0}
  <2>1. Power(base, k) = PowerFun(base, k)[k]
    BY PowerFunFacts, Zenon
  <2>2. k \in 0..k
    OBVIOUS
  <2>3. QED
    BY <2>1, <2>2, PowerUnique, Zenon
<1>2. Power(base, 0) = 1
  BY PowerFunFacts
<1>3. k + 1 \in Nat /\ k + 1 \in 1..k + 1 /\ (k + 1) - 1 = k /\ k \in 0..k + 1
  OBVIOUS
<1>4. Power(base, k + 1) = PowerFun(base, k + 1)[k + 1]
  BY <1>3, PowerFunFacts
<1>5. PowerFun(base, k + 1)[k + 1] = base * PowerFun(base, k + 1)[k]
  BY <1>3, PowerFunFacts
<1>6. PowerFun(base, k + 1)[k] = PowerFun(base, k)[k]
  BY <1>3, PowerUnique
<1>7. Power(base, k) = PowerFun(base, k)[k]
  BY PowerFunFacts
<1>8. QED
  BY <1>1, <1>2, <1>4, <1>5, <1>6, <1>7

-----------------------------------------------------------------------------
(* The numbers of am_infile and their carriers.                            *)

\* What four bits can be.
Digits == 0..15

\* The constants are numbers.
LEMMA CalibrationFacts ==
  /\ PerNumber \in Nat \ {0} /\ LostBits \in Nat /\ 8 * PerNumber \in Nat
  /\ IntMod \in Nat \ {0} /\ IntMod * IntMod \in Nat \ {0}
  /\ Power(2, LostBits) \in Nat \ {0}
<1>1. PerNumber \in Nat \ {0} /\ LostBits \in Nat
  BY CalibrationAssumption
<1>2. IntMod \in Nat \ {0}
  BY <1>1, PowerFacts DEF IntMod
<1>3. \A x \in Nat \ {0} : x * x \in Nat \ {0}
  OBVIOUS
<1>4. QED
  BY <1>1, <1>2, <1>3, PowerFacts

\* A long has at least the bits of an int.
LEMMA LongModFacts ==
  ASSUME NEW machine
  PROVE  LongMod(machine) \in Nat \ {0} /\ IntMod <= LongMod(machine)
<1>1. \A x \in Nat \ {0} : x <= x * x
  OBVIOUS
<1>2. QED
  BY <1>1, CalibrationFacts DEF LongMod

\* The cut double is an unsigned number, the same one if it is an int's.
LEMMA AmpMapIsNat ==
  ASSUME NEW number \in Int, NEW machine
  PROVE  /\ AmpMap(number, machine) \in Nat
         /\ number \in 0..IntMod - 1 => AmpMap(number, machine) = number
<1> DEFINE L == LongMod(machine)
<1>1. L \in Nat \ {0} /\ IntMod \in Nat /\ IntMod <= L
  BY LongModFacts, CalibrationFacts
<1> HIDE DEF L
<1>2. CASE number \in 0..L - 1
  <2>1. AmpMap(number, machine) = number
    BY <1>1, <1>2, SMT DEF AmpMap, L
  <2>2. QED
    BY <1>2, <2>1
<1>3. CASE number \notin 0..L - 1
  <2>1. AmpMap(number, machine) \in {L - 1, number % L, 0}
    BY <1>1, <1>3, SMT DEF AmpMap, L
  <2>2. number % L \in Nat /\ L - 1 \in Nat
    BY <1>1
  <2>3. number \notin 0..IntMod - 1
    BY <1>1, <1>3
  <2>4. QED
    BY <2>1, <2>2, <2>3
<1>4. QED
  BY <1>2, <1>3

\* Four bits of a number.
LEMMA DigitType ==
  ASSUME NEW number \in Int, NEW place \in 0..PerNumber - 1
  PROVE  Digit(number, place) \in Digits
<1>1. PerNumber - 1 - place \in Nat
  BY CalibrationFacts
<1> DEFINE p == Power(16, PerNumber - 1 - place)
<1>2. p \in Nat \ {0}
  <2>1. 16 \in Nat \ {0}
    OBVIOUS
  <2>2. QED
    BY <1>1, <2>1, PowerFacts
<1> HIDE DEF p
<1>3. number \div p \in Int
  BY <1>2
<1>4. (number \div p) % 16 \in Digits
  BY <1>3 DEF Digits
<1>5. QED
  BY <1>4 DEF Digit, p

\* The carriers of a number, and the number of a carrier.
LEMMA CarrierFacts ==
  ASSUME NEW numbers \in Seq(Int)
  PROVE  /\ Len(numbers) \in Nat /\ DOMAIN numbers = 1..Len(numbers)
         /\ \A j \in Carriers(numbers) :
               /\ j \in Int /\ j \div PerNumber + 1 \in DOMAIN numbers
               /\ j % PerNumber \in 0..PerNumber - 1
               /\ j = PerNumber * (j \div PerNumber) + (j % PerNumber)
         /\ \A m \in 0..Len(numbers) - 1, n \in 0..PerNumber - 1 :
               /\ m * PerNumber + n \in Carriers(numbers)
               /\ (m * PerNumber + n) \div PerNumber = m
               /\ (m * PerNumber + n) % PerNumber = n
<1> DEFINE L == Len(numbers)
           P == PerNumber
<1>1. L \in Nat /\ DOMAIN numbers = 1..L /\ P \in Nat \ {0}
  BY CalibrationFacts
<1>2. Carriers(numbers) = 0..P * L - 1
  BY DEF Carriers
<1> HIDE DEF L, P
<1>3. P * L \in Nat
  BY <1>1
<1>4. ASSUME NEW j \in Carriers(numbers)
      PROVE  /\ j \in Int /\ j \div P + 1 \in DOMAIN numbers /\ j % P \in 0..P - 1
             /\ j = P * (j \div P) + (j % P)
  <2>1. j \in Nat /\ j < P * L
    BY <1>2, <1>3, <1>4
  <2> DEFINE q == j \div P
             r == j % P
  <2>2. q \in Int /\ r \in 0..P - 1 /\ j = P * q + r
    BY <1>1, <2>1
  <2> HIDE DEF q, r
  <2>3. q >= 0
    <3> SUFFICES ASSUME q <= -1 PROVE FALSE
      BY <2>2
    <3>1. P * q <= -P
      BY <1>1, <2>2
    <3>2. QED
      BY <1>1, <2>1, <2>2, <3>1
  <2>4. q < L
    <3> SUFFICES ASSUME L <= q PROVE FALSE
      BY <1>1, <2>2
    <3>1. P * L <= P * q
      BY <1>1, <2>2
    <3>2. QED
      BY <1>1, <1>3, <2>1, <2>2, <3>1
  <2>5. j \in Int /\ q + 1 \in DOMAIN numbers /\ r \in 0..P - 1 /\ j = P * q + r
    <3>1. q \in Int /\ j \in Int /\ r \in 0..P - 1 /\ j = P * q + r
      BY <2>1, <2>2
    <3>2. q + 1 \in DOMAIN numbers
      <4>1. q + 1 \in 1..L
        BY <1>1, <2>3, <2>4, <3>1
      <4>2. QED
        BY <1>1, <4>1
    <3>3. QED
      BY <3>1, <3>2
  <2>6. QED
    BY <2>5 DEF q, r
<1>5. ASSUME NEW m \in 0..L - 1, NEW n \in 0..P - 1
      PROVE  /\ m * P + n \in Carriers(numbers)
             /\ (m * P + n) \div P = m /\ (m * P + n) % P = n
  <2>1. m \in Nat /\ n \in Nat /\ n < P /\ m + 1 <= L
    BY <1>1, <1>5
  <2>2. P * (m + 1) <= P * L
    BY <1>1, <2>1
  <2>3. m * P \in Nat /\ P * (m + 1) = m * P + P
    BY <1>1, <2>1
  <2>4. (m * P + n) \div P = m /\ (m * P + n) % P = n
    <3>1. (n + m * P) \div P = m
      BY <1>1, <2>1
    <3>2. QED
      BY <1>1, <2>1, <2>3, <3>1
  <2>5. m * P + n \in 0..P * L - 1
    BY <1>1, <1>3, <2>1, <2>2, <2>3
  <2>6. QED
    BY <1>2, <2>4, <2>5, Zenon
<1>6. QED
  BY <1>1, <1>4, <1>5, Zenon DEF L, P

\* Every carrier has a backoff of four bits.
LEMMA BackoffsType ==
  ASSUME NEW numbers \in Seq(Int), NEW machine
  PROVE  Backoffs(numbers, machine) \in [Carriers(numbers) -> Digits]
<1>1. ASSUME NEW j \in Carriers(numbers)
      PROVE  Digit(AmpMap(numbers[j \div PerNumber + 1], machine), j % PerNumber) \in Digits
  <2>1. j \div PerNumber + 1 \in DOMAIN numbers /\ j % PerNumber \in 0..PerNumber - 1
    BY CarrierFacts
  <2>2. numbers[j \div PerNumber + 1] \in Int
    BY <2>1, MemberOfSeq
  <2>3. AmpMap(numbers[j \div PerNumber + 1], machine) \in Int
    BY <2>2, AmpMapIsNat
  <2>4. QED
    BY <2>1, <2>3, DigitType
<1>2. QED
  BY <1>1 DEF Backoffs

-----------------------------------------------------------------------------
(* Applying the lines of a calibration.                                    *)

\* A clamped backoff is one, and not that of a notched carrier.
LEMMA ClampedType == \A x \in Int : Clamped(x) \in Digits /\ Clamped(x) # PSD_Notched
BY DEF Clamped, Digits, PSD_Notched

\* A carrier that a correct line names.
IsNamed(lines, j) ==
    \E i \in DOMAIN lines : j \in lines[i].first..lines[i].last
                            /\ Correct(lines[i].compensate)

\* A line changes the carriers it names, and of those none that is notched or
\* becomes so.
LEMMA LineKeeps ==
  ASSUME NEW D, NEW b \in [D -> Digits], NEW line \in Lines
  PROVE  LET c == LineApplied(b, line)
         IN /\ c \in [D -> Digits]
            /\ \A j \in D : /\ c[j] = PSD_Notched <=> b[j] = PSD_Notched
                            /\ ~(j \in line.first..line.last /\ Correct(line.compensate))
                                  => c[j] = b[j]
<1> DEFINE c == LineApplied(b, line)
           Moves(j) == /\ Correct(line.compensate)
                       /\ j \in line.first..line.last
                       /\ ~Is_notched_carrier(j, b[j])
<1>1. line.compensate \div 2 \in Int
  BY DEF Lines
<1>2. \A j \in D : b[j] \in Int
  BY DEF Digits
<1>3. ASSUME NEW j \in D
      PROVE  /\ Clamped(b[j] - line.compensate \div 2) \in Digits
             /\ Clamped(b[j] - line.compensate \div 2) # PSD_Notched
  <2>1. b[j] - line.compensate \div 2 \in Int
    BY <1>1, <1>2
  <2>2. QED
    BY <2>1, ClampedType
<1>4. DOMAIN b = D
  OBVIOUS
<1>5. c = [j \in D |-> IF Moves(j) THEN Clamped(b[j] - line.compensate \div 2) ELSE b[j]]
  BY <1>4, Zenon DEF LineApplied
<1> HIDE DEF c
<1>12. \A j \in D : c[j] = IF Moves(j) THEN Clamped(b[j] - line.compensate \div 2) ELSE b[j]
  BY <1>5, Zenon
<1>6. \A j \in D : b[j] = PSD_Notched => ~Moves(j)
  BY DEF Is_notched_carrier
<1>7. \A j \in D : ~(j \in line.first..line.last /\ Correct(line.compensate)) => ~Moves(j)
  OBVIOUS
<1> HIDE DEF Moves, c
<1>8. \A j \in D : c[j] \in Digits
  BY <1>3, <1>12
<1>9. c \in [D -> Digits]
  <2>1. c = [j \in D |-> c[j]]
    BY <1>5
  <2>2. QED
    BY <1>8, <2>1
<1>10. ASSUME NEW j \in D
       PROVE  /\ c[j] = PSD_Notched <=> b[j] = PSD_Notched
              /\ ~(j \in line.first..line.last /\ Correct(line.compensate)) => c[j] = b[j]
  BY <1>3, <1>12, <1>6, <1>7
<1>11. QED
  BY <1>9, <1>10 DEF c

\* The equation of the loop over the lines.
CompBody(backoff, lines, c) ==
    [i \in 0..Len(lines) |->
        IF i = 0 THEN backoff ELSE LineApplied(c[i - 1], lines[i])]

\* There is a function that satisfies it.
LEMMA CompExists ==
  ASSUME NEW D, NEW backoff \in [D -> Digits], NEW lines \in Seq(Lines)
  PROVE  \E c : c \in [0..Len(lines) -> [D -> Digits]] /\ c = CompBody(backoff, lines, c)
<1> DEFINE n == Len(lines)
           V == [D -> Digits]
           B == [p \in V \X (1..n) |-> LineApplied(p[1], lines[p[2]])]
<1>1. n \in Nat /\ DOMAIN lines = 1..n /\ DOMAIN backoff = D
  OBVIOUS
<1>2. \A i \in 1..n : lines[i] \in Lines
  BY <1>1, MemberOfSeq
<1>3. \A b \in V, i \in 1..n : B[<<b, i>>] = LineApplied(b, lines[i])
  <2> HIDE DEF V, n
  <2>1. QED
    BY Zenon
<1>4. \A b \in V, i \in 1..n : LineApplied(b, lines[i]) \in V
  BY <1>2, LineKeeps
<1>5. B \in [V \X (1..n) -> V]
  <2> HIDE DEF V, n
  <2>1. QED
    BY <1>4
<1>6. PICK c : IsRun(c, B, V, backoff, n)
  <2>1. IsLoop(B, V, backoff, n)
    <3>1. backoff \in V
      OBVIOUS
    <3> HIDE DEF B, V, n
    <3>2. QED
      BY <1>1, <1>5, <3>1 DEF IsLoop
  <2> HIDE DEF B, V, n
  <2>2. QED
    BY <2>1, RecursionByCount
<1>7. c \in [0..n -> V] /\ c[0] = backoff /\ \A i \in 1..n : c[i] = B[<<c[i - 1], i>>]
  <2> HIDE DEF B, V, n
  <2>1. QED
    BY <1>6 DEF IsRun
<1>8. \A i \in 0..n : c[i] = IF i = 0 THEN backoff ELSE LineApplied(c[i - 1], lines[i])
  <2> HIDE DEF B, V, n
  <2>1. \A i \in 1..n : i - 1 \in 0..n
    BY <1>1
  <2>2. \A i \in 0..n : i = 0 \/ (i \in 1..n /\ i # 0)
    BY <1>1
  <2>3. \A i \in 1..n : c[i - 1] \in V
    BY <1>7, <2>1
  <2>4. QED
    BY <1>3, <1>7, <2>2, <2>3
<1>9. c = [i \in 0..n |-> IF i = 0 THEN backoff ELSE LineApplied(c[i - 1], lines[i])]
  <2> HIDE DEF B, V, n
  <2>1. QED
    BY <1>7, <1>8
<1>10. QED
  <2> HIDE DEF B
  <2>1. c = CompBody(backoff, lines, c)
    BY <1>1, <1>9, Zenon DEF CompBody
  <2>2. QED
    BY <1>7, <2>1

\* A calibration changes what its lines name, and notches nothing.
LEMMA CompensatedKeeps ==
  ASSUME NEW D, NEW backoff \in [D -> Digits], NEW lines \in Seq(Lines)
  PROVE  LET c == Compensated(backoff, lines)
         IN /\ c \in [D -> Digits]
            /\ \A j \in D : /\ c[j] = PSD_Notched <=> backoff[j] = PSD_Notched
                            /\ ~IsNamed(lines, j) => c[j] = backoff[j]
<1> DEFINE n == Len(lines)
           c == CHOOSE f : f = CompBody(backoff, lines, f)
           Kept(b, i) == /\ b \in [D -> Digits]
                         /\ \A j \in D : /\ b[j] = PSD_Notched <=> backoff[j] = PSD_Notched
                                         /\ ~IsNamed(lines, j) => b[j] = backoff[j]
           T == {i \in Nat : i \in 0..n => Kept(c[i], i)}
<1>1. n \in Nat /\ DOMAIN lines = 1..n /\ DOMAIN backoff = D
  OBVIOUS
<1>2. c = CompBody(backoff, lines, c)
  <2>1. \E f : f = CompBody(backoff, lines, f)
    BY CompExists
  <2>2. QED
    BY <2>1, Zenon
<1>3. Compensated(backoff, lines) = c[n]
  BY Zenon DEF Compensated, CompBody
<1>4. \A i \in 0..n : c[i] = IF i = 0 THEN backoff ELSE LineApplied(c[i - 1], lines[i])
  <2> HIDE DEF c
  <2>1. QED
    BY <1>1, <1>2, Zenon DEF CompBody
<1> HIDE DEF c
<1>5. 0 \in T
  <2>1. 0 \in 0..n
    BY <1>1
  <2>2. c[0] = backoff
    BY <1>4, <2>1
  <2>3. QED
    BY <2>2
<1>6. ASSUME NEW i \in Nat, i \in T PROVE i + 1 \in T
  <2> SUFFICES ASSUME i + 1 \in 0..n PROVE Kept(c[i + 1], i + 1)
    OBVIOUS
  <2>1. i \in 0..n /\ i + 1 # 0 /\ (i + 1) - 1 = i /\ i + 1 \in DOMAIN lines
    BY <1>1
  <2>2. Kept(c[i], i)
    BY <1>6, <2>1
  <2>3. c[i + 1] = LineApplied(c[i], lines[i + 1])
    BY <1>4, <2>1
  <2>4. lines[i + 1] \in Lines
    BY <2>1, MemberOfSeq
  <2>5. /\ c[i + 1] \in [D -> Digits]
        /\ \A j \in D : /\ c[i + 1][j] = PSD_Notched <=> c[i][j] = PSD_Notched
                        /\ ~(/\ j \in lines[i + 1].first..lines[i + 1].last
                             /\ Correct(lines[i + 1].compensate)) => c[i + 1][j] = c[i][j]
    <3> DEFINE line == lines[i + 1]
               b == c[i]
    <3>1. line \in Lines /\ b \in [D -> Digits] /\ c[i + 1] = LineApplied(b, line)
      BY <2>2, <2>3, <2>4
    <3> HIDE DEF line, b
    <3>2. /\ c[i + 1] \in [D -> Digits]
          /\ \A j \in D : /\ c[i + 1][j] = PSD_Notched <=> b[j] = PSD_Notched
                          /\ ~(/\ j \in line.first..line.last /\ Correct(line.compensate))
                                => c[i + 1][j] = b[j]
      BY <3>1, LineKeeps
    <3>3. QED
      BY <3>2 DEF line, b
  <2>6. \A j \in D : ~IsNamed(lines, j) =>
           ~(/\ j \in lines[i + 1].first..lines[i + 1].last /\ Correct(lines[i + 1].compensate))
    BY <2>1 DEF IsNamed
  <2>7. QED
    BY <2>2, <2>5, <2>6
<1>7. n \in 0..n /\ Nat \subseteq T
  <2>1. Nat \subseteq T
    <3> HIDE DEF T
    <3>1. QED
      BY <1>5, <1>6, AllNumbers
  <2>2. QED
    BY <1>1, <2>1
<1>8. Kept(c[n], n)
  BY <1>1, <1>7
<1>9. QED
  BY <1>3, <1>8

-----------------------------------------------------------------------------
(* Putting the carriers together again.                                    *)

\* The equation of the loop over the carriers of a number.
SumBody(backoff, m, s) ==
    [n \in 0..PerNumber |->
        IF n = 0 THEN 0 ELSE 16 * s[n - 1] + backoff[m * PerNumber + n - 1]]

\* The function that Packed chooses.
SumFun(backoff, m) == CHOOSE s : s = SumBody(backoff, m, s)

\* The places of one number.
HasPlaces(backoff, m) ==
    \A n \in 1..PerNumber : backoff[m * PerNumber + n - 1] \in Digits

\* There is one that satisfies the equation.
LEMMA SumExists ==
  ASSUME NEW backoff, NEW m, HasPlaces(backoff, m)
  PROVE  \E s : s = SumBody(backoff, m, s)
<1> DEFINE P == PerNumber
           D(n) == backoff[m * PerNumber + n - 1]
           B == [q \in Nat \X (1..P) |-> 16 * q[1] + D(q[2])]
<1>1. P \in Nat
  BY CalibrationFacts
<1>2. \A x \in Nat, n \in 1..P : B[<<x, n>>] = 16 * x + D(n)
  <2> HIDE DEF D, P
  <2>1. QED
    BY Zenon
<1>3. \A n \in 1..P : D(n) \in Nat
  BY DEF HasPlaces, Digits
<1>4. B \in [Nat \X (1..P) -> Nat]
  <2> HIDE DEF D, P
  <2>1. \A x \in Nat, n \in 1..P : 16 * x + D(n) \in Nat
    BY <1>3
  <2>2. QED
    BY <2>1
<1>5. PICK s : IsRun(s, B, Nat, 0, P)
  <2>1. IsLoop(B, Nat, 0, P)
    <3> HIDE DEF B, P
    <3>1. QED
      BY <1>1, <1>4 DEF IsLoop
  <2> HIDE DEF B, P
  <2>2. QED
    BY <2>1, RecursionByCount
<1>6. s \in [0..P -> Nat] /\ s[0] = 0 /\ \A n \in 1..P : s[n] = B[<<s[n - 1], n>>]
  <2> HIDE DEF B, P
  <2>1. QED
    BY <1>5 DEF IsRun
<1>7. \A n \in 0..P : s[n] = IF n = 0 THEN 0 ELSE 16 * s[n - 1] + D(n)
  <2> HIDE DEF B, P, D
  <2>1. \A n \in 1..P : n - 1 \in 0..P
    BY <1>1
  <2>2. \A n \in 0..P : n = 0 \/ (n \in 1..P /\ n # 0)
    BY <1>1
  <2>3. \A n \in 1..P : s[n - 1] \in Nat
    BY <1>6, <2>1
  <2>4. QED
    BY <1>2, <1>6, <2>2, <2>3
<1>8. s = [n \in 0..P |-> IF n = 0 THEN 0 ELSE 16 * s[n - 1] + D(n)]
  <2> HIDE DEF B, P, D
  <2>1. QED
    BY <1>6, <1>7
<1>9. s = SumBody(backoff, m, s)
  BY <1>8, Zenon DEF SumBody
<1>10. QED
  BY <1>9

\* The function that Packed chooses does.
LEMMA SumFacts ==
  ASSUME NEW backoff, NEW m, HasPlaces(backoff, m)
  PROVE  LET s == SumFun(backoff, m)
         IN /\ s[0] = 0
            /\ \A n \in 0..PerNumber : s[n] \in Nat
            /\ \A n \in 1..PerNumber :
                  s[n] = 16 * s[n - 1] + backoff[m * PerNumber + n - 1]
<1> DEFINE P == PerNumber
           s == SumFun(backoff, m)
           D(n) == backoff[m * PerNumber + n - 1]
           T == {n \in Nat : n \in 0..P => s[n] \in Nat}
<1>0. P \in Nat
  BY CalibrationFacts
<1>1. s = SumBody(backoff, m, s)
  <2>1. \E f : f = SumBody(backoff, m, f)
    BY SumExists
  <2>2. QED
    BY <2>1, Zenon DEF SumFun
<1> HIDE DEF s
<1>2. \A n \in 0..P : s[n] = IF n = 0 THEN 0 ELSE 16 * s[n - 1] + D(n)
  BY <1>1, Zenon DEF SumBody
<1> HIDE DEF D, P
<1>3. 0 \in 0..P /\ \A n \in 1..P : n \in 0..P /\ n # 0
  BY <1>0
<1>4. s[0] = 0 /\ \A n \in 1..P : s[n] = 16 * s[n - 1] + D(n)
  BY <1>2, <1>3
<1>5. 0 \in T
  BY <1>4
<1>6. ASSUME NEW n \in Nat, n \in T PROVE n + 1 \in T
  <2> SUFFICES ASSUME n + 1 \in 0..P PROVE s[n + 1] \in Nat
    OBVIOUS
  <2>1. n \in 0..P /\ n + 1 \in 1..P /\ (n + 1) - 1 = n
    BY <1>0
  <2>2. s[n] \in Nat /\ s[n + 1] = 16 * s[n] + D(n + 1)
    BY <1>4, <1>6, <2>1
  <2>3. D(n + 1) \in Nat
    BY <2>1 DEF D, HasPlaces, Digits, P
  <2>4. QED
    BY <2>2, <2>3
<1>7. Nat \subseteq T
  <2> HIDE DEF T
  <2>1. QED
    BY <1>5, <1>6, AllNumbers
<1>8. QED
  BY <1>0, <1>4, <1>7 DEF s, D, P

\* Dividing twice.
LEMMA DivideTwice ==
  ASSUME NEW x \in Nat, NEW q \in Nat \ {0}
  PROVE  x \div (16 * q) = (x \div q) \div 16
<1> DEFINE y == x \div q
           z == y \div 16
<1>1. y \in Int /\ x - q * y \in 0..q - 1
  OBVIOUS
<1>2. z \in Int /\ y - 16 * z \in 0..15
  BY <1>1
<1> HIDE DEF y, z
<1> DEFINE r == (x - q * y) + q * (y - 16 * z)
<1>3. x = (16 * q) * z + r
  BY <1>1, <1>2
<1>4. r \in 0..16 * q - 1
  <2>1. q * (y - 16 * z) \in 0..15 * q
    BY <1>2
  <2>2. QED
    BY <1>1, <2>1
<1> HIDE DEF r
<1>5. 16 * q \in Nat \ {0}
  OBVIOUS
<1>6. \A b \in Nat \ {0} : \A t \in 0..b - 1, k \in Int : (b * k + t) \div b = k
  OBVIOUS
<1>7. x \div (16 * q) = z
  BY <1>2, <1>3, <1>4, <1>5, <1>6
<1>8. QED
  BY <1>7 DEF z, y

\* The carriers of a number are found again in it.
LEMMA SumHasDigits ==
  ASSUME NEW backoff, NEW m, HasPlaces(backoff, m)
  PROVE  LET sum == SumFun(backoff, m)[PerNumber]
         IN /\ sum \in 0..IntMod - 1
            /\ \A place \in 0..PerNumber - 1 :
                  Digit(sum, place) = backoff[m * PerNumber + place]
<1> DEFINE P == PerNumber
           s == SumFun(backoff, m)
           D(n) == backoff[m * PerNumber + n - 1]
<1>0. P \in Nat \ {0} /\ 16 \in Nat \ {0}
  BY CalibrationFacts
<1>1. /\ s[0] = 0 /\ \A n \in 0..P : s[n] \in Nat
      /\ \A n \in 1..P : s[n] = 16 * s[n - 1] + D(n)
  BY SumFacts
<1>2. \A n \in 1..P : D(n) \in 0..15
  BY DEF HasPlaces, Digits
<1> HIDE DEF P, s, D
<1>3. \A n \in 1..P : n - 1 \in 0..P /\ n \in 0..P
  BY <1>0
<1>4. \A n \in 1..P : s[n] \div 16 = s[n - 1] /\ s[n] % 16 = D(n)
  <2> SUFFICES ASSUME NEW n \in 1..P PROVE s[n] \div 16 = s[n - 1] /\ s[n] % 16 = D(n)
    OBVIOUS
  <2>1. s[n - 1] \in Nat /\ D(n) \in 0..15 /\ s[n] = 16 * s[n - 1] + D(n)
    BY <1>1, <1>2, <1>3
  <2>2. QED
    BY <2>1
<1>5. \A k \in 0..P : s[P] \div Power(16, k) = s[P - k]
  <2> DEFINE T == {k \in Nat : k \in 0..P => s[P] \div Power(16, k) = s[P - k]}
  <2>1. 0 \in T
    <3>1. Power(16, 0) = 1
      BY <1>0, PowerFacts
    <3>2. s[P] \in Nat /\ P - 0 = P
      BY <1>0, <1>1
    <3>3. s[P] \div 1 = s[P]
      BY <3>2
    <3>4. QED
      BY <3>1, <3>2, <3>3
  <2>2. ASSUME NEW k \in Nat, k \in T PROVE k + 1 \in T
    <3> SUFFICES ASSUME k + 1 \in 0..P PROVE s[P] \div Power(16, k + 1) = s[P - (k + 1)]
      OBVIOUS
    <3>1. k \in 0..P /\ P - k \in 1..P /\ (P - k) - 1 = P - (k + 1)
      BY <1>0
    <3>2. s[P] \div Power(16, k) = s[P - k]
      BY <2>2, <3>1
    <3>3. Power(16, k) \in Nat \ {0} /\ Power(16, k + 1) = 16 * Power(16, k)
      BY <1>0, PowerFacts
    <3>4. s[P] \in Nat
      BY <1>0, <1>1
    <3>5. s[P] \div Power(16, k + 1) = (s[P] \div Power(16, k)) \div 16
      BY <3>3, <3>4, DivideTwice
    <3>6. s[P - k] \div 16 = s[(P - k) - 1]
      BY <1>4, <3>1
    <3>7. QED
      BY <3>1, <3>2, <3>5, <3>6, Zenon
  <2>3. Nat \subseteq T
    <3> HIDE DEF T
    <3>1. QED
      BY <2>1, <2>2, AllNumbers
  <2>4. QED
    BY <1>0, <2>3
<1>6. ASSUME NEW place \in 0..P - 1 PROVE Digit(s[P], place) = D(place + 1)
  <2>1. P - 1 - place \in 0..P /\ P - (P - 1 - place) = place + 1 /\ place + 1 \in 1..P
    BY <1>0
  <2>2. s[P] \div Power(16, P - 1 - place) = s[place + 1]
    BY <1>5, <2>1
  <2>3. s[place + 1] % 16 = D(place + 1)
    BY <1>4, <2>1
  <2>4. Digit(s[P], place) = (s[P] \div Power(16, P - 1 - place)) % 16
    BY Zenon DEF Digit, P
  <2>5. QED
    BY <2>2, <2>3, <2>4
<1>7. \A n \in 0..P : s[n] < Power(16, n)
  <2> DEFINE T == {n \in Nat : n \in 0..P => s[n] < Power(16, n)}
  <2>1. 0 \in T
    BY <1>0, <1>1, PowerFacts
  <2>2. ASSUME NEW n \in Nat, n \in T PROVE n + 1 \in T
    <3> SUFFICES ASSUME n + 1 \in 0..P PROVE s[n + 1] < Power(16, n + 1)
      OBVIOUS
    <3>1. n \in 0..P /\ n + 1 \in 1..P /\ (n + 1) - 1 = n
      BY <1>0
    <3>2. s[n] < Power(16, n)
      BY <2>2, <3>1
    <3>3. Power(16, n) \in Nat \ {0} /\ Power(16, n + 1) = 16 * Power(16, n)
      BY <1>0, PowerFacts
    <3>4. s[n] \in Nat /\ s[n + 1] = 16 * s[n] + D(n + 1) /\ D(n + 1) \in 0..15
      BY <1>1, <1>2, <3>1
    <3> DEFINE w == Power(16, n)
               a == s[n]
    <3>5. a < w /\ w \in Nat /\ a \in Nat /\ 16 * a + D(n + 1) < 16 * w
      <4>1. a < w /\ w \in Nat /\ a \in Nat
        BY <3>2, <3>3, <3>4
      <4> HIDE DEF a, w
      <4>2. QED
        BY <3>4, <4>1
    <3>6. QED
      BY <3>3, <3>4, <3>5
  <2>3. Nat \subseteq T
    <3> HIDE DEF T
    <3>1. QED
      BY <2>1, <2>2, AllNumbers
  <2>4. QED
    BY <1>0, <2>3
<1>8. s[P] \in 0..IntMod - 1
  <2>1. P \in 0..P /\ IntMod = Power(16, P) /\ IntMod \in Nat
    BY <1>0, CalibrationFacts DEF IntMod, P
  <2>2. s[P] \in Nat /\ s[P] < IntMod
    BY <1>1, <1>7, <2>1
  <2>3. QED
    BY <2>1, <2>2
<1>9. \A place \in 0..P - 1 : D(place + 1) = backoff[m * PerNumber + place]
  <2> SUFFICES ASSUME NEW place \in 0..P - 1
               PROVE  m * PerNumber + (place + 1) - 1 = m * PerNumber + place
    BY DEF D
  <2>1. QED
    OBVIOUS
<1>10. QED
  BY <1>6, <1>8, <1>9 DEF s, P

\* The double next to a number: the number itself if it is an int's, and never
\* further away than the bits that are lost.
LEMMA DoubleFacts ==
  ASSUME NEW number \in Nat
  PROVE  /\ AsDouble(number) \in Int
         /\ number < IntMod => AsDouble(number) = number
         /\ number - IntMod < AsDouble(number)
<1> DEFINE u == Power(2, LostBits)
           low == number % u
           down == number - low
           even == (down \div u) % 2 = 0
           limit == (IntMod * IntMod) \div u
           down2 == 2 * low < u \/ (2 * low = u /\ even)
<1>1. u \in Nat \ {0} /\ IntMod \in Nat \ {0} /\ u <= IntMod
  BY CalibrationFacts, DoubleAssumption
<1>2. limit \in Int /\ IntMod <= limit
  <2>1. IntMod * IntMod \in Nat /\ u * IntMod <= IntMod * IntMod
    BY <1>1
  <2>2. \A x \in Nat, d \in Nat \ {0} : \A k \in Nat : d * k <= x => x \div d \in Int /\ k <= x \div d
    <3> SUFFICES ASSUME NEW x \in Nat, NEW d \in Nat \ {0}, NEW k \in Nat, d * k <= x,
                        ~(k <= x \div d)
                 PROVE  FALSE
      <4>1. \A y \in Nat, e \in Nat \ {0} : y \div e \in Int
        OBVIOUS
      <4>2. QED
        BY <4>1
    <3> DEFINE q == x \div d
    <3>1. q \in Int /\ x < d * q + d
      OBVIOUS
    <3> HIDE DEF q
    <3>2. q + 1 <= k
      BY <3>1 DEF q
    <3>3. d * (q + 1) <= d * k
      BY <3>1, <3>2
    <3>4. d * (q + 1) = d * q + d /\ d * q \in Int /\ d * k \in Int
      BY <3>1
    <3>5. QED
      BY <3>1, <3>3, <3>4
  <2>3. QED
    BY <1>1, <2>1, <2>2
<1>3. low \in Int /\ 0 <= low /\ low < u
  BY <1>1
<1>4. AsDouble(number) =
        CASE number < limit -> number
          [] number >= limit /\ down2 -> down
          [] OTHER -> down + u
  BY Zenon DEF AsDouble
<1> HIDE DEF u, low, limit, even, down2
<1>5. down \in Int /\ number - u < down /\ down <= number
  BY <1>1, <1>3
<1> HIDE DEF down
<1>6. AsDouble(number) \in {number, down, down + u}
  BY <1>2, <1>4
<1>7. number < IntMod => AsDouble(number) = number
  <2>1. number < IntMod => number < limit
    BY <1>1, <1>2
  <2>2. QED
    BY <1>2, <1>4, <2>1
<1>8. QED
  BY <1>1, <1>5, <1>6, <1>7

\* The bits of either make a number.
LEMMA OrType == \A a, b : Or(a, b) \in Int
<1> SUFFICES ASSUME NEW a, NEW b PROVE Or(a, b) \in Int
  OBVIOUS
<1> DEFINE N == 8 * PerNumber
           Bit(n, k) == (n \div Power(2, k)) % 2
           On(k) == Bit(a, k - 1) = 1 \/ Bit(b, k - 1) = 1
           Body(low) == [k \in 0..N |->
                           IF k = 0 THEN 0
                           ELSE low[k - 1] + IF On(k) THEN Power(2, k - 1) ELSE 0]
           low == CHOOSE f : f = Body(f)
           B == [q \in Int \X (1..N) |-> q[1] + IF On(q[2]) THEN Power(2, q[2] - 1) ELSE 0]
<1>1. N \in Nat
  BY CalibrationFacts
<1>2. Or(a, b) = low[N]
  BY Zenon DEF Or
<1> HIDE DEF On, N
<1>3. \A k \in 1..N : Power(2, k - 1) \in Int
  <2> SUFFICES ASSUME NEW k \in 1..N PROVE Power(2, k - 1) \in Int
    OBVIOUS
  <2>1. k - 1 \in Nat /\ 2 \in Nat \ {0}
    BY <1>1
  <2>2. QED
    BY <2>1, PowerFacts
<1>4. \A x \in Int, k \in 1..N : B[<<x, k>>] = x + IF On(k) THEN Power(2, k - 1) ELSE 0
  BY Zenon
<1>5. B \in [Int \X (1..N) -> Int]
  BY <1>3
<1> HIDE DEF B
<1>6. IsLoop(B, Int, 0, N)
  BY <1>1, <1>5 DEF IsLoop
<1>7. PICK s : IsRun(s, B, Int, 0, N)
  BY <1>6, RecursionByCount
<1>8. s \in [0..N -> Int] /\ s[0] = 0 /\ \A k \in 1..N : s[k] = B[<<s[k - 1], k>>]
  BY <1>7 DEF IsRun
<1>9. \A k \in 1..N : k - 1 \in 0..N /\ k # 0
  BY <1>1
<1>10. s = Body(s)
  <2>1. \A k \in 1..N : s[k] = s[k - 1] + IF On(k) THEN Power(2, k - 1) ELSE 0
    BY <1>4, <1>8, <1>9
  <2>2. \A k \in 0..N : k = 0 \/ k \in 1..N
    BY <1>1
  <2>3. \A k \in 0..N : s[k] = IF k = 0 THEN 0
                               ELSE s[k - 1] + IF On(k) THEN Power(2, k - 1) ELSE 0
    BY <1>8, <1>9, <2>1, <2>2
  <2>4. s = [k \in 0..N |-> s[k]]
    BY <1>8
  <2>5. QED
    BY <2>3, <2>4
<1>11. low = Body(low)
  <2>1. \E f : f = Body(f)
    BY <1>10
  <2> HIDE DEF Body
  <2>2. QED
    BY <2>1, Zenon
<1> HIDE DEF low
<1>12. \A k \in 0..N : low[k] = IF k = 0 THEN 0
                                ELSE low[k - 1] + IF On(k) THEN Power(2, k - 1) ELSE 0
  BY <1>11, Zenon
<1> DEFINE T == {k \in Nat : k \in 0..N => low[k] \in Int}
<1>13. 0 \in T
  BY <1>1, <1>12
<1>14. ASSUME NEW k \in Nat, k \in T PROVE k + 1 \in T
  <2> SUFFICES ASSUME k + 1 \in 0..N PROVE low[k + 1] \in Int
    OBVIOUS
  <2>1. k \in 0..N /\ k + 1 \in 1..N /\ k + 1 # 0 /\ (k + 1) - 1 = k
    BY <1>1
  <2>2. low[k] \in Int /\ Power(2, k) \in Int
    BY <1>3, <1>14, <2>1
  <2>3. low[k + 1] = low[k] + IF On(k + 1) THEN Power(2, k) ELSE 0
    BY <1>12, <2>1
  <2>4. QED
    BY <2>2, <2>3
<1>15. Nat \subseteq T
  <2> HIDE DEF T
  <2>1. QED
    BY <1>13, <1>14, AllNumbers
<1>16. QED
  BY <1>1, <1>2, <1>15

\* The number of a group of carriers.
LEMMA PackedFacts ==
  ASSUME NEW backoff, NEW m \in Int, HasPlaces(backoff, m), NEW before \in Nat,
         NEW machine
  PROVE  LET sum == SumFun(backoff, m)[PerNumber]
             number == Packed(backoff, m, before, machine)
         IN /\ number \in Int
            /\ (m # 0 /\ ~(machine.wide /\ backoff[m * PerNumber] >= 8)) => number = sum
            /\ (m # 0 /\ machine.wide /\ backoff[m * PerNumber] >= 8) => IntMod <= number
<1> DEFINE sum == SumFun(backoff, m)[PerNumber]
           negative == backoff[m * PerNumber] >= 8
           number == IF machine.wide /\ negative
                     THEN sum + IntMod * IntMod - IntMod ELSE sum
           first == Or(number, before) % LongMod(machine)
           packed == IF m = 0 THEN first ELSE number
<1>1. Packed(backoff, m, before, machine) = AsDouble(packed)
  BY Zenon DEF Packed, SumFun, SumBody
<1>2. sum \in Nat /\ sum < IntMod
  <2>1. sum \in 0..IntMod - 1
    BY SumHasDigits, Zenon
  <2>2. QED
    BY <2>1, CalibrationFacts
<1>3. IntMod \in Nat /\ 16 <= IntMod /\ IntMod * IntMod \in Nat /\ 16 * IntMod <= IntMod * IntMod
  <2>1. PerNumber - 1 \in Nat /\ (PerNumber - 1) + 1 = PerNumber /\ 16 \in Nat \ {0}
    BY CalibrationFacts
  <2>2. Power(16, PerNumber - 1) \in Nat \ {0} /\ IntMod = 16 * Power(16, PerNumber - 1)
    BY <2>1, PowerFacts DEF IntMod
  <2> DEFINE p == Power(16, PerNumber - 1)
  <2>3. p \in Nat \ {0} /\ IntMod = 16 * p
    BY <2>2
  <2> HIDE DEF p
  <2>4. IntMod \in Nat /\ 16 <= IntMod
    BY <2>3
  <2>5. \A x \in Nat : 16 <= x => x * x \in Nat /\ 16 * x <= x * x
    OBVIOUS
  <2>6. QED
    BY <2>4, <2>5
<1>4. first \in Nat
  <2>1. LongMod(machine) \in Nat \ {0} /\ Or(number, before) \in Int
    BY OrType, LongModFacts
  <2> HIDE DEF number
  <2>2. QED
    BY <2>1
<1> HIDE DEF sum, negative, first
<1>5. number \in Nat
  BY <1>2, <1>3
<1>6. packed \in Nat
  BY <1>4, <1>5
<1>7. Packed(backoff, m, before, machine) \in Int
  BY <1>1, <1>6, DoubleFacts
<1>8. ASSUME m # 0, ~(machine.wide /\ negative) PROVE Packed(backoff, m, before, machine) = sum
  <2>1. packed = sum
    BY <1>8
  <2>2. QED
    BY <1>1, <1>2, <2>1, DoubleFacts
<1>9. ASSUME m # 0, machine.wide, negative PROVE IntMod <= Packed(backoff, m, before, machine)
  <2>1. packed = sum + IntMod * IntMod - IntMod
    BY <1>9
  <2>2. packed - IntMod < AsDouble(packed) /\ AsDouble(packed) \in Int
    BY <1>6, DoubleFacts
  <2> HIDE DEF packed
  <2>3. QED
    BY <1>1, <1>2, <1>3, <2>1, <2>2
<1>10. QED
  BY <1>7, <1>8, <1>9 DEF sum, negative

-----------------------------------------------------------------------------
(* A whole calibration.                                                    *)

\* The backoffs before a calibration and after it.
BackoffsOf(numbers, machine) == Backoffs(numbers, machine)

Applying(numbers, lines, machine) == Compensated(Backoffs(numbers, machine), lines)

\* A calibration keeps, of every carrier, what it is to keep.
LEMMA AfterFacts ==
  ASSUME NEW numbers \in Seq(Int), NEW lines \in Seq(Lines), NEW machine
  PROVE  LET b == BackoffsOf(numbers, machine)
             c == Applying(numbers, lines, machine)
         IN /\ b \in [Carriers(numbers) -> Digits] /\ c \in [Carriers(numbers) -> Digits]
            /\ \A j \in Carriers(numbers) :
                  /\ c[j] = PSD_Notched <=> b[j] = PSD_Notched
                  /\ ~IsNamed(lines, j) => c[j] = b[j]
            /\ \A m \in 0..Len(numbers) - 1 : HasPlaces(c, m)
<1> DEFINE b == BackoffsOf(numbers, machine)
           c == Applying(numbers, lines, machine)
           D == Carriers(numbers)
<1>1. b \in [D -> Digits]
  BY BackoffsType DEF BackoffsOf
<1>2. c \in [D -> Digits] /\ \A j \in D : /\ c[j] = PSD_Notched <=> b[j] = PSD_Notched
                                          /\ ~IsNamed(lines, j) => c[j] = b[j]
  <2>1. c = Compensated(b, lines)
    BY DEF Applying, BackoffsOf
  <2> HIDE DEF c, b, D
  <2>2. QED
    BY <1>1, <2>1, CompensatedKeeps
<1> HIDE DEF b, c
<1>3. ASSUME NEW m \in 0..Len(numbers) - 1, NEW n \in 1..PerNumber
      PROVE  c[m * PerNumber + n - 1] \in Digits
  <2>1. n - 1 \in 0..PerNumber - 1
    BY CalibrationFacts
  <2>2. m * PerNumber + (n - 1) \in D
    BY <2>1, CarrierFacts
  <2>3. m * PerNumber \in Int
    BY CalibrationFacts
  <2>4. m * PerNumber + n - 1 = m * PerNumber + (n - 1)
    BY <2>1, <2>3
  <2>5. QED
    BY <1>2, <2>2, <2>4
<1>4. QED
  BY <1>1, <1>2, <1>3 DEF HasPlaces, b, c

\* A calibration makes as many numbers as there were.
LEMMA CalibratedType ==
  ASSUME NEW numbers \in Seq(Int), NEW lines \in Seq(Lines), NEW before \in Nat,
         NEW machine
  PROVE  LET new == Calibrated(numbers, lines, before, machine)
         IN new \in Seq(Int) /\ DOMAIN new = DOMAIN numbers /\ Len(new) = Len(numbers)
<1> DEFINE new == Calibrated(numbers, lines, before, machine)
           c == Applying(numbers, lines, machine)
           n == Len(numbers)
<1>1. n \in Nat /\ DOMAIN numbers = 1..n
  OBVIOUS
<1>2. \A m \in 1..n : m - 1 \in 0..n - 1 /\ m - 1 \in Int
  BY <1>1
<1>3. \A m \in 1..n : Packed(c, m - 1, before, machine) \in Int
  BY <1>2, AfterFacts, PackedFacts
<1>4. new = [m \in 1..n |-> Packed(c, m - 1, before, machine)]
  BY <1>1, Zenon DEF Calibrated, Applying
<1> HIDE DEF new, c, n
<1>5. new \in [1..n -> Int]
  BY <1>3, <1>4
<1>6. QED
  <2>1. new \in Seq(Int) /\ Len(new) = n /\ DOMAIN new = 1..n
    BY <1>1, <1>5
  <2>2. QED
    BY <1>1, <2>1 DEF new, n

\* The carriers of an int of am_infile.
LEMMA BeforeIsDigit ==
  ASSUME NEW numbers \in Seq(Int), NEW machine, NEW m \in 0..Len(numbers) - 1,
         numbers[m + 1] \in 0..IntMod - 1, NEW place \in 0..PerNumber - 1
  PROVE  /\ m * PerNumber + place \in Carriers(numbers)
         /\ BackoffsOf(numbers, machine)[m * PerNumber + place] = Digit(numbers[m + 1], place)
<1> DEFINE j == m * PerNumber + place
<1>1. j \in Carriers(numbers) /\ j \div PerNumber = m /\ j % PerNumber = place
  BY CarrierFacts
<1> HIDE DEF j
<1>2. BackoffsOf(numbers, machine)[j] =
        Digit(AmpMap(numbers[j \div PerNumber + 1], machine), j % PerNumber)
  BY <1>1, Zenon DEF BackoffsOf, Backoffs
<1>3. numbers[m + 1] \in Int
  BY CalibrationFacts
<1>4. AmpMap(numbers[m + 1], machine) = numbers[m + 1]
  BY <1>3, AmpMapIsNat
<1>5. QED
  BY <1>1, <1>2, <1>4 DEF j

\* Every calibration keeps what it is to keep of the numbers, whatever the lines,
\* the machine and the variable that was never set.
LEMMA CalibratedKeepsNotches ==
  ASSUME NEW numbers \in Seq(Int), NEW lines \in Seq(Lines), NEW before \in Nat,
         NEW machine
  PROVE  KeepsNotches(Calibrated(numbers, lines, before, machine), numbers, lines)
<1> DEFINE new == Calibrated(numbers, lines, before, machine)
           b == BackoffsOf(numbers, machine)
           c == Applying(numbers, lines, machine)
           P == PerNumber
           Named(m, place) ==
              \E i \in DOMAIN lines :
                /\ PerNumber * (m - 1) + place \in lines[i].first..lines[i].last
                /\ Correct(lines[i].compensate)
<1> SUFFICES ASSUME NEW m \in 2..Len(numbers), numbers[m] \in 0..(IntMod - 1)
             PROVE  IF new[m] \in 0..(IntMod - 1)
                    THEN \A place \in 0..(PerNumber - 1) :
                            /\ Digit(numbers[m], place) = PSD_Notched
                                 <=> Digit(new[m], place) = PSD_Notched
                            /\ ~Named(m, place)
                                 => Digit(new[m], place) = Digit(numbers[m], place)
                    ELSE Digit(numbers[m], 0) >= 8 \/ Named(m, 0)
  BY Zenon DEF KeepsNotches
<1>1. /\ m - 1 \in 0..Len(numbers) - 1 /\ m - 1 # 0 /\ (m - 1) + 1 = m
      /\ m \in DOMAIN numbers /\ m - 1 \in Int
  OBVIOUS
<1>2. new[m] = Packed(c, m - 1, before, machine)
  BY <1>1, Zenon DEF Calibrated, Applying
<1>3. HasPlaces(c, m - 1)
  BY <1>1, AfterFacts
<1>4. P \in Nat \ {0} /\ 0 \in 0..P - 1
  BY CalibrationFacts
<1>5. \A place \in 0..P - 1 :
        LET j == (m - 1) * P + place
        IN /\ j \in Carriers(numbers)
           /\ b[j] = Digit(numbers[m], place)
           /\ c[j] = PSD_Notched <=> b[j] = PSD_Notched
           /\ ~Named(m, place) => c[j] = b[j]
  <2> SUFFICES ASSUME NEW place \in 0..P - 1
               PROVE  LET j == (m - 1) * P + place
                      IN /\ j \in Carriers(numbers)
                         /\ b[j] = Digit(numbers[m], place)
                         /\ c[j] = PSD_Notched <=> b[j] = PSD_Notched
                         /\ ~Named(m, place) => c[j] = b[j]
    OBVIOUS
  <2> DEFINE j == (m - 1) * P + place
  <2>1. j \in Carriers(numbers) /\ b[j] = Digit(numbers[m], place)
    <3> DEFINE k == m - 1
    <3>1. k \in 0..Len(numbers) - 1 /\ k + 1 = m /\ place \in 0..PerNumber - 1
      BY <1>1
    <3> HIDE DEF k
    <3>2. numbers[k + 1] \in 0..IntMod - 1
      BY <3>1
    <3>3. /\ k * PerNumber + place \in Carriers(numbers)
          /\ BackoffsOf(numbers, machine)[k * PerNumber + place] = Digit(numbers[k + 1], place)
      BY <3>1, <3>2, BeforeIsDigit
    <3>4. numbers[k + 1] = numbers[m]
      BY <3>1, Zenon
    <3>5. QED
      BY <3>3, <3>4, Zenon DEF k
  <2>2. j = PerNumber * (m - 1) + place
    BY <1>1, <1>4
  <2>3. IsNamed(lines, j) => Named(m, place)
    BY <2>2 DEF IsNamed
  <2> HIDE DEF j, Named
  <2>4. (c[j] = PSD_Notched <=> b[j] = PSD_Notched) /\ (~IsNamed(lines, j) => c[j] = b[j])
    <3> HIDE DEF b, c
    <3>1. QED
      BY <2>1, AfterFacts DEF b, c
  <2>5. QED
    BY <2>1, <2>3, <2>4 DEF j
<1>6. (m - 1) * P + 0 = (m - 1) * P
  BY <1>1, <1>4
<1> DEFINE first == c[(m - 1) * PerNumber]
<1>7. ~Named(m, 0) => first = Digit(numbers[m], 0)
  <2> HIDE DEF Named, b, c
  <2>1. QED
    BY <1>4, <1>5, <1>6
<1>8. CASE machine.wide /\ first >= 8
  <2>1. IntMod <= new[m] /\ new[m] \in Int
    BY <1>1, <1>2, <1>3, <1>8, PackedFacts
  <2> HIDE DEF new, Named, c
  <2>2. new[m] \notin 0..(IntMod - 1)
    <3>1. IntMod \in Int
      BY CalibrationFacts
    <3>2. \A x, y \in Int : y <= x => x \notin 0..(y - 1)
      OBVIOUS
    <3>3. QED
      BY <2>1, <3>1, <3>2, Zenon
  <2>3. Digit(numbers[m], 0) >= 8 \/ Named(m, 0)
    BY <1>7, <1>8
  <2>4. QED
    BY <2>2, <2>3
<1>9. CASE ~(machine.wide /\ first >= 8)
  <2>1. new[m] = SumFun(c, m - 1)[PerNumber]
    BY <1>1, <1>2, <1>3, <1>9, PackedFacts
  <2>2. /\ new[m] \in 0..IntMod - 1
        /\ \A place \in 0..P - 1 : Digit(new[m], place) = c[(m - 1) * PerNumber + place]
    BY <1>3, <2>1, SumHasDigits
  <2> HIDE DEF new, Named, c, b
  <2>3. QED
    BY <1>5, <2>2
<1>10. QED
  BY <1>8, <1>9

-----------------------------------------------------------------------------
(* Putting a value into a configuration.                                   *)

Part(conf, part) == json_object_get_object(conf, part)

\* A configuration whose values are of X1, and the values of the objects in it
\* of X2.
IsConf(conf, X1, X2) ==
    /\ conf \in ObjectOf(X1)
    /\ \A part : Part(conf, part) # NoValue =>
           /\ Part(conf, part) \in ObjectOf(X2)
           /\ part \in Names(conf) /\ json_object_get_value(conf, part) = Part(conf, part)

\* Objects of such values can be values of a configuration.
Holds(X1, X2) == NoValue \notin X1 /\ NoValue \notin X2 /\ ObjectOf(X2) \subseteq X1

\* The same inside of one of the configuration's objects.
IsPutIn(r, conf, part, name, value) ==
    /\ Part(conf, part) # NoValue /\ Part(r, part) # NoValue
    /\ IsPut(r, conf, part, Part(r, part))
    /\ IsPut(Part(r, part), Part(conf, part), name, value)

\* What a value is put into is a configuration as before, if the value is an
\* object of the right kind or none.
LEMMA PutKeepsConf ==
  ASSUME NEW X1, NEW X2, NEW conf, IsConf(conf, X1, X2), NEW r \in ObjectOf(X1),
         NEW name, NEW value, IsPut(r, conf, name, value),
         IsObject(value) => value \in ObjectOf(X2)
  PROVE  IsConf(r, X1, X2)
<1> SUFFICES ASSUME NEW part, Part(r, part) # NoValue
             PROVE  /\ Part(r, part) \in ObjectOf(X2)
                    /\ part \in Names(r) /\ json_object_get_value(r, part) = Part(r, part)
  BY DEF IsConf
<1>1. Part(r, part) = json_object_get_value(r, part) /\ IsObject(Part(r, part))
  BY DEF Part, json_object_get_object, OfType, IsObject, NoValue
<1>2. part \in Names(r)
  BY <1>1 DEF json_object_get_value
<1>3. CASE part = name
  BY <1>1, <1>2, <1>3 DEF IsPut
<1>4. CASE part # name
  <2>1. json_object_get_value(r, part) = json_object_get_value(conf, part)
    BY <1>4 DEF IsPut
  <2>2. Part(r, part) = Part(conf, part)
    BY <2>1 DEF Part, json_object_get_object
  <2>3. QED
    BY <1>1, <1>2, <2>2 DEF IsConf
<1>5. QED
  BY <1>3, <1>4

\* json_object_set_value puts a value into a configuration, or fails.
LEMMA SetValuePuts ==
  ASSUME NEW X1, NEW X2, Holds(X1, X2), NEW conf, IsConf(conf, X1, X2),
         NEW name \in STRING, NEW value \in X1, ~IsObject(value)
  PROVE  LET r == json_object_set_value(conf, name, value)
         IN r # NoValue => IsConf(r, X1, X2) /\ IsPut(r, conf, name, value)
<1>1. conf \in ObjectOf(X1) /\ NoValue \notin X1
  BY DEF IsConf, Holds
<1>2. QED
  BY <1>1, SetPuts, PutKeepsConf

\* So does SetIn, into one of its objects.
LEMMA SetInPuts ==
  ASSUME NEW X1, NEW X2, Holds(X1, X2), NEW conf, IsConf(conf, X1, X2),
         NEW part \in STRING, NEW name \in STRING, NEW value \in X2 \cup {NoValue}
  PROVE  LET r == SetIn(conf, part, name, value)
         IN r # NoValue => /\ IsConf(r, X1, X2) /\ value # NoValue
                           /\ IsPutIn(r, conf, part, name, value)
<1> DEFINE old == Part(conf, part)
           o == json_object_set_value(old, name, value)
           r == json_object_set_value(conf, part, o)
<1>0. SetIn(conf, part, name, value) = IF o = NoValue THEN NoValue ELSE r
  BY DEF SetIn, Part
<1>1. conf \in ObjectOf(X1) /\ NoValue \notin X1 /\ NoValue \notin X2 /\ ObjectOf(X2) \subseteq X1
  BY DEF IsConf, Holds
<1>2. SUFFICES ASSUME o # NoValue, r # NoValue
               PROVE  /\ IsConf(r, X1, X2) /\ value # NoValue
                      /\ IsPutIn(r, conf, part, name, value)
  BY <1>0
<1>3. old # NoValue /\ value # NoValue
  BY <1>2 DEF json_object_set_value, IsObject, NoValue
<1>4. old \in ObjectOf(X2) /\ value \in X2
  BY <1>3 DEF IsConf
<1>5. o \in ObjectOf(X2) /\ IsPut(o, old, name, value)
  BY <1>1, <1>2, <1>4, SetPuts
<1> HIDE DEF o, old
<1>6. o \in X1
  BY <1>1, <1>5
<1>7. r \in ObjectOf(X1) /\ IsPut(r, conf, part, o)
  BY <1>1, <1>2, <1>6, SetPuts
<1> HIDE DEF r
<1>8. IsConf(r, X1, X2)
  BY <1>5, <1>7, PutKeepsConf
<1>9. Part(r, part) = o
  <2>1. IsObject(o)
    BY <1>5, ObjectShape
  <2>2. QED
    BY <1>7, <2>1 DEF IsPut, Part, json_object_get_object, OfType, IsObject
<1>10. QED
  BY <1>2, <1>3, <1>5, <1>7, <1>8, <1>9 DEF IsPutIn, old

\* A value that is put is what the properties say of it.
LEMMA PutIsWith ==
  ASSUME NEW r, NEW o, NEW name, NEW value, IsPut(r, o, name, value),
         NEW f, DOMAIN f = {name}, f[name] = value
  PROVE  IsWith(r, o, f)
BY DEF IsPut, IsWith

\* The same for a value that is put into an object.
LEMMA PutInIsWithIn ==
  ASSUME NEW r, NEW conf, NEW part, NEW name, NEW value, IsPutIn(r, conf, part, name, value),
         NEW f, DOMAIN f = {name}, f[name] = value
  PROVE  IsWithIn(r, conf, part, f)
<1>0. /\ IsPut(r, conf, part, Part(r, part))
      /\ IsPut(Part(r, part), Part(conf, part), name, value)
      /\ Part(conf, part) # NoValue /\ Part(r, part) # NoValue
  BY DEF IsPutIn
<1> DEFINE g == [n \in {part} |-> Part(r, part)]
<1>1. DOMAIN g = {part} /\ g[part] = Part(r, part)
  OBVIOUS
<1> HIDE DEF g
<1>2. IsWith(r, conf, g)
  BY <1>0, <1>1, PutIsWith
<1>3. IsWith(Part(r, part), Part(conf, part), f)
  BY <1>0, PutIsWith
<1>4. QED
  BY <1>0, <1>2, <1>3, Zenon DEF IsWithIn, Part, g

\* Two values that are put one after the other, under two names.
LEMMA PutTwice ==
  ASSUME NEW r, NEW s, NEW conf, NEW part, NEW n1, NEW n2, n1 # n2, NEW v1, NEW v2,
         IsPutIn(s, conf, part, n1, v1), IsPutIn(r, s, part, n2, v2),
         NEW f, DOMAIN f = {n1, n2}, f[n1] = v1, f[n2] = v2
  PROVE  IsWithIn(r, conf, part, f)
<1> DEFINE g == [n \in {part} |-> Part(r, part)]
           a == Part(conf, part)
           b == Part(s, part)
           c == Part(r, part)
<1>1. IsPut(r, conf, part, c) /\ IsPut(b, a, n1, v1) /\ IsPut(c, b, n2, v2)
  BY DEF IsPutIn, IsPut
<1>2. a # NoValue /\ c # NoValue
  BY DEF IsPutIn
<1>3. DOMAIN g = {part} /\ g[part] = c
  OBVIOUS
<1> HIDE DEF g, a, b, c
<1>4. IsWith(r, conf, g)
  BY <1>1, <1>3, PutIsWith
<1>5. Names(c) = Names(a) \cup DOMAIN f
  BY <1>1 DEF IsPut
<1>6. \A n : json_object_get_value(c, n) = IF n = n2 THEN v2 ELSE IF n = n1 THEN v1
                                            ELSE json_object_get_value(a, n)
  BY <1>1 DEF IsPut
<1>7. IsWith(c, a, f)
  BY <1>5, <1>6 DEF IsWith
<1>8. QED
  BY <1>2, <1>4, <1>7, Zenon DEF IsWithIn, Part, a, c, g

-----------------------------------------------------------------------------
(* The levels of a configuration.                                          *)

\* The levels the proofs count from.
LEMMA Levels ==
  /\ Depth \in 1..Depth /\ Depth - 1 \in 1..Depth /\ Depth - 2 \in 1..Depth /\ Depth - 3 \in 0..Depth
  /\ Depth - 1 \in 0..Depth /\ Depth - 2 \in 0..Depth /\ Depth \in 0..Depth /\ 1 \in 0..Depth
  /\ 1 <= Depth - 3 /\ 1 <= Depth - 2 /\ 1 <= Depth - 1 /\ Depth - 3 <= Depth - 2 /\ Depth - 2 <= Depth - 1
  /\ (Depth - 1) - 1 = Depth - 2 /\ (Depth - 2) - 1 = Depth - 3 /\ Depth # 0 /\ Depth - 1 # 0 /\ Depth - 2 # 0
  /\ Depth \in Nat
BY DepthIsNat

\* Objects of up to n levels have values of one level less.
LEMMA NestedObject ==
  ASSUME NEW n \in 1..Depth
  PROVE  ObjectOf(Nested[n - 1]) \subseteq Nested[n] /\ Nested[n] \subseteq JSON
<1>1. n \in 0..Depth /\ n # 0 /\ n - 1 \in 0..Depth /\ n <= Depth /\ Depth \in 0..Depth
  BY DepthIsNat
<1>2. Nested[n] = Level(Nested[n - 1]) /\ Nested[n] \subseteq JSON
  BY <1>1, NestedDef, NestedOrder DEF JSON, Depth
<1> DEFINE X == Nested[n - 1]
<1>3. ObjectOf(X) \subseteq Level(X)
  BY DEF ObjectOf, Level, Pairing
<1>4. QED
  BY <1>2, <1>3

\* What the parser returns is a configuration of such values, two levels deep.
LEMMA GoodConf ==
  ASSUME NEW P, Inherits(P), NEW conf \in Parsed, conf \in P, IsObject(conf)
  PROVE  IsConf(conf, Good(Depth - 1, P), Good(Depth - 2, P))
<1>1. conf \in ObjectOf(Good(Depth - 1, P))
  <2>1. conf \in Good(Depth, P)
    BY GoodFacts DEF Inherits
  <2>2. QED
    BY <2>1, Levels, GoodObject
<1>2. ASSUME NEW part, Part(conf, part) # NoValue
      PROVE  /\ Part(conf, part) \in ObjectOf(Good(Depth - 2, P))
             /\ part \in Names(conf) /\ json_object_get_value(conf, part) = Part(conf, part)
  <2>1. /\ Part(conf, part) = json_object_get_value(conf, part) /\ IsObject(Part(conf, part))
        /\ part \in Names(conf)
    BY <1>2 DEF Part, json_object_get_object, OfType, IsObject, NoValue, json_object_get_value
  <2>2. Part(conf, part) \in Good(Depth - 1, P)
    BY <1>1, <2>1, NamesAreStrings
  <2>3. Depth - 1 \in 1..Depth /\ (Depth - 1) - 1 = Depth - 2
    BY Levels
  <2>4. Part(conf, part) \in ObjectOf(Good((Depth - 1) - 1, P))
    BY <2>1, <2>2, <2>3, GoodObject
  <2>5. QED
    BY <2>1, <2>3, <2>4
<1>3. QED
  BY <1>1, <1>2 DEF IsConf

\* The values of a configuration can be put into its objects and itself.
LEMMA ConfHolds ==
  ASSUME NEW P, Inherits(P)
  PROVE  Holds(Good(Depth - 1, P), Good(Depth - 2, P))
<1>1. NoValue \notin Good(Depth - 1, P) /\ NoValue \notin Good(Depth - 2, P)
  BY Levels, GoodFacts
<1>2. ObjectOf(Good(Depth - 2, P)) \subseteq Good(Depth - 1, P)
  <2>1. \A v : v \in ObjectOf(Good((Depth - 1) - 1, P)) => v \in Good(Depth - 1, P)
    BY Levels, GoodObject
  <2>2. QED
    BY <2>1, Levels
<1>3. QED
  BY <1>1, <1>2 DEF Holds

\* Such a configuration is one the parser can return, and P has it.
LEMMA ConfIsValue ==
  ASSUME NEW P, Inherits(P), NEW r, IsConf(r, Good(Depth - 1, P), Good(Depth - 2, P))
  PROVE  r \in JSON /\ r \in Parsed /\ r \in P /\ r # NoValue
<1>1. r \in ObjectOf(Good(Depth - 1, P))
  BY DEF IsConf
<1>2. r \in Good(Depth, P)
  BY <1>1, Levels, GoodObject
<1>3. QED
  BY <1>2, GoodFacts, NoValueIsNoJson DEF Inherits

\* The values the edits make.
LEMMA ScalarIsGood ==
  ASSUME NEW P, NEW v \in Scalars, NEW n \in 1..Depth
  PROVE  /\ v \in JSON /\ v # NoValue /\ ~IsObject(v)
         /\ v \in P => v \in Good(n, P)
<1>1. n \in 0..Depth /\ n # 0
  BY DepthIsNat
<1>2. v \in Nested[n] /\ v \in JSON
  BY <1>1, NestedDef, NestedObject DEF Level
<1>3. v.type \in {"number", "boolean", "string"}
  BY DEF Scalars, Texts
<1>4. Parses[v]
  BY <1>2, <1>3, ParsesDef DEF ParsesIn
<1>5. QED
  BY <1>2, <1>3, <1>4 DEF Good, NoValue, IsObject

\* Only a text with a control character cannot be written and parsed again.
LEMMA ScalarIsPlain ==
  ASSUME NEW v \in Scalars, ~(v.type = "string" /\ v.kind = "control")
  PROVE  v \in Plain
<1>1. v \in JSON
  BY Levels, ScalarIsGood
<1>2. v.type \in {"number", "boolean", "string"}
  BY DEF Scalars, Texts
<1>3. Printable[v]
  BY <1>1, <1>2, PrintableDef DEF PrintableIn
<1>4. QED
  BY <1>1, <1>3 DEF Plain

\* A number is a scalar.
LEMMA NumberIsScalar == \A n \in Int : Number(n) \in Scalars /\ Number(n).type = "number"
                                       /\ Number(n).number = n
BY DEF Number, Scalars

\* So is a boolean,
LEMMA BooleanIsScalar == \A b \in BOOLEAN : Boolean(b) \in Scalars /\ Boolean(b).type = "boolean"
BY DEF Boolean, Scalars

\* and a text.
LEMMA StringIsScalar ==
  ASSUME NEW s \in STRING, NEW kind \in Kinds
  PROVE  /\ String(s, kind) \in Scalars /\ String(s, kind).kind = kind
         /\ String(s, kind).type = "string"
BY DEF String, Scalars, Texts

\* An array of values that the parser takes.
LEMMA ArrayIsGood ==
  ASSUME NEW P, Inherits(P), NEW n \in 1..Depth, NEW v
  PROVE  (v \in Good(n, P) /\ v.type = "array") <=>
            (v = Array(v.items) /\ v.items \in Seq(Good(n - 1, P)))
<1> DEFINE X == Nested[n - 1]
<1>1. n \in 0..Depth /\ n # 0 /\ n - 1 \in 0..Depth
  BY DepthIsNat
<1>2. Nested[n] = Level(X) /\ Nested[n] \subseteq JSON
  BY <1>1, NestedDef, NestedObject
<1>3. ASSUME v \in Good(n, P), v.type = "array"
      PROVE  v = Array(v.items) /\ v.items \in Seq(Good(n - 1, P))
  <2>1. v \in JSON /\ Parses[v] /\ v \in P /\ v \in Level(X)
    BY <1>2, <1>3 DEF Good
  <2>2. v = Array(v.items) /\ v.items \in Seq(X)
    BY <1>3, <2>1, LevelCases
  <2>3. \A i \in DOMAIN v.items : Parses[v.items[i]] /\ v.items[i] \in P
    BY <1>3, <2>1, ParsesDef DEF ParsesIn, Inherits
  <2>4. \A i \in DOMAIN v.items : v.items[i] \in Good(n - 1, P)
    BY <2>2, <2>3, MemberOfSeq DEF Good
  <2> DEFINE s == v.items
             R == Good(n - 1, P)
  <2>5. s \in Seq(X) /\ \A i \in DOMAIN s : s[i] \in R
    BY <2>2, <2>4, Zenon
  <2> HIDE DEF s, R
  <2>6. s \in Seq(R)
    BY <2>5, SeqOfMembers, Zenon
  <2>7. QED
    BY <2>2, <2>6, Zenon DEF s, R
<1>4. ASSUME v = Array(v.items), v.items \in Seq(Good(n - 1, P))
      PROVE  v \in Good(n, P) /\ v.type = "array"
  <2>1. v.type = "array"
    BY <1>4 DEF Array
  <2>2. \A i \in DOMAIN v.items : v.items[i] \in Good(n - 1, P)
    BY <1>4, MemberOfSeq
  <2>3. Good(n - 1, P) \subseteq X
    BY DEF Good
  <2>4. v.items \in Seq(X)
    <3>1. \A S, R : S \subseteq R => Seq(S) \subseteq Seq(R)
      OBVIOUS
    <3>2. QED
      BY <1>4, <2>3, <3>1
  <2>5. v \in Level(X)
    BY <1>4, <2>4 DEF Level, Array
  <2>6. v \in JSON
    BY <1>2, <2>5
  <2>7. ParsesIn(Parses, v)
    BY <2>1, <2>2 DEF ParsesIn, Good
  <2>8. v \in P
    BY <2>1, <2>2, <2>6 DEF Inherits, Good
  <2>9. QED
    BY <1>2, <2>1, <2>5, <2>6, <2>7, <2>8, ParsesDef DEF Good
<1>5. QED
  BY <1>3, <1>4

-----------------------------------------------------------------------------
(* The edits.                                                              *)

\* The configuration's am_infile.
Am(conf) == json_object_get_array(json_object_get_object(conf, "phy"), "am_infile")

\* The edits with a text.
IsText(edit) == edit.name \in {"avln_hfid", "m_hfid", "u_hfid"}

\* What an edit of a configuration keeps its values in.
Family(conf) == IF conf \in Plain THEN Plain ELSE JSON

\* It has the configuration, and every value that can be written and parsed again.
LEMMA FamilyFacts ==
  ASSUME NEW conf \in JSON
  PROVE  Inherits(Family(conf)) /\ conf \in Family(conf) /\ Plain \subseteq Family(conf)
BY TwoInherit DEF Family, Plain

\* What every outcome of an edit of a configuration is to be.
IsOutcome(o, conf, edit) ==
    /\ o.result \in {0, -1, -2, -3, -4}
    /\ o.result = 0 =>
          /\ o.value \in JSON /\ o.value # NoValue
          /\ o.value \in Parsed
          /\ o.value \in Family(conf) \/ (IsText(edit) /\ edit.text.kind = "control")
          /\ edit.name # "psd_cali" => IsEdited(o.value, conf, edit)
          /\ edit.name = "psd_cali" =>
                \/ o.value = conf
                \/ /\ IsWithIn(o.value, conf, "phy", [am_infile |-> Am(o.value)])
                   /\ KeepsNotches(AmNumbers(o.value), AmNumbers(conf), edit.lines)

\* The results of Stored and Invalid.
LEMMA StoredFacts ==
  ASSUME NEW v
  PROVE  /\ Stored(v).result \in {0, -2}
         /\ Stored(v).result = 0 => v # NoValue /\ Stored(v).value = v
         /\ Invalid.result = -1
BY DEF Stored, Outcome, Invalid

\* An edit that is refused changes nothing.
LEMMA InvalidIsOutcome ==
  ASSUME NEW conf, NEW edit
  PROVE  IsOutcome(Invalid, conf, edit)
BY DEF IsOutcome, Invalid, Outcome

\* A value that is stored is an outcome of an edit other than psd_cali.
LEMMA StoredIsOutcome ==
  ASSUME NEW conf, NEW edit, NEW v, edit.name # "psd_cali",
         v # NoValue => /\ v \in JSON
                        /\ v \in Parsed
                        /\ v \in Family(conf) \/ (IsText(edit) /\ edit.text.kind = "control")
                        /\ IsEdited(v, conf, edit)
  PROVE  IsOutcome(Stored(v), conf, edit)
BY StoredFacts DEF IsOutcome

\* The names and objects of NameAssumption, one by one.
LEMMA NamesAreNames ==
  /\ "mac" \in STRING /\ "use_nvram" \in STRING /\ "host_set_key_save" \in STRING
  /\ "nmk" \in STRING /\ "nid" \in STRING /\ "force_role" \in STRING
  /\ "avln_hfid" \in STRING /\ "m_hfid" \in STRING /\ "u_hfid" \in STRING
  /\ "direct_afe_tx_idx" \in STRING /\ "spi_clock_idx" \in STRING
  /\ "am_infile" \in STRING /\ "hpav" \in STRING /\ "cp" \in STRING
  /\ "phy" \in STRING /\ "eos" \in STRING
BY NameAssumption DEF Edited, Parts

G1(conf) == Good(Depth - 1, Family(conf))
G2(conf) == Good(Depth - 2, Family(conf))

\* A configuration's values, and one made of them.
LEMMA ConfFacts ==
  ASSUME NEW conf \in Parsed, IsObject(conf)
  PROVE  /\ conf \in JSON /\ conf # NoValue /\ conf \in Family(conf) /\ Inherits(Family(conf))
         /\ IsConf(conf, G1(conf), G2(conf)) /\ Holds(G1(conf), G2(conf))
         /\ \A r : IsConf(r, G1(conf), G2(conf)) => r \in JSON /\ r \in Parsed /\ r \in Family(conf)
<1>1. conf \in JSON /\ conf # NoValue
  BY ParsedObject DEF IsObject, NoValue
<1>2. conf \in Family(conf) /\ Inherits(Family(conf))
  BY <1>1, FamilyFacts
<1>3. QED
  BY <1>1, <1>2, GoodConf, ConfHolds, ConfIsValue DEF G1, G2

\* A scalar that can be written and parsed again is one of them.
LEMMA ScalarInFamily ==
  ASSUME NEW conf \in JSON, NEW v \in Scalars, ~(v.type = "string" /\ v.kind = "control")
  PROVE  /\ v \in G1(conf) /\ v \in G2(conf) /\ v \in Good(Depth - 3, Family(conf))
         /\ v # NoValue /\ ~IsObject(v)
<1>1. v \in Family(conf)
  BY ScalarIsPlain, FamilyFacts
<1>2. Depth - 1 \in 1..Depth /\ Depth - 2 \in 1..Depth /\ Depth - 3 \in 1..Depth
  BY Levels
<1>3. QED
  BY <1>1, <1>2, ScalarIsGood DEF G1, G2

\* A value of the configuration itself, and a value of an object in it.
LEMMA ScalarPut ==
  ASSUME NEW conf \in Parsed, IsObject(conf), NEW name \in STRING, NEW v \in Scalars,
         v.type # "string"
  PROVE  LET r == json_object_set_value(conf, name, v)
         IN r # NoValue =>
               r \in JSON /\ r \in Parsed /\ r \in Family(conf) /\ IsPut(r, conf, name, v)
<1>1. IsConf(conf, G1(conf), G2(conf)) /\ Holds(G1(conf), G2(conf)) /\ conf \in JSON
  BY ConfFacts
<1>2. v \in G1(conf) /\ ~IsObject(v)
  BY <1>1, ScalarInFamily
<1> DEFINE r == json_object_set_value(conf, name, v)
<1>3. r # NoValue => IsConf(r, G1(conf), G2(conf)) /\ IsPut(r, conf, name, v)
  BY <1>1, <1>2, SetValuePuts
<1>4. IsConf(r, G1(conf), G2(conf)) => r \in JSON /\ r \in Parsed /\ r \in Family(conf)
  <2> HIDE DEF r
  <2>1. QED
    BY ConfFacts
<1>5. QED
  BY <1>3, <1>4

\* The same for a scalar in one of its objects.
LEMMA ScalarPutIn ==
  ASSUME NEW conf \in Parsed, IsObject(conf), NEW part \in STRING, NEW name \in STRING,
         NEW v \in Scalars \cup {NoValue}
  PROVE  LET r == SetIn(conf, part, name, v)
         IN r # NoValue =>
               /\ r \in JSON /\ r \in Parsed
               /\ r \in Family(conf) \/ (v.type = "string" /\ v.kind = "control")
               /\ v # NoValue /\ IsPutIn(r, conf, part, name, v)
<1> DEFINE r == SetIn(conf, part, name, v)
           bad == v.type = "string" /\ v.kind = "control"
<1>0. conf \in JSON
  BY ConfFacts
<1>1. CASE v = NoValue \/ ~bad
  <2>1. IsConf(conf, G1(conf), G2(conf)) /\ Holds(G1(conf), G2(conf))
    BY ConfFacts
  <2>2. v \in G2(conf) \cup {NoValue}
    BY <1>0, <1>1, ScalarInFamily
  <2>3. r # NoValue =>
           IsConf(r, G1(conf), G2(conf)) /\ v # NoValue /\ IsPutIn(r, conf, part, name, v)
    BY <2>1, <2>2, SetInPuts
  <2>4. IsConf(r, G1(conf), G2(conf)) => r \in JSON /\ r \in Parsed /\ r \in Family(conf)
    <3> HIDE DEF r
    <3>1. QED
      BY ConfFacts
  <2>5. QED
    BY <2>3, <2>4
<1>2. CASE v # NoValue /\ bad
  <2> DEFINE N1 == Good(Depth - 1, JSON)
             N2 == Good(Depth - 2, JSON)
  <2>1. IsConf(conf, N1, N2) /\ Holds(N1, N2)
    BY <1>0, GoodConf, ConfHolds, TwoInherit
  <2>2. v \in N2 \cup {NoValue}
    BY <1>2, Levels, ScalarIsGood
  <2> HIDE DEF N1, N2
  <2>3. r # NoValue => IsConf(r, N1, N2) /\ v # NoValue /\ IsPutIn(r, conf, part, name, v)
    BY <2>1, <2>2, SetInPuts
  <2>4. IsConf(r, N1, N2) => r \in JSON /\ r \in Parsed
    <3> HIDE DEF r
    <3>1. QED
      BY ConfIsValue, TwoInherit DEF N1, N2
  <2>5. QED
    BY <1>2, <2>3, <2>4
<1>3. QED
  BY <1>1, <1>2

\* The outcome of each edit is the one IsOutcome names.
LEMMA MacEdits ==
  ASSUME NEW conf \in Parsed, IsObject(conf), NEW edit, edit.name = "mac",
         edit.number \in Int
  PROVE  IsOutcome(conf_file_modify_mac(conf, edit.number), conf, edit)
<1> DEFINE v == Number(edit.number)
           r == json_object_set_value(conf, "mac", v)
           f == [mac |-> v]
<1>1. r # NoValue => r \in JSON /\ r \in Parsed /\ r \in Family(conf) /\ IsPut(r, conf, "mac", v)
  <2>1. v \in Scalars /\ v.type # "string" /\ "mac" \in STRING
    BY NumberIsScalar, NamesAreNames
  <2> HIDE DEF v
  <2>2. QED
    BY <2>1, ScalarPut
<1>2. DOMAIN f = {"mac"} /\ f["mac"] = v
  OBVIOUS
<1> HIDE DEF f, r, v
<1>3. r # NoValue => IsWith(r, conf, f)
  BY <1>1, <1>2, PutIsWith
<1>4. IsEdited(r, conf, edit) = IsWith(r, conf, f)
  BY SMT DEF IsEdited, f, v, EditNames
<1>5. IsOutcome(Stored(r), conf, edit)
  BY <1>1, <1>3, <1>4, StoredIsOutcome
<1>6. QED
  BY <1>5, InvalidIsOutcome DEF conf_file_modify_mac, r, v

\* What Truth makes of a word.
LEMMA TruthFacts ==
  ASSUME NEW word, Truth(word) # NoValue
  PROVE  Truth(word) = Boolean(word = "true") /\ Truth(word) \in Scalars
         /\ Truth(word).type # "string"
<1>1. Truth(word) = Boolean(word = "true")
  BY DEF Truth
<1>2. (word = "true") \in BOOLEAN
  OBVIOUS
<1>3. QED
  BY <1>1, <1>2, BooleanIsScalar

\* The same for enable_nvram,
LEMMA EnableNvramEdits ==
  ASSUME NEW conf \in Parsed, IsObject(conf), NEW edit, edit.name = "enable_nvram"
  PROVE  IsOutcome(conf_file_modify_enable_nvram(conf, edit.word), conf, edit)
<1> DEFINE v == Truth(edit.word)
           w == Boolean(edit.word = "true")
           r == json_object_set_value(conf, "use_nvram", v)
           f == [use_nvram |-> w]
<1>1. CASE v # NoValue
  <2>1. v = w /\ v \in Scalars /\ v.type # "string"
    BY <1>1, TruthFacts
  <2>2. r # NoValue => r \in JSON /\ r \in Parsed /\ r \in Family(conf) /\ IsPut(r, conf, "use_nvram", v)
    <3>1. "use_nvram" \in STRING
      BY NamesAreNames
    <3> HIDE DEF v, w
    <3>2. QED
      BY <2>1, <3>1, ScalarPut
  <2>3. DOMAIN f = {"use_nvram"} /\ f["use_nvram"] = w
    OBVIOUS
  <2>4. IsEdited(r, conf, edit) = IsWith(r, conf, f)
    <3> HIDE DEF r, w
    <3>1. QED
      BY SMT DEF IsEdited, EditNames, w
  <2> HIDE DEF f, r, v, w
  <2>5. r # NoValue => IsWith(r, conf, f)
    BY <2>1, <2>2, <2>3, PutIsWith
  <2>6. IsOutcome(Stored(r), conf, edit)
    BY <2>2, <2>4, <2>5, StoredIsOutcome
  <2>7. QED
    BY <1>1, <2>6 DEF conf_file_modify_enable_nvram, r, v
<1>2. CASE v = NoValue
  BY <1>2, InvalidIsOutcome DEF conf_file_modify_enable_nvram
<1>3. QED
  BY <1>1, <1>2

\* for store_key_change,
LEMMA StoreKeyChangeEdits ==
  ASSUME NEW conf \in Parsed, IsObject(conf), NEW edit, edit.name = "store_key_change"
  PROVE  IsOutcome(conf_file_modify_store_key_change(conf, edit.word), conf, edit)
<1> DEFINE v == Truth(edit.word)
           w == Boolean(edit.word = "true")
           r == SetIn(conf, "hpav", "host_set_key_save", v)
           f == [host_set_key_save |-> w]
           good == Truth(edit.word) # NoValue
<1>0. "hpav" \in STRING /\ "host_set_key_save" \in STRING
  BY NamesAreNames
<1>1. CASE good
  <2>1. v \in Scalars \cup {NoValue} /\ (v # NoValue => v = w)
        /\ ((v.type = "string" /\ v.kind = "control")
              => IsText(edit) /\ edit.text.kind = "control")
    BY <1>1, TruthFacts
  <2>2. DOMAIN f = {"host_set_key_save"} /\ f["host_set_key_save"] = w
    OBVIOUS
  <2>3. IsEdited(r, conf, edit) = IsWithIn(r, conf, "hpav", f)
    <3> HIDE DEF r, w, good
    <3>1. QED
      BY SMT DEF IsEdited, EditNames, w
  <2> HIDE DEF f, v, w
  <2>4. r # NoValue =>
           /\ r \in JSON /\ r \in Parsed
           /\ r \in Family(conf) \/ (v.type = "string" /\ v.kind = "control")
           /\ v # NoValue /\ IsPutIn(r, conf, "hpav", "host_set_key_save", v)
    BY <1>0, <2>1, ScalarPutIn
  <2> HIDE DEF r
  <2>5. r # NoValue => IsWithIn(r, conf, "hpav", f)
    BY <2>1, <2>2, <2>4, PutInIsWithIn
  <2>6. IsOutcome(Stored(r), conf, edit)
    <3>1. r # NoValue => IsEdited(r, conf, edit)
      BY <2>3, <2>5
    <3>2. r # NoValue => /\ r \in JSON
                         /\ r \in Parsed
                         /\ r \in Family(conf) \/ (IsText(edit) /\ edit.text.kind = "control")
      BY <2>1, <2>4
    <3>3. edit.name # "psd_cali"
      OBVIOUS
    <3>4. QED
      BY <3>1, <3>2, <3>3, StoredIsOutcome
  <2>7. conf_file_modify_store_key_change(conf, edit.word) = Stored(r)
    BY <1>1 DEF conf_file_modify_store_key_change, r, v
  <2>8. QED
    BY <2>6, <2>7
<1>2. CASE ~good
  <2>1. conf_file_modify_store_key_change(conf, edit.word) = Invalid
    BY <1>2 DEF conf_file_modify_store_key_change
  <2>2. QED
    BY <2>1, InvalidIsOutcome
<1>3. QED
  BY <1>1, <1>2

\* for role,
LEMMA RoleEdits ==
  ASSUME NEW conf \in Parsed, IsObject(conf), NEW edit, edit.name = "role", edit.word \in STRING
  PROVE  IsOutcome(conf_file_modify_role(conf, edit.word), conf, edit)
<1> DEFINE v == String(edit.word, "plain")
           w == String(edit.word, "plain")
           r == SetIn(conf, "cp", "force_role", v)
           f == [force_role |-> w]
           good == edit.word \in {"cco", "sta"}
<1>0. "cp" \in STRING /\ "force_role" \in STRING
  BY NamesAreNames
<1>1. CASE good
  <2>1. v \in Scalars \cup {NoValue} /\ (v # NoValue => v = w)
        /\ ((v.type = "string" /\ v.kind = "control")
              => IsText(edit) /\ edit.text.kind = "control")
    BY StringIsScalar DEF Kinds
  <2>2. DOMAIN f = {"force_role"} /\ f["force_role"] = w
    OBVIOUS
  <2>3. IsEdited(r, conf, edit) = IsWithIn(r, conf, "cp", f)
    <3> HIDE DEF r, w, good
    <3>1. QED
      BY SMT DEF IsEdited, EditNames, w
  <2> HIDE DEF f, v, w
  <2>4. r # NoValue =>
           /\ r \in JSON /\ r \in Parsed
           /\ r \in Family(conf) \/ (v.type = "string" /\ v.kind = "control")
           /\ v # NoValue /\ IsPutIn(r, conf, "cp", "force_role", v)
    BY <1>0, <2>1, ScalarPutIn
  <2> HIDE DEF r
  <2>5. r # NoValue => IsWithIn(r, conf, "cp", f)
    BY <2>1, <2>2, <2>4, PutInIsWithIn
  <2>6. IsOutcome(Stored(r), conf, edit)
    <3>1. r # NoValue => IsEdited(r, conf, edit)
      BY <2>3, <2>5
    <3>2. r # NoValue => /\ r \in JSON
                         /\ r \in Parsed
                         /\ r \in Family(conf) \/ (IsText(edit) /\ edit.text.kind = "control")
      BY <2>1, <2>4
    <3>3. edit.name # "psd_cali"
      OBVIOUS
    <3>4. QED
      BY <3>1, <3>2, <3>3, StoredIsOutcome
  <2>7. conf_file_modify_role(conf, edit.word) = Stored(r)
    BY <1>1 DEF conf_file_modify_role, r, v
  <2>8. QED
    BY <2>6, <2>7
<1>2. CASE ~good
  <2>1. conf_file_modify_role(conf, edit.word) = Invalid
    BY <1>2 DEF conf_file_modify_role
  <2>2. QED
    BY <2>1, InvalidIsOutcome
<1>3. QED
  BY <1>1, <1>2

\* for the three names,
LEMMA HfidEdits ==
  ASSUME NEW conf \in Parsed, IsObject(conf), NEW edit, IsText(edit), edit.text \in Texts, edit.length \in Nat
  PROVE  IsOutcome(conf_file_modify_hfid(conf, edit.name, edit.text, edit.length), conf, edit)
<1> DEFINE v == json_value_init_string(edit.text)
           w == edit.text
           r == SetIn(conf, "hpav", edit.name, v)
           f == [name \in {edit.name} |-> edit.text]
           good == ~(edit.length > 64)
<1>0. "hpav" \in STRING /\ edit.name \in STRING
  BY NamesAreNames DEF IsText
<1>1. CASE good
  <2>1. v \in Scalars \cup {NoValue} /\ (v # NoValue => v = w)
        /\ ((v.type = "string" /\ v.kind = "control")
              => IsText(edit) /\ edit.text.kind = "control")
    BY DEF json_value_init_string, Scalars, Texts, NoValue
  <2>2. DOMAIN f = {edit.name} /\ f[edit.name] = w
    OBVIOUS
  <2>3. IsEdited(r, conf, edit) = IsWithIn(r, conf, "hpav", f)
    <3> HIDE DEF r, w, good
    <3>1. QED
      BY SMT DEF IsEdited, EditNames, w, IsText
  <2> HIDE DEF f, v, w
  <2>4. r # NoValue =>
           /\ r \in JSON /\ r \in Parsed
           /\ r \in Family(conf) \/ (v.type = "string" /\ v.kind = "control")
           /\ v # NoValue /\ IsPutIn(r, conf, "hpav", edit.name, v)
    BY <1>0, <2>1, ScalarPutIn
  <2> HIDE DEF r
  <2>5. r # NoValue => IsWithIn(r, conf, "hpav", f)
    BY <2>1, <2>2, <2>4, PutInIsWithIn
  <2>6. IsOutcome(Stored(r), conf, edit)
    <3>1. r # NoValue => IsEdited(r, conf, edit)
      BY <2>3, <2>5
    <3>2. r # NoValue => /\ r \in JSON
                         /\ r \in Parsed
                         /\ r \in Family(conf) \/ (IsText(edit) /\ edit.text.kind = "control")
      BY <2>1, <2>4
    <3>3. edit.name # "psd_cali"
      BY DEF IsText
    <3>4. QED
      BY <3>1, <3>2, <3>3, StoredIsOutcome
  <2>7. conf_file_modify_hfid(conf, edit.name, edit.text, edit.length) = Stored(r)
    BY <1>1 DEF conf_file_modify_hfid, r, v
  <2>8. QED
    BY <2>6, <2>7
<1>2. CASE ~good
  <2>1. conf_file_modify_hfid(conf, edit.name, edit.text, edit.length) = Invalid
    BY <1>2 DEF conf_file_modify_hfid
  <2>2. QED
    BY <2>1, InvalidIsOutcome
<1>3. QED
  BY <1>1, <1>2

\* The index that conf_file_modify_psd_limit stores.
LEMMA LimitFacts ==
  ASSUME NEW n \in Int, (-50 - n) % 3 = 0
  PROVE  /\ Number(15 - (-50 - n) \div 3) \in Scalars
         /\ 15 - (-50 - n) \div 3 = (n + 95) \div 3
         /\ Number(15 - (-50 - n) \div 3).type = "number"
<1> DEFINE q == (-50 - n) \div 3
<1>1. q \in Int /\ n = -50 - 3 * q
  OBVIOUS
<1> HIDE DEF q
<1>2. (n + 95) \div 3 = 15 - q
  BY <1>1
<1>3. 15 - q \in Int
  BY <1>1
<1>4. QED
  BY <1>2, <1>3, NumberIsScalar DEF q

\* The outcome of psd_limit.
LEMMA PsdLimitEdits ==
  ASSUME NEW conf \in Parsed, IsObject(conf), NEW edit, edit.name = "psd_limit", edit.number \in Int
  PROVE  IsOutcome(conf_file_modify_psd_limit(conf, edit.number), conf, edit)
<1> DEFINE v == Number(15 - (-50 - edit.number) \div 3)
           w == Number((edit.number + 95) \div 3)
           r == SetIn(conf, "phy", "direct_afe_tx_idx", v)
           f == [direct_afe_tx_idx |-> w]
           good == ~(edit.number > -50 \/ edit.number < -95 \/ (-50 - edit.number) % 3 # 0)
<1>0. "phy" \in STRING /\ "direct_afe_tx_idx" \in STRING
  BY NamesAreNames
<1>1. CASE good
  <2>1. v \in Scalars \cup {NoValue} /\ (v # NoValue => v = w)
        /\ ((v.type = "string" /\ v.kind = "control")
              => IsText(edit) /\ edit.text.kind = "control")
    BY <1>1, LimitFacts
  <2>2. DOMAIN f = {"direct_afe_tx_idx"} /\ f["direct_afe_tx_idx"] = w
    OBVIOUS
  <2>3. IsEdited(r, conf, edit) = IsWithIn(r, conf, "phy", f)
    <3> HIDE DEF r, w, good
    <3>1. QED
      BY SMT DEF IsEdited, EditNames, w
  <2> HIDE DEF f, v, w
  <2>4. r # NoValue =>
           /\ r \in JSON /\ r \in Parsed
           /\ r \in Family(conf) \/ (v.type = "string" /\ v.kind = "control")
           /\ v # NoValue /\ IsPutIn(r, conf, "phy", "direct_afe_tx_idx", v)
    BY <1>0, <2>1, ScalarPutIn
  <2> HIDE DEF r
  <2>5. r # NoValue => IsWithIn(r, conf, "phy", f)
    BY <2>1, <2>2, <2>4, PutInIsWithIn
  <2>6. IsOutcome(Stored(r), conf, edit)
    <3>1. r # NoValue => IsEdited(r, conf, edit)
      BY <2>3, <2>5
    <3>2. r # NoValue => /\ r \in JSON
                         /\ r \in Parsed
                         /\ r \in Family(conf) \/ (IsText(edit) /\ edit.text.kind = "control")
      BY <2>1, <2>4
    <3>3. edit.name # "psd_cali"
      OBVIOUS
    <3>4. QED
      BY <3>1, <3>2, <3>3, StoredIsOutcome
  <2>7. conf_file_modify_psd_limit(conf, edit.number) = Stored(r)
    BY <1>1 DEF conf_file_modify_psd_limit, r, v
  <2>8. QED
    BY <2>6, <2>7
<1>2. CASE ~good
  <2>1. conf_file_modify_psd_limit(conf, edit.number) = Invalid
    BY <1>2 DEF conf_file_modify_psd_limit
  <2>2. QED
    BY <2>1, InvalidIsOutcome
<1>3. QED
  BY <1>1, <1>2

\* A number takes the place of an item.
LEMMA ReplaceOne ==
  ASSUME NEW X, NEW s \in Seq(X), NEW i \in Nat, NEW v \in X
  PROVE  LET r == json_array_replace_value(Array(s), i, v)
             t == [s EXCEPT ![i] = v]
         IN r # NoValue => /\ i \in DOMAIN s /\ r = Array(t) /\ t \in Seq(X)
                           /\ DOMAIN t = DOMAIN s
                           /\ \A j \in DOMAIN s : t[j] = IF j = i THEN v ELSE s[j]
<1> DEFINE r == json_array_replace_value(Array(s), i, v)
           t == [s EXCEPT ![i] = v]
<1> SUFFICES ASSUME r # NoValue
             PROVE  /\ i \in DOMAIN s /\ r = Array(t) /\ t \in Seq(X)
                    /\ DOMAIN t = DOMAIN s
                    /\ \A j \in DOMAIN s : t[j] = IF j = i THEN v ELSE s[j]
  OBVIOUS
<1>1. Array(s).items = s /\ Array(s) # NoValue
  BY DEF Array, NoValue
<1>2. i \in DOMAIN s /\ r = Array(t)
  BY <1>1 DEF json_array_replace_value
<1>3. QED
  BY <1>2, Replaced

\* There is no item to replace where there is no array.
LEMMA ReplaceNothing == \A i, v : json_array_replace_value(NoValue, i, v) = NoValue
BY DEF json_array_replace_value

\* One word of the key in its place, and all four.
WithWord(b, key, i) == json_array_replace_value(b, i, Number(key[i]))

IsKeyed(r, a, key, X) ==
    /\ a = Array(a.items) /\ a.items \in Seq(X)
    /\ \A i \in 1..4 : Number(key[i]) \in X
    /\ r = WithWord(WithWord(WithWord(WithWord(a, key, 1), key, 2), key, 3), key, 4)
    /\ r # NoValue

\* The four words of a key take the place of the first four items.
LEMMA ReplaceKey ==
  ASSUME NEW X, NEW a, NEW key, NEW r, IsKeyed(r, a, key, X)
  PROVE  /\ r = Array(r.items) /\ r.items \in Seq(X)
         /\ DOMAIN r.items = DOMAIN a.items
         /\ \A i \in DOMAIN a.items :
               r.items[i] = IF i <= 4 THEN Number(key[i]) ELSE a.items[i]
<1> DEFINE With(b, i) == json_array_replace_value(b, i, Number(key[i]))
           s0 == a.items
           s1 == [s0 EXCEPT ![1] = Number(key[1])]
           s2 == [s1 EXCEPT ![2] = Number(key[2])]
           s3 == [s2 EXCEPT ![3] = Number(key[3])]
           s4 == [s3 EXCEPT ![4] = Number(key[4])]
           IsNext(s, t, i) == /\ t \in Seq(X) /\ DOMAIN t = DOMAIN s
                              /\ \A j \in DOMAIN s : t[j] = IF j = i THEN Number(key[i])
                                                            ELSE s[j]
<1>0. /\ a = Array(a.items) /\ a.items \in Seq(X) /\ r # NoValue
      /\ \A i \in 1..4 : Number(key[i]) \in X
  BY DEF IsKeyed
<1>1. r = With(With(With(With(a, 1), 2), 3), 4)
  BY DEF IsKeyed, WithWord
<1>2. \A i : With(NoValue, i) = NoValue
  BY ReplaceNothing
<1>3. \A i \in 1..4 : Number(key[i]) \in X /\ i \in Nat
  BY <1>0
<1>4. ASSUME NEW s \in Seq(X), NEW i \in 1..4, NEW t, t = [s EXCEPT ![i] = Number(key[i])],
             With(Array(s), i) # NoValue
      PROVE  With(Array(s), i) = Array(t) /\ IsNext(s, t, i)
  <2> DEFINE v == Number(key[i])
  <2>1. v \in X /\ i \in Nat
    BY <1>3
  <2> HIDE DEF v
  <2>2. json_array_replace_value(Array(s), i, v) # NoValue /\ t = [s EXCEPT ![i] = v]
    BY <1>4 DEF v
  <2>3. /\ json_array_replace_value(Array(s), i, v) = Array([s EXCEPT ![i] = v])
        /\ [s EXCEPT ![i] = v] \in Seq(X) /\ DOMAIN [s EXCEPT ![i] = v] = DOMAIN s
        /\ \A j \in DOMAIN s : [s EXCEPT ![i] = v][j] = IF j = i THEN v ELSE s[j]
    BY <2>1, <2>2, ReplaceOne
  <2>4. QED
    BY <2>2, <2>3 DEF v
<1>5. /\ With(a, 1) # NoValue /\ With(With(a, 1), 2) # NoValue
      /\ With(With(With(a, 1), 2), 3) # NoValue
      /\ With(With(With(With(a, 1), 2), 3), 4) # NoValue
  <2> HIDE DEF With
  <2>1. QED
    BY <1>0, <1>1, <1>2
<1>6. With(a, 1) = Array(s1) /\ IsNext(s0, s1, 1)
  <2>1. s0 \in Seq(X) /\ a = Array(s0) /\ 1 \in 1..4
    BY <1>0
  <2> HIDE DEF With, IsNext
  <2>2. QED
    BY <1>4, <1>5, <2>1
<1> HIDE DEF s0, s1
<1>7. With(Array(s1), 2) = Array(s2) /\ IsNext(s1, s2, 2)
  <2>1. s1 \in Seq(X) /\ 2 \in 1..4
    BY <1>6
  <2>2. With(Array(s1), 2) # NoValue
    BY <1>5, <1>6, Zenon
  <2> HIDE DEF With, IsNext
  <2>3. QED
    BY <1>4, <2>1, <2>2
<1> HIDE DEF s2
<1>8. With(Array(s2), 3) = Array(s3) /\ IsNext(s2, s3, 3)
  <2>1. s2 \in Seq(X) /\ 3 \in 1..4
    BY <1>7
  <2>2. With(Array(s2), 3) # NoValue
    BY <1>5, <1>6, <1>7, Zenon
  <2> HIDE DEF With, IsNext
  <2>3. QED
    BY <1>4, <2>1, <2>2
<1> HIDE DEF s3
<1>9. With(Array(s3), 4) = Array(s4) /\ IsNext(s3, s4, 4)
  <2>1. s3 \in Seq(X) /\ 4 \in 1..4
    BY <1>8
  <2>2. With(Array(s3), 4) # NoValue
    BY <1>5, <1>6, <1>7, <1>8, Zenon
  <2> HIDE DEF With, IsNext
  <2>3. QED
    BY <1>4, <2>1, <2>2
<1>10. r = Array(s4)
  <2> HIDE DEF s4, With, IsNext
  <2>1. QED
    BY <1>1, <1>6, <1>7, <1>8, <1>9
<1> HIDE DEF s4, With
<1>11. DOMAIN s4 = DOMAIN s0
       /\ \A j \in DOMAIN s0 : s4[j] = IF j <= 4 THEN Number(key[j]) ELSE s0[j]
  <2>1. \A j \in DOMAIN s0 : j \in Int /\ 1 <= j
    BY <1>0 DEF s0
  <2> DEFINE N(i) == Number(key[i])
  <2>2. /\ \A j \in DOMAIN s0 : s1[j] = IF j = 1 THEN N(1) ELSE s0[j]
        /\ \A j \in DOMAIN s0 : s2[j] = IF j = 2 THEN N(2) ELSE s1[j]
        /\ \A j \in DOMAIN s0 : s3[j] = IF j = 3 THEN N(3) ELSE s2[j]
        /\ \A j \in DOMAIN s0 : s4[j] = IF j = 4 THEN N(4) ELSE s3[j]
        /\ DOMAIN s4 = DOMAIN s0
    BY <1>6, <1>7, <1>8, <1>9
  <2> HIDE DEF N
  <2>3. \A j \in DOMAIN s0 : s4[j] = IF j <= 4 THEN N(j) ELSE s0[j]
    BY <2>1, <2>2
  <2>4. QED
    BY <2>2, <2>3 DEF N
<1>12. s4 \in Seq(X) /\ r.items = s4
  <2>1. r.items = s4
    BY <1>10 DEF Array
  <2>2. QED
    BY <1>9, <2>1
<1>13. QED
  BY <1>10, <1>11, <1>12, Zenon DEF s0

\* The outcome of nmk,
LEMMA NmkEdits ==
  ASSUME NEW conf \in Parsed, IsObject(conf), NEW edit, edit.name = "nmk",
         edit.key \in Seq(Int)
  PROVE  IsOutcome(conf_file_modify_nmk(conf, edit.key), conf, edit)
<1> DEFINE key == edit.key
           array == json_object_get_array(json_object_get_object(conf, "hpav"), "nmk")
           With(b, i) == json_array_replace_value(b, i, Number(key[i]))
           replaced == With(With(With(With(array, 1), 2), 3), 4)
           s == SetIn(conf, "hpav", "nmk", replaced)
           r == SetIn(s, "hpav", "nid", Number(0))
           newkey == Array([i \in DOMAIN array.items |->
                               IF i <= 4 THEN Number(key[i]) ELSE array.items[i]])
           f == [nmk |-> newkey, nid |-> Number(0)]
<1>1. conf_file_modify_nmk(conf, edit.key) =
         IF Len(key) # 4 THEN Invalid
         ELSE IF replaced = NoValue THEN Stored(NoValue) ELSE Stored(r)
  BY Zenon DEF conf_file_modify_nmk
<1>2. ASSUME Len(key) = 4, replaced # NoValue, r # NoValue
      PROVE  r \in JSON /\ r \in Parsed /\ r \in Family(conf) /\ IsEdited(r, conf, edit)
  <2>1. /\ IsConf(conf, G1(conf), G2(conf)) /\ Holds(G1(conf), G2(conf))
        /\ conf \in JSON /\ Inherits(Family(conf))
    BY ConfFacts
  <2>2. array # NoValue
    <3>1. \A i : With(NoValue, i) = NoValue
      BY ReplaceNothing
    <3> HIDE DEF With, array
    <3>2. QED
      BY <1>2, <3>1
  <2>3. array \in G2(conf) /\ array.type = "array"
    <3>1. /\ Part(conf, "hpav") # NoValue
          /\ array = json_object_get_value(Part(conf, "hpav"), "nmk")
          /\ array.type = "array" /\ "nmk" \in Names(Part(conf, "hpav"))
      BY <2>2 DEF json_object_get_array, OfType, Part, json_object_get_value, IsObject, NoValue
    <3> HIDE DEF array
    <3>2. Part(conf, "hpav") \in ObjectOf(G2(conf))
      BY <2>1, <3>1 DEF IsConf
    <3>3. QED
      BY <3>1, <3>2, NamesAreStrings
  <2> DEFINE X == Good(Depth - 3, Family(conf))
  <2>4. array = Array(array.items) /\ array.items \in Seq(X)
    <3>1. array = Array(array.items) /\ array.items \in Seq(Good((Depth - 2) - 1, Family(conf)))
      <4> HIDE DEF array
      <4>1. QED
        BY <2>1, <2>3, Levels, ArrayIsGood DEF G2
    <3>2. QED
      BY <3>1, Levels
  <2>5. \A n \in Int : Number(n) \in X /\ Number(n) \in G2(conf)
    <3>1. \A n \in Int : Number(n) \in Scalars /\ Number(n).type # "string"
      BY NumberIsScalar
    <3>2. QED
      BY <2>1, <3>1, ScalarInFamily
  <2>6. \A i \in 1..4 : Number(key[i]) \in X
    <3>1. \A i \in 1..4 : key[i] \in Int
      BY <1>2
    <3>2. QED
      BY <2>5, <3>1
  <2>7. /\ replaced = Array(replaced.items) /\ replaced.items \in Seq(X) /\ replaced = newkey
    <3>1. replaced = WithWord(WithWord(WithWord(WithWord(array, key, 1), key, 2), key, 3), key, 4)
      BY DEF WithWord
    <3> HIDE DEF replaced, array, X, key
    <3>2. /\ replaced = Array(replaced.items) /\ replaced.items \in Seq(X)
          /\ DOMAIN replaced.items = DOMAIN array.items
          /\ \A i \in DOMAIN array.items :
                replaced.items[i] = IF i <= 4 THEN Number(key[i]) ELSE array.items[i]
      <4>1. IsKeyed(replaced, array, key, X)
        BY <1>2, <2>4, <2>6, <3>1, Zenon DEF IsKeyed
      <4>2. QED
        BY <4>1, ReplaceKey
    <3>3. replaced.items = [i \in DOMAIN replaced.items |-> replaced.items[i]]
      BY <3>2
    <3>4. replaced.items = [i \in DOMAIN array.items |->
                               IF i <= 4 THEN Number(key[i]) ELSE array.items[i]]
      BY <3>2, <3>3
    <3>5. QED
      BY <3>2, <3>4, Zenon DEF newkey
  <2> HIDE DEF replaced, array, newkey
  <2>8. replaced \in G2(conf)
    <3>1. replaced.items \in Seq(Good((Depth - 2) - 1, Family(conf)))
      BY <2>7, Levels
    <3>2. QED
      BY <2>1, <2>7, <3>1, Levels, ArrayIsGood DEF G2
  <2>9. s # NoValue
    <3>1. SetIn(NoValue, "hpav", "nid", Number(0)) = NoValue
      <4>1. ~IsObject(NoValue)
        BY DEF IsObject, NoValue
      <4>2. json_object_get_value(NoValue, "hpav") = NoValue
        BY <4>1, Zenon DEF json_object_get_value
      <4>3. json_object_get_object(NoValue, "hpav") = NoValue
        BY <4>2, Zenon DEF json_object_get_object, OfType
      <4>4. json_object_set_value(NoValue, "nid", Number(0)) = NoValue
        BY <4>1, Zenon DEF json_object_set_value
      <4>5. QED
        BY <4>3, <4>4, Zenon DEF SetIn
    <3> HIDE DEF s
    <3>2. QED
      BY <1>2, <3>1
  <2>10. IsConf(s, G1(conf), G2(conf)) /\ IsPutIn(s, conf, "hpav", "nmk", replaced)
    BY <2>1, <2>8, <2>9, NamesAreNames, SetInPuts
  <2> HIDE DEF s
  <2>11. Number(0) \in G2(conf) \cup {NoValue}
    BY <2>5
  <2>12. IsConf(r, G1(conf), G2(conf)) /\ IsPutIn(r, s, "hpav", "nid", Number(0))
    BY <1>2, <2>1, <2>10, <2>11, NamesAreNames, SetInPuts
  <2>13. DOMAIN f = {"nmk", "nid"} /\ f["nmk"] = newkey /\ f["nid"] = Number(0)
    OBVIOUS
  <2> HIDE DEF f, r
  <2>14. IsWithIn(r, conf, "hpav", f)
    BY <2>7, <2>10, <2>12, <2>13, PutTwice
  <2>15. IsEdited(r, conf, edit) = IsWithIn(r, conf, "hpav", f)
    BY SMT DEF IsEdited, EditNames, f, newkey, array
  <2>16. r \in JSON /\ r \in Parsed /\ r \in Family(conf)
    BY <2>12, ConfFacts
  <2>17. QED
    BY <2>14, <2>15, <2>16
<1> HIDE DEF r, replaced
<1>3. IsOutcome(Stored(NoValue), conf, edit)
  BY StoredIsOutcome
<1>4. Len(key) = 4 /\ replaced # NoValue => IsOutcome(Stored(r), conf, edit)
  BY <1>2, StoredIsOutcome
<1>5. QED
  BY <1>1, <1>3, <1>4, InvalidIsOutcome

\* of spi_slave_clk,
LEMMA SpiSlaveClkEdits ==
  ASSUME NEW conf \in Parsed, IsObject(conf), NEW edit, edit.name = "spi_slave_clk",
         edit.number \in Int
  PROVE  IsOutcome(conf_file_modify_spi_slave_clk(conf, edit.number), conf, edit)
<1> DEFINE new == /\ json_object_get_number(conf, "version") = 4
                  /\ json_object_get_number(conf, "sub_version") > 0
           v == Number(edit.number)
           r == SetIn(conf, "eos", "spi_clock_idx", v)
           f == [spi_clock_idx |-> v]
<1>1. conf_file_modify_spi_slave_clk(conf, edit.number) \in
         {Invalid, IF new THEN Stored(r) ELSE Outcome(0, conf)}
  BY DEF conf_file_modify_spi_slave_clk
<1>2. CASE new
  <2>1. v \in Scalars \cup {NoValue} /\ v.type # "string"
    BY NumberIsScalar
  <2>2. DOMAIN f = {"spi_clock_idx"} /\ f["spi_clock_idx"] = v
    OBVIOUS
  <2>3. IsEdited(r, conf, edit) = IsWithIn(r, conf, "eos", f)
    <3> HIDE DEF r
    <3>1. QED
      BY <1>2, SMT DEF IsEdited, EditNames
  <2> HIDE DEF v, f
  <2>4. r # NoValue => r \in JSON /\ r \in Parsed /\ r \in Family(conf) /\ IsPutIn(r, conf, "eos", "spi_clock_idx", v)
    BY <2>1, NamesAreNames, ScalarPutIn
  <2> HIDE DEF r
  <2>5. r # NoValue => IsWithIn(r, conf, "eos", f)
    BY <2>2, <2>4, PutInIsWithIn
  <2>6. IsOutcome(Stored(r), conf, edit)
    BY <2>3, <2>4, <2>5, StoredIsOutcome
  <2>7. QED
    BY <1>1, <1>2, <2>6, InvalidIsOutcome
<1>3. CASE ~new
  <2>1. IsEdited(conf, conf, edit)
    BY <1>3, SMT DEF IsEdited, EditNames
  <2>2. conf \in JSON /\ conf # NoValue /\ conf \in Family(conf)
    BY ConfFacts
  <2>3. IsOutcome(Outcome(0, conf), conf, edit)
    BY <2>1, <2>2 DEF IsOutcome, Outcome
  <2>4. QED
    BY <1>1, <1>3, <2>3, InvalidIsOutcome
<1>4. QED
  BY <1>2, <1>3

\* The items of am_infile, and what they are as numbers.
LEMMA AmFacts ==
  ASSUME NEW conf \in Parsed, IsObject(conf)
  PROVE  AmInfile(conf) \in Seq(Parsed) /\ AmNumbers(conf) \in Seq(Int)
         /\ DOMAIN AmNumbers(conf) = DOMAIN AmInfile(conf)
<1>1. AmInfile(conf) \in Seq(Parsed)
  <2> DEFINE a == Am(conf)
  <2>1. AmInfile(conf) = IF a = NoValue THEN <<>> ELSE a.items
    BY DEF AmInfile, Am
  <2>2. a # NoValue => a \in Parsed /\ a.type = "array"
    <3>1. a # NoValue => a.type = "array" /\ a = json_object_get_value(Part(conf, "phy"), "am_infile")
      BY DEF Am, json_object_get_array, OfType, Part
    <3>2. Part(conf, "phy") \in Parsed
      BY ParsedInside DEF Part, json_object_get_object, OfType, Parsed
    <3> HIDE DEF a
    <3>3. QED
      BY <3>1, <3>2, ParsedInside
  <2> HIDE DEF a
  <2>3. a # NoValue => a.items \in Seq(Inner)
    BY <2>2, JsonCases DEF Parsed
  <2>4. a # NoValue => \A i \in DOMAIN a.items : a.items[i] \in Parsed
    BY <2>2, ParsedInside
  <2> DEFINE s == a.items
  <2>5. a # NoValue => s \in Seq(Inner) /\ \A i \in DOMAIN s : s[i] \in Parsed
    BY <2>3, <2>4, Zenon
  <2> HIDE DEF s
  <2>6. a # NoValue => a.items \in Seq(Parsed)
    <3>1. a # NoValue => s \in Seq(Parsed)
      BY <2>5, SeqOfMembers, Zenon
    <3>2. QED
      BY <3>1, Zenon DEF s
  <2>7. <<>> \in Seq(Parsed)
    OBVIOUS
  <2>8. QED
    BY <2>1, <2>6, <2>7
<1>2. \A v \in Parsed : json_value_get_number(v) \in Int
  <2> SUFFICES ASSUME NEW v \in Parsed, v.type = "number" PROVE v.number \in Int
    BY DEF json_value_get_number
  <2>1. v \in JSON
    BY DEF Parsed, NoValue
  <2>2. v \in Scalars
    BY <2>1, JsonCases
  <2>3. QED
    BY <2>2 DEF Scalars, Texts
<1> DEFINE s == AmInfile(conf)
           t == AmNumbers(conf)
<1>3. \A m \in DOMAIN s : json_value_get_number(s[m]) \in Int
  <2> HIDE DEF s
  <2>1. QED
    BY <1>1, <1>2, MemberOfSeq DEF s
<1>4. t = [m \in DOMAIN s |-> json_value_get_number(s[m])]
  BY DEF AmNumbers
<1>5. DOMAIN s = 1..Len(s) /\ Len(s) \in Nat
  <2> HIDE DEF s
  <2>1. s \in Seq(Parsed)
    BY <1>1 DEF s
  <2>2. QED
    BY <2>1
<1> HIDE DEF s, t
<1>6. t \in [1..Len(s) -> Int]
  BY <1>3, <1>4, <1>5
<1>7. t \in Seq(Int) /\ DOMAIN t = DOMAIN s
  BY <1>5, <1>6
<1>8. QED
  BY <1>1, <1>7 DEF s, t

\* and of psd_cali, in every outcome it can have.
LEMMA PsdCaliEdits ==
  ASSUME NEW conf \in Parsed, IsObject(conf), NEW edit, edit.name = "psd_cali",
         edit.lines \in Seq(Lines), NEW before \in Garbage, NEW machine
  PROVE  IsOutcome(conf_file_modify_psd_cali(conf, edit.lines, before, machine), conf, edit)
<1> DEFINE old == AmNumbers(conf)
           new == Calibrated(old, edit.lines, before, machine)
           v == Array([m \in DOMAIN new |-> Number(new[m])])
           r == SetIn(conf, "phy", "am_infile", v)
           f == [am_infile |-> Am(r)]
           result == conf_file_modify_psd_cali(conf, edit.lines, before, machine)
<1>1. result = IF AmInfile(conf) = <<>> THEN Outcome(0, conf) ELSE Stored(r)
  BY Zenon DEF conf_file_modify_psd_cali
<1>0. conf \in JSON /\ Inherits(Family(conf))
  BY ConfFacts
<1>2. old \in Seq(Int) /\ before \in Nat
  BY AmFacts, CalibrationAssumption
<1>3. new \in Seq(Int)
  <2> HIDE DEF old
  <2>1. QED
    BY <1>2, CalibratedType
<1>4. KeepsNotches(new, old, edit.lines)
  <2> HIDE DEF old
  <2>1. QED
    BY <1>2, CalibratedKeepsNotches
<1> HIDE DEF new, old
<1>5. v \in G2(conf) /\ v.type = "array" /\ v.items = [m \in DOMAIN new |-> Number(new[m])]
  <2> DEFINE s == [m \in DOMAIN new |-> Number(new[m])]
             X == Good(Depth - 3, Family(conf))
  <2>1. \A n \in Int : Number(n) \in X
    <3>1. \A n \in Int : Number(n) \in Scalars /\ Number(n).type # "string"
      BY NumberIsScalar
    <3>2. QED
      BY <1>0, <3>1, ScalarInFamily
  <2>2. DOMAIN new = 1..Len(new) /\ Len(new) \in Nat /\ \A m \in DOMAIN new : new[m] \in Int
    BY <1>3
  <2> HIDE DEF X
  <2>3. s \in [1..Len(new) -> X]
    BY <2>1, <2>2
  <2>4. s \in Seq(X)
    BY <2>2, <2>3
  <2> HIDE DEF s
  <2>5. v = Array(s)
    BY DEF s
  <2>6. v = Array(v.items) /\ v.items = s /\ v.type = "array"
    BY <2>5 DEF Array
  <2>7. v.items \in Seq(Good((Depth - 2) - 1, Family(conf)))
    BY <2>4, <2>6, Levels DEF X
  <2> HIDE DEF v
  <2>8. v \in G2(conf)
    BY <1>0, <2>6, <2>7, Levels, ArrayIsGood DEF G2
  <2>9. QED
    BY <2>6, <2>8 DEF s
<1>6. IsConf(conf, G1(conf), G2(conf)) /\ Holds(G1(conf), G2(conf))
  BY ConfFacts
<1> HIDE DEF v
<1>7. r # NoValue => IsConf(r, G1(conf), G2(conf)) /\ IsPutIn(r, conf, "phy", "am_infile", v)
  BY <1>5, <1>6, NamesAreNames, SetInPuts
<1>8. DOMAIN f = {"am_infile"} /\ f["am_infile"] = Am(r)
  OBVIOUS
<1> HIDE DEF r, f
<1>9. ASSUME r # NoValue
      PROVE  /\ r \in JSON /\ r \in Parsed /\ r \in Family(conf) /\ IsWithIn(r, conf, "phy", f)
             /\ AmNumbers(r) = new
  <2>1. Part(r, "phy") # NoValue /\ json_object_get_value(Part(r, "phy"), "am_infile") = v
    BY <1>7, <1>9 DEF IsPutIn, IsPut
  <2>2. Am(r) = v
    BY <1>5, <2>1 DEF Am, Part, json_object_get_array, OfType
  <2>3. v # NoValue
    BY <1>5 DEF NoValue
  <2>4. AmInfile(r) = v.items
    BY <2>2, <2>3 DEF AmInfile, Am
  <2>5. AmNumbers(r) = new
    <3>1. AmNumbers(r) = [m \in DOMAIN v.items |-> json_value_get_number(v.items[m])]
      BY <2>4 DEF AmNumbers
    <3>2. DOMAIN v.items = DOMAIN new
          /\ \A m \in DOMAIN new : v.items[m] = Number(new[m]) /\ new[m] \in Int
      BY <1>3, <1>5
    <3>3. \A m \in DOMAIN new : json_value_get_number(v.items[m]) = new[m]
      BY <3>2, NumberIsScalar DEF json_value_get_number
    <3>4. new = [m \in DOMAIN new |-> new[m]]
      BY <1>3
    <3>5. QED
      BY <3>1, <3>2, <3>3, <3>4
  <2>6. IsWithIn(r, conf, "phy", f)
    BY <1>7, <1>8, <1>9, <2>2, PutInIsWithIn
  <2>7. r \in JSON /\ r \in Parsed /\ r \in Family(conf)
    BY <1>7, <1>9, ConfFacts
  <2>8. QED
    BY <2>5, <2>6, <2>7
<1>10. IsOutcome(Stored(r), conf, edit)
  <2>1. Stored(r).result = 0 =>
           /\ Stored(r).value = r /\ r # NoValue
           /\ r \in JSON /\ r \in Parsed /\ r \in Family(conf)
           /\ IsWithIn(r, conf, "phy", [am_infile |-> Am(r)])
           /\ KeepsNotches(AmNumbers(r), AmNumbers(conf), edit.lines)
    BY <1>4, <1>9, StoredFacts DEF f, old
  <2>2. Stored(r).result \in {0, -2}
    BY StoredFacts
  <2>3. QED
    BY <2>1, <2>2 DEF IsOutcome
<1>11. IsOutcome(Outcome(0, conf), conf, edit)
  <2>1. conf \in JSON /\ conf # NoValue /\ conf \in Family(conf)
    BY ConfFacts
  <2>2. QED
    BY <2>1 DEF IsOutcome, Outcome
<1>12. QED
  BY <1>1, <1>10, <1>11

\* The arguments of an edit, by its name.
LEMMA EditKinds ==
  ASSUME NEW edit \in EveryEdit
  PROVE  /\ edit.name \in {"mac", "psd_limit", "spi_slave_clk"} => edit.number \in Int
         /\ edit.name \in {"enable_nvram", "store_key_change", "role"} => edit.word \in STRING
         /\ IsText(edit) => edit.text \in Texts /\ edit.length \in Nat
         /\ edit.name = "nmk" => edit.key \in Seq(Int)
         /\ edit.name = "psd_cali" => edit.lines \in Seq(Lines)
BY DEF EveryEdit, EditNames, IsText

\* Every outcome of every edit, of every configuration that can be read.
LEMMA AppliedOutcome ==
  ASSUME NEW conf \in Parsed, IsObject(conf), NEW edit \in EveryEdit, NEW o \in Applied(conf, edit)
  PROVE  IsOutcome(o, conf, edit)
<1>1. CASE edit.name = "mac"
  <2>1. o = conf_file_modify_mac(conf, edit.number)
    BY <1>1 DEF Applied
  <2>2. QED
    BY <1>1, <2>1, EditKinds, MacEdits
<1>2. CASE edit.name = "enable_nvram"
  <2>1. o = conf_file_modify_enable_nvram(conf, edit.word)
    BY <1>2 DEF Applied
  <2>2. QED
    BY <1>2, <2>1, EnableNvramEdits
<1>3. CASE edit.name = "store_key_change"
  <2>1. o = conf_file_modify_store_key_change(conf, edit.word)
    BY <1>3 DEF Applied
  <2>2. QED
    BY <1>3, <2>1, StoreKeyChangeEdits
<1>4. CASE edit.name = "nmk"
  <2>1. o = conf_file_modify_nmk(conf, edit.key)
    BY <1>4 DEF Applied
  <2>2. QED
    BY <1>4, <2>1, EditKinds, NmkEdits
<1>5. CASE edit.name = "role"
  <2>1. o = conf_file_modify_role(conf, edit.word)
    BY <1>5 DEF Applied
  <2>2. QED
    BY <1>5, <2>1, EditKinds, RoleEdits
<1>6. CASE IsText(edit)
  <2>1. o = conf_file_modify_hfid(conf, edit.name, edit.text, edit.length)
    BY <1>6 DEF Applied, IsText
  <2>2. QED
    BY <1>6, <2>1, EditKinds, HfidEdits
<1>7. CASE edit.name = "psd_limit"
  <2>1. o = conf_file_modify_psd_limit(conf, edit.number)
    BY <1>7 DEF Applied
  <2>2. QED
    BY <1>7, <2>1, EditKinds, PsdLimitEdits
<1>8. CASE edit.name = "psd_cali"
  <2>1. \/ o = Outcome(-3, NoValue)
        \/ \E before \in Garbage, machine \in Machines :
              o = conf_file_modify_psd_cali(conf, edit.lines, before, machine)
    BY <1>8 DEF Applied
  <2>2. IsOutcome(Outcome(-3, NoValue), conf, edit)
    BY DEF IsOutcome, Outcome
  <2>3. QED
    BY <1>8, <2>1, <2>2, EditKinds, PsdCaliEdits
<1>9. CASE edit.name = "spi_slave_clk"
  <2>1. o = conf_file_modify_spi_slave_clk(conf, edit.number)
    BY <1>9 DEF Applied
  <2>2. QED
    BY <1>9, <2>1, EditKinds, SpiSlaveClkEdits
<1>10. CASE edit.name = "none"
  <2>1. o = Outcome(-4, NoValue)
    BY <1>10 DEF Applied
  <2>2. QED
    BY <2>1 DEF IsOutcome, Outcome
<1>11. edit.name \in {"mac", "psd_limit", "spi_slave_clk", "enable_nvram", "store_key_change",
                      "role", "nmk", "psd_cali", "none"} \/ IsText(edit)
  BY DEF EveryEdit, EditNames, IsText
<1>12. QED
  BY <1>1, <1>2, <1>3, <1>4, <1>5, <1>6, <1>7, <1>8, <1>9, <1>10, <1>11

-----------------------------------------------------------------------------
(* The invariant.                                                          *)

\* A command that is not a read has no temporary files.
TempsInv == pc \in {"idle", "delete", "write", "undefined"} => tmp = NoTemps

\* What a read knows of the device: its files, unless an answer came late.
FetchInv ==
    /\ pc \in {"temps", "save inka", "save update", "merge"} => job.name = "read"
    /\ pc \in {"temps", "save inka", "save update"} => fault \in {"none", "late"}
    /\ pc \in {"save update", "merge"} => tmp.inka \in {inka, Garbled}
    /\ (pc = "merge" /\ exists) =>
          \/ fault = "late"
          \/ fault = "none" /\ tmp.update = update /\ update # Absent
    /\ (pc = "merge" /\ ~exists) => update = Absent \/ fault = "unseen"

\* What a write has done to the device.
WriteInv ==
    /\ pc \in {"delete", "write"} => job.name = "write"
    /\ pc = "delete" => fault = "none"
    /\ (pc = "write" /\ fault = "none") => update = Absent
    /\ written # Absent => inka = written /\ update = Absent

\* The inductive invariant.
Inv == TypeOK /\ TempsInv /\ FetchInv /\ WriteInv

\* What json_parse_file makes of a file.
LEMMA FileFacts ==
  /\ Absent \notin JSON /\ Garbled \notin JSON /\ Absent # Garbled
  /\ ~Readable(Absent) /\ ~Readable(Garbled)
  /\ \A f : /\ json_parse_file(f) \in Parsed
            /\ Readable(f) => /\ json_parse_file(f) = Content(f) /\ Content(f) \in JSON
                              /\ ~Escapes(f) => Content(f) \in Plain
  /\ \A v \in JSON : Content(v) = v
  /\ \A v \in Parsed : v \in Plain => Readable(v)
<1>1. Absent \notin JSON
  <2> SUFFICES ASSUME Absent \in JSON PROVE FALSE
    OBVIOUS
  <2>1. Absent.type \in {"number", "boolean", "string", "array", "object"}
    BY JsonCases
  <2>2. QED
    BY <2>1 DEF Absent
<1>2. Garbled \notin JSON
  <2> SUFFICES ASSUME Garbled \in JSON PROVE FALSE
    OBVIOUS
  <2>1. Garbled.type \in {"number", "boolean", "string", "array", "object"}
    BY JsonCases
  <2>2. QED
    BY <2>1 DEF Garbled
<1>3. Absent # Garbled /\ Content(Absent) = Absent /\ Content(Garbled) = Garbled
  <2>1. Absent.type = "absent" /\ Garbled.type = "garbled"
    BY DEF Absent, Garbled
  <2>2. QED
    BY <2>1 DEF Content
<1>4. ASSUME NEW f
      PROVE  /\ json_parse_file(f) \in Parsed
             /\ Readable(f) => /\ json_parse_file(f) = Content(f) /\ Content(f) \in JSON
                               /\ ~Escapes(f) => Content(f) \in Plain
  <2> DEFINE value == Content(f)
             takes == /\ value \in JSON /\ Parses[value]
                      /\ f.type = "escaped" \/ Printable[value]
  <2>1. json_parse_file(f) = IF takes THEN value ELSE NoValue
    BY Zenon DEF json_parse_file
  <2>2. takes => value \in Parsed /\ (~Escapes(f) => value \in Plain)
    BY DEF Parsed, Plain, Escapes, Content
  <2>3. NoValue \in Parsed
    BY DEF Parsed
  <2>4. Readable(f) => takes
    BY <2>1 DEF Readable
  <2>5. takes => value \in JSON
    OBVIOUS
  <2> HIDE DEF takes
  <2>6. QED
    BY <2>1, <2>2, <2>3, <2>4, <2>5
<1>5. \A v \in JSON : v.type # "escaped" /\ Content(v) = v
  BY JsonCases DEF Content
<1>6. ASSUME NEW v \in Parsed, v \in Plain PROVE Readable(v)
  <2>1. v \in JSON /\ Parses[v] /\ Printable[v]
    BY <1>6, ParsedInside DEF Plain
  <2>2. json_parse_file(v) = v
    BY <1>5, <2>1 DEF json_parse_file
  <2>3. QED
    BY <2>1, <2>2, NoValueIsNoJson DEF Readable
<1>7. ~Readable(Absent) /\ ~Readable(Garbled)
  BY <1>1, <1>2, <1>3, <1>4
<1>8. QED
  BY <1>1, <1>2, <1>3, <1>4, <1>5, <1>6, <1>7

\* What json_serialize_to_file leaves in the user's file.
LEMMA SerialisedFacts ==
  ASSUME NEW value, NEW s \in Serialised(value)
  PROVE  /\ s.went \in {"none", "disk", "failed"}
         /\ s.went = "none" => value # NoValue /\ s.file = value
         /\ s.went = "failed" => value = NoValue /\ s.file = host
         /\ s.went = "disk" => s.file \in {host, Garbled}
BY DEF Serialised

\* A merge of what can be written and parsed again is such a value.
LEMMA MergeIsPlain ==
  ASSUME NEW a \in Parsed, NEW b \in Parsed, a \in Plain, b \in Plain
  PROVE  json_value_merge[<<a, b>>].value \in Plain
<1>1. IsMerge(json_value_merge)
  BY MergeDef DEF IsMerge
<1>2. a \in Good(Depth, Plain) /\ b \in Good(Depth, Plain) /\ Depth \in 0..Depth
  BY GoodFacts, TwoInherit, Levels DEF Inherits
<1>3. MergeIn(json_value_merge, <<a, b>>) \in OutcomesOf(Good(Depth, Plain))
  BY <1>1, <1>2, TwoInherit, MergeKeepsLevels
<1>4. json_value_merge[<<a, b>>] = MergeIn(json_value_merge, <<a, b>>)
  <2>1. <<a, b>> \in Pairs
    BY DEF Pairs
  <2>2. QED
    BY <2>1, MergeDef
<1>5. QED
  BY <1>3, <1>4 DEF OutcomesOf, Good

\* A merge that does not fail had two files that could be read.
LEMMA MergeFacts ==
  Merge.ok => /\ Readable(tmp.inka) /\ Readable(tmp.update)
              /\ Merge.value \in JSON /\ Merge.value \in Parsed /\ Merge.value # NoValue
              /\ (~Escapes(tmp.inka) /\ ~Escapes(tmp.update)) => Merge.value \in Plain
              /\ Merge.whole =>
                    IsOverlay[<<Merge.value, Content(tmp.inka), Content(tmp.update)>>]
<1> DEFINE a == json_parse_file(tmp.inka)
           b == json_parse_file(tmp.update)
           r == json_value_merge[<<a, b>>]
<1>1. a \in Parsed /\ b \in Parsed
  BY FileFacts
<1>2. Merge = r
  BY DEF Merge
<1>3. r.ok => /\ IsObject(a) /\ IsObject(b)
              /\ r.value \in JSON /\ r.value \in Parsed /\ IsObject(r.value)
              /\ r.whole => IsOverlay[<<r.value, a, b>>]
  <2> HIDE DEF a, b
  <2>1. QED
    BY <1>1, MergeIsOverlay
<1>4. \A v : IsObject(v) => v # NoValue
  BY DEF IsObject, NoValue
<1>5. IsObject(a) => /\ a = Content(tmp.inka) /\ Readable(tmp.inka)
                     /\ ~Escapes(tmp.inka) => a \in Plain
  BY <1>4, FileFacts DEF Readable
<1>6. IsObject(b) => /\ b = Content(tmp.update) /\ Readable(tmp.update)
                     /\ ~Escapes(tmp.update) => b \in Plain
  BY <1>4, FileFacts DEF Readable
<1>7. a \in Plain /\ b \in Plain => r.value \in Plain
  <2> HIDE DEF a, b
  <2>1. QED
    BY <1>1, MergeIsPlain
<1> HIDE DEF a, b, r
<1>8. QED
  BY <1>2, <1>3, <1>4, <1>5, <1>6, <1>7

\* A modification that has not been refused.
LEMMA ModifyOutcome ==
  ASSUME Modify
  PROVE  /\ Readable(host) /\ Content(host) \in JSON
         /\ ~Escapes(host) => Content(host) \in Plain
         /\ UNCHANGED <<device, tmp, pc, written>> /\ pc = "idle"
         /\ commands' = commands + 1 /\ commands < MaxCommands /\ ~exists' /\ ~late'
         /\ exists' = FALSE /\ late' = FALSE
         /\ \E edit \in EveryEdit :
               /\ job' = [name |-> "modify", edit |-> edit]
               /\ \E o : /\ IsOutcome(o, Content(host), edit)
                         /\ rv' = Returned(edit, o.result)
                         /\ o.result # 0 => host' = host /\ fault' = "none"
                         /\ o.result = 0 =>
                               \/ host' = o.value /\ fault' = "none"
                               \/ host' \in {host, Garbled} /\ fault' = "disk"
<1> DEFINE conf == json_parse_file(host)
<1>1. Usable(conf)
  BY DEF Modify, Refuses
<1>2. IsObject(conf) /\ conf # NoValue
  BY <1>1 DEF Usable, IsObject, NoValue
<1>3. /\ Readable(host) /\ conf = Content(host) /\ conf \in Parsed
      /\ ~Escapes(host) => conf \in Plain
  BY <1>2, FileFacts DEF Readable
<1>4. PICK edit \in Edits :
         /\ job' = [name |-> "modify", edit |-> edit]
         /\ \E o \in Applied(conf, edit) :
               /\ rv' = Returned(edit, o.result)
               /\ IF o.result = 0
                  THEN \E s \in Serialised(o.value) : host' = s.file /\ fault' = s.went
                  ELSE host' = host /\ fault' = "none"
  BY DEF Modify
<1>5. edit \in EveryEdit
  BY ConfFileAssumption
<1>6. PICK o \in Applied(conf, edit) :
               /\ rv' = Returned(edit, o.result)
               /\ IF o.result = 0
                  THEN \E s \in Serialised(o.value) : host' = s.file /\ fault' = s.went
                  ELSE host' = host /\ fault' = "none"
  BY <1>4
<1>7. IsOutcome(o, Content(host), edit)
  <2> HIDE DEF conf
  <2>1. IsOutcome(o, conf, edit)
    BY <1>2, <1>3, <1>5, AppliedOutcome
  <2>2. QED
    BY <1>3, <2>1
<1>8. o.result = 0 => \/ host' = o.value /\ fault' = "none"
                      \/ host' \in {host, Garbled} /\ fault' = "disk"
  <2> SUFFICES ASSUME o.result = 0
               PROVE  \/ host' = o.value /\ fault' = "none"
                      \/ host' \in {host, Garbled} /\ fault' = "disk"
    OBVIOUS
  <2>1. PICK s \in Serialised(o.value) : host' = s.file /\ fault' = s.went
    BY <1>6
  <2>2. o.value # NoValue
    BY <1>7 DEF IsOutcome
  <2>3. QED
    BY <2>1, <2>2, SerialisedFacts
<1>9. \E p : /\ IsOutcome(p, Content(host), edit)
             /\ rv' = Returned(edit, p.result)
             /\ p.result # 0 => host' = host /\ fault' = "none"
             /\ p.result = 0 =>
                   \/ host' = p.value /\ fault' = "none"
                   \/ host' \in {host, Garbled} /\ fault' = "disk"
  BY <1>6, <1>7, <1>8
<1>10. /\ UNCHANGED <<device, tmp, pc, written>> /\ pc = "idle"
       /\ commands' = commands + 1 /\ commands < MaxCommands
       /\ exists' = FALSE /\ late' = FALSE
  BY DEF Modify
<1>11. Content(host) \in JSON
  BY <1>3, FileFacts
<1>12. QED
  BY <1>3, <1>4, <1>5, <1>9, <1>10, <1>11

-----------------------------------------------------------------------------
(* Every step keeps the invariant.                                         *)

\* TypeOK, in two parts.
FilesOK ==
    /\ {host, inka, update, tmp.inka, tmp.update} \subseteq Files
    /\ tmp = [inka |-> tmp.inka, update |-> tmp.update]

RestOK ==
    /\ pc \in {"idle", "temps", "save inka", "save update", "merge", "delete",
               "write", "undefined"}
    /\ job.name \in {"none", "read", "write", "modify", "parse"}
    /\ exists \in BOOLEAN /\ late \in BOOLEAN
    /\ rv \in {0, -1, EXIT_USAGE, -2, -3}
    /\ fault \in {"none", "late", "unseen", "kept", "part", "disk"}
    /\ commands \in 0..MaxCommands

\* The two are TypeOK.
LEMMA TypeParts == TypeOK <=> FilesOK /\ RestOK
BY DEF TypeOK, FilesOK, RestOK

\* The initial states satisfy the invariant.
LEMMA InitInv == Init => Inv
<1> SUFFICES ASSUME Init PROVE Inv
  OBVIOUS
<1>1. TypeOK
  <2>1. host \in Files /\ inka \in Files /\ update \in Files
    BY ConfFileAssumption DEF Init, Files
  <2>2. /\ tmp.inka \in Files /\ tmp.update \in Files
        /\ tmp = [inka |-> tmp.inka, update |-> tmp.update]
    BY DEF Init, NoTemps, Files
  <2>3. job.name = "none" /\ commands \in 0..MaxCommands
    BY ConfFileAssumption DEF Init, Idle
  <2>4. QED
    BY <2>1, <2>2, <2>3 DEF Init, TypeOK
<1>2. TempsInv /\ FetchInv /\ WriteInv
  BY DEF Init, TempsInv, FetchInv, WriteInv
<1>3. QED
  BY <1>1, <1>2 DEF Inv

\* The begin of a command.
LEMMA BeginKeepsInv ==
  ASSUME Inv, NEW command, NEW at, Begin(command, at), UNCHANGED <<host, device, tmp, written>>,
         at \in {"idle", "temps", "delete", "undefined"},
         command.name \in {"read", "write", "modify", "parse"},
         at = "delete" => command.name = "write", at = "temps" => command.name = "read",
         rv' \in {0, -1, EXIT_USAGE, -2, -3}
  PROVE  Inv'
<1> USE DEF Inv, Begin, Go, device
<1>1. TypeOK'
  <2>1. FilesOK'
    BY TypeParts DEF FilesOK
  <2>2. RestOK'
    <3>1. commands' \in 0..MaxCommands
      BY TypeParts, ConfFileAssumption DEF RestOK
    <3>2. QED
      BY <3>1 DEF RestOK
  <2>3. QED
    BY <2>1, <2>2 DEF TypeOK, FilesOK, RestOK
<1>2. TempsInv'
  BY DEF TempsInv
<1>3. FetchInv' /\ WriteInv'
  BY DEF FetchInv, WriteInv
<1>4. QED
  BY <1>1, <1>2, <1>3

\* Each command that begins, and each that is one step without an edit.
LEMMA BeginsKeepInv ==
  ASSUME Inv, BeginRead \/ BeginWrite \/ ModifyRefused \/ ModifyUndefined \/ conf_file_parse
  PROVE  Inv'
<1>0. rv \in {0, -1, EXIT_USAGE, -2, -3}
  BY DEF Inv, TypeOK
<1>1. CASE BeginRead
  <2> DEFINE c == [name |-> "read"]
  <2>1. c.name = "read"
    OBVIOUS
  <2>2. Begin(c, "temps") /\ UNCHANGED <<host, device, tmp, written>> /\ rv' = rv
    BY <1>1 DEF BeginRead
  <2> HIDE DEF c
  <2>3. QED
    BY <1>0, <2>1, <2>2, BeginKeepsInv
<1>2. CASE BeginWrite
  <2> DEFINE c == [name |-> "write"]
  <2>1. c.name = "write"
    OBVIOUS
  <2>2. Begin(c, "delete") /\ UNCHANGED <<host, device, tmp, written>> /\ rv' = rv
    BY <1>2 DEF BeginWrite
  <2> HIDE DEF c
  <2>3. QED
    BY <1>0, <2>1, <2>2, BeginKeepsInv
<1>3. CASE ModifyRefused
  <2> DEFINE c == [name |-> "modify"]
  <2>1. c.name = "modify"
    OBVIOUS
  <2>2. Begin(c, "idle") /\ UNCHANGED <<host, device, tmp, written>> /\ rv' = -1
    BY <1>3 DEF ModifyRefused
  <2> HIDE DEF c
  <2>3. QED
    BY <2>1, <2>2, BeginKeepsInv
<1>4. CASE ModifyUndefined
  <2>1. PICK edit \in Edits :
           /\ Begin([name |-> "modify", edit |-> edit], "undefined")
           /\ UNCHANGED <<host, device, tmp, written>> /\ rv' = rv
    BY <1>4 DEF ModifyUndefined
  <2> DEFINE c == [name |-> "modify", edit |-> edit]
  <2>2. c.name = "modify" /\ Begin(c, "undefined")
    BY <2>1
  <2> HIDE DEF c
  <2>3. QED
    BY <1>0, <2>1, <2>2, BeginKeepsInv
<1>5. CASE conf_file_parse
  <2> DEFINE c == [name |-> "parse"]
  <2>1. c.name = "parse"
    OBVIOUS
  <2>2. /\ Begin(c, "idle") /\ UNCHANGED <<host, device, tmp, written>>
        /\ rv' \in {EXIT_USAGE, -1, 0}
    BY <1>5 DEF conf_file_parse
  <2> HIDE DEF c
  <2>3. QED
    BY <2>1, <2>2, BeginKeepsInv
<1>6. QED
  BY <1>1, <1>2, <1>3, <1>4, <1>5

\* The steps of a read up to the merge.
LEMMA FetchKeepsInv ==
  ASSUME Inv, CreateTemps \/ SaveInka \/ SaveInkaTwice \/ SaveInkaFails
                \/ SaveUpdate \/ SaveUpdateFails \/ SaveUpdateLate \/ MergeFails
  PROVE  Inv'
<1> USE DEF Go, Ends, RemoveTemps, device
<1>0. /\ tmp = [inka |-> tmp.inka, update |-> tmp.update]
      /\ NoTemps = [inka |-> NoTemps.inka, update |-> NoTemps.update]
      /\ {inka, update, tmp.inka, tmp.update, Garbled, NoTemps.inka, NoTemps.update} \subseteq Files
  BY DEF Inv, TypeOK, Files, NoTemps
<1>1. CASE CreateTemps
  <2>1. tmp' = [inka |-> tmp'.inka, update |-> tmp'.update]
        /\ tmp'.inka \in Files /\ tmp'.update \in Files
    <3>1. tmp' = NoTemps \/ tmp' = [inka |-> Garbled, update |-> Garbled]
      BY <1>1 DEF CreateTemps
    <3>2. QED
      BY <1>0, <3>1
  <2>2. TypeOK'
    BY <1>1, <2>1 DEF CreateTemps, Inv, TypeOK
  <2>3. TempsInv' /\ FetchInv' /\ WriteInv'
    BY <1>1 DEF CreateTemps, Inv, TempsInv, FetchInv, WriteInv
  <2>4. QED
    BY <2>2, <2>3 DEF Inv
<1>2. CASE SaveInka \/ SaveInkaTwice
  <2>1. PICK saved \in {inka, Garbled} : tmp' = [tmp EXCEPT !.inka = saved]
    BY <1>2 DEF SaveInka, SaveInkaTwice
  <2>2. tmp' = [inka |-> saved, update |-> tmp.update]
    BY <1>0, <2>1
  <2>3. TypeOK'
    <3>1. FilesOK'
      <4>1. saved \in Files /\ tmp.update \in Files /\ FilesOK
        BY <1>0, TypeParts DEF Inv, FilesOK
      <4>2. host' = host /\ inka' = inka /\ update' = update
        BY <1>2 DEF SaveInka, SaveInkaTwice, device
      <4>3. QED
        BY <2>2, <4>1, <4>2 DEF FilesOK
    <3>2. RestOK'
      BY <1>2, TypeParts, ConfFileAssumption DEF SaveInka, SaveInkaTwice, Inv, RestOK
    <3>3. QED
      BY <3>1, <3>2 DEF TypeOK, FilesOK, RestOK
  <2>4. TempsInv' /\ FetchInv' /\ WriteInv'
    BY <1>2, <2>2 DEF SaveInka, SaveInkaTwice, Inv, TempsInv, FetchInv, WriteInv
  <2>5. QED
    BY <2>3, <2>4 DEF Inv
<1>3. CASE SaveInkaFails \/ MergeFails
  <2>1. TypeOK'
    BY <1>0, <1>3 DEF SaveInkaFails, MergeFails, Inv, TypeOK
  <2>2. TempsInv' /\ FetchInv' /\ WriteInv'
    BY <1>3 DEF SaveInkaFails, MergeFails, Inv, TempsInv, FetchInv, WriteInv
  <2>3. QED
    BY <2>1, <2>2 DEF Inv
<1>4. CASE SaveUpdate
  <2>1. tmp' = [inka |-> tmp.inka, update |-> update]
    BY <1>0, <1>4 DEF SaveUpdate
  <2>2. TypeOK'
    <3>1. FilesOK'
      <4>1. update \in Files /\ tmp.inka \in Files /\ FilesOK
        BY <1>0, TypeParts DEF Inv, FilesOK
      <4>2. host' = host /\ inka' = inka /\ update' = update
        BY <1>4 DEF SaveUpdate
      <4>3. QED
        BY <2>1, <4>1, <4>2 DEF FilesOK
    <3>2. RestOK'
      BY <1>4, TypeParts, ConfFileAssumption DEF SaveUpdate, Inv, RestOK
    <3>3. QED
      BY <3>1, <3>2 DEF TypeOK, FilesOK, RestOK
  <2>3. TempsInv' /\ FetchInv' /\ WriteInv'
    BY <1>4, <2>1 DEF SaveUpdate, Inv, TempsInv, FetchInv, WriteInv
  <2>4. QED
    BY <2>2, <2>3 DEF Inv
<1>5. CASE SaveUpdateFails
  <2>1. TypeOK'
    BY <1>0, <1>5 DEF SaveUpdateFails, Inv, TypeOK
  <2>2. TempsInv' /\ FetchInv' /\ WriteInv'
    BY <1>5 DEF SaveUpdateFails, Inv, TempsInv, FetchInv, WriteInv
  <2>3. QED
    BY <2>1, <2>2 DEF Inv
<1>6. CASE SaveUpdateLate
  <2>1. PICK saved \in {inka, Garbled} : tmp' = [tmp EXCEPT !.update = saved]
    BY <1>6 DEF SaveUpdateLate
  <2>2. tmp' = [inka |-> tmp.inka, update |-> saved]
    BY <1>0, <2>1
  <2>3. TypeOK'
    <3>1. FilesOK'
      <4>1. saved \in Files /\ tmp.inka \in Files /\ FilesOK
        BY <1>0, TypeParts DEF Inv, FilesOK
      <4>2. host' = host /\ inka' = inka /\ update' = update
        BY <1>6 DEF SaveUpdateLate
      <4>3. QED
        BY <2>2, <4>1, <4>2 DEF FilesOK
    <3>2. RestOK'
      BY <1>6, TypeParts, ConfFileAssumption DEF SaveUpdateLate, Inv, RestOK
    <3>3. QED
      BY <3>1, <3>2 DEF TypeOK, FilesOK, RestOK
  <2>4. TempsInv' /\ FetchInv' /\ WriteInv'
    BY <1>6, <2>2 DEF SaveUpdateLate, Inv, TempsInv, FetchInv, WriteInv
  <2>5. QED
    BY <2>3, <2>4 DEF Inv
<1>7. QED
  BY <1>1, <1>2, <1>3, <1>4, <1>5, <1>6

\* The end of a read: what it has written, and whether.
LEMMA EndReadFacts ==
  ASSUME EndRead
  PROVE  /\ rv' \in {0, -1} /\ tmp' = NoTemps /\ pc = "merge" /\ pc' = "idle"
         /\ UNCHANGED <<device, job, exists, late, written, commands>>
         /\ fault' \in {fault, "part", "disk"}
         /\ \/ /\ host' \in JSON /\ host' \in Parsed
               /\ (~Escapes(tmp.inka) /\ (exists => ~Escapes(tmp.update))) => host' \in Plain
            \/ host' \in {host, Garbled} /\ (host' # host => fault' = "disk")
         /\ rv' = 0 =>
               /\ Readable(tmp.inka) /\ host' \in JSON
               /\ ~exists => host' = Content(tmp.inka) /\ fault' = fault
               /\ exists => /\ fault = "late" => fault' = "late"
                            /\ Readable(tmp.update)
                            /\ (fault = "none" /\ fault' # "part") =>
                                  IsOverlay[<<host', Content(tmp.inka), Content(tmp.update)>>]
<1> DEFINE value == IF exists THEN Merge.value ELSE json_parse_file(tmp.inka)
<1>1. PICK s \in Serialised(value) :
         /\ host' = s.file /\ pc' = "idle" /\ rv' = IF s.went = "none" THEN 0 ELSE -1
         /\ fault' = IF s.went = "disk" THEN "disk"
                     ELSE IF fault = "none" /\ exists /\ ~Merge.whole THEN "part" ELSE fault
  BY DEF EndRead, Ends, Go
<1>2. exists => Merge.ok
  BY DEF EndRead
<1>3. value # NoValue =>
         /\ value \in JSON /\ value \in Parsed
         /\ (~Escapes(tmp.inka) /\ (exists => ~Escapes(tmp.update))) => value \in Plain
  BY <1>2, MergeFacts, FileFacts DEF Readable
<1>4. ~exists /\ value # NoValue => value = Content(tmp.inka) /\ Readable(tmp.inka)
  BY FileFacts DEF Readable
<1>5. exists => /\ Readable(tmp.inka) /\ Readable(tmp.update)
                /\ Merge.whole => IsOverlay[<<value, Content(tmp.inka), Content(tmp.update)>>]
  BY <1>2, MergeFacts
<1> HIDE DEF value
<1>6. /\ s.went \in {"none", "disk", "failed"}
      /\ s.went = "none" => value # NoValue /\ s.file = value
      /\ s.went = "failed" => value = NoValue /\ s.file = host
      /\ s.went = "disk" => s.file \in {host, Garbled}
  BY SerialisedFacts
<1>7. \/ /\ host' \in JSON /\ host' \in Parsed
         /\ (~Escapes(tmp.inka) /\ (exists => ~Escapes(tmp.update))) => host' \in Plain
      \/ host' \in {host, Garbled} /\ (host' # host => fault' = "disk")
  BY <1>1, <1>3, <1>6
<1>8. rv' = 0 => s.went = "none" /\ host' = value /\ value # NoValue
  BY <1>1, <1>6
<1>9. rv' = 0 =>
         /\ Readable(tmp.inka) /\ host' \in JSON
         /\ ~exists => host' = Content(tmp.inka) /\ fault' = fault
         /\ exists => /\ fault = "late" => fault' = "late"
                      /\ Readable(tmp.update)
                      /\ (fault = "none" /\ fault' # "part") =>
                            IsOverlay[<<host', Content(tmp.inka), Content(tmp.update)>>]
  BY <1>1, <1>3, <1>4, <1>5, <1>8
<1>10. QED
  BY <1>1, <1>7, <1>9 DEF EndRead, RemoveTemps

\* The end of a read.
LEMMA EndReadKeepsInv ==
  ASSUME Inv, EndRead
  PROVE  Inv'
<1>1. /\ rv' \in {0, -1} /\ tmp' = NoTemps /\ pc = "merge" /\ pc' = "idle"
      /\ UNCHANGED <<device, job, exists, late, written, commands>>
      /\ fault' \in {fault, "part", "disk"} /\ host' \in JSON \cup {host, Garbled}
  BY EndReadFacts
<1>2. NoTemps = [inka |-> NoTemps.inka, update |-> NoTemps.update]
      /\ NoTemps.inka \in Files /\ NoTemps.update \in Files
  BY DEF NoTemps, Files
<1>3. TypeOK'
  BY <1>1, <1>2 DEF Inv, TypeOK, Files, device
<1>4. TempsInv' /\ FetchInv' /\ WriteInv'
  BY <1>1 DEF Inv, TempsInv, FetchInv, WriteInv, device
<1>5. QED
  BY <1>3, <1>4 DEF Inv

\* The steps of a write.
LEMMA WriteKeepsInv ==
  ASSUME Inv, Delete \/ WriteInka \/ WriteFails \/ WriteEndsEarly
  PROVE  Inv'
<1> USE DEF Go, Ends, device
<1>0. {host, inka, update, Garbled, Absent} \subseteq Files
  BY DEF Inv, TypeOK, Files
<1>1. CASE Delete
  <2>1. TypeOK'
    BY <1>0, <1>1, ConfFileAssumption DEF Delete, Inv, TypeOK
  <2>2. TempsInv' /\ FetchInv'
    BY <1>1 DEF Delete, Inv, TempsInv, FetchInv
  <2>3. WriteInv'
    BY <1>1 DEF Delete, Inv, WriteInv
  <2>4. QED
    BY <2>1, <2>2, <2>3 DEF Inv
<1>2. CASE WriteInka
  <2>1. TypeOK'
    BY <1>0, <1>2 DEF WriteInka, Inv, TypeOK
  <2>2. TempsInv' /\ FetchInv' /\ WriteInv'
    BY <1>2 DEF WriteInka, Inv, TempsInv, FetchInv, WriteInv
  <2>3. QED
    BY <2>1, <2>2 DEF Inv
<1>3. CASE WriteFails
  <2>1. TypeOK'
    BY <1>0, <1>3 DEF WriteFails, Inv, TypeOK
  <2>2. TempsInv' /\ FetchInv' /\ WriteInv'
    BY <1>3 DEF WriteFails, Inv, TempsInv, FetchInv, WriteInv
  <2>3. QED
    BY <2>1, <2>2 DEF Inv
<1>4. CASE WriteEndsEarly
  <2>1. TypeOK'
    BY <1>0, <1>4 DEF WriteEndsEarly, Inv, TypeOK
  <2>2. TempsInv' /\ FetchInv' /\ WriteInv'
    BY <1>4 DEF WriteEndsEarly, Inv, TempsInv, FetchInv, WriteInv
  <2>3. QED
    BY <2>1, <2>2 DEF Inv
<1>5. QED
  BY <1>1, <1>2, <1>3, <1>4

\* A modification.
LEMMA ModifyKeepsInv ==
  ASSUME Inv, Modify
  PROVE  Inv'
<1>1. /\ UNCHANGED <<device, tmp, pc, written>> /\ pc = "idle"
      /\ commands' = commands + 1 /\ commands < MaxCommands
      /\ exists' = FALSE /\ late' = FALSE
  BY ModifyOutcome
<1>2. PICK edit, o : /\ job' = [name |-> "modify", edit |-> edit]
                     /\ IsOutcome(o, Content(host), edit)
                     /\ rv' = Returned(edit, o.result)
                     /\ o.result # 0 => host' = host /\ fault' = "none"
                     /\ o.result = 0 =>
                           \/ host' = o.value /\ fault' = "none"
                           \/ host' \in {host, Garbled} /\ fault' = "disk"
  BY ModifyOutcome
<1>3. job'.name = "modify"
  BY <1>2
<1>4. host' \in JSON \cup {host, Garbled} /\ fault' \in {"none", "disk"}
  BY <1>2 DEF IsOutcome
<1>5. rv' \in {0, -1, EXIT_USAGE, -2, -3}
  <2>1. o.result \in {0, -1, -2, -3, -4}
    BY <1>2 DEF IsOutcome
  <2>2. QED
    BY <1>2, <2>1 DEF Returned, EXIT_USAGE
<1>6. TypeOK'
  <2>1. FilesOK'
    BY <1>1, <1>4, TypeParts DEF Inv, FilesOK, Files, device
  <2>2. commands' \in 0..MaxCommands
    BY <1>1, TypeParts, ConfFileAssumption DEF Inv, RestOK
  <2>3. RestOK'
    BY <1>1, <1>3, <1>4, <1>5, <2>2 DEF RestOK
  <2>4. QED
    BY <2>1, <2>3 DEF TypeOK, FilesOK, RestOK
<1>7. TempsInv' /\ FetchInv' /\ WriteInv'
  BY <1>1 DEF Inv, TempsInv, FetchInv, WriteInv, device
<1>8. QED
  BY <1>6, <1>7 DEF Inv

\* A change of the device's own.
LEMMA DeviceUpdatesKeepsInv ==
  ASSUME Inv, DeviceUpdates
  PROVE  Inv'
<1>1. update' \in Files
  BY ConfFileAssumption DEF DeviceUpdates, Files
<1>2. job'.name = "none"
  BY DEF DeviceUpdates, Idle
<1>3. TypeOK'
  <2>1. FilesOK'
    BY <1>1, TypeParts DEF DeviceUpdates, Inv, FilesOK
  <2>2. RestOK'
    BY <1>2, TypeParts DEF DeviceUpdates, Inv, RestOK
  <2>3. QED
    BY <2>1, <2>2 DEF TypeOK, FilesOK, RestOK
<1>4. TempsInv' /\ FetchInv' /\ WriteInv'
  BY DEF DeviceUpdates, Inv, TempsInv, FetchInv, WriteInv
<1>5. QED
  BY <1>3, <1>4 DEF Inv

\* No step at all.
LEMMA StutterKeepsInv == Inv /\ UNCHANGED vars => Inv'
<1> SUFFICES ASSUME Inv, UNCHANGED vars PROVE Inv'
  OBVIOUS
<1> USE DEF Inv, vars, device
<1>1. FilesOK'
  BY TypeParts DEF FilesOK
<1>2. RestOK'
  <2>1. RestOK
    BY TypeParts, Zenon
  <2>2. /\ pc' = pc /\ job' = job /\ exists' = exists /\ late' = late
        /\ rv' = rv /\ fault' = fault /\ commands' = commands
    OBVIOUS
  <2>3. QED
    BY <2>1, <2>2, Zenon DEF RestOK
<1>3. TempsInv' /\ FetchInv' /\ WriteInv'
  BY DEF TempsInv, FetchInv, WriteInv
<1>4. QED
  BY <1>1, <1>2, <1>3 DEF TypeOK, FilesOK, RestOK

\* Every step.
LEMMA NextKeepsInv == Inv /\ [Next]_vars => Inv'
<1> SUFFICES ASSUME Inv, [Next]_vars PROVE Inv'
  OBVIOUS
<1>1. CASE BeginRead \/ BeginWrite \/ ModifyRefused \/ ModifyUndefined \/ conf_file_parse
  BY <1>1, BeginsKeepInv
<1>2. CASE CreateTemps \/ SaveInka \/ SaveInkaTwice \/ SaveInkaFails
             \/ SaveUpdate \/ SaveUpdateFails \/ SaveUpdateLate \/ MergeFails
  BY <1>2, FetchKeepsInv
<1>3. CASE EndRead
  BY <1>3, EndReadKeepsInv
<1>4. CASE Delete \/ WriteInka \/ WriteFails \/ WriteEndsEarly
  BY <1>4, WriteKeepsInv
<1>5. CASE Modify
  BY <1>5, ModifyKeepsInv
<1>6. CASE DeviceUpdates
  BY <1>6, DeviceUpdatesKeepsInv
<1>7. CASE Ended \/ UNCHANGED vars
  BY <1>7, StutterKeepsInv DEF Ended
<1>8. QED
  BY <1>1, <1>2, <1>3, <1>4, <1>5, <1>6, <1>7 DEF Next

\* The invariant holds in every state.
THEOREM InvHolds == Spec => []Inv
BY InitInv, NextKeepsInv, PTL DEF Spec

\* The variables have the values the code can give them.
THEOREM TypeCorrect == Spec => []TypeOK
<1>1. Inv => TypeOK
  BY DEF Inv
<1>2. QED
  BY <1>1, InvHolds, PTL

\* No command leaves a temporary file.
THEOREM NoTempIsLeft == Spec => []TempFilesRemoved
<1>1. Inv => TempFilesRemoved
  BY DEF Inv, TempsInv, TempFilesRemoved
<1>2. QED
  BY <1>1, InvHolds, PTL

\* Only the end of a read is a step to where one has succeeded.
LEMMA ReadOkSteps ==
  ASSUME Inv, [Next]_vars, ReadOk'
  PROVE  EndRead \/ UNCHANGED vars
<1> USE DEF ReadOk, Begin, Go, Ends
<1>1. CASE BeginRead \/ BeginWrite \/ ModifyRefused \/ ModifyUndefined \/ conf_file_parse
  <2>1. CASE BeginRead \/ BeginWrite
    BY <2>1 DEF BeginRead, BeginWrite
  <2>2. CASE ModifyRefused
    BY <2>2 DEF ModifyRefused
  <2>3. CASE ModifyUndefined
    BY <2>3 DEF ModifyUndefined
  <2>4. CASE conf_file_parse
    <3>1. job' = [name |-> "parse"]
      BY <2>4 DEF conf_file_parse
    <3>2. QED
      BY <3>1
  <2>5. QED
    BY <1>1, <2>1, <2>2, <2>3, <2>4
<1>2. CASE CreateTemps \/ SaveInka \/ SaveInkaTwice \/ SaveInkaFails
             \/ SaveUpdate \/ SaveUpdateFails \/ SaveUpdateLate \/ MergeFails
  BY <1>2 DEF CreateTemps, SaveInka, SaveInkaTwice, SaveInkaFails, SaveUpdate,
              SaveUpdateFails, SaveUpdateLate, MergeFails
<1>3. CASE Delete \/ WriteInka \/ WriteFails \/ WriteEndsEarly
  BY <1>3 DEF Delete, WriteInka, WriteFails, WriteEndsEarly, Inv, WriteInv
<1>4. CASE Modify
  <2>1. PICK edit : job' = [name |-> "modify", edit |-> edit]
    BY <1>4, ModifyOutcome
  <2>2. job'.name = "modify"
    BY <2>1
  <2>3. QED
    BY <2>2
<1>5. CASE DeviceUpdates
  BY <1>5 DEF DeviceUpdates, Idle
<1>6. CASE Ended
  BY <1>6 DEF Ended
<1>7. QED
  BY <1>1, <1>2, <1>3, <1>4, <1>5, <1>6 DEF Next

\* Every read that returns 0 has written the device's configuration with its
\* update over it.
THEOREM ReadMerges == Spec => []ReadIsMerged
<1>1. Init => ReadIsMerged
  BY DEF Init, Idle, ReadIsMerged, ReadOk
<1>2. ASSUME Inv, ReadIsMerged, [Next]_vars PROVE ReadIsMerged'
  <2> SUFFICES ASSUME ReadOk', fault' \notin {"late", "part"}
               PROVE  /\ host' \in JSON /\ Content(inka') \in JSON
                      /\ IF update' = Absent \/ fault' = "unseen"
                         THEN Same[<<host', Content(inka')>>]
                         ELSE /\ Content(update') \in JSON
                              /\ IsOverlay[<<host', Content(inka'), Content(update')>>]
    BY DEF ReadIsMerged, Content
  <2>1. CASE UNCHANGED vars
    BY <1>2, <2>1 DEF ReadIsMerged, ReadOk, vars, device
  <2>2. CASE EndRead
    <3>1. rv' = 0
      BY DEF ReadOk
    <3>2. /\ Readable(tmp.inka) /\ host' \in JSON /\ pc = "merge"
          /\ UNCHANGED <<device, exists>>
          /\ ~exists => host' = Content(tmp.inka) /\ fault' = fault
          /\ exists => /\ fault = "late" => fault' = "late"
                       /\ Readable(tmp.update)
                       /\ (fault = "none" /\ fault' # "part") =>
                             IsOverlay[<<host', Content(tmp.inka), Content(tmp.update)>>]
      BY <2>2, <3>1, EndReadFacts
    <3>3. inka' = inka /\ update' = update
      BY <3>2 DEF device
    <3>4. tmp.inka = inka /\ Content(inka) \in JSON
      <4>1. tmp.inka \in {inka, Garbled}
        BY <1>2, <3>2 DEF Inv, FetchInv
      <4>2. QED
        BY <3>2, <4>1, FileFacts
    <3>5. CASE ~exists
      <4>1. update = Absent \/ fault = "unseen"
        BY <1>2, <3>2, <3>5 DEF Inv, FetchInv
      <4>2. host' = Content(inka) /\ fault' = fault
        BY <3>2, <3>4, <3>5
      <4>3. Same[<<Content(inka), Content(inka)>>]
        BY <3>4, SameReflexive
      <4>4. QED
        BY <3>3, <3>4, <4>1, <4>2, <4>3
    <3>6. CASE exists
      <4>1. fault = "none" /\ tmp.update = update /\ update # Absent
        BY <1>2, <3>2, <3>6 DEF Inv, FetchInv
      <4>2. IsOverlay[<<host', Content(inka), Content(update)>>]
        BY <3>2, <3>4, <3>6, <4>1
      <4>3. Content(update) \in JSON
        BY <3>2, <3>6, <4>1, FileFacts
      <4>4. fault' # "unseen"
        BY <2>2, <4>1, EndReadFacts
      <4>5. QED
        BY <3>2, <3>3, <3>4, <4>1, <4>2, <4>3, <4>4
    <3>7. QED
      BY <3>5, <3>6
  <2>3. QED
    BY <1>2, <2>1, <2>2, ReadOkSteps
<1>3. QED
  BY <1>1, <1>2, InvHolds, PTL DEF Spec

-----------------------------------------------------------------------------
(* What is read back, and what is modified.                                *)

\* What was written is what is read back.
THEOREM WritesAreRead == Spec => []RoundTrip
<1>1. Init => RoundTrip
  BY DEF Init, Idle, RoundTrip, ReadOk
<1>2. ASSUME Inv, RoundTrip, [Next]_vars PROVE RoundTrip'
  <2> SUFFICES ASSUME ReadOk', fault' # "late", written' # Absent
               PROVE  /\ host' \in JSON /\ Content(written') \in JSON
                      /\ Same[<<host', Content(written')>>]
    BY DEF RoundTrip, Content
  <2>1. CASE UNCHANGED vars
    BY <1>2, <2>1 DEF RoundTrip, ReadOk, vars, device
  <2>2. CASE EndRead
    <3>1. rv' = 0
      BY DEF ReadOk
    <3>2. /\ Readable(tmp.inka) /\ host' \in JSON /\ pc = "merge"
          /\ written' = written
          /\ ~exists => host' = Content(tmp.inka)
          /\ exists => (fault = "late" => fault' = "late")
      BY <2>2, <3>1, EndReadFacts
    <3>3. written # Absent /\ inka = written /\ update = Absent
      BY <1>2, <3>2 DEF Inv, WriteInv
    <3>4. ~exists
      <4>1. exists => fault = "late" \/ update # Absent
        BY <1>2, <3>2 DEF Inv, FetchInv
      <4>2. QED
        BY <3>2, <3>3, <4>1
    <3>5. host' = Content(written')
      <4>1. tmp.inka \in {inka, Garbled}
        BY <1>2, <3>2 DEF Inv, FetchInv
      <4>2. tmp.inka = inka
        BY <3>2, <4>1, FileFacts
      <4>3. QED
        BY <3>2, <3>3, <3>4, <4>2
    <3>6. Same[<<host', host'>>]
      BY <3>2, SameReflexive
    <3>7. QED
      BY <3>2, <3>5, <3>6
  <2>3. QED
    BY <1>2, <2>1, <2>2, ReadOkSteps
<1>3. QED
  BY <1>1, <1>2, InvHolds, PTL DEF Spec

\* The steps that modify a file.
LEMMA ModifiesSteps ==
  ASSUME Inv, Next, Modifies
  PROVE  Modify \/ (ModifyRefused /\ rv' = -1 /\ host' = host)
<1>0. commands \in Int
  <2>1. commands \in 0..MaxCommands
    BY DEF Inv, TypeOK
  <2>2. QED
    BY <2>1, ConfFileAssumption
<1> USE DEF Modifies, Begin, Go, Ends
<1>1. CASE BeginRead \/ BeginWrite
  BY <1>1 DEF BeginRead, BeginWrite
<1>2. CASE ModifyRefused
  BY <1>2 DEF ModifyRefused
<1>3. CASE ModifyUndefined
  BY <1>3 DEF ModifyUndefined
<1>4. CASE conf_file_parse
  <2>1. job' = [name |-> "parse"]
    BY <1>4 DEF conf_file_parse
  <2>2. QED
    BY <2>1
<1>5. CASE CreateTemps \/ SaveInka \/ SaveInkaTwice \/ SaveInkaFails
             \/ SaveUpdate \/ SaveUpdateFails \/ SaveUpdateLate \/ MergeFails
  <2>1. commands' = commands
    BY <1>5 DEF CreateTemps, SaveInka, SaveInkaTwice, SaveInkaFails, SaveUpdate,
                SaveUpdateFails, SaveUpdateLate, MergeFails
  <2>2. QED
    BY <1>0, <2>1
<1>6. CASE EndRead \/ Delete \/ WriteInka \/ WriteFails \/ WriteEndsEarly \/ DeviceUpdates \/ Ended
  <2>1. commands' = commands
    BY <1>6 DEF EndRead, Delete, WriteInka, WriteFails, WriteEndsEarly, DeviceUpdates, Ended, vars
  <2>2. QED
    BY <1>0, <2>1
<1>7. QED
  BY <1>1, <1>2, <1>3, <1>4, <1>5, <1>6 DEF Next

\* What a modification that returns 0 has made of the file, if it was written.
LEMMA ModifyFacts ==
  ASSUME Inv, Next, Modifies
  PROVE  /\ rv' # 0 => host' = host
         /\ (rv' = 0 /\ fault' = "none") =>
               \E o : /\ IsOutcome(o, Content(host), job'.edit) /\ o.result = 0 /\ host' = o.value
<1>1. CASE Modify
  <2>1. PICK edit, o : /\ job' = [name |-> "modify", edit |-> edit]
                       /\ IsOutcome(o, Content(host), edit)
                       /\ rv' = Returned(edit, o.result)
                       /\ o.result # 0 => host' = host /\ fault' = "none"
                       /\ o.result = 0 =>
                             \/ host' = o.value /\ fault' = "none"
                             \/ host' \in {host, Garbled} /\ fault' = "disk"
    BY <1>1, ModifyOutcome
  <2>2. job'.edit = edit
    BY <2>1
  <2>3. o.result \in {0, -1, -2, -3, -4}
    BY <2>1 DEF IsOutcome
  <2>4. rv' = 0 <=> o.result = 0
    BY <2>1, <2>3 DEF Returned, EXIT_USAGE
  <2>5. QED
    BY <2>1, <2>2, <2>4
<1>2. CASE ModifyRefused /\ rv' = -1 /\ host' = host
  BY <1>2
<1>3. QED
  BY <1>1, <1>2, ModifiesSteps

\* Every edit that succeeds changes what it names and no other value; one that is
\* refused leaves the file as it was.
THEOREM EditsAreExact == Spec => ModifyIsExact
<1>1. ASSUME Inv, Next
      PROVE  Modifies =>
                /\ rv' # 0 => host' = host
                /\ (rv' = 0 /\ fault' = "none" /\ job'.edit.name # "psd_cali") =>
                      IsEdited(host', Content(host), job'.edit)
  <2> SUFFICES ASSUME Modifies
               PROVE  /\ rv' # 0 => host' = host
                      /\ (rv' = 0 /\ fault' = "none" /\ job'.edit.name # "psd_cali") =>
                            IsEdited(host', Content(host), job'.edit)
    OBVIOUS
  <2>1. rv' # 0 => host' = host
    BY <1>1, ModifyFacts
  <2>2. ASSUME rv' = 0, fault' = "none", job'.edit.name # "psd_cali"
        PROVE  IsEdited(host', Content(host), job'.edit)
    <3>1. PICK o : IsOutcome(o, Content(host), job'.edit) /\ o.result = 0 /\ host' = o.value
      BY <1>1, <2>2, ModifyFacts
    <3>2. IsEdited(o.value, Content(host), job'.edit)
      BY <2>2, <3>1 DEF IsOutcome
    <3>3. QED
      BY <3>1, <3>2
  <2>3. QED
    BY <2>1, <2>2
<1>2. ASSUME Inv, [Next]_vars
      PROVE  [Modifies =>
                /\ rv' # 0 => host' = host
                /\ (rv' = 0 /\ fault' = "none" /\ job'.edit.name # "psd_cali") =>
                      IsEdited(host', Content(host), job'.edit)]_vars
  BY <1>1, <1>2
<1>3. QED
  BY <1>2, InvHolds, PTL DEF Spec, ModifyIsExact

\* Every calibration touches nothing but am_infile, and keeps there what it is to.
THEOREM CalibrationsKeepNotches == Spec => CalibrationKeepsNotches
<1> DEFINE Kept ==
      LET A(conf) == json_object_get_array(json_object_get_object(conf, "phy"), "am_infile")
      IN \/ host' = Content(host)
         \/ /\ IsWithIn(host', Content(host), "phy", [am_infile |-> A(host')])
            /\ KeepsNotches(AmNumbers(host'), AmNumbers(Content(host)), job'.edit.lines)
           Calibrates == Modifies /\ rv' = 0 /\ fault' = "none" /\ job'.edit.name = "psd_cali"
<1>1. ASSUME Inv, Next, Calibrates PROVE Kept
  <2>1. PICK o : IsOutcome(o, Content(host), job'.edit) /\ o.result = 0 /\ host' = o.value
    BY <1>1, ModifyFacts
  <2>2. \/ o.value = Content(host)
        \/ /\ IsWithIn(o.value, Content(host), "phy", [am_infile |-> Am(o.value)])
           /\ KeepsNotches(AmNumbers(o.value), AmNumbers(Content(host)), job'.edit.lines)
    BY <1>1, <2>1 DEF IsOutcome
  <2>3. Am(o.value) = json_object_get_array(json_object_get_object(o.value, "phy"), "am_infile")
    BY DEF Am
  <2>4. QED
    BY <2>1, <2>2, <2>3
<1>2. ASSUME Inv, [Next]_vars PROVE [Calibrates => Kept]_vars
  BY <1>1, <1>2
<1>3. Spec => [][Calibrates => Kept]_vars
  BY <1>2, InvHolds, PTL DEF Spec
<1>4. QED
  BY <1>3, Zenon DEF CalibrationKeepsNotches

\* A file that can be parsed is made one that cannot only by a full disk, by a name
\* with a control character, or from a file that holds one as an escape.
THEOREM FilesStayReadable == Spec => StaysReadable
<1> DEFINE Excused == \/ fault' = "disk"
                      \/ /\ job'.name = "modify"
                         /\ \/ Escapes(host)
                            \/ /\ job'.edit.name \in {"avln_hfid", "m_hfid", "u_hfid"}
                               /\ job'.edit.text.kind = "control"
                      \/ /\ job'.name = "read"
                         /\ Escapes(tmp.inka) \/ (exists /\ Escapes(tmp.update))
           Lost == Readable(host) /\ ~Readable(host')
<1>0. \A v \in Parsed : v \in Plain => Readable(v)
  BY FileFacts
<1>1. ASSUME Inv, Next, Lost PROVE Excused
  <2>1. host' # host
    BY <1>1
  <2>2. CASE EndRead
    <3>1. /\ \/ /\ host' \in Parsed
                /\ (~Escapes(tmp.inka) /\ (exists => ~Escapes(tmp.update))) => host' \in Plain
             \/ host' \in {host, Garbled} /\ (host' # host => fault' = "disk")
          /\ job' = job /\ pc = "merge"
      BY <2>2, EndReadFacts
    <3>2. job'.name = "read"
      BY <1>1, <3>1 DEF Inv, FetchInv
    <3>3. QED
      BY <1>0, <1>1, <2>1, <3>1, <3>2
  <2>3. CASE Modify
    <3>1. PICK edit, o : /\ job' = [name |-> "modify", edit |-> edit]
                         /\ IsOutcome(o, Content(host), edit)
                         /\ rv' = Returned(edit, o.result)
                         /\ o.result # 0 => host' = host /\ fault' = "none"
                         /\ o.result = 0 =>
                               \/ host' = o.value /\ fault' = "none"
                               \/ host' \in {host, Garbled} /\ fault' = "disk"
      BY <2>3, ModifyOutcome
    <3>2. job'.edit = edit /\ job'.name = "modify"
      BY <3>1
    <3>3. CASE fault' = "disk"
      BY <3>3
    <3>4. CASE o.result = 0 /\ host' = o.value
      <4>1. /\ o.value \in Parsed
            /\ o.value \in Family(Content(host)) \/ (IsText(edit) /\ edit.text.kind = "control")
        BY <3>1, <3>4 DEF IsOutcome
      <4>2. ~Escapes(host) => Family(Content(host)) = Plain
        BY <2>3, ModifyOutcome DEF Family
      <4>3. QED
        BY <1>0, <1>1, <3>2, <3>4, <4>1, <4>2 DEF IsText
    <3>5. QED
      BY <2>1, <3>1, <3>3, <3>4
  <2>4. CASE BeginRead \/ BeginWrite \/ ModifyRefused \/ ModifyUndefined \/ conf_file_parse
    BY <2>1, <2>4 DEF BeginRead, BeginWrite, ModifyRefused, ModifyUndefined, conf_file_parse
  <2>5. CASE CreateTemps \/ SaveInka \/ SaveInkaTwice \/ SaveInkaFails
               \/ SaveUpdate \/ SaveUpdateFails \/ SaveUpdateLate \/ MergeFails
    BY <2>1, <2>5 DEF CreateTemps, SaveInka, SaveInkaTwice, SaveInkaFails, SaveUpdate,
                      SaveUpdateFails, SaveUpdateLate, MergeFails
  <2>6. CASE Delete \/ WriteInka \/ WriteFails \/ WriteEndsEarly \/ DeviceUpdates \/ Ended
    BY <2>1, <2>6 DEF Delete, WriteInka, WriteFails, WriteEndsEarly, DeviceUpdates, Ended, vars
  <2>7. QED
    BY <1>1, <2>2, <2>3, <2>4, <2>5, <2>6 DEF Next
<1>2. ASSUME Inv, [Next]_vars PROVE [Lost => Excused]_vars
  BY <1>1, <1>2
<1>3. Spec => [][Lost => Excused]_vars
  BY <1>2, InvHolds, PTL DEF Spec
<1>4. QED
  BY <1>3, Zenon DEF StaysReadable
=============================================================================
