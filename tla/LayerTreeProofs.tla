--------------------------- MODULE LayerTreeProofs ---------------------------
(***************************************************************************)
(* Theorems about LayerTree and the Archive it extends: for any headers, any  *)
(* chunk size and any number of entries, what the proxy cuts out of a layer's  *)
(* archive and what a reader finds at an offset are the bytes of the tar, and *)
(* the tree the client serves is the layer's, in whatever order it is built.  *)
(***************************************************************************)
EXTENDS LayerTree, FiniteSetTheorems, SequenceTheorems, WellFoundedInduction, TLAPS

-----------------------------------------------------------------------------
(* Least and greatest numbers, and numbers in order.                        *)

\* A set of naturals has a least element: the induction of all proofs below.
LEMMA LeastNat ==
  ASSUME NEW S \in SUBSET Nat, S # {}
  PROVE  \E x \in S : \A y \in S : x <= y
<1>1. \E x \in S : \A y \in S : ~ (<<y, x>> \in OpToRel(<, Nat))
  BY NatLessThanWellFounded, WFMin
<1>2. PICK x \in S : \A y \in S : ~ (<<y, x>> \in OpToRel(<, Nat))
  BY <1>1
<1>3. \A y \in S : y \in Nat /\ x \in Nat /\ ~ (y < x)
  BY <1>2 DEF OpToRel
<1>4. \A y \in S : x <= y
  BY <1>3
<1> QED
  BY <1>4

LEMMA MinType ==
  ASSUME NEW S \in SUBSET Nat, S # {}
  PROVE  Min(S) \in S /\ \A y \in S : Min(S) <= y
BY LeastNat DEF Min

\* The minimum and the maximum of a set are known by what they are.
LEMMA MinIs ==
  ASSUME NEW S \in SUBSET Int, NEW x \in S, \A y \in S : x <= y
  PROVE  Min(S) = x
<1>1. Min(S) \in S /\ \A y \in S : Min(S) <= y
  BY DEF Min
<1>2. Min(S) \in Int /\ x \in Int /\ Min(S) <= x /\ x <= Min(S)
  BY <1>1
<1> QED
  BY <1>2

LEMMA MaxIs ==
  ASSUME NEW S \in SUBSET Int, NEW x \in S, \A y \in S : y <= x
  PROVE  Max(S) = x
<1>0. \A y \in S : x >= y
  <2>1. \A y \in S : y \in Int /\ x \in Int
    OBVIOUS
  <2> QED
    BY <2>1
<1>1. Max(S) \in S /\ \A y \in S : Max(S) >= y
  BY <1>0 DEF Max
<1>2. Max(S) \in Int /\ x \in Int /\ Max(S) >= x /\ x >= Max(S)
  BY <1>0, <1>1
<1> QED
  BY <1>2

LEMMA MaxType ==
  ASSUME NEW m \in Nat, NEW S \in SUBSET (1..m), S # {}
  PROVE  Max(S) \in S /\ \A y \in S : y <= Max(S)
<1> DEFINE ToEnd == {m - x : x \in S}
<1>1. \A x \in S : x \in 1..m /\ m - x \in Nat /\ m - x \in ToEnd
  OBVIOUS
<1>2. ToEnd \in SUBSET Nat /\ ToEnd # {}
  BY <1>1
<1>3. PICK z \in ToEnd : \A y \in ToEnd : z <= y
  <2> HIDE DEF ToEnd
  <2> QED
    BY <1>2, LeastNat
<1>4. PICK x \in S : z = m - x
  OBVIOUS
<1>5. \A y \in S : y <= x
  <2> TAKE y \in S
  <2>1. m - x <= m - y
    BY <1>1, <1>3, <1>4
  <2> QED
    BY <1>1, <2>1
<1>6. Max(S) = x
  BY <1>5, MaxIs
<1> QED
  BY <1>5, <1>6

LEMMA MinOfTwo ==
  ASSUME NEW x \in Int, NEW y \in Int
  PROVE  Min({x, y}) = IF x <= y THEN x ELSE y
BY DEF Min

\* What InOrder makes of a finite set of numbers.
LEMMA InOrderType ==
  ASSUME NEW S \in SUBSET Int, IsFiniteSet(S)
  PROVE  /\ Cardinality(S) \in Nat
         /\ InOrder(S) \in [1..Cardinality(S) -> S]
         /\ \A x \in S : \E k \in 1..Cardinality(S) : InOrder(S)[k] = x
<1> DEFINE N == Cardinality(S)
           Lower(x) == {y \in S : y <= x}
           rank == [x \in S |-> Cardinality(Lower(x))]
<1>1. N \in Nat /\ IsFiniteSet(1..N) /\ Cardinality(1..N) = N
  BY FS_CardinalityType, FS_Interval
<1>2. ASSUME NEW x \in S PROVE rank[x] \in 1..N
  <2>1. Lower(x) \in SUBSET S /\ x \in Lower(x)
    OBVIOUS
  <2> HIDE DEF Lower
  <2>2. IsFiniteSet(Lower(x)) /\ Cardinality(Lower(x)) \in Nat /\ Cardinality(Lower(x)) <= N
    BY <2>1, FS_Subset, FS_CardinalityType
  <2>3. Cardinality(Lower(x)) # 0
    BY <2>1, <2>2, FS_EmptySet
  <2> QED
    BY <1>1, <2>2, <2>3
<1>3. ASSUME NEW x \in S, NEW z \in S, x < z PROVE rank[x] < rank[z]
  <2>1. Lower(x) \in SUBSET Lower(z) /\ z \in Lower(z) /\ z \notin Lower(x) /\ Lower(z) \in SUBSET S
    <3>1. x \in Int /\ z \in Int /\ \A y \in S : y \in Int
      OBVIOUS
    <3>2. \A y \in S : y <= x => y <= z
      BY <1>3, <3>1
    <3>3. ~ (z <= x) /\ z <= z
      BY <1>3, <3>1
    <3> QED
      BY <3>2, <3>3
  <2> HIDE DEF Lower
  <2>2. IsFiniteSet(Lower(z))
    BY <2>1, FS_Subset
  <2>3. Cardinality(Lower(x)) <= Cardinality(Lower(z)) /\ Cardinality(Lower(x)) # Cardinality(Lower(z))
    BY <2>1, <2>2, FS_Subset
  <2>4. rank[x] \in Nat /\ rank[z] \in Nat
    BY <1>1, <1>2
  <2> QED
    BY <2>3, <2>4
<1>4. \A x, z \in S : rank[x] = rank[z] => x = z
  <2> TAKE x, z \in S
  <2> HIDE DEF rank
  <2>1. x \in Int /\ z \in Int /\ rank[x] \in Nat /\ rank[z] \in Nat
    BY <1>1, <1>2
  <2> QED
    BY <1>3, <2>1
<1>5. rank \in [S -> 1..N]
  BY <1>2
<1> HIDE DEF rank
<1>6. rank \in Injection(S, 1..N)
  BY <1>4, <1>5 DEF Injection, IsInjective
<1>7. rank \in Surjection(S, 1..N)
  BY <1>1, <1>6, FS_Injection
<1>8. \A k \in 1..N : \E x \in S : rank[x] = k
  BY <1>7 DEF Surjection
<1>9. \A k \in 1..N : InOrder(S)[k] \in S /\ rank[InOrder(S)[k]] = k
  <2> TAKE k \in 1..N
  <2>1. InOrder(S)[k] = CHOOSE x \in S : Cardinality(Lower(x)) = k
    BY DEF InOrder
  <2>2. \E x \in S : Cardinality(Lower(x)) = k
    BY <1>8 DEF rank
  <2> QED
    BY <2>1, <2>2 DEF rank
<1>10. InOrder(S) \in [1..N -> S]
  BY <1>9 DEF InOrder
<1>11. \A x \in S : InOrder(S)[rank[x]] = x
  BY <1>2, <1>4, <1>9
<1> QED
  BY <1>1, <1>2, <1>10, <1>11

\* An interval is in its own order.
LEMMA InOrderInterval ==
  ASSUME NEW a \in Int, NEW b \in Int, a <= b
  PROVE  /\ InOrder(a..b) = [k \in 1..(b - a + 1) |-> a + k - 1]
         /\ Len(InOrder(a..b)) = b - a + 1
<1>1. Cardinality(a..b) = b - a + 1
  BY FS_Interval
<1>2. ASSUME NEW x \in a..b PROVE Cardinality({y \in a..b : y <= x}) = x - a + 1
  <2>1. {y \in a..b : y <= x} = a..x
    OBVIOUS
  <2>2. x \in Int /\ ~ (a > x)
    OBVIOUS
  <2>3. Cardinality(a..x) = x - a + 1
    BY <2>2, FS_Interval
  <2> QED
    BY <2>1, <2>3
<1>3. ASSUME NEW k \in 1..(b - a + 1)
      PROVE  (CHOOSE x \in a..b : Cardinality({y \in a..b : y <= x}) = k) = a + k - 1
  <2> DEFINE c == CHOOSE x \in a..b : Cardinality({y \in a..b : y <= x}) = k
  <2>1. a + k - 1 \in a..b
    OBVIOUS
  <2>2. Cardinality({y \in a..b : y <= a + k - 1}) = k
    <3>1. Cardinality({y \in a..b : y <= a + k - 1}) = (a + k - 1) - a + 1
      BY <1>2, <2>1
    <3> QED
      BY <3>1
  <2>3. c \in a..b /\ Cardinality({y \in a..b : y <= c}) = k
    BY <2>1, <2>2
  <2> HIDE DEF c
  <2>4. c - a + 1 = k
    BY <1>2, <2>3
  <2>5. c = a + k - 1
    BY <2>3, <2>4
  <2> QED
    BY <2>5 DEF c
<1>4. InOrder(a..b) = [k \in 1..(b - a + 1) |-> a + k - 1]
  BY <1>1, <1>3 DEF InOrder
<1>5. DOMAIN InOrder(a..b) = 1..(b - a + 1) /\ InOrder(a..b) \in [1..(b - a + 1) -> Int]
  BY <1>4
<1>6. InOrder(a..b) \in Seq(Int)
  BY <1>5, SeqDef
<1>7. DOMAIN InOrder(a..b) = 1..Len(InOrder(a..b)) /\ Len(InOrder(a..b)) \in Nat
  BY <1>6, LenProperties
<1> QED
  BY <1>4, <1>5, <1>7

-----------------------------------------------------------------------------
(* Concatenation.                                                          *)

LEMMA LengthType ==
  ASSUME NEW T, NEW m \in Nat, NEW f \in [1..m -> T]
  PROVE  f \in Seq(T) /\ Len(f) = m
<1>1. f \in Seq(T)
  BY SeqDef
<1>2. DOMAIN f = 1..m /\ DOMAIN f = 1..Len(f) /\ Len(f) \in Nat
  BY <1>1, LenProperties
<1> QED
  BY <1>1, <1>2

\* FlattenSeq adds one sequence after the other: the partial results exist, by induction on
\* how many sequences there are.
Partial(seqs, S, m, f) ==
  /\ f \in [1..m -> Seq(S)]
  /\ \A k \in 1..m : f[k] = IF k = 1 THEN seqs[k] ELSE f[k - 1] \o seqs[k]

LEMMA FlattenSteps ==
  ASSUME NEW S, NEW m \in Nat \ {0}, NEW seqs \in [1..m -> Seq(S)]
  PROVE  \E f : Partial(seqs, S, m, f) /\ FlattenSeq(seqs) = f[m]
<1> DEFINE Missing == {k \in 1..m : ~ \E f : Partial(seqs, S, k, f)}
<1>1. Missing = {}
  <2> SUFFICES ASSUME Missing # {} PROVE FALSE
    OBVIOUS
  <2>1. Missing \in SUBSET Nat
    OBVIOUS
  <2>2. PICK k \in Missing : \A j \in Missing : k <= j
    <3> HIDE DEF Missing
    <3> QED
      BY <2>1, LeastNat
  <2>3. k \in 1..m /\ ~ \E f : Partial(seqs, S, k, f)
    OBVIOUS
  <2>4. CASE k = 1
    <3>1. Partial(seqs, S, 1, [j \in 1..1 |-> seqs[1]])
      BY DEF Partial
    <3> QED
      BY <2>3, <2>4, <3>1
  <2>5. CASE k # 1
    <3>1. k - 1 \in 1..m /\ ~ (k <= k - 1)
      BY <2>3, <2>5
    <3>2. k - 1 \notin Missing
      BY <2>2, <3>1
    <3>3. PICK f : Partial(seqs, S, k - 1, f)
      BY <3>1, <3>2
    <3> DEFINE g == [j \in 1..k |-> IF j < k THEN f[j] ELSE f[k - 1] \o seqs[k]]
    <3>4. \A j \in 1..k : j < k => j \in 1..(k - 1) /\ (j # 1 => j - 1 \in 1..(k - 1) /\ j - 1 \in 1..k /\ j - 1 < k)
      BY <2>3
    <3>5. \A j \in 1..(k - 1) : f[j] \in Seq(S) /\ f[j] = IF j = 1 THEN seqs[j] ELSE f[j - 1] \o seqs[j]
      BY <3>3 DEF Partial
    <3>6. f[k - 1] \o seqs[k] \in Seq(S)
      <4>1. k - 1 \in 1..(k - 1)
        BY <2>3, <2>5
      <4>2. f[k - 1] \in Seq(S) /\ seqs[k] \in Seq(S)
        BY <2>3, <3>5, <4>1
      <4> QED
        BY <4>2, ConcatProperties
    <3>7. g \in [1..k -> Seq(S)]
      BY <3>4, <3>5, <3>6
    <3>8. ASSUME NEW j \in 1..k PROVE g[j] = IF j = 1 THEN seqs[j] ELSE g[j - 1] \o seqs[j]
      <4>1. CASE j < k
        <5>1. g[j] = f[j] /\ (j # 1 => g[j - 1] = f[j - 1])
          BY <3>4, <4>1
        <5> HIDE DEF g
        <5> QED
          BY <3>4, <3>5, <4>1, <5>1
      <4>2. CASE j = k
        <5>1. k \in 1..k /\ k - 1 \in 1..k /\ k - 1 < k /\ ~ (k < k)
          BY <2>3, <2>5
        <5>2. g[k] = f[k - 1] \o seqs[k] /\ g[k - 1] = f[k - 1]
          BY <5>1
        <5> HIDE DEF g
        <5> QED
          BY <2>5, <4>2, <5>2
      <4> QED
        BY <2>3, <4>1, <4>2
    <3> HIDE DEF g
    <3>9. Partial(seqs, S, k, g)
      BY <3>7, <3>8 DEF Partial
    <3> QED
      BY <2>3, <3>9
  <2> QED
    BY <2>4, <2>5
<1>2. PICK f : Partial(seqs, S, m, f)
  <2>1. m \in 1..m
    OBVIOUS
  <2>2. m \notin Missing
    BY <1>1
  <2> QED
    BY <2>1, <2>2
<1>3. f = [k \in 1..m |-> IF k = 1 THEN seqs[k] ELSE f[k - 1] \o seqs[k]]
  BY <1>2 DEF Partial
<1> DEFINE g == CHOOSE h : h = [k \in 1..m |-> IF k = 1 THEN seqs[k] ELSE h[k - 1] \o seqs[k]]
<1>4. g = [k \in 1..m |-> IF k = 1 THEN seqs[k] ELSE g[k - 1] \o seqs[k]]
  BY <1>3
<1>5. Len(seqs) = m
  BY LengthType
<1>6. FlattenSeq(seqs) = g[m]
  BY <1>5 DEF FlattenSeq
<1> HIDE DEF g
<1> DEFINE Differ == {k \in 1..m : g[k] # f[k]}
<1>7. Differ = {}
  <2> SUFFICES ASSUME Differ # {} PROVE FALSE
    OBVIOUS
  <2>1. Differ \in SUBSET Nat
    OBVIOUS
  <2>2. PICK k \in Differ : \A j \in Differ : k <= j
    <3> HIDE DEF Differ
    <3> QED
      BY <2>1, LeastNat
  <2>3. k \in 1..m /\ g[k] # f[k]
    OBVIOUS
  <2>4. k # 1 => k - 1 \in 1..m /\ ~ (k <= k - 1)
    BY <2>3
  <2>5. k # 1 => g[k - 1] = f[k - 1]
    BY <2>2, <2>4
  <2>6. /\ g[k] = IF k = 1 THEN seqs[k] ELSE g[k - 1] \o seqs[k]
        /\ f[k] = IF k = 1 THEN seqs[k] ELSE f[k - 1] \o seqs[k]
    BY <1>3, <1>4, <2>3
  <2> QED
    BY <2>3, <2>5, <2>6
<1>8. FlattenSeq(seqs) = f[m]
  BY <1>6, <1>7
<1> QED
  BY <1>2, <1>8

\* If the first l of the sequences are the pieces of s, cut at the given places, then s comes
\* first in what FlattenSeq makes of all, and is all of it if they are all.
Pieces(seqs, s, l, cut) ==
  /\ cut[0] = 0 /\ cut[l] = Len(s)
  /\ \A k \in 1..l : /\ cut[k - 1] \in Nat /\ cut[k] \in Nat
                     /\ Len(seqs[k]) = cut[k] - cut[k - 1]
                     /\ \A b \in 1..Len(seqs[k]) : seqs[k][b] = s[cut[k - 1] + b]
LEMMA FlattenPieces ==
  ASSUME NEW S, NEW m \in Nat \ {0}, NEW seqs \in [1..m -> Seq(S)], NEW s \in Seq(S),
         NEW l \in 1..m, NEW cut, Pieces(seqs, s, l, cut)
  PROVE  /\ FlattenSeq(seqs) \in Seq(S)
         /\ Len(s) <= Len(FlattenSeq(seqs))
         /\ \A b \in 1..Len(s) : FlattenSeq(seqs)[b] = s[b]
         /\ l = m => FlattenSeq(seqs) = s
<1>1. PICK f : Partial(seqs, S, m, f) /\ FlattenSeq(seqs) = f[m]
  BY FlattenSteps
<1>2. \A k \in 1..m : f[k] \in Seq(S) /\ Len(f[k]) \in Nat /\ seqs[k] \in Seq(S) /\ Len(seqs[k]) \in Nat
  <2>1. \A k \in 1..m : f[k] \in Seq(S) /\ seqs[k] \in Seq(S)
    BY <1>1 DEF Partial
  <2> QED
    BY <2>1, LenProperties
<1>3. Len(s) \in Nat
  BY LenProperties
<1>4. ASSUME NEW k \in 1..m, k # 1
      PROVE  /\ k - 1 \in 1..m /\ k - 1 < k
             /\ Len(f[k]) = Len(f[k - 1]) + Len(seqs[k])
             /\ \A b \in 1..Len(f[k]) :
                  f[k][b] = IF b <= Len(f[k - 1]) THEN f[k - 1][b] ELSE seqs[k][b - Len(f[k - 1])]
  <2>1. k - 1 \in 1..m /\ k - 1 < k
    BY <1>4
  <2>2. f[k] = f[k - 1] \o seqs[k]
    BY <1>1, <1>4 DEF Partial
  <2>3. f[k - 1] \in Seq(S) /\ seqs[k] \in Seq(S)
    BY <1>2, <2>1
  <2> QED
    BY <2>1, <2>2, <2>3, ConcatProperties
<1>5. f[1] = seqs[1] /\ 1 \in 1..m /\ m \in 1..m
  BY <1>1 DEF Partial
<1> DEFINE Right(k) == IF k <= l THEN Len(f[k]) = cut[k] /\ \A b \in 1..cut[k] : f[k][b] = s[b]
                                 ELSE Len(s) <= Len(f[k]) /\ \A b \in 1..Len(s) : f[k][b] = s[b]
           Wrong == {k \in 1..m : ~ Right(k)}
<1>6. ASSUME NEW k \in 1..m, k # 1 => Right(k - 1) PROVE Right(k)
  <2>1. CASE k = 1
    <3>1. 1 \in 1..l /\ 1 - 1 = 0
      OBVIOUS
    <3>2. cut[0] = 0 /\ cut[1] \in Nat /\ Len(seqs[1]) = cut[1] - cut[0]
      BY <3>1 DEF Pieces
    <3>3. \A b \in 1..Len(seqs[1]) : seqs[1][b] = s[cut[0] + b]
      BY <3>1 DEF Pieces
    <3>4. Len(seqs[1]) = cut[1] /\ \A b \in 1..cut[1] : seqs[1][b] = s[b]
      BY <3>2, <3>3
    <3> QED
      BY <1>5, <2>1, <3>1, <3>4
  <2>2. CASE k # 1 /\ k <= l
    <3>1. k \in 1..l /\ k - 1 <= l
      BY <2>2
    <3>2. Len(f[k - 1]) = cut[k - 1] /\ \A b \in 1..cut[k - 1] : f[k - 1][b] = s[b]
      BY <1>6, <2>2, <3>1
    <3>3. /\ cut[k - 1] \in Nat /\ cut[k] \in Nat /\ Len(seqs[k]) = cut[k] - cut[k - 1]
          /\ \A b \in 1..Len(seqs[k]) : seqs[k][b] = s[cut[k - 1] + b]
      BY <3>1 DEF Pieces
    <3>6. Len(f[k]) = Len(f[k - 1]) + Len(seqs[k])
      BY <1>4, <2>2
    <3>4. Len(f[k]) = cut[k]
      BY <3>2, <3>3, <3>6
    <3>5. ASSUME NEW b \in 1..cut[k] PROVE f[k][b] = s[b]
      <4>1. f[k][b] = IF b <= cut[k - 1] THEN f[k - 1][b] ELSE seqs[k][b - cut[k - 1]]
        BY <1>4, <2>2, <3>2, <3>4
      <4>4. cut[k - 1] \in Nat /\ cut[k] \in Nat /\ b \in Nat /\ 1 <= b /\ b <= cut[k]
        BY <3>3
      <4>2. CASE b <= cut[k - 1]
        <5>1. b \in 1..cut[k - 1]
          BY <4>2, <4>4
        <5>2. f[k - 1][b] = s[b]
          BY <3>2, <5>1
        <5> QED
          BY <4>1, <4>2, <5>2
      <4>3. CASE ~ (b <= cut[k - 1])
        <5>1. b - cut[k - 1] \in 1..Len(seqs[k]) /\ cut[k - 1] + (b - cut[k - 1]) = b
          <6>1. Len(seqs[k]) = cut[k] - cut[k - 1]
            BY <3>3
          <6> QED
            BY <4>3, <4>4, <6>1
        <5> QED
          BY <3>3, <4>1, <4>3, <5>1
      <4> QED
        BY <4>2, <4>3
    <3> QED
      BY <2>2, <3>4, <3>5
  <2>3. CASE ~ (k <= l)
    <3>1. k # 1 /\ k - 1 \in 1..m /\ (k - 1 <= l => k - 1 = l)
      BY <2>3
    <3>2. Len(s) <= Len(f[k - 1]) /\ \A b \in 1..Len(s) : f[k - 1][b] = s[b]
      <4>1. CASE k - 1 <= l
        <5>1. cut[k - 1] = Len(s)
          BY <3>1, <4>1 DEF Pieces
        <5> QED
          BY <1>3, <1>6, <3>1, <4>1, <5>1
      <4>2. CASE ~ (k - 1 <= l)
        BY <1>6, <3>1, <4>2
      <4> QED
        BY <4>1, <4>2
    <3>3. Len(f[k - 1]) \in Nat /\ Len(seqs[k]) \in Nat
      BY <1>2, <3>1
    <3>5. /\ Len(f[k]) = Len(f[k - 1]) + Len(seqs[k])
          /\ \A b \in 1..Len(f[k]) :
               f[k][b] = IF b <= Len(f[k - 1]) THEN f[k - 1][b] ELSE seqs[k][b - Len(f[k - 1])]
      BY <1>4, <3>1
    <3>6. Len(s) <= Len(f[k])
      BY <1>3, <3>2, <3>3, <3>5
    <3>7. \A b \in 1..Len(s) : b \in 1..Len(f[k]) /\ b <= Len(f[k - 1])
      BY <1>3, <3>2, <3>3, <3>6, <3>5
    <3>4. Len(s) <= Len(f[k]) /\ \A b \in 1..Len(s) : f[k][b] = s[b]
      BY <3>2, <3>5, <3>6, <3>7
    <3> QED
      BY <2>3, <3>4
  <2> QED
    BY <2>1, <2>2, <2>3
<1>7. Wrong = {}
  <2> SUFFICES ASSUME Wrong # {} PROVE FALSE
    OBVIOUS
  <2>1. Wrong \in SUBSET Nat /\ Wrong \in SUBSET (1..m) /\ \A k \in 1..m : k \notin Wrong => Right(k)
    OBVIOUS
  <2>2. \A k \in Wrong : ~ Right(k)
    OBVIOUS
  <2> HIDE DEF Wrong, Right
  <2>3. PICK k \in Wrong : \A j \in Wrong : k <= j
    BY <2>1, LeastNat
  <2>4. k \in 1..m /\ (k # 1 => k - 1 \in 1..m /\ ~ (k <= k - 1))
    BY <2>1
  <2>5. k # 1 => Right(k - 1)
    BY <2>1, <2>3, <2>4
  <2> QED
    BY <1>6, <2>2, <2>4, <2>5
<1>8. Right(m)
  BY <1>5, <1>7
<1>9. cut[l] = Len(s)
  BY DEF Pieces
<1>10. Len(s) <= Len(f[m]) /\ (\A b \in 1..Len(s) : f[m][b] = s[b]) /\ (l = m => Len(f[m]) = Len(s))
  <2>1. CASE m <= l
    <3>1. m = l
      BY <2>1
    <3> QED
      BY <1>3, <1>8, <1>9, <3>1
  <2>2. CASE ~ (m <= l)
    <3>1. l # m
      BY <2>2
    <3> QED
      BY <1>8, <2>2, <3>1
  <2> QED
    BY <2>1, <2>2
<1>11. l = m => f[m] = s
  BY <1>2, <1>5, <1>10, SeqEqual
<1> QED
  BY <1>1, <1>2, <1>5, <1>10, <1>11

-----------------------------------------------------------------------------
(* The chunks of a file.                                                   *)

\* Not all but the last of a file's chunks hold it, and all do.
LEMMA ChunksType ==
  ASSUME NEW size \in Nat \ {0}
  PROVE  /\ ChunksOf(size) \in Nat \ {0}
         /\ (ChunksOf(size) - 1) * ChunkSize < size
         /\ size <= ChunksOf(size) * ChunkSize
<1> DEFINE m == (size + ChunkSize - 1) \div ChunkSize
<1>1. ChunkSize \in Nat \ {0}
  BY ArchiveAssumption
<1>2. m \in Nat /\ m * ChunkSize >= size /\ (m - 1) * ChunkSize < size
  BY <1>1
<1> HIDE DEF m
<1>3. m # 0
  BY <1>1, <1>2
<1> QED
  BY <1>1, <1>2, <1>3 DEF ChunksOf, m

LEMMA OffsetOrder ==
  ASSUME NEW c \in Int, NEW d \in Int
  PROVE  /\ ChunkOffset(c) \in Int
         /\ c >= 1 => ChunkOffset(c) \in Nat
         /\ c < d => ChunkOffset(c) + ChunkSize <= ChunkOffset(d)
         /\ ChunkOffset(c + 1) = ChunkOffset(c) + ChunkSize
         /\ ChunkOffset(1) = 0
<1>1. ChunkSize \in Nat \ {0}
  BY ArchiveAssumption
<1>2. ChunkOffset(c) \in Int /\ ChunkOffset(1) = 0
  BY <1>1 DEF ChunkOffset
<1>3. c >= 1 => ChunkOffset(c) >= 0
  BY <1>1 DEF ChunkOffset
<1>4. c < d => (c - 1) * ChunkSize + ChunkSize <= (d - 1) * ChunkSize
  BY <1>1
<1>5. ((c + 1) - 1) * ChunkSize = (c - 1) * ChunkSize + ChunkSize
  BY <1>1
<1> QED
  BY <1>2, <1>3, <1>4, <1>5 DEF ChunkOffset

\* Each chunk but the last has ChunkSize bytes, and the last one what is left.
LEMMA ChunkFacts ==
  ASSUME NEW size \in Nat \ {0}, NEW c \in 1..ChunksOf(size)
  PROVE  /\ ChunkOffset(c) \in Nat /\ ChunkLength(c, size) \in Nat \ {0}
         /\ ChunkLength(c, size) <= ChunkSize
         /\ ChunkOffset(c) + ChunkLength(c, size) <= size
         /\ c < ChunksOf(size) => ChunkLength(c, size) = ChunkSize
         /\ c = ChunksOf(size) => ChunkOffset(c) + ChunkLength(c, size) = size
<1> DEFINE m == ChunksOf(size)
<1>1. ChunkSize \in Nat \ {0}
  BY ArchiveAssumption
<1>2. m \in Nat \ {0} /\ (m - 1) * ChunkSize < size /\ size <= m * ChunkSize
  BY ChunksType
<1> HIDE DEF m
<1>3. c \in 1..m /\ c \in Int /\ c >= 1
  BY DEF m
<1>4. ChunkOffset(c) \in Nat
  BY <1>3, OffsetOrder
<1>5. ChunkOffset(m) < size /\ size <= ChunkOffset(m) + ChunkSize
  <2>1. ChunkOffset(m + 1) = ChunkOffset(m) + ChunkSize
    BY <1>2, OffsetOrder
  <2>2. ChunkOffset(m + 1) = m * ChunkSize /\ ChunkOffset(m) = (m - 1) * ChunkSize
    BY <1>2 DEF ChunkOffset
  <2> QED
    BY <1>2, <2>1, <2>2
<1>6. c < m => ChunkOffset(c) + ChunkSize <= ChunkOffset(m)
  BY <1>2, <1>3, OffsetOrder
<1>7. c < m => ChunkOffset(c) + ChunkSize < size
  <2>1. ChunkOffset(m) \in Int
    BY <1>2, OffsetOrder
  <2> QED
    BY <1>1, <1>4, <1>5, <1>6, <2>1
<1>8. ChunkLength(c, size) =
        IF ChunkSize <= size - ChunkOffset(c) THEN ChunkSize ELSE size - ChunkOffset(c)
  BY <1>1, <1>4, MinOfTwo DEF ChunkLength
<1>9. CASE c < m
  BY <1>1, <1>4, <1>7, <1>8, <1>9 DEF m
<1>10. CASE c = m
  BY <1>1, <1>4, <1>5, <1>8, <1>10 DEF m
<1> QED
  BY <1>2, <1>3, <1>9, <1>10

-----------------------------------------------------------------------------
(* What the Writer has written.                                            *)

Bytes == [of : Nat, at : Int]
Members == [at : Nat, data : Seq(Bytes)]
TocEntries ==
  [name : Seq(Seq(STRING)), type : {"reg", "dir", "symlink", "hardlink", "chunk"}, size : Nat,
   link : {h.link : h \in Headers}, offset : Nat, chunkOffset : Nat, chunkSize : Nat, compressed : Nat]

TypeInv ==
  /\ tar \in Seq(Headers)
  /\ members \in Seq(Members)
  /\ gz = <<>> \/ \E g \in Seq(Bytes) : gz = <<g>>
  /\ n \in Nat /\ footer \in Nat
  /\ toc \in Seq(TocEntries)

\* A file with bytes has an entry for each of its chunks, anything else has one.
Big(h) == h.type = "reg" /\ h.size > 0
Spread(h) == IF Big(h) THEN ChunksOf(h.size) ELSE 1

\* The members follow each other.
End(ms, k) == ms[k].at + Zipped(ms[k].data)
Ordered(ms, end) ==
  /\ \A k \in 1..Len(ms) : End(ms, k) <= end
  /\ \A j, k \in 1..Len(ms) : j < k => End(ms, j) <= ms[k].at

\* The k-th header's first entry is the e-th of t, and the member of its first chunk the f-th
\* of ms.
Placed(t, ms, h, k, e, f) ==
  /\ e \in 1..Len(t) /\ e + Spread(h) <= Len(t) + 1
  /\ ~ Big(h) => t[e] = EntryOf(h)
  /\ Big(h) =>
       /\ f \in 1..Len(ms) /\ f + Spread(h) <= Len(ms) + 1
       /\ ms[f].at > 0
       /\ \A c \in 1..Spread(h) :
            /\ t[e + c - 1] = ChunkEntry(h, ms[f].at, c)
            /\ ms[f + c - 1] = MemberAt(ChunkAt(ms[f].at, c), ChunkBytes(k, c, h.size))

\* The entries of the headers follow each other and are all there are, and so are the chunks.
Layout(hs, t, ms, e, f) ==
  /\ e \in [1..Len(hs) -> Nat] /\ f \in [1..Len(hs) -> Nat]
  /\ \A k \in 1..Len(hs) : Placed(t, ms, hs[k], k, e[k], f[k])
  /\ \A j, k \in 1..Len(hs) : j < k =>
       /\ e[j] + Spread(hs[j]) <= e[k]
       /\ Big(hs[j]) /\ Big(hs[k]) => f[j] + Spread(hs[j]) <= f[k]
  /\ \A i \in 1..Len(t) : \E k \in 1..Len(hs) : e[k] <= i /\ i < e[k] + Spread(hs[k])

ArchiveInv ==
  /\ TypeInv
  /\ Ordered(members, n)
  /\ \E e, f : Layout(tar, toc, members, e, f)

LEMMA HeaderType ==
  ASSUME NEW h \in Headers
  PROVE  /\ h.size \in Nat /\ h.name \in Seq(Seq(STRING))
         /\ EntryOf(h) \in TocEntries
         /\ Spread(h) \in Nat \ {0}
         /\ Big(h) => h.size \in Nat \ {0}
         /\ \A first \in Nat : \A c \in 1..Spread(h) :
              Big(h) => ChunkAt(first, c) \in Nat /\ ChunkEntry(h, first, c) \in TocEntries
<1>1. /\ h.size \in Nat /\ h.name \in Seq(Seq(STRING))
      /\ h.type \in {"reg", "dir", "symlink", "hardlink"} /\ ChunkSize \in Nat \ {0}
  BY ArchiveAssumption
<1>2. EntryOf(h) \in TocEntries
  BY <1>1 DEF EntryOf, TocEntries
<1>3. Big(h) => h.size \in Nat \ {0}
  BY <1>1 DEF Big
<1>4. Spread(h) \in Nat \ {0}
  BY <1>3, ChunksType DEF Spread
<1>5. ASSUME NEW first \in Nat, NEW c \in 1..Spread(h), Big(h)
      PROVE  ChunkAt(first, c) \in Nat /\ ChunkEntry(h, first, c) \in TocEntries
  <2>1. c \in 1..ChunksOf(h.size) /\ c >= 1 /\ c \in Nat
    BY <1>4, <1>5 DEF Spread
  <2>2. ChunkOffset(c) \in Nat /\ ChunkLength(c, h.size) \in Nat
    BY <1>3, <1>5, <2>1, ChunkFacts
  <2>3. ChunkAt(first, c) \in Nat
    BY <1>1, <2>1 DEF ChunkAt
  <2>4. CompressedSize(c, h.size) \in Nat
    BY <2>2 DEF CompressedSize
  <2> QED
    BY <1>1, <2>2, <2>3, <2>4 DEF ChunkEntry, EntryOf, TocEntries
<1> QED
  BY <1>1, <1>2, <1>3, <1>4, <1>5

\* The bytes of a chunk, and where its member ends.
LEMMA ChunkType ==
  ASSUME NEW size \in Nat \ {0}, NEW c \in 1..ChunksOf(size), NEW k \in Nat, NEW first \in Nat
  PROVE  /\ ChunkBytes(k, c, size) \in Seq(Bytes)
         /\ Len(ChunkBytes(k, c, size)) = ChunkLength(c, size)
         /\ \A b \in 1..ChunkLength(c, size) : ChunkBytes(k, c, size)[b] = Byte(k, ChunkOffset(c) + b)
         /\ ChunkAt(first, c) \in Nat /\ first <= ChunkAt(first, c) /\ ChunkAt(first, 1) = first
         /\ MemberAt(ChunkAt(first, c), ChunkBytes(k, c, size)) \in Members
         /\ Zipped(ChunkBytes(k, c, size)) = ChunkLength(c, size) + 1
         /\ \A d \in Int : c < d =>
              ChunkAt(first, c) + Zipped(ChunkBytes(k, c, size)) <= ChunkAt(first, d)
<1>1. /\ ChunkOffset(c) \in Nat /\ ChunkLength(c, size) \in Nat /\ ChunkLength(c, size) <= ChunkSize
      /\ ChunkSize \in Nat \ {0}
  BY ArchiveAssumption, ChunkFacts
<1>2. ChunkBytes(k, c, size) \in [1..ChunkLength(c, size) -> Bytes]
  BY <1>1 DEF ChunkBytes, Byte, Bytes
<1>3. /\ ChunkBytes(k, c, size) \in Seq(Bytes)
      /\ Len(ChunkBytes(k, c, size)) = ChunkLength(c, size)
  BY <1>1, <1>2, LengthType
<1>4. c \in Nat /\ c >= 1
  BY ChunksType
<1>5. ChunkAt(first, c) \in Nat /\ first <= ChunkAt(first, c) /\ ChunkAt(first, 1) = first
  <2>1. (c - 1) * (ChunkSize + 1) \in Nat /\ (1 - 1) * (ChunkSize + 1) = 0
    BY <1>1, <1>4
  <2> QED
    BY <2>1 DEF ChunkAt
<1>6. MemberAt(ChunkAt(first, c), ChunkBytes(k, c, size)) \in Members
  BY <1>3, <1>5 DEF MemberAt, Members
<1>7. Zipped(ChunkBytes(k, c, size)) = ChunkLength(c, size) + 1
  BY <1>3 DEF Zipped
<1>8. ASSUME NEW d \in Int, c < d
      PROVE  ChunkAt(first, c) + Zipped(ChunkBytes(k, c, size)) <= ChunkAt(first, d)
  <2>1. (c - 1) * (ChunkSize + 1) + (ChunkSize + 1) <= (d - 1) * (ChunkSize + 1)
    BY <1>1, <1>4, <1>8
  <2>2. ChunkAt(first, c) + (ChunkSize + 1) <= ChunkAt(first, d) /\ ChunkAt(first, d) \in Int
    BY <1>1, <1>4, <2>1 DEF ChunkAt
  <2> QED
    BY <1>1, <1>5, <1>7, <2>2
<1>9. \A b \in 1..ChunkLength(c, size) : ChunkBytes(k, c, size)[b] = Byte(k, ChunkOffset(c) + b)
  BY DEF ChunkBytes
<1> QED
  BY <1>3, <1>5, <1>6, <1>7, <1>8, <1>9

\* A member in Members has its end.
LEMMA EndType ==
  ASSUME NEW ms \in Seq(Members), NEW k \in 1..Len(ms)
  PROVE  /\ ms[k] \in Members /\ ms[k].at \in Nat /\ ms[k].data \in Seq(Bytes)
         /\ End(ms, k) \in Nat /\ ms[k].at < End(ms, k)
<1>1. ms[k] \in Members
  BY ElementOfSeq
<1>2. ms[k].at \in Nat /\ ms[k].data \in Seq(Bytes) /\ Len(ms[k].data) \in Nat
  BY <1>1, LenProperties DEF Members
<1> QED
  BY <1>1, <1>2 DEF End, Zipped

LEMMA OrderedConcat ==
  ASSUME NEW ms \in Seq(Members), NEW more \in Seq(Members), NEW a \in Int, NEW b \in Int, a <= b,
         Ordered(ms, a), Ordered(more, b), \A k \in 1..Len(more) : a <= more[k].at
  PROVE  Ordered(ms \o more, b)
<1> DEFINE all == ms \o more
           l == Len(ms)
<1>1. /\ l \in Nat /\ Len(more) \in Nat /\ Len(all) = l + Len(more)
      /\ all \in Seq(Members)
      /\ \A k \in 1..Len(all) : all[k] = IF k <= l THEN ms[k] ELSE more[k - l]
  BY ConcatProperties, LenProperties
<1> HIDE DEF all
<1>2. ASSUME NEW k \in 1..Len(all), k <= l
      PROVE  k \in 1..l /\ End(all, k) = End(ms, k) /\ End(all, k) <= a /\ End(all, k) \in Nat /\ all[k] = ms[k]
  BY <1>1, <1>2, EndType DEF Ordered, End
<1>3. ASSUME NEW k \in 1..Len(all), ~ (k <= l)
      PROVE  /\ k - l \in 1..Len(more) /\ End(all, k) = End(more, k - l) /\ End(all, k) <= b
             /\ End(all, k) \in Nat
             /\ all[k].at = more[k - l].at /\ a <= all[k].at /\ all[k].at \in Nat
  <2>1. k - l \in 1..Len(more)
    BY <1>1, <1>3
  <2> QED
    BY <1>1, <1>3, <2>1, EndType DEF Ordered, End
<1>4. \A k \in 1..Len(all) : End(all, k) <= b
  BY <1>2, <1>3
<1>5. ASSUME NEW j \in 1..Len(all), NEW k \in 1..Len(all), j < k PROVE End(all, j) <= all[k].at
  <2>1. CASE k <= l
    <3>1. j <= l
      BY <1>1, <1>5, <2>1
    <3> QED
      BY <1>2, <1>5, <2>1, <3>1 DEF Ordered
  <2>2. CASE ~ (k <= l) /\ j <= l
    BY <1>2, <1>3, <2>2
  <2>3. CASE ~ (k <= l) /\ ~ (j <= l)
    <3>1. j - l < k - l
      BY <1>1, <1>5
    <3> QED
      BY <1>3, <2>3, <3>1 DEF Ordered
  <2> QED
    BY <2>1, <2>2, <2>3
<1> QED
  BY <1>4, <1>5 DEF Ordered, all

LEMMA OrderedOne ==
  ASSUME NEW x \in Members, NEW b \in Int, x.at + Zipped(x.data) <= b
  PROVE  <<x>> \in Seq(Members) /\ Len(<<x>>) = 1 /\ <<x>>[1] = x /\ Ordered(<<x>>, b)
<1>1. <<x>> \in Seq(Members) /\ Len(<<x>>) = 1 /\ <<x>>[1] = x
  OBVIOUS
<1>2. End(<<x>>, 1) <= b
  BY <1>1 DEF End
<1>3. \A j, k \in 1..1 : ~ (j < k)
  OBVIOUS
<1>4. \A j \in 1..1 : j = 1
  OBVIOUS
<1> QED
  BY <1>1, <1>2, <1>3, <1>4 DEF Ordered

LEMMA OrderedChunks ==
  ASSUME NEW size \in Nat \ {0}, NEW k \in Nat, NEW first \in Nat
  PROVE  LET chunks == ChunksOf(size)
             ms == [c \in 1..chunks |-> MemberAt(ChunkAt(first, c), ChunkBytes(k, c, size))]
             end == ChunkAt(first, chunks) + ChunkLength(chunks, size) + 1
         IN /\ ms \in Seq(Members) /\ Len(ms) = chunks /\ chunks \in Nat \ {0}
            /\ end \in Nat /\ first <= end
            /\ Ordered(ms, end)
            /\ \A c \in 1..Len(ms) : first <= ms[c].at
<1> DEFINE chunks == ChunksOf(size)
           ms == [c \in 1..chunks |-> MemberAt(ChunkAt(first, c), ChunkBytes(k, c, size))]
           end == ChunkAt(first, chunks) + ChunkLength(chunks, size) + 1
<1>1. chunks \in Nat \ {0} /\ chunks \in 1..chunks
  BY ChunksType
<1>2. ms \in [1..chunks -> Members]
  BY ChunkType
<1>3. ms \in Seq(Members) /\ Len(ms) = chunks
  <2> HIDE DEF ms, chunks
  <2> QED
    BY <1>1, <1>2, LengthType
<1>4. ASSUME NEW c \in 1..chunks
      PROVE  /\ ms[c].at = ChunkAt(first, c) /\ ms[c].at \in Nat /\ first <= ms[c].at
             /\ End(ms, c) = ChunkAt(first, c) + Zipped(ChunkBytes(k, c, size))
             /\ End(ms, c) = ChunkAt(first, c) + ChunkLength(c, size) + 1
             /\ End(ms, c) \in Nat
             /\ \A d \in Int : c < d => End(ms, c) <= ChunkAt(first, d)
  <2>1. ms[c] = MemberAt(ChunkAt(first, c), ChunkBytes(k, c, size))
    OBVIOUS
  <2>2. ChunkLength(c, size) \in Nat
    BY ChunkFacts
  <2>3. /\ ChunkAt(first, c) \in Nat /\ first <= ChunkAt(first, c)
        /\ Zipped(ChunkBytes(k, c, size)) = ChunkLength(c, size) + 1
        /\ \A d \in Int : c < d => ChunkAt(first, c) + Zipped(ChunkBytes(k, c, size)) <= ChunkAt(first, d)
    BY ChunkType
  <2> HIDE DEF ms
  <2>4. ms[c].at = ChunkAt(first, c) /\ ms[c].data = ChunkBytes(k, c, size)
    BY <2>1 DEF MemberAt
  <2>5. End(ms, c) = ChunkAt(first, c) + Zipped(ChunkBytes(k, c, size))
    BY <2>4 DEF End
  <2> QED
    BY <2>2, <2>3, <2>4, <2>5
<1> HIDE DEF ms, chunks
<1>5. end = End(ms, chunks) /\ end \in Nat /\ first <= end
  <2>1. ChunkLength(chunks, size) \in Nat
    BY <1>1, ChunkFacts DEF chunks
  <2>2. /\ ms[chunks].at = ChunkAt(first, chunks) /\ ms[chunks].at \in Nat /\ first <= ms[chunks].at
        /\ End(ms, chunks) = ChunkAt(first, chunks) + ChunkLength(chunks, size) + 1
    BY <1>1, <1>4
  <2> QED
    BY <2>1, <2>2
<1>6. ASSUME NEW c \in 1..chunks PROVE End(ms, c) <= end
  <2>1. CASE c = chunks
    BY <1>5, <2>1
  <2>2. CASE c # chunks
    <3>1. c < chunks /\ chunks \in Int
      BY <1>1, <2>2
    <3>2. End(ms, c) <= ChunkAt(first, chunks) /\ ChunkAt(first, chunks) \in Nat
      BY <1>1, <1>4, <3>1
    <3>3. ChunkLength(chunks, size) \in Nat
      BY <1>1, ChunkFacts DEF chunks
    <3> QED
      BY <1>4, <3>2, <3>3
  <2> QED
    BY <2>1, <2>2
<1>7. ASSUME NEW c \in 1..chunks, NEW d \in 1..chunks, c < d PROVE End(ms, c) <= ms[d].at
  BY <1>4, <1>7
<1>8. Ordered(ms, end)
  <2> HIDE DEF end
  <2> QED
    BY <1>3, <1>6, <1>7 DEF Ordered
<1> QED
  BY <1>1, <1>3, <1>4, <1>5, <1>8 DEF ms, chunks

-----------------------------------------------------------------------------
(* Every step of the Writer keeps ArchiveInv.                              *)

\* Longer is what begins with seq.
Longer(seq, longer) == Len(seq) <= Len(longer) /\ \A i \in 1..Len(seq) : longer[i] = seq[i]

LEMMA LongerConcat ==
  ASSUME NEW S, NEW seq \in Seq(S), NEW more \in Seq(S)
  PROVE  /\ Longer(seq, seq \o more) /\ seq \o more \in Seq(S)
         /\ Len(seq) \in Nat /\ Len(more) \in Nat /\ Len(seq \o more) = Len(seq) + Len(more)
         /\ \A i \in 1..Len(more) : (seq \o more)[Len(seq) + i] = more[i]
<1>1. /\ Len(seq) \in Nat /\ Len(more) \in Nat /\ Len(seq \o more) = Len(seq) + Len(more)
      /\ seq \o more \in Seq(S)
      /\ \A i \in 1..Len(seq) + Len(more) :
           (seq \o more)[i] = IF i <= Len(seq) THEN seq[i] ELSE more[i - Len(seq)]
  BY ConcatProperties, LenProperties
<1>2. Longer(seq, seq \o more)
  BY <1>1 DEF Longer
<1>3. ASSUME NEW i \in 1..Len(more) PROVE (seq \o more)[Len(seq) + i] = more[i]
  <2>1. Len(seq) + i \in 1..Len(seq) + Len(more) /\ ~ (Len(seq) + i <= Len(seq)) /\ (Len(seq) + i) - Len(seq) = i
    BY <1>1
  <2> QED
    BY <1>1, <2>1
<1> QED
  BY <1>1, <1>2, <1>3

LEMMA PlacedKept ==
  ASSUME NEW h \in Headers, NEW k, NEW t \in Seq(TocEntries), NEW u \in Seq(TocEntries),
         NEW ms \in Seq(Members), NEW ns \in Seq(Members), Longer(t, u), Longer(ms, ns),
         NEW e \in Nat, NEW f \in Nat, Placed(t, ms, h, k, e, f)
  PROVE  Placed(u, ns, h, k, e, f)
<1>1. /\ Len(t) \in Nat /\ Len(u) \in Nat /\ Len(ms) \in Nat /\ Len(ns) \in Nat
      /\ Len(t) <= Len(u) /\ Len(ms) <= Len(ns) /\ Spread(h) \in Nat \ {0}
  BY LenProperties, HeaderType DEF Longer
<1>2. /\ e \in 1..Len(t) /\ e + Spread(h) <= Len(t) + 1
      /\ Big(h) => f \in 1..Len(ms) /\ f + Spread(h) <= Len(ms) + 1
  BY DEF Placed
<1>3. e \in 1..Len(u) /\ e + Spread(h) <= Len(u) + 1 /\ u[e] = t[e]
  BY <1>1, <1>2 DEF Longer
<1>4. Big(h) => f \in 1..Len(ns) /\ f + Spread(h) <= Len(ns) + 1 /\ ns[f] = ms[f]
  BY <1>1, <1>2 DEF Longer
<1>5. ASSUME Big(h), NEW c \in 1..Spread(h) PROVE u[e + c - 1] = t[e + c - 1] /\ ns[f + c - 1] = ms[f + c - 1]
  <2>1. e + c - 1 \in 1..Len(t) /\ f + c - 1 \in 1..Len(ms)
    BY <1>1, <1>2, <1>5
  <2> QED
    BY <2>1 DEF Longer
<1>6. ~ Big(h) => u[e] = EntryOf(h)
  BY <1>3 DEF Placed
<1>7. Big(h) => /\ ns[f].at > 0
                /\ \A c \in 1..Spread(h) :
                     /\ u[e + c - 1] = ChunkEntry(h, ns[f].at, c)
                     /\ ns[f + c - 1] = MemberAt(ChunkAt(ns[f].at, c), ChunkBytes(k, c, h.size))
  BY <1>4, <1>5 DEF Placed
<1> QED
  BY <1>3, <1>4, <1>6, <1>7 DEF Placed

\* One more header with its entries and chunks after all others.
LEMMA LayoutMore ==
  ASSUME NEW hs \in Seq(Headers), NEW h \in Headers,
         NEW t \in Seq(TocEntries), NEW u \in Seq(TocEntries), Longer(t, u),
         NEW ms \in Seq(Members), NEW ns \in Seq(Members), Longer(ms, ns),
         NEW e, NEW f, Layout(hs, t, ms, e, f),
         NEW first \in Nat, Len(ms) < first,
         Placed(u, ns, h, Len(hs) + 1, Len(t) + 1, first),
         Len(u) = Len(t) + Spread(h)
  PROVE  \E e2, f2 : Layout(Append(hs, h), u, ns, e2, f2)
<1> DEFINE l == Len(hs)
           all == Append(hs, h)
           e2 == [k \in 1..(l + 1) |-> IF k <= l THEN e[k] ELSE Len(t) + 1]
           f2 == [k \in 1..(l + 1) |-> IF k <= l THEN f[k] ELSE first]
<1>1. /\ l \in Nat /\ Len(all) = l + 1 /\ Len(t) \in Nat /\ Len(ms) \in Nat
      /\ all[l + 1] = h /\ \A k \in 1..l : all[k] = hs[k] /\ hs[k] \in Headers
  <2>1. l \in Nat /\ Len(t) \in Nat /\ Len(ms) \in Nat /\ \A k \in 1..l : hs[k] \in Headers
    BY LenProperties, ElementOfSeq
  <2>2. Len(all) = l + 1 /\ all[l + 1] = h
    BY AppendProperties
  <2>3. \A k \in 1..l : all[k] = hs[k]
    BY AppendProperties
  <2> QED
    BY <2>1, <2>2, <2>3
<1>2. /\ e \in [1..l -> Nat] /\ f \in [1..l -> Nat]
      /\ \A k \in 1..l : Placed(t, ms, hs[k], k, e[k], f[k])
      /\ \A j, k \in 1..l : j < k =>
           /\ e[j] + Spread(hs[j]) <= e[k]
           /\ Big(hs[j]) /\ Big(hs[k]) => f[j] + Spread(hs[j]) <= f[k]
      /\ \A i \in 1..Len(t) : \E k \in 1..l : e[k] <= i /\ i < e[k] + Spread(hs[k])
  BY DEF Layout
<1> HIDE DEF all
<1>3. e2 \in [1..Len(all) -> Nat] /\ f2 \in [1..Len(all) -> Nat]
  <2>1. \A k \in 1..(l + 1) : k <= l => k \in 1..l
    BY <1>1
  <2>2. e \in [1..l -> Nat] /\ f \in [1..l -> Nat] /\ Len(t) + 1 \in Nat
    BY <1>1, <1>2
  <2>3. \A k \in 1..(l + 1) : k <= l => e[k] \in Nat /\ f[k] \in Nat
    BY <2>1, <2>2
  <2> HIDE DEF l
  <2>4. e2 \in [1..(l + 1) -> Nat] /\ f2 \in [1..(l + 1) -> Nat]
    BY <2>2, <2>3
  <2> QED
    BY <1>1, <2>4
<1>4. \A k \in 1..l : k \in 1..(l + 1) /\ e2[k] = e[k] /\ f2[k] = f[k] /\ e[k] \in Nat /\ f[k] \in Nat
  <2>1. e \in [1..l -> Nat] /\ f \in [1..l -> Nat]
    BY <1>2
  <2>2. \A k \in 1..l : k \in 1..(l + 1) /\ k <= l
    BY <1>1
  <2> QED
    BY <2>1, <2>2
<1>5. e2[l + 1] = Len(t) + 1 /\ f2[l + 1] = first /\ l + 1 \in 1..(l + 1)
  BY <1>1
<1> HIDE DEF e2, f2
<1>6. \A k \in 1..(l + 1) : k \in 1..l \/ k = l + 1
  BY <1>1
<1>7. ASSUME NEW k \in 1..Len(all) PROVE Placed(u, ns, all[k], k, e2[k], f2[k])
  <2>1. CASE k \in 1..l
    BY <1>1, <1>2, <1>4, <2>1, PlacedKept
  <2>2. CASE k = l + 1
    BY <1>1, <1>5, <2>2
  <2> QED
    BY <1>1, <1>6, <2>1, <2>2
<1>8. ASSUME NEW j \in 1..Len(all), NEW k \in 1..Len(all), j < k
      PROVE  /\ e2[j] + Spread(all[j]) <= e2[k]
             /\ Big(all[j]) /\ Big(all[k]) => f2[j] + Spread(all[j]) <= f2[k]
  <2>1. j \in 1..l /\ k \in 1..(l + 1)
    BY <1>1, <1>8
  <2>2. CASE k \in 1..l
    BY <1>1, <1>2, <1>4, <1>8, <2>1, <2>2
  <2>3. CASE k = l + 1
    <3>1. Placed(t, ms, hs[j], j, e[j], f[j]) /\ Spread(hs[j]) \in Nat
      BY <1>1, <1>2, <2>1, HeaderType
    <3>2. e[j] + Spread(hs[j]) <= Len(t) + 1 /\ (Big(hs[j]) => f[j] + Spread(hs[j]) <= Len(ms) + 1)
      BY <3>1 DEF Placed
    <3>3. Big(hs[j]) => f[j] + Spread(hs[j]) <= first
      BY <1>1, <1>4, <2>1, <3>1, <3>2
    <3> QED
      BY <1>1, <1>4, <1>5, <2>1, <2>3, <3>2, <3>3
  <2> QED
    BY <1>6, <2>1, <2>2, <2>3
<1>9. ASSUME NEW i \in 1..Len(u) PROVE \E k \in 1..Len(all) : e2[k] <= i /\ i < e2[k] + Spread(all[k])
  <2>1. CASE i <= Len(t)
    <3>1. i \in 1..Len(t)
      BY <1>1, <2>1
    <3>2. PICK k \in 1..l : e[k] <= i /\ i < e[k] + Spread(hs[k])
      BY <1>2, <3>1
    <3> QED
      BY <1>1, <1>4, <3>2
  <2>2. CASE ~ (i <= Len(t))
    <3>1. Spread(h) \in Nat
      BY HeaderType
    <3>2. Len(t) + 1 <= i /\ i < (Len(t) + 1) + Spread(h)
      BY <1>1, <2>2, <3>1
    <3> QED
      BY <1>1, <1>5, <3>2
  <2> QED
    BY <2>1, <2>2
<1>10. Layout(all, u, ns, e2, f2)
  BY <1>3, <1>7, <1>8, <1>9 DEF Layout
<1> QED
  BY <1>10 DEF all

LEMMA ArchiveInit == ASSUME InitArchive PROVE ArchiveInv
<1>1. tar = <<>> /\ members = <<>> /\ gz = <<>> /\ n = 0 /\ toc = <<>> /\ footer = 0
  BY DEF InitArchive
<1>2. TypeInv
  BY <1>1 DEF TypeInv
<1>3. Len(<<>>) = 0 /\ \A k \in 1..0 : FALSE
  OBVIOUS
<1>4. Ordered(members, n)
  BY <1>1, <1>3 DEF Ordered
<1> DEFINE none == [k \in 1..0 |-> 0]
<1>5. none \in [1..0 -> Nat]
  OBVIOUS
<1> HIDE DEF none
<1>6. Layout(tar, toc, members, none, none)
  BY <1>1, <1>3, <1>5 DEF Layout
<1> QED
  BY <1>2, <1>4, <1>6 DEF ArchiveInv

\* The open stream has bytes or is not there.
LEMMA OpenType ==
  ASSUME TypeInv, gz # <<>>
  PROVE  gz[1] \in Seq(Bytes) /\ Len(gz[1]) \in Nat /\ Zipped(gz[1]) \in Nat
<1>1. PICK g \in Seq(Bytes) : gz = <<g>>
  BY DEF TypeInv
<1>2. gz[1] = g /\ Len(g) \in Nat
  BY <1>1, LenProperties
<1> QED
  BY <1>2 DEF Zipped

LEMMA AppendTarStep ==
  ASSUME ArchiveInv, NEW h \in Headers, AppendTar(h)
  PROVE  ArchiveInv'
<1> DEFINE k == Len(tar) + 1
           head == (IF gz = <<>> THEN <<>> ELSE gz[1]) \o <<Byte(k, 0)>>
           first == n + Zipped(head)
           chunks == ChunksOf(h.size)
           rest == [c \in 1..chunks |-> MemberAt(ChunkAt(first, c), ChunkBytes(k, c, h.size))]
           entries == [c \in 1..chunks |-> ChunkEntry(h, first, c)]
           end == ChunkAt(first, chunks) + ChunkLength(chunks, h.size) + 1
<1>1. TypeInv /\ Ordered(members, n)
  BY DEF ArchiveInv
<1>2. PICK e, f : Layout(tar, toc, members, e, f)
  BY DEF ArchiveInv
<1>3. /\ tar \in Seq(Headers) /\ members \in Seq(Members) /\ toc \in Seq(TocEntries) /\ n \in Nat
      /\ footer \in Nat
      /\ Len(tar) \in Nat /\ Len(members) \in Nat /\ Len(toc) \in Nat
  <2>1. tar \in Seq(Headers) /\ members \in Seq(Members) /\ toc \in Seq(TocEntries) /\ n \in Nat /\ footer \in Nat
    BY <1>1 DEF TypeInv
  <2> QED
    BY <2>1, LenProperties
<1>4. Byte(k, 0) \in Bytes /\ Byte(k, -1) \in Bytes /\ <<Byte(k, 0)>> \in Seq(Bytes) /\ <<Byte(k, -1)>> \in Seq(Bytes)
  <2>1. k \in Nat
    BY <1>3
  <2> HIDE DEF k
  <2>2. Byte(k, 0) \in Bytes /\ Byte(k, -1) \in Bytes
    BY <2>1 DEF Byte, Bytes
  <2> QED
    BY <2>2
<1>5. head \in Seq(Bytes) /\ Len(head) \in Nat /\ Zipped(head) \in Nat /\ Zipped(head) > 0
  <2> DEFINE before == IF gz = <<>> THEN <<>> ELSE gz[1]
  <2>1. before \in Seq(Bytes)
    <3>1. CASE gz = <<>>
      BY <3>1
    <3>2. CASE gz # <<>>
      BY <1>1, <3>2, OpenType
    <3> QED
      BY <3>1, <3>2
  <2> HIDE DEF before
  <2>2. before \o <<Byte(k, 0)>> \in Seq(Bytes)
    BY <1>4, <2>1, ConcatProperties
  <2>3. head \in Seq(Bytes)
    BY <2>2 DEF before
  <2>4. Len(head) \in Nat
    BY <2>3, LenProperties
  <2> QED
    BY <2>3, <2>4 DEF Zipped
<1>6. first \in Nat /\ first > 0 /\ n <= first
  BY <1>3, <1>5
<1>7. tar' = Append(tar, h) /\ footer' = footer /\ footer = 0
  BY DEF AppendTar
<1>8. tar' \in Seq(Headers)
  BY <1>3, <1>7, AppendProperties
<1>9. CASE Big(h)
  <2>1. /\ members' = members \o <<MemberAt(n, head)>> \o rest
        /\ n' = end /\ gz' = <<<<Byte(k, -1)>>>> /\ toc' = toc \o entries
    BY <1>9 DEF AppendTar, Big
  <2>2. h.size \in Nat \ {0} /\ Spread(h) = chunks /\ k \in Nat
    BY <1>3, <1>9, HeaderType DEF Spread
  <2>3. /\ rest \in Seq(Members) /\ Len(rest) = chunks /\ chunks \in Nat \ {0}
        /\ end \in Nat /\ first <= end /\ Ordered(rest, end) /\ \A c \in 1..Len(rest) : first <= rest[c].at
    BY <1>6, <2>2, OrderedChunks
  <2>4. entries \in Seq(TocEntries) /\ Len(entries) = chunks
    <3>1. \A c \in 1..chunks : ChunkEntry(h, first, c) \in TocEntries
      BY <1>6, <1>9, <2>2, HeaderType
    <3> HIDE DEF chunks, first
    <3>2. entries \in [1..chunks -> TocEntries]
      BY <3>1
    <3> HIDE DEF entries
    <3> QED
      BY <2>3, <3>2, LengthType
  <2> DEFINE x == MemberAt(n, head)
             both == members \o <<x>>
  <2>5. x \in Members /\ x.at = n /\ x.at + Zipped(x.data) = first
    BY <1>3, <1>5 DEF MemberAt, Members
  <2> HIDE DEF x, first, rest, end, chunks, entries
  <2>6. <<x>> \in Seq(Members) /\ Len(<<x>>) = 1 /\ <<x>>[1] = x /\ Ordered(<<x>>, first)
    BY <1>6, <2>5, OrderedOne
  <2>7. \A j \in 1..Len(<<x>>) : n <= <<x>>[j].at
    <3>1. \A j \in 1..1 : j = 1
      OBVIOUS
    <3> QED
      BY <1>3, <2>5, <2>6, <3>1
  <2>8. Ordered(both, first)
    <3>1. n \in Int /\ first \in Int
      BY <1>3, <1>6
    <3>2. Ordered(members \o <<x>>, first)
      BY <1>1, <1>3, <1>6, <2>6, <2>7, <3>1, OrderedConcat
    <3> QED
      BY <3>2 DEF both
  <2>9. /\ both \in Seq(Members) /\ Longer(members, both) /\ Len(both) = Len(members) + 1
    BY <1>3, <2>6, LongerConcat
  <2> HIDE DEF both
  <2>10. Ordered(both \o rest, end)
    BY <1>6, <2>3, <2>8, <2>9, OrderedConcat
  <2>11. /\ both \o rest \in Seq(Members) /\ Longer(both, both \o rest)
         /\ Len(both \o rest) = Len(members) + 1 + chunks
         /\ \A c \in 1..chunks : (both \o rest)[Len(members) + 1 + c] = rest[c]
    <3>1. /\ both \o rest \in Seq(Members) /\ Longer(both, both \o rest)
          /\ Len(both \o rest) = Len(both) + Len(rest)
          /\ \A c \in 1..Len(rest) : (both \o rest)[Len(both) + c] = rest[c]
      BY <2>3, <2>9, LongerConcat
    <3> QED
      BY <2>3, <2>9, <3>1
  <2>12. Longer(members, both \o rest)
    <3>1. Len(members) <= Len(both) /\ Len(both) <= Len(both \o rest)
      BY <2>9, <2>11 DEF Longer
    <3>2. \A i \in 1..Len(members) : i \in 1..Len(both)
      BY <1>3, <2>9
    <3> QED
      BY <1>3, <2>3, <2>9, <2>11, <3>1, <3>2 DEF Longer
  <2>13. members' = both \o rest
    BY <2>1 DEF both, x
  <2>14. /\ toc' \in Seq(TocEntries) /\ Longer(toc, toc') /\ Len(toc') = Len(toc) + chunks
         /\ \A c \in 1..chunks : toc'[Len(toc) + c] = entries[c]
    BY <1>3, <2>1, <2>4, LongerConcat
  <2>15. ASSUME NEW c \in 1..chunks
         PROVE  /\ toc'[(Len(toc) + 1) + c - 1] = ChunkEntry(h, first, c)
                /\ members'[(Len(members) + 2) + c - 1] = MemberAt(ChunkAt(first, c), ChunkBytes(k, c, h.size))
    <3>1. (Len(toc) + 1) + c - 1 = Len(toc) + c /\ (Len(members) + 2) + c - 1 = Len(members) + 1 + c
      BY <1>3, <2>3
    <3>2. toc'[Len(toc) + c] = entries[c] /\ members'[Len(members) + 1 + c] = rest[c]
      BY <2>11, <2>13, <2>14
    <3>3. entries[c] = ChunkEntry(h, first, c)
      BY DEF entries
    <3>4. rest[c] = MemberAt(ChunkAt(first, c), ChunkBytes(k, c, h.size))
      BY DEF rest
    <3> QED
      BY <3>1, <3>2, <3>3, <3>4
  <2>16. members'[Len(members) + 2].at = first
    <3>1. 1 \in 1..chunks /\ (Len(members) + 2) + 1 - 1 = Len(members) + 2
      BY <1>3, <2>3
    <3>2. members'[Len(members) + 2] = MemberAt(ChunkAt(first, 1), ChunkBytes(k, 1, h.size))
      BY <2>15, <3>1
    <3>3. ChunkAt(first, 1) = first
      BY <1>6, <2>2, <2>3, <3>1, ChunkType DEF chunks
    <3> QED
      BY <3>2, <3>3 DEF MemberAt
  <2>17. Placed(toc', members', h, Len(tar) + 1, Len(toc) + 1, Len(members) + 2)
    <3>1. /\ Len(toc) + 1 \in 1..Len(toc') /\ (Len(toc) + 1) + Spread(h) <= Len(toc') + 1
          /\ Len(members) + 2 \in 1..Len(members') /\ (Len(members) + 2) + Spread(h) <= Len(members') + 1
      <4>1. Len(toc') = Len(toc) + chunks /\ Len(members') = Len(members) + 1 + chunks
        BY <2>11, <2>13, <2>14
      <4>2. Spread(h) = chunks
        BY <2>2
      <4> QED
        BY <1>3, <2>3, <4>1, <4>2
    <3> QED
      BY <1>6, <1>9, <2>2, <2>15, <2>16, <3>1 DEF Placed
  <2>18. \E e2, f2 : Layout(Append(tar, h), toc', members', e2, f2)
    <3>1. Len(members) + 2 \in Nat /\ Len(members) < Len(members) + 2
      BY <1>3
    <3>2. members' \in Seq(Members) /\ Longer(members, members')
      BY <2>11, <2>12, <2>13
    <3>3. Len(toc') = Len(toc) + Spread(h)
      BY <2>2, <2>14
    <3> QED
      BY <1>2, <1>3, <2>14, <2>17, <3>1, <3>2, <3>3, LayoutMore
  <2>19. TypeInv'
    BY <1>4, <1>7, <1>8, <2>1, <2>3, <2>11, <2>13, <2>14, <1>3 DEF TypeInv
  <2>20. Ordered(members', n')
    BY <2>1, <2>10, <2>13
  <2> QED
    BY <1>7, <2>18, <2>19, <2>20 DEF ArchiveInv
<1>10. CASE ~ Big(h)
  <2>1. gz' = <<head>> /\ toc' = Append(toc, EntryOf(h)) /\ members' = members /\ n' = n
    BY <1>10 DEF AppendTar, Big
  <2>2. EntryOf(h) \in TocEntries /\ Spread(h) = 1
    BY <1>10, HeaderType DEF Spread
  <2>3. /\ toc' \in Seq(TocEntries) /\ Len(toc') = Len(toc) + 1 /\ toc'[Len(toc) + 1] = EntryOf(h)
        /\ \A i \in 1..Len(toc) : toc'[i] = toc[i]
    BY <1>3, <2>1, <2>2, AppendProperties
  <2>4. Longer(toc, toc') /\ Longer(members, members')
    BY <1>3, <2>1, <2>3 DEF Longer
  <2>5. Placed(toc', members', h, Len(tar) + 1, Len(toc) + 1, Len(members) + 1)
    <3>1. Len(toc) + 1 \in 1..Len(toc') /\ (Len(toc) + 1) + Spread(h) <= Len(toc') + 1
      BY <1>3, <2>2, <2>3
    <3> QED
      BY <1>10, <2>3, <3>1 DEF Placed
  <2>6. \E e2, f2 : Layout(Append(tar, h), toc', members', e2, f2)
    <3>1. Len(members) + 1 \in Nat /\ Len(members) < Len(members) + 1
      BY <1>3
    <3>2. members' \in Seq(Members) /\ Len(toc') = Len(toc) + Spread(h)
      BY <1>3, <2>1, <2>2, <2>3
    <3> QED
      BY <1>2, <1>3, <2>3, <2>4, <2>5, <3>1, <3>2, LayoutMore
  <2>7. TypeInv'
    BY <1>3, <1>5, <1>7, <1>8, <2>1, <2>3 DEF TypeInv
  <2> QED
    BY <1>1, <1>7, <2>1, <2>6, <2>7 DEF ArchiveInv
<1> QED
  BY <1>9, <1>10

LEMMA CloseStep ==
  ASSUME ArchiveInv, Close
  PROVE  ArchiveInv'
<1> DEFINE rest == IF gz = <<>> THEN <<>> ELSE <<MemberAt(n, gz[1])>>
           at == IF gz = <<>> THEN n ELSE n + Zipped(gz[1])
           x == MemberAt(at, <<Byte(0, 0)>>)
<1>1. TypeInv /\ Ordered(members, n)
  BY DEF ArchiveInv
<1>2. PICK e, f : Layout(tar, toc, members, e, f)
  BY DEF ArchiveInv
<1>3. /\ tar \in Seq(Headers) /\ members \in Seq(Members) /\ toc \in Seq(TocEntries) /\ n \in Nat
      /\ Len(tar) \in Nat /\ Len(members) \in Nat /\ Len(toc) \in Nat
  <2>1. tar \in Seq(Headers) /\ members \in Seq(Members) /\ toc \in Seq(TocEntries) /\ n \in Nat
    BY <1>1 DEF TypeInv
  <2> QED
    BY <2>1, LenProperties
<1>4. /\ members' = members \o rest \o <<x>> /\ n' = at + 2 /\ gz' = <<>> /\ footer' = at + 1
      /\ tar' = tar /\ toc' = toc
  BY DEF Close
<1>5. /\ at \in Nat /\ n <= at /\ rest \in Seq(Members) /\ Ordered(rest, at)
      /\ \A j \in 1..Len(rest) : n <= rest[j].at
  <2>1. CASE gz = <<>>
    <3>1. rest = <<>> /\ at = n /\ Len(rest) = 0
      BY <2>1
    <3> QED
      BY <1>3, <3>1 DEF Ordered
  <2>2. CASE gz # <<>>
    <3> DEFINE y == MemberAt(n, gz[1])
    <3>1. gz[1] \in Seq(Bytes) /\ Zipped(gz[1]) \in Nat
      BY <1>1, <2>2, OpenType
    <3>2. y \in Members /\ y.at = n /\ y.at + Zipped(y.data) = at
      BY <1>3, <2>2, <3>1 DEF MemberAt, Members
    <3>3. rest = <<y>> /\ at \in Nat /\ n <= at
      BY <1>3, <2>2, <3>1
    <3> HIDE DEF y, at, rest
    <3>4. <<y>> \in Seq(Members) /\ Len(<<y>>) = 1 /\ <<y>>[1] = y /\ Ordered(<<y>>, at)
      BY <3>2, <3>3, OrderedOne
    <3>5. \A j \in 1..1 : j = 1
      OBVIOUS
    <3> QED
      BY <1>3, <3>2, <3>3, <3>4, <3>5
  <2> QED
    BY <2>1, <2>2
<1>6. x \in Members /\ x.at = at /\ x.at + Zipped(x.data) <= at + 2
  <2>1. Byte(0, 0) \in Bytes
    BY DEF Byte, Bytes
  <2>2. <<Byte(0, 0)>> \in Seq(Bytes) /\ Len(<<Byte(0, 0)>>) = 1
    BY <2>1
  <2> HIDE DEF at
  <2> QED
    BY <1>5, <2>2 DEF MemberAt, Members, Zipped
<1> DEFINE both == members \o rest
<1> HIDE DEF at, rest, x
<1>7. /\ both \in Seq(Members) /\ Longer(members, both) /\ Ordered(both, at) /\ Len(both) \in Nat
  <2>1. both \in Seq(Members) /\ Longer(members, both)
    BY <1>3, <1>5, LongerConcat
  <2>2. Ordered(both, at)
    BY <1>1, <1>3, <1>5, OrderedConcat
  <2> QED
    BY <2>1, <2>2, LenProperties
<1> HIDE DEF both
<1>8. at + 2 \in Nat /\ at <= at + 2
  BY <1>5
<1>9. <<x>> \in Seq(Members) /\ Len(<<x>>) = 1 /\ <<x>>[1] = x /\ Ordered(<<x>>, at + 2)
  BY <1>6, <1>8, OrderedOne
<1>10. \A j \in 1..Len(<<x>>) : at <= <<x>>[j].at
  <2>1. \A j \in 1..1 : j = 1
    OBVIOUS
  <2> QED
    BY <1>5, <1>6, <1>9, <2>1
<1>11. Ordered(both \o <<x>>, at + 2) /\ both \o <<x>> \in Seq(Members) /\ Longer(both, both \o <<x>>)
  <2>1. both \o <<x>> \in Seq(Members) /\ Longer(both, both \o <<x>>)
    BY <1>7, <1>9, LongerConcat
  <2>2. at \in Int /\ at + 2 \in Int
    BY <1>5
  <2>3. Ordered(both \o <<x>>, at + 2)
    BY <1>7, <1>8, <1>9, <1>10, <2>2, OrderedConcat
  <2> QED
    BY <2>1, <2>3
<1>12. Longer(members, both \o <<x>>)
  <2>1. Len(members) <= Len(both) /\ Len(both) <= Len(both \o <<x>>)
    BY <1>7, <1>11 DEF Longer
  <2>2. Len(both \o <<x>>) \in Nat
    BY <1>11, LenProperties
  <2>3. \A i \in 1..Len(members) : i \in 1..Len(both)
    BY <1>3, <1>7, <2>1
  <2> QED
    BY <1>3, <1>7, <1>11, <2>1, <2>2, <2>3 DEF Longer
<1>13. members' = both \o <<x>>
  BY <1>4 DEF both
<1>14. TypeInv'
  <2>1. footer' \in Nat /\ n' \in Nat
    BY <1>4, <1>5
  <2> QED
    BY <1>3, <1>4, <1>11, <1>13, <2>1 DEF TypeInv
<1>15. Longer(toc, toc)
  BY <1>3 DEF Longer
<1>16. Layout(tar, toc, members', e, f)
  <2>1. ASSUME NEW k \in 1..Len(tar) PROVE Placed(toc, members', tar[k], k, e[k], f[k])
    <3>1. Placed(toc, members, tar[k], k, e[k], f[k]) /\ e[k] \in Nat /\ f[k] \in Nat
      BY <1>2 DEF Layout
    <3>2. tar[k] \in Headers
      BY <1>3, ElementOfSeq
    <3> QED
      BY <1>3, <1>11, <1>12, <1>13, <1>15, <3>1, <3>2, PlacedKept
  <2> QED
    BY <1>2, <2>1 DEF Layout
<1> QED
  BY <1>4, <1>11, <1>13, <1>14, <1>16 DEF ArchiveInv

-----------------------------------------------------------------------------
(* What the Reader makes of the TOC.  Reading(e, f): the archive is laid out, the     *)
(* entries of the k-th header from e[k] on and its chunks from f[k] on.             *)

Reading(e, f) == TypeInv /\ Ordered(members, n) /\ Layout(tar, toc, members, e, f)

\* The entries of a header.
LEMMA BlockType ==
  ASSUME NEW e, NEW f, Reading(e, f), NEW k \in 1..Len(tar)
  PROVE  /\ tar[k] \in Headers /\ Spread(tar[k]) \in Nat \ {0} /\ tar[k].size \in Nat
         /\ e[k] \in Nat /\ e[k] \in Indices
         /\ Big(tar[k]) => tar[k].size \in Nat \ {0} /\ Spread(tar[k]) = ChunksOf(tar[k].size)
         /\ Len(toc) \in Nat /\ Len(tar) \in Nat /\ k \in Nat
         /\ \A c \in 1..Spread(tar[k]) : e[k] + c - 1 \in Indices
<1>1. tar \in Seq(Headers) /\ toc \in Seq(TocEntries) /\ Layout(tar, toc, members, e, f)
  BY DEF Reading, TypeInv
<1>2. tar[k] \in Headers /\ Len(toc) \in Nat /\ Len(tar) \in Nat
  BY <1>1, ElementOfSeq, LenProperties
<1>3. Spread(tar[k]) \in Nat \ {0} /\ tar[k].size \in Nat /\ (Big(tar[k]) => tar[k].size \in Nat \ {0})
  BY <1>2, HeaderType
<1>4. e[k] \in Nat /\ Placed(toc, members, tar[k], k, e[k], f[k])
  BY <1>1 DEF Layout
<1>5. e[k] \in 1..Len(toc) /\ e[k] + Spread(tar[k]) <= Len(toc) + 1
  BY <1>4 DEF Placed
<1>6. \A c \in 1..Spread(tar[k]) : e[k] + c - 1 \in 1..Len(toc)
  BY <1>2, <1>3, <1>4, <1>5
<1> QED
  BY <1>2, <1>3, <1>4, <1>5, <1>6 DEF Spread, Indices

LEMMA ChunkEntryFields ==
  ASSUME NEW h, NEW first, NEW c
  PROVE  LET entry == ChunkEntry(h, first, c) IN
         /\ entry.name = h.name /\ entry.link = h.link
         /\ entry.type = IF c = 1 THEN h.type ELSE "chunk"
         /\ entry.size = IF c = 1 THEN h.size ELSE 0
         /\ entry.offset = ChunkAt(first, c) /\ entry.chunkOffset = ChunkOffset(c)
         /\ entry.chunkSize = IF ChunkLength(c, h.size) = ChunkSize THEN ChunkSize ELSE 0
         /\ entry.compressed = CompressedSize(c, h.size)
BY DEF ChunkEntry, EntryOf

\* The first entry of a header is its own, and the others are chunks.
LEMMA FirstEntry ==
  ASSUME NEW e, NEW f, Reading(e, f), NEW k \in 1..Len(tar)
  PROVE  /\ toc[e[k]].type = tar[k].type /\ toc[e[k]].name = tar[k].name /\ toc[e[k]].link = tar[k].link
         /\ toc[e[k]].size = IF tar[k].type = "reg" THEN tar[k].size ELSE 0
         /\ toc[e[k]].chunkOffset = 0
         /\ ~ Big(tar[k]) => toc[e[k]] = EntryOf(tar[k])
         /\ e[k] \in Plain
         /\ \A c \in 1..Spread(tar[k]) : c # 1 => e[k] + c - 1 \notin Plain
<1>1. /\ tar[k] \in Headers /\ Spread(tar[k]) \in Nat \ {0} /\ e[k] \in Nat /\ e[k] \in Indices
      /\ tar[k].size \in Nat
  BY BlockType
<1>2. Placed(toc, members, tar[k], k, e[k], f[k])
  BY DEF Reading, Layout
<1>3. CASE ~ Big(tar[k])
  <2>1. toc[e[k]] = EntryOf(tar[k]) /\ Spread(tar[k]) = 1
    BY <1>2, <1>3 DEF Placed, Spread
  <2>2. tar[k].type # "chunk"
    BY <1>1, ArchiveAssumption
  <2> QED
    BY <1>1, <2>1, <2>2 DEF EntryOf, Plain
<1>4. CASE Big(tar[k])
  <2> DEFINE first == members[f[k]].at
  <2>1. ASSUME NEW c \in 1..Spread(tar[k]) PROVE toc[e[k] + c - 1] = ChunkEntry(tar[k], first, c)
    BY <1>2, <1>4 DEF Placed
  <2>2. e[k] + 1 - 1 = e[k] /\ 1 \in 1..Spread(tar[k])
    BY <1>1
  <2>3. toc[e[k]] = ChunkEntry(tar[k], first, 1)
    BY <2>1, <2>2
  <2>4. ChunkOffset(1) = 0
    BY OffsetOrder
  <2> HIDE DEF first
  <2>5. /\ toc[e[k]].type = tar[k].type /\ toc[e[k]].name = tar[k].name /\ toc[e[k]].link = tar[k].link
        /\ toc[e[k]].size = tar[k].size /\ toc[e[k]].chunkOffset = 0
    BY <2>3, <2>4, ChunkEntryFields
  <2>6. tar[k].type # "chunk" /\ tar[k].type = "reg"
    BY <1>4 DEF Big
  <2>7. ASSUME NEW c \in 1..Spread(tar[k]), c # 1 PROVE e[k] + c - 1 \notin Plain
    <3>1. toc[e[k] + c - 1].type = "chunk"
      BY <2>1, <2>7, ChunkEntryFields
    <3> QED
      BY <3>1 DEF Plain
  <2> QED
    BY <1>1, <1>4, <2>5, <2>6, <2>7 DEF Plain
<1> QED
  BY <1>3, <1>4

\* Each entry is of one header.
LEMMA BlockOf ==
  ASSUME NEW e, NEW f, Reading(e, f), NEW j \in Indices
  PROVE  \E k \in 1..Len(tar) : \E c \in 1..Spread(tar[k]) : j = e[k] + c - 1
<1>1. PICK k \in 1..Len(tar) : e[k] <= j /\ j < e[k] + Spread(tar[k])
  BY DEF Reading, Layout, Indices
<1>2. e[k] \in Nat /\ Spread(tar[k]) \in Nat /\ j \in Int
  BY BlockType DEF Indices
<1>3. j - e[k] + 1 \in 1..Spread(tar[k]) /\ j = e[k] + (j - e[k] + 1) - 1
  BY <1>1, <1>2
<1> QED
  BY <1>3

LEMMA BlockOrder ==
  ASSUME NEW e, NEW f, Reading(e, f), NEW k \in 1..Len(tar), NEW i \in 1..Len(tar),
         NEW c \in 1..Spread(tar[k]), NEW b \in 1..Spread(tar[i])
  PROVE  /\ k < i => e[k] + c - 1 < e[i] + b - 1
         /\ e[k] + c - 1 = e[i] + b - 1 => k = i /\ c = b
         /\ k # i => e[k] # e[i]
<1>1. /\ e[k] \in Nat /\ e[i] \in Nat /\ Spread(tar[k]) \in Nat \ {0} /\ Spread(tar[i]) \in Nat \ {0}
      /\ k \in Nat /\ i \in Nat
  BY BlockType
<1>2. (k < i => e[k] + Spread(tar[k]) <= e[i]) /\ (i < k => e[i] + Spread(tar[i]) <= e[k])
  BY DEF Reading, Layout
<1>3. c \in Int /\ 1 <= c /\ c <= Spread(tar[k]) /\ b \in Int /\ 1 <= b /\ b <= Spread(tar[i])
  BY <1>1
<1>4. k < i => e[k] + c - 1 < e[i] + b - 1 /\ e[k] < e[i]
  BY <1>1, <1>2, <1>3
<1>5. i < k => e[i] + b - 1 < e[k] + c - 1 /\ e[i] < e[k]
  BY <1>1, <1>2, <1>3
<1>6. k = i \/ k < i \/ i < k
  BY <1>1
<1>7. k = i /\ e[k] + c - 1 = e[i] + b - 1 => c = b
  BY <1>1, <1>3
<1> QED
  BY <1>1, <1>3, <1>4, <1>5, <1>6, <1>7

\* The name of an entry is the one of its header.
LEMMA NameIs ==
  ASSUME NEW e, NEW f, Reading(e, f), NEW k \in 1..Len(tar), NEW c \in 1..Spread(tar[k])
  PROVE  /\ Max({i \in Plain : i <= e[k] + c - 1}) = e[k]
         /\ NameAt(e[k] + c - 1) = Clean(tar[k].name)
<1> DEFINE j == e[k] + c - 1
           S == {i \in Plain : i <= j}
<1>1. e[k] \in Nat /\ c \in Nat /\ c >= 1 /\ e[k] \in Plain /\ Spread(tar[k]) \in Nat \ {0}
  BY BlockType, FirstEntry
<1>2. S \in SUBSET Int /\ e[k] \in S
  BY <1>1 DEF Plain, Indices
<1>3. ASSUME NEW i \in S PROVE i <= e[k]
  <2>1. i \in Indices /\ i \in Plain /\ i <= j
    BY DEF Plain
  <2>0. PICK h \in 1..Len(tar) : \E b \in 1..Spread(tar[h]) : i = e[h] + b - 1
    BY <2>1, BlockOf
  <2>2. PICK b \in 1..Spread(tar[h]) : i = e[h] + b - 1
    BY <2>0
  <2>3. b = 1
    <3>1. b # 1 => e[h] + b - 1 \notin Plain
      BY FirstEntry
    <3> QED
      BY <2>1, <2>2, <3>1
  <2>4. e[h] \in Nat /\ 1 \in 1..Spread(tar[k]) /\ 1 \in 1..Spread(tar[h]) /\ h \in Nat /\ k \in Nat
    <3>1. e[h] \in Nat /\ h \in Nat /\ Spread(tar[h]) \in Nat \ {0}
      BY BlockType
    <3>2. k \in Nat /\ Spread(tar[k]) \in Nat \ {0}
      BY BlockType
    <3> QED
      BY <3>1, <3>2
  <2>5. ~ (k < h)
    <3>1. k < h => j < e[h] + 1 - 1
      BY <2>4, BlockOrder
    <3> QED
      BY <1>1, <2>1, <2>2, <2>3, <2>4, <3>1
  <2>6. h < k => e[h] + 1 - 1 < e[k] + 1 - 1
    BY <2>4, BlockOrder
  <2> QED
    BY <1>1, <2>2, <2>3, <2>4, <2>5, <2>6
<1> HIDE DEF S, j
<1>4. Max(S) = e[k]
  BY <1>2, <1>3, MaxIs
<1>5. NameAt(j) = Clean(toc[e[k]].name)
  BY <1>4 DEF NameAt, S
<1> QED
  BY <1>4, <1>5, FirstEntry DEF S, j

\* Names of entries without their entries: where a plain entry comes from.
LEMMA PlainOf ==
  ASSUME NEW e, NEW f, Reading(e, f), NEW j \in Plain
  PROVE  \E k \in 1..Len(tar) : j = e[k] /\ NameAt(j) = Clean(tar[k].name)
<1>1. j \in Indices
  BY DEF Plain
<1>2. PICK k \in 1..Len(tar) : \E c \in 1..Spread(tar[k]) : j = e[k] + c - 1
  BY <1>1, BlockOf
<1>3. PICK c \in 1..Spread(tar[k]) : j = e[k] + c - 1
  BY <1>2
<1>4. c = 1
  <2>1. c # 1 => e[k] + c - 1 \notin Plain
    BY FirstEntry
  <2> QED
    BY <1>3, <2>1
<1>5. e[k] \in Nat
  BY BlockType
<1>6. j = e[k]
  BY <1>3, <1>4, <1>5
<1> QED
  BY <1>3, <1>6, NameIs

LEMMA EntryName ==
  ASSUME NEW e, NEW f, Reading(e, f), NEW k \in 1..Len(tar)
  PROVE  NameAt(e[k]) = Clean(tar[k].name) /\ NameAt(e[k]) \in Names
<1>1. e[k] \in Nat /\ 1 \in 1..Spread(tar[k]) /\ e[k] + 1 - 1 = e[k] /\ e[k] \in Plain
  <2>1. e[k] \in Nat /\ Spread(tar[k]) \in Nat \ {0}
    BY BlockType
  <2> QED
    BY <2>1, FirstEntry
<1>2. NameAt(e[k] + 1 - 1) = Clean(tar[k].name)
  BY <1>1, NameIs
<1> QED
  BY <1>1, <1>2 DEF Names

\* A name's entry is the one of the last header of the name.
LEMMA LastIs ==
  ASSUME NEW e, NEW f, Reading(e, f), NEW p \in Names
  PROVE  /\ Max(Named(p)) \in 1..Len(tar) /\ Clean(tar[Max(Named(p))].name) = p
         /\ \A k \in 1..Len(tar) : Clean(tar[k].name) = p => k <= Max(Named(p))
         /\ Entry(p) = e[Max(Named(p))]
<1> DEFINE S == {k \in 1..Len(tar) : Clean(tar[k].name) = p}
           E == {j \in Plain : NameAt(j) = p}
<1>1. Len(tar) \in Nat
  BY LenProperties DEF Reading, TypeInv
<1>2. S # {}
  <2>1. PICK j \in Plain : p = NameAt(j)
    BY DEF Names
  <2> QED
    BY <2>1, PlainOf
<1>3. Max(S) \in S /\ \A y \in S : y <= Max(S)
  <2>1. S \in SUBSET (1..Len(tar))
    OBVIOUS
  <2> HIDE DEF S
  <2> QED
    BY <1>1, <1>2, <2>1, MaxType
<1>4. Max(Named(p)) = Max(S)
  BY DEF Named
<1>5. /\ Max(Named(p)) \in 1..Len(tar) /\ Clean(tar[Max(Named(p))].name) = p
      /\ \A k \in 1..Len(tar) : Clean(tar[k].name) = p => k <= Max(Named(p))
  BY <1>3, <1>4
<1>6. e[Max(Named(p))] \in E
  BY <1>5, EntryName, FirstEntry
<1>7. ASSUME NEW j \in E PROVE j <= e[Max(Named(p))]
  <2>1. PICK k \in 1..Len(tar) : j = e[k] /\ NameAt(j) = Clean(tar[k].name)
    BY PlainOf
  <2>2. k <= Max(Named(p))
    BY <1>5, <2>1
  <2>3. e[k] \in Nat /\ Spread(tar[k]) \in Nat \ {0} /\ k \in Nat
    BY BlockType
  <2>4. e[Max(Named(p))] \in Nat /\ Spread(tar[Max(Named(p))]) \in Nat \ {0} /\ Max(Named(p)) \in Nat
    BY <1>5, BlockType
  <2>5. 1 \in 1..Spread(tar[k]) /\ 1 \in 1..Spread(tar[Max(Named(p))])
    BY <2>3, <2>4
  <2>6. k < Max(Named(p)) => e[k] + 1 - 1 < e[Max(Named(p))] + 1 - 1
    BY <1>5, <2>5, BlockOrder
  <2> QED
    BY <2>1, <2>2, <2>3, <2>4, <2>6
<1>8. E \in SUBSET Int
  BY DEF Plain, Indices
<1> HIDE DEF E
<1>9. Max(E) = e[Max(Named(p))]
  BY <1>6, <1>7, <1>8, MaxIs
<1> QED
  BY <1>5, <1>9 DEF Entry, E

\* The entries of a file's chunks.
LEMMA ChunkEntryIs ==
  ASSUME NEW e, NEW f, Reading(e, f), NEW k \in 1..Len(tar), Big(tar[k]), NEW c \in 1..Spread(tar[k])
  PROVE  /\ toc[e[k] + c - 1].chunkOffset = ChunkOffset(c)
         /\ toc[e[k] + c - 1].chunkSize = IF ChunkLength(c, tar[k].size) = ChunkSize THEN ChunkSize ELSE 0
         /\ toc[e[k] + c - 1].compressed = ChunkLength(c, tar[k].size) + 1
         /\ toc[e[k] + c - 1].type = IF c = 1 THEN "reg" ELSE "chunk"
         /\ toc[e[k] + c - 1].size = IF c = 1 THEN tar[k].size ELSE 0
         /\ f[k] + c - 1 \in 1..Len(members) /\ f[k] \in Nat
         /\ f[k] + Spread(tar[k]) <= Len(members) + 1
         /\ toc[e[k] + c - 1].offset = members[f[k] + c - 1].at
         /\ toc[e[k] + c - 1].offset \in Nat /\ toc[e[k] + c - 1].offset # 0
         /\ members[f[k] + c - 1].data = ChunkBytes(k, c, tar[k].size)
<1> DEFINE first == members[f[k]].at
           j == e[k] + c - 1
           m == f[k] + c - 1
           size == tar[k].size
<1>1. members \in Seq(Members) /\ Len(members) \in Nat
  BY LenProperties DEF Reading, TypeInv
<1>2. /\ Spread(tar[k]) \in Nat \ {0} /\ size \in Nat \ {0} /\ Spread(tar[k]) = ChunksOf(size)
      /\ k \in Nat
  BY BlockType
<1>3. Placed(toc, members, tar[k], k, e[k], f[k]) /\ f[k] \in Nat
  BY DEF Reading, Layout
<1>4. /\ f[k] \in 1..Len(members) /\ f[k] + Spread(tar[k]) <= Len(members) + 1 /\ first > 0
      /\ toc[j] = ChunkEntry(tar[k], first, c)
      /\ members[m] = MemberAt(ChunkAt(first, c), ChunkBytes(k, c, size))
  BY <1>3 DEF Placed
<1>5. m \in 1..Len(members)
  <2>1. \A x, y, z, u \in Int : 1 <= x /\ 1 <= y /\ y <= z /\ x + z <= u + 1 => x + y - 1 \in 1..u
    OBVIOUS
  <2> DEFINE start == f[k]
             all == Spread(tar[k])
             length == Len(members)
  <2>2. start \in Int /\ 1 <= start /\ start + all <= length + 1
    BY <1>1, <1>3, <1>4
  <2>3. all \in Int /\ length \in Int /\ c \in Int /\ 1 <= c /\ c <= all
    BY <1>1, <1>2
  <2>4. m = start + c - 1
    OBVIOUS
  <2> HIDE DEF start, all, m
  <2>5. m \in 1..length
    BY <2>1, <2>2, <2>3, <2>4
  <2> QED
    BY <2>5
<1>6. first \in Nat
  <2>1. f[k] \in 1..Len(members)
    BY <1>4
  <2> QED
    BY <1>1, <2>1, EndType
<1>7. ChunkAt(first, c) \in Nat /\ first <= ChunkAt(first, c)
  <2>1. c \in 1..ChunksOf(size)
    BY <1>2
  <2> HIDE DEF first, size
  <2> QED
    BY <1>2, <1>6, <2>1, ChunkType
<1>8. ChunkAt(first, c) # 0
  <2> HIDE DEF first
  <2> QED
    BY <1>4, <1>6, <1>7
<1>9. members[m].at = ChunkAt(first, c) /\ members[m].data = ChunkBytes(k, c, size)
  <2> HIDE DEF first, m
  <2> QED
    BY <1>4 DEF MemberAt
<1>10. tar[k].type = "reg"
  BY DEF Big
<1>11. /\ toc[j].type = IF c = 1 THEN "reg" ELSE "chunk"
       /\ toc[j].size = IF c = 1 THEN size ELSE 0
       /\ toc[j].offset = ChunkAt(first, c) /\ toc[j].chunkOffset = ChunkOffset(c)
       /\ toc[j].chunkSize = IF ChunkLength(c, size) = ChunkSize THEN ChunkSize ELSE 0
       /\ toc[j].compressed = CompressedSize(c, size)
  <2> HIDE DEF first, j
  <2> QED
    BY <1>4, <1>10, ChunkEntryFields
<1> QED
  BY <1>3, <1>4, <1>5, <1>7, <1>8, <1>9, <1>11 DEF CompressedSize

\* A chunk of a file knows the file it is in.
LEMMA ChunkSizeIs ==
  ASSUME NEW e, NEW f, Reading(e, f), NEW k \in 1..Len(tar), Big(tar[k]), NEW c \in 1..Spread(tar[k])
  PROVE  ChunkSizeAt(e[k] + c - 1) = ChunkLength(c, tar[k].size)
<1> DEFINE j == e[k] + c - 1
           size == tar[k].size
<1>1. /\ Spread(tar[k]) \in Nat \ {0} /\ size \in Nat \ {0} /\ Spread(tar[k]) = ChunksOf(size)
      /\ e[k] \in Nat /\ e[k] \in Indices /\ j \in Indices
  BY BlockType
<1>2. /\ ChunkOffset(c) \in Nat /\ ChunkLength(c, size) \in Nat \ {0}
      /\ ChunkLength(c, size) <= ChunkSize
      /\ c < ChunksOf(size) => ChunkLength(c, size) = ChunkSize
      /\ c = ChunksOf(size) => ChunkOffset(c) + ChunkLength(c, size) = size
  BY <1>1, ChunkFacts
<1>3. ChunkSize \in Nat \ {0}
  BY ArchiveAssumption
<1>4. /\ toc[j].chunkOffset = ChunkOffset(c)
      /\ toc[j].chunkSize = IF ChunkLength(c, size) = ChunkSize THEN ChunkSize ELSE 0
      /\ toc[j].type = IF c = 1 THEN "reg" ELSE "chunk"
      /\ toc[j].size = IF c = 1 THEN size ELSE 0
  BY ChunkEntryIs
<1>5. toc[e[k]].type = "reg" /\ toc[e[k]].size = size
  BY FirstEntry DEF Big
<1>6. CASE ChunkLength(c, size) = ChunkSize
  <2>1. toc[j].chunkSize = ChunkSize
    BY <1>4, <1>6
  <2> QED
    BY <1>3, <1>6, <2>1 DEF ChunkSizeAt
<1>7. CASE ChunkLength(c, size) # ChunkSize
  <2>1. c = ChunksOf(size) /\ toc[j].chunkSize = 0
    BY <1>1, <1>2, <1>4, <1>7
  <2>2. ChunkLength(c, size) = size - ChunkOffset(c)
    BY <1>1, <1>2, <2>1
  <2>3. CASE c = 1
    <3>1. ChunkOffset(c) = 0
      BY <2>3, OffsetOrder
    <3>2. ChunkSizeAt(j) = size
      BY <1>4, <2>1, <2>3 DEF ChunkSizeAt
    <3> QED
      BY <1>1, <2>2, <3>1, <3>2
  <2>4. CASE c # 1
    <3> DEFINE S == {i \in Indices : i <= j /\ toc[i].type = "reg"}
    <3>1. S \in SUBSET Int /\ e[k] \in S
      <4>1. e[k] <= j
        BY <1>1
      <4> QED
        BY <1>1, <1>5, <4>1 DEF Indices
    <3>2. ASSUME NEW i \in S PROVE i <= e[k]
      <4>1. i \in Plain /\ i <= j
        BY DEF Plain
      <4>2. i \in {y \in Plain : y <= j} /\ {y \in Plain : y <= j} \in SUBSET (1..Len(toc)) /\ Len(toc) \in Nat
        BY <4>1, BlockType DEF Plain, Indices
      <4>3. Max({y \in Plain : y <= j}) = e[k]
        BY NameIs
      <4> QED
        BY <4>2, <4>3, MaxType
    <3> HIDE DEF S
    <3>3. Max(S) = e[k]
      BY <3>1, <3>2, MaxIs
    <3>4. LastReg(j) = e[k]
      BY <3>3 DEF LastReg, S
    <3> QED
      BY <1>4, <1>5, <2>1, <2>2, <2>4, <3>4 DEF ChunkSizeAt
  <2> QED
    BY <2>3, <2>4
<1> QED
  BY <1>6, <1>7

\* The chunks of a file, and whether there are several: those of the last header of the name.
LEMMA StartsIs ==
  ASSUME NEW e, NEW f, Reading(e, f), NEW p, NEW k \in 1..Len(tar),
         Clean(tar[k].name) = p, tar[k].type = "reg"
  PROVE  e[k] \in Starts(p) <=> k \in Long(p)
<1> DEFINE size == tar[k].size
<1>1. k \in 1..Len(tar) /\ Clean(tar[k].name) = p
  OBVIOUS
<1>2. /\ Spread(tar[k]) \in Nat \ {0} /\ size \in Nat /\ e[k] \in Nat /\ 1 \in 1..Spread(tar[k])
      /\ e[k] + 1 - 1 = e[k]
      /\ Big(tar[k]) => size \in Nat \ {0} /\ Spread(tar[k]) = ChunksOf(size)
  BY <1>1, BlockType
<1>3. toc[e[k]].type = "reg" /\ toc[e[k]].size = size /\ e[k] \in Plain /\ NameAt(e[k]) = p
  BY <1>1, FirstEntry, EntryName
<1>4. ChunkSize \in Nat \ {0}
  BY ArchiveAssumption
<1>5. e[k] \in Starts(p) <=> toc[e[k]].chunkSize > 0 /\ toc[e[k]].chunkSize < size
  BY <1>3 DEF Starts
<1>6. ASSUME size = 0 PROVE e[k] \in Starts(p) <=> size > ChunkSize
  <2>1. ~ Big(tar[k])
    BY <1>6 DEF Big
  <2>2. toc[e[k]] = EntryOf(tar[k])
    BY <1>1, <2>1, FirstEntry
  <2>3. toc[e[k]].chunkSize = 0
    BY <2>2 DEF EntryOf
  <2> QED
    BY <1>4, <1>5, <1>6, <2>3
<1>7. ASSUME size # 0 PROVE e[k] \in Starts(p) <=> size > ChunkSize
  <2>1. size > 0
    BY <1>2, <1>7
  <2>8. Big(tar[k])
    BY <2>1 DEF Big
  <2>2. toc[e[k]].chunkSize = IF ChunkLength(1, size) = ChunkSize THEN ChunkSize ELSE 0
    <3>1. toc[e[k] + 1 - 1].chunkSize = IF ChunkLength(1, size) = ChunkSize THEN ChunkSize ELSE 0
      BY <1>1, <1>2, <2>8, ChunkEntryIs
    <3> QED
      BY <1>2, <3>1
  <2>3. ChunkLength(1, size) = IF ChunkSize <= size THEN ChunkSize ELSE size
    <3>1. ChunkOffset(1) = 0
      BY OffsetOrder
    <3>2. size \in Nat
      BY <1>2
    <3> HIDE DEF size
    <3>3. size - 0 = size
      BY <3>2
    <3> QED
      BY <1>4, <3>1, <3>2, <3>3, MinOfTwo DEF ChunkLength
  <2>9. size \in Nat
    BY <1>2
  <2> HIDE DEF size
  <2>4. e[k] \in Starts(p) <=> size > ChunkSize
    BY <1>2, <1>4, <1>5, <2>2, <2>3
  <2> QED
    BY <2>4 DEF size
<1>8. e[k] \in Starts(p) <=> size > ChunkSize
  BY <1>6, <1>7
<1> QED
  BY <1>1, <1>8 DEF Long, Named

\* A chunk that is not the first one is of a long file.
LEMMA LongBlock ==
  ASSUME NEW e, NEW f, Reading(e, f), NEW i \in 1..Len(tar), NEW c \in 1..Spread(tar[i]), c # 1
  PROVE  i \in Long(Clean(tar[i].name))
<1>1. /\ Spread(tar[i]) \in Nat \ {0} /\ tar[i].size \in Nat
      /\ Big(tar[i]) => tar[i].size \in Nat \ {0} /\ Spread(tar[i]) = ChunksOf(tar[i].size)
  BY BlockType
<1>2. Spread(tar[i]) # 1
  BY <1>1
<1>3. Big(tar[i])
  BY <1>2 DEF Spread
<1> DEFINE l == Spread(tar[i])
           size == tar[i].size
<1>4. ChunkSize \in Nat \ {0}
  BY ArchiveAssumption
<1>5. (l - 1) * ChunkSize < size
  BY <1>1, <1>3, ChunksType
<1>6. l - 1 >= 1 /\ l - 1 \in Nat /\ size \in Nat
  BY <1>1, <1>2
<1> HIDE DEF l, size
<1>7. \A m \in Nat : m >= 1 => m * ChunkSize >= ChunkSize /\ m * ChunkSize \in Nat
  BY <1>4
<1>8. size > ChunkSize
  BY <1>4, <1>5, <1>6, <1>7
<1> QED
  BY <1>3, <1>8 DEF Long, Named, Big, size

\* The header of a file is the one its entries are from.
LEMMA SourceIs ==
  ASSUME NEW e, NEW f, Reading(e, f), NEW p \in Files
  PROVE  /\ p \in Names /\ Source(p) \in 1..Len(tar) /\ Clean(tar[Source(p)].name) = p
         /\ tar[Source(p)].type = "reg"
         /\ Chunked(p) <=> tar[Source(p)].size > ChunkSize
         /\ ~ Chunked(p) => Entry(p) = e[Source(p)]
         /\ Chunked(p) => Max(Starts(p)) = e[Source(p)] /\ \A i \in Long(p) : i <= Source(p)
<1>1. p \in Names /\ toc[Entry(p)].type = "reg"
  BY DEF Files
<1> DEFINE last == Max(Named(p))
<1>2. last \in 1..Len(tar) /\ Clean(tar[last].name) = p /\ Entry(p) = e[last]
  BY <1>1, LastIs
<1>3. tar[last].type = "reg"
  BY <1>1, <1>2, FirstEntry
<1>4. Len(tar) \in Nat /\ \A i \in 1..Len(tar) : tar[i].size \in Nat
  BY <1>2, BlockType
<1>5. ASSUME NEW j \in Starts(p) PROVE \E i \in Long(p) : j = e[i]
  <2>1. j \in Plain /\ NameAt(j) = p /\ toc[j].type = "reg"
    BY DEF Starts
  <2>2. PICK i \in 1..Len(tar) : j = e[i] /\ NameAt(j) = Clean(tar[i].name)
    BY <2>1, PlainOf
  <2>3. tar[i].type = "reg"
    BY <2>1, <2>2, FirstEntry
  <2> QED
    BY <2>1, <2>2, <2>3, StartsIs
<1>6. CASE Long(p) = {}
  <2>1. ~ Chunked(p)
    BY <1>5, <1>6 DEF Chunked
  <2>2. Source(p) = last
    BY <1>6 DEF Source
  <2>3. ~ (tar[last].size > ChunkSize)
    BY <1>2, <1>3, <1>6 DEF Long, Named
  <2> QED
    BY <1>1, <1>2, <1>3, <2>1, <2>2, <2>3
<1>7. CASE Long(p) # {}
  <2>1. Long(p) \in SUBSET (1..Len(tar))
    BY DEF Long, Named
  <2> DEFINE k == Source(p)
  <2>2. k \in Long(p) /\ \A i \in Long(p) : i <= k
    BY <1>4, <1>7, <2>1, MaxType DEF Source
  <2> HIDE DEF k
  <2>3. k \in 1..Len(tar) /\ Clean(tar[k].name) = p /\ tar[k].type = "reg" /\ tar[k].size > ChunkSize
    BY <2>2 DEF Long, Named
  <2>4. e[k] \in Starts(p)
    BY <2>2, <2>3, StartsIs
  <2>5. ASSUME NEW j \in Starts(p) PROVE j <= e[k]
    <3>1. PICK i \in Long(p) : j = e[i]
      BY <1>5
    <3>2. i \in 1..Len(tar) /\ i <= k
      BY <2>1, <2>2, <3>1
    <3>3. e[i] \in Nat /\ Spread(tar[i]) \in Nat \ {0} /\ i \in Nat
      BY <3>2, BlockType
    <3>4. e[k] \in Nat /\ Spread(tar[k]) \in Nat \ {0} /\ k \in Nat
      BY <2>3, BlockType
    <3>5. 1 \in 1..Spread(tar[i]) /\ 1 \in 1..Spread(tar[k])
      BY <3>3, <3>4
    <3>6. i < k => e[i] + 1 - 1 < e[k] + 1 - 1
      BY <2>3, <3>2, <3>5, BlockOrder
    <3> QED
      BY <3>1, <3>2, <3>3, <3>4, <3>6
  <2>6. Starts(p) \in SUBSET Int
    BY DEF Starts, Plain, Indices
  <2>7. Max(Starts(p)) = e[k]
    BY <2>4, <2>5, <2>6, MaxIs
  <2> QED
    BY <1>1, <2>2, <2>3, <2>4, <2>7 DEF Chunked, k
<1> QED
  BY <1>6, <1>7

LEMMA FileIs ==
  ASSUME NEW e, NEW f, Reading(e, f), NEW p \in Files
  PROVE  /\ p \in Names /\ Source(p) \in 1..Len(tar) /\ tar[Source(p)].type = "reg"
         /\ Big(tar[Source(p)]) <=> tar[Source(p)].size # 0
         /\ ~ Chunked(p) => Entry(p) = e[Source(p)]
         /\ Chunked(p) <=> tar[Source(p)].size > ChunkSize
         /\ Chunked(p) => Chunks(p) = ChunkList(p)
         /\ Chunks(p) = [c \in 1..Spread(tar[Source(p)]) |-> e[Source(p)] + c - 1]
         /\ Len(Chunks(p)) = Spread(tar[Source(p)])
<1> DEFINE k == Source(p)
           size == tar[k].size
           l == Spread(tar[k])
           list == [c \in 1..l |-> e[k] + c - 1]
<1>2. /\ k \in 1..Len(tar) /\ Clean(tar[k].name) = p /\ p \in Names /\ tar[k].type = "reg"
      /\ Chunked(p) <=> size > ChunkSize
      /\ ~ Chunked(p) => Entry(p) = e[k]
      /\ Chunked(p) => Max(Starts(p)) = e[k] /\ \A i \in Long(p) : i <= k
  BY SourceIs
<1>4. /\ l \in Nat \ {0} /\ size \in Nat /\ e[k] \in Nat /\ e[k] \in Indices
      /\ Big(tar[k]) => size \in Nat \ {0} /\ l = ChunksOf(size)
      /\ Len(toc) \in Nat /\ \A c \in 1..l : e[k] + c - 1 \in Indices
  BY <1>2, BlockType
<1>5. Big(tar[k]) <=> size # 0
  BY <1>2, <1>4 DEF Big
<1>9. ChunkSize \in Nat \ {0}
  BY ArchiveAssumption
<1>10. list \in [1..l -> Nat] /\ Len(list) = l
  <2> HIDE DEF l
  <2>1. \A c \in 1..l : e[k] + c - 1 \in Nat
    BY <1>4
  <2>2. list \in [1..l -> Nat]
    BY <2>1
  <2> HIDE DEF list
  <2> QED
    BY <1>4, <2>2, LengthType
<1>11. CASE ~ Chunked(p)
  <2>1. ~ (size > ChunkSize)
    BY <1>2, <1>11
  <2>2. l = 1
    <3>1. CASE size = 0
      BY <1>5, <3>1 DEF Spread
    <3>2. CASE size # 0
      <4>1. (l - 1) * ChunkSize < size
        <5>1. size \in Nat \ {0} /\ l = ChunksOf(size)
          BY <1>4, <1>5, <3>2
        <5>2. (ChunksOf(size) - 1) * ChunkSize < size
          <6> HIDE DEF size
          <6> QED
            BY <5>1, ChunksType
        <5> HIDE DEF size, l
        <5> QED
          BY <5>1, <5>2
      <4>2. l - 1 >= 1 => (l - 1) * ChunkSize >= ChunkSize
        <5>1. \A m \in Nat : m >= 1 => m * ChunkSize >= ChunkSize
          BY <1>9
        <5>2. l - 1 \in Nat
          BY <1>4
        <5> QED
          BY <5>1, <5>2
      <4>3. (l - 1) * ChunkSize \in Int
        BY <1>4, <1>9
      <4> HIDE DEF size, l
      <4> QED
        BY <1>4, <1>9, <2>1, <4>1, <4>2, <4>3
    <3> QED
      BY <3>1, <3>2
  <2>3. Chunks(p) = <<e[k]>>
    BY <1>2, <1>11 DEF Chunks
  <2>4. list = <<e[k]>>
    <3>1. \A c \in 1..1 : c = 1
      OBVIOUS
    <3>2. e[k] + 1 - 1 = e[k]
      BY <1>4
    <3>3. list = [c \in 1..1 |-> e[k]]
      BY <2>2, <3>1, <3>2
    <3> QED
      BY <3>3
  <2> QED
    BY <1>2, <1>5, <1>10, <1>11, <2>3, <2>4
<1>12. CASE Chunked(p)
  <2>1. Max(Starts(p)) = e[k] /\ size > ChunkSize /\ size # 0
    BY <1>2, <1>4, <1>9, <1>12
  <2> DEFINE start == Max(Starts(p))
             S == {start} \cup {j \in Indices \ Plain : j > start /\ NameAt(j) = p}
             b == e[k] + l - 1
  <2>2. ASSUME NEW j \in S PROVE j \in e[k]..b
    <3>1. CASE j = start
      BY <1>4, <2>1, <3>1
    <3>2. CASE j # start
      <4>1. j \in Indices /\ j \notin Plain /\ j > e[k] /\ NameAt(j) = p /\ j \in Int
        BY <2>1, <3>2 DEF Indices
      <4>2. PICK i \in 1..Len(tar) : \E c \in 1..Spread(tar[i]) : j = e[i] + c - 1
        BY <4>1, BlockOf
      <4>3. PICK c \in 1..Spread(tar[i]) : j = e[i] + c - 1
        BY <4>2
      <4>4. i <= k
        <5>1. Clean(tar[i].name) = p
          BY <4>1, <4>3, NameIs
        <5>2. c # 1
          <6>1. e[i] + 1 - 1 = e[i] /\ e[i] \in Plain
            BY BlockType, FirstEntry
          <6> QED
            BY <4>1, <4>3, <6>1
        <5>3. i \in Long(p)
          BY <5>1, <5>2, LongBlock
        <5> QED
          BY <1>2, <1>12, <5>3
      <4>5. ~ (i < k)
        <5>1. 1 \in 1..l /\ e[k] + 1 - 1 = e[k]
          BY <1>4
        <5>2. i < k => e[i] + c - 1 < e[k] + 1 - 1
          BY <1>2, <5>1, BlockOrder
        <5> QED
          BY <1>4, <4>1, <4>3, <5>1, <5>2
      <4>6. i = k
        BY <1>2, <4>4, <4>5
      <4>7. c \in 1..l /\ j = e[k] + c - 1
        BY <4>3, <4>6
      <4> QED
        BY <1>4, <4>7
    <3> QED
      BY <3>1, <3>2
  <2>3. ASSUME NEW j \in e[k]..b PROVE j \in S
    <3>1. CASE j = e[k]
      BY <2>1, <3>1
    <3>2. CASE j # e[k]
      <4> DEFINE c == j - e[k] + 1
      <4>1. c \in 1..l /\ c # 1 /\ j = e[k] + c - 1 /\ j > e[k]
        BY <1>4, <3>2
      <4> HIDE DEF c
      <4>2. j \in Indices /\ j \notin Plain
        BY <1>2, <1>4, <4>1, FirstEntry
      <4>3. NameAt(j) = p
        BY <1>2, <4>1, NameIs
      <4> QED
        BY <2>1, <4>1, <4>2, <4>3
    <3> QED
      BY <3>1, <3>2
  <2>4. S = e[k]..b
    <3> HIDE DEF S, b
    <3> QED
      BY <2>2, <2>3
  <2>5. b \in Int /\ e[k] <= b /\ b - e[k] + 1 = l
    BY <1>4
  <2>6. InOrder(e[k]..b) = [c \in 1..(b - e[k] + 1) |-> e[k] + c - 1]
    <3>1. e[k] \in Int
      BY <1>4
    <3> HIDE DEF b
    <3> QED
      BY <2>5, <3>1, InOrderInterval
  <2>7. ChunkList(p) = InOrder(S)
    BY DEF ChunkList
  <2>8. ChunkList(p) = list
    <3> HIDE DEF S, b, l
    <3> QED
      BY <2>4, <2>5, <2>6, <2>7
  <2>9. Chunks(p) = ChunkList(p)
    BY <1>12 DEF Chunks
  <2> QED
    BY <1>2, <1>5, <1>10, <1>12, <2>8, <2>9
<1> QED
  BY <1>11, <1>12

-----------------------------------------------------------------------------
(* Decompressing.                                                          *)

\* The members in their order.
LEMMA MemberOrder ==
  ASSUME TypeInv, Ordered(members, n), NEW i \in 1..Len(members), NEW a \in 1..Len(members)
  PROVE  /\ members[i].at \in Nat /\ End(members, i) \in Nat /\ members[i].at < End(members, i)
         /\ members[i].at >= members[a].at <=> i >= a
         /\ i < a => End(members, i) < End(members, a) /\ End(members, i) <= members[a].at
         /\ End(members, i) <= n
<1>1. members \in Seq(Members)
  BY DEF TypeInv
<1>2. members[i].at \in Nat /\ End(members, i) \in Nat /\ members[i].at < End(members, i)
  BY <1>1, EndType
<1>3. members[a].at \in Nat /\ End(members, a) \in Nat /\ members[a].at < End(members, a)
  BY <1>1, EndType
<1>4. (i < a => End(members, i) <= members[a].at) /\ (a < i => End(members, a) <= members[i].at)
  BY DEF Ordered
<1>5. End(members, i) <= n
  BY DEF Ordered
<1>6. i < a \/ i = a \/ a < i
  OBVIOUS
<1> QED
  BY <1>2, <1>3, <1>4, <1>5, <1>6

LEMMA BetweenOne ==
  ASSUME TypeInv, Ordered(members, n), NEW a \in 1..Len(members)
  PROVE  Between(members[a].at, members[a].at + Zipped(members[a].data)) = a..a
<1>1. ASSUME NEW i \in 1..Len(members)
      PROVE  members[i].at >= members[a].at /\ End(members, i) <= End(members, a) <=> i = a
  <2>1. members[i].at >= members[a].at <=> i >= a
    BY MemberOrder
  <2>2. a < i => End(members, a) < End(members, i)
    BY MemberOrder
  <2>3. End(members, i) \in Nat /\ End(members, a) \in Nat
    BY MemberOrder
  <2> QED
    BY <2>1, <2>2, <2>3
<1>2. Between(members[a].at, End(members, a)) = {i \in 1..Len(members) : i = a}
  BY <1>1 DEF Between, End
<1>3. {i \in 1..Len(members) : i = a} = a..a
  OBVIOUS
<1> QED
  BY <1>2, <1>3 DEF End

LEMMA BetweenFrom ==
  ASSUME TypeInv, Ordered(members, n), NEW a \in 1..Len(members), NEW c \in a..Len(members),
         NEW to \in Int, End(members, c) <= to
  PROVE  \E b \in c..Len(members) : Between(members[a].at, to) = a..b
<1> DEFINE S == {i \in 1..Len(members) : End(members, i) <= to}
           b == Max(S)
<1>1. Len(members) \in Nat /\ c \in 1..Len(members) /\ a <= c
  <2>1. Len(members) \in Nat
    BY LenProperties DEF TypeInv
  <2> QED
    BY <2>1
<1>2. c \in S /\ S \in SUBSET (1..Len(members))
  BY <1>1
<1> HIDE DEF S
<1>3. b \in S /\ \A i \in S : i <= b
  BY <1>1, <1>2, MaxType
<1>4. b \in 1..Len(members) /\ End(members, b) <= to /\ c <= b
  <2>1. b \in 1..Len(members) /\ c <= b
    BY <1>2, <1>3
  <2> HIDE DEF b
  <2> QED
    BY <1>3, <2>1 DEF S
<1> HIDE DEF b
<1>5. ASSUME NEW i \in 1..Len(members)
      PROVE  members[i].at >= members[a].at /\ End(members, i) <= to <=> i \in a..b
  <2>1. members[i].at >= members[a].at <=> i >= a
    BY MemberOrder
  <2>2. End(members, i) <= to <=> i <= b
    <3>1. CASE i < b
      <4>1. End(members, i) < End(members, b) /\ End(members, i) \in Nat
        BY <1>4, <3>1, MemberOrder
      <4>2. End(members, b) \in Nat
        BY <1>4, MemberOrder
      <4> QED
        BY <1>4, <3>1, <4>1, <4>2
    <3>2. CASE i = b
      BY <1>4, <3>2
    <3>3. CASE b < i
      <4>1. ~ (i <= b)
        BY <1>4, <3>3
      <4>2. i \notin S
        BY <1>3, <4>1
      <4> QED
        BY <4>1, <4>2 DEF S
    <3> QED
      BY <1>4, <3>1, <3>2, <3>3
  <2> QED
    BY <1>4, <2>1, <2>2
<1>6. Between(members[a].at, to) = {i \in 1..Len(members) : i \in a..b}
  BY <1>5 DEF Between, End
<1>7. {i \in 1..Len(members) : i \in a..b} = a..b
  BY <1>4
<1> QED
  BY <1>1, <1>4, <1>6, <1>7

\* What comes out of the members from the a-th to the b-th.
LEMMA UnzippedIs ==
  ASSUME NEW a \in Int, NEW b \in Int, a <= b, NEW from, NEW to, Between(from, to) = a..b
  PROVE  Unzipped(from, to) = FlattenSeq([k \in 1..(b - a + 1) |-> members[a + k - 1].data])
<1> DEFINE ks == InOrder(Between(from, to))
<1>1. ks = [k \in 1..(b - a + 1) |-> a + k - 1] /\ Len(ks) = b - a + 1
  BY InOrderInterval
<1> HIDE DEF ks
<1>2. [k \in 1..Len(ks) |-> members[ks[k]].data] = [k \in 1..(b - a + 1) |-> members[a + k - 1].data]
  <2>1. \A k \in 1..(b - a + 1) : ks[k] = a + k - 1
    BY <1>1
  <2> QED
    BY <1>1, <2>1
<1>3. Unzipped(from, to) = FlattenSeq([k \in 1..Len(ks) |-> members[ks[k]].data])
  BY DEF Unzipped, ks
<1> QED
  BY <1>2, <1>3

\* A single sequence stays what it is.
LEMMA FlattenOne ==
  ASSUME NEW S, NEW seqs \in [1..1 -> Seq(S)]
  PROVE  FlattenSeq(seqs) = seqs[1]
<1>1. PICK g : Partial(seqs, S, 1, g) /\ FlattenSeq(seqs) = g[1]
  <2>1. 1 \in Nat \ {0}
    OBVIOUS
  <2>2. \E g : Partial(seqs, S, 1, g) /\ FlattenSeq(seqs) = g[1]
    BY <2>1, FlattenSteps
  <2> QED
    BY <2>2
<1>2. 1 \in 1..1
  OBVIOUS
<1> QED
  BY <1>1, <1>2 DEF Partial

\* A chunk's range of the archive has the chunk.
LEMMA UnzippedChunk ==
  ASSUME NEW e, NEW f, Reading(e, f), NEW k \in 1..Len(tar), Big(tar[k]), NEW c \in 1..Spread(tar[k])
  PROVE  Unzipped(toc[e[k] + c - 1].offset, toc[e[k] + c - 1].offset + toc[e[k] + c - 1].compressed)
           = ChunkBytes(k, c, tar[k].size)
<1> DEFINE m == f[k] + c - 1
           j == e[k] + c - 1
           data == ChunkBytes(k, c, tar[k].size)
<1>1. TypeInv /\ Ordered(members, n) /\ members \in Seq(Members)
  BY DEF Reading, TypeInv
<1>2. /\ m \in 1..Len(members) /\ toc[j].offset = members[m].at
      /\ members[m].data = data /\ toc[j].compressed = ChunkLength(c, tar[k].size) + 1
  BY ChunkEntryIs
<1>3. Zipped(data) = ChunkLength(c, tar[k].size) + 1
  <2>1. tar[k].size \in Nat \ {0} /\ c \in 1..ChunksOf(tar[k].size) /\ k \in Nat /\ 0 \in Nat
    BY BlockType
  <2> QED
    BY <2>1, ChunkType
<1> HIDE DEF m, j, data
<1>4. Between(toc[j].offset, toc[j].offset + toc[j].compressed) = m..m
  BY <1>1, <1>2, <1>3, BetweenOne
<1>5. m \in Int /\ m <= m /\ m - m + 1 = 1 /\ m + 1 - 1 = m
  BY <1>2
<1> DEFINE seqs == [i \in 1..1 |-> members[m + i - 1].data]
<1>6. Unzipped(toc[j].offset, toc[j].offset + toc[j].compressed) = FlattenSeq(seqs)
  <2>1. Unzipped(toc[j].offset, toc[j].offset + toc[j].compressed)
          = FlattenSeq([i \in 1..(m - m + 1) |-> members[m + i - 1].data])
    BY <1>4, <1>5, UnzippedIs
  <2> QED
    BY <1>5, <2>1
<1>7. seqs[1] = data
  BY <1>2, <1>5
<1>8. seqs \in [1..1 -> Seq(Bytes)]
  <2>1. members[m].data \in Seq(Bytes)
    BY <1>1, <1>2, EndType
  <2>2. \A i \in 1..1 : m + i - 1 = m
    BY <1>5
  <2> QED
    BY <2>1, <2>2
<1> HIDE DEF seqs
<1>9. FlattenSeq(seqs) = data
  BY <1>7, <1>8, FlattenOne
<1> QED
  BY <1>6, <1>9 DEF j, data

\* The bytes of the k-th header's file after the first "from".
RestOf(k, size, from) == [b \in 1..(size - from) |-> Byte(k, from + b)]

LEMMA RestType ==
  ASSUME NEW k \in Nat, NEW size \in Nat, NEW from \in Nat, from <= size
  PROVE  /\ RestOf(k, size, from) \in Seq(Bytes) /\ Len(RestOf(k, size, from)) = size - from
         /\ \A b \in 1..(size - from) : RestOf(k, size, from)[b] = Byte(k, from + b)
<1>1. size - from \in Nat
  OBVIOUS
<1>2. RestOf(k, size, from) \in [1..(size - from) -> Bytes]
  BY DEF RestOf, Byte, Bytes
<1>3. RestOf(k, size, from) \in Seq(Bytes) /\ Len(RestOf(k, size, from)) = size - from
  BY <1>1, <1>2, LengthType
<1> QED
  BY <1>3 DEF RestOf

\* The chunks from the d-th on are the pieces of what follows the ones before.
LEMMA ChunkPieces ==
  ASSUME NEW size \in Nat \ {0}, NEW k \in Nat, NEW d \in 1..ChunksOf(size), NEW seqs,
         \A i \in 1..(ChunksOf(size) - d + 1) : seqs[i] = ChunkBytes(k, d + i - 1, size)
  PROVE  \E cut : Pieces(seqs, RestOf(k, size, ChunkOffset(d)), ChunksOf(size) - d + 1, cut)
<1> DEFINE m == ChunksOf(size)
           from == ChunkOffset(d)
           rest == RestOf(k, size, from)
           l == m - d + 1
           cut == [i \in 0..l |-> IF i = l THEN size - from ELSE ChunkOffset(d + i) - from]
<1>1. m \in Nat \ {0} /\ d \in Nat /\ d >= 1 /\ d <= m /\ l \in Nat /\ l >= 1
  BY ChunksType
<1>2. from \in Nat /\ from <= size
  <2>1. ChunkLength(d, size) \in Nat /\ ChunkOffset(d) \in Nat /\ ChunkOffset(d) + ChunkLength(d, size) <= size
    BY ChunkFacts
  <2> QED
    BY <2>1
<1>3. Len(rest) = size - from /\ \A b \in 1..(size - from) : rest[b] = Byte(k, from + b)
  BY <1>2, RestType
<1>4. cut[0] = 0 /\ cut[l] = Len(rest)
  <2>1. 0 \in 0..l /\ l \in 0..l /\ 0 # l /\ d + 0 = d
    BY <1>1
  <2> HIDE DEF l, from
  <2> QED
    BY <1>2, <1>3, <2>1 DEF from
<1>5. ASSUME NEW i \in 1..l
      PROVE  /\ cut[i - 1] \in Nat /\ cut[i] \in Nat /\ Len(seqs[i]) = cut[i] - cut[i - 1]
             /\ \A b \in 1..Len(seqs[i]) : seqs[i][b] = rest[cut[i - 1] + b]
  <2> DEFINE c == d + i - 1
             cl == ChunkLength(c, size)
  <2>1. c \in 1..m /\ c \in Int /\ c >= d /\ i - 1 \in 0..l /\ i \in 0..l /\ i - 1 # l
        /\ d + (i - 1) = c /\ d + i = c + 1 /\ (i = l <=> c = m)
    BY <1>1
  <2>2. /\ ChunkOffset(c) \in Nat /\ cl \in Nat /\ ChunkOffset(c) + cl <= size
        /\ c < m => cl = ChunkSize
        /\ c = m => ChunkOffset(c) + cl = size
    BY <2>1, ChunkFacts
  <2>3. seqs[i] = ChunkBytes(k, c, size)
    OBVIOUS
  <2>4. Len(seqs[i]) = cl /\ \A b \in 1..cl : seqs[i][b] = Byte(k, ChunkOffset(c) + b)
    <3>1. c \in 1..ChunksOf(size) /\ 0 \in Nat
      BY <2>1
    <3> HIDE DEF c
    <3> QED
      BY <2>3, <3>1, ChunkType
  <2>5. ChunkOffset(d) <= ChunkOffset(c) /\ ChunkOffset(c + 1) = ChunkOffset(c) + ChunkSize
    <3>1. d \in Int /\ c \in Int
      BY <1>1, <2>1
    <3>2. d < c => ChunkOffset(d) + ChunkSize <= ChunkOffset(c)
      BY <3>1, OffsetOrder
    <3>3. ChunkOffset(c + 1) = ChunkOffset(c) + ChunkSize
      BY <3>1, OffsetOrder
    <3>4. ChunkSize \in Nat
      BY ArchiveAssumption
    <3>5. d = c \/ d < c
      BY <1>1, <2>1
    <3> HIDE DEF c
    <3>6. ChunkOffset(d) \in Nat
      BY <1>2
    <3> QED
      BY <2>2, <3>2, <3>3, <3>4, <3>5, <3>6
  <2>6. cut[i - 1] = ChunkOffset(c) - from
    <3>1. cut[i - 1] = ChunkOffset(d + (i - 1)) - from
      <4> HIDE DEF l, from, c
      <4> QED
        BY <2>1
    <3> QED
      BY <2>1, <3>1
  <2>7. cut[i] = (ChunkOffset(c) + cl) - from
    <3>1. cut[i] = IF i = l THEN size - from ELSE ChunkOffset(d + i) - from
      <4> HIDE DEF l, from, c
      <4> QED
        BY <2>1
    <3>2. CASE i = l
      <4>1. ChunkOffset(c) + cl = size
        BY <2>1, <2>2, <3>2
      <4> HIDE DEF c, cl, l, from
      <4> QED
        BY <3>1, <3>2, <4>1
    <3>3. CASE i # l
      <4>1. c < m
        BY <1>1, <2>1, <3>3
      <4>2. ChunkOffset(d + i) = ChunkOffset(c) + cl
        BY <2>1, <2>2, <2>5, <4>1
      <4> HIDE DEF c, cl, l, from
      <4> QED
        BY <3>1, <3>3, <4>2
    <3> QED
      BY <3>2, <3>3
  <2> HIDE DEF c, cl, cut, l, rest
  <2>8. cut[i - 1] \in Nat /\ cut[i] \in Nat /\ cut[i] - cut[i - 1] = cl
    BY <1>2, <2>2, <2>5, <2>6, <2>7
  <2>9. ASSUME NEW b \in 1..cl PROVE seqs[i][b] = rest[cut[i - 1] + b]
    <3>1. cut[i - 1] + b \in 1..(size - from) /\ from + (cut[i - 1] + b) = ChunkOffset(c) + b
      BY <1>2, <2>2, <2>5, <2>6, <2>8
    <3>2. rest[cut[i - 1] + b] = Byte(k, from + (cut[i - 1] + b))
      BY <1>3, <3>1
    <3> QED
      BY <2>4, <3>1, <3>2
  <2> QED
    BY <2>4, <2>8, <2>9
<1> HIDE DEF cut
<1>6. Pieces(seqs, rest, l, cut)
  BY <1>4, <1>5 DEF Pieces
<1> QED
  BY <1>6

LEMMA ContentIs ==
  ASSUME NEW e, NEW f, Reading(e, f), NEW p \in Files
  PROVE  Content(p) = RestOf(Source(p), tar[Source(p)].size, 0)
<1>1. tar[Source(p)].size \in Nat
  BY FileIs, BlockType
<1>2. tar[Source(p)].size - 0 = tar[Source(p)].size /\ \A b \in 1..tar[Source(p)].size : 0 + b = b
  BY <1>1
<1> QED
  BY <1>2 DEF Content, RestOf

\* No bytes come out of no range.
LEMMA UnzippedNone ==
  ASSUME TypeInv
  PROVE  Unzipped(0, 0) = <<>>
<1>1. members \in Seq(Members)
  BY DEF TypeInv
<1>2. ASSUME NEW i \in 1..Len(members) PROVE ~ (members[i].at + Zipped(members[i].data) <= 0)
  <2>1. members[i].at \in Nat /\ End(members, i) \in Nat /\ members[i].at < End(members, i)
    BY <1>1, EndType
  <2> QED
    BY <2>1 DEF End
<1>3. Between(0, 0) = {}
  BY <1>2 DEF Between
<1> DEFINE ks == InOrder(Between(0, 0))
<1>4. Cardinality({}) = 0
  BY FS_EmptySet
<1>5. ks \in [1..0 -> Nat]
  BY <1>3, <1>4 DEF InOrder
<1> HIDE DEF ks
<1>6. Len(ks) = 0
  BY <1>5, LengthType
<1> DEFINE seqs == [k \in 1..Len(ks) |-> members[ks[k]].data]
<1>7. seqs \in [1..0 -> Seq(Bytes)]
  BY <1>6
<1> HIDE DEF seqs
<1>8. seqs \in Seq(Seq(Bytes)) /\ Len(seqs) = 0
  BY <1>7, LengthType
<1>9. FlattenSeq(seqs) = seqs
  BY <1>8 DEF FlattenSeq
<1>10. seqs = <<>>
  BY <1>8, EmptySeq
<1>11. Unzipped(0, 0) = FlattenSeq(seqs)
  BY DEF Unzipped, ks, seqs
<1> QED
  BY <1>9, <1>10, <1>11

LEMMA EmptyFile ==
  ASSUME NEW e, NEW f, Reading(e, f), NEW p \in Files, tar[Source(p)].size = 0
  PROVE  /\ Extracted(p) = Content(p)
         /\ ~ Chunked(p) /\ ChunkSizeAt(Entry(p)) = 0
<1> DEFINE k == Source(p)
           h == tar[k]
<1>0. ~ (0 > ChunkSize)
  BY ArchiveAssumption
<1>1. /\ k \in 1..Len(tar) /\ h.type = "reg" /\ ~ Big(h) /\ Entry(p) = e[k]
      /\ Chunked(p) <=> h.size > ChunkSize
      /\ Chunks(p) = [c \in 1..Spread(h) |-> e[k] + c - 1] /\ Len(Chunks(p)) = Spread(h)
  BY <1>0, FileIs
<1>2. ChunkSize \in Nat \ {0} /\ TypeInv
  BY ArchiveAssumption DEF Reading
<1>3. ~ Chunked(p)
  BY <1>1, <1>2
<1>4. e[k] \in Nat
  BY <1>1, BlockType
<1>5. toc[e[k]] = EntryOf(h)
  BY <1>1, FirstEntry
<1> HIDE DEF k
<1>6. /\ toc[e[k]].offset = 0 /\ toc[e[k]].compressed = 0 /\ toc[e[k]].chunkSize = 0
      /\ toc[e[k]].type = "reg" /\ toc[e[k]].size = 0
  BY <1>1, <1>5 DEF EntryOf, k
<1>7. ChunkSizeAt(e[k]) = 0
  BY <1>6 DEF ChunkSizeAt
<1> DEFINE chunks == Chunks(p)
           data(j) == Unzipped(toc[j].offset, toc[j].offset + toc[j].compressed)
           piece(j) == SubSeq(data(j), 1, Min({ChunkSizeAt(j), Len(data(j))}))
           seqs == [i \in 1..Len(chunks) |-> piece(chunks[i])]
<1>8. Spread(h) = 1 /\ e[k] + 1 - 1 = e[k]
  BY <1>1, <1>4 DEF Spread
<1>9. Len(chunks) = 1 /\ \A i \in 1..1 : chunks[i] = e[k]
  <2>1. chunks = [c \in 1..1 |-> e[k] + c - 1]
    BY <1>1, <1>8 DEF k
  <2>2. \A i \in 1..1 : i = 1
    OBVIOUS
  <2> HIDE DEF chunks
  <2> QED
    BY <1>1, <1>8, <2>1, <2>2 DEF chunks
<1>10. data(e[k]) = <<>>
  BY <1>2, <1>6, UnzippedNone
<1>11. Len(<<>>) = 0 /\ Min({0, 0}) = 0
  BY MinOfTwo
<1>12. piece(e[k]) = <<>>
  <2> HIDE DEF data
  <2>1. Min({ChunkSizeAt(e[k]), Len(data(e[k]))}) = 0
    BY <1>7, <1>10, <1>11
  <2>2. SubSeq(<<>>, 1, 0) = <<>>
    BY SubSeqEmpty
  <2> QED
    BY <1>10, <2>1, <2>2
<1> HIDE DEF piece, chunks
<1>13. seqs \in [1..1 -> Seq(Bytes)] /\ seqs[1] = <<>>
  <2>1. seqs = [i \in 1..1 |-> piece(chunks[i])]
    BY <1>9
  <2>2. \A i \in 1..1 : piece(chunks[i]) = <<>>
    BY <1>9, <1>12
  <2>3. \A i \in 1..1 : piece(chunks[i]) \in Seq(Bytes)
    BY <2>2, EmptySeq
  <2>4. 1 \in 1..1
    OBVIOUS
  <2> HIDE DEF seqs
  <2>5. seqs \in [1..1 -> Seq(Bytes)]
    BY <2>1, <2>3
  <2>6. seqs[1] = <<>>
    BY <2>1, <2>2, <2>4
  <2> QED
    BY <2>5, <2>6
<1> HIDE DEF seqs
<1>14. FlattenSeq(seqs) = <<>>
  BY <1>13, FlattenOne
<1>15. Extracted(p) = FlattenSeq(seqs)
  BY DEF Extracted, seqs, piece, chunks
<1>16. Content(p) = <<>>
  <2>1. RestOf(k, 0, 0) = [b \in 1..0 |-> Byte(k, 0 + b)]
    BY DEF RestOf
  <2>2. RestOf(k, 0, 0) \in Seq(Bytes) /\ Len(RestOf(k, 0, 0)) = 0
    <3>1. k \in Nat /\ 0 \in Nat /\ 0 <= 0 /\ 0 - 0 = 0
      BY <1>1
    <3> QED
      BY <3>1, RestType
  <2>3. Content(p) = RestOf(k, 0, 0)
    BY ContentIs DEF k
  <2> QED
    BY <2>2, <2>3, EmptySeq
<1> QED
  BY <1>1, <1>3, <1>7, <1>14, <1>15, <1>16

LEMMA ExtractedFile ==
  ASSUME NEW e, NEW f, Reading(e, f), NEW p \in Files, tar[Source(p)].size # 0
  PROVE  Extracted(p) = Content(p)
<1> DEFINE k == Source(p)
           size == tar[k].size
           l == Spread(tar[k])
           chunks == Chunks(p)
           data(j) == Unzipped(toc[j].offset, toc[j].offset + toc[j].compressed)
           piece(j) == SubSeq(data(j), 1, Min({ChunkSizeAt(j), Len(data(j))}))
           seqs == [i \in 1..Len(chunks) |-> piece(chunks[i])]
<1>1. /\ k \in 1..Len(tar) /\ Big(tar[k])
      /\ chunks = [c \in 1..l |-> e[k] + c - 1] /\ Len(chunks) = l
  BY FileIs
<1>2. size \in Nat \ {0} /\ l = ChunksOf(size) /\ k \in Nat /\ e[k] \in Nat /\ l \in Nat \ {0}
  BY <1>1, BlockType
<1>3. ASSUME NEW c \in 1..l
      PROVE  piece(chunks[c]) = ChunkBytes(k, c, size) /\ ChunkBytes(k, c, size) \in Seq(Bytes)
  <2> DEFINE j == e[k] + c - 1
             bytes == ChunkBytes(k, c, size)
  <2>1. chunks[c] = j
    BY <1>1
  <2>2. data(j) = bytes
    BY <1>1, UnzippedChunk
  <2>3. ChunkSizeAt(j) = ChunkLength(c, size)
    BY <1>1, ChunkSizeIs
  <2>4. bytes \in Seq(Bytes) /\ Len(bytes) = ChunkLength(c, size)
    <3>1. c \in 1..ChunksOf(size) /\ 0 \in Nat
      BY <1>2
    <3> HIDE DEF size, k
    <3> QED
      BY <1>2, <3>1, ChunkType
  <2>5. ChunkLength(c, size) \in Nat
    BY <2>4, LenProperties
  <2> HIDE DEF data, j, bytes, size, k
  <2>6. Min({ChunkSizeAt(j), Len(data(j))}) = Len(bytes)
    BY <2>2, <2>3, <2>4, <2>5, MinOfTwo
  <2>7. SubSeq(bytes, 1, Len(bytes)) = bytes
    BY <2>4
  <2> QED
    BY <2>1, <2>2, <2>4, <2>6, <2>7 DEF bytes
<1> HIDE DEF piece, chunks
<1>4. seqs \in [1..l -> Seq(Bytes)]
  BY <1>1, <1>3
<1>5. \A i \in 1..(ChunksOf(size) - 1 + 1) : seqs[i] = ChunkBytes(k, 1 + i - 1, size)
  <2>1. ASSUME NEW i \in 1..(ChunksOf(size) - 1 + 1) PROVE i \in 1..l /\ 1 + i - 1 = i
    BY <1>2
  <2>2. \A i \in 1..l : seqs[i] = ChunkBytes(k, i, size)
    BY <1>1, <1>3
  <2> QED
    BY <2>1, <2>2
<1> HIDE DEF seqs, size, k, l
<1>6. PICK cut : Pieces(seqs, RestOf(k, size, ChunkOffset(1)), ChunksOf(size) - 1 + 1, cut)
  <2>1. 1 \in 1..ChunksOf(size)
    BY <1>2, ChunksType
  <2> QED
    BY <1>2, <1>5, <2>1, ChunkPieces
<1>7. ChunkOffset(1) = 0 /\ ChunksOf(size) - 1 + 1 = l
  BY <1>2, OffsetOrder
<1>8. Content(p) = RestOf(k, size, 0)
  BY ContentIs DEF k, size
<1>9. Content(p) \in Seq(Bytes)
  BY <1>2, <1>8, RestType
<1>10. FlattenSeq(seqs) = Content(p)
  <2>1. Pieces(seqs, Content(p), l, cut) /\ l \in 1..l /\ l \in Nat \ {0}
    BY <1>2, <1>6, <1>7, <1>8
  <2>2. l = l => FlattenSeq(seqs) = Content(p)
    BY <1>4, <1>9, <2>1, FlattenPieces
  <2> QED
    BY <2>2
<1>11. Extracted(p) = FlattenSeq(seqs)
  BY DEF Extracted, seqs, piece, chunks
<1> QED
  BY <1>10, <1>11

-----------------------------------------------------------------------------
(* Reading at an offset.                                                   *)

LEMMA DropIs ==
  ASSUME NEW S, NEW s \in Seq(S), NEW m \in Nat, m <= Len(s)
  PROVE  /\ Drop(s, m) \in Seq(S) /\ Len(Drop(s, m)) = Len(s) - m
         /\ \A b \in 1..(Len(s) - m) : Drop(s, m)[b] = s[m + b]
<1> DEFINE first == m + 1
           last == Len(s)
<1>1. last \in Nat /\ first \in Int /\ last - first + 1 = last - m
  BY LenProperties
<1>2. \A i \in first..last : s[i] \in S
  <2>1. \A i \in first..last : i \in 1..Len(s)
    BY <1>1
  <2> QED
    BY <2>1, ElementOfSeq
<1>3. Drop(s, m) = SubSeq(s, first, last)
  BY DEF Drop
<1>4. \A b \in 1..(last - m) : first + b - 1 = m + b
  BY <1>1
<1>5. (IF first <= last THEN last - first + 1 ELSE 0) = last - m
  <2>0. \A x, y \in Nat : y <= x => y + 1 <= x \/ (~ (y + 1 <= x) /\ x - y = 0)
    OBVIOUS
  <2>1. first <= last \/ (~ (first <= last) /\ last - m = 0)
    BY <1>1, <2>0
  <2> HIDE DEF first, last
  <2> QED
    BY <1>1, <2>1
<1> HIDE DEF first, last
<1>6. /\ SubSeq(s, first, last) \in Seq(S)
      /\ Len(SubSeq(s, first, last)) = IF first <= last THEN last - first + 1 ELSE 0
      /\ \A b \in 1..(last - first + 1) : SubSeq(s, first, last)[b] = s[first + b - 1]
  <2>1. first \in Int /\ last \in Int
    BY <1>1
  <2> QED
    BY <1>2, <2>1, SubSeqProperties
<1>7. \A b \in 1..(last - m) : Drop(s, m)[b] = s[m + b]
  BY <1>1, <1>3, <1>4, <1>6
<1> QED
  BY <1>3, <1>5, <1>6, <1>7 DEF last

\* A sequence that begins with the bytes of another has it as a prefix.
LEMMA PrefixIs ==
  ASSUME NEW S, NEW s \in Seq(S), NEW t \in Seq(S), Len(s) <= Len(t),
         \A b \in 1..Len(s) : t[b] = s[b]
  PROVE  IsPrefix(s, t)
<1>1. Len(s) \in Nat /\ Len(t) \in Nat
  BY LenProperties
<1>2. SubSeq(s, 1, Len(s)) = s
  OBVIOUS
<1>3. SubSeq(t, 1, Len(s)) \in Seq(S) /\ Len(SubSeq(t, 1, Len(s))) = Len(s)
      /\ \A i \in 1..Len(s) : SubSeq(t, 1, Len(s))[i] = t[i]
  <2>1. \A i \in 1..Len(s) : t[i] \in S
    <3>1. \A i \in 1..Len(s) : i \in 1..Len(t)
      BY <1>1
    <3> QED
      BY <3>1, ElementOfSeq
  <2> DEFINE last == Len(s)
  <2>2. last \in Int /\ 1 \in Int /\ last - 1 + 1 = last /\ (IF 1 <= last THEN last - 1 + 1 ELSE 0) = last
        /\ \A i \in 1..last : 1 + i - 1 = i
    BY <1>1
  <2>3. \A i \in 1..last : t[i] \in S
    BY <2>1
  <2> HIDE DEF last
  <2>4. /\ SubSeq(t, 1, last) \in Seq(S)
        /\ Len(SubSeq(t, 1, last)) = IF 1 <= last THEN last - 1 + 1 ELSE 0
        /\ \A i \in 1..(last - 1 + 1) : SubSeq(t, 1, last)[i] = t[1 + i - 1]
    BY <2>2, <2>3, SubSeqProperties
  <2>5. \A i \in 1..last : SubSeq(t, 1, last)[i] = t[i]
    BY <2>2, <2>4
  <2> QED
    BY <2>2, <2>4, <2>5 DEF last
<1>4. SubSeq(t, 1, Len(s)) = s
  BY <1>3, SeqEqual
<1> QED
  BY <1>2, <1>4 DEF IsPrefix

\* Each offset of a file is in one chunk.
LEMMA ChunkAtOffset ==
  ASSUME NEW size \in Nat \ {0}, NEW off \in 0..(size - 1)
  PROVE  \E c \in 1..ChunksOf(size) :
           /\ ChunkOffset(c) \in Nat /\ ChunkLength(c, size) \in Nat
           /\ ChunkOffset(c) <= off /\ off < ChunkOffset(c) + ChunkLength(c, size)
           /\ \A d \in 1..ChunksOf(size) :
                /\ d < c => ChunkOffset(d) < off /\ ChunkOffset(d) + ChunkLength(d, size) <= off
                /\ c < d => off < ChunkOffset(d)
<1> DEFINE m == ChunksOf(size)
           S == {c \in 1..m : ChunkOffset(c) <= off}
           c == Max(S)
<1>1. m \in Nat \ {0} /\ off \in Nat /\ off < size /\ ChunkSize \in Nat \ {0}
  BY ChunksType, ArchiveAssumption
<1>2. 1 \in S /\ S \in SUBSET (1..m)
  <2>1. ChunkOffset(1) = 0
    BY OffsetOrder
  <2> HIDE DEF m
  <2> QED
    BY <1>1, <2>1
<1>3. c \in S /\ \A y \in S : y <= c
  <2> HIDE DEF S, m
  <2> QED
    BY <1>1, <1>2, MaxType
<1>4. c \in 1..m /\ ChunkOffset(c) <= off /\ \A y \in 1..m : ChunkOffset(y) <= off => y <= c
  <2> HIDE DEF m, c
  <2> QED
    BY <1>3
<1> HIDE DEF c, S
<1>5. /\ ChunkOffset(c) \in Nat /\ ChunkLength(c, size) \in Nat \ {0}
      /\ c < m => ChunkLength(c, size) = ChunkSize
      /\ c = m => ChunkOffset(c) + ChunkLength(c, size) = size
  BY <1>4, ChunkFacts
<1> HIDE DEF m
<1>6. ASSUME NEW d \in 1..m, c < d PROVE off < ChunkOffset(d) /\ ChunkOffset(c) + ChunkSize <= ChunkOffset(d)
  <2>1. c \in Int /\ d \in Int /\ ~ (d <= c)
    BY <1>4, <1>6
  <2>2. ChunkOffset(d) \in Int /\ ~ (ChunkOffset(d) <= off)
    BY <1>4, <2>1, OffsetOrder
  <2>3. ChunkOffset(c) + ChunkSize <= ChunkOffset(d)
    BY <1>6, <2>1, OffsetOrder
  <2> QED
    BY <1>1, <2>2, <2>3
<1>7. off < ChunkOffset(c) + ChunkLength(c, size)
  <2>1. CASE c = m
    BY <1>1, <1>5, <2>1
  <2>2. CASE c # m
    <3>1. c < m /\ c \in Int /\ c + 1 \in 1..m /\ c < c + 1
      BY <1>1, <1>4, <2>2
    <3>2. ChunkOffset(c + 1) = ChunkOffset(c) + ChunkSize
      BY <3>1, OffsetOrder
    <3>3. off < ChunkOffset(c + 1)
      BY <1>6, <3>1
    <3> QED
      BY <1>5, <3>1, <3>2, <3>3
  <2> QED
    BY <2>1, <2>2
<1>8. ASSUME NEW d \in 1..m, d < c PROVE ChunkOffset(d) < off /\ ChunkOffset(d) + ChunkLength(d, size) <= off
  <2>1. c \in Int /\ d \in Int
    BY <1>4
  <2>2. ChunkOffset(d) + ChunkSize <= ChunkOffset(c)
    BY <1>8, <2>1, OffsetOrder
  <2>3. ChunkOffset(d) \in Nat /\ ChunkLength(d, size) \in Nat \ {0} /\ ChunkLength(d, size) <= ChunkSize
    BY ChunkFacts DEF m
  <2> QED
    BY <1>1, <1>4, <1>5, <2>2, <2>3
<1> QED
  BY <1>4, <1>5, <1>6, <1>7, <1>8 DEF m

\* The next offset is not before the end of the file's last chunk.
LEMMA NextOffsetIs ==
  ASSUME NEW e, NEW f, Reading(e, f), NEW k \in 1..Len(tar), Big(tar[k])
  PROVE  /\ NextOffset(e[k] + Spread(tar[k]) - 1) \in Int
         /\ End(members, f[k] + Spread(tar[k]) - 1) <= NextOffset(e[k] + Spread(tar[k]) - 1)
<1> DEFINE l == Spread(tar[k])
           j == e[k] + l - 1
           m == f[k] + l - 1
           later == {toc[i].offset : i \in {i \in Indices : i > j /\ toc[i].offset # 0}}
<1>1. TypeInv /\ Ordered(members, n) /\ n \in Nat /\ toc \in Seq(TocEntries)
  BY DEF Reading, TypeInv
<1>2. l \in Nat \ {0} /\ l \in 1..l /\ e[k] \in Nat /\ j \in Indices
  <2>1. l \in Nat \ {0} /\ e[k] \in Nat
    BY BlockType
  <2>2. l \in 1..l
    BY <2>1
  <2> QED
    BY <2>1, <2>2, BlockType
<1>3. m \in 1..Len(members) /\ f[k] \in Nat
  BY <1>2, ChunkEntryIs
<1>4. End(members, m) \in Nat /\ End(members, m) <= n
  BY <1>1, <1>3, MemberOrder
<1>5. NextOffset(j) = IF later = {} THEN Size ELSE Min(later)
  BY DEF NextOffset
<1>6. CASE later = {}
  <2>1. NextOffset(j) = n + 51
    BY <1>5, <1>6 DEF Size
  <2> HIDE DEF j, m, later
  <2>2. NextOffset(j) \in Int /\ End(members, m) <= NextOffset(j)
    BY <1>1, <1>4, <2>1
  <2> QED
    BY <2>2 DEF j, m
<1>7. ASSUME NEW i \in Indices, i > j, toc[i].offset # 0
      PROVE  toc[i].offset \in Nat /\ End(members, m) <= toc[i].offset
  <2>1. PICK h \in 1..Len(tar) : \E c \in 1..Spread(tar[h]) : i = e[h] + c - 1
    BY BlockOf
  <2>2. PICK c \in 1..Spread(tar[h]) : i = e[h] + c - 1
    BY <2>1
  <2>3. Big(tar[h])
    <3> SUFFICES ASSUME ~ Big(tar[h]) PROVE FALSE
      OBVIOUS
    <3>1. c = 1 /\ e[h] \in Nat
      BY BlockType DEF Spread
    <3>2. toc[i] = EntryOf(tar[h])
      BY <2>2, <3>1, FirstEntry
    <3> QED
      BY <1>7, <3>2 DEF EntryOf
  <2>4. k < h
    <3>1. e[h] \in Nat /\ h \in Nat /\ k \in Nat /\ c \in Nat /\ i \in Int
      <4>1. e[h] \in Nat /\ h \in Nat /\ Spread(tar[h]) \in Nat
        BY BlockType
      <4>2. k \in Nat
        BY BlockType
      <4> QED
        BY <4>1, <4>2 DEF Indices
    <3>2. h < k => e[h] + c - 1 < e[k] + l - 1
      BY <1>2, BlockOrder
    <3>3. h # k
      <4>1. ASSUME h = k PROVE FALSE
        <5>1. c <= l /\ i = e[k] + c - 1
          BY <1>2, <2>2, <4>1
        <5> QED
          BY <1>2, <1>7, <3>1, <5>1
      <4> QED
        BY <4>1
    <3> QED
      BY <1>2, <1>7, <2>2, <3>1, <3>2, <3>3
  <2>5. /\ f[h] + c - 1 \in 1..Len(members) /\ toc[i].offset = members[f[h] + c - 1].at
        /\ toc[i].offset \in Nat /\ f[h] \in Nat
    BY <2>2, <2>3, ChunkEntryIs
  <2>6. f[k] + l <= f[h]
    BY <2>3, <2>4 DEF Reading, Layout
  <2>7. m < f[h] + c - 1
    <3>1. c >= 1 /\ c \in Int
      BY BlockType
    <3> QED
      BY <1>2, <1>3, <2>5, <2>6, <3>1
  <2> HIDE DEF m
  <2>8. End(members, m) <= members[f[h] + c - 1].at
    BY <1>1, <1>3, <2>5, <2>7, MemberOrder
  <2> QED
    BY <2>5, <2>8
<1>8. CASE later # {}
  <2>1. later \in SUBSET Nat
    BY <1>7
  <2>2. Min(later) \in later
    <3> HIDE DEF later
    <3> QED
      BY <1>8, <2>1, MinType
  <2>3. PICK i \in Indices : i > j /\ toc[i].offset # 0 /\ Min(later) = toc[i].offset
    BY <2>2
  <2>4. toc[i].offset \in Nat /\ End(members, m) <= toc[i].offset
    BY <1>7, <2>3
  <2>5. NextOffset(j) = toc[i].offset
    BY <1>5, <1>8, <2>3
  <2> HIDE DEF j, m, later
  <2>6. NextOffset(j) \in Int /\ End(members, m) <= NextOffset(j)
    BY <2>4, <2>5
  <2> QED
    BY <2>6 DEF j, m
<1> QED
  BY <1>6, <1>8

\* The entries of a file's chunks by number.
LEMMA FileChunks ==
  ASSUME NEW e, NEW f, Reading(e, f), NEW p \in Files, tar[Source(p)].size # 0
  PROVE  /\ Source(p) \in 1..Len(tar) /\ Big(tar[Source(p)]) /\ Source(p) \in Nat
         /\ tar[Source(p)].size \in Nat \ {0} /\ e[Source(p)] \in Nat \ {0}
         /\ Spread(tar[Source(p)]) = ChunksOf(tar[Source(p)].size)
         /\ ChunksOf(tar[Source(p)].size) \in Nat \ {0}
         /\ Len(Chunks(p)) = ChunksOf(tar[Source(p)].size)
         /\ \A c \in 1..ChunksOf(tar[Source(p)].size) :
              /\ Chunks(p)[c] = e[Source(p)] + c - 1
              /\ toc[Chunks(p)[c]].chunkOffset = ChunkOffset(c)
              /\ ChunkSizeAt(Chunks(p)[c]) = ChunkLength(c, tar[Source(p)].size)
              /\ Chunks(p)[c] # 0
<1> DEFINE k == Source(p)
           size == tar[k].size
           l == ChunksOf(size)
           chunks == Chunks(p)
<1>1. /\ k \in 1..Len(tar) /\ Big(tar[k])
      /\ chunks = [c \in 1..Spread(tar[k]) |-> e[k] + c - 1] /\ Len(chunks) = Spread(tar[k])
  BY FileIs
<1>2. size \in Nat \ {0} /\ Spread(tar[k]) = l /\ k \in Nat /\ e[k] \in Nat /\ e[k] \in Indices
  BY <1>1, BlockType
<1>3. l \in Nat \ {0} /\ e[k] # 0
  <2>1. l \in Nat \ {0}
    BY <1>2, ChunksType
  <2> QED
    BY <1>2, <2>1 DEF Indices
<1> HIDE DEF chunks
<1>4. ASSUME NEW c \in 1..l
      PROVE  /\ chunks[c] = e[k] + c - 1 /\ toc[chunks[c]].chunkOffset = ChunkOffset(c)
             /\ ChunkSizeAt(chunks[c]) = ChunkLength(c, size) /\ chunks[c] # 0
  <2>1. c \in 1..Spread(tar[k])
    BY <1>2
  <2>2. chunks[c] = e[k] + c - 1
    BY <1>1, <2>1
  <2>3. toc[e[k] + c - 1].chunkOffset = ChunkOffset(c)
    BY <1>1, <2>1, ChunkEntryIs
  <2>4. ChunkSizeAt(e[k] + c - 1) = ChunkLength(c, size)
    BY <1>1, <2>1, ChunkSizeIs
  <2>5. e[k] + c - 1 # 0
    BY <1>2, <1>3
  <2> QED
    BY <2>2, <2>3, <2>4, <2>5
<1> QED
  BY <1>1, <1>2, <1>3, <1>4 DEF chunks

\* Where ReadAt starts, and what is there.
LEMMA StartIs ==
  ASSUME NEW e, NEW f, Reading(e, f), NEW p \in Files, tar[Source(p)].size # 0,
         NEW off \in 0..(tar[Source(p)].size - 1)
  PROVE  LET c == StartChunk(Chunks(p), off)
             size == tar[Source(p)].size
         IN /\ c \in 1..ChunksOf(size) /\ ChunkOffset(c) \in Nat /\ ChunkLength(c, size) \in Nat
            /\ ChunkOffset(c) <= off /\ off < ChunkOffset(c) + ChunkLength(c, size)
<1> DEFINE k == Source(p)
           size == tar[k].size
           l == ChunksOf(size)
           chunks == Chunks(p)
           S == From(chunks, off)
           b == Min({Search(Len(chunks), S), Len(chunks)})
<1>1. /\ size \in Nat \ {0} /\ l \in Nat \ {0} /\ Len(chunks) = l
      /\ \A c \in 1..l : toc[chunks[c]].chunkOffset = ChunkOffset(c)
  BY FileChunks
<1> HIDE DEF k, l, chunks
<1>2. PICK c \in 1..l :
        /\ ChunkOffset(c) \in Nat /\ ChunkLength(c, size) \in Nat
        /\ ChunkOffset(c) <= off /\ off < ChunkOffset(c) + ChunkLength(c, size)
        /\ \A d \in 1..l :
             /\ d < c => ChunkOffset(d) < off /\ ChunkOffset(d) + ChunkLength(d, size) <= off
             /\ c < d => off < ChunkOffset(d)
  <2>1. size \in Nat \ {0} /\ off \in 0..(size - 1)
    BY <1>1 DEF k
  <2> HIDE DEF size
  <2> QED
    BY <2>1, ChunkAtOffset DEF l
<1> HIDE DEF size
<1>3. S = {d \in 1..l : ChunkOffset(d) >= off}
  BY <1>1 DEF From
<1>4. off \in Nat /\ \A d \in 1..l : ChunkOffset(d) \in Nat
  <2>1. off \in Nat
    BY <1>1 DEF size, k
  <2>2. \A d \in 1..l : d \in Int /\ d >= 1
    BY <1>1
  <2> QED
    BY <2>1, <2>2, OffsetOrder
<1> HIDE DEF S, b
<1>5. \A d \in S : d \in 1..l /\ d >= c
  <2> TAKE d \in S
  <2>1. d \in 1..l /\ ChunkOffset(d) >= off
    BY <1>3
  <2>2. ~ (d < c)
    BY <1>2, <1>4, <2>1
  <2> QED
    BY <1>2, <2>1, <2>2
<1>6. StartChunk(chunks, off) = IF toc[chunks[b]].chunkOffset > off THEN b - 1 ELSE b
  BY DEF StartChunk, S, b
<1>7. Search(Len(chunks), S) = IF S = {} THEN l + 1 ELSE Min(S)
  BY <1>1 DEF Search
<1>8. S \in SUBSET Int /\ l \in 1..l /\ l \in Int /\ l <= l
  BY <1>1, <1>5
<1>9. CASE c \in S
  <2>1. Min(S) = c
    BY <1>5, <1>8, <1>9, MinIs
  <2>2. b = c
    <3>1. Search(Len(chunks), S) = c /\ c \in Int /\ c <= l
      BY <1>1, <1>2, <1>7, <1>9, <2>1
    <3> QED
      BY <1>1, <1>8, <3>1, MinOfTwo DEF b
  <2>3. ~ (ChunkOffset(c) > off)
    BY <1>2, <1>4
  <2>4. StartChunk(chunks, off) = c
    BY <1>1, <1>2, <1>6, <2>2, <2>3
  <2> QED
    BY <1>2, <2>4 DEF chunks, size, k, l
<1>10. CASE c \notin S /\ c = l
  <2>1. S = {}
    <3>1. \A d \in S : d = c
      BY <1>2, <1>5, <1>10
    <3> QED
      BY <1>10, <3>1
  <2>2. b = l
    <3>1. Search(Len(chunks), S) = l + 1 /\ l + 1 \in Int /\ ~ (l + 1 <= l)
      BY <1>7, <1>8, <2>1
    <3> QED
      BY <1>1, <1>8, <3>1, MinOfTwo DEF b
  <2>3. ~ (ChunkOffset(c) > off)
    BY <1>2, <1>4
  <2>4. StartChunk(chunks, off) = c
    BY <1>1, <1>2, <1>6, <1>10, <2>2, <2>3
  <2> QED
    BY <1>2, <2>4 DEF chunks, size, k, l
<1>11. CASE c \notin S /\ c # l
  <2>1. c + 1 \in 1..l /\ c < c + 1 /\ c + 1 \in Int /\ c \in Int /\ c + 1 - 1 = c
    BY <1>1, <1>2, <1>11
  <2>2. ChunkOffset(c + 1) > off
    BY <1>2, <1>4, <2>1
  <2>3. c + 1 \in S
    BY <1>3, <1>4, <2>1, <2>2
  <2>4. \A d \in S : c + 1 <= d
    <3> TAKE d \in S
    <3>1. d # c /\ d \in 1..l /\ d >= c
      BY <1>5, <1>11
    <3> QED
      BY <2>1, <3>1
  <2>5. Min(S) = c + 1
    BY <1>8, <2>3, <2>4, MinIs
  <2>6. b = c + 1
    <3>1. Search(Len(chunks), S) = c + 1 /\ c + 1 <= l
      BY <1>7, <2>1, <2>3, <2>5
    <3> QED
      BY <1>1, <1>8, <2>1, <3>1, MinOfTwo DEF b
  <2>7. StartChunk(chunks, off) = c
    BY <1>1, <1>6, <2>1, <2>2, <2>6
  <2> QED
    BY <1>2, <2>7 DEF chunks, size, k, l
<1> QED
  BY <1>9, <1>10, <1>11

LEMMA ChunkData ==
  ASSUME NEW e, NEW f, Reading(e, f), NEW k \in 1..Len(tar), Big(tar[k]), NEW c \in 1..Spread(tar[k])
  PROVE  members[f[k] + c - 1].data = ChunkBytes(k, c, tar[k].size)
BY ChunkEntryIs

\* What ReadAt decompresses: the chunk's bytes and all that follow it.
LEMMA UnzippedRest ==
  ASSUME NEW e, NEW f, Reading(e, f), NEW k \in 1..Len(tar), Big(tar[k]), NEW c \in 1..Spread(tar[k])
  PROVE  LET data == Unzipped(toc[e[k] + c - 1].offset, NextOffset(e[k] + Spread(tar[k]) - 1))
             rest == RestOf(k, tar[k].size, ChunkOffset(c))
         IN data \in Seq(Bytes) /\ Len(rest) <= Len(data) /\ \A b \in 1..Len(rest) : data[b] = rest[b]
<1> DEFINE l == Spread(tar[k])
           size == tar[k].size
           a == f[k] + c - 1
           z == f[k] + l - 1
           from == toc[e[k] + c - 1].offset
           to == NextOffset(e[k] + l - 1)
           rest == RestOf(k, size, ChunkOffset(c))
<1>1. TypeInv /\ Ordered(members, n) /\ members \in Seq(Members)
  BY DEF Reading, TypeInv
<1>2. l \in Nat \ {0} /\ size \in Nat \ {0} /\ l = ChunksOf(size) /\ k \in Nat
  BY BlockType
<1>3. /\ a \in 1..Len(members) /\ from = members[a].at /\ f[k] \in Nat
      /\ f[k] + l <= Len(members) + 1
  BY ChunkEntryIs
<1>4. Len(members) \in Nat
  BY <1>1, LenProperties
<1>5. /\ z \in a..Len(members) /\ a <= z /\ c \in Nat /\ c >= 1 /\ c <= l
      /\ a \in Int /\ z \in Int /\ l \in Int /\ z - a = l - c
  <2> DEFINE start == f[k]
             length == Len(members)
  <2>1. \A x, y, w, u \in Int : 1 <= y /\ y <= w /\ x + w <= u + 1 =>
          /\ x + w - 1 \in (x + y - 1)..u /\ x + y - 1 <= x + w - 1
          /\ x + y - 1 \in Int /\ x + w - 1 \in Int
          /\ (x + w - 1) - (x + y - 1) = w - y
    OBVIOUS
  <2>2. start \in Int /\ l \in Int /\ length \in Int /\ start + l <= length + 1
    BY <1>2, <1>3, <1>4
  <2>3. c \in Nat /\ 1 <= c /\ c <= l
    BY <1>2
  <2>4. a = start + c - 1 /\ z = start + l - 1
    OBVIOUS
  <2> HIDE DEF start, l, a, z, length
  <2>5. z \in a..length /\ a <= z /\ a \in Int /\ z \in Int /\ z - a = l - c
    BY <2>1, <2>2, <2>3, <2>4
  <2>6. c >= 1
    BY <2>3
  <2> QED
    BY <2>2, <2>3, <2>5, <2>6 DEF length
<1>6. to \in Int /\ End(members, z) <= to
  BY NextOffsetIs
<1> HIDE DEF to, z, from, rest
<1>7. PICK b \in z..Len(members) : Between(members[a].at, to) = a..b
  <2> HIDE DEF a
  <2> QED
    BY <1>1, <1>3, <1>5, <1>6, BetweenFrom
<1> DEFINE m == b - a + 1
           seqs == [i \in 1..m |-> members[a + i - 1].data]
<1>8. b \in 1..Len(members) /\ m \in Nat \ {0} /\ a <= b /\ l - c + 1 \in 1..m
  <2>1. z - a = l - c /\ a \in Int /\ z \in Int /\ a >= 1 /\ l \in Int /\ c \in Int
    <3> HIDE DEF a, l
    <3> QED
      BY <1>3, <1>5
  <2>2. b \in Int /\ z <= b /\ b <= Len(members) /\ a <= z /\ c <= l /\ c >= 1
    BY <1>4, <1>5, <1>7, <2>1
  <2> HIDE DEF a, l
  <2> QED
    BY <1>4, <2>1, <2>2
<1>9. Unzipped(from, to) = FlattenSeq(seqs)
  <2> HIDE DEF a
  <2>1. a \in Int /\ b \in Int /\ Between(from, to) = a..b
    BY <1>3, <1>7, <1>8
  <2> QED
    BY <1>8, <2>1, UnzippedIs
<1>10. seqs \in [1..m -> Seq(Bytes)]
  <2>1. \A i \in 1..m : a + i - 1 \in 1..Len(members)
    <3>1. a \in Int /\ a >= 1 /\ b \in Int /\ b <= Len(members)
      BY <1>3, <1>8
    <3> HIDE DEF a
    <3> QED
      BY <1>4, <3>1
  <2> HIDE DEF a, m
  <2>2. \A i \in 1..m : members[a + i - 1].data \in Seq(Bytes)
    BY <1>1, <2>1, EndType
  <2> QED
    BY <2>2
<1>11. ASSUME NEW i \in 1..(ChunksOf(size) - c + 1) PROVE seqs[i] = ChunkBytes(k, c + i - 1, size)
  <2>1. i \in 1..m /\ c + i - 1 \in 1..l /\ a + i - 1 = f[k] + (c + i - 1) - 1
    <3>1. i \in 1..(l - c + 1)
      BY <1>2
    <3>2. a + i - 1 = f[k] + (c + i - 1) - 1
      <4> DEFINE start == f[k]
      <4>1. start \in Int /\ c \in Int /\ i \in Int
        BY <1>3, <1>5
      <4>2. \A x, y, w \in Int : (x + y - 1) + w - 1 = x + (y + w - 1) - 1
        OBVIOUS
      <4>3. a = start + c - 1
        OBVIOUS
      <4> HIDE DEF start, a
      <4>4. a + i - 1 = start + (c + i - 1) - 1
        BY <4>1, <4>2, <4>3
      <4> QED
        BY <4>4 DEF start
    <3>3. \A x, y, w, u \in Int : 1 <= x /\ x <= y /\ 1 <= w /\ w <= y - x + 1 /\ y - x + 1 <= u =>
            w \in 1..u /\ x + w - 1 \in 1..y
      OBVIOUS
    <3> HIDE DEF a, l, m
    <3>4. c \in Int /\ 1 <= c /\ c <= l /\ l \in Int /\ m \in Int /\ l - c + 1 <= m
      BY <1>5, <1>8
    <3>5. i \in Int /\ 1 <= i /\ i <= l - c + 1
      BY <3>1, <3>4
    <3>6. i \in 1..m /\ c + i - 1 \in 1..l
      BY <3>3, <3>4, <3>5
    <3> QED
      BY <3>2, <3>6
  <2>2. members[f[k] + (c + i - 1) - 1].data = ChunkBytes(k, c + i - 1, size)
    <3> DEFINE j == c + i - 1
    <3>1. j \in 1..Spread(tar[k])
      BY <2>1
    <3> HIDE DEF j
    <3>2. members[f[k] + j - 1].data = ChunkBytes(k, j, tar[k].size)
      BY <3>1, ChunkData
    <3> QED
      BY <3>2 DEF j
  <2> HIDE DEF m
  <2>3. seqs[i] = members[a + i - 1].data
    BY <2>1
  <2> QED
    BY <2>1, <2>2, <2>3
<1>12. PICK cut : Pieces(seqs, rest, ChunksOf(size) - c + 1, cut)
  <2>1. c \in 1..ChunksOf(size)
    BY <1>2
  <2> HIDE DEF seqs, size
  <2> QED
    BY <1>2, <1>11, <2>1, ChunkPieces DEF rest
<1>13. rest \in Seq(Bytes)
  <2>1. ChunkOffset(c) \in Nat /\ ChunkLength(c, size) \in Nat /\ ChunkOffset(c) + ChunkLength(c, size) <= size
    BY <1>2, ChunkFacts
  <2>2. ChunkOffset(c) <= size
    BY <1>2, <2>1
  <2> HIDE DEF size
  <2> QED
    BY <1>2, <2>1, <2>2, RestType DEF rest
<1> HIDE DEF seqs, m, a, l, size
<1>14. /\ FlattenSeq(seqs) \in Seq(Bytes) /\ Len(rest) <= Len(FlattenSeq(seqs))
       /\ \A i \in 1..Len(rest) : FlattenSeq(seqs)[i] = rest[i]
  <2>1. ChunksOf(size) - c + 1 \in 1..m
    BY <1>2, <1>8
  <2> QED
    BY <1>8, <1>10, <1>12, <1>13, <2>1, FlattenPieces, SMTT(30)
<1> QED
  BY <1>9, <1>14 DEF from, to, rest, l, size

LEMMA ReadFile ==
  ASSUME NEW e, NEW f, Reading(e, f), NEW p \in Files, tar[Source(p)].size # 0,
         NEW off \in 0..(tar[Source(p)].size - 1)
  PROVE  IsPrefix(Drop(Content(p), off), ReadAt(p, off))
<1> DEFINE k == Source(p)
           size == tar[k].size
           l == ChunksOf(size)
           chunks == Chunks(p)
           c == StartChunk(chunks, off)
           o == ChunkOffset(c)
           rest == RestOf(k, size, o)
           data == Unzipped(toc[chunks[c]].offset, NextOffset(chunks[Len(chunks)]))
           content == Content(p)
<1>1. /\ k \in 1..Len(tar) /\ Big(tar[k]) /\ k \in Nat /\ size \in Nat \ {0} /\ Spread(tar[k]) = l
      /\ l \in Nat \ {0} /\ Len(chunks) = l
      /\ \A d \in 1..l : chunks[d] = e[k] + d - 1 /\ toc[chunks[d]].chunkOffset = ChunkOffset(d)
  BY FileChunks
<1>2. /\ c \in 1..l /\ o \in Nat /\ ChunkLength(c, size) \in Nat
      /\ o <= off /\ off < o + ChunkLength(c, size)
  BY StartIs
<1>3. off \in Nat /\ off < size
  BY <1>1
<1>4. content = RestOf(k, size, 0)
  BY ContentIs
<1> HIDE DEF c, k, chunks, size, content
<1>5. chunks[c] = e[k] + c - 1 /\ chunks[Len(chunks)] = e[k] + l - 1 /\ toc[chunks[c]].chunkOffset = o
  <2>1. l \in 1..l
    BY <1>1
  <2> QED
    BY <1>1, <1>2, <2>1
<1>6. data \in Seq(Bytes) /\ Len(rest) <= Len(data) /\ \A b \in 1..Len(rest) : data[b] = rest[b]
  <2>1. c \in 1..Spread(tar[k])
    BY <1>1, <1>2
  <2> QED
    <3>1. data = Unzipped(toc[e[k] + c - 1].offset, NextOffset(e[k] + Spread(tar[k]) - 1))
      BY <1>1, <1>5
    <3>2. rest = RestOf(k, tar[k].size, ChunkOffset(c))
      BY DEF size
    <3>3. k \in 1..Len(tar) /\ Big(tar[k])
      BY <1>1
    <3> HIDE DEF data, rest, o, l
    <3> QED
      BY <2>1, <3>1, <3>2, <3>3, UnzippedRest
<1>7. ReadAt(p, off) = Drop(data, off - o)
  <2>1. ~ (off < o)
    BY <1>2, <1>3
  <2>2. ReadAt(p, off) = IF off < toc[chunks[c]].chunkOffset THEN <<>>
                         ELSE Drop(data, off - toc[chunks[c]].chunkOffset)
    BY DEF ReadAt, c, chunks
  <2> HIDE DEF data, o
  <2> QED
    BY <1>5, <2>1, <2>2
<1>8. o <= size /\ off - o \in Nat /\ 0 <= size /\ 0 \in Nat /\ size - 0 = size
  BY <1>1, <1>2, <1>3
<1> HIDE DEF data, o
<1>9. /\ rest \in Seq(Bytes) /\ Len(rest) = size - o
      /\ \A b \in 1..(size - o) : rest[b] = Byte(k, o + b)
  BY <1>1, <1>2, <1>8, RestType
<1>10. /\ content \in Seq(Bytes) /\ Len(content) = size
       /\ \A b \in 1..size : content[b] = Byte(k, 0 + b)
  <2>1. /\ content \in Seq(Bytes) /\ Len(content) = size - 0
        /\ \A b \in 1..(size - 0) : content[b] = Byte(k, 0 + b)
    <3>1. size \in Nat
      BY <1>1
    <3>2. /\ RestOf(k, size, 0) \in Seq(Bytes) /\ Len(RestOf(k, size, 0)) = size - 0
          /\ \A b \in 1..(size - 0) : RestOf(k, size, 0)[b] = Byte(k, 0 + b)
      BY <1>1, <1>8, <3>1, RestType
    <3> QED
      BY <1>4, <3>2
  <2> QED
    BY <1>8, <2>1
<1> HIDE DEF rest
<1>11. /\ Drop(content, off) \in Seq(Bytes) /\ Len(Drop(content, off)) = size - off
       /\ \A b \in 1..(size - off) : Drop(content, off)[b] = content[off + b]
  <2>1. off <= Len(content)
    BY <1>1, <1>3, <1>10
  <2> QED
    BY <1>3, <1>10, <2>1, DropIs
<1>12. Len(data) \in Nat /\ size - o <= Len(data) /\ off - o <= Len(data)
  <2>1. Len(data) \in Nat
    BY <1>6, LenProperties
  <2> QED
    BY <1>1, <1>2, <1>3, <1>6, <1>9, <2>1
<1>13. /\ Drop(data, off - o) \in Seq(Bytes) /\ Len(Drop(data, off - o)) = Len(data) - (off - o)
       /\ \A b \in 1..(Len(data) - (off - o)) : Drop(data, off - o)[b] = data[(off - o) + b]
  <2> DEFINE m == off - o
  <2>1. m \in Nat /\ m <= Len(data)
    BY <1>8, <1>12
  <2>2. data \in Seq(Bytes)
    BY <1>6
  <2> HIDE DEF m
  <2>3. /\ Drop(data, m) \in Seq(Bytes) /\ Len(Drop(data, m)) = Len(data) - m
        /\ \A b \in 1..(Len(data) - m) : Drop(data, m)[b] = data[m + b]
    BY <2>1, <2>2, DropIs
  <2> QED
    BY <2>3 DEF m
<1>14. size - off <= Len(data) - (off - o)
  BY <1>1, <1>2, <1>3, <1>12
<1>15. ASSUME NEW b \in 1..(size - off) PROVE Drop(data, off - o)[b] = Drop(content, off)[b]
  <2>1. /\ b \in 1..(Len(data) - (off - o)) /\ (off - o) + b \in 1..(size - o) /\ off + b \in 1..size
        /\ o + ((off - o) + b) = 0 + (off + b)
    BY <1>1, <1>2, <1>3, <1>12, <1>14
  <2>2. data[(off - o) + b] = Byte(k, o + ((off - o) + b))
    BY <1>6, <1>9, <2>1
  <2>3. content[off + b] = Byte(k, 0 + (off + b))
    BY <1>10, <2>1
  <2> QED
    BY <1>11, <1>13, <2>1, <2>2, <2>3
<1>16. IsPrefix(Drop(content, off), Drop(data, off - o))
  BY <1>11, <1>13, <1>14, <1>15, PrefixIs
<1> QED
  BY <1>7, <1>16 DEF content

\* The entry found for an offset, and that there is none past the end.
LEMMA EntryForOffset ==
  ASSUME NEW e, NEW f, Reading(e, f), NEW p \in Files, tar[Source(p)].size # 0
  PROVE  /\ ChunkEntryForOffset(p, tar[Source(p)].size) = 0
         /\ \A off \in 0..(tar[Source(p)].size - 1) :
              LET entry == ChunkEntryForOffset(p, off) IN
              entry # 0 /\ toc[entry].chunkOffset <= off /\ off < toc[entry].chunkOffset + ChunkSizeAt(entry)
<1> DEFINE k == Source(p)
           size == tar[k].size
           l == ChunksOf(size)
           chunks == Chunks(p)
           found(off) == From(chunks, off) \cup
                         {c \in 1..Len(chunks) : /\ off > toc[chunks[c]].chunkOffset
                                                 /\ off < toc[chunks[c]].chunkOffset + ChunkSizeAt(chunks[c])}
<1>1. /\ size \in Nat \ {0} /\ l \in Nat \ {0} /\ Len(chunks) = l
      /\ \A c \in 1..l : /\ toc[chunks[c]].chunkOffset = ChunkOffset(c) /\ chunks[c] # 0
                         /\ ChunkSizeAt(chunks[c]) = ChunkLength(c, size)
  BY FileChunks
<1>2. /\ Chunked(p) <=> size > ChunkSize
      /\ Chunked(p) => chunks = ChunkList(p)
      /\ ~ Chunked(p) => chunks = <<Entry(p)>>
  BY FileIs DEF Chunks
<1>3. ASSUME NEW off \in Nat
      PROVE  /\ ~ Chunked(p) => ChunkEntryForOffset(p, off) =
                                  IF off >= ChunkSizeAt(Entry(p)) THEN 0 ELSE Entry(p)
             /\ Chunked(p) => ChunkEntryForOffset(p, off) =
                                IF Search(l, found(off)) > l THEN 0 ELSE chunks[Search(l, found(off))]
  <2> HIDE DEF chunks, l, size
  <2> QED
    BY <1>1, <1>2 DEF ChunkEntryForOffset
<1> HIDE DEF chunks, l, size
<1>4. \A c \in 1..l : /\ ChunkOffset(c) \in Nat /\ ChunkLength(c, size) \in Nat \ {0}
                      /\ ChunkOffset(c) + ChunkLength(c, size) <= size
                      /\ c = l => ChunkOffset(c) + ChunkLength(c, size) = size
  BY <1>1, ChunkFacts DEF l
<1>5. ASSUME NEW off \in Nat
      PROVE  found(off) = {c \in 1..l : \/ ChunkOffset(c) >= off
                                        \/ ChunkOffset(c) < off /\ off < ChunkOffset(c) + ChunkLength(c, size)}
  <2>1. From(chunks, off) = {c \in 1..l : ChunkOffset(c) >= off}
    BY <1>1 DEF From
  <2>2. {c \in 1..Len(chunks) : /\ off > toc[chunks[c]].chunkOffset
                                /\ off < toc[chunks[c]].chunkOffset + ChunkSizeAt(chunks[c])}
          = {c \in 1..l : ChunkOffset(c) < off /\ off < ChunkOffset(c) + ChunkLength(c, size)}
    BY <1>1, <1>4
  <2> QED
    BY <2>1, <2>2
<1> HIDE DEF found
<1>6. ASSUME ~ Chunked(p)
      PROVE  l = 1 /\ chunks[1] = Entry(p) /\ ChunkSizeAt(Entry(p)) = size /\ toc[Entry(p)].chunkOffset = 0
  <2>1. chunks = <<Entry(p)>>
    BY <1>2, <1>6
  <2>2. l = 1 /\ chunks[1] = Entry(p) /\ 1 \in 1..l
    BY <1>1, <2>1
  <2>3. ChunkOffset(1) = 0
    BY OffsetOrder
  <2>4. toc[Entry(p)].chunkOffset = 0 /\ ChunkSizeAt(Entry(p)) = ChunkLength(1, size)
    BY <1>1, <2>2, <2>3
  <2>5. ChunkLength(1, size) = size
    BY <1>4, <2>2, <2>3
  <2> QED
    BY <2>2, <2>4, <2>5
<1>7. ChunkEntryForOffset(p, size) = 0
  <2>1. CASE ~ Chunked(p)
    <3>1. size \in Nat /\ size >= ChunkSizeAt(Entry(p))
      BY <1>1, <1>6, <2>1
    <3> QED
      BY <1>3, <2>1, <3>1
  <2>2. CASE Chunked(p)
    <3>1. ASSUME NEW c \in found(size) PROVE FALSE
      <4>1. c \in 1..l /\ (ChunkOffset(c) >= size \/ size < ChunkOffset(c) + ChunkLength(c, size))
        BY <1>1, <1>5
      <4> QED
        BY <1>1, <1>4, <4>1
    <3>2. Search(l, found(size)) = l + 1
      BY <3>1 DEF Search
    <3>3. l + 1 > l /\ size \in Nat
      BY <1>1
    <3> QED
      BY <1>3, <2>2, <3>2, <3>3
  <2> QED
    BY <2>1, <2>2
<1>8. ASSUME NEW off \in 0..(size - 1)
      PROVE  LET entry == ChunkEntryForOffset(p, off) IN
             entry # 0 /\ toc[entry].chunkOffset <= off /\ off < toc[entry].chunkOffset + ChunkSizeAt(entry)
  <2>0. off \in Nat /\ off < size
    BY <1>1
  <2>1. CASE ~ Chunked(p)
    <3>1. /\ l = 1 /\ chunks[1] = Entry(p) /\ ChunkSizeAt(Entry(p)) = size /\ toc[Entry(p)].chunkOffset = 0
          /\ 1 \in 1..l
      BY <1>6, <2>1
    <3>2. ChunkEntryForOffset(p, off) = Entry(p)
      <4>1. ~ (off >= ChunkSizeAt(Entry(p)))
        BY <1>1, <2>0, <3>1
      <4> QED
        BY <1>3, <2>0, <2>1, <4>1
    <3>3. Entry(p) # 0
      BY <1>1, <3>1
    <3>4. 0 <= off /\ 0 + size = size
      BY <1>1, <2>0
    <3> QED
      BY <2>0, <3>1, <3>2, <3>3, <3>4
  <2>2. CASE Chunked(p)
    <3>1. PICK c \in 1..l :
            /\ ChunkOffset(c) \in Nat /\ ChunkLength(c, size) \in Nat
            /\ ChunkOffset(c) <= off /\ off < ChunkOffset(c) + ChunkLength(c, size)
            /\ \A d \in 1..l :
                 /\ d < c => ChunkOffset(d) < off /\ ChunkOffset(d) + ChunkLength(d, size) <= off
                 /\ c < d => off < ChunkOffset(d)
      BY <1>1, ChunkAtOffset DEF l
    <3>2. c \in found(off)
      <4>1. ChunkOffset(c) >= off \/ ChunkOffset(c) < off
        BY <2>0, <3>1
      <4> QED
        BY <1>5, <2>0, <3>1, <4>1
    <3>3. ASSUME NEW d \in found(off) PROVE c <= d
      <4>1. d \in 1..l /\ (ChunkOffset(d) >= off \/ off < ChunkOffset(d) + ChunkLength(d, size))
        BY <1>5, <2>0
      <4>2. ~ (d < c)
        BY <1>4, <2>0, <3>1, <4>1
      <4> QED
        BY <1>1, <3>1, <4>1, <4>2
    <3>4. found(off) \in SUBSET Int
      BY <1>5, <2>0
    <3>5. Min(found(off)) = c
      BY <3>2, <3>3, <3>4, MinIs
    <3>6. Search(l, found(off)) = c /\ ~ (c > l)
      <4>1. found(off) # {}
        BY <3>2
      <4> QED
        BY <1>1, <3>5, <4>1 DEF Search
    <3>7. ChunkEntryForOffset(p, off) = chunks[c]
      BY <1>3, <2>0, <2>2, <3>6
    <3> QED
      BY <1>1, <3>1, <3>7
  <2> QED
    BY <2>1, <2>2
<1> QED
  BY <1>7, <1>8 DEF size

\* Both properties of the archive follow from its invariant.
LEMMA FilesExtracted == ASSUME ArchiveInv PROVE ExtractedIsContent
<1>1. PICK e, f : Reading(e, f)
  BY DEF ArchiveInv, Reading
<1>2. ASSUME NEW p \in Files PROVE Extracted(p) = Content(p)
  BY <1>1, EmptyFile, ExtractedFile
<1> QED
  BY <1>2 DEF ExtractedIsContent

LEMMA FilesRead == ASSUME ArchiveInv PROVE ReadAtIsContent
<1>1. PICK e, f : Reading(e, f)
  BY DEF ArchiveInv, Reading
<1> DEFINE Found(p) ==
      /\ ChunkEntryForOffset(p, tar[Source(p)].size) = 0
      /\ \A off \in 0..(tar[Source(p)].size - 1) :
           LET entry == ChunkEntryForOffset(p, off) IN
           /\ IsPrefix(Drop(Content(p), off), ReadAt(p, off))
           /\ entry # 0 /\ toc[entry].chunkOffset <= off
           /\ off < toc[entry].chunkOffset + ChunkSizeAt(entry)
<1>2. ASSUME NEW p \in Files, tar[Source(p)].size = 0 PROVE Found(p)
  <2>1. ~ Chunked(p) /\ ChunkSizeAt(Entry(p)) = 0
    BY <1>1, <1>2, EmptyFile
  <2>2. ChunkEntryForOffset(p, 0) = 0
    BY <2>1 DEF ChunkEntryForOffset
  <2>3. 0..(0 - 1) = {}
    OBVIOUS
  <2> QED
    BY <1>2, <2>2, <2>3
<1>3. ASSUME NEW p \in Files, tar[Source(p)].size # 0 PROVE Found(p)
  <2>1. ChunkEntryForOffset(p, tar[Source(p)].size) = 0
    BY <1>1, <1>3, EntryForOffset
  <2>2. ASSUME NEW off \in 0..(tar[Source(p)].size - 1)
        PROVE  LET entry == ChunkEntryForOffset(p, off) IN
               /\ IsPrefix(Drop(Content(p), off), ReadAt(p, off))
               /\ entry # 0 /\ toc[entry].chunkOffset <= off
               /\ off < toc[entry].chunkOffset + ChunkSizeAt(entry)
    <3>1. IsPrefix(Drop(Content(p), off), ReadAt(p, off))
      BY <1>1, <1>3, ReadFile
    <3>2. LET entry == ChunkEntryForOffset(p, off) IN
          entry # 0 /\ toc[entry].chunkOffset <= off /\ off < toc[entry].chunkOffset + ChunkSizeAt(entry)
      BY <1>1, <1>3, EntryForOffset
    <3> QED
      BY <3>1, <3>2
  <2> QED
    BY <2>1, <2>2
<1>4. ASSUME NEW p \in Files PROVE Found(p)
  BY <1>2, <1>3
<1> QED
  BY <1>4 DEF ReadAtIsContent

-----------------------------------------------------------------------------
(* The paths of the tree.                                                  *)

LEMMA Beginning ==
  ASSUME NEW S, NEW p \in Seq(S), NEW m \in Nat, m <= Len(p)
  PROVE  /\ SubSeq(p, 1, m) \in Seq(S) /\ Len(SubSeq(p, 1, m)) = m
         /\ \A i \in 1..m : SubSeq(p, 1, m)[i] = p[i]
<1>1. Len(p) \in Nat /\ \A i \in 1..Len(p) : p[i] \in S
  BY LenProperties, ElementOfSeq
<1>2. \A i \in 1..m : p[i] \in S
  BY <1>1
<1>3. /\ SubSeq(p, 1, m) \in Seq(S)
      /\ Len(SubSeq(p, 1, m)) = IF 1 <= m THEN m - 1 + 1 ELSE 0
      /\ \A i \in 1..m - 1 + 1 : SubSeq(p, 1, m)[i] = p[1 + i - 1]
  BY <1>2, SubSeqProperties
<1>4. m - 1 + 1 = m /\ \A i \in 1..m : 1 + i - 1 = i
  OBVIOUS
<1> QED
  BY <1>3, <1>4

\* A path is its parent's path and its base.
LEMMA PathParts ==
  ASSUME NEW S, NEW p \in Seq(S), p # <<>>
  PROVE  Parent(p) \in Seq(S) /\ Append(Parent(p), Base(p)) = p
<1>1. Len(p) \in Nat /\ Len(p) # 0 /\ \A i \in 1..Len(p) : p[i] \in S
  BY LenProperties, EmptySeq, ElementOfSeq
<1>2. Len(p) - 1 \in Nat /\ 1..(Len(p) - 1) \subseteq 1..Len(p) /\ Len(p) \in 1..Len(p)
  BY <1>1
<1>3. /\ Parent(p) \in Seq(S) /\ Len(Parent(p)) = Len(p) - 1
      /\ \A i \in 1..(Len(p) - 1) : Parent(p)[i] = p[i]
  <2>1. Len(p) - 1 <= Len(p)
    BY <1>1
  <2> QED
    BY <1>2, <2>1, Beginning DEF Parent
<1>4. Base(p) = p[Len(p)] /\ Base(p) \in S
  BY <1>1, <1>2 DEF Base
<1> DEFINE q == Append(Parent(p), Base(p))
<1>5. q \in Seq(S) /\ Len(q) = Len(p) /\ \A i \in 1..Len(p) : q[i] = p[i]
  <2>1. q \in Seq(S) /\ Len(q) = Len(Parent(p)) + 1
        /\ \A i \in 1..Len(Parent(p)) + 1 : q[i] = IF i = Len(Parent(p)) + 1 THEN Base(p) ELSE Parent(p)[i]
    BY <1>3, <1>4, AppendProperties
  <2> QED
    BY <1>1, <1>3, <1>4, <2>1
<1> HIDE DEF q
<1>6. q = p
  BY <1>5, SeqEqual
<1> QED
  BY <1>3, <1>6 DEF q

LEMMA CleanType ==
  ASSUME NEW name \in Seq(Seq(STRING))
  PROVE  Clean(name) \in Seq(Seq(STRING))
<1> DEFINE kept == {k \in DOMAIN name : name[k] # <<".">>}
<1>1. Len(name) \in Nat /\ DOMAIN name = 1..Len(name) /\ \A k \in 1..Len(name) : name[k] \in Seq(STRING)
  BY LenProperties, ElementOfSeq
<1>2. kept \in SUBSET Int /\ kept \subseteq 1..Len(name) /\ IsFiniteSet(kept)
  <2>1. kept \subseteq 1..Len(name) /\ kept \in SUBSET Int
    BY <1>1
  <2>2. IsFiniteSet(1..Len(name))
    BY <1>1, FS_Interval
  <2> HIDE DEF kept
  <2> QED
    BY <2>1, <2>2, FS_Subset
<1>3. Clean(name) = [k \in 1..Cardinality(kept) |-> name[InOrder(kept)[k]]]
  BY DEF Clean
<1> HIDE DEF kept
<1>4. Cardinality(kept) \in Nat /\ InOrder(kept) \in [1..Cardinality(kept) -> kept]
  BY <1>2, InOrderType
<1>5. \A k \in 1..Cardinality(kept) : name[InOrder(kept)[k]] \in Seq(STRING)
  BY <1>1, <1>2, <1>4
<1> QED
  BY <1>3, <1>4, <1>5

\* The paths are sequences of names, and the parent of a path is a path.
LEMMA PathsClosed ==
  ASSUME ArchiveInv
  PROVE  /\ AllNames \in SUBSET Seq(Seq(STRING))
         /\ \A p \in AllNames \ {<<>>} : Parent(p) \in AllNames /\ Append(Parent(p), Base(p)) = p
<1>1. PICK e, f : Reading(e, f)
  BY DEF ArchiveInv, Reading
<1>2. ASSUME NEW p \in Names PROVE p \in Seq(Seq(STRING))
  <2>1. PICK j \in Plain : p = NameAt(j)
    BY DEF Names
  <2>2. PICK k \in 1..Len(tar) : p = Clean(tar[k].name)
    BY <1>1, <2>1, PlainOf
  <2>3. tar[k] \in Headers
    BY <1>1, BlockType
  <2> QED
    BY <2>2, <2>3, HeaderType, CleanType
<1>3. ASSUME NEW p \in Seq(Seq(STRING)), NEW q \in Above(p)
      PROVE  /\ q \in Seq(Seq(STRING)) /\ Above(q) \subseteq Above(p)
             /\ q # <<>> => Parent(q) \in Above(p)
  <2>1. PICK k \in 0..(Len(p) - 1) : q = SubSeq(p, 1, k)
    BY DEF Above
  <2>2. k \in Nat /\ k <= Len(p) /\ Len(p) \in Nat
    BY <2>1, LenProperties
  <2>3. \A i \in 1..k : p[i] \in Seq(STRING)
    BY <2>2, ElementOfSeq
  <2>4. q \in Seq(Seq(STRING)) /\ Len(q) = k /\ \A i \in 1..k : q[i] = p[i]
    BY <2>1, <2>2, <2>3
  <2>5. ASSUME NEW i \in 0..(k - 1) PROVE SubSeq(q, 1, i) = SubSeq(p, 1, i) /\ i \in 0..(Len(p) - 1)
    <3>1. i \in Nat /\ i <= k
      BY <2>2
    <3>2. \A b \in 1..i : q[b] = p[b]
      <4>1. 1..i \subseteq 1..k
        BY <2>2, <3>1
      <4> QED
        BY <2>4, <4>1
    <3>3. i <= Len(q) /\ i <= Len(p) /\ i \in 0..(Len(p) - 1)
      <4>1. PICK m \in Nat : m = Len(p)
        BY <2>2
      <4>2. k <= m - 1
        BY <2>1, <2>2, <4>1
      <4> QED
        BY <2>2, <2>4, <3>1, <4>1, <4>2
    <3>4. /\ SubSeq(q, 1, i) \in Seq(Seq(STRING)) /\ Len(SubSeq(q, 1, i)) = i
          /\ \A b \in 1..i : SubSeq(q, 1, i)[b] = q[b]
      BY <2>4, <3>1, <3>3, Beginning
    <3>5. /\ SubSeq(p, 1, i) \in Seq(Seq(STRING)) /\ Len(SubSeq(p, 1, i)) = i
          /\ \A b \in 1..i : SubSeq(p, 1, i)[b] = p[b]
      BY <3>1, <3>3, Beginning
    <3>6. SubSeq(q, 1, i) = SubSeq(p, 1, i)
      BY <3>2, <3>4, <3>5, SeqEqual
    <3> QED
      BY <3>3, <3>6
  <2>6. Above(q) \subseteq Above(p)
    BY <2>4, <2>5 DEF Above
  <2>7. q # <<>> => Parent(q) \in Above(q)
    <3>1. q # <<>> => Len(q) - 1 \in 0..(Len(q) - 1)
      BY <2>2, <2>4, EmptySeq
    <3> QED
      BY <3>1 DEF Parent, Above
  <2> QED
    BY <2>4, <2>6, <2>7
<1>4. ASSUME NEW p \in Names, p # <<>> PROVE Parent(p) \in Above(p)
  <2>1. p \in Seq(Seq(STRING))
    BY <1>2
  <2>2. Len(p) \in Nat \ {0}
    BY <1>4, <2>1, EmptySeq
  <2>3. Len(p) - 1 \in 0..(Len(p) - 1)
    BY <2>2
  <2> QED
    BY <2>3 DEF Parent, Above
<1>5. \A p \in Names : Above(p) \subseteq AllNames
  BY DEF AllNames, Implicit
<1>6. ASSUME NEW p \in AllNames
      PROVE  p \in Seq(Seq(STRING)) /\ (p # <<>> => Parent(p) \in AllNames)
  <2>1. CASE p \in Names
    BY <1>2, <1>4, <1>5, <2>1
  <2>2. CASE p \notin Names
    <3>1. PICK q \in Names : p \in Above(q)
      BY <2>2 DEF AllNames, Implicit
    <3> QED
      BY <1>2, <1>3, <1>5, <3>1
  <2> QED
    BY <2>1, <2>2
<1> QED
  BY <1>6, PathParts

-----------------------------------------------------------------------------
(* The tree.                                                               *)

LEMMA AppendNew ==
  ASSUME NEW S, NEW s \in Seq(S), NEW x \in S, IsInjective(s), x \notin Range(s)
  PROVE  /\ Append(s, x) \in Seq(S) /\ IsInjective(Append(s, x))
         /\ Range(Append(s, x)) = Range(s) \cup {x}
<1> DEFINE t == Append(s, x)
           l == Len(s)
<1>1. /\ t \in Seq(S) /\ l \in Nat /\ DOMAIN s = 1..l /\ DOMAIN t = 1..(l + 1)
      /\ \A i \in 1..l : t[i] = s[i]
      /\ t[l + 1] = x
  BY AppendProperties, LenProperties
<1> HIDE DEF t, l
<1>2. 1..(l + 1) = 1..l \cup {l + 1} /\ l + 1 \notin 1..l
  BY <1>1
<1>3. \A i \in 1..l : t[i] \in Range(s) /\ t[i] # x
  BY <1>1 DEF Range
<1>4. ASSUME NEW i \in 1..(l + 1), NEW j \in 1..(l + 1), t[i] = t[j] PROVE i = j
  BY <1>1, <1>2, <1>3, <1>4 DEF IsInjective
<1>5. IsInjective(t)
  BY <1>1, <1>4 DEF IsInjective
<1>6. Range(t) = Range(s) \cup {x}
  BY <1>1, <1>2 DEF Range
<1> QED
  BY <1>1, <1>5, <1>6 DEF t

LEMMA LengthOfInjective ==
  ASSUME NEW S, NEW s \in Seq(S), IsInjective(s)
  PROVE  Len(s) = Cardinality(Range(s))
<1>1. Len(s) \in Nat /\ DOMAIN s = 1..Len(s)
  BY LenProperties
<1>2. IsFiniteSet(1..Len(s)) /\ Cardinality(1..Len(s)) = Len(s)
  BY <1>1, FS_Interval
<1>3. s \in [1..Len(s) -> Range(s)]
  BY <1>1 DEF Range
<1>4. s \in Bijection(1..Len(s), Range(s))
  BY <1>1, <1>3 DEF Bijection, Injection, Surjection, IsInjective, Range
<1>5. ExistsBijection(1..Len(s), Range(s))
  BY <1>4 DEF ExistsBijection
<1> QED
  BY <1>2, <1>5, FS_Bijection

\* What the loop has done for a directory: it has each visited child once, and the
\* overlay's attribute if the marker was among them.
ChildrenAre(d) ==
  /\ IsInjective(children[d])
  /\ Range(children[d]) = {p \in ChildrenOf(d) : p \notin todo /\ Base(p) # Opaque}
  /\ d \in opaque <=> \E p \in ChildrenOf(d) : p \notin todo /\ Base(p) = Opaque

TreeType ==
  /\ Opened /\ <<>> \in lookup /\ lookup \subseteq AllNames
  /\ todo \subseteq AllNames \ {<<>>}
  /\ children \in [AllNames -> Seq(AllNames)]
  /\ DOMAIN shown = AllNames

\* Before Init there is no tree, after it only markers have left the map, only
\* whiteouts have another name than their key, and each directory has its visited
\* children.
TreeInv ==
  \/ NoTree
  \/ /\ TreeType
     /\ \A p \in AllNames \ lookup : p # <<>> /\ Base(p) = Opaque
     /\ \A p \in AllNames \ device : shown[p] = p
     /\ \A d \in lookup : ChildrenAre(d)

LEMMA ArchiveKept ==
  ASSUME UNCHANGED archiveVars
  PROVE  /\ AllNames' = AllNames /\ Opened' = Opened
         /\ \A d : (ChildrenOf(d))' = ChildrenOf(d)
         /\ ArchiveInv => ArchiveInv'
<1>1. UNCHANGED <<tar, members, gz, n, toc, footer>>
  BY DEF archiveVars
<1>2. AllNames' = AllNames
  BY <1>1 DEF AllNames, Implicit, Names, NameAt, Plain, Indices
<1>3. \A d : (ChildrenOf(d))' = ChildrenOf(d)
  BY <1>2 DEF ChildrenOf
<1>4. ArchiveInv => ArchiveInv'
  BY <1>1 DEF ArchiveInv, TypeInv
<1> QED
  BY <1>1, <1>2, <1>3, <1>4 DEF Opened

LEMMA WriteStep ==
  ASSUME TreeInv, ArchiveInv, Write
  PROVE  TreeInv' /\ ArchiveInv'
<1>1. footer = 0 /\ UNCHANGED treeVars
  BY DEF Write, Close, AppendTar
<1>2. NoTree
  BY <1>1 DEF TreeInv, TreeType, Opened
<1>3. TreeInv'
  BY <1>1, <1>2 DEF TreeInv, NoTree, treeVars
<1>4. CASE Close
  BY <1>3, <1>4, CloseStep
<1>5. CASE \E h \in Headers : AppendTar(h)
  BY <1>3, <1>5, AppendTarStep
<1> QED
  BY <1>4, <1>5 DEF Write

LEMMA FillStep ==
  ASSUME TreeInv, ArchiveInv, Fill
  PROVE  TreeInv' /\ ArchiveInv'
<1>1. /\ Opened /\ lookup = {} /\ <<>> \in AllNames
      /\ lookup' = AllNames /\ todo' = AllNames \ {<<>>}
      /\ children' = [p \in AllNames |-> <<>>] /\ shown' = [p \in AllNames |-> p]
      /\ UNCHANGED <<device, opaque>> /\ UNCHANGED archiveVars
  BY DEF Fill
<1>2. /\ AllNames' = AllNames /\ Opened' = Opened /\ ArchiveInv'
      /\ \A d : (ChildrenOf(d))' = ChildrenOf(d)
  BY <1>1, ArchiveKept
<1>3. NoTree
  BY <1>1 DEF TreeInv, TreeType
<1>4. opaque' = {} /\ device' = {}
  BY <1>1, <1>3 DEF NoTree
<1>5. TreeType'
  BY <1>1, <1>2, EmptySeq DEF TreeType
<1>6. ASSUME NEW d \in AllNames PROVE ChildrenAre(d)'
  <2>1. children'[d] = <<>>
    BY <1>1
  <2>2. IsInjective(<<>>) /\ Range(<<>>) = {}
    BY DEF IsInjective, Range
  <2>3. \A p \in ChildrenOf(d) : p \in todo'
    BY <1>1 DEF ChildrenOf
  <2> QED
    BY <1>2, <1>4, <2>1, <2>2, <2>3 DEF ChildrenAre
<1>7. TreeInv'
  BY <1>1, <1>2, <1>4, <1>5, <1>6 DEF TreeInv
<1> QED
  BY <1>2, <1>7

LEMMA VisitStep ==
  ASSUME TreeInv, ArchiveInv, NEW p \in todo, Visit(p)
  PROVE  TreeInv' /\ ArchiveInv'
<1>1. /\ TreeType
      /\ \A q \in AllNames \ lookup : q # <<>> /\ Base(q) = Opaque
      /\ \A q \in AllNames \ device : shown[q] = q
      /\ \A d \in lookup : ChildrenAre(d)
  BY DEF TreeInv, NoTree
<1>2. /\ AllNames' = AllNames /\ Opened' = Opened /\ ArchiveInv'
      /\ \A d : (ChildrenOf(d))' = ChildrenOf(d)
  BY ArchiveKept DEF Visit
<1>3. p \in AllNames /\ p # <<>> /\ Parent(p) \in AllNames /\ p \in ChildrenOf(Parent(p))
  BY <1>1, PathsClosed DEF TreeType, ChildrenOf
<1>4. \A d : d # Parent(p) => p \notin ChildrenOf(d)
  BY DEF ChildrenOf
<1>5. todo' = todo \ {p}
  BY DEF Visit
\* A directory other than the key's parent is as it was.
<1>6. ASSUME NEW d \in lookup, d # Parent(p), children'[d] = children[d], d \in opaque' <=> d \in opaque
      PROVE  ChildrenAre(d)'
  <2>1. \A q \in ChildrenOf(d) : q \notin todo' <=> q \notin todo
    BY <1>4, <1>5, <1>6
  <2> QED
    BY <1>1, <1>2, <1>6, <2>1 DEF ChildrenAre
<1>7. CASE Parent(p) \notin lookup
  <2>1. UNCHANGED <<lookup, children, shown, device, opaque>>
    BY <1>7 DEF Visit
  <2>2. TreeType'
    BY <1>1, <1>2, <1>5, <2>1 DEF TreeType
  <2>3. \A d \in lookup' : ChildrenAre(d)'
    BY <1>6, <1>7, <2>1
  <2> QED
    BY <1>1, <1>2, <2>1, <2>2, <2>3 DEF TreeInv
<1>8. CASE Parent(p) \in lookup /\ Base(p) = Opaque
  <2>1. /\ opaque' = opaque \cup {Parent(p)} /\ lookup' = lookup \ {p}
        /\ UNCHANGED <<children, shown, device>>
    BY <1>8 DEF Visit, Mark
  <2>2. TreeType'
    BY <1>1, <1>2, <1>3, <1>5, <2>1 DEF TreeType
  <2>3. \A q \in AllNames \ lookup' : q # <<>> /\ Base(q) = Opaque
    BY <1>1, <1>3, <1>8, <2>1
  <2>4. ChildrenAre(Parent(p))'
    <3>1. \A q \in ChildrenOf(Parent(p)) :
            (q \notin todo' /\ Base(q) # Opaque) <=> (q \notin todo /\ Base(q) # Opaque)
      BY <1>5, <1>8
    <3>2. p \in ChildrenOf(Parent(p)) /\ p \notin todo' /\ Base(p) = Opaque
      BY <1>3, <1>5, <1>8
    <3>3. children' = children /\ Parent(p) \in opaque'
      BY <2>1
    <3>4. ChildrenAre(Parent(p))
      BY <1>1, <1>8
    <3> QED
      BY <1>2, <3>1, <3>2, <3>3, <3>4 DEF ChildrenAre
  <2>5. \A d \in lookup' : ChildrenAre(d)'
    BY <1>6, <2>1, <2>4
  <2> QED
    BY <1>1, <1>2, <2>1, <2>2, <2>3, <2>5 DEF TreeInv
<1>9. CASE Parent(p) \in lookup /\ Base(p) # Opaque
  <2> DEFINE d == Parent(p)
  <2>1. /\ children' = [children EXCEPT ![d] = Append(@, p)]
        /\ shown' = IF IsWhiteout(p) THEN [shown EXCEPT ![p] = Hidden(p)] ELSE shown
        /\ device' = IF IsWhiteout(p) THEN device \cup {p} ELSE device
        /\ UNCHANGED <<lookup, opaque>>
    BY <1>9 DEF Visit, AddChild
  <2>2. /\ d \in AllNames /\ d \in lookup /\ children \in [AllNames -> Seq(AllNames)] /\ DOMAIN shown = AllNames
        /\ ChildrenAre(d)
    BY <1>1, <1>3, <1>9 DEF TreeType
  <2> HIDE DEF d
  <2>3. children[d] \in Seq(AllNames) /\ IsInjective(children[d]) /\ p \notin Range(children[d])
    BY <2>2 DEF ChildrenAre
  <2>4. children'[d] = Append(children[d], p) /\ \A c \in AllNames : c # d => children'[c] = children[c]
    BY <2>1, <2>2
  <2>5. /\ children'[d] \in Seq(AllNames) /\ IsInjective(children'[d])
        /\ Range(children'[d]) = Range(children[d]) \cup {p}
    BY <1>3, <2>3, <2>4, AppendNew
  <2>6. TreeType'
    <3>1. children' \in [AllNames -> Seq(AllNames)]
      BY <2>1, <2>2, <2>4, <2>5
    <3>2. DOMAIN shown' = AllNames
      BY <2>1, <2>2
    <3> QED
      BY <1>1, <1>2, <1>5, <2>1, <3>1, <3>2 DEF TreeType
  <2>7. \A q \in AllNames \ device' : shown'[q] = q
    BY <1>1, <2>1, <2>2
  <2>8. ChildrenAre(d)'
    <3>1. \A q \in ChildrenOf(d) : q # p => (q \notin todo' <=> q \notin todo)
      BY <1>5
    <3>2. p \in ChildrenOf(d) /\ p \notin todo' /\ Base(p) # Opaque
      BY <1>3, <1>5, <1>9 DEF d
    <3>3. Range(children[d]) = {q \in ChildrenOf(d) : q \notin todo /\ Base(q) # Opaque}
      BY <2>2 DEF ChildrenAre
    <3>4. Range(children'[d]) = {q \in ChildrenOf(d) : q \notin todo' /\ Base(q) # Opaque}
      BY <2>5, <3>1, <3>2, <3>3
    <3>5. d \in opaque' <=> \E q \in ChildrenOf(d) : q \notin todo' /\ Base(q) = Opaque
      BY <2>1, <2>2, <3>1, <3>2 DEF ChildrenAre
    <3> QED
      BY <1>2, <2>5, <3>4, <3>5 DEF ChildrenAre
  <2>9. \A c \in lookup' : ChildrenAre(c)'
    <3>1. lookup \subseteq AllNames
      BY <1>1 DEF TreeType
    <3>2. \A c \in lookup : c # d => ChildrenAre(c)'
      BY <1>6, <2>1, <2>4, <3>1 DEF d
    <3> QED
      BY <2>1, <2>8, <3>2
  <2> QED
    BY <1>1, <1>2, <2>1, <2>6, <2>7, <2>9 DEF TreeInv
<1> QED
  BY <1>2, <1>7, <1>8, <1>9

\* The tree that has been built is the layer's, and its names can be looked up.
LEMMA BuiltIsLayer == ASSUME TreeInv PROVE TreeIsLayer
<1> SUFFICES ASSUME Served PROVE TreeIsLayer
  BY DEF TreeIsLayer
<1>1. TreeType /\ todo = {} /\ \A d \in lookup : ChildrenAre(d)
  BY DEF TreeInv, NoTree, Served
<1> DEFINE inside(d) == {p \in ChildrenOf(d) : Base(p) # Opaque}
<1>2. ASSUME NEW d \in lookup
      PROVE  /\ Range(children[d]) = inside(d) /\ Len(children[d]) = Cardinality(inside(d))
             /\ d \in opaque <=> \E p \in ChildrenOf(d) : Base(p) = Opaque
  <2>1. children[d] \in Seq(AllNames)
    BY <1>1 DEF TreeType
  <2>2. /\ IsInjective(children[d]) /\ Range(children[d]) = inside(d)
        /\ d \in opaque <=> \E p \in ChildrenOf(d) : Base(p) = Opaque
    BY <1>1 DEF ChildrenAre
  <2> HIDE DEF inside
  <2>3. Len(children[d]) = Cardinality(Range(children[d]))
    BY <2>1, <2>2, LengthOfInjective
  <2> QED
    BY <2>2, <2>3
<1>3. opaque \cap lookup = {d \in lookup : \E p \in ChildrenOf(d) : Base(p) = Opaque}
  BY <1>2
<1> QED
  BY <1>2, <1>3 DEF TreeIsLayer

LEMMA BuiltIsFound == ASSUME TreeInv, ArchiveInv PROVE LookupFindsListed
<1> SUFFICES ASSUME Served, NEW d \in lookup \ device, NEW p \in Range(children[d]) \ device
             PROVE  Base(shown[p]) \in Readdir(d) /\ Lookup(d, Base(shown[p])) = {p}
  BY DEF LookupFindsListed
<1>1. /\ TreeType /\ ChildrenAre(d)
      /\ \A q \in AllNames \ lookup : q # <<>> /\ Base(q) = Opaque
      /\ \A q \in AllNames \ device : shown[q] = q
  BY DEF TreeInv, NoTree, Served
<1>2. p \in AllNames \ {<<>>} /\ Parent(p) = d /\ Base(p) # Opaque
  BY <1>1 DEF ChildrenAre, ChildrenOf
<1>3. p \in lookup /\ d \in AllNames
  BY <1>1, <1>2 DEF TreeType
<1>4. shown[p] = p /\ shown[d] = d
  BY <1>1, <1>2, <1>3
<1>5. Append(d, Base(p)) = p
  BY <1>2, PathsClosed
<1>6. Base(shown[p]) \in Readdir(d)
  BY DEF Readdir
<1>7. Lookup(d, Base(shown[p])) = {p}
  BY <1>3, <1>4, <1>5 DEF Lookup
<1> QED
  BY <1>6, <1>7

-----------------------------------------------------------------------------
(* The theorems.                                                           *)

IInv == ArchiveInv /\ TreeInv

LEMMA Invariant == Spec => []IInv
<1>1. Init => IInv
  BY ArchiveInit DEF Init, IInv, TreeInv
<1>2. ASSUME IInv, [Next]_vars PROVE IInv'
  <2>1. CASE Write
    BY <1>2, <2>1, WriteStep DEF IInv
  <2>2. CASE Fill
    BY <1>2, <2>2, FillStep DEF IInv
  <2>3. CASE \E p \in todo : Visit(p)
    BY <1>2, <2>3, VisitStep DEF IInv
  <2>4. CASE UNCHANGED vars
    <3>1. UNCHANGED archiveVars /\ UNCHANGED <<lookup, todo, children, shown, device, opaque>>
      BY <2>4 DEF vars, treeVars
    <3>2. /\ AllNames' = AllNames /\ Opened' = Opened /\ ArchiveInv'
          /\ \A d : (ChildrenOf(d))' = ChildrenOf(d)
      BY <1>2, <3>1, ArchiveKept DEF IInv
    <3>3. TreeType <=> TreeType'
      BY <3>1, <3>2 DEF TreeType
    <3>4. \A d : ChildrenAre(d) <=> ChildrenAre(d)'
      BY <3>1, <3>2 DEF ChildrenAre
    <3>5. TreeInv'
      BY <1>2, <3>1, <3>2, <3>3, <3>4 DEF IInv, TreeInv, NoTree
    <3> QED
      BY <3>2, <3>5 DEF IInv
  <2> QED
    BY <1>2, <2>1, <2>2, <2>3, <2>4 DEF Next
<1> QED
  BY <1>1, <1>2, PTL DEF Spec

\* The archive is written soundly: its gzip members follow each other, and for each
\* header of the tar the TOC and the members have an entry and a member of its own for
\* every chunk (Writer.AppendTar and Close).
THEOREM ArchiveLaidOut == Spec => []ArchiveInv
<1>1. IInv => ArchiveInv
  BY DEF IInv
<1> QED
  BY <1>1, Invariant, PTL

\* What the proxy's WriteBody cuts out of an archive for a file, and the client's
\* Extract decompresses, are the bytes that the tar had for the file, whatever the
\* chunk size and the files around it.
THEOREM ExtractedIsTheContent == Spec => []ExtractedIsContent
<1>1. IInv => ExtractedIsContent
  BY FilesExtracted DEF IInv
<1> QED
  BY <1>1, Invariant, PTL

\* fileReader.ReadAt yields the file's bytes from any offset on, over the ends of
\* chunks, and Reader.ChunkEntryForOffset finds the chunk that has the offset, and none
\* past the end.
THEOREM ReadAtIsTheContent == Spec => []ReadAtIsContent
<1>1. IInv => ReadAtIsContent
  BY FilesRead DEF IInv
<1> QED
  BY <1>1, Invariant, PTL

\* The tree that Manager.Init builds has the layer's files and no more, each once and
\* below its parent, in whatever order Go walks over the map.
THEOREM TreeIsTheLayer == Spec => []TreeIsLayer
<1>1. IInv => TreeIsLayer
  BY BuiltIsLayer DEF IInv
<1> QED
  BY <1>1, Invariant, PTL

\* StarlightFsNode.Lookup finds every name that Readdir lists, and the file it lists,
\* but for whiteouts and what is below one.
THEOREM LookupFindsWhatIsListed == Spec => []LookupFindsListed
<1>1. IInv => LookupFindsListed
  BY BuiltIsFound DEF IInv
<1> QED
  BY <1>1, Invariant, PTL
=============================================================================
