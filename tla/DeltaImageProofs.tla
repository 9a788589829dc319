-------------------------- MODULE DeltaImageProofs --------------------------
(***************************************************************************)
(* Theorems about DeltaImage: for any layers, names, images, TOCs and ranks  *)
(* every file of a requested image is covered by the bundle, its content is  *)
(* cut out of a layer that is fetched, the payload is in the order of the    *)
(* ranks, and what is extracted is where the file system looks for it.       *)
(***************************************************************************)
EXTENDS DeltaImage, FiniteSetTheorems, SequenceTheorems, WellFoundedInduction, TLAPS

-----------------------------------------------------------------------------
(* Least and greatest numbers.                                             *)

\* A set of natural numbers that is not empty has a least one.
LEMMA LeastType ==
  ASSUME NEW S \in SUBSET Nat, S # {}
  PROVE  Least(S) \in S /\ \A y \in S : Least(S) <= y
<1>1. \E x \in S : \A y \in S : ~ (<<y, x>> \in OpToRel(<, Nat))
  BY NatLessThanWellFounded, WFMin
<1>2. PICK x \in S : \A y \in S : ~ (<<y, x>> \in OpToRel(<, Nat))
  BY <1>1
<1>3. \A y \in S : y \in Nat /\ x \in Nat /\ ~ (y < x)
  BY <1>2 DEF OpToRel
<1>4. \A y \in S : x <= y
  BY <1>3
<1> QED
  BY <1>4 DEF Least

\* A finite set of them has a greatest one: an element with the fewest above it has none
\* above it, since of two elements the larger one has fewer.
LEMMA GreatestType ==
  ASSUME NEW S \in SUBSET Nat, S # {}, IsFiniteSet(S)
  PROVE  Greatest(S) \in S
<1> DEFINE Above(x) == {y \in S : x < y}
           Sizes == {Cardinality(Above(x)) : x \in S}
<1>1. \A x \in S : IsFiniteSet(Above(x)) /\ Cardinality(Above(x)) \in Nat
  <2> TAKE x \in S
  <2>1. Above(x) \in SUBSET S
    OBVIOUS
  <2> QED
    BY <2>1, FS_Subset, FS_CardinalityType
<1>2. Least(Sizes) \in Sizes /\ \A n \in Sizes : Least(Sizes) <= n
  <2>1. Sizes \in SUBSET Nat /\ Sizes # {}
    BY <1>1
  <2> HIDE DEF Sizes
  <2> QED
    BY <2>1, LeastType
<1>3. PICK x \in S : Least(Sizes) = Cardinality(Above(x))
  BY <1>2
<1>31. \A y \in S : Cardinality(Above(x)) <= Cardinality(Above(y))
  BY <1>2, <1>3
<1>4. Above(x) = {}
  <2> SUFFICES ASSUME NEW y \in Above(x) PROVE FALSE
    OBVIOUS
  <2>1. y \in S /\ x < y
    OBVIOUS
  <2>2. Above(y) \in SUBSET Above(x) /\ y \notin Above(y)
    <3>1. x \in Nat /\ y \in Nat /\ \A z \in S : z \in Nat
      BY <2>1
    <3>2. y \notin Above(y)
      BY <3>1
    <3>3. ASSUME NEW z \in Above(y) PROVE z \in Above(x)
      <4>1. z \in S /\ y < z
        OBVIOUS
      <4>2. x < z
        BY <2>1, <3>1, <4>1
      <4> QED
        BY <4>1, <4>2
    <3> QED
      BY <3>2, <3>3
  <2>3. Cardinality(Above(y)) <= Cardinality(Above(x)) /\ Cardinality(Above(x)) <= Cardinality(Above(y))
    BY <1>1, <1>31, <2>1, <2>2, FS_Subset
  <2>4. Cardinality(Above(x)) = Cardinality(Above(y))
    BY <1>1, <2>1, <2>3
  <2>5. Above(x) = Above(y)
    BY <1>1, <2>2, <2>4, FS_Subset
  <2> QED
    BY <2>2, <2>5
<1>5. \A y \in S : y <= x
  <2> TAKE y \in S
  <2>1. ~ (x < y)
    BY <1>4
  <2> QED
    BY <2>1
<1> QED
  BY <1>5 DEF Greatest

-----------------------------------------------------------------------------
(* What computeDelta computes, for an update from src to dst.              *)

TocOK == toc \in [Layers -> [Names -> Contents \cup {Empty, NoFile}]]

\* The layers of an image and the contents in them.
LEMMA LayerOfType ==
  ASSUME NEW dst \in Seq(Layers), NEW s \in Stacks(dst)
  PROVE  LayerOf(dst, s) \in Layers /\ LayerOf(dst, s) \in Range0(dst)
<1>1. Len(dst) \in Nat
  BY LenProperties
<1>2. s + 1 \in 1..Len(dst)
  BY <1>1 DEF Stacks
<1> QED
  BY <1>2, ElementOfSeq DEF LayerOf, Range0

LEMMA AvailableType ==
  ASSUME NEW src \in Seq(Layers)
  PROVE  /\ Available(src) \in SUBSET Layers /\ Available(src) \in SUBSET Nat
         /\ IsFiniteSet(Available(src))
<1>1. Len(src) \in Nat
  BY LenProperties
<1>2. Available(src) \in SUBSET Layers
  BY ElementOfSeq DEF Available, Range0
<1>3. IsFiniteSet(1..Len(src))
  BY <1>1, FS_Interval
<1> DEFINE g == [k \in 1..Len(src) |-> src[k]]
<1>4. g \in Surjection(1..Len(src), Available(src))
  BY DEF Surjection, Available, Range0
<1>5. IsFiniteSet(Available(src))
  BY <1>3, <1>4, FS_Surjection
<1> QED
  BY <1>2, <1>5, DataAssumption

\* A requested file is one of a layer that is downloaded.
LEMMA RequestedType ==
  ASSUME NEW src \in Seq(Layers), NEW dst \in Seq(Layers), NEW f \in Requested(src, dst)
  PROVE  /\ f \in Stacks(dst) \X Names /\ f[1] \in Nat
         /\ LayerOf(dst, f[1]) \in Unavailable(src, dst)
         /\ ContentOf(dst, f) \in Contents
         /\ RankOf(dst, f) \in Nat
<1>1. f \in Stacks(dst) \X Names /\ ContentOf(dst, f) \in Contents /\ LayerOf(dst, f[1]) \notin Available(src)
  BY DEF Requested
<1>2. f[1] \in Stacks(dst) /\ f[2] \in Names
  BY <1>1
<1>3. LayerOf(dst, f[1]) \in Layers /\ LayerOf(dst, f[1]) \in Range0(dst)
  BY <1>2, LayerOfType
<1>4. f[1] \in Nat
  BY <1>2, LenProperties DEF Stacks
<1>5. RankOf(dst, f) \in Nat
  BY <1>2, <1>3, DataAssumption DEF RankOf
<1> QED
  BY <1>1, <1>3, <1>4, <1>5 DEF Unavailable

\* The layers of the client that hold a content; of several the largest number stays.
LEMMA ExistingType ==
  ASSUME NEW src \in Seq(Layers), NEW c, Holders(src, c) # {}
  PROVE  Existing(src, c) \in Holders(src, c)
<1>1. Holders(src, c) \in SUBSET Available(src)
  BY DEF Holders
<1>2. IsFiniteSet(Holders(src, c)) /\ Holders(src, c) \in SUBSET Nat
  BY <1>1, AvailableType, FS_Subset
<1> QED
  BY <1>2, GreatestType DEF Existing

\* The stack of a content in the payload is the lowest one of its files, and its rank the
\* least one of their ranks.
LEMMA ContentStackType ==
  ASSUME NEW src \in Seq(Layers), NEW dst \in Seq(Layers), NEW c \in RequestedContents(src, dst)
  PROVE  /\ \E f \in Users(src, dst, c) : f[1] = ContentStack(src, dst, c)
         /\ \A f \in Users(src, dst, c) : ContentStack(src, dst, c) <= f[1]
         /\ \E f \in Users(src, dst, c) : RankOf(dst, f) = ContentRank(src, dst, c)
         /\ \A f \in Users(src, dst, c) : ContentRank(src, dst, c) <= RankOf(dst, f)
         /\ ContentRank(src, dst, c) \in Nat
<1> DEFINE stacks == {f[1] : f \in Users(src, dst, c)}
           rks == {RankOf(dst, f) : f \in Users(src, dst, c)}
<1>1. Users(src, dst, c) # {}
  BY DEF RequestedContents, Users
<1>2. \A f \in Users(src, dst, c) : f[1] \in Nat /\ RankOf(dst, f) \in Nat
  BY RequestedType DEF Users
<1>3. stacks \in SUBSET Nat /\ stacks # {} /\ rks \in SUBSET Nat /\ rks # {}
  BY <1>1, <1>2
<1>4. Least(stacks) \in stacks /\ \A y \in stacks : Least(stacks) <= y
  BY <1>3, LeastType
<1>5. Least(rks) \in rks /\ \A y \in rks : Least(rks) <= y
  BY <1>3, LeastType
<1> QED
  BY <1>2, <1>4, <1>5 DEF ContentStack, ContentRank

LEMMA MissingFinite ==
  ASSUME NEW src \in Seq(Layers), NEW dst \in Seq(Layers)
  PROVE  IsFiniteSet(Missing(src, dst)) /\ Cardinality(Missing(src, dst)) \in Nat
<1>1. IsFiniteSet(Stacks(dst))
  BY LenProperties, FS_Interval DEF Stacks
<1>2. IsFiniteSet(Stacks(dst) \X Names)
  BY <1>1, FS_Product, DataAssumption
<1>3. Requested(src, dst) \in SUBSET (Stacks(dst) \X Names)
  BY DEF Requested
<1>4. IsFiniteSet(Requested(src, dst))
  BY <1>2, <1>3, FS_Subset
<1> DEFINE g == [f \in Requested(src, dst) |-> ContentOf(dst, f)]
<1>5. g \in Surjection(Requested(src, dst), RequestedContents(src, dst))
  BY DEF Surjection, RequestedContents
<1>6. IsFiniteSet(RequestedContents(src, dst))
  BY <1>4, <1>5, FS_Surjection
<1>7. Missing(src, dst) \in SUBSET RequestedContents(src, dst)
  BY DEF Missing
<1> QED
  BY <1>6, <1>7, FS_Subset, FS_CardinalityType

\* A payload is a sequence of the missing contents in which each is once.
LEMMA PayloadType ==
  ASSUME NEW src \in Seq(Layers), NEW dst \in Seq(Layers), NEW o \in Payloads(src, dst)
  PROVE  /\ o \in Seq(Missing(src, dst)) /\ Len(o) \in Nat
         /\ \A k \in 1..Len(o) : o[k] \in Missing(src, dst)
         /\ Range0(o) = Missing(src, dst)
         /\ \A j, k \in 1..Len(o) : o[j] = o[k] => j = k
         /\ sorted => \A j, k \in 1..Len(o) : j < k =>
              ContentRank(src, dst, o[j]) <= ContentRank(src, dst, o[k])
<1> DEFINE m == Missing(src, dst)
           n == Cardinality(m)
<1>1. IsFiniteSet(m) /\ n \in Nat
  BY MissingFinite
<1>2. o \in [1..n -> m] /\ Range0(o) = m
  BY DEF Payloads
<1>3. sorted => \A j, k \in 1..n : j < k => ContentRank(src, dst, o[j]) <= ContentRank(src, dst, o[k])
  BY DEF Payloads
<1> HIDE DEF m, n
<1>4. o \in Seq(m)
  BY <1>1, <1>2, SeqDef
<1>5. Len(o) = n
  BY <1>1, <1>2, <1>4, LenProperties
<1>6. o \in Surjection(1..n, m)
  BY <1>1, <1>2, <1>5 DEF Surjection, Range0
<1>7. IsFiniteSet(1..n) /\ Cardinality(1..n) = n
  BY <1>1, FS_Interval
<1>8. o \in Injection(1..n, m)
  BY <1>6, <1>7, FS_SurjSameCardinalityImpliesInj DEF n
<1>9. \A j, k \in 1..n : o[j] = o[k] => j = k
  BY <1>8 DEF Injection, IsInjective
<1>10. \A k \in 1..n : o[k] \in m
  BY <1>2
<1> QED
  BY <1>1, <1>2, <1>3, <1>4, <1>5, <1>9, <1>10 DEF m

-----------------------------------------------------------------------------
(* The bundle of the update that goes on.                                  *)

\* What the proxy has computed is a payload for the two images, and the client is within it.
BundleInv ==
  /\ TocOK
  /\ have \subseteq Seq(Layers)
  /\ store \in [Layers -> SUBSET Contents]
  /\ source \in Seq(Layers) /\ image \in Seq(Layers)
  /\ payload \in Payloads(source, image)
  /\ received \in 0..Len(payload)

\* A content of the payload has a file, in a layer that is downloaded.
LEMMA MissingType ==
  ASSUME NEW src \in Seq(Layers), NEW dst \in Seq(Layers), NEW c \in Missing(src, dst)
  PROVE  /\ c \in RequestedContents(src, dst) /\ c \in Contents
         /\ Holders(src, c) = {}
         /\ ContentStack(src, dst, c) \in Stacks(dst)
         /\ LayerOf(dst, ContentStack(src, dst, c)) \in Unavailable(src, dst)
         /\ LayerOf(dst, ContentStack(src, dst, c)) \in Layers
         /\ \E n \in Names : toc[LayerOf(dst, ContentStack(src, dst, c))][n] = c
<1>1. c \in RequestedContents(src, dst) /\ Holders(src, c) = {}
  BY DEF Missing
<1>2. PICK f \in Users(src, dst, c) : f[1] = ContentStack(src, dst, c)
  BY <1>1, ContentStackType
<1>3. f \in Requested(src, dst) /\ ContentOf(dst, f) = c
  BY DEF Users
<1>4. f \in Stacks(dst) \X Names /\ LayerOf(dst, f[1]) \in Unavailable(src, dst) /\ c \in Contents
  BY <1>3, RequestedType
<1>5. f[1] \in Stacks(dst) /\ f[2] \in Names
  BY <1>4
<1>6. LayerOf(dst, f[1]) \in Layers
  BY <1>5, LayerOfType
<1> QED
  BY <1>1, <1>2, <1>3, <1>4, <1>5, <1>6 DEF ContentOf

LEMMA InitBundle == Init => BundleInv
<1> SUFFICES ASSUME Init PROVE BundleInv
  OBVIOUS
<1>1. source = <<>> /\ image = <<>> /\ payload = <<>> /\ received = 0 /\ have = {}
  BY DEF Init
<1>2. TocOK
  BY DataAssumption DEF Init, TocOK
<1>3. <<>> \in Seq(Layers) /\ Len(<<>>) = 0
  BY EmptySeq
<1>4. Stacks(<<>>) = {}
  BY <1>3 DEF Stacks
<1>5. Missing(<<>>, <<>>) = {}
  BY <1>4 DEF Missing, RequestedContents, Requested
<1>6. Cardinality({}) = 0
  BY FS_EmptySet
<1>7. 1..0 = {} /\ \A j, k \in 1..0 : FALSE
  OBVIOUS
<1>8. <<>> \in [1..0 -> {}] /\ Range0(<<>>) = {}
  BY <1>3, <1>7 DEF Range0
<1>9. <<>> \in Payloads(<<>>, <<>>)
  BY <1>5, <1>6, <1>7, <1>8 DEF Payloads
<1>10. store \in [Layers -> SUBSET Contents]
  BY DEF Init
<1>11. 0 \in 0..Len(<<>>)
  BY <1>3
<1> QED
  BY <1>1, <1>2, <1>3, <1>9, <1>10, <1>11 DEF BundleInv

\* The payloads for two images are the same as long as the TOCs and the order asked for are.
LEMMA SamePayloads ==
  ASSUME toc' = toc, sorted' = sorted, NEW src, NEW dst, source' = src, image' = dst
  PROVE  Payloads(source, image)' = Payloads(src, dst)
<1>1. \A f : ContentOf(image, f)' = ContentOf(dst, f) /\ RankOf(image, f)' = RankOf(dst, f)
  BY DEF ContentOf, RankOf, LayerOf
<1>2. Requested(source, image)' = Requested(src, dst)
  BY DEF Requested, Stacks, Available, LayerOf, ContentOf
<1>3. \A c : Users(source, image, c)' = Users(src, dst, c) /\ Holders(source, c)' = Holders(src, c)
  BY <1>1, <1>2 DEF Users, Holders, Available
<1>4. Missing(source, image)' = Missing(src, dst)
  BY <1>1, <1>2, <1>3 DEF Missing, RequestedContents
<1>5. \A c : ContentRank(source, image, c)' = ContentRank(src, dst, c)
  BY <1>1, <1>3 DEF ContentRank
<1> QED
  BY <1>4, <1>5 DEF Payloads

LEMMA BundleStep ==
  ASSUME BundleInv, [Next]_vars
  PROVE  BundleInv'
<1>1. CASE Request
  <2>1. PICK src \in have \cup {<<>>}, dst \in Images \ have :
          /\ source' = src /\ image' = dst
          /\ payload' \in Payloads(src, dst)
          /\ have' = IF payload' = <<>> THEN have \cup {dst} ELSE have
    BY <1>1 DEF Request
  <2>2. received' = 0 /\ toc' = toc /\ sorted' = sorted /\ store' = store
    BY <1>1 DEF Request
  <2>3. src \in Seq(Layers) /\ dst \in Seq(Layers)
    BY EmptySeq, DataAssumption DEF BundleInv
  <2>4. Payloads(source, image)' = Payloads(src, dst)
    BY <2>1, <2>2, SamePayloads
  <2>5. Len(payload') \in Nat
    BY <2>1, <2>3, PayloadType
  <2>6. have' \subseteq Seq(Layers)
    BY <2>1, DataAssumption DEF BundleInv
  <2> QED
    BY <2>1, <2>2, <2>3, <2>4, <2>5, <2>6 DEF BundleInv, TocOK
<1>2. CASE Extract
  <2> DEFINE c == payload[received + 1]
             l == LayerOf(image, ContentStack(source, image, c))
  <2>1. /\ received < Len(payload) /\ received' = received + 1
        /\ store' = IF l \in Completed THEN store ELSE [store EXCEPT ![l] = @ \cup {c}]
        /\ have' = have \cup {image} \/ have' = have
        /\ UNCHANGED <<toc, sorted, source, image, payload, updates>>
    BY <1>2 DEF Extract
  <2>2. Len(payload) \in Nat /\ received \in Nat
    BY PayloadType DEF BundleInv
  <2>3. received + 1 \in 1..Len(payload)
    BY <2>1, <2>2
  <2>4. c \in Contents
    BY <2>3, PayloadType, MissingType DEF BundleInv
  <2>5. store' \in [Layers -> SUBSET Contents]
    BY <2>1, <2>4 DEF BundleInv
  <2>6. Payloads(source, image)' = Payloads(source, image)
    BY <2>1, SamePayloads
  <2>7. have' \subseteq Seq(Layers)
    BY <2>1 DEF BundleInv
  <2> QED
    BY <2>1, <2>2, <2>3, <2>5, <2>6 DEF BundleInv, TocOK
<1>3. CASE UNCHANGED vars
  BY <1>3, SamePayloads DEF vars, BundleInv, TocOK
<1> QED
  BY <1>1, <1>2, <1>3 DEF Next

LEMMA BundleAlways == Spec => []BundleInv
<1> QED
  BY InitBundle, BundleStep, PTL DEF Spec

-----------------------------------------------------------------------------
(* What the bundle promises.                                               *)

\* Every file of the requested image is in a layer the client has, or refers to an available
\* layer that has its content, or has its content in the payload exactly once: computeDelta
\* leaves no file out, and gives none two places.
THEOREM Covered == Spec => []EveryFileCovered
<1>1. ASSUME BundleInv PROVE EveryFileCovered
  <2> SUFFICES ASSUME NEW f \in Files, LayerOf(image, f[1]) \notin Available(source)
               PROVE  IF ReferenceFsId(source, image, f) # 0
                      THEN /\ ReferenceFsId(source, image, f) \in Available(source)
                           /\ \E n \in Names : toc[ReferenceFsId(source, image, f)][n] = ContentOf(image, f)
                           /\ ~InPayload(f)
                      ELSE Cardinality({k \in 1..Len(payload) : payload[k] = ContentOf(image, f)}) = 1
    BY DEF EveryFileCovered
  <2> DEFINE c == ContentOf(image, f)
  <2>1. source \in Seq(Layers) /\ image \in Seq(Layers) /\ payload \in Payloads(source, image)
    BY <1>1 DEF BundleInv
  <2>2. f \in Requested(source, image)
    BY DEF Files, Requested
  <2>3. c \in RequestedContents(source, image)
    BY <2>2 DEF RequestedContents
  <2>4. Range0(payload) = Missing(source, image)
    BY <2>1, PayloadType
  <2>5. CASE Holders(source, c) # {}
    <3>1. Existing(source, c) \in Holders(source, c)
      BY <2>1, <2>5, ExistingType
    <3>2. /\ Existing(source, c) \in Available(source)
          /\ \E n \in Names : toc[Existing(source, c)][n] = c
      BY <3>1 DEF Holders
    <3>3. Existing(source, c) # 0
      BY <2>1, <3>2, AvailableType, DataAssumption
    <3>4. ReferenceFsId(source, image, f) = Existing(source, c)
      BY <2>2, <2>5 DEF ReferenceFsId
    <3>5. ~InPayload(f)
      BY <2>4, <2>5 DEF InPayload, Missing
    <3> QED
      BY <3>2, <3>3, <3>4, <3>5
  <2>6. CASE Holders(source, c) = {}
    <3>1. ReferenceFsId(source, image, f) = 0
      BY <2>6 DEF ReferenceFsId
    <3>2. c \in Range0(payload)
      BY <2>3, <2>4, <2>6 DEF Missing
    <3>3. PICK k \in 1..Len(payload) : payload[k] = c
      BY <3>2 DEF Range0
    <3>4. \A j \in 1..Len(payload) : payload[j] = c => j = k
      BY <2>1, <3>3, PayloadType
    <3>5. {j \in 1..Len(payload) : payload[j] = c} = {k}
      BY <3>3, <3>4
    <3> QED
      BY <3>1, <3>5, FS_Singleton
  <2> QED
    BY <2>5, <2>6
<1> QED
  BY <1>1, BundleAlways, PTL

\* WriteBody cuts a content out of the layer of its stack: that layer is one of those
\* fetchLayers downloads, and the offsets it cuts at are those of a file in that layer.
THEOREM CutFromFetched == Spec => []BodyFromFetchedLayer
<1>1. ASSUME BundleInv PROVE BodyFromFetchedLayer
  <2> SUFFICES ASSUME NEW k \in 1..Len(payload)
               PROVE  LET s == ContentStack(source, image, payload[k]) IN
                        /\ LayerOf(image, s) \in Unavailable(source, image)
                        /\ \A f \in FirstFiles(source, image, payload[k]) : f[1] = s
    BY DEF BodyFromFetchedLayer
  <2> DEFINE c == payload[k]
             s == ContentStack(source, image, c)
  <2>1. source \in Seq(Layers) /\ image \in Seq(Layers) /\ c \in Missing(source, image)
    BY <1>1, PayloadType DEF BundleInv
  <2>2. c \in RequestedContents(source, image) /\ LayerOf(image, s) \in Unavailable(source, image)
    BY <2>1, MissingType
  <2>3. PICK h \in Users(source, image, c) : h[1] = s
    BY <2>1, <2>2, ContentStackType
  <2>4. ASSUME NEW f \in FirstFiles(source, image, c) PROVE f[1] = s
    <3>1. f \in Users(source, image, c) /\ f[1] <= h[1]
      BY <2>3 DEF FirstFiles
    <3>2. s <= f[1]
      BY <2>1, <2>2, <3>1, ContentStackType
    <3>3. f \in Requested(source, image) /\ h \in Requested(source, image)
      BY <2>3, <3>1 DEF Users
    <3>4. f[1] \in Nat /\ h[1] \in Nat
      BY <2>1, <3>3, RequestedType
    <3> QED
      BY <2>3, <3>1, <3>2, <3>4
  <2> QED
    BY <2>2, <2>4
<1> QED
  BY <1>1, BundleAlways, PTL

\* A client that asks for it gets the contents by the least rank of their files: no content
\* comes before one of which a file was opened earlier than all of its own.
THEOREM InPriorityOrder == Spec => []PriorityOrder
<1>1. ASSUME BundleInv PROVE PriorityOrder
  <2> SUFFICES ASSUME sorted, NEW f \in Requested(source, image), NEW g \in Requested(source, image),
                      InPayload(f), InPayload(g), PayloadOrder(f) < PayloadOrder(g)
               PROVE  \E h \in Users(source, image, ContentOf(image, f)) :
                        RankOf(image, h) <= RankOf(image, g)
    BY DEF PriorityOrder
  <2> DEFINE c == ContentOf(image, f)
             d == ContentOf(image, g)
  <2>1. source \in Seq(Layers) /\ image \in Seq(Layers) /\ payload \in Payloads(source, image)
    BY <1>1 DEF BundleInv
  <2>2. PICK j \in 1..Len(payload) : payload[j] = c /\ PayloadOrder(f) = j - 1
    BY DEF InPayload, PayloadOrder, Range0
  <2>3. PICK k \in 1..Len(payload) : payload[k] = d /\ PayloadOrder(g) = k - 1
    BY DEF InPayload, PayloadOrder, Range0
  <2>4. j < k
    BY <2>2, <2>3
  <2>5. ContentRank(source, image, c) <= ContentRank(source, image, d)
    BY <2>1, <2>2, <2>3, <2>4, PayloadType
  <2>6. c \in RequestedContents(source, image) /\ d \in RequestedContents(source, image)
    BY DEF RequestedContents
  <2>7. g \in Users(source, image, d)
    BY DEF Users
  <2>8. ContentRank(source, image, d) <= RankOf(image, g) /\ ContentRank(source, image, d) \in Nat
    BY <2>1, <2>6, <2>7, ContentStackType
  <2>9. PICK h \in Users(source, image, c) : RankOf(image, h) = ContentRank(source, image, c)
    BY <2>1, <2>6, ContentStackType
  <2>10. ContentRank(source, image, c) \in Nat /\ RankOf(image, g) \in Nat
    BY <2>1, <2>6, ContentStackType, RequestedType
  <2> QED
    BY <2>5, <2>8, <2>9, <2>10
<1> QED
  BY <1>1, BundleAlways, PTL

-----------------------------------------------------------------------------
(* The client's directories.                                               *)

\* Each content that has come is in the layer of its stack, unless Extract skipped it because
\* that layer came with another image.
PlacedInv ==
  \A k \in 1..received :
    \/ LayerOf(image, ContentStack(source, image, payload[k])) \in Completed
    \/ payload[k] \in store[LayerOf(image, ContentStack(source, image, payload[k]))]

\* Where contents go does not change while they are extracted.
LEMMA SameStacks ==
  ASSUME toc' = toc, source' = source, image' = image, NEW c
  PROVE  LayerOf(image, ContentStack(source, image, c))' = LayerOf(image, ContentStack(source, image, c))
<1>1. \A f : ContentOf(image, f)' = ContentOf(image, f)
  BY DEF ContentOf, LayerOf
<1>2. Requested(source, image)' = Requested(source, image)
  BY DEF Requested, Stacks, Available, LayerOf, ContentOf
<1>3. Users(source, image, c)' = Users(source, image, c)
  BY <1>1, <1>2 DEF Users
<1> QED
  BY <1>3 DEF ContentStack, LayerOf

LEMMA PlacedStep ==
  ASSUME BundleInv, PlacedInv, [Next]_vars
  PROVE  PlacedInv'
<1> DEFINE Dir(c) == LayerOf(image, ContentStack(source, image, c))
<1>1. CASE Request
  BY <1>1 DEF Request, PlacedInv
<1>2. CASE Extract
  <2> DEFINE c == payload[received + 1]
  <2>1. /\ received < Len(payload) /\ received' = received + 1
        /\ store' = IF Dir(c) \in Completed THEN store ELSE [store EXCEPT ![Dir(c)] = @ \cup {c}]
        /\ have' = have \cup {image} \/ have' = have
        /\ UNCHANGED <<toc, sorted, source, image, payload, updates>>
    BY <1>2 DEF Extract
  <2>2. Completed' = Completed
    BY <2>1 DEF Completed
  <2>3. \A d : Dir(d)' = Dir(d)
    BY <2>1, SameStacks
  <2>4. Len(payload) \in Nat /\ received \in Nat
    BY PayloadType DEF BundleInv
  <2>5. c \in Missing(source, image)
    BY <2>1, <2>4, PayloadType DEF BundleInv
  <2>6. Dir(c) \in Layers
    BY <2>5, MissingType DEF BundleInv
  <2>7. ASSUME NEW k \in 1..received' PROVE Dir(payload[k]) \in Completed \/ payload[k] \in store'[Dir(payload[k])]
    <3>1. payload[k] \in Missing(source, image)
      BY <2>1, <2>4, PayloadType DEF BundleInv
    <3>2. Dir(payload[k]) \in Layers
      BY <3>1, MissingType DEF BundleInv
    <3>3. CASE k = received + 1
      BY <2>1, <2>6, <3>3 DEF BundleInv
    <3>4. CASE k \in 1..received
      <4>1. Dir(payload[k]) \in Completed \/ payload[k] \in store[Dir(payload[k])]
        BY <3>4 DEF PlacedInv
      <4> HIDE DEF Dir
      <4> QED
        BY <2>1, <2>6, <3>2, <4>1 DEF BundleInv
    <3> QED
      BY <2>1, <2>4, <3>3, <3>4
  <2> QED
    BY <2>1, <2>2, <2>3, <2>7 DEF PlacedInv
<1>3. CASE UNCHANGED vars
  <2>1. \A d : Dir(d)' = Dir(d)
    BY <1>3, SameStacks DEF vars
  <2> QED
    BY <1>3, <2>1 DEF vars, PlacedInv, Completed
<1> QED
  BY <1>1, <1>2, <1>3 DEF Next

\* When the payload has been extracted and the layers it builds on are whole, the file
\* system finds each file in the directory getRealPath names, but for those of upper layers
\* whose ReferenceStack is 0.
THEOREM Readable == Spec => []ReadableFromWhole
<1>1. ASSUME BundleInv, PlacedInv PROVE ReadableFromWhole
  <2> SUFFICES ASSUME received = Len(payload),
                      \A l \in Available(source) \cup Completed : Whole(l),
                      NEW f \in Files,
                      ~ (InPayload(f) /\ ReferenceStack(f) = 0 /\ f[1] # 0)
               PROVE  ContentOf(image, f) \in store[RealPath(f)]
    BY DEF ReadableFromWhole
  <2> DEFINE c == ContentOf(image, f)
             s == ContentStack(source, image, c)
  <2>1. source \in Seq(Layers) /\ image \in Seq(Layers) /\ payload \in Payloads(source, image)
    BY <1>1 DEF BundleInv
  <2>2. f[1] \in Stacks(image) /\ f[2] \in Names /\ c \in Contents
    BY DEF Files
  <2>3. CASE LayerOf(image, f[1]) \in Available(source)
    <3>1. ReferenceFsId(source, image, f) = 0 /\ ~InPayload(f)
      BY <2>3 DEF ReferenceFsId, InPayload, Requested
    <3>2. RealPath(f) = LayerOf(image, f[1])
      BY <3>1 DEF RealPath, StackOf, ReferenceStack
    <3>3. Whole(LayerOf(image, f[1])) /\ c = toc[LayerOf(image, f[1])][f[2]]
      BY <2>3 DEF ContentOf
    <3> QED
      BY <2>2, <3>2, <3>3 DEF Whole
  <2>4. CASE LayerOf(image, f[1]) \notin Available(source) /\ Holders(source, c) # {}
    <3>1. f \in Requested(source, image)
      BY <2>4 DEF Files, Requested
    <3>2. Existing(source, c) \in Available(source) /\ \E n \in Names : toc[Existing(source, c)][n] = c
      BY <2>1, <2>4, ExistingType DEF Holders
    <3>3. Existing(source, c) # 0
      BY <2>1, <3>2, AvailableType, DataAssumption
    <3>4. RealPath(f) = Existing(source, c)
      BY <2>4, <3>1, <3>3 DEF RealPath, ReferenceFsId
    <3> QED
      BY <2>2, <3>2, <3>4 DEF Whole
  <2>5. CASE LayerOf(image, f[1]) \notin Available(source) /\ Holders(source, c) = {}
    <3>1. f \in Requested(source, image)
      BY <2>5 DEF Files, Requested
    <3>2. c \in Missing(source, image)
      BY <2>5, <3>1 DEF Missing, RequestedContents
    <3>3. c \in Range0(payload)
      BY <2>1, <3>2, PayloadType
    <3>4. PICK k \in 1..Len(payload) : payload[k] = c
      BY <3>3 DEF Range0
    <3>5. LayerOf(image, s) \in Completed \/ c \in store[LayerOf(image, s)]
      BY <1>1, <3>4 DEF PlacedInv
    <3>6. \E n \in Names : toc[LayerOf(image, s)][n] = c
      BY <2>1, <3>2, MissingType
    <3>7. c \in store[LayerOf(image, s)]
      BY <2>2, <3>5, <3>6 DEF Whole
    <3>8. InPayload(f) /\ ReferenceStack(f) = s
      BY <3>1, <3>3 DEF InPayload, ReferenceStack
    <3>9. ReferenceFsId(source, image, f) = 0
      BY <2>5 DEF ReferenceFsId
    <3>10. StackOf(f) = s
      BY <3>8 DEF StackOf
    <3> QED
      BY <3>7, <3>9, <3>10 DEF RealPath
  <2> QED
    BY <2>3, <2>4, <2>5
<1>2. Init => PlacedInv
  BY DEF Init, PlacedInv
<1> QED
  BY <1>1, <1>2, InitBundle, BundleStep, PlacedStep, PTL DEF Spec
=============================================================================
