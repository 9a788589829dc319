----------------------------- MODULE DeltaImage -----------------------------
(***************************************************************************)
(* The delta bundle of an update: Builder.computeDelta decides from the TOCs *)
(* of the layers which contents go into the payload and which files refer to *)
(* a layer the client has; the client extracts the payload into the layers'  *)
(* directories and its file system resolves each file to one directory.      *)
(*                                                                         *)
(* A layer is its serial number (filesystem.id).  Stacks are counted from 0,  *)
(* as in the code, because 0 also stands for "no reference".                 *)
(*                                                                         *)
(* A definition named after another one (ExistingAny before Existing) is that *)
(* code with a plausible bug, which a run has to detect when it takes its     *)
(* place; no specification uses it.                                         *)
(***************************************************************************)
EXTENDS Integers, Sequences, FiniteSets

CONSTANTS
  Layers,     \* a set of positive numbers
  Names,      \* paths
  Contents,   \* digests of contents that are not empty
  Empty,      \* a file of size 0
  NoFile,     \* the layer has no such path, or a directory or a link there
  Images,     \* a set of sequences of layers
  Tocs,       \* the TOCs a run starts from: [Layers -> [Names -> ...]]
  Rank,       \* [Layers -> [Names -> Nat]]: file.order
  MaxUpdates  \* bound

ASSUME DataAssumption ==
  /\ Layers \subseteq Nat \ {0} /\ IsFiniteSet(Names)
  /\ \A img \in Images : img \in Seq(Layers)
  /\ Empty \notin Contents /\ NoFile \notin Contents
  /\ \A t \in Tocs : t \in [Layers -> [Names -> Contents \cup {Empty, NoFile}]]
  /\ Rank \in [Layers -> [Names -> Nat]]
  /\ MaxUpdates \in Nat

VARIABLES
  toc,      \* the database's files
  sorted,   \* whether the client asked for a sorted payload
  have,     \* the complete images of the client
  store,    \* [Layers -> SUBSET Contents]: the directory of each layer
  source, image,  \* the update: an image of the client or <<>>, the requested image
  payload,  \* Seq(Contents): DeltaBundle.Contents
  received, \* how many of them have been extracted
  updates

vars == <<toc, sorted, have, store, source, image, payload, received, updates>>

Range0(s) == {s[k] : k \in 1..Len(s)}
Least(S) == CHOOSE x \in S : \A y \in S : x \leq y
Greatest(S) == CHOOSE x \in S : \A y \in S : y \leq x

Init ==
  /\ toc \in Tocs
  /\ sorted \in BOOLEAN
  /\ have = {}
  /\ store = [l \in Layers |-> {}]
  /\ source = <<>> /\ image = <<>> /\ payload = <<>>
  /\ received = 0 /\ updates = 0

-----------------------------------------------------------------------------
(* The proxy: getUnavailableLayers and computeDelta.                       *)

Stacks(dst) == 0..(Len(dst) - 1)
LayerOf(dst, s) == dst[s + 1]
Available(src) == Range0(src)
\* The layers that are downloaded from the registry.
Unavailable(src, dst) == Range0(dst) \ Available(src)

\* A file is a stack and a name.
ContentOf(dst, f) == toc[LayerOf(dst, f[1])][f[2]]
RankOf(dst, f) == Rank[LayerOf(dst, f[1])][f[2]]

\* Files of layers the client has, and empty ones, are not requested.
Requested(src, dst) ==
  {f \in Stacks(dst) \X Names : /\ ContentOf(dst, f) \in Contents
                                /\ LayerOf(dst, f[1]) \notin Available(src)}
Users(src, dst, c) == {f \in Requested(src, dst) : ContentOf(dst, f) = c}
\* The files that may be Content.Files[0], whose offsets in its layer's blob WriteBody
\* uses: the database orders the files by stack.
FirstFilesAny(src, dst, c) == Users(src, dst, c)
FirstFiles(src, dst, c) ==
  {f \in Users(src, dst, c) : \A g \in Users(src, dst, c) : f[1] \leq g[1]}
RequestedContents(src, dst) == {ContentOf(dst, f) : f \in Requested(src, dst)}

\* deduplicatedExistingFiles: of the available layers with the content the one with
\* the largest serial number stays, in whatever order the database returns them.
Holders(src, c) == {l \in Available(src) : \E n \in Names : toc[l][n] = c}
ExistingAny(src, c) == Greatest(Available(src))
Existing(src, c) == Greatest(Holders(src, c))
\* RankedFile.ReferenceFsId
ReferenceFsId(src, dst, f) ==
  LET c == ContentOf(dst, f) IN
  IF f \in Requested(src, dst) /\ Holders(src, c) # {} THEN Existing(src, c) ELSE 0

\* The contents of the payload, each with its rank and its stack.
Missing(src, dst) == {c \in RequestedContents(src, dst) : Holders(src, c) = {}}
ContentStack(src, dst, c) == Least({f[1] : f \in Users(src, dst, c)})
LastRank(src, dst, c) == Greatest({RankOf(dst, f) : f \in Users(src, dst, c)})
ContentRank(src, dst, c) == Least({RankOf(dst, f) : f \in Users(src, dst, c)})

\* Go's map order is any order; sort.Sort leaves contents of one rank in any order.
Payloads(src, dst) ==
  LET m == Missing(src, dst)
      orders == {o \in [1..Cardinality(m) -> m] : Range0(o) = m}
  IN {o \in orders : sorted =>
        \A j, k \in 1..Cardinality(m) : j < k =>
          ContentRank(src, dst, o[j]) \leq ContentRank(src, dst, o[k])}

InPayload(f) == f \in Requested(source, image) /\ ContentOf(image, f) \in Range0(payload)
\* RankedFile.ReferenceStack.
ReferenceOwn(f) == IF InPayload(f) THEN f[1] ELSE 0
ReferenceStack(f) ==
  IF InPayload(f) THEN ContentStack(source, image, ContentOf(image, f)) ELSE 0
\* RankedFile.PayloadOrder, from 0, and 0 for a file that is not in the payload too.
PayloadOrder(f) ==
  IF InPayload(f)
  THEN (CHOOSE k \in 1..Len(payload) : payload[k] = ContentOf(image, f)) - 1 ELSE 0

-----------------------------------------------------------------------------
(* The client: Extract, and the file system's getRealPath and Open.        *)

\* IsReferencingRequestedImage: the stack of the directory a file is read from.
StackOf(f) == IF ReferenceStack(f) # 0 THEN ReferenceStack(f) ELSE f[1]
\* getRealPath: that directory's layer.
RealPath(f) ==
  IF ReferenceFsId(source, image, f) # 0 THEN ReferenceFsId(source, image, f)
  ELSE LayerOf(image, StackOf(f))

\* An update from an image of the client, or from nothing.
Request ==
  /\ received = Len(payload) /\ updates < MaxUpdates
  /\ \E src \in have \cup {<<>>}, dst \in Images \ have :
       /\ source' = src /\ image' = dst
       /\ payload' \in Payloads(src, dst)
       /\ have' = IF payload' = <<>> THEN have \cup {dst} ELSE have
  /\ received' = 0
  /\ updates' = updates + 1
  /\ UNCHANGED <<toc, sorted, store>>

\* The layers that other images of the client have brought: completedStack.
Completed == UNION {Range0(i) : i \in have \ {image}}

\* Manager.Extract writes the next content into the layer of its stack, or skips it
\* when that layer is complete; after the last one the image is complete.
Extract ==
  LET c == payload[received + 1]
      l == LayerOf(image, ContentStack(source, image, c))
  IN
  /\ received < Len(payload)
  /\ store' = IF l \in Completed THEN store ELSE [store EXCEPT ![l] = @ \cup {c}]
  /\ received' = received + 1
  /\ have' = IF received' = Len(payload) THEN have \cup {image} ELSE have
  /\ UNCHANGED <<toc, sorted, source, image, payload, updates>>

Next == Request \/ Extract
Spec == Init /\ [][Next]_vars

-----------------------------------------------------------------------------
Files == {f \in Stacks(image) \X Names : ContentOf(image, f) \in Contents}

\* Each file of an image that the client cannot have comes with the bundle exactly
\* once or refers to an available layer whose TOC names the content: the reference of
\* one file and the payload of another never disagree.
EveryFileCovered == \A f \in Files :
  LayerOf(image, f[1]) \in Available(source) \/
    IF ReferenceFsId(source, image, f) # 0
    THEN /\ ReferenceFsId(source, image, f) \in Available(source)
         /\ \E n \in Names : toc[ReferenceFsId(source, image, f)][n] = ContentOf(image, f)
         /\ ~InPayload(f)
    ELSE Cardinality({k \in 1..Len(payload) : payload[k] = ContentOf(image, f)}) = 1

\* WriteBody reads a content from the layer of its stack, at the offset its first file
\* has: that file is in this layer, and the layer is one of those Load fetched.
BodyFromFetchedLayer == \A k \in 1..Len(payload) :
  LET s == ContentStack(source, image, payload[k]) IN
  /\ LayerOf(image, s) \in Unavailable(source, image)
  /\ \A f \in FirstFiles(source, image, payload[k]) : f[1] = s

\* What a container reads first comes first: no content follows one whose files were
\* all read later.
PriorityOrder == sorted => \A f, g \in Requested(source, image) :
  InPayload(f) /\ InPayload(g) /\ PayloadOrder(f) < PayloadOrder(g)
  => \E h \in Users(source, image, ContentOf(image, f)) : RankOf(image, h) \leq RankOf(image, g)

\* The directory of a layer holds the contents of the layer.
Whole(l) == \A n \in Names : toc[l][n] \in Contents => toc[l][n] \in store[l]

\* Once a bundle is extracted, a file is found where the file system looks for it, if
\* the layers the update builds on are whole.  Not so a file of an upper layer whose
\* content goes into the lowest one: its ReferenceStack 0 is taken as no reference, and
\* it is looked for in its own layer.
ReadableFromWhole ==
  received = Len(payload) /\ (\A l \in Available(source) \cup Completed : Whole(l)) =>
    \A f \in Files :
      \/ InPayload(f) /\ ReferenceStack(f) = 0 /\ f[1] # 0
      \/ ContentOf(image, f) \in store[RealPath(f)]
=============================================================================
