-------------------------- MODULE ImagePullProofs --------------------------
(***************************************************************************)
(* Proofs about ImagePull, for any images, layers, payloads and pulls: first  *)
(* what a complete image is and when a lock is freed, then what an image      *)
(* gives its containers, the layers and managers it is mounted with and what  *)
(* a closed signal and a completed.json promise.                             *)
(***************************************************************************)
EXTENDS ImagePull, SequenceTheorems, FiniteSetTheorems, WellFoundedInduction, TLAPS

-----------------------------------------------------------------------------
(* The inductive invariants.                                               *)

\* The loops over the layers stay within the image.
Indexed ==
  \A p \in Pulls : pc[p] \in {"prepare", "claim", "snapshot", "create", "commit", "mark"} => idx[p] \in Stacks(image[p])

TypeInv == TypeOK /\ Indexed

\* What pull p has stored by the time it is at a given step.
PastStore == {"prepare", "claim", "snapshot", "create", "commit", "announce", "extract", "write", "mark", "label"}
PastSnapshots == {"announce", "extract", "write", "mark", "label"}

BlobsProgress(p) ==
  /\ pc[p] = "store" => \A n \in 1..3 : n < idx[p] => BlobOrder[n] \in blobs[image[p]]
  /\ pc[p] \in PastStore => BlobsStored(image[p])

SnapshotsProgress(p) ==
  /\ pc[p] \in {"claim", "snapshot", "create", "commit"} =>
       \A n \in Stacks(image[p]) : n < idx[p] => snapshots[Chain(image[p], n)] # None
  /\ pc[p] \in PastSnapshots => SnapshotsStored(image[p])

MarksProgress(p) ==
  /\ pc[p] = "mark" =>
       \A n \in Stacks(image[p]) : n < idx[p] => LayersOf[image[p]][n] \in completedJson
  /\ pc[p] = "label" => LayerSet(image[p]) \subseteq completedJson

Progress(p) == BlobsProgress(p) /\ SnapshotsProgress(p) /\ MarksProgress(p)

LoadableInv == (\A p \in Pulls : Progress(p)) /\ CompleteImageLoadable

\* Every layer pull p relies on has its directory.
PastPrepare == {"claim", "snapshot", "create", "commit", "announce", "extract", "write", "mark", "label"}

Backed(p) ==
  /\ pc[p] = "load" => LayerSet(found[p]) \subseteq directories
  /\ pc[p] = "prepare" =>
       \A n \in Stacks(image[p]) : n < idx[p] => LayersOf[image[p]][n] \in directories
  /\ pc[p] \in PastPrepare => LayerSet(image[p]) \subseteq directories

BackedInv ==
  /\ daemon = "up" => \A p \in Pulls : Backed(p)
  /\ LayerMapBacked
  /\ completedJson \subseteq directories

\* With one pull of an image at a time, the mutex has one holder, and a pull that
\* returns without its manager in the map is that holder.
Running == PCs \ {"idle", "done", "blocked"}
OnePerImage ==
  \A p, q \in Pulls :
    pc[p] \in Running /\ pc[q] \in Running /\ image[p] = image[q] => p = q

Holds(p) == pc[p] = "store" \/ (pc[p] = "deferred" /\ managerMap[image[p]] = None)

Registered == {"prepare", "claim", "snapshot", "create", "commit", "announce", "extract", "write", "mark", "label", "manifest"}

LockState ==
  /\ OnePerImage
  /\ \A p \in Pulls : pc[p] \in Registered => managerMap[image[p]] # None
  /\ \A p \in Pulls : Holds(p) => managerMapLocked
  /\ \A p, q \in Pulls : Holds(p) /\ Holds(q) => p = q

LockInv == daemon = "up" => LockState

-----------------------------------------------------------------------------
(* Lemmas on the operators.                                                *)

\* The stack at which LoadImage enters a layer is one of the image's, and has it.
LEMMA StackOfType ==
  ASSUME NEW i \in Images, NEW l \in LayerSet(i)
  PROVE  StackOf(i, l) \in Stacks(i) /\ LayersOf[i][StackOf(i, l)] = l
<1> DEFINE T == {n \in Stacks(i) : LayersOf[i][n] = l}
<1>1. Len(LayersOf[i]) \in Nat
  BY ImagesAssumption
<1>2. T \subseteq Nat /\ T # {}
  BY <1>1 DEF LayerSet, Stacks
<1>3. PICK n \in T : \A m \in T : ~(<<m, n>> \in OpToRel(<, Nat))
  BY <1>2, NatLessThanWellFounded, WFMin, Zenon
<1>4. \A m \in T : ~(m < n)
  BY <1>2, <1>3 DEF OpToRel
<1>5. \A m \in 1..(n - 1) : LayersOf[i][m] # l
  BY <1>1, <1>2, <1>4 DEF Stacks
<1> QED
  BY <1>3, <1>5 DEF StackOf

\* A layer of an image is a layer.
LEMMA LayerOfImage ==
  ASSUME NEW i \in Images, NEW n \in Stacks(i)
  PROVE  LayersOf[i][n] \in Layers
BY ImagesAssumption DEF Stacks

\* No stack index of an image is above one that has no next layer.
LEMMA TopLayer ==
  ASSUME NEW i \in Images, NEW n \in Stacks(i), ~(n < Len(LayersOf[i]))
  PROVE  \A m \in Stacks(i) : m <= n
<1>1. Len(LayersOf[i]) \in Nat
  BY ImagesAssumption
<1> QED
  BY <1>1 DEF Stacks

\* A payload content goes to a layer of its image.
LEMMA ContentLayer ==
  ASSUME NEW i \in Images, NEW k \in 1..Len(Payload[i])
  PROVE  ContentPath(i, k)[1] \in LayerSet(i) /\ ContentPath(i, k)[1] \in Layers
<1>1. Payload[i][k].stack \in Stacks(i)
  BY ImagesAssumption DEF Stacks
<1> QED
  BY <1>1, LayerOfImage DEF ContentPath, LayerSet

\* A pull that goes on at a step outside the loops, or at a loop with an index of
\* its image, keeps the control state well typed.
ControlOK ==
  /\ pc \in [Pulls -> PCs]
  /\ image \in [Pulls -> Images]
  /\ idx \in [Pulls -> Nat \ {0}]
  /\ Indexed

LEMMA GoToControl ==
  ASSUME NEW p \in Pulls, NEW b \in PCs, NEW n \in Nat \ {0}, ControlOK, GoTo(p, b, n),
         image' = image,
         b \in {"prepare", "claim", "snapshot", "create", "commit", "mark"} => n \in Stacks(image[p])
  PROVE  ControlOK'
BY DEF ControlOK, Indexed, GoTo

LEMMA NextLayerControl ==
  ASSUME NEW p \in Pulls, NEW b \in PCs, NEW c \in PCs, ControlOK, idx[p] \in Stacks(image[p]),
         NextLayer(p, b, c), image' = image
  PROVE  ControlOK'
<1>1. Len(LayersOf[image[p]]) \in Nat /\ Len(LayersOf[image[p]]) > 0
  BY ImagesAssumption DEF ControlOK
<1>2. 1 \in Stacks(image[p])
  BY <1>1 DEF Stacks
<1>3. CASE idx[p] < Len(LayersOf[image[p]])
  <2>1. idx[p] + 1 \in Stacks(image[p]) /\ idx[p] + 1 \in Nat \ {0}
    BY <1>1, <1>3 DEF Stacks
  <2>2. GoTo(p, b, idx[p] + 1)
    BY <1>3 DEF NextLayer
  <2> QED
    BY <2>1, <2>2, GoToControl
<1>4. CASE ~(idx[p] < Len(LayersOf[image[p]]))
  <2>1. GoTo(p, c, 1)
    BY <1>4 DEF NextLayer
  <2> QED
    BY <1>2, <2>1, GoToControl
<1> QED
  BY <1>3, <1>4

\* LoadImage keeps the maps well typed.
LEMMA LoadImageType ==
  ASSUME NEW i \in Images, TypeOK, LoadImage(i)
  PROVE  /\ managerMap' \in [Images -> Managers \cup {None}]
         /\ layerMap' \in [Layers -> MountPoint \cup {None}]
         /\ managerMapLocked' = managerMapLocked
<1>1. \A l \in LayerSet(i) : [manager |-> i, stack |-> StackOf(i, l)] \in MountPoint
  BY StackOfType, ImagesAssumption DEF Stacks, MountPoint, Managers
<1>2. managerMap \in [Images -> Managers \cup {None}] /\ layerMap \in [Layers -> MountPoint \cup {None}]
  BY DEF TypeOK
<1>3. managerMap' \in [Images -> Managers \cup {None}]
  BY <1>2 DEF LoadImage, Managers
<1>4. CASE managerMap[i] # None
  BY <1>2, <1>3, <1>4 DEF LoadImage
<1>5. CASE managerMap[i] = None
  BY <1>1, <1>2, <1>3, <1>5 DEF LoadImage
<1> QED
  BY <1>4, <1>5

-----------------------------------------------------------------------------
(* Type correctness.                                                       *)

\* The rest of the state: all but the control of the pulls.
DataOK ==
  /\ imageStore \in [Images -> {"none", "created", "complete"}]
  /\ blobs \in [Images -> SUBSET Blobs]
  /\ gcLabels \subseteq Images
  /\ snapshots \in [Chains -> Images \cup {None}]
  /\ directories \subseteq Layers
  /\ files \in [Layers \X Digests -> {"absent", "partial", "full"}]
  /\ completedJson \subseteq Layers
  /\ managerMap \in [Images -> Managers \cup {None}]
  /\ managerMapLocked \in BOOLEAN
  /\ layerMap \in [Layers -> MountPoint \cup {None}]
  /\ daemon \in {"up", "down", "fatal"}
  /\ crashes \in Nat
  /\ early \in [Pulls -> BOOLEAN]
  /\ found \in [Pulls -> Images]
  /\ completedStack \in [Pulls -> SUBSET (Nat \ {0})]
  /\ closed \in [Pulls -> SUBSET (Nat \ {0})]
  /\ reply \in [Pulls -> {"none", "wait", "wait2", "ok", "exists", "error", "lost"}]

LEMMA TypeParts == TypeInv <=> ControlOK /\ DataOK
BY DEF TypeInv, TypeOK, ControlOK, DataOK

LEMMA TypeInit == Init => TypeInv
<1> SUFFICES ASSUME Init PROVE TypeInv
  OBVIOUS
<1>1. (CHOOSE i \in Images : TRUE) \in Images
  BY ImagesAssumption
<1>2. ControlOK
  BY <1>1 DEF Init, ControlOK, Indexed, PCs
<1>3. DataOK
  BY <1>1 DEF Init, DataOK, Blobs, Managers, MountPoint
<1> QED
  BY <1>2, <1>3, TypeParts

LEMMA TypeStep == TypeInv /\ [Next]_vars => TypeInv'
<1> SUFFICES ASSUME ControlOK, DataOK, [Next]_vars PROVE ControlOK' /\ DataOK'
  BY DEF TypeInv, TypeOK, ControlOK, DataOK
<1> USE DEF containerdVars, diskVars, memoryVars, worldVars, requestVars, pullVars
<1>1. ASSUME NEW p \in Pulls, NEW i \in Images, NEW e \in EarlyStart, Request(p, i, e)
      PROVE  ControlOK' /\ DataOK'
  <2>1. ControlOK'
    BY <1>1 DEF ControlOK, Indexed, Request, GoTo, PCs
  <2>2. DataOK'
    BY <1>1, BoundsAssumption DEF DataOK, Request, Answer
  <2> QED
    BY <2>1, <2>2
<1>2. ASSUME NEW p \in Pulls, FindImage(p) PROVE ControlOK' /\ DataOK'
  <2>1. ControlOK'
    <3>1. \E b \in {"request", "delete", "load", "done"} : GoTo(p, b, 1)
      BY <1>2 DEF FindImage, FailFirst, DataOK, ControlOK
    <3> QED
      BY <1>2, <3>1, GoToControl DEF FindImage, PCs
  <2>2. DataOK'
    <3>1. Matching(image[p]) \subseteq Images
      BY ImagesAssumption DEF Matching, ControlOK
    <3> QED
      BY <1>2, <3>1 DEF DataOK, FindImage, FailFirst, Answer
  <2> QED
    BY <2>1, <2>2
<1>3. ASSUME NEW p \in Pulls, LoadExisting(p) PROVE ControlOK' /\ DataOK'
  <2>1. ControlOK'
    BY <1>3, GoToControl DEF LoadExisting, PCs
  <2>2. found[p] \in Images /\ TypeOK
    BY TypeParts DEF DataOK, TypeInv
  <2>3. /\ managerMap' \in [Images -> Managers \cup {None}]
        /\ layerMap' \in [Layers -> MountPoint \cup {None}]
        /\ managerMapLocked' = managerMapLocked
    BY <1>3, <2>2, LoadImageType DEF LoadExisting, DataOK
  <2>4. DataOK'
    BY <1>3, <2>3 DEF DataOK, LoadExisting, Answer
  <2> QED
    BY <2>1, <2>4
<1>4. ASSUME NEW p \in Pulls, DeleteIncomplete(p) PROVE ControlOK' /\ DataOK'
  <2>1. ControlOK'
    <3>1. \E b \in {"request", "done"} : GoTo(p, b, 1)
      BY <1>4 DEF DeleteIncomplete, FailFirst
    <3> QED
      BY <1>4, <3>1, GoToControl DEF DeleteIncomplete, PCs
  <2>2. DataOK'
    BY <1>4 DEF DataOK, DeleteIncomplete, FailFirst, Answer
  <2> QED
    BY <2>1, <2>2
<1>5. ASSUME NEW p \in Pulls, DeltaImage(p) PROVE ControlOK' /\ DataOK'
  <2>1. ControlOK'
    <3>1. \E b \in {"lock", "done"} : GoTo(p, b, 1)
      BY <1>5 DEF DeltaImage, FailFirst
    <3> QED
      BY <1>5, <3>1, GoToControl DEF DeltaImage, PCs
  <2>2. DataOK'
    BY <1>5 DEF DataOK, DeltaImage, FailFirst, Answer
  <2> QED
    BY <2>1, <2>2
<1>6. ASSUME NEW p \in Pulls, LockManagerMap(p) PROVE ControlOK' /\ DataOK'
  <2>1. ControlOK'
    BY <1>6, GoToControl DEF LockManagerMap, PCs
  <2>2. DataOK'
    BY <1>6 DEF DataOK, LockManagerMap
  <2> QED
    BY <2>1, <2>2
<1>7. ASSUME NEW p \in Pulls, StoreBlob(p) PROVE ControlOK' /\ DataOK'
  <2>1. ControlOK'
    <3>1. idx[p] + 1 \in Nat \ {0}
      BY DEF ControlOK
    <3>2. GoTo(p, "store", idx[p] + 1) \/ GoTo(p, "deferred", 1)
      BY <1>7 DEF StoreBlob, FailFirst
    <3> QED
      BY <1>7, <3>1, <3>2, GoToControl DEF StoreBlob, PCs
  <2>2. DataOK'
    <3>1. idx[p] \in 1..3
      BY <1>7 DEF StoreBlob, BlobOrder, ControlOK
    <3>2. BlobOrder[idx[p]] \in Blobs
      BY <3>1 DEF BlobOrder, Blobs
    <3>3. blobs' \in [Images -> SUBSET Blobs]
      BY <1>7, <3>2 DEF StoreBlob, DataOK
    <3> QED
      BY <1>7, <3>3 DEF DataOK, StoreBlob, FailFirst, Answer
  <2> QED
    BY <2>1, <2>2
<1>8. ASSUME NEW p \in Pulls, CreateImage(p) PROVE ControlOK' /\ DataOK'
  <2>1. ControlOK'
    <3>1. 1 \in Stacks(image[p])
      BY ImagesAssumption DEF ControlOK, Stacks
    <3>2. \E b \in {"prepare", "deferred"} : GoTo(p, b, 1)
      BY <1>8 DEF CreateImage, FailFirst
    <3> QED
      BY <1>8, <3>1, <3>2, GoToControl DEF CreateImage, PCs
  <2>2. DataOK'
    BY <1>8 DEF DataOK, CreateImage, Unlock, Managers, FailFirst, Answer
  <2> QED
    BY <2>1, <2>2
<1>9. ASSUME NEW p \in Pulls, PrepareDirectory(p) PROVE ControlOK' /\ DataOK'
  <2>1. idx[p] \in Stacks(image[p]) /\ image[p] \in Images
    BY <1>9 DEF PrepareDirectory, At, Indexed, ControlOK
  <2>2. LayersOf[image[p]][idx[p]] \in Layers
    BY <2>1, LayerOfImage
  <2>3. ControlOK'
    <3>1. \/ NextLayer(p, "prepare", "claim")
          \/ GoTo(p, "deferred", 1)
      BY <1>9 DEF PrepareDirectory, FailFirst
    <3> QED
      BY <1>9, <2>1, <3>1, NextLayerControl, GoToControl DEF PrepareDirectory, PCs
  <2>4. DataOK'
    <3>1. directories' = directories \/ directories' = directories \cup {LayersOf[image[p]][idx[p]]}
      BY <1>9 DEF PrepareDirectory
    <3>2. completedStack' = completedStack \/ completedStack' = [completedStack EXCEPT ![p] = @ \cup {idx[p]}]
      BY <1>9 DEF PrepareDirectory
    <3>3. reply' = reply \/ reply' = [reply EXCEPT ![p] = "error"]
      BY <1>9 DEF PrepareDirectory, FailFirst, Answer
    <3>4. idx[p] \in Nat \ {0}
      BY <2>1, ImagesAssumption DEF Stacks
    <3>5. directories' \subseteq Layers
      BY <2>2, <3>1 DEF DataOK
    <3>6. completedStack' \in [Pulls -> SUBSET (Nat \ {0})]
      BY <3>2, <3>4 DEF DataOK
    <3>7. reply' \in [Pulls -> {"none", "wait", "wait2", "ok", "exists", "error", "lost"}]
      BY <3>3 DEF DataOK
    <3> QED
      BY <1>9, <3>5, <3>6, <3>7 DEF DataOK, PrepareDirectory
  <2> QED
    BY <2>3, <2>4
<1>10. ASSUME NEW p \in Pulls, ClaimLayer(p) PROVE ControlOK' /\ DataOK'
  <2>1. idx[p] \in Stacks(image[p]) /\ image[p] \in Images /\ idx[p] \in Nat \ {0}
    BY <1>10 DEF ClaimLayer, At, Indexed, ControlOK
  <2>2. LayersOf[image[p]][idx[p]] \in Layers
    BY <2>1, LayerOfImage
  <2>3. ControlOK'
    BY <1>10, <2>1, GoToControl DEF ClaimLayer, PCs
  <2>4. [manager |-> p, stack |-> idx[p]] \in MountPoint
    BY <2>1 DEF MountPoint, Managers
  <2>5. DataOK'
    BY <1>10, <2>2, <2>4 DEF DataOK, ClaimLayer
  <2> QED
    BY <2>3, <2>5
<1>11. ASSUME NEW p \in Pulls, AddSnapshot(p) PROVE ControlOK' /\ DataOK'
  <2>1. idx[p] \in Stacks(image[p]) /\ image[p] \in Images
    BY <1>11 DEF AddSnapshot, StatSnapshot, PrepareSnapshot, CommitSnapshot, At, Indexed, ControlOK
  <2>2. LayersOf[image[p]][idx[p]] \in Layers
    BY <2>1, LayerOfImage
  <2>3. ControlOK'
    <3>1. \/ NextLayer(p, "claim", "announce")
          \/ \E b \in {"create", "commit"} : GoTo(p, b, idx[p])
          \/ GoTo(p, "deferred", 1)
      BY <1>11 DEF AddSnapshot, StatSnapshot, PrepareSnapshot, CommitSnapshot, FailFirst
    <3>2. image' = image /\ idx[p] \in Nat \ {0}
      BY <1>11 DEF AddSnapshot, StatSnapshot, PrepareSnapshot, CommitSnapshot, ControlOK
    <3>3. {"create", "commit", "claim", "announce", "deferred"} \subseteq PCs
      BY DEF PCs
    <3>4. CASE \E b \in {"create", "commit"} : GoTo(p, b, idx[p])
      BY <2>1, <3>2, <3>3, <3>4, GoToControl
    <3>5. CASE NextLayer(p, "claim", "announce")
      BY <2>1, <3>2, <3>3, <3>5, NextLayerControl
    <3>6. CASE GoTo(p, "deferred", 1)
      BY <3>2, <3>3, <3>6, GoToControl
    <3> QED
      BY <3>1, <3>4, <3>5, <3>6
  <2>4. LoadImage(image[p]) \/ UNCHANGED memoryVars
    BY <1>11 DEF AddSnapshot, StatSnapshot, PrepareSnapshot, CommitSnapshot
  <2>5. TypeOK
    BY TypeParts DEF TypeInv
  <2>6. /\ managerMap' \in [Images -> Managers \cup {None}]
        /\ layerMap' \in [Layers -> MountPoint \cup {None}]
        /\ managerMapLocked' = managerMapLocked
    BY <2>1, <2>4, <2>5, LoadImageType DEF DataOK
  <2>7. snapshots' \in [Chains -> Images \cup {None}]
    <3>1. \/ UNCHANGED snapshots
          \/ snapshots' = [snapshots EXCEPT ![Chain(image[p], idx[p])] = image[p]]
      BY <1>11 DEF AddSnapshot, StatSnapshot, PrepareSnapshot, CommitSnapshot
    <3> QED
      BY <2>1, <3>1 DEF DataOK
  <2>8. DataOK'
    <3>1. UNCHANGED reply \/ reply' = [reply EXCEPT ![p] = "error"]
      BY <1>11 DEF AddSnapshot, StatSnapshot, PrepareSnapshot, CommitSnapshot, FailFirst, Answer
    <3>2. reply' \in [Pulls -> {"none", "wait", "wait2", "ok", "exists", "error", "lost"}]
      BY <3>1 DEF DataOK
    <3>3. UNCHANGED <<imageStore, blobs, gcLabels, directories, files, completedJson, daemon, crashes,
                      early, found, completedStack, closed>>
      BY <1>11 DEF AddSnapshot, StatSnapshot, PrepareSnapshot, CommitSnapshot
    <3> QED
      BY <2>6, <2>7, <3>2, <3>3 DEF DataOK
  <2> QED
    BY <2>3, <2>8
<1>12. ASSUME NEW p \in Pulls, Announce(p) PROVE ControlOK' /\ DataOK'
  <2>1. ControlOK'
    BY <1>12, GoToControl DEF Announce, PCs
  <2>2. DataOK'
    BY <1>12 DEF DataOK, Announce, Answer
  <2> QED
    BY <2>1, <2>2
<1>13. ASSUME NEW p \in Pulls, DiscardContent(p) PROVE ControlOK' /\ DataOK'
  <2>1. ControlOK'
    <3>1. idx[p] + 1 \in Nat \ {0}
      BY DEF ControlOK
    <3> QED
      BY <1>13, <3>1, GoToControl DEF DiscardContent, PCs
  <2>2. DataOK'
    BY <1>13 DEF DataOK, DiscardContent
  <2> QED
    BY <2>1, <2>2
<1>14. ASSUME NEW p \in Pulls, CreateFile(p) PROVE ControlOK' /\ DataOK'
  <2>1. ControlOK'
    <3>1. idx[p] \in Nat \ {0}
      BY DEF ControlOK
    <3> QED
      BY <1>14, <3>1, GoToControl DEF CreateFile, PCs
  <2>2. DataOK'
    <3>1. ContentPath(image[p], idx[p])[1] \in Layers
      BY <1>14, ContentLayer DEF CreateFile, MoreContent, ControlOK
    <3> QED
      BY <1>14, <3>1 DEF DataOK, CreateFile
  <2> QED
    BY <2>1, <2>2
<1>15. ASSUME NEW p \in Pulls, WriteFile(p) PROVE ControlOK' /\ DataOK'
  <2>1. ControlOK'
    <3>1. idx[p] + 1 \in Nat \ {0}
      BY DEF ControlOK
    <3> QED
      BY <1>15, <3>1, GoToControl DEF WriteFile, PCs
  <2>2. DataOK'
    <3>1. idx[p] \in Nat \ {0}
      BY DEF ControlOK
    <3> QED
      BY <1>15, <3>1 DEF DataOK, WriteFile
  <2> QED
    BY <2>1, <2>2
<1>16. ASSUME NEW p \in Pulls, ExtractFails(p) PROVE ControlOK' /\ DataOK'
  <2>1. ControlOK'
    <3>1. \E b \in {"deferred", "blocked"} : GoTo(p, b, 1)
      BY <1>16 DEF ExtractFails, SecondSignal
    <3> QED
      BY <1>16, <3>1, GoToControl DEF ExtractFails, PCs
  <2>2. DataOK'
    BY <1>16 DEF DataOK, ExtractFails, SecondSignal, Answer
  <2> QED
    BY <2>1, <2>2
<1>17. ASSUME NEW p \in Pulls, AllExtracted(p) PROVE ControlOK' /\ DataOK'
  <2>1. ControlOK'
    <3>1. 1 \in Stacks(image[p])
      BY ImagesAssumption DEF ControlOK, Stacks
    <3> QED
      BY <1>17, <3>1, GoToControl DEF AllExtracted, PCs
  <2>2. DataOK'
    BY <1>17 DEF DataOK, AllExtracted
  <2> QED
    BY <2>1, <2>2
<1>18. ASSUME NEW p \in Pulls, MarkLayer(p) PROVE ControlOK' /\ DataOK'
  <2>1. idx[p] \in Stacks(image[p]) /\ image[p] \in Images
    BY <1>18 DEF MarkLayer, At, Indexed, ControlOK
  <2>2. LayersOf[image[p]][idx[p]] \in Layers
    BY <2>1, LayerOfImage
  <2>3. ControlOK'
    <3>1. \/ NextLayer(p, "mark", "label")
          \/ \E b \in {"deferred", "blocked"} : GoTo(p, b, 1)
      BY <1>18 DEF MarkLayer, SecondSignal
    <3> QED
      BY <1>18, <2>1, <3>1, NextLayerControl, GoToControl DEF MarkLayer, PCs
  <2>4. idx[p] \in Nat \ {0}
    BY DEF ControlOK
  <2>5. DataOK'
    BY <1>18, <2>2, <2>4 DEF DataOK, MarkLayer, SecondSignal, Answer
  <2> QED
    BY <2>3, <2>5
<1>19. ASSUME NEW p \in Pulls, LabelImage(p) PROVE ControlOK' /\ DataOK'
  <2>1. ControlOK'
    <3>1. \E b \in {"manifest", "deferred"} : GoTo(p, b, 1)
      BY <1>19 DEF LabelImage, FailFirst
    <3> QED
      BY <1>19, <3>1, GoToControl DEF LabelImage, PCs
  <2>2. DataOK'
    BY <1>19 DEF DataOK, LabelImage
  <2> QED
    BY <2>1, <2>2
<1>20. ASSUME NEW p \in Pulls, UpdateManifest(p) PROVE ControlOK' /\ DataOK'
  <2>1. ControlOK'
    <3>1. \E b \in {"deferred", "blocked"} : GoTo(p, b, 1)
      BY <1>20 DEF UpdateManifest, SecondSignal
    <3> QED
      BY <1>20, <3>1, GoToControl DEF UpdateManifest, PCs
  <2>2. DataOK'
    BY <1>20 DEF DataOK, ControlOK, UpdateManifest, SecondSignal, Answer
  <2> QED
    BY <2>1, <2>2
<1>21. ASSUME NEW p \in Pulls, Deferred(p) PROVE ControlOK' /\ DataOK'
  <2>1. ControlOK'
    BY <1>21, GoToControl DEF Deferred, PCs
  <2>2. DataOK'
    BY <1>21 DEF DataOK, Deferred, Unlock
  <2> QED
    BY <2>1, <2>2
<1>22. ASSUME NEW i \in MountedImages, MountContainer(i) PROVE ControlOK' /\ DataOK'
  <2>1. PICK m \in Images : LoadImage(m)
    BY <1>22 DEF MountContainer
  <2>2. /\ managerMap' \in [Images -> Managers \cup {None}]
        /\ layerMap' \in [Layers -> MountPoint \cup {None}]
        /\ managerMapLocked' = managerMapLocked
    BY <2>1, LoadImageType, TypeParts DEF TypeInv
  <2> QED
    BY <1>22, <2>2 DEF ControlOK, Indexed, DataOK, MountContainer
<1>23. CASE Crash
  BY <1>23 DEF ControlOK, Indexed, DataOK, Crash
<1>24. CASE Restart
  <2>1. [manager |-> None, stack |-> -1] \in MountPoint
    BY DEF MountPoint
  <2>2. layerMap' \in [Layers -> MountPoint \cup {None}]
    BY <1>24, <2>1 DEF Restart, ScannedLayers
  <2>3. files' \in [Layers \X Digests -> {"absent", "partial", "full"}]
    BY <1>24 DEF Restart, ScannedLayers, DataOK
  <2>4. reply' \in [Pulls -> {"none", "wait", "wait2", "ok", "exists", "error", "lost"}]
    BY <1>24 DEF Restart, ScannedLayers, DataOK
  <2>5. DataOK'
    BY <1>24, <2>2, <2>3, <2>4 DEF DataOK, Restart, ScannedLayers
  <2>6. ControlOK'
    BY <1>24 DEF ControlOK, Indexed, Restart, ScannedLayers, PCs
  <2> QED
    BY <2>5, <2>6
<1>25. CASE Idle \/ UNCHANGED vars
  BY <1>25 DEF ControlOK, Indexed, DataOK, Idle, vars
<1> QED
  BY <1>1, <1>2, <1>3, <1>4, <1>5, <1>6, <1>7, <1>8, <1>9, <1>10, <1>11, <1>12, <1>13, <1>14,
     <1>15, <1>16, <1>17, <1>18, <1>19, <1>20, <1>21, <1>22, <1>23, <1>24, <1>25
     DEF Next, Advance

\* Every variable keeps its type, whatever the images, pulls and failures.
THEOREM TypeCorrect == Spec => []TypeOK
<1>1. Spec => []TypeInv
  BY TypeInit, TypeStep, PTL DEF Spec
<1> QED
  BY <1>1, PTL DEF TypeInv

-----------------------------------------------------------------------------
(* A complete image stays loadable.                                        *)

\* Nothing a step stores is lost: no blob, snapshot or completed.json goes away.
StoresGrow ==
  /\ \A i \in Images : blobs[i] \subseteq blobs'[i] /\ blobs'[i] \subseteq Blobs
  /\ \A c \in Chains : snapshots[c] # None => snapshots'[c] # None
  /\ completedJson \subseteq completedJson'

LEMMA ChainType ==
  ASSUME NEW i \in Images, NEW n \in Stacks(i)
  PROVE  Chain(i, n) \in Chains
BY DEF Chains, Stacks

LEMMA Growth ==
  ASSUME TypeInv, TypeInv', [Next]_vars
  PROVE  StoresGrow
<1> USE DEF containerdVars, diskVars, memoryVars, worldVars, requestVars, pullVars
<1>1. ControlOK /\ DataOK /\ DataOK'
  BY DEF TypeInv, TypeOK, ControlOK, DataOK
<1>2. \A i \in Images : blobs'[i] \subseteq Blobs
  BY <1>1 DEF DataOK
<1>3. ASSUME UNCHANGED <<blobs, snapshots, completedJson>> PROVE StoresGrow
  BY <1>2, <1>3 DEF StoresGrow
<1>4. ASSUME NEW p \in Pulls, StoreBlob(p) PROVE StoresGrow
  BY <1>1, <1>2, <1>4 DEF StoresGrow, StoreBlob, DataOK
<1>5. ASSUME NEW p \in Pulls, AddSnapshot(p) PROVE StoresGrow
  <2>1. image[p] # None
    BY <1>1, NamesAssumption DEF ControlOK
  <2> QED
    <3>1. \/ UNCHANGED snapshots
          \/ snapshots' = [snapshots EXCEPT ![Chain(image[p], idx[p])] = image[p]]
      BY <1>5 DEF AddSnapshot, StatSnapshot, PrepareSnapshot, CommitSnapshot
    <3>2. UNCHANGED <<blobs, completedJson>>
      BY <1>5 DEF AddSnapshot, StatSnapshot, PrepareSnapshot, CommitSnapshot
    <3> QED
      BY <1>1, <1>2, <2>1, <3>1, <3>2 DEF StoresGrow, DataOK
<1>6. ASSUME NEW p \in Pulls, MarkLayer(p) PROVE StoresGrow
  BY <1>1, <1>2, <1>6 DEF StoresGrow, MarkLayer
<1>7. ASSUME NEW p \in Pulls, Advance(p) PROVE StoresGrow
  BY <1>3, <1>4, <1>5, <1>6, <1>7
     DEF Advance, FindImage, LoadExisting, DeleteIncomplete, DeltaImage, LockManagerMap, CreateImage,
         PrepareDirectory, ClaimLayer, Announce, DiscardContent, CreateFile, WriteFile, ExtractFails,
         AllExtracted, LabelImage, UpdateManifest, Deferred
<1> QED
  BY <1>3, <1>7 DEF Next, Request, MountContainer, Crash, Restart, Idle, vars

\* A pull that does not move keeps what it has stored.
LEMMA ProgressKept ==
  ASSUME NEW p \in Pulls, TypeInv, StoresGrow, Progress(p),
         pc'[p] = pc[p], idx'[p] = idx[p], image'[p] = image[p]
  PROVE  Progress(p)'
<1>1. image[p] \in Images
  BY DEF TypeInv, TypeOK
<1>2. \A n \in Stacks(image[p]) : Chain(image[p], n) \in Chains
  BY <1>1, ChainType
<1>3. BlobsProgress(p)'
  BY <1>1 DEF Progress, BlobsProgress, BlobsStored, StoresGrow
<1>4. SnapshotsProgress(p)'
  BY <1>1, <1>2 DEF Progress, SnapshotsProgress, SnapshotsStored, StoresGrow
<1>5. MarksProgress(p)'
  BY DEF Progress, MarksProgress, StoresGrow
<1> QED
  BY <1>3, <1>4, <1>5 DEF Progress

\* A pull owes nothing before it stores and after it is through.
LEMMA ProgressFree ==
  ASSUME NEW p, pc'[p] \notin PastStore \cup {"store"}
  PROVE  Progress(p)'
BY DEF Progress, BlobsProgress, SnapshotsProgress, MarksProgress, PastStore, PastSnapshots

\* An image is complete after a step that does not label it only if it was before.
LEMMA CompleteKept ==
  ASSUME TypeInv, StoresGrow, CompleteImageLoadable,
         \A i \in Images : imageStore'[i] = "complete" => imageStore[i] = "complete"
  PROVE  CompleteImageLoadable'
<1>1. \A i \in Images : \A n \in Stacks(i) : Chain(i, n) \in Chains
  BY ChainType
<1> QED
  BY <1>1 DEF CompleteImageLoadable, BlobsStored, SnapshotsStored, StoresGrow

LEMMA LoadableInit == Init => LoadableInv
BY DEF Init, LoadableInv, Progress, BlobsProgress, SnapshotsProgress, MarksProgress,
       PastStore, PastSnapshots, CompleteImageLoadable

LEMMA LoadableStep ==
  ASSUME TypeInv, TypeInv', LoadableInv, [Next]_vars
  PROVE  LoadableInv'
<1> USE DEF containerdVars, diskVars, memoryVars, worldVars, requestVars, pullVars
<1>1. ControlOK /\ DataOK /\ StoresGrow
  BY Growth DEF TypeInv, TypeOK, ControlOK, DataOK
<1>2. (\A q \in Pulls : Progress(q)) /\ CompleteImageLoadable
  BY DEF LoadableInv
<1>3. ASSUME NEW p \in Pulls, NEW b, NEW n, GoTo(p, b, n), UNCHANGED image
      PROVE  \A q \in Pulls \ {p} : Progress(q)'
  <2>1. \A q \in Pulls \ {p} : pc'[q] = pc[q] /\ idx'[q] = idx[q] /\ image'[q] = image[q]
    BY <1>1, <1>3 DEF GoTo, ControlOK
  <2> QED
    BY <1>1, <1>2, <2>1, ProgressKept
<1>4. ASSUME NEW p \in Pulls, NEW b, NEW n, GoTo(p, b, n), UNCHANGED image,
             b \notin PastStore \cup {"store"}
      PROVE  \A q \in Pulls : Progress(q)'
  <2>1. Progress(p)'
    BY <1>1, <1>4, ProgressFree DEF GoTo, ControlOK
  <2> QED
    BY <1>3, <1>4, <2>1
<1>5. ASSUME UNCHANGED imageStore PROVE CompleteImageLoadable'
  BY <1>1, <1>2, <1>5, CompleteKept
<1>6. ASSUME NEW p \in Pulls, NEW i \in Images, NEW e \in EarlyStart, Request(p, i, e)
      PROVE  LoadableInv'
  <2>1. \A q \in Pulls \ {p} : pc'[q] = pc[q] /\ idx'[q] = idx[q] /\ image'[q] = image[q]
    BY <1>1, <1>6 DEF Request, GoTo, ControlOK
  <2>2. \A q \in Pulls \ {p} : Progress(q)'
    BY <1>1, <1>2, <2>1, ProgressKept
  <2>3. Progress(p)'
    BY <1>1, <1>6, ProgressFree DEF Request, GoTo, ControlOK, PastStore
  <2> QED
    BY <1>5, <1>6, <2>2, <2>3 DEF LoadableInv, Request
<1>7. ASSUME NEW p \in Pulls, FindImage(p) PROVE LoadableInv'
  <2>1. \E b \in {"request", "delete", "load", "done"} : GoTo(p, b, 1)
    BY <1>1, <1>7 DEF FindImage, FailFirst, DataOK, ControlOK
  <2> QED
    BY <1>4, <1>5, <1>7, <2>1 DEF LoadableInv, FindImage, PastStore
<1>8. ASSUME NEW p \in Pulls, LoadExisting(p) PROVE LoadableInv'
  BY <1>4, <1>5, <1>8 DEF LoadableInv, LoadExisting, PastStore
<1>9. ASSUME NEW p \in Pulls, DeleteIncomplete(p) PROVE LoadableInv'
  <2>1. \E b \in {"request", "done"} : GoTo(p, b, 1)
    BY <1>9 DEF DeleteIncomplete, FailFirst
  <2>2. \A i \in Images : imageStore'[i] = "complete" => imageStore[i] = "complete"
    BY <1>1, <1>9 DEF DeleteIncomplete, DataOK, ControlOK
  <2> QED
    BY <1>1, <1>2, <1>4, <1>9, <2>1, <2>2, CompleteKept DEF LoadableInv, DeleteIncomplete, PastStore
<1>10. ASSUME NEW p \in Pulls, DeltaImage(p) PROVE LoadableInv'
  <2>1. \E b \in {"lock", "done"} : GoTo(p, b, 1)
    BY <1>10 DEF DeltaImage, FailFirst
  <2> QED
    BY <1>4, <1>5, <1>10, <2>1 DEF LoadableInv, DeltaImage, PastStore
<1>11. ASSUME NEW p \in Pulls, LockManagerMap(p) PROVE LoadableInv'
  <2>1. Progress(p)'
    BY <1>1, <1>11 DEF LockManagerMap, GoTo, ControlOK, Progress, BlobsProgress, SnapshotsProgress,
       MarksProgress, PastStore, PastSnapshots
  <2> QED
    BY <1>3, <1>5, <1>11, <2>1 DEF LoadableInv, LockManagerMap
<1>12. ASSUME NEW p \in Pulls, StoreBlob(p) PROVE LoadableInv'
  <2>1. CASE GoTo(p, "deferred", 1)
    BY <1>4, <1>5, <1>12, <2>1 DEF LoadableInv, StoreBlob, PastStore
  <2>2. CASE GoTo(p, "store", idx[p] + 1) /\ blobs' = [blobs EXCEPT ![image[p]] = @ \cup {BlobOrder[idx[p]]}]
    <3>1. /\ pc'[p] = "store" /\ idx'[p] = idx[p] + 1 /\ image'[p] = image[p]
          /\ image[p] \in Images /\ idx[p] \in Nat
      BY <1>1, <1>12, <2>2 DEF StoreBlob, GoTo, ControlOK
    <3>2. blobs'[image[p]] = blobs[image[p]] \cup {BlobOrder[idx[p]]}
      BY <1>1, <2>2, <3>1 DEF DataOK
    <3>3. \A n \in 1..3 : n < idx[p] => BlobOrder[n] \in blobs[image[p]]
      BY <1>2, <1>12 DEF Progress, BlobsProgress, StoreBlob, At
    <3>4. \A n \in 1..3 : n < idx'[p] => BlobOrder[n] \in blobs'[image'[p]]
      BY <3>1, <3>2, <3>3
    <3>5. Progress(p)'
      BY <3>1, <3>4 DEF Progress, BlobsProgress, SnapshotsProgress, MarksProgress, PastStore, PastSnapshots
    <3> QED
      BY <1>3, <1>5, <1>12, <2>2, <3>5 DEF LoadableInv, StoreBlob
  <2> QED
    BY <1>12, <2>1, <2>2 DEF StoreBlob, FailFirst
<1>13. ASSUME NEW p \in Pulls, CreateImage(p) PROVE LoadableInv'
  <2>1. \A i \in Images : imageStore'[i] = "complete" => imageStore[i] = "complete"
    BY <1>1, <1>13 DEF CreateImage, DataOK, ControlOK
  <2>2. CompleteImageLoadable'
    BY <1>1, <1>2, <2>1, CompleteKept
  <2>3. CASE GoTo(p, "deferred", 1)
    BY <1>4, <1>13, <2>2, <2>3 DEF LoadableInv, CreateImage, PastStore
  <2>4. CASE GoTo(p, "prepare", 1)
    <3>1. /\ pc'[p] = "prepare" /\ idx[p] = 4 /\ pc[p] = "store"
          /\ image[p] \in Images /\ image'[p] = image[p] /\ blobs' = blobs
      BY <1>1, <1>13, <2>4 DEF CreateImage, GoTo, At, ControlOK, BlobOrder
    <3>2. \A n \in 1..3 : BlobOrder[n] \in blobs[image[p]]
      BY <1>2, <3>1 DEF Progress, BlobsProgress
    <3>3. BlobsStored(image[p])
      BY <1>1, <3>1, <3>2 DEF BlobOrder, Blobs, BlobsStored, DataOK
    <3>4. Progress(p)'
      BY <3>1, <3>3 DEF Progress, BlobsProgress, SnapshotsProgress, MarksProgress, PastSnapshots, BlobsStored
    <3> QED
      BY <1>3, <1>13, <2>2, <2>4, <3>4 DEF LoadableInv, CreateImage
  <2> QED
    BY <1>13, <2>3, <2>4 DEF CreateImage, FailFirst
<1>14. ASSUME NEW p \in Pulls, PrepareDirectory(p) PROVE LoadableInv'
  <2>1. CASE GoTo(p, "deferred", 1)
    BY <1>4, <1>5, <1>14, <2>1 DEF LoadableInv, PrepareDirectory, PastStore
  <2>2. ASSUME NEW b \in {"prepare", "claim"}, NEW n, GoTo(p, b, n), b = "claim" => n = 1
        PROVE  LoadableInv'
    <3>1. /\ pc'[p] = b /\ idx'[p] = n /\ pc[p] = "prepare"
          /\ image[p] \in Images /\ image'[p] = image[p] /\ blobs' = blobs
      BY <1>1, <1>14, <2>2 DEF PrepareDirectory, GoTo, At, ControlOK
    <3>2. BlobsStored(image[p])
      BY <1>2, <3>1 DEF Progress, BlobsProgress, PastStore
    <3>3. \A m \in Stacks(image[p]) : ~(m < 1)
      BY <3>1, ImagesAssumption DEF Stacks
    <3>4. Progress(p)'
      BY <2>2, <3>1, <3>2, <3>3 DEF Progress, BlobsProgress, SnapshotsProgress, MarksProgress,
         PastSnapshots, BlobsStored
    <3> QED
      BY <1>3, <1>5, <1>14, <2>2, <3>4 DEF LoadableInv, PrepareDirectory
  <2> QED
    BY <1>14, <2>1, <2>2 DEF PrepareDirectory, FailFirst, NextLayer
<1>15. ASSUME NEW p \in Pulls, ClaimLayer(p) PROVE LoadableInv'
  <2>1. /\ pc'[p] = "snapshot" /\ idx'[p] = idx[p] /\ pc[p] = "claim"
        /\ image'[p] = image[p] /\ UNCHANGED <<blobs, snapshots>>
    BY <1>1, <1>15 DEF ClaimLayer, GoTo, At, ControlOK
  <2>2. BlobsStored(image[p])
    BY <1>2, <2>1 DEF Progress, BlobsProgress, PastStore
  <2>3. \A n \in Stacks(image[p]) : n < idx[p] => snapshots[Chain(image[p], n)] # None
    BY <1>2, <2>1 DEF Progress, SnapshotsProgress
  <2>4. Progress(p)'
    BY <2>1, <2>2, <2>3 DEF Progress, BlobsProgress, SnapshotsProgress, MarksProgress,
       PastSnapshots, BlobsStored
  <2> QED
    BY <1>3, <1>5, <1>15, <2>4 DEF LoadableInv, ClaimLayer
<1>16. ASSUME NEW p \in Pulls, AddSnapshot(p) PROVE LoadableInv'
  <2>1. CASE GoTo(p, "deferred", 1)
    BY <1>4, <1>5, <1>16, <2>1 DEF LoadableInv, AddSnapshot, StatSnapshot, PrepareSnapshot, CommitSnapshot, PastStore
  <2>2. ASSUME NextLayer(p, "claim", "announce"), snapshots'[Chain(image[p], idx[p])] # None
        PROVE  LoadableInv'
    <3>1. /\ pc[p] \in {"snapshot", "create", "commit"} /\ idx[p] \in Stacks(image[p]) /\ image[p] \in Images
          /\ image'[p] = image[p] /\ blobs' = blobs
      BY <1>1, <1>16 DEF AddSnapshot, StatSnapshot, PrepareSnapshot, CommitSnapshot, At, ControlOK, Indexed
    <3>2. BlobsStored(image[p])
      BY <1>2, <3>1 DEF Progress, BlobsProgress, PastStore
    <3>3. \A n \in Stacks(image[p]) : n < idx[p] => snapshots'[Chain(image[p], n)] # None
      BY <1>1, <1>2, <3>1, ChainType DEF Progress, SnapshotsProgress, StoresGrow
    <3>4. \A n \in Stacks(image[p]) : n <= idx[p] => snapshots'[Chain(image[p], n)] # None
      BY <2>2, <3>1, <3>3 DEF Stacks
    <3>5. CASE idx[p] < Len(LayersOf[image[p]])
      <4>1. GoTo(p, "claim", idx[p] + 1)
        BY <2>2, <3>5 DEF NextLayer
      <4>2. pc'[p] = "claim" /\ idx'[p] = idx[p] + 1 /\ idx[p] \in Nat
        BY <1>1, <4>1 DEF GoTo, ControlOK
      <4>3. \A n \in Stacks(image[p]) : n < idx'[p] => snapshots'[Chain(image[p], n)] # None
        BY <3>4, <4>2 DEF Stacks
      <4>4. Progress(p)'
        BY <3>1, <3>2, <4>2, <4>3 DEF Progress, BlobsProgress, SnapshotsProgress, MarksProgress,
           PastSnapshots, BlobsStored
      <4> QED
        BY <1>3, <1>5, <1>16, <4>1, <4>4 DEF LoadableInv, AddSnapshot, StatSnapshot, PrepareSnapshot, CommitSnapshot
    <3>6. CASE ~(idx[p] < Len(LayersOf[image[p]]))
      <4>1. GoTo(p, "announce", 1)
        BY <2>2, <3>6 DEF NextLayer
      <4>2. pc'[p] = "announce"
        BY <1>1, <4>1 DEF GoTo, ControlOK
      <4>3. \A n \in Stacks(image[p]) : snapshots'[Chain(image[p], n)] # None
        <5>1. \A n \in Stacks(image[p]) : n <= idx[p]
          BY <3>1, <3>6, TopLayer
        <5> QED
          BY <3>4, <5>1
      <4>4. Progress(p)'
        BY <3>1, <3>2, <4>2, <4>3 DEF Progress, BlobsProgress, SnapshotsProgress, SnapshotsStored,
           MarksProgress, BlobsStored
      <4> QED
        BY <1>3, <1>5, <1>16, <4>1, <4>4 DEF LoadableInv, AddSnapshot, StatSnapshot, PrepareSnapshot, CommitSnapshot
    <3> QED
      BY <3>5, <3>6
  <2>3. \/ GoTo(p, "deferred", 1)
        \/ NextLayer(p, "claim", "announce") /\ snapshots'[Chain(image[p], idx[p])] # None
        \/ \E b \in {"create", "commit"} : GoTo(p, b, idx[p]) /\ UNCHANGED snapshots
    <3>1. /\ image[p] # None /\ Chain(image[p], idx[p]) \in Chains
      BY <1>1, <1>16, NamesAssumption, ChainType DEF AddSnapshot, StatSnapshot, PrepareSnapshot, CommitSnapshot, At, ControlOK, Indexed
    <3> QED
      BY <1>1, <1>16, <3>1 DEF AddSnapshot, StatSnapshot, PrepareSnapshot, CommitSnapshot, FailFirst, DataOK
  <2>4. ASSUME NEW b \in {"create", "commit"}, GoTo(p, b, idx[p]), UNCHANGED snapshots
        PROVE  LoadableInv'
    <3>1. /\ pc'[p] = b /\ idx'[p] = idx[p] /\ pc[p] \in {"snapshot", "create"}
          /\ image'[p] = image[p] /\ blobs' = blobs /\ UNCHANGED <<imageStore, image>>
      BY <1>1, <1>16, <2>4 DEF AddSnapshot, StatSnapshot, PrepareSnapshot, CommitSnapshot, NextLayer, FailFirst, GoTo, At, ControlOK
    <3>2. BlobsStored(image[p])
      BY <1>2, <3>1 DEF Progress, BlobsProgress, PastStore
    <3>3. \A n \in Stacks(image[p]) : n < idx[p] => snapshots[Chain(image[p], n)] # None
      BY <1>2, <3>1 DEF Progress, SnapshotsProgress
    <3>4. Progress(p)'
      BY <2>4, <3>1, <3>2, <3>3 DEF Progress, BlobsProgress, SnapshotsProgress, MarksProgress,
         PastSnapshots, BlobsStored
    <3> QED
      BY <1>3, <1>5, <2>4, <3>1, <3>4 DEF LoadableInv
  <2> QED
    BY <2>1, <2>2, <2>3, <2>4
<1>17. ASSUME NEW p \in Pulls, Announce(p) PROVE LoadableInv'
  <2>1. /\ pc'[p] = "extract" /\ pc[p] = "announce" /\ image[p] \in Images
        /\ image'[p] = image[p] /\ UNCHANGED <<blobs, snapshots>>
    BY <1>1, <1>17 DEF Announce, GoTo, At, ControlOK
  <2>2. BlobsStored(image[p]) /\ SnapshotsStored(image[p])
    BY <1>2, <2>1 DEF Progress, BlobsProgress, SnapshotsProgress, PastStore, PastSnapshots
  <2>3. Progress(p)'
    BY <2>1, <2>2 DEF Progress, BlobsProgress, SnapshotsProgress, MarksProgress,
       BlobsStored, SnapshotsStored
  <2> QED
    BY <1>3, <1>5, <1>17, <2>3 DEF LoadableInv, Announce
<1>18. ASSUME NEW p \in Pulls, DiscardContent(p) PROVE LoadableInv'
  <2>1. /\ pc'[p] = "extract" /\ pc[p] = "extract" /\ image[p] \in Images
        /\ image'[p] = image[p] /\ UNCHANGED <<blobs, snapshots>>
    BY <1>1, <1>18 DEF DiscardContent, GoTo, At, ControlOK
  <2>2. BlobsStored(image[p]) /\ SnapshotsStored(image[p])
    BY <1>2, <2>1 DEF Progress, BlobsProgress, SnapshotsProgress, PastStore, PastSnapshots
  <2>3. Progress(p)'
    BY <2>1, <2>2 DEF Progress, BlobsProgress, SnapshotsProgress, MarksProgress,
       BlobsStored, SnapshotsStored
  <2> QED
    BY <1>3, <1>5, <1>18, <2>3 DEF LoadableInv, DiscardContent
<1>19. ASSUME NEW p \in Pulls, CreateFile(p) PROVE LoadableInv'
  <2>1. /\ pc'[p] = "write" /\ pc[p] = "extract" /\ image[p] \in Images
        /\ image'[p] = image[p] /\ UNCHANGED <<blobs, snapshots>>
    BY <1>1, <1>19 DEF CreateFile, GoTo, At, ControlOK
  <2>2. BlobsStored(image[p]) /\ SnapshotsStored(image[p])
    BY <1>2, <2>1 DEF Progress, BlobsProgress, SnapshotsProgress, PastStore, PastSnapshots
  <2>3. Progress(p)'
    BY <2>1, <2>2 DEF Progress, BlobsProgress, SnapshotsProgress, MarksProgress,
       BlobsStored, SnapshotsStored
  <2> QED
    BY <1>3, <1>5, <1>19, <2>3 DEF LoadableInv, CreateFile
<1>20. ASSUME NEW p \in Pulls, WriteFile(p) PROVE LoadableInv'
  <2>1. /\ pc'[p] = "extract" /\ pc[p] = "write" /\ image[p] \in Images
        /\ image'[p] = image[p] /\ UNCHANGED <<blobs, snapshots>>
    BY <1>1, <1>20 DEF WriteFile, GoTo, At, ControlOK
  <2>2. BlobsStored(image[p]) /\ SnapshotsStored(image[p])
    BY <1>2, <2>1 DEF Progress, BlobsProgress, SnapshotsProgress, PastStore, PastSnapshots
  <2>3. Progress(p)'
    BY <2>1, <2>2 DEF Progress, BlobsProgress, SnapshotsProgress, MarksProgress,
       BlobsStored, SnapshotsStored
  <2> QED
    BY <1>3, <1>5, <1>20, <2>3 DEF LoadableInv, WriteFile
<1>21. ASSUME NEW p \in Pulls, ExtractFails(p) PROVE LoadableInv'
  <2>1. \E b \in {"deferred", "blocked"} : GoTo(p, b, 1)
    BY <1>21 DEF ExtractFails, SecondSignal
  <2> QED
    BY <1>4, <1>5, <1>21, <2>1 DEF LoadableInv, ExtractFails, PastStore
<1>22. ASSUME NEW p \in Pulls, AllExtracted(p) PROVE LoadableInv'
  <2>1. /\ pc'[p] = "mark" /\ idx'[p] = 1 /\ pc[p] = "extract" /\ image[p] \in Images
        /\ image'[p] = image[p] /\ UNCHANGED <<blobs, snapshots>>
    BY <1>1, <1>22 DEF AllExtracted, GoTo, At, ControlOK
  <2>2. BlobsStored(image[p]) /\ SnapshotsStored(image[p])
    BY <1>2, <2>1 DEF Progress, BlobsProgress, SnapshotsProgress, PastStore, PastSnapshots
  <2>3. \A n \in Stacks(image[p]) : ~(n < 1)
    BY <2>1, ImagesAssumption DEF Stacks
  <2>4. Progress(p)'
    BY <2>1, <2>2, <2>3 DEF Progress, BlobsProgress, SnapshotsProgress, MarksProgress,
       BlobsStored, SnapshotsStored
  <2> QED
    BY <1>3, <1>5, <1>22, <2>4 DEF LoadableInv, AllExtracted
<1>23. ASSUME NEW p \in Pulls, MarkLayer(p) PROVE LoadableInv'
  <2>1. CASE SecondSignal(p, "error")
    <3>1. \E b \in {"deferred", "blocked"} : GoTo(p, b, 1)
      BY <2>1 DEF SecondSignal
    <3> QED
      BY <1>4, <1>5, <1>23, <3>1 DEF LoadableInv, MarkLayer, PastStore
  <2>2. ASSUME NextLayer(p, "mark", "label"), LayersOf[image[p]][idx[p]] \in completedJson'
        PROVE  LoadableInv'
    <3>1. /\ pc[p] = "mark" /\ idx[p] \in Stacks(image[p]) /\ image[p] \in Images
          /\ image'[p] = image[p] /\ UNCHANGED <<blobs, snapshots>>
      BY <1>1, <1>23 DEF MarkLayer, At, ControlOK, Indexed
    <3>2. BlobsStored(image[p]) /\ SnapshotsStored(image[p])
      BY <1>2, <3>1 DEF Progress, BlobsProgress, SnapshotsProgress, PastStore, PastSnapshots
    <3>3. \A n \in Stacks(image[p]) : n < idx[p] => LayersOf[image[p]][n] \in completedJson'
      BY <1>1, <1>2, <3>1 DEF Progress, MarksProgress, StoresGrow
    <3>4. \A n \in Stacks(image[p]) : n <= idx[p] => LayersOf[image[p]][n] \in completedJson'
      BY <2>2, <3>1, <3>3 DEF Stacks
    <3>5. CASE idx[p] < Len(LayersOf[image[p]])
      <4>1. GoTo(p, "mark", idx[p] + 1)
        BY <2>2, <3>5 DEF NextLayer
      <4>2. pc'[p] = "mark" /\ idx'[p] = idx[p] + 1 /\ idx[p] \in Nat
        BY <1>1, <4>1 DEF GoTo, ControlOK
      <4>3. \A n \in Stacks(image[p]) : n < idx'[p] => LayersOf[image[p]][n] \in completedJson'
        BY <3>4, <4>2 DEF Stacks
      <4>4. Progress(p)'
        BY <3>1, <3>2, <4>2, <4>3 DEF Progress, BlobsProgress, SnapshotsProgress, MarksProgress,
           BlobsStored, SnapshotsStored
      <4> QED
        BY <1>3, <1>5, <1>23, <4>1, <4>4 DEF LoadableInv, MarkLayer
    <3>6. CASE ~(idx[p] < Len(LayersOf[image[p]]))
      <4>1. GoTo(p, "label", 1)
        BY <2>2, <3>6 DEF NextLayer
      <4>2. pc'[p] = "label"
        BY <1>1, <4>1 DEF GoTo, ControlOK
      <4>3. LayerSet(image[p]) \subseteq completedJson'
        <5>1. \A n \in Stacks(image[p]) : n <= idx[p]
          BY <3>1, <3>6, TopLayer
        <5> QED
          BY <3>4, <5>1 DEF LayerSet
      <4>4. Progress(p)'
        BY <3>1, <3>2, <4>2, <4>3 DEF Progress, BlobsProgress, SnapshotsProgress, MarksProgress,
           BlobsStored, SnapshotsStored
      <4> QED
        BY <1>3, <1>5, <1>23, <4>1, <4>4 DEF LoadableInv, MarkLayer
    <3> QED
      BY <3>5, <3>6
  <2> QED
    BY <1>23, <2>1, <2>2 DEF MarkLayer
<1>24. ASSUME NEW p \in Pulls, LabelImage(p) PROVE LoadableInv'
  <2>1. \E b \in {"manifest", "deferred"} : GoTo(p, b, 1)
    BY <1>24 DEF LabelImage
  <2>2. \A q \in Pulls : Progress(q)'
    BY <1>4, <1>24, <2>1 DEF LabelImage, PastStore
  <2>3. /\ pc[p] = "label" /\ image[p] \in Images
        /\ UNCHANGED <<blobs, snapshots, completedJson>>
    BY <1>1, <1>24 DEF LabelImage, At, ControlOK
  <2>4. /\ BlobsStored(image[p]) /\ SnapshotsStored(image[p])
        /\ LayerSet(image[p]) \subseteq completedJson
    BY <1>2, <2>3 DEF Progress, BlobsProgress, SnapshotsProgress, MarksProgress, PastStore, PastSnapshots
  <2>5. \A i \in Images \ {image[p]} : imageStore'[i] = imageStore[i]
    BY <1>1, <1>24 DEF LabelImage, DataOK
  <2>6. CompleteImageLoadable'
    BY <1>2, <2>3, <2>4, <2>5 DEF CompleteImageLoadable, BlobsStored, SnapshotsStored
  <2> QED
    BY <2>2, <2>6 DEF LoadableInv
<1>25. ASSUME NEW p \in Pulls, UpdateManifest(p) PROVE LoadableInv'
  <2>1. \E b \in {"deferred", "blocked"} : GoTo(p, b, 1)
    BY <1>25 DEF UpdateManifest, SecondSignal
  <2> QED
    BY <1>4, <1>5, <1>25, <2>1 DEF LoadableInv, UpdateManifest, PastStore
<1>26. ASSUME NEW p \in Pulls, Deferred(p) PROVE LoadableInv'
  BY <1>4, <1>5, <1>26 DEF LoadableInv, Deferred, PastStore
<1>27. ASSUME NEW i \in MountedImages, MountContainer(i) PROVE LoadableInv'
  <2>1. \A q \in Pulls : Progress(q)'
    BY <1>1, <1>2, <1>27, ProgressKept DEF MountContainer
  <2> QED
    BY <1>5, <1>27, <2>1 DEF LoadableInv, MountContainer
<1>28. CASE Crash
  <2>1. \A q \in Pulls : Progress(q)'
    BY <1>1, <1>2, <1>28, ProgressKept DEF Crash
  <2> QED
    BY <1>5, <1>28, <2>1 DEF LoadableInv, Crash
<1>29. CASE Restart
  <2>1. \A q \in Pulls : pc'[q] \in {"idle", "done"}
    BY <1>29 DEF Restart
  <2>2. \A q \in Pulls : Progress(q)'
    BY <2>1, ProgressFree DEF PastStore
  <2> QED
    BY <1>5, <1>29, <2>2 DEF LoadableInv, Restart
<1>30. CASE Idle \/ UNCHANGED vars
  <2>1. \A q \in Pulls : Progress(q)'
    BY <1>1, <1>2, <1>30, ProgressKept DEF Idle, vars
  <2> QED
    BY <1>5, <1>30, <2>1 DEF LoadableInv, Idle, vars
<1> QED
  BY <1>6, <1>7, <1>8, <1>9, <1>10, <1>11, <1>12, <1>13, <1>14, <1>15, <1>16, <1>17, <1>18, <1>19,
     <1>20, <1>21, <1>22, <1>23, <1>24, <1>25, <1>26, <1>27, <1>28, <1>29, <1>30
     DEF Next, Advance

\* An image labelled complete can be loaded and mounted, however pulls of it and of
\* other images interleave, fail and are cut off by crashes.
THEOREM CompleteLoadable == Spec => []CompleteImageLoadable
<1>1. Spec => []TypeInv
  BY TypeInit, TypeStep, PTL DEF Spec
<1>2. TypeInv /\ TypeInv' /\ LoadableInv /\ [Next]_vars => LoadableInv'
  BY LoadableStep
<1>3. LoadableInv => CompleteImageLoadable
  BY DEF LoadableInv
<1> QED
  BY <1>1, <1>2, <1>3, LoadableInit, PTL DEF Spec

-----------------------------------------------------------------------------
(* The layer map speaks of layers that have a directory.                   *)

\* A pull moves: the others keep what they rely on, it needs its own.
LEMMA BackedMove ==
  ASSUME NEW p \in Pulls, NEW b, NEW n, ControlOK, \A q \in Pulls : Backed(q),
         GoTo(p, b, n), image' = image, \A q \in Pulls \ {p} : found'[q] = found[q],
         directories \subseteq directories',
         b = "load" => LayerSet(found'[p]) \subseteq directories',
         b \in PastPrepare => LayerSet(image[p]) \subseteq directories',
         b = "prepare" => \A m \in Stacks(image[p]) : m < n => LayersOf[image[p]][m] \in directories'
  PROVE  \A q \in Pulls : Backed(q)'
<1>1. \A q \in Pulls \ {p} : pc'[q] = pc[q] /\ idx'[q] = idx[q]
  BY DEF GoTo, ControlOK
<1>2. \A q \in Pulls \ {p} : Backed(q)'
  BY <1>1 DEF Backed
<1>3. pc'[p] = b /\ idx'[p] = n
  BY DEF GoTo, ControlOK
<1>4. Backed(p)'
  BY <1>3 DEF Backed, PastPrepare
<1> QED
  BY <1>2, <1>4

\* Loading an image whose layers have directories keeps the layer map backed.
LEMMA LoadImageBacked ==
  ASSUME NEW i \in Images, LoadImage(i), LayerSet(i) \subseteq directories,
         \A l \in Layers : LayerFound(l) => l \in directories
  PROVE  \A l \in Layers : LayerFound(l)' => l \in directories
<1>1. CASE managerMap[i] # None
  BY <1>1 DEF LoadImage, LayerFound
<1>2. CASE managerMap[i] = None
  <2>1. \A l \in Layers : l \notin LayerSet(i) => layerMap'[l] = layerMap[l]
    BY <1>2 DEF LoadImage
  <2> QED
    BY <2>1 DEF LayerFound
<1> QED
  BY <1>1, <1>2

\* Starting a container enters no layer in the layer map: it may give the layers there
\* a manager, but loads no image with a layer the daemon does not have.
EntersNothing == \A l \in Layers : LayerFound(l)' => LayerFound(l)
MountsQuietly == (\E i \in MountedImages : MountContainer(i)) => EntersNothing

LEMMA BackedInit == Init => BackedInv
BY DEF Init, BackedInv, Backed, PastPrepare, LayerMapBacked, LayerFound

LEMMA BackedStep ==
  ASSUME TypeInv, LoadableInv, BackedInv, [Next]_vars, [MountsQuietly]_vars
  PROVE  BackedInv'
<1> USE DEF containerdVars, diskVars, memoryVars, worldVars, requestVars, pullVars
<1>1. ControlOK /\ DataOK /\ CompleteImageLoadable /\ completedJson \subseteq directories
  BY DEF TypeInv, TypeOK, ControlOK, DataOK, LoadableInv, BackedInv
<1>2. ASSUME daemon = "up"
      PROVE  (\A q \in Pulls : Backed(q)) /\ (\A l \in Layers : LayerFound(l) => l \in directories)
  BY <1>2 DEF BackedInv, LayerMapBacked
<1>3. ASSUME NEW p \in Pulls, NEW b, NEW n, daemon = "up", GoTo(p, b, n),
             UNCHANGED <<image, found, layerMap, completedJson>>, directories \subseteq directories',
             b # "load",
             b \in PastPrepare => LayerSet(image[p]) \subseteq directories',
             b = "prepare" => \A m \in Stacks(image[p]) : m < n => LayersOf[image[p]][m] \in directories'
      PROVE  BackedInv'
  <2>1. \A q \in Pulls : Backed(q)'
    BY <1>1, <1>2, <1>3, BackedMove
  <2> QED
    BY <1>1, <1>2, <1>3, <2>1 DEF BackedInv, LayerMapBacked, LayerFound
<1>4. ASSUME NEW p \in Pulls, NEW i \in Images, NEW e \in EarlyStart, Request(p, i, e)
      PROVE  BackedInv'
  <2>1. \A q \in Pulls : Backed(q)'
    <3>1. \A q \in Pulls \ {p} : 
            /\ pc'[q] = pc[q] /\ idx'[q] = idx[q]
            /\ image'[q] = image[q] /\ found'[q] = found[q]
      BY <1>1, <1>4 DEF Request, GoTo, ControlOK, DataOK
    <3>2. pc'[p] = "find"
      BY <1>1, <1>4 DEF Request, GoTo, ControlOK
    <3> QED
      BY <1>2, <1>4, <3>1, <3>2 DEF Backed, PastPrepare, Request, At
  <2> QED
    BY <1>1, <1>2, <1>4, <2>1 DEF BackedInv, LayerMapBacked, LayerFound, Request, At
<1>5. ASSUME NEW p \in Pulls, FindImage(p) PROVE BackedInv'
  <2>1. daemon = "up" /\ UNCHANGED <<image, layerMap, completedJson, directories, daemon>>
    BY <1>5 DEF FindImage, At
  <2>2. ASSUME NEW j \in Matching(image[p]), found' = [found EXCEPT ![p] = j],
               GoTo(p, IF imageStore[j] = "complete" THEN "load" ELSE "delete", 1)
        PROVE  BackedInv'
    <3>1. j \in Images
      BY <1>1, <2>2, ImagesAssumption DEF Matching, ControlOK
    <3>2. imageStore[j] = "complete" => LayerSet(j) \subseteq directories
      BY <1>1, <3>1 DEF CompleteImageLoadable
    <3>3. /\ found'[p] = j
          /\ \A q \in Pulls \ {p} : found'[q] = found[q]
      BY <1>1, <2>2 DEF DataOK
    <3>4. \A q \in Pulls : Backed(q)
      BY <1>2, <2>1
    <3>5. PICK b : /\ GoTo(p, b, 1)
                   /\ b \in {"load", "delete"}
                   /\ b = "load" => LayerSet(found'[p]) \subseteq directories
      BY <2>2, <3>2, <3>3
    <3>6. \A q \in Pulls : Backed(q)'
      BY <1>1, <2>1, <3>3, <3>4, <3>5, BackedMove DEF PastPrepare
    <3> QED
      BY <1>1, <1>2, <2>1, <3>6 DEF BackedInv, LayerMapBacked, LayerFound
  <2>3. ASSUME NEW b \in {"request", "done"}, GoTo(p, b, 1), UNCHANGED found PROVE BackedInv'
    BY <1>3, <2>1, <2>3 DEF PastPrepare
  <2> QED
    BY <1>5, <2>2, <2>3 DEF FindImage, FailFirst
<1>6. ASSUME NEW p \in Pulls, LoadExisting(p) PROVE BackedInv'
  <2>1. daemon = "up" /\ found[p] \in Images /\ LayerSet(found[p]) \subseteq directories
    BY <1>1, <1>2, <1>6 DEF LoadExisting, At, Backed, DataOK
  <2>2. \A l \in Layers : LayerFound(l)' => l \in directories
    BY <1>2, <1>6, <2>1, LoadImageBacked DEF LoadExisting, LayerFound
  <2>3. \A q \in Pulls : Backed(q)'
    BY <1>1, <1>2, <1>6, <2>1, BackedMove DEF LoadExisting, PastPrepare
  <2> QED
    BY <1>1, <1>6, <2>2, <2>3 DEF BackedInv, LayerMapBacked, LoadExisting
<1>7. ASSUME NEW p \in Pulls,
             DeleteIncomplete(p) \/ DeltaImage(p) \/ LockManagerMap(p) \/ StoreBlob(p)
      PROVE  BackedInv'
  <2>1. \E b \in {"request", "done", "lock", "store", "deferred"}, n \in Nat : GoTo(p, b, n)
    BY <1>1, <1>7 DEF DeleteIncomplete, DeltaImage, LockManagerMap, StoreBlob, FailFirst, ControlOK
  <2>2. daemon = "up" /\ UNCHANGED <<image, found, layerMap, completedJson, directories>>
    BY <1>7 DEF DeleteIncomplete, DeltaImage, LockManagerMap, StoreBlob, At
  <2> QED
    BY <1>3, <2>1, <2>2 DEF PastPrepare
<1>8. ASSUME NEW p \in Pulls, CreateImage(p) PROVE BackedInv'
  <2>1. \E b \in {"prepare", "deferred"} : GoTo(p, b, 1)
    BY <1>8 DEF CreateImage, FailFirst
  <2>2. \A m \in Stacks(image[p]) : ~(m < 1)
    BY <1>1, ImagesAssumption DEF Stacks, ControlOK
  <2> QED
    BY <1>3, <1>8, <2>1, <2>2 DEF CreateImage, At, PastPrepare
<1>9. ASSUME NEW p \in Pulls, PrepareDirectory(p) PROVE BackedInv'
  <2>1. /\ daemon = "up" /\ pc[p] = "prepare" /\ idx[p] \in Stacks(image[p]) /\ image[p] \in Images
        /\ directories \subseteq directories' /\ UNCHANGED <<image, found, layerMap, completedJson>>
    BY <1>1, <1>9 DEF PrepareDirectory, At, ControlOK, Indexed
  <2>2. CASE GoTo(p, "deferred", 1)
    BY <1>3, <2>1, <2>2 DEF PastPrepare
  <2>3. CASE NextLayer(p, "prepare", "claim") /\ LayersOf[image[p]][idx[p]] \in directories'
    <3>1. \A m \in Stacks(image[p]) : m <= idx[p] => LayersOf[image[p]][m] \in directories'
      BY <1>2, <2>1, <2>3 DEF Backed, Stacks
    <3>2. CASE idx[p] < Len(LayersOf[image[p]])
      <4>1. GoTo(p, "prepare", idx[p] + 1)
        BY <2>3, <3>2 DEF NextLayer
      <4>2. \A m \in Stacks(image[p]) : m < idx[p] + 1 => LayersOf[image[p]][m] \in directories'
        BY <2>1, <3>1 DEF Stacks
      <4> QED
        BY <1>3, <2>1, <4>1, <4>2 DEF PastPrepare
    <3>3. CASE ~(idx[p] < Len(LayersOf[image[p]]))
      <4>1. GoTo(p, "claim", 1)
        BY <2>3, <3>3 DEF NextLayer
      <4>2. LayerSet(image[p]) \subseteq directories'
        <5>1. \A n \in Stacks(image[p]) : n <= idx[p]
          BY <2>1, <3>3, TopLayer
        <5> QED
          BY <3>1, <5>1 DEF LayerSet
      <4> QED
        BY <1>3, <2>1, <4>1, <4>2
    <3> QED
      BY <3>2, <3>3
  <2>4. LayersOf[image[p]][idx[p]] \in Layers
    BY <2>1, LayerOfImage
  <2> QED
    BY <1>2, <1>9, <2>1, <2>2, <2>3, <2>4 DEF PrepareDirectory, FailFirst
<1>10. ASSUME NEW p \in Pulls, pc[p] \in PastPrepare, daemon = "up"
       PROVE  LayerSet(image[p]) \subseteq directories
  BY <1>2, <1>10 DEF Backed
<1>11. ASSUME NEW p \in Pulls, ClaimLayer(p) PROVE BackedInv'
  <2>1. /\ daemon = "up" /\ pc[p] = "claim" /\ idx[p] \in Stacks(image[p]) /\ image[p] \in Images
    BY <1>1, <1>11 DEF ClaimLayer, At, ControlOK, Indexed
  <2>2. LayerSet(image[p]) \subseteq directories /\ LayersOf[image[p]][idx[p]] \in LayerSet(image[p])
    BY <1>10, <2>1 DEF PastPrepare, LayerSet
  <2>3. \A l \in Layers : LayerFound(l)' => l \in directories
    BY <1>1, <1>2, <1>11, <2>1, <2>2 DEF ClaimLayer, LayerFound, DataOK
  <2>4. \A q \in Pulls : Backed(q)'
    BY <1>1, <1>2, <1>11, <2>1, <2>2, BackedMove DEF ClaimLayer
  <2> QED
    BY <1>1, <1>11, <2>3, <2>4 DEF BackedInv, LayerMapBacked, ClaimLayer
<1>12. ASSUME NEW p \in Pulls, AddSnapshot(p) PROVE BackedInv'
  <2>1. /\ daemon = "up" /\ pc[p] \in {"snapshot", "create", "commit"} /\ idx[p] \in Stacks(image[p]) /\ image[p] \in Images
        /\ UNCHANGED <<image, found, completedJson, directories, daemon>>
    BY <1>1, <1>12 DEF AddSnapshot, StatSnapshot, PrepareSnapshot, CommitSnapshot, At, ControlOK, Indexed
  <2>2. LayerSet(image[p]) \subseteq directories
    BY <1>10, <2>1 DEF PastPrepare
  <2>3. LoadImage(image[p]) \/ UNCHANGED memoryVars
    BY <1>12 DEF AddSnapshot, StatSnapshot, PrepareSnapshot, CommitSnapshot
  <2>4. \A l \in Layers : LayerFound(l)' => l \in directories
    BY <1>2, <2>1, <2>2, <2>3, LoadImageBacked DEF LayerFound
  <2>5. \E b \in {"deferred", "create", "commit", "claim", "announce"}, n \in Nat : GoTo(p, b, n)
    BY <1>1, <1>12 DEF AddSnapshot, StatSnapshot, PrepareSnapshot, CommitSnapshot, FailFirst, NextLayer, ControlOK
  <2>6. \A q \in Pulls : Backed(q)'
    BY <1>1, <1>2, <2>1, <2>2, <2>5, BackedMove
  <2> QED
    BY <1>1, <2>1, <2>4, <2>6 DEF BackedInv, LayerMapBacked
<1>13. ASSUME NEW p \in Pulls,
              Announce(p) \/ DiscardContent(p) \/ CreateFile(p) \/ WriteFile(p) \/ AllExtracted(p)
       PROVE  BackedInv'
  <2>1. /\ daemon = "up" /\ pc[p] \in PastPrepare
        /\ UNCHANGED <<image, found, layerMap, completedJson>> /\ directories \subseteq directories'
    BY <1>13 DEF Announce, DiscardContent, CreateFile, WriteFile, AllExtracted, At, PastPrepare
  <2>2. \E b \in PastPrepare, n \in Nat : GoTo(p, b, n)
    BY <1>1, <1>13 DEF Announce, DiscardContent, CreateFile, WriteFile, AllExtracted, PastPrepare, ControlOK
  <2>3. LayerSet(image[p]) \subseteq directories'
    BY <1>10, <2>1
  <2> QED
    BY <1>3, <2>1, <2>2, <2>3 DEF PastPrepare
<1>14. ASSUME NEW p \in Pulls,
              ExtractFails(p) \/ LabelImage(p) \/ UpdateManifest(p) \/ Deferred(p)
       PROVE  BackedInv'
  <2>1. \E b \in {"deferred", "blocked", "manifest", "done"} : GoTo(p, b, 1)
    BY <1>14 DEF ExtractFails, LabelImage, UpdateManifest, Deferred, SecondSignal
  <2>2. daemon = "up" /\ UNCHANGED <<image, found, layerMap, completedJson, directories>>
    BY <1>14 DEF ExtractFails, LabelImage, UpdateManifest, Deferred, At
  <2> QED
    BY <1>3, <2>1, <2>2 DEF PastPrepare
<1>15. ASSUME NEW p \in Pulls, MarkLayer(p) PROVE BackedInv'
  <2>1. /\ daemon = "up" /\ pc[p] = "mark" /\ completedJson' \subseteq directories
        /\ UNCHANGED <<image, found, layerMap, directories, daemon>>
    BY <1>1, <1>15 DEF MarkLayer, At
  <2>2. \E b \in {"deferred", "blocked", "mark", "label"}, n \in Nat : GoTo(p, b, n)
    BY <1>1, <1>15 DEF MarkLayer, SecondSignal, NextLayer, ControlOK
  <2>3. LayerSet(image[p]) \subseteq directories
    BY <1>10, <2>1 DEF PastPrepare
  <2>4. \A q \in Pulls : Backed(q)'
    BY <1>1, <1>2, <2>1, <2>2, <2>3, BackedMove
  <2> QED
    BY <1>2, <2>1, <2>4 DEF BackedInv, LayerMapBacked, LayerFound
<1>16. CASE Crash
  BY <1>1, <1>16 DEF Crash, BackedInv, LayerMapBacked
<1>17. CASE Restart
  <2>1. \A q \in Pulls : pc'[q] \in {"idle", "done"}
    BY <1>17 DEF Restart, ScannedLayers
  <2>2. \A q \in Pulls : Backed(q)'
    BY <2>1 DEF Backed, PastPrepare
  <2>3. \A l \in Layers : LayerFound(l)' => l \in directories'
    BY <1>17 DEF Restart, ScannedLayers, LayerFound
  <2>4. completedJson' \subseteq directories'
    BY <1>1, <1>17 DEF Restart, ScannedLayers
  <2> QED
    BY <2>2, <2>3, <2>4 DEF BackedInv, LayerMapBacked
<1>18. CASE Idle \/ UNCHANGED vars
  BY <1>18 DEF Idle, vars, BackedInv, Backed, LayerMapBacked, LayerFound
<1>19. ASSUME NEW i \in MountedImages, MountContainer(i) PROVE BackedInv'
  <2>1. EntersNothing
    BY <1>19 DEF MountsQuietly, EntersNothing, vars, LayerFound
  <2>2. daemon = "up" /\ UNCHANGED <<diskVars, worldVars, pullVars>>
    BY <1>19 DEF MountContainer
  <2>3. \A q \in Pulls : Backed(q)'
    BY <1>2, <2>2 DEF Backed
  <2> QED
    BY <1>1, <1>2, <2>1, <2>2, <2>3 DEF BackedInv, LayerMapBacked, EntersNothing
<1> QED
  BY <1>4, <1>5, <1>6, <1>7, <1>8, <1>9, <1>11, <1>12, <1>13, <1>14, <1>15, <1>16, <1>17, <1>18, <1>19
     DEF Next, Advance

\* As long as no container start loads an image with layers the daemon does not have,
\* PrepareDirectories is right to take a layer of the layer map for one whose directory
\* exists, however pulls interleave, fail and are cut off.
THEOREM LayerMapIsBacked == Spec /\ [][MountsQuietly]_vars => []LayerMapBacked
<1>1. Spec => []TypeInv
  BY TypeInit, TypeStep, PTL DEF Spec
<1>2. TypeInv /\ TypeInv' /\ LoadableInv /\ [Next]_vars => LoadableInv'
  BY LoadableStep
<1>3. TypeInv /\ LoadableInv /\ BackedInv /\ [Next]_vars /\ [MountsQuietly]_vars => BackedInv'
  BY BackedStep
<1>4. BackedInv => LayerMapBacked
  BY DEF BackedInv
<1> QED
  BY <1>1, <1>2, <1>3, <1>4, LoadableInit, BackedInit, PTL DEF Spec

-----------------------------------------------------------------------------
(* The mutex of the manager map.                                           *)

\* A running pull that goes on without touching the map or the mutex keeps the
\* invariant, unless it comes to hold a mutex it did not hold.
LEMMA LockMove ==
  ASSUME NEW p \in Pulls, NEW b \in PCs, NEW n, ControlOK, LockState, GoTo(p, b, n),
         UNCHANGED <<image, managerMap, managerMapLocked>>, pc[p] \in Running,
         b = "store" => pc[p] = "store",
         b \in Registered => pc[p] \in Registered,
         b = "deferred" => Holds(p) \/ managerMap[image[p]] # None
  PROVE  LockState'
<1>1. \A q \in Pulls : pc'[q] = IF q = p THEN b ELSE pc[q]
  BY DEF GoTo, ControlOK
<1>2. \A q \in Pulls : Holds(q)' => Holds(q)
  BY <1>1 DEF Holds
<1>3. OnePerImage'
  BY <1>1 DEF LockState, OnePerImage
<1> QED
  BY <1>1, <1>2, <1>3 DEF LockState

\* A manager is loaded while the mutex is free: no pull holds it, and the map only
\* gains an entry.
LEMMA LockLoad ==
  ASSUME NEW p \in Pulls, NEW b \in PCs, NEW n, NEW i \in Images, TypeInv, LockState,
         GoTo(p, b, n), image' = image, LoadImage(i), pc[p] \in Running,
         b \notin {"store", "deferred"}, b \in Registered => pc[p] \in Registered
  PROVE  LockState'
<1>1. ControlOK /\ DataOK
  BY TypeParts
<1>2. \A q \in Pulls : pc'[q] = IF q = p THEN b ELSE pc[q]
  BY <1>1 DEF GoTo, ControlOK
<1>3. ~managerMapLocked /\ \A j \in Images : managerMap[j] # None => managerMap'[j] # None
  BY <1>1, NamesAssumption DEF LoadImage, DataOK
<1>4. \A q \in Pulls : ~Holds(q)'
  BY <1>1, <1>2, <1>3 DEF Holds, LockState, ControlOK
<1>5. OnePerImage'
  BY <1>2 DEF LockState, OnePerImage
<1> QED
  BY <1>1, <1>2, <1>3, <1>4, <1>5 DEF LockState, ControlOK

LEMMA LockInit == Init => LockInv /\ NoFatalUnlock
BY DEF Init, LockInv, LockState, OnePerImage, Running, Holds, Registered, NoFatalUnlock

LEMMA LockStep ==
  ASSUME TypeInv, TypeInv', LockInv, NoFatalUnlock, SameImage = FALSE, [Next]_vars
  PROVE  LockInv' /\ NoFatalUnlock'
<1>1. ControlOK /\ DataOK
  BY TypeParts
<1>2. (daemon = "up" => LockState) /\ (LockInv' <=> (daemon' = "up" => LockState'))
  BY DEF LockInv
<1>3. ASSUME NEW p \in Pulls, NEW b \in PCs, NEW n, daemon = "up", daemon' = daemon, GoTo(p, b, n),
             UNCHANGED <<image, managerMap, managerMapLocked>>, pc[p] \in Running,
             b = "store" => pc[p] = "store",
             b \in Registered => pc[p] \in Registered,
             b = "deferred" => Holds(p) \/ managerMap[image[p]] # None
      PROVE  LockInv' /\ NoFatalUnlock'
  BY <1>1, <1>2, <1>3, LockMove DEF NoFatalUnlock
<1>4. ASSUME NEW p \in Pulls, NEW i \in Images, NEW e \in EarlyStart, Request(p, i, e)
      PROVE  LockInv' /\ NoFatalUnlock'
  <2>1. /\ daemon = "up" /\ daemon' = daemon
        /\ \A q \in Pulls : pc'[q] = IF q = p THEN "find" ELSE pc[q]
        /\ \A q \in Pulls : image'[q] = IF q = p THEN i ELSE image[q]
        /\ UNCHANGED <<managerMap, managerMapLocked>>
    BY <1>1, <1>4 DEF Request, GoTo, At, ControlOK, memoryVars, worldVars
  <2>6. \A q \in Pulls : pc[q] \in Running => image[q] # i
    <3>1. \A q \in InFlight : image[q] # i
      BY <1>4, SameImage = FALSE, Zenon DEF Request
    <3> QED
      BY <3>1 DEF InFlight, Running
  <2>2. LockState
    BY <1>2, <2>1
  <2>3. OnePerImage'
    BY <2>1, <2>2, <2>6 DEF LockState, OnePerImage
  <2>4. \A q \in Pulls : Holds(q)' => Holds(q)
    BY <2>1 DEF Holds
  <2>5. LockState'
    BY <2>1, <2>2, <2>3, <2>4 DEF LockState, Registered
  <2> QED
    BY <1>2, <2>1, <2>5 DEF NoFatalUnlock
<1>5. ASSUME NEW p \in Pulls, FindImage(p) \/ DeltaImage(p) PROVE LockInv' /\ NoFatalUnlock'
  <2>1. \E b \in {"request", "delete", "load", "lock", "done"} : GoTo(p, b, 1)
    BY <1>1, <1>5 DEF FindImage, DeltaImage, FailFirst, DataOK, ControlOK
  <2>2. /\ daemon = "up" /\ pc[p] \in Running
        /\ UNCHANGED <<image, managerMap, managerMapLocked, daemon>>
    BY <1>5 DEF FindImage, DeltaImage, At, Running, PCs, memoryVars, worldVars, requestVars
  <2> QED
    BY <1>3, <2>1, <2>2 DEF PCs, Registered
<1>6. ASSUME NEW p \in Pulls, LoadExisting(p) PROVE LockInv' /\ NoFatalUnlock'
  <2>1. /\ daemon = "up" /\ daemon' = daemon /\ pc[p] \in Running /\ GoTo(p, "done", 1)
        /\ image' = image /\ found[p] \in Images /\ "done" \in PCs
        /\ LoadImage(found[p]) \/ UNCHANGED memoryVars
    BY <1>1, <1>6 DEF LoadExisting, At, Running, PCs, worldVars, requestVars, DataOK
  <2>2. CASE LoadImage(found[p])
    BY <1>2, <2>1, <2>2, LockLoad DEF Registered, NoFatalUnlock
  <2>3. CASE UNCHANGED memoryVars
    BY <1>3, <2>1, <2>3 DEF memoryVars, Registered
  <2> QED
    BY <2>1, <2>2, <2>3
<1>7. ASSUME NEW p \in Pulls, DeleteIncomplete(p) PROVE LockInv' /\ NoFatalUnlock'
  <2>1. \E b \in {"request", "done"} : GoTo(p, b, 1)
    BY <1>7 DEF DeleteIncomplete, FailFirst
  <2>2. /\ daemon = "up" /\ pc[p] \in Running
        /\ UNCHANGED <<image, managerMap, managerMapLocked, daemon>>
    BY <1>7 DEF DeleteIncomplete, At, Running, PCs, memoryVars, worldVars, requestVars
  <2> QED
    BY <1>3, <2>1, <2>2 DEF PCs, Registered
<1>8. ASSUME NEW p \in Pulls, LockManagerMap(p) PROVE LockInv' /\ NoFatalUnlock'
  <2>1. /\ daemon = "up" /\ daemon' = daemon /\ ~managerMapLocked /\ managerMapLocked'
        /\ pc[p] = "lock" /\ image' = image /\ image[p] \in Images
        /\ \A q \in Pulls : pc'[q] = IF q = p THEN "store" ELSE pc[q]
        /\ \A j \in Images : j # image[p] => managerMap'[j] = managerMap[j]
    BY <1>1, <1>8 DEF LockManagerMap, GoTo, At, ControlOK, DataOK, worldVars, requestVars
  <2>2. LockState
    BY <1>2, <2>1
  <2>3. \A q \in Pulls : pc[q] \in Running /\ image[q] = image[p] => q = p
    BY <2>1, <2>2 DEF LockState, OnePerImage, Running, PCs
  <2>4. \A q \in Pulls : Holds(q)' => q = p
    BY <1>1, <2>1, <2>2, <2>3 DEF Holds, LockState, Running, PCs, ControlOK
  <2>5. OnePerImage'
    BY <2>1, <2>2 DEF LockState, OnePerImage, Running, PCs
  <2>6. \A q \in Pulls : pc'[q] \in Registered => managerMap'[image'[q]] # None
    BY <1>1, <2>1, <2>2, <2>3 DEF LockState, Registered, Running, PCs, ControlOK
  <2>7. LockState'
    BY <2>1, <2>4, <2>5, <2>6 DEF LockState
  <2> QED
    BY <1>2, <2>1, <2>7 DEF NoFatalUnlock
<1>9. ASSUME NEW p \in Pulls, StoreBlob(p) PROVE LockInv' /\ NoFatalUnlock'
  <2>1. \E b \in {"store", "deferred"}, n \in Nat : GoTo(p, b, n)
    BY <1>1, <1>9 DEF StoreBlob, FailFirst, ControlOK
  <2>2. /\ daemon = "up" /\ pc[p] = "store" /\ Holds(p)
        /\ UNCHANGED <<image, managerMap, managerMapLocked, daemon>>
    BY <1>9 DEF StoreBlob, At, Holds, memoryVars, worldVars, requestVars
  <2> QED
    BY <1>3, <2>1, <2>2 DEF PCs, Registered, Running
<1>10. ASSUME NEW p \in Pulls, CreateImage(p) PROVE LockInv' /\ NoFatalUnlock'
  <2>1. daemon = "up" /\ pc[p] = "store" /\ Holds(p) /\ image' = image /\ image[p] \in Images
    BY <1>1, <1>10 DEF CreateImage, At, Holds, requestVars, ControlOK
  <2>2. LockState /\ managerMapLocked
    BY <1>2, <2>1 DEF LockState
  <2>3. CASE GoTo(p, "deferred", 1) /\ UNCHANGED <<managerMap, managerMapLocked, daemon>>
    BY <1>3, <2>1, <2>3 DEF PCs, Registered, Running
  <2>4. CASE GoTo(p, "prepare", 1) /\ managerMap' = [managerMap EXCEPT ![image[p]] = p] /\ Unlock
    <3>1. /\ daemon' = "up"
          /\ \A q \in Pulls : pc'[q] = IF q = p THEN "prepare" ELSE pc[q]
          /\ \A j \in Images : managerMap'[j] = IF j = image[p] THEN p ELSE managerMap[j]
      BY <1>1, <2>1, <2>2, <2>4 DEF Unlock, GoTo, ControlOK, DataOK
    <3>2. p # None
      BY NamesAssumption
    <3>3. \A q \in Pulls : q # p => ~Holds(q)
      BY <2>1, <2>2 DEF LockState
    <3>4. \A q \in Pulls : ~Holds(q)'
      BY <1>1, <2>1, <3>1, <3>2, <3>3 DEF Holds, ControlOK
    <3>5. OnePerImage'
      BY <2>1, <2>2, <3>1 DEF LockState, OnePerImage, Running, PCs
    <3>6. LockState'
      BY <1>1, <2>1, <2>2, <3>1, <3>2, <3>4, <3>5 DEF LockState, ControlOK
    <3> QED
      BY <1>2, <3>1, <3>6 DEF NoFatalUnlock
  <2> QED
    BY <1>10, <2>3, <2>4 DEF CreateImage, FailFirst
<1>11. ASSUME NEW p \in Pulls,
              PrepareDirectory(p) \/ ClaimLayer(p) \/ Announce(p) \/ DiscardContent(p) \/ CreateFile(p)
              \/ WriteFile(p) \/ AllExtracted(p) \/ LabelImage(p)
       PROVE  LockInv' /\ NoFatalUnlock'
  <2>1. /\ daemon = "up" /\ pc[p] \in Registered
        /\ UNCHANGED <<image, managerMap, managerMapLocked, daemon>>
    BY <1>11 DEF PrepareDirectory, ClaimLayer, Announce, DiscardContent, CreateFile, WriteFile,
                 AllExtracted, LabelImage, At, Registered, memoryVars, worldVars, requestVars
  <2>2. \E b \in Registered \cup {"deferred"}, n \in Nat : GoTo(p, b, n)
    BY <1>1, <1>11 DEF PrepareDirectory, ClaimLayer, Announce, DiscardContent, CreateFile, WriteFile,
                 AllExtracted, LabelImage, FailFirst, NextLayer, Registered, ControlOK
  <2>3. managerMap[image[p]] # None
    BY <1>2, <2>1 DEF LockState
  <2> QED
    BY <1>3, <2>1, <2>2, <2>3 DEF PCs, Registered, Running
<1>12. ASSUME NEW p \in Pulls, ExtractFails(p) \/ MarkLayer(p) \/ UpdateManifest(p)
       PROVE  LockInv' /\ NoFatalUnlock'
  <2>1. /\ daemon = "up" /\ pc[p] \in Registered
        /\ UNCHANGED <<image, managerMap, managerMapLocked, daemon>>
    BY <1>12 DEF ExtractFails, MarkLayer, UpdateManifest, At, Registered, memoryVars, worldVars, requestVars
  <2>2. \E b \in {"mark", "label", "deferred", "blocked"}, n \in Nat : GoTo(p, b, n)
    BY <1>1, <1>12 DEF ExtractFails, MarkLayer, UpdateManifest, SecondSignal, NextLayer, ControlOK
  <2>3. managerMap[image[p]] # None
    BY <1>2, <2>1 DEF LockState
  <2> QED
    BY <1>3, <2>1, <2>2, <2>3 DEF PCs, Registered, Running
<1>13. ASSUME NEW p \in Pulls, AddSnapshot(p) PROVE LockInv' /\ NoFatalUnlock'
  <2>1. /\ daemon = "up" /\ daemon' = daemon /\ pc[p] \in {"snapshot", "create", "commit"} /\ image' = image /\ image[p] \in Images
    BY <1>1, <1>13 DEF AddSnapshot, StatSnapshot, PrepareSnapshot, CommitSnapshot, At, worldVars, requestVars, ControlOK
  <2>2. managerMap[image[p]] # None
    BY <1>2, <2>1 DEF LockState, Registered
  <2>3. UNCHANGED <<managerMap, managerMapLocked>>
    BY <1>13, <2>2 DEF AddSnapshot, StatSnapshot, PrepareSnapshot, CommitSnapshot, LoadImage, memoryVars
  <2>4. \E b \in {"create", "commit", "claim", "announce", "deferred"}, n \in Nat : GoTo(p, b, n)
    BY <1>1, <1>13 DEF AddSnapshot, StatSnapshot, PrepareSnapshot, CommitSnapshot, FailFirst, NextLayer, ControlOK
  <2> QED
    BY <1>3, <2>1, <2>2, <2>3, <2>4 DEF PCs, Registered, Running
<1>14. ASSUME NEW p \in Pulls, Deferred(p) PROVE LockInv' /\ NoFatalUnlock'
  <2>1. /\ daemon = "up" /\ pc[p] = "deferred" /\ UNCHANGED <<image, managerMap>> /\ image[p] \in Images
        /\ GoTo(p, "done", 1)
    BY <1>1, <1>14 DEF Deferred, At, requestVars, ControlOK
  <2>2. LockState
    BY <1>2, <2>1
  <2>3. CASE managerMap[image[p]] # None
    BY <1>3, <1>14, <2>1, <2>3 DEF Deferred, PCs, Registered, Running
  <2>4. CASE managerMap[image[p]] = None
    <3>1. Holds(p) /\ managerMapLocked
      BY <2>1, <2>2, <2>4 DEF Holds, LockState
    <3>2. daemon' = "up" /\ ~managerMapLocked' /\ \A q \in Pulls : pc'[q] = IF q = p THEN "done" ELSE pc[q]
      BY <1>1, <1>14, <2>1, <2>4, <3>1 DEF Deferred, Unlock, GoTo, ControlOK
    <3>3. \A q \in Pulls : ~Holds(q)'
      BY <2>1, <2>2, <3>1, <3>2 DEF Holds, LockState
    <3>4. OnePerImage'
      BY <2>1, <2>2, <3>2 DEF LockState, OnePerImage, Running
    <3>5. LockState'
      BY <2>1, <2>2, <3>2, <3>3, <3>4 DEF LockState, Registered
    <3> QED
      BY <1>2, <3>2, <3>5 DEF NoFatalUnlock
  <2> QED
    BY <2>3, <2>4
<1>15. ASSUME NEW i \in MountedImages, MountContainer(i) PROVE LockInv' /\ NoFatalUnlock'
  <2>1. /\ daemon = "up" /\ UNCHANGED <<pc, image, daemon>>
        /\ \E m \in Images : LoadImage(m)
    BY <1>15 DEF MountContainer, worldVars, pullVars
  <2>2. ~managerMapLocked /\ \A j \in Images : managerMap[j] # None => managerMap'[j] # None
    BY <1>1, <2>1, NamesAssumption DEF LoadImage, DataOK
  <2>3. LockState
    BY <1>2, <2>1
  <2>4. \A q \in Pulls : ~Holds(q)'
    BY <1>1, <2>1, <2>2, <2>3 DEF Holds, LockState, ControlOK
  <2>5. OnePerImage'
    BY <2>1, <2>3 DEF LockState, OnePerImage
  <2>6. LockState'
    BY <1>1, <2>1, <2>2, <2>3, <2>4, <2>5 DEF LockState, ControlOK
  <2> QED
    BY <1>2, <2>1, <2>6 DEF NoFatalUnlock
<1>16. CASE Crash
  BY <1>16 DEF Crash, LockInv, NoFatalUnlock
<1>17. CASE Restart
  <2>1. daemon' = "up" /\ \A q \in Pulls : pc'[q] \in {"idle", "done"}
    BY <1>17 DEF Restart
  <2> QED
    BY <2>1 DEF LockInv, LockState, OnePerImage, Holds, Running, Registered, NoFatalUnlock
<1>18. CASE Idle \/ UNCHANGED vars
  BY <1>18 DEF Idle, vars, memoryVars, worldVars, pullVars, LockInv, LockState, OnePerImage, Holds, NoFatalUnlock
<1> QED
  BY <1>4, <1>5, <1>6, <1>7, <1>8, <1>9, <1>10, <1>11, <1>12, <1>13, <1>14, <1>15, <1>16, <1>17, <1>18
     DEF Next, Advance

\* As long as one image is not pulled twice at the same time, the deferred function of
\* PullImage, which infers from the map whether it still holds the mutex, is right:
\* the daemon never unlocks a mutex nobody holds.
THEOREM NeverFatalUnlock == SameImage = FALSE => (Spec => []NoFatalUnlock)
<1> SUFFICES ASSUME SameImage = FALSE PROVE Spec => []NoFatalUnlock
  OBVIOUS
<1>1. Spec => []TypeInv
  BY TypeInit, TypeStep, PTL DEF Spec
<1>2. TypeInv /\ TypeInv' /\ LockInv /\ NoFatalUnlock /\ [Next]_vars => LockInv' /\ NoFatalUnlock'
  BY LockStep
<1> QED
  BY <1>1, <1>2, LockInit, PTL DEF Spec

-----------------------------------------------------------------------------
(* The refinement: the pulls implement ImageLifecycle, as long as no image is *)
(* pulled twice at the same time and no reference begins with another one.    *)
(* Its invariant: what its caller was told so far, and what the image store   *)
(* holds of its image, follow from where a pull is.                          *)

Asked == {"find", "load", "delete", "request", "lock", "store", "prepare", "claim", "snapshot", "create", "commit",
          "announce"}
Receiving == {"extract", "write", "mark", "label", "manifest"}
Created == {"delete", "prepare", "claim", "snapshot", "create", "commit", "announce", "extract", "write", "mark",
            "label"}

Promise(p) ==
  /\ pc[p] \in Asked => reply[p] = "wait"
  /\ pc[p] \in Receiving => reply[p] = IF early[p] THEN "ok" ELSE "wait2"
  /\ pc[p] \in Created => imageStore[image[p]] = "created"
  /\ pc[p] = "load" => found[p] = image[p] /\ imageStore[image[p]] = "complete"
  /\ pc[p] = "manifest" => imageStore[image[p]] = "complete"

Unasked == \A p \in Pulls : pc[p] = "idle" => reply[p] = "none"

LifeInv ==
  /\ daemon = "up" => \A p \in Pulls : Promise(p)
  /\ Unasked

\* What the abstract state is made of.
callerVars == <<imageStore, image, early, reply>>

-----------------------------------------------------------------------------
(* Lemmas.                                                                  *)

\* A step of pull p that leaves the image of another pull alone keeps what holds of
\* the other pull.
LEMMA OthersPromised ==
  ASSUME NEW q \in Pulls, Promise(q), pc'[q] = pc[q], reply'[q] = reply[q],
         early'[q] = early[q], image'[q] = image[q], found'[q] = found[q],
         pc[q] \in Running => imageStore'[image[q]] = imageStore[image[q]]
  PROVE  Promise(q)'
BY DEF Promise, Asked, Receiving, Created, Running, PCs

\* A pull that goes on at b, answering r, keeps the invariant if it stores no image.
LEMMA LifeMove ==
  ASSUME NEW p \in Pulls, NEW b \in PCs \ {"idle"}, NEW n, TypeInv, LifeInv, daemon = "up",
         GoTo(p, b, n), UNCHANGED <<imageStore, image, early>>,
         \A q \in Pulls : q # p => reply'[q] = reply[q] /\ found'[q] = found[q],
         Promise(p)'
  PROVE  LifeInv'
<1>1. \A q \in Pulls : pc'[q] = IF q = p THEN b ELSE pc[q]
  BY DEF GoTo, TypeInv, TypeOK
<1>2. \A q \in Pulls : q # p => Promise(q)'
  BY <1>1, OthersPromised DEF LifeInv
<1>3. Unasked'
  BY <1>1 DEF LifeInv, Unasked
<1> QED
  BY <1>2, <1>3 DEF LifeInv

\* So does one that stores its image, which no other running pull has.
LEMMA LifeStore ==
  ASSUME NEW p \in Pulls, NEW b \in PCs \ {"idle"}, NEW n, NEW v, TypeInv, LifeInv, LockState,
         daemon = "up", GoTo(p, b, n), pc[p] \in Running,
         UNCHANGED <<image, early, found, reply>>,
         imageStore' = [imageStore EXCEPT ![image[p]] = v],
         Promise(p)'
  PROVE  LifeInv'
<1>1. \A q \in Pulls : pc'[q] = IF q = p THEN b ELSE pc[q]
  BY DEF GoTo, TypeInv, TypeOK
<1>2. \A q \in Pulls : q # p /\ pc[q] \in Running => image[q] # image[p]
  BY DEF LockState, OnePerImage
<1>3. \A q \in Pulls : q # p /\ pc[q] \in Running => imageStore'[image[q]] = imageStore[image[q]]
  BY <1>2 DEF TypeInv, TypeOK
<1>4. \A q \in Pulls : q # p => Promise(q)'
  BY <1>1, <1>3, OthersPromised DEF LifeInv
<1>5. Unasked'
  BY <1>1 DEF LifeInv, Unasked
<1> QED
  BY <1>4, <1>5 DEF LifeInv

\* The answers, seen from the caller.
LEMMA AnswerMaps ==
  ASSUME NEW p \in Pulls, NEW r, NEW s, reply[p] = r, Answer(p, s),
         UNCHANGED <<imageStore, image, early>>
  PROVE  Lifecycle!Tell(p, r, s)
BY DEF Answer, Lifecycle!Tell

LEMMA ErrorMaps ==
  ASSUME NEW p \in Pulls, reply[p] \in {"wait", "wait2"}, Answer(p, "error"),
         UNCHANGED <<imageStore, image, early>>
  PROVE  Lifecycle!Next
<1>1. Lifecycle!Tell(p, "wait", "error") \/ Lifecycle!Tell(p, "wait2", "error")
  BY AnswerMaps
<1> QED
  BY <1>1 DEF Lifecycle!Next, Lifecycle!TellError

\* The second signal is an error the caller is told, or nobody receives it.
LEMMA SecondErrorMaps ==
  ASSUME NEW p \in Pulls, SecondSignal(p, "error"), UNCHANGED <<imageStore, image, early>>
  PROVE  Lifecycle!Next \/ UNCHANGED callerVars
BY ErrorMaps DEF SecondSignal, callerVars

-----------------------------------------------------------------------------
(* The invariant is inductive.                                             *)

LEMMA LifeInit == Init => LifeInv
BY DEF Init, LifeInv, Promise, Unasked, Asked, Receiving, Created

LEMMA LifeStep ==
  ASSUME TypeInv, LockInv, LifeInv, \A i \in Images : NamedLike[i] = {i},
         SameImage = FALSE, [Next]_vars
  PROVE  LifeInv'
<1> USE DEF containerdVars, diskVars, memoryVars, worldVars, requestVars, pullVars
<1>1. ControlOK /\ DataOK /\ (daemon = "up" => LockState)
  BY TypeParts DEF LockInv
<1>2. ASSUME NEW p \in Pulls, NEW i \in Images, NEW e \in EarlyStart, Request(p, i, e) PROVE LifeInv'
  <2>1. /\ daemon = "up" /\ imageStore' = imageStore /\ reply'[p] = "wait"
        /\ \A q \in Pulls : pc'[q] = IF q = p THEN "find" ELSE pc[q]
        /\ \A q \in Pulls : q # p => /\ image'[q] = image[q] /\ early'[q] = early[q]
                                     /\ found'[q] = found[q] /\ reply'[q] = reply[q]
    BY <1>1, <1>2 DEF Request, GoTo, Answer, At, ControlOK, DataOK
  <2>2. \A q \in Pulls : q # p => Promise(q)'
    BY <2>1, OthersPromised DEF LifeInv
  <2>3. Promise(p)'
    BY <2>1 DEF Promise, Receiving, Created
  <2>4. Unasked'
    BY <2>1 DEF LifeInv, Unasked
  <2> QED
    BY <2>2, <2>3, <2>4 DEF LifeInv
<1>3. ASSUME NEW p \in Pulls, NEW b \in PCs \ {"idle"}, NEW n, daemon = "up", GoTo(p, b, n),
             UNCHANGED <<imageStore, image, early, found, reply>>, Promise(p)'
      PROVE  LifeInv'
  BY <1>3, LifeMove
<1>4. ASSUME NEW p \in Pulls, NEW b \in {"done", "deferred", "blocked"}, NEW n, NEW r,
             daemon = "up", GoTo(p, b, n),
             Answer(p, r) \/ UNCHANGED reply, UNCHANGED <<imageStore, image, early, found>>
      PROVE  LifeInv'
  <2>1. Promise(p)'
    BY <1>1, <1>4 DEF Promise, Asked, Receiving, Created, GoTo, ControlOK
  <2>2. \A q \in Pulls : q # p => reply'[q] = reply[q] /\ found'[q] = found[q]
    BY <1>1, <1>4 DEF Answer, DataOK
  <2> QED
    BY <1>4, <2>1, <2>2, LifeMove DEF PCs
<1>5. ASSUME NEW p \in Pulls, daemon = "up" PROVE Promise(p)
  BY <1>5 DEF LifeInv
<1>6. ASSUME NEW p \in Pulls, FindImage(p) PROVE LifeInv'
  <2>1. /\ daemon = "up" /\ pc[p] = "find" /\ UNCHANGED <<imageStore, image, early>>
        /\ image[p] \in Images
    BY <1>1, <1>6 DEF FindImage, At, ControlOK
  <2>2. \A q \in Pulls : q # p => reply'[q] = reply[q] /\ found'[q] = found[q]
    BY <1>1, <1>6 DEF FindImage, FailFirst, Answer, DataOK
  <2>3. Matching(image[p]) \subseteq {image[p]} /\ \A j \in Matching(image[p]) : imageStore[j] # "none"
    BY <2>1 DEF Matching
  <2>4. reply[p] = "wait"
    BY <1>5, <2>1 DEF Promise, Asked
  <2>5. CASE Matching(image[p]) = {} /\ GoTo(p, "request", 1) /\ UNCHANGED <<found, reply>>
    <3>1. Promise(p)'
      BY <1>1, <2>1, <2>4, <2>5 DEF GoTo, Promise, Receiving, Created, ControlOK
    <3> QED
      BY <1>3, <2>1, <2>5, <3>1 DEF PCs
  <2>6. ASSUME NEW j \in Matching(image[p]), found' = [found EXCEPT ![p] = j],
               GoTo(p, IF imageStore[j] = "complete" THEN "load" ELSE "delete", 1),
               UNCHANGED reply
        PROVE  LifeInv'
    <3>1. j = image[p] /\ imageStore[image[p]] \in {"created", "complete"}
      BY <1>1, <2>1, <2>3, <2>6 DEF DataOK
    <3>2. Promise(p)'
      BY <1>1, <2>1, <2>4, <2>6, <3>1 DEF GoTo, Promise, Receiving, Created, ControlOK, DataOK
    <3>3. (IF imageStore[j] = "complete" THEN "load" ELSE "delete") \in PCs \ {"idle"}
      BY DEF PCs
    <3> QED
      BY <2>1, <2>2, <2>6, <3>2, <3>3, LifeMove
  <2>7. CASE FailFirst(p, "done") /\ UNCHANGED found
    BY <1>4, <2>1, <2>7 DEF FailFirst
  <2> QED
    BY <1>6, <2>5, <2>6, <2>7 DEF FindImage
<1>7. ASSUME NEW p \in Pulls, LoadExisting(p) PROVE LifeInv'
  BY <1>4, <1>7 DEF LoadExisting, At
<1>8. ASSUME NEW p \in Pulls, DeleteIncomplete(p) PROVE LifeInv'
  <2>1. daemon = "up" /\ pc[p] = "delete" /\ UNCHANGED <<image, early, found>>
    BY <1>8 DEF DeleteIncomplete, At
  <2>2. CASE imageStore' = [imageStore EXCEPT ![image[p]] = "none"] /\ GoTo(p, "request", 1) /\ UNCHANGED reply
    <3>1. Promise(p)'
      BY <1>1, <1>5, <2>1, <2>2 DEF GoTo, Promise, Asked, Receiving, Created, ControlOK
    <3> QED
      BY <1>1, <2>1, <2>2, <3>1, LifeStore DEF PCs, Running
  <2>3. CASE FailFirst(p, "done") /\ UNCHANGED imageStore
    BY <1>4, <2>1, <2>3 DEF FailFirst
  <2> QED
    BY <1>8, <2>2, <2>3 DEF DeleteIncomplete
<1>9. ASSUME NEW p \in Pulls, DeltaImage(p) \/ LockManagerMap(p) \/ StoreBlob(p) PROVE LifeInv'
  <2>1. /\ daemon = "up" /\ pc[p] \in {"request", "lock", "store"}
        /\ UNCHANGED <<imageStore, image, early, found>>
    BY <1>9 DEF DeltaImage, LockManagerMap, StoreBlob, At
  <2>2. ASSUME NEW b \in {"lock", "store"}, NEW n, GoTo(p, b, n), UNCHANGED reply PROVE LifeInv'
    <3>1. Promise(p)'
      BY <1>1, <1>5, <2>1, <2>2 DEF GoTo, Promise, Asked, Receiving, Created, ControlOK
    <3> QED
      BY <1>3, <2>1, <2>2, <3>1 DEF PCs
  <2>3. ASSUME NEW b \in {"done", "deferred"}, FailFirst(p, b) PROVE LifeInv'
    BY <1>4, <2>1, <2>3 DEF FailFirst
  <2> QED
    BY <1>9, <2>2, <2>3 DEF DeltaImage, LockManagerMap, StoreBlob
<1>10. ASSUME NEW p \in Pulls, CreateImage(p) PROVE LifeInv'
  <2>1. daemon = "up" /\ pc[p] = "store" /\ UNCHANGED <<image, early, found>> /\ image[p] \in Images
    BY <1>1, <1>10 DEF CreateImage, At, ControlOK
  <2>2. CASE imageStore' = [imageStore EXCEPT ![image[p]] = "created"] /\ GoTo(p, "prepare", 1) /\ UNCHANGED reply
    <3>1. Promise(p)'
      BY <1>1, <1>5, <2>1, <2>2 DEF GoTo, Promise, Asked, Receiving, Created, ControlOK, DataOK
    <3> QED
      BY <1>1, <2>1, <2>2, <3>1, LifeStore DEF PCs, Running
  <2>3. CASE FailFirst(p, "deferred") /\ UNCHANGED imageStore
    BY <1>4, <2>1, <2>3 DEF FailFirst
  <2> QED
    BY <1>10, <2>2, <2>3 DEF CreateImage
<1>11. ASSUME NEW p \in Pulls,
              PrepareDirectory(p) \/ ClaimLayer(p) \/ AddSnapshot(p)
       PROVE  LifeInv'
  <2>1. /\ daemon = "up" /\ pc[p] \in {"prepare", "claim", "snapshot", "create", "commit"}
        /\ UNCHANGED <<imageStore, image, early, found>>
    BY <1>11 DEF PrepareDirectory, ClaimLayer, AddSnapshot, StatSnapshot, PrepareSnapshot, CommitSnapshot, At
  <2>2. ASSUME NEW b \in {"prepare", "claim", "snapshot", "create", "commit", "announce"}, NEW n, GoTo(p, b, n), UNCHANGED reply
        PROVE  LifeInv'
    <3>1. Promise(p)'
      BY <1>1, <1>5, <2>1, <2>2 DEF GoTo, Promise, Asked, Receiving, Created, ControlOK
    <3> QED
      BY <1>3, <2>1, <2>2, <3>1 DEF PCs
  <2>3. CASE FailFirst(p, "deferred")
    BY <1>4, <2>1, <2>3 DEF FailFirst
  <2>4. \/ FailFirst(p, "deferred")
        \/ UNCHANGED reply /\ \E b \in {"prepare", "claim", "snapshot", "create", "commit", "announce"}, n \in Nat : GoTo(p, b, n)
    BY <1>1, <1>11 DEF PrepareDirectory, ClaimLayer, AddSnapshot, StatSnapshot, PrepareSnapshot, CommitSnapshot, NextLayer, ControlOK
  <2> QED
    BY <2>2, <2>3, <2>4
<1>12. ASSUME NEW p \in Pulls, Announce(p) PROVE LifeInv'
  <2>1. daemon = "up" /\ pc[p] = "announce" /\ GoTo(p, "extract", 1)
        /\ UNCHANGED <<imageStore, image, early, found>>
        /\ Answer(p, IF early[p] THEN "ok" ELSE "wait2")
    BY <1>12 DEF Announce, At
  <2>2. \A q \in Pulls : q # p => reply'[q] = reply[q] /\ found'[q] = found[q]
    BY <1>1, <2>1 DEF Answer, DataOK
  <2>3. Promise(p)'
    BY <1>1, <1>5, <2>1 DEF GoTo, Answer, Promise, Asked, Receiving, Created, ControlOK, DataOK
  <2> QED
    BY <2>1, <2>2, <2>3, LifeMove DEF PCs
<1>13. ASSUME NEW p \in Pulls, NEW r, daemon = "up", SecondSignal(p, r),
              UNCHANGED <<imageStore, image, early, found>>
       PROVE  LifeInv'
  BY <1>4, <1>13 DEF SecondSignal
<1>14. ASSUME NEW p \in Pulls,
              DiscardContent(p) \/ CreateFile(p) \/ WriteFile(p) \/ AllExtracted(p) \/ MarkLayer(p)
              \/ ExtractFails(p)
       PROVE  LifeInv'
  <2>1. /\ daemon = "up" /\ pc[p] \in {"extract", "write", "mark"}
        /\ UNCHANGED <<imageStore, image, early, found>>
    BY <1>14 DEF DiscardContent, CreateFile, WriteFile, AllExtracted, MarkLayer, ExtractFails, At
  <2>2. ASSUME NEW b \in {"extract", "write", "mark", "label"}, NEW n, GoTo(p, b, n), UNCHANGED reply
        PROVE  LifeInv'
    <3>1. Promise(p)'
      BY <1>1, <1>5, <2>1, <2>2 DEF GoTo, Promise, Asked, Receiving, Created, ControlOK
    <3> QED
      BY <1>3, <2>1, <2>2, <3>1 DEF PCs
  <2>3. \/ SecondSignal(p, "error")
        \/ UNCHANGED reply /\ \E b \in {"extract", "write", "mark", "label"}, n \in Nat : GoTo(p, b, n)
    BY <1>1, <1>14 DEF DiscardContent, CreateFile, WriteFile, AllExtracted, MarkLayer, ExtractFails,
                       NextLayer, ControlOK
  <2> QED
    BY <1>13, <2>1, <2>2, <2>3
<1>15. ASSUME NEW p \in Pulls, LabelImage(p) PROVE LifeInv'
  <2>1. daemon = "up" /\ pc[p] = "label" /\ UNCHANGED <<image, early, found, reply>> /\ image[p] \in Images
    BY <1>1, <1>15 DEF LabelImage, At, ControlOK
  <2>2. CASE imageStore' = [imageStore EXCEPT ![image[p]] = "complete"] /\ GoTo(p, "manifest", 1)
    <3>1. Promise(p)'
      BY <1>1, <1>5, <2>1, <2>2 DEF GoTo, Promise, Asked, Receiving, Created, ControlOK, DataOK
    <3> QED
      BY <1>1, <2>1, <2>2, <3>1, LifeStore DEF PCs, Running
  <2>3. CASE GoTo(p, "deferred", 1) /\ UNCHANGED imageStore
    BY <1>4, <2>1, <2>3
  <2> QED
    BY <1>15, <2>2, <2>3 DEF LabelImage
<1>16. ASSUME NEW p \in Pulls, UpdateManifest(p) PROVE LifeInv'
  BY <1>4, <1>13, <1>16 DEF UpdateManifest, At
<1>17. ASSUME NEW p \in Pulls, Deferred(p) PROVE LifeInv'
  <2>1. \A q \in Pulls : pc'[q] = IF q = p THEN "done" ELSE pc[q]
    BY <1>1, <1>17 DEF Deferred, GoTo, ControlOK
  <2> QED
    BY <1>4, <1>17 DEF Deferred, At
<1>18. CASE Crash \/ \E i \in MountedImages : MountContainer(i)
  BY <1>18 DEF Crash, MountContainer, LifeInv, Promise, Unasked
<1>19. CASE Restart
  <2>1. \A q \in Pulls : /\ pc'[q] = IF pc[q] = "idle" THEN "idle" ELSE "done"
                         /\ reply[q] = "none" => reply'[q] = "none"
    BY <1>1, <1>19 DEF Restart, DataOK
  <2>2. \A q \in Pulls : Promise(q)'
    BY <2>1 DEF Promise, Asked, Receiving, Created
  <2>3. Unasked'
    BY <2>1 DEF LifeInv, Unasked
  <2> QED
    BY <2>2, <2>3 DEF LifeInv
<1>20. CASE Idle \/ UNCHANGED vars
  BY <1>20 DEF Idle, vars, LifeInv, Promise, Unasked
<1> QED
  BY <1>2, <1>6, <1>7, <1>8, <1>9, <1>10, <1>11, <1>12, <1>14, <1>15, <1>16, <1>17, <1>18, <1>19, <1>20
     DEF Next, Advance

-----------------------------------------------------------------------------
(* Every step of a pull is a step of the abstract daemon, or none.          *)

LEMMA StepMaps ==
  ASSUME TypeInv, NoFatalUnlock, LifeInv, [Next]_vars
  PROVE  Lifecycle!Next \/ UNCHANGED callerVars
<1> USE DEF containerdVars, diskVars, memoryVars, worldVars, requestVars, pullVars
<1>1. ControlOK /\ DataOK
  BY TypeParts
<1>2. ASSUME NEW p \in Pulls, daemon = "up" PROVE Promise(p)
  BY <1>2 DEF LifeInv
<1>3. ASSUME NEW p \in Pulls, NEW i \in Images, NEW e \in EarlyStart, Request(p, i, e)
      PROVE  Lifecycle!Next
  <2>1. reply[p] = "none" /\ e \in BOOLEAN
    BY <1>3, BoundsAssumption DEF LifeInv, Unasked, Request, At
  <2>2. Lifecycle!Ask(p, i, e)
    BY <1>3, <2>1 DEF Request, Answer, Lifecycle!Ask
  <2> QED
    BY <2>1, <2>2 DEF Lifecycle!Next
<1>4. ASSUME NEW p \in Pulls, NEW b, reply[p] \in {"wait", "wait2"}, UNCHANGED <<imageStore, image, early>>,
             FailFirst(p, b) \/ UNCHANGED reply
      PROVE  Lifecycle!Next \/ UNCHANGED callerVars
  BY <1>4, ErrorMaps DEF FailFirst, callerVars
<1>5. ASSUME NEW p \in Pulls, LoadExisting(p) PROVE Lifecycle!Next
  <2>1. /\ reply[p] = "wait" /\ imageStore[image[p]] = "complete"
        /\ UNCHANGED <<imageStore, image, early>>
    BY <1>2, <1>5 DEF LoadExisting, At, Promise, Asked
  <2>2. CASE Answer(p, "exists")
    <3>1. Lifecycle!TellExists(p)
      BY <2>1, <2>2, AnswerMaps DEF Lifecycle!TellExists
    <3> QED
      BY <3>1 DEF Lifecycle!Next
  <2>3. CASE Answer(p, "error")
    BY <2>1, <2>3, ErrorMaps
  <2> QED
    BY <1>5, <2>2, <2>3 DEF LoadExisting
<1>6. ASSUME NEW p \in Pulls, DeleteIncomplete(p) PROVE Lifecycle!Next \/ UNCHANGED callerVars
  <2>1. /\ reply[p] = "wait" /\ imageStore[image[p]] = "created" /\ image[p] \in Images
        /\ UNCHANGED <<image, early>>
    BY <1>1, <1>2, <1>6 DEF DeleteIncomplete, At, Promise, Asked, Created, ControlOK
  <2>2. CASE imageStore' = [imageStore EXCEPT ![image[p]] = "none"] /\ UNCHANGED reply
    <3>1. Lifecycle!Discard(image[p])
      BY <2>1, <2>2 DEF Lifecycle!Discard, Lifecycle!Change
    <3> QED
      BY <2>1, <3>1 DEF Lifecycle!Next
  <2>3. CASE FailFirst(p, "done") /\ UNCHANGED imageStore
    BY <1>4, <2>1, <2>3
  <2> QED
    BY <1>6, <2>2, <2>3 DEF DeleteIncomplete
<1>7. ASSUME NEW p \in Pulls,
             FindImage(p) \/ DeltaImage(p) \/ LockManagerMap(p) \/ StoreBlob(p)
             \/ PrepareDirectory(p) \/ ClaimLayer(p) \/ AddSnapshot(p)
      PROVE  Lifecycle!Next \/ UNCHANGED callerVars
  <2>1. daemon = "up" /\ pc[p] \in Asked /\ UNCHANGED <<imageStore, image, early>>
    BY <1>7 DEF FindImage, DeltaImage, LockManagerMap, StoreBlob, PrepareDirectory, ClaimLayer,
                AddSnapshot, StatSnapshot, PrepareSnapshot, CommitSnapshot, At, Asked
  <2>2. reply[p] = "wait"
    BY <1>2, <2>1 DEF Promise
  <2>3. FailFirst(p, "done") \/ FailFirst(p, "deferred") \/ UNCHANGED reply
    BY <1>7 DEF FindImage, DeltaImage, LockManagerMap, StoreBlob, PrepareDirectory, ClaimLayer,
                AddSnapshot, StatSnapshot, PrepareSnapshot, CommitSnapshot
  <2> QED
    BY <1>4, <2>1, <2>2, <2>3
<1>8. ASSUME NEW p \in Pulls, CreateImage(p) PROVE Lifecycle!Next \/ UNCHANGED callerVars
  <2>1. reply[p] = "wait" /\ image[p] \in Images /\ UNCHANGED <<image, early>>
    BY <1>1, <1>2, <1>8 DEF CreateImage, At, Promise, Asked, ControlOK
  <2>2. CASE /\ imageStore[image[p]] = "none"
             /\ imageStore' = [imageStore EXCEPT ![image[p]] = "created"]
             /\ UNCHANGED reply
    <3>1. Lifecycle!Create(image[p])
      BY <2>1, <2>2 DEF Lifecycle!Create, Lifecycle!Change
    <3> QED
      BY <2>1, <3>1 DEF Lifecycle!Next
  <2>3. CASE FailFirst(p, "deferred") /\ UNCHANGED imageStore
    BY <1>4, <2>1, <2>3
  <2> QED
    BY <1>8, <2>2, <2>3 DEF CreateImage
<1>9. ASSUME NEW p \in Pulls, Announce(p) PROVE Lifecycle!Next
  <2>1. /\ reply[p] = "wait" /\ imageStore[image[p]] # "none" /\ early[p] \in BOOLEAN
        /\ Answer(p, IF early[p] THEN "ok" ELSE "wait2") /\ UNCHANGED <<imageStore, image, early>>
    BY <1>1, <1>2, <1>9 DEF Announce, At, Promise, Asked, Created, DataOK
  <2>2. Lifecycle!TellEarly(p) \/ Lifecycle!KeepWaiting(p)
    <3>1. CASE early[p]
      BY <2>1, <3>1, AnswerMaps DEF Lifecycle!TellEarly
    <3>2. CASE ~early[p]
      BY <2>1, <3>2, AnswerMaps DEF Lifecycle!KeepWaiting
    <3> QED
      BY <3>1, <3>2
  <2> QED
    BY <2>2 DEF Lifecycle!Next
<1>10. ASSUME NEW p \in Pulls,
              DiscardContent(p) \/ CreateFile(p) \/ WriteFile(p) \/ AllExtracted(p) \/ MarkLayer(p)
              \/ ExtractFails(p)
       PROVE  Lifecycle!Next \/ UNCHANGED callerVars
  <2>1. UNCHANGED <<imageStore, image, early>> /\ (UNCHANGED reply \/ SecondSignal(p, "error"))
    BY <1>10 DEF DiscardContent, CreateFile, WriteFile, AllExtracted, MarkLayer, ExtractFails
  <2> QED
    BY <2>1, SecondErrorMaps DEF callerVars
<1>11. ASSUME NEW p \in Pulls, LabelImage(p) PROVE Lifecycle!Next \/ UNCHANGED callerVars
  <2>1. imageStore[image[p]] = "created" /\ image[p] \in Images /\ UNCHANGED <<image, early, reply>>
    BY <1>1, <1>2, <1>11 DEF LabelImage, At, Promise, Created, ControlOK
  <2>2. CASE imageStore' = [imageStore EXCEPT ![image[p]] = "complete"]
    <3>1. Lifecycle!Complete(image[p])
      BY <2>1, <2>2 DEF Lifecycle!Complete, Lifecycle!Change
    <3> QED
      BY <2>1, <3>1 DEF Lifecycle!Next
  <2>3. CASE UNCHANGED imageStore
    BY <2>1, <2>3 DEF callerVars
  <2> QED
    BY <1>11, <2>2, <2>3 DEF LabelImage
<1>12. ASSUME NEW p \in Pulls, UpdateManifest(p) PROVE Lifecycle!Next \/ UNCHANGED callerVars
  <2>1. imageStore[image[p]] = "complete" /\ UNCHANGED <<imageStore, image, early>>
    BY <1>2, <1>12 DEF UpdateManifest, At, Promise
  <2>2. CASE reply[p] = "wait2" /\ Answer(p, "ok")
    <3>1. Lifecycle!TellWhole(p)
      BY <2>1, <2>2, AnswerMaps DEF Lifecycle!TellWhole
    <3> QED
      BY <3>1 DEF Lifecycle!Next
  <2> QED
    BY <1>12, <2>1, <2>2 DEF UpdateManifest, SecondSignal, callerVars
<1>13. CASE Restart
  <2>1. Lifecycle!LoseCallers
    BY <1>13 DEF Restart, Lifecycle!LoseCallers
  <2> QED
    BY <2>1 DEF Lifecycle!Next
<1>14. CASE \/ \E p \in Pulls : Deferred(p)
            \/ \E i \in MountedImages : MountContainer(i)
            \/ Crash \/ Idle \/ UNCHANGED vars
  BY <1>14 DEF Deferred, MountContainer, Crash, Idle, vars, callerVars
<1> QED
  BY <1>3, <1>5, <1>6, <1>7, <1>8, <1>9, <1>10, <1>11, <1>12, <1>13, <1>14 DEF Next, Advance

-----------------------------------------------------------------------------
(* The theorems.                                                           *)

\* The conditions under which the promise holds: one pull of an image at a time, and
\* findImage's prefix filter finding nothing but the image asked for.
Exclusive == SameImage = FALSE /\ \A i \in Images : NamedLike[i] = {i}

LEMMA LifeAlways ==
  ASSUME Exclusive
  PROVE  Spec => [](TypeInv /\ LockInv /\ NoFatalUnlock /\ LifeInv)
<1>1. Spec => []TypeInv
  BY TypeInit, TypeStep, PTL DEF Spec
<1>2. TypeInv /\ TypeInv' /\ LockInv /\ NoFatalUnlock /\ [Next]_vars => LockInv' /\ NoFatalUnlock'
  BY LockStep DEF Exclusive
<1>3. TypeInv /\ LockInv /\ LifeInv /\ [Next]_vars => LifeInv'
  BY LifeStep DEF Exclusive
<1> QED
  BY <1>1, <1>2, <1>3, LockInit, LifeInit, PTL DEF Spec

\* PullImage keeps what it promises its callers: whatever fails and whenever the daemon
\* dies, an image goes from absent to created to complete and back only from created,
\* "requested image already exists" is said of a complete image alone, and a caller that
\* disabled the early start is told "ok" only of a complete one.
THEOREM PullsImplementLifecycle == Exclusive => (Spec => ImplementsLifecycle)
<1> SUFFICES ASSUME Exclusive PROVE Spec => ImplementsLifecycle
  OBVIOUS
<1>1. Init => Lifecycle!Init
  BY DEF Init, Lifecycle!Init
<1>2. TypeInv /\ NoFatalUnlock /\ LifeInv /\ [Next]_vars => [Lifecycle!Next]_(Lifecycle!vars)
  BY StepMaps DEF callerVars, Lifecycle!vars
<1> QED
  BY <1>1, <1>2, LifeAlways, PTL DEF Spec, ImplementsLifecycle, Lifecycle!Spec

-----------------------------------------------------------------------------
(* How pulls move.                                                         *)

\* A pull another one's step leaves alone.
Kept(q) ==
  /\ pc'[q] = pc[q] /\ idx'[q] = idx[q] /\ image'[q] = image[q]
  /\ completedStack'[q] = completedStack[q] /\ closed'[q] = closed[q]

Requests(p) == \E i \in Images, e \in EarlyStart : Request(p, i, e)

\* A step is one pull's, or the world's.
WorldStep ==
  \/ \E i \in MountedImages : MountContainer(i)
  \/ Crash
  \/ Idle
  \/ UNCHANGED vars

LEMMA StepKinds ==
  ASSUME [Next]_vars
  PROVE  \/ \E p \in Pulls : Requests(p)
         \/ \E p \in Pulls : Advance(p)
         \/ WorldStep
         \/ Restart
BY DEF Next, Requests, WorldStep

\* A pull that advances runs, in a daemon that is up, and keeps its image.
LEMMA AdvanceRuns ==
  ASSUME NEW p \in Pulls, Advance(p)
  PROVE  daemon = "up" /\ pc[p] \in Running /\ image' = image
<1> USE DEF containerdVars, diskVars, memoryVars, worldVars, requestVars, pullVars
<1>1. CASE FindImage(p) \/ LoadExisting(p) \/ DeleteIncomplete(p) \/ DeltaImage(p)
           \/ LockManagerMap(p) \/ StoreBlob(p) \/ CreateImage(p)
  BY <1>1 DEF FindImage, LoadExisting, DeleteIncomplete, DeltaImage, LockManagerMap, StoreBlob, CreateImage,
              At, Running, PCs
<1>2. CASE PrepareDirectory(p) \/ ClaimLayer(p) \/ AddSnapshot(p) \/ Announce(p)
           \/ DiscardContent(p) \/ CreateFile(p) \/ WriteFile(p)
  BY <1>2 DEF PrepareDirectory, ClaimLayer, AddSnapshot, StatSnapshot, PrepareSnapshot, CommitSnapshot, Announce, DiscardContent, CreateFile, WriteFile,
              At, Running, PCs
<1>3. CASE ExtractFails(p) \/ AllExtracted(p) \/ MarkLayer(p) \/ LabelImage(p)
           \/ UpdateManifest(p) \/ Deferred(p)
  BY <1>3 DEF ExtractFails, AllExtracted, MarkLayer, LabelImage, UpdateManifest, Deferred, At, Running, PCs
<1> QED
  BY <1>1, <1>2, <1>3 DEF Advance

LEMMA OthersKept ==
  ASSUME TypeInv, NEW p \in Pulls, Requests(p) \/ Advance(p)
  PROVE  \A q \in Pulls \ {p} : Kept(q)
<1> USE DEF containerdVars, diskVars, memoryVars, worldVars, requestVars, pullVars
<1>1. ControlOK /\ DataOK
  BY TypeParts
<1>2. ASSUME NEW b, NEW n, GoTo(p, b, n),
             UNCHANGED <<image, completedStack>> \/ UNCHANGED <<image, closed>>,
             completedStack' = completedStack \/ (\E s : completedStack' = [completedStack EXCEPT ![p] = s]),
             closed' = closed \/ (\E s : closed' = [closed EXCEPT ![p] = s])
      PROVE  \A q \in Pulls \ {p} : Kept(q)
  BY <1>1, <1>2 DEF GoTo, Kept, ControlOK, DataOK
<1>3. CASE Requests(p)
  BY <1>1, <1>3 DEF Requests, Request, GoTo, Kept, ControlOK, DataOK
<1>4. ASSUME FindImage(p) \/ DeleteIncomplete(p) \/ DeltaImage(p) \/ StoreBlob(p) \/ CreateImage(p)
      PROVE  \A q \in Pulls \ {p} : Kept(q)
  <2>1. \E b, n : GoTo(p, b, n)
    BY <1>4 DEF FindImage, DeleteIncomplete, DeltaImage, StoreBlob, CreateImage, FailFirst
  <2> QED
    BY <1>2, <1>4, <2>1 DEF FindImage, DeleteIncomplete, DeltaImage, StoreBlob, CreateImage
<1>5. ASSUME LoadExisting(p) \/ LockManagerMap(p) \/ ClaimLayer(p) \/ Announce(p)
             \/ DiscardContent(p) \/ CreateFile(p) \/ AllExtracted(p) \/ Deferred(p)
      PROVE  \A q \in Pulls \ {p} : Kept(q)
  <2>1. \E b, n : GoTo(p, b, n)
    BY <1>5 DEF LoadExisting, LockManagerMap, ClaimLayer, Announce, DiscardContent, CreateFile,
                AllExtracted, Deferred
  <2> QED
    BY <1>2, <1>5, <2>1 DEF LoadExisting, LockManagerMap, ClaimLayer, Announce, DiscardContent,
                            CreateFile, AllExtracted, Deferred
<1>6. ASSUME PrepareDirectory(p) \/ MarkLayer(p) PROVE \A q \in Pulls \ {p} : Kept(q)
  <2>1. \E b, n : GoTo(p, b, n)
    BY <1>6 DEF PrepareDirectory, MarkLayer, NextLayer, FailFirst, SecondSignal
  <2>2. completedStack' = completedStack \/ (\E s : completedStack' = [completedStack EXCEPT ![p] = s])
    BY <1>6 DEF PrepareDirectory, MarkLayer
  <2> QED
    BY <1>2, <1>6, <2>1, <2>2 DEF PrepareDirectory, MarkLayer
<1>7. CASE WriteFile(p)
  <2>1. \E b, n : GoTo(p, b, n)
    BY <1>7 DEF WriteFile
  <2>2. closed' = [closed EXCEPT ![p] = closed[p] \cup {idx[p]}]
    BY <1>7 DEF WriteFile
  <2> QED
    BY <1>2, <1>7, <2>1, <2>2 DEF WriteFile
<1>8. ASSUME AddSnapshot(p) \/ ExtractFails(p) \/ LabelImage(p) \/ UpdateManifest(p)
      PROVE  \A q \in Pulls \ {p} : Kept(q)
  <2>1. \E b, n : GoTo(p, b, n)
    BY <1>8 DEF AddSnapshot, StatSnapshot, PrepareSnapshot, CommitSnapshot, ExtractFails, LabelImage, UpdateManifest, NextLayer, FailFirst, SecondSignal
  <2> QED
    BY <1>2, <1>8, <2>1 DEF AddSnapshot, StatSnapshot, PrepareSnapshot, CommitSnapshot, ExtractFails, LabelImage, UpdateManifest
<1> QED
  BY <1>3, <1>4, <1>5, <1>6, <1>7, <1>8 DEF Advance

\* The step that takes a pull to where it is.
LEMMA Arrival ==
  ASSUME TypeInv, NEW p \in Pulls, Advance(p)
  PROVE  /\ pc'[p] = "prepare" => CreateImage(p) \/ PrepareDirectory(p)
         /\ pc'[p] = "claim" => PrepareDirectory(p) \/ AddSnapshot(p)
         /\ pc'[p] = "snapshot" => ClaimLayer(p)
         /\ pc'[p] = "create" => StatSnapshot(p)
         /\ pc'[p] = "commit" => PrepareSnapshot(p)
         /\ pc'[p] = "announce" => AddSnapshot(p)
         /\ pc'[p] = "extract" => Announce(p) \/ DiscardContent(p) \/ WriteFile(p)
         /\ pc'[p] = "write" => CreateFile(p)
         /\ pc'[p] = "mark" => AllExtracted(p) \/ MarkLayer(p)
         /\ pc'[p] = "label" => MarkLayer(p)
<1> DEFINE Late == {"prepare", "claim", "snapshot", "create", "commit", "announce", "extract", "write", "mark", "label"}
<1>1. \A b, n : GoTo(p, b, n) => pc'[p] = b
  BY DEF GoTo, TypeInv, TypeOK
<1>2. ASSUME FindImage(p) \/ LoadExisting(p) \/ DeleteIncomplete(p) \/ DeltaImage(p) \/ LockManagerMap(p)
             \/ StoreBlob(p)
      PROVE  pc'[p] \notin Late
  <2>1. \E b \in {"request", "load", "delete", "done", "lock", "store", "deferred"} : \E n : GoTo(p, b, n)
    BY <1>2 DEF FindImage, LoadExisting, DeleteIncomplete, DeltaImage, LockManagerMap, StoreBlob, FailFirst
  <2> QED
    BY <1>1, <2>1
<1>3. ASSUME ExtractFails(p) \/ LabelImage(p) \/ UpdateManifest(p) \/ Deferred(p)
      PROVE  pc'[p] \notin Late
  <2>1. \E b \in {"deferred", "blocked", "manifest", "done"} : \E n : GoTo(p, b, n)
    BY <1>3 DEF ExtractFails, LabelImage, UpdateManifest, Deferred, SecondSignal
  <2> QED
    BY <1>1, <2>1
<1>4. ASSUME CreateImage(p) PROVE pc'[p] \in {"prepare", "deferred"}
  BY <1>1, <1>4 DEF CreateImage, FailFirst
<1>5. ASSUME PrepareDirectory(p) PROVE pc'[p] \in {"prepare", "claim", "deferred"}
  BY <1>1, <1>5 DEF PrepareDirectory, NextLayer, FailFirst
<1>6. ASSUME ClaimLayer(p) PROVE pc'[p] = "snapshot"
  BY <1>1, <1>6 DEF ClaimLayer
<1>7. ASSUME AddSnapshot(p)
      PROVE  \/ pc'[p] \in {"claim", "announce", "deferred"}
             \/ StatSnapshot(p) /\ pc'[p] = "create"
             \/ PrepareSnapshot(p) /\ pc'[p] = "commit"
  <2>1. StatSnapshot(p) => pc'[p] \in {"claim", "announce", "create"}
    BY <1>1 DEF StatSnapshot, NextLayer
  <2>2. PrepareSnapshot(p) => pc'[p] \in {"commit", "deferred"}
    BY <1>1 DEF PrepareSnapshot, FailFirst
  <2>3. CommitSnapshot(p) => pc'[p] \in {"claim", "announce", "deferred"}
    BY <1>1 DEF CommitSnapshot, NextLayer, FailFirst
  <2> QED
    BY <1>7, <2>1, <2>2, <2>3 DEF AddSnapshot
<1>8. ASSUME Announce(p) \/ DiscardContent(p) \/ WriteFile(p) PROVE pc'[p] = "extract"
  BY <1>1, <1>8 DEF Announce, DiscardContent, WriteFile
<1>9. ASSUME CreateFile(p) PROVE pc'[p] = "write"
  BY <1>1, <1>9 DEF CreateFile
<1>10. ASSUME AllExtracted(p) PROVE pc'[p] = "mark"
  BY <1>1, <1>10 DEF AllExtracted
<1>11. ASSUME MarkLayer(p) PROVE pc'[p] \in {"mark", "label", "deferred", "blocked"}
  BY <1>1, <1>11 DEF MarkLayer, NextLayer, SecondSignal
<1> QED
  BY <1>2, <1>3, <1>4, <1>5, <1>6, <1>7, <1>8, <1>9, <1>10, <1>11 DEF Advance

\* A running daemon forgets no layer and takes no manager from one.
LEMMA MapGrows ==
  ASSUME TypeInv, daemon = "up", [Next]_vars
  PROVE  \A l \in Layers : /\ LayerFound(l) => LayerFound(l)'
                           /\ LayerManaged(l) => LayerManaged(l)'
<1> USE DEF containerdVars, diskVars, memoryVars, worldVars, requestVars, pullVars
<1>1. ControlOK /\ DataOK
  BY TypeParts
<1>2. ASSUME UNCHANGED layerMap
      PROVE  \A l \in Layers : /\ LayerFound(l) => LayerFound(l)'
                               /\ LayerManaged(l) => LayerManaged(l)'
  BY <1>2 DEF LayerFound, LayerManaged
<1>3. ASSUME NEW i \in Images, LoadImage(i)
      PROVE  \A l \in Layers : /\ LayerFound(l) => LayerFound(l)'
                               /\ LayerManaged(l) => LayerManaged(l)'
  <2>1. CASE managerMap[i] # None
    BY <1>2, <1>3, <2>1 DEF LoadImage
  <2>2. CASE managerMap[i] = None
    <3>1. layerMap' = [l \in Layers |-> IF l \in LayerSet(i) /\ ~LayerManaged(l)
                                        THEN [manager |-> i, stack |-> StackOf(i, l)]
                                        ELSE layerMap[l]]
      BY <1>3, <2>2 DEF LoadImage
    <3>2. \A l \in LayerSet(i) : [manager |-> i, stack |-> StackOf(i, l)] \in MountPoint
      BY StackOfType, ImagesAssumption DEF Stacks, MountPoint, Managers
    <3>3. i # None /\ \A m \in MountPoint : m # None
      BY NamesAssumption DEF MountPoint, Managers
    <3> QED
      BY <3>1, <3>2, <3>3 DEF LayerFound, LayerManaged
  <2> QED
    BY <2>1, <2>2
<1>4. ASSUME NEW p \in Pulls, ClaimLayer(p)
      PROVE  \A l \in Layers : /\ LayerFound(l) => LayerFound(l)'
                               /\ LayerManaged(l) => LayerManaged(l)'
  <2>1. idx[p] \in Int /\ p # None
    BY <1>1, NamesAssumption DEF ControlOK
  <2>2. [manager |-> p, stack |-> idx[p]] # None
    BY <2>1, NamesAssumption
  <2>3. \/ layerMap' = layerMap
        \/ layerMap' = [layerMap EXCEPT ![LayersOf[image[p]][idx[p]]] = [manager |-> p, stack |-> idx[p]]]
    BY <1>4 DEF ClaimLayer
  <2> QED
    BY <1>1, <1>2, <2>1, <2>2, <2>3 DEF LayerFound, LayerManaged, DataOK
<1>5. ASSUME NEW p \in Pulls, LoadExisting(p) \/ AddSnapshot(p)
      PROVE  \A l \in Layers : /\ LayerFound(l) => LayerFound(l)'
                               /\ LayerManaged(l) => LayerManaged(l)'
  <2>1. image[p] \in Images /\ found[p] \in Images
    BY <1>1 DEF ControlOK, DataOK
  <2>2. LoadImage(image[p]) \/ LoadImage(found[p]) \/ UNCHANGED layerMap
    BY <1>5 DEF LoadExisting, AddSnapshot, StatSnapshot, PrepareSnapshot, CommitSnapshot
  <2> QED
    BY <1>2, <1>3, <2>1, <2>2
<1>6. ASSUME NEW p \in Pulls, Advance(p)
      PROVE  \A l \in Layers : /\ LayerFound(l) => LayerFound(l)'
                               /\ LayerManaged(l) => LayerManaged(l)'
  <2>1. CASE ClaimLayer(p) \/ LoadExisting(p) \/ AddSnapshot(p)
    BY <1>4, <1>5, <2>1
  <2>2. CASE ~(ClaimLayer(p) \/ LoadExisting(p) \/ AddSnapshot(p))
    <3>1. UNCHANGED layerMap
      BY <1>6, <2>2
         DEF Advance, FindImage, DeleteIncomplete, DeltaImage, LockManagerMap, StoreBlob, CreateImage,
             PrepareDirectory, Announce, DiscardContent, CreateFile, WriteFile, ExtractFails,
             AllExtracted, MarkLayer, LabelImage, UpdateManifest, Deferred
    <3> QED
      BY <1>2, <3>1
  <2> QED
    BY <2>1, <2>2
<1>7. ASSUME NEW i \in MountedImages, MountContainer(i)
      PROVE  \A l \in Layers : /\ LayerFound(l) => LayerFound(l)'
                               /\ LayerManaged(l) => LayerManaged(l)'
  BY <1>3, <1>7 DEF MountContainer
<1>8. CASE Crash \/ Idle \/ UNCHANGED vars \/ \E p \in Pulls : Requests(p)
  BY <1>2, <1>8 DEF Crash, Idle, vars, Requests, Request
<1> QED
  BY <1>6, <1>7, <1>8, StepKinds DEF WorldStep, Restart

\* Loading an image gives each of its layers a manager, unless its own is in memory.
LEMMA LoadManages ==
  ASSUME TypeInv, NEW i \in Images, LoadImage(i), managerMap[i] = None
  PROVE  \A n \in Stacks(i) : LayerManaged(LayersOf[i][n])'
<1>1. layerMap' = [l \in Layers |-> IF l \in LayerSet(i) /\ ~LayerManaged(l)
                                    THEN [manager |-> i, stack |-> StackOf(i, l)]
                                    ELSE layerMap[l]]
  BY DEF LoadImage
<1>2. \A l \in LayerSet(i) : [manager |-> i, stack |-> StackOf(i, l)] \in MountPoint
  BY StackOfType, ImagesAssumption DEF Stacks, MountPoint, Managers
<1>3. i # None /\ \A m \in MountPoint : m # None
  BY NamesAssumption DEF MountPoint, Managers
<1>4. \A n \in Stacks(i) : LayersOf[i][n] \in LayerSet(i) /\ LayersOf[i][n] \in Layers
  BY LayerOfImage DEF LayerSet
<1> QED
  BY <1>1, <1>2, <1>3, <1>4 DEF LayerFound, LayerManaged

-----------------------------------------------------------------------------
(* The layers a pull has claimed, and those a completed.json speaks of.     *)

\* CreateSnapshots claims the layers from the bottom.
Claimed(p) ==
  /\ pc[p] = "claim" =>
       \A n \in Stacks(image[p]) : n < idx[p] => LayerManaged(LayersOf[image[p]][n])
  /\ pc[p] \in {"snapshot", "create", "commit"} =>
       \A n \in Stacks(image[p]) : n <= idx[p] => LayerManaged(LayersOf[image[p]][n])
  /\ pc[p] \in PastSnapshots =>
       \A n \in Stacks(image[p]) : LayerManaged(LayersOf[image[p]][n])

ClaimInv ==
  /\ completedJson \subseteq directories
  /\ daemon = "up" =>
       /\ \A p \in Pulls : Claimed(p)
       /\ \A l \in completedJson : LayerFound(l)

LEMMA ClaimInit == Init => ClaimInv
BY DEF Init, ClaimInv, Claimed, PastSnapshots

LEMMA ClaimStep ==
  ASSUME TypeInv, TypeInv', ClaimInv, [Next]_vars
  PROVE  ClaimInv'
<1> USE DEF containerdVars, diskVars, memoryVars, worldVars, requestVars, pullVars
<1>1. ControlOK /\ DataOK /\ DataOK'
  BY TypeParts DEF TypeInv, TypeOK, DataOK
<1>2. \A i \in Images : \A n \in Stacks(i) : LayersOf[i][n] \in Layers
  BY LayerOfImage
<1>3. ASSUME NEW q \in Pulls, Kept(q), daemon = "up" PROVE Claimed(q)'
  <2>1. Claimed(q) /\ image[q] \in Images
    BY <1>1, <1>3 DEF ClaimInv, ControlOK
  <2> QED
    BY <1>2, <1>3, <2>1, MapGrows DEF Claimed, Kept
<1>4. ASSUME NEW p \in Pulls, Advance(p), daemon = "up" PROVE Claimed(p)'
  <2>1. /\ Claimed(p) /\ image[p] \in Images /\ idx[p] \in Nat \ {0}
        /\ pc[p] \in {"prepare", "claim", "snapshot", "create", "commit", "mark"} => idx[p] \in Stacks(image[p])
        /\ Len(LayersOf[image[p]]) \in Nat
    BY <1>1, <1>4, ImagesAssumption DEF ClaimInv, ControlOK, Indexed
  <2>2. image' = image
    BY <1>4, AdvanceRuns
  <2>3. \A b, n : GoTo(p, b, n) => pc'[p] = b /\ idx'[p] = n
    BY <1>1 DEF GoTo, ControlOK
  <2>4. \A n \in Stacks(image[p]) : LayerManaged(LayersOf[image[p]][n]) => LayerManaged(LayersOf[image[p]][n])'
    BY <1>2, <1>4, <2>1, <2>2, MapGrows
  <2>5. CASE pc'[p] = "claim" /\ PrepareDirectory(p)
    <3>1. ~(pc'[p] = "prepare")
      BY <2>5
    <3>2. idx'[p] = 1
      BY <2>3, <2>5 DEF PrepareDirectory, NextLayer, FailFirst
    <3> QED
      BY <2>1, <2>5, <3>2 DEF Claimed, PastSnapshots, Stacks
  <2>6. CASE pc'[p] \in {"claim", "announce"} /\ AddSnapshot(p)
    <3>1. /\ pc[p] \in {"snapshot", "create", "commit"}
          /\ \A n \in Stacks(image[p]) : n <= idx[p] => LayerManaged(LayersOf[image[p]][n])'
      BY <2>1, <2>4, <2>6 DEF AddSnapshot, StatSnapshot, PrepareSnapshot, CommitSnapshot, At, Claimed
    <3>2. NextLayer(p, "claim", "announce")
      BY <2>3, <2>6 DEF AddSnapshot, StatSnapshot, PrepareSnapshot, CommitSnapshot, FailFirst
    <3>3. CASE idx[p] < Len(LayersOf[image[p]])
      <4>1. pc'[p] = "claim" /\ idx'[p] = idx[p] + 1
        BY <2>3, <3>2, <3>3 DEF NextLayer
      <4>2. \A n \in Stacks(image[p]) : n < idx[p] + 1 => n <= idx[p]
        BY <2>1 DEF Stacks
      <4> QED
        BY <2>2, <3>1, <4>1, <4>2 DEF Claimed, PastSnapshots
    <3>4. CASE ~(idx[p] < Len(LayersOf[image[p]]))
      <4>1. pc'[p] = "announce"
        BY <2>3, <3>2, <3>4 DEF NextLayer
      <4>2. \A n \in Stacks(image[p]) : n <= idx[p]
        BY <2>1, <3>1, <3>4, TopLayer
      <4> QED
        BY <2>2, <3>1, <4>1, <4>2 DEF Claimed
    <3> QED
      BY <3>3, <3>4
  <2>7. CASE ClaimLayer(p)
    <3>1. /\ pc[p] = "claim" /\ pc'[p] = "snapshot" /\ idx'[p] = idx[p]
          /\ \A n \in Stacks(image[p]) : n < idx[p] => LayerManaged(LayersOf[image[p]][n])'
      BY <2>1, <2>3, <2>4, <2>7 DEF ClaimLayer, At, Claimed
    <3>2. LayerManaged(LayersOf[image[p]][idx[p]])'
      <4>1. LayersOf[image[p]][idx[p]] \in Layers
        BY <1>2, <2>1, <3>1
      <4>2. CASE LayerManaged(LayersOf[image[p]][idx[p]])
        BY <2>1, <2>4, <3>1, <4>2
      <4>3. CASE ~LayerManaged(LayersOf[image[p]][idx[p]])
        <5>1. layerMap' = [layerMap EXCEPT ![LayersOf[image[p]][idx[p]]] = [manager |-> p, stack |-> idx[p]]]
          BY <2>7, <4>3 DEF ClaimLayer
        <5>2. layerMap'[LayersOf[image[p]][idx[p]]] = [manager |-> p, stack |-> idx[p]]
          BY <1>1, <4>1, <5>1 DEF DataOK
        <5>3. p # None /\ [manager |-> p, stack |-> idx[p]] # None
          BY <2>1, NamesAssumption
        <5> QED
          BY <2>2, <3>1, <5>2, <5>3 DEF LayerFound, LayerManaged
      <4> QED
        BY <4>2, <4>3
    <3>3. \A n \in Stacks(image[p]) : n <= idx[p] => n < idx[p] \/ n = idx[p]
      BY <2>1 DEF Stacks
    <3> QED
      BY <2>2, <3>1, <3>2, <3>3 DEF Claimed, PastSnapshots
  <2>8. CASE pc[p] \in PastSnapshots /\ pc'[p] \in PastSnapshots
    BY <2>1, <2>2, <2>4, <2>8 DEF Claimed, PastSnapshots
  <2>9. CASE pc'[p] \notin {"claim", "snapshot", "create", "commit"} \cup PastSnapshots
    BY <2>9 DEF Claimed
  <2>10. CASE pc'[p] \in {"create", "commit"} /\ (StatSnapshot(p) \/ PrepareSnapshot(p))
    <3>1. pc[p] \in {"snapshot", "create"}
      BY <2>10 DEF StatSnapshot, PrepareSnapshot, At
    <3>2. idx'[p] = idx[p]
      BY <2>3, <2>10 DEF StatSnapshot, PrepareSnapshot, NextLayer, FailFirst
    <3> QED
      BY <2>1, <2>2, <2>4, <2>10, <3>1, <3>2 DEF Claimed, PastSnapshots
  <2> QED
    BY <1>4, <2>5, <2>6, <2>7, <2>8, <2>9, <2>10, Arrival
       DEF PastSnapshots, At, Announce, DiscardContent, WriteFile, CreateFile, AllExtracted, MarkLayer
<1>5. ASSUME daemon = "up" PROVE \A p \in Pulls : Claimed(p)'
  <2>1. ASSUME NEW p \in Pulls, Advance(p) PROVE \A q \in Pulls : Claimed(q)'
    BY <1>3, <1>4, <1>5, <2>1, OthersKept
  <2>2. ASSUME NEW p \in Pulls, Requests(p) PROVE \A q \in Pulls : Claimed(q)'
    <3>1. pc'[p] = "find"
      BY <1>1, <2>2 DEF Requests, Request, GoTo, ControlOK
    <3> QED
      BY <1>3, <1>5, <2>2, <3>1, OthersKept DEF Claimed, PastSnapshots
  <2>3. CASE WorldStep
    <3>1. \A q \in Pulls : Kept(q)
      BY <2>3 DEF WorldStep, MountContainer, Crash, Idle, vars, Kept
    <3> QED
      BY <1>3, <1>5, <3>1
  <2> QED
    BY <1>5, <2>1, <2>2, <2>3, StepKinds DEF Restart
<1>6. ASSUME NEW p \in Pulls, MarkLayer(p), daemon = "up"
      PROVE  /\ completedJson' \subseteq directories'
             /\ \A l \in completedJson' : LayerFound(l)'
  <2>1. /\ pc[p] = "mark" /\ idx[p] \in Stacks(image[p]) /\ image[p] \in Images
        /\ Claimed(p)
    BY <1>1, <1>6 DEF MarkLayer, At, ControlOK, Indexed, ClaimInv
  <2>2. LayerFound(LayersOf[image[p]][idx[p]])
    BY <2>1 DEF Claimed, PastSnapshots, LayerManaged
  <2>3. layerMap' = layerMap /\ directories' = directories
    BY <1>6 DEF MarkLayer
  <2>4. \/ completedJson' = completedJson
        \/ completedJson' = completedJson \cup {LayersOf[image[p]][idx[p]]} /\ LayersOf[image[p]][idx[p]] \in directories
    BY <1>6 DEF MarkLayer
  <2> QED
    BY <1>6, <2>2, <2>3, <2>4 DEF ClaimInv, LayerFound
<1>7. ASSUME UNCHANGED completedJson, directories \subseteq directories', daemon = "up"
      PROVE  /\ completedJson' \subseteq directories'
             /\ \A l \in completedJson' : LayerFound(l)'
  BY <1>1, <1>7, MapGrows DEF ClaimInv, DataOK
<1>8. ASSUME NEW p \in Pulls, Advance(p) PROVE ClaimInv'
  <2>1. daemon = "up"
    BY <1>8, AdvanceRuns
  <2>2. CASE MarkLayer(p)
    BY <1>5, <1>6, <2>1, <2>2 DEF ClaimInv
  <2>3. CASE ~MarkLayer(p)
    <3>1. UNCHANGED completedJson /\ directories \subseteq directories'
      BY <1>8, <2>3
         DEF Advance, FindImage, LoadExisting, DeleteIncomplete, DeltaImage, LockManagerMap, StoreBlob,
             CreateImage, PrepareDirectory, ClaimLayer, AddSnapshot, StatSnapshot, PrepareSnapshot, CommitSnapshot, Announce, DiscardContent, CreateFile,
             WriteFile, ExtractFails, AllExtracted, LabelImage, UpdateManifest, Deferred
    <3> QED
      BY <1>5, <1>7, <2>1, <3>1 DEF ClaimInv
  <2> QED
    BY <2>2, <2>3
<1>9. ASSUME NEW p \in Pulls, Requests(p) PROVE ClaimInv'
  BY <1>5, <1>7, <1>9 DEF ClaimInv, Requests, Request, At
<1>10. CASE WorldStep
  <2>1. UNCHANGED <<completedJson, directories>> /\ (daemon' = "up" => daemon = "up")
    BY <1>10 DEF WorldStep, MountContainer, Crash, Idle, vars
  <2> QED
    BY <1>5, <1>7, <2>1 DEF ClaimInv
<1>11. CASE Restart
  <2>1. \A q \in Pulls : pc'[q] \in {"idle", "done"}
    BY <1>11 DEF Restart, ScannedLayers
  <2>2. \A q \in Pulls : Claimed(q)'
    BY <2>1 DEF Claimed, PastSnapshots
  <2>3. /\ layerMap' = [l \in Layers |-> IF l \in directories \cap completedJson
                                        THEN [manager |-> None, stack |-> -1] ELSE None]
        /\ completedJson' = completedJson /\ directories' = directories \cap completedJson
    BY <1>11 DEF Restart, ScannedLayers
  <2>4. [manager |-> None, stack |-> -1] # None
    BY NamesAssumption
  <2>5. \A l \in completedJson' : LayerFound(l)'
    BY <1>1, <2>3, <2>4 DEF LayerFound, ClaimInv, DataOK
  <2> QED
    BY <2>2, <2>3, <2>5 DEF ClaimInv
<1> QED
  BY <1>8, <1>9, <1>10, <1>11, StepKinds

-----------------------------------------------------------------------------
(* What the snapshots are labelled with.                                    *)

\* Two images with a chain in common have its layers and its lower chains in common.
LEMMA ChainEqual ==
  ASSUME NEW i \in Images, NEW j \in Images, NEW n \in Stacks(i), NEW m \in Stacks(j),
         Chain(i, n) = Chain(j, m)
  PROVE  /\ n = m
         /\ LayersOf[i][n] = LayersOf[j][m]
         /\ \A k \in Stacks(i) : k < n => k \in Stacks(j) /\ Chain(i, k) = Chain(j, k)
<1>1. LayersOf[i] \in Seq(Layers) /\ LayersOf[j] \in Seq(Layers)
  BY ImagesAssumption
<1>2. ASSUME NEW x \in Images, NEW k \in Stacks(x)
      PROVE  /\ Chain(x, k) \in Seq(Layers) /\ Len(Chain(x, k)) = k
             /\ \A y \in 1..k : Chain(x, k)[y] = LayersOf[x][y]
  <2>1. LayersOf[x] \in Seq(Layers) /\ Len(LayersOf[x]) \in Nat
    BY ImagesAssumption
  <2>2. k \in 1..Len(LayersOf[x])
    BY DEF Stacks
  <2> QED
    BY <2>1, <2>2, SubSeqProperties DEF Chain
<1>3. n = m /\ \A y \in 1..n : LayersOf[i][y] = LayersOf[j][y]
  BY <1>2
<1>4. n \in Nat /\ n > 0
  BY <1>1 DEF Stacks
<1>5. ASSUME NEW k \in Stacks(i), k < n PROVE k \in Stacks(j) /\ Chain(i, k) = Chain(j, k)
  <2>1. k \in Stacks(j)
    BY <1>1, <1>3, <1>5 DEF Stacks
  <2>2. \A y \in 1..k : Chain(i, k)[y] = Chain(j, k)[y]
    BY <1>1, <1>2, <1>3, <1>5, <2>1 DEF Stacks
  <2>3. /\ Chain(i, k) \in Seq(Layers) /\ Chain(j, k) \in Seq(Layers)
        /\ Len(Chain(i, k)) = k /\ Len(Chain(j, k)) = k
    BY <1>2, <2>1
  <2>4. Chain(i, k) = Chain(j, k)
    BY <2>2, <2>3, SeqEqual
  <2> QED
    BY <2>1, <2>4
<1> QED
  BY <1>3, <1>4, <1>5

\* A snapshot is labelled with an image its chain belongs to, and never stored above
\* one that is missing.
LabelInv ==
  \A i \in Images : \A n \in Stacks(i) : snapshots[Chain(i, n)] # None =>
    /\ n \in Stacks(snapshots[Chain(i, n)])
    /\ Chain(snapshots[Chain(i, n)], n) = Chain(i, n)
    /\ \A k \in Stacks(i) : k < n => snapshots[Chain(i, k)] # None

LEMMA LabelInit == Init => LabelInv
<1> SUFFICES ASSUME Init PROVE LabelInv
  OBVIOUS
<1>1. \A i \in Images : \A n \in Stacks(i) : snapshots[Chain(i, n)] = None
  BY ChainType DEF Init
<1> QED
  BY <1>1 DEF LabelInv

\* A snapshot is stored, with the label of the pull's image, or no snapshot changes.
LEMMA SnapshotStep ==
  ASSUME TypeInv, [Next]_vars
  PROVE  \/ snapshots' = snapshots
         \/ \E p \in Pulls :
              /\ AddSnapshot(p)
              /\ snapshots[Chain(image[p], idx[p])] = None
              /\ snapshots' = [snapshots EXCEPT ![Chain(image[p], idx[p])] = image[p]]
<1> USE DEF containerdVars, diskVars, memoryVars, worldVars, requestVars, pullVars
<1>1. ASSUME NEW p \in Pulls, AddSnapshot(p)
      PROVE  \/ snapshots' = snapshots
             \/ /\ snapshots[Chain(image[p], idx[p])] = None
                /\ snapshots' = [snapshots EXCEPT ![Chain(image[p], idx[p])] = image[p]]
  BY <1>1 DEF AddSnapshot, StatSnapshot, PrepareSnapshot, CommitSnapshot
<1>2. ASSUME NEW p \in Pulls, Advance(p), ~AddSnapshot(p) PROVE snapshots' = snapshots
  BY <1>2 DEF Advance, FindImage, LoadExisting, DeleteIncomplete, DeltaImage, LockManagerMap, StoreBlob,
       CreateImage, PrepareDirectory, ClaimLayer, Announce, DiscardContent, CreateFile, WriteFile,
       ExtractFails, AllExtracted, MarkLayer, LabelImage, UpdateManifest, Deferred
<1>3. CASE WorldStep \/ Restart \/ \E p \in Pulls : Requests(p)
  BY <1>3 DEF WorldStep, MountContainer, Crash, Idle, vars, Restart, Requests, Request
<1> QED
  BY <1>1, <1>2, <1>3, StepKinds

LEMMA LabelStep ==
  ASSUME TypeInv, LoadableInv, LabelInv, [Next]_vars
  PROVE  LabelInv'
<1>1. ControlOK /\ DataOK
  BY TypeParts
<1>2. \A i \in Images : \A n \in Stacks(i) : Chain(i, n) \in Chains
  BY ChainType
<1>3. CASE snapshots' = snapshots
  BY <1>3 DEF LabelInv
<1>4. ASSUME NEW p \in Pulls, AddSnapshot(p), snapshots[Chain(image[p], idx[p])] = None,
             snapshots' = [snapshots EXCEPT ![Chain(image[p], idx[p])] = image[p]]
      PROVE  LabelInv'
  <2>1. /\ image[p] \in Images /\ idx[p] \in Stacks(image[p])
        /\ pc[p] \in {"snapshot", "create", "commit"} /\ image[p] # None
    BY <1>1, <1>4, NamesAssumption DEF AddSnapshot, StatSnapshot, PrepareSnapshot, CommitSnapshot, At, ControlOK, Indexed
  <2>2. \A c \in Chains : snapshots'[c] = IF c = Chain(image[p], idx[p]) THEN image[p] ELSE snapshots[c]
    BY <1>1, <1>4 DEF DataOK
  <2>3. \A n \in Stacks(image[p]) : n < idx[p] => snapshots[Chain(image[p], n)] # None
    BY <2>1 DEF LoadableInv, Progress, SnapshotsProgress
  <2>4. ASSUME NEW i \in Images, NEW n \in Stacks(i), snapshots'[Chain(i, n)] # None
        PROVE  /\ n \in Stacks(snapshots'[Chain(i, n)])
               /\ Chain(snapshots'[Chain(i, n)], n) = Chain(i, n)
               /\ \A k \in Stacks(i) : k < n => snapshots'[Chain(i, k)] # None
    <3>1. CASE Chain(i, n) = Chain(image[p], idx[p])
      <4>1. /\ n = idx[p]
            /\ \A k \in Stacks(i) : k < n => k \in Stacks(image[p]) /\ Chain(i, k) = Chain(image[p], k)
        BY <2>1, <3>1, ChainEqual
      <4>2. snapshots'[Chain(i, n)] = image[p]
        BY <1>2, <2>2, <3>1
      <4>3. \A k \in Stacks(i) : k < n => snapshots'[Chain(i, k)] # None
        BY <1>2, <2>1, <2>2, <2>3, <4>1
      <4> QED
        BY <2>1, <3>1, <4>1, <4>2, <4>3
    <3>2. CASE Chain(i, n) # Chain(image[p], idx[p])
      <4>1. snapshots'[Chain(i, n)] = snapshots[Chain(i, n)]
        BY <1>2, <2>2, <3>2
      <4>2. /\ n \in Stacks(snapshots[Chain(i, n)])
            /\ Chain(snapshots[Chain(i, n)], n) = Chain(i, n)
            /\ \A k \in Stacks(i) : k < n => snapshots[Chain(i, k)] # None
        BY <2>4, <4>1 DEF LabelInv
      <4>3. \A k \in Stacks(i) : k < n => snapshots'[Chain(i, k)] # None
        BY <1>2, <2>1, <2>2, <4>2
      <4> QED
        BY <4>1, <4>2, <4>3
    <3> QED
      BY <3>1, <3>2
  <2> QED
    BY <2>4 DEF LabelInv, Chain, Stacks
<1> QED
  BY <1>3, <1>4, SnapshotStep

-----------------------------------------------------------------------------
(* A complete image can be mounted.                                         *)

\* The stored layers of an image have a manager.
StoredManaged(m) ==
  \A n \in Stacks(m) : snapshots[Chain(m, n)] # None => LayerManaged(LayersOf[m][n])

\* A manager in memory has given its image's stored layers a manager, or its pull is
\* about to.  A pull that has found no snapshot of a layer may find one when it commits
\* its own, of another pull, but then that one has claimed the layer.
ManagerInv ==
  daemon = "up" =>
    /\ \A m \in Images : managerMap[m] # None => Claiming(m) \/ StoredManaged(m)
    /\ \A p \in Pulls : pc[p] \in {"create", "commit"} => StoredManaged(image[p])

LEMMA ManagerInit == Init => ManagerInv
BY DEF Init, ManagerInv

\* The manager map gains an entry when a pull puts its own, or an image is loaded.
LEMMA ManagerStep ==
  ASSUME TypeInv, daemon = "up", [Next]_vars, NEW m \in Images, managerMap'[m] # None
  PROVE  \/ managerMap[m] # None
         \/ \E p \in Pulls : CreateImage(p) /\ image[p] = m /\ pc'[p] = "prepare"
         \/ LoadImage(m) /\ managerMap[m] = None
<1> USE DEF containerdVars, diskVars, memoryVars, worldVars, requestVars, pullVars
<1>1. ControlOK /\ DataOK
  BY TypeParts
<1>2. ASSUME NEW i \in Images, LoadImage(i)
      PROVE  managerMap[m] # None \/ (LoadImage(m) /\ managerMap[m] = None)
  <2>1. managerMap' = managerMap \/ managerMap' = [managerMap EXCEPT ![i] = i]
    BY <1>2 DEF LoadImage
  <2> QED
    BY <1>1, <1>2, <2>1 DEF DataOK
<1>3. ASSUME NEW p \in Pulls, LoadExisting(p) \/ AddSnapshot(p)
      PROVE  managerMap[m] # None \/ (LoadImage(m) /\ managerMap[m] = None)
  <2>1. image[p] \in Images /\ found[p] \in Images
    BY <1>1 DEF ControlOK, DataOK
  <2>2. LoadImage(image[p]) \/ LoadImage(found[p]) \/ UNCHANGED managerMap
    BY <1>3 DEF LoadExisting, AddSnapshot, StatSnapshot, PrepareSnapshot, CommitSnapshot
  <2> QED
    BY <1>2, <2>1, <2>2
<1>4. ASSUME NEW p \in Pulls, CreateImage(p)
      PROVE  managerMap[m] # None \/ (image[p] = m /\ pc'[p] = "prepare")
  <2>1. CASE managerMap' = managerMap
    BY <2>1
  <2>2. CASE managerMap' = [managerMap EXCEPT ![image[p]] = p] /\ GoTo(p, "prepare", 1)
    BY <1>1, <2>2 DEF ControlOK, DataOK, GoTo
  <2> QED
    BY <1>4, <2>1, <2>2 DEF CreateImage
<1>5. ASSUME NEW p \in Pulls, LockManagerMap(p) PROVE managerMap[m] # None
  BY <1>1, <1>5 DEF LockManagerMap, DataOK, ControlOK
<1>6. ASSUME NEW p \in Pulls, Advance(p),
             ~(CreateImage(p) \/ LockManagerMap(p) \/ LoadExisting(p) \/ AddSnapshot(p))
      PROVE  managerMap' = managerMap
  BY <1>6 DEF Advance, FindImage, DeleteIncomplete, DeltaImage, StoreBlob, PrepareDirectory, ClaimLayer,
       Announce, DiscardContent, CreateFile, WriteFile, ExtractFails, AllExtracted, MarkLayer,
       LabelImage, UpdateManifest, Deferred
<1>7. CASE \E i \in MountedImages : MountContainer(i)
  BY <1>2, <1>7 DEF MountContainer
<1>8. CASE Crash \/ Idle \/ UNCHANGED vars \/ \E p \in Pulls : Requests(p)
  BY <1>8 DEF Crash, Idle, vars, Requests, Request
<1>9. CASE Restart
  BY <1>9 DEF Restart
<1>10. ASSUME NEW p \in Pulls, Advance(p)
       PROVE  \/ managerMap[m] # None
              \/ CreateImage(p) /\ image[p] = m /\ pc'[p] = "prepare"
              \/ LoadImage(m) /\ managerMap[m] = None
  BY <1>3, <1>4, <1>5, <1>6, <1>10
<1> QED
  BY <1>7, <1>8, <1>9, <1>10, StepKinds DEF WorldStep

\* Stored layers with a manager keep it, and a layer is claimed before it is stored.
LEMMA StoredManagedStep ==
  ASSUME TypeInv, ClaimInv, daemon = "up", [Next]_vars, NEW m \in Images, StoredManaged(m)
  PROVE  StoredManaged(m)'
<1>1. ControlOK /\ DataOK
  BY TypeParts
<1>2. \A n \in Stacks(m) : /\ LayersOf[m][n] \in Layers /\ Chain(m, n) \in Chains
                           /\ LayerManaged(LayersOf[m][n]) => LayerManaged(LayersOf[m][n])'
  BY LayerOfImage, ChainType, MapGrows
<1>3. CASE snapshots' = snapshots
  BY <1>2, <1>3 DEF StoredManaged
<1>4. ASSUME NEW p \in Pulls, AddSnapshot(p),
             snapshots' = [snapshots EXCEPT ![Chain(image[p], idx[p])] = image[p]]
      PROVE  StoredManaged(m)'
  <2>1. /\ pc[p] \in {"snapshot", "create", "commit"}
        /\ idx[p] \in Stacks(image[p]) /\ image[p] \in Images /\ idx[p] \in Nat
    BY <1>1, <1>4 DEF AddSnapshot, StatSnapshot, PrepareSnapshot, CommitSnapshot, At, ControlOK, Indexed
  <2>2. LayerManaged(LayersOf[image[p]][idx[p]])
    BY <2>1 DEF ClaimInv, Claimed
  <2>3. \A n \in Stacks(m) : Chain(m, n) = Chain(image[p], idx[p]) => LayerManaged(LayersOf[m][n])
    BY <2>1, <2>2, ChainEqual
  <2>4. \A c \in Chains : snapshots'[c] # None => snapshots[c] # None \/ c = Chain(image[p], idx[p])
    BY <1>1, <1>4 DEF DataOK
  <2> QED
    BY <1>2, <2>3, <2>4 DEF StoredManaged
<1> QED
  BY <1>3, <1>4, SnapshotStep

\* A pull stops claiming only with all its stored layers claimed.
LEMMA ClaimingEnds ==
  ASSUME StoresFail = FALSE, TypeInv, TypeInv', ClaimInv, ClaimInv', ManagerInv,
         daemon = "up", daemon' = "up", [Next]_vars,
         NEW m \in Images, Claiming(m), ~Claiming(m)'
  PROVE  StoredManaged(m)'
<1> USE DEF containerdVars, diskVars, memoryVars, worldVars, requestVars, pullVars
<1>1. ControlOK /\ DataOK
  BY TypeParts
<1>2. PICK q \in Pulls : image[q] = m /\ pc[q] \in {"prepare", "claim", "snapshot", "create", "commit"}
  BY DEF Claiming
<1>3. ~Kept(q)
  BY <1>2 DEF Claiming, Kept
<1>4. ~WorldStep
  BY <1>3 DEF WorldStep, MountContainer, Crash, Idle, vars, Kept
<1>5. ~Requests(q)
  BY <1>2 DEF Requests, Request, At
<1>6. Advance(q)
  BY <1>3, <1>4, <1>5, StepKinds, OthersKept DEF Restart
<1>7. \A b, n : GoTo(q, b, n) => pc'[q] = b
  BY <1>1 DEF GoTo, ControlOK
<1>8. ~PrepareDirectory(q)
  <2> SUFFICES ASSUME PrepareDirectory(q) PROVE FALSE
    OBVIOUS
  <2>1. image'[q] = image[q] /\ (GoTo(q, "prepare", idx[q] + 1) \/ GoTo(q, "claim", 1))
    BY DEF PrepareDirectory, NextLayer
  <2> QED
    BY <1>2, <1>7, <2>1 DEF Claiming
<1>9. ~ClaimLayer(q)
  BY <1>2, <1>7 DEF ClaimLayer, Claiming
<1>10. AddSnapshot(q)
  BY <1>2, <1>6, <1>8, <1>9
     DEF Advance, FindImage, LoadExisting, DeleteIncomplete, DeltaImage, LockManagerMap, StoreBlob,
         CreateImage, Announce, DiscardContent, CreateFile, WriteFile, ExtractFails, AllExtracted,
         MarkLayer, LabelImage, UpdateManifest, Deferred, At
<1>11. /\ pc[q] \in {"snapshot", "create", "commit"}
       /\ image' = image /\ idx[q] \in Stacks(m) /\ idx[q] \in Nat
  BY <1>1, <1>2, <1>10 DEF AddSnapshot, StatSnapshot, PrepareSnapshot, CommitSnapshot, At, Indexed, ControlOK
<1>12. \A n \in Stacks(m) : n <= idx[q] => LayerManaged(LayersOf[m][n])'
  <2>1. \A n \in Stacks(m) : n <= idx[q] => LayerManaged(LayersOf[m][n])
    BY <1>2, <1>11 DEF ClaimInv, Claimed
  <2>2. \A n \in Stacks(m) : LayersOf[m][n] \in Layers
    BY LayerOfImage
  <2> QED
    BY <2>1, <2>2, MapGrows
<1>13. CASE NextLayer(q, "claim", "announce")
  <2>1. ~(idx[q] < Len(LayersOf[m]))
    BY <1>2, <1>7, <1>11, <1>13 DEF NextLayer, Claiming
  <2>2. \A n \in Stacks(m) : n <= idx[q]
    BY <1>11, <2>1, TopLayer
  <2> QED
    BY <1>12, <2>2 DEF StoredManaged, Chain, Stacks
<1>14. CASE pc[q] = "commit"
  BY <1>2, <1>14, StoredManagedStep DEF ManagerInv
<1>15. ~(\E b \in {"create", "commit"} : GoTo(q, b, idx[q]))
  BY <1>2, <1>7, <1>11 DEF Claiming
<1>16. StatSnapshot(q) \/ PrepareSnapshot(q) => NextLayer(q, "claim", "announce")
  BY <1>15 DEF StatSnapshot, PrepareSnapshot
<1>17. CommitSnapshot(q) => pc[q] = "commit"
  BY DEF CommitSnapshot, At
<1> QED
  BY <1>10, <1>13, <1>14, <1>16, <1>17 DEF AddSnapshot

LEMMA ManagerInvStep ==
  ASSUME StoresFail = FALSE, TypeInv, TypeInv', ClaimInv, ClaimInv', LabelInv,
         ManagerInv, [Next]_vars
  PROVE  ManagerInv'
<1> USE DEF containerdVars, diskVars, memoryVars, worldVars, requestVars, pullVars
<1>1. ControlOK /\ DataOK
  BY TypeParts
<1>2. CASE Restart
  <2>1. \A p \in Pulls : pc'[p] \in {"idle", "done"}
    BY <1>2 DEF Restart
  <2>2. \A m \in Images : managerMap'[m] = None
    BY <1>2 DEF Restart
  <2> QED
    BY <2>1, <2>2 DEF ManagerInv
<1>3. SUFFICES ASSUME ~Restart, daemon' = "up"
      PROVE  /\ \A m \in Images : managerMap'[m] # None => Claiming(m)' \/ StoredManaged(m)'
             /\ \A p \in Pulls : pc'[p] \in {"create", "commit"} => StoredManaged(image[p])'
  BY <1>2 DEF ManagerInv
<1>4. daemon = "up"
  BY <1>3, StepKinds, AdvanceRuns DEF WorldStep, MountContainer, Crash, Idle, vars, Requests, Request, At
<1>5. ASSUME NEW m \in Images, managerMap'[m] # None, ~Claiming(m)' PROVE StoredManaged(m)'
  <2>1. CASE Claiming(m)
    BY <1>3, <1>4, <1>5, <2>1, ClaimingEnds
  <2>2. CASE ~Claiming(m) /\ managerMap[m] # None
    BY <1>4, <2>2, StoredManagedStep DEF ManagerInv
  <2>3. CASE managerMap[m] = None
    <3>1. ASSUME NEW p \in Pulls, CreateImage(p), image[p] = m, pc'[p] = "prepare" PROVE FALSE
      BY <1>5, <3>1 DEF CreateImage, Claiming
    <3>2. LoadImage(m)
      BY <1>4, <1>5, <2>3, <3>1, ManagerStep
    <3> QED
      BY <2>3, <3>2, LoadManages DEF StoredManaged, Chain, Stacks
  <2> QED
    BY <2>1, <2>2, <2>3
<1>6. ASSUME NEW p \in Pulls, pc'[p] \in {"create", "commit"} PROVE StoredManaged(image[p])'
  <2>1. CASE Kept(p)
    BY <1>1, <1>4, <1>6, <2>1, StoredManagedStep DEF Kept, ManagerInv, ControlOK
  <2>2. CASE Advance(p)
    <3>1. StatSnapshot(p) \/ PrepareSnapshot(p)
      BY <1>6, <2>2, Arrival
    <3>2. image' = image /\ image[p] \in Images
      BY <1>1, <2>2, AdvanceRuns DEF ControlOK
    <3>3. CASE PrepareSnapshot(p)
      <4>1. pc[p] = "create"
        BY <3>3 DEF PrepareSnapshot, At
      <4> QED
        BY <1>4, <3>2, <4>1, StoredManagedStep DEF ManagerInv
    <3>4. CASE StatSnapshot(p)
      <4>1. /\ snapshots[Chain(image[p], idx[p])] = None /\ UNCHANGED snapshots
            /\ pc[p] = "snapshot" /\ idx[p] \in Stacks(image[p]) /\ idx[p] \in Nat
        <5>1. \A b, n : GoTo(p, b, n) => pc'[p] = b
          BY <1>1 DEF GoTo, ControlOK
        <5>2. ~NextLayer(p, "claim", "announce")
          BY <1>6, <5>1 DEF NextLayer
        <5> QED
          BY <1>1, <3>4, <5>2 DEF StatSnapshot, At, ControlOK, Indexed
      <4>2. \A n \in Stacks(image[p]) : snapshots[Chain(image[p], n)] # None => n <= idx[p]
        <5>1. \A n \in Stacks(image[p]) : idx[p] < n => snapshots[Chain(image[p], n)] = None
          BY <3>2, <4>1 DEF LabelInv
        <5>2. \A n \in Stacks(image[p]) : n \in Nat
          BY ImagesAssumption DEF Stacks
        <5> QED
          BY <4>1, <5>1, <5>2
      <4>3. \A n \in Stacks(image[p]) : n <= idx[p] => LayerManaged(LayersOf[image[p]][n])
        BY <1>4, <4>1 DEF ClaimInv, Claimed
      <4>4. StoredManaged(image[p])
        BY <4>2, <4>3 DEF StoredManaged
      <4> QED
        BY <1>4, <3>2, <4>4, StoredManagedStep
    <3> QED
      BY <3>1, <3>3, <3>4
  <2>3. Kept(p) \/ Advance(p)
    <3>1. CASE WorldStep
      BY <3>1 DEF WorldStep, MountContainer, Crash, Idle, vars, Kept
    <3>2. ASSUME Requests(p) PROVE FALSE
      BY <1>1, <1>6, <3>2 DEF Requests, Request, GoTo, ControlOK
    <3> QED
      BY <1>3, <3>1, <3>2, StepKinds, OthersKept
  <2> QED
    BY <2>1, <2>2, <2>3
<1> QED
  BY <1>5, <1>6

\* When no call of containerd or of the file system fails, a complete image can be
\* mounted at any time the daemon is up: whatever the images share, however pulls
\* interleave, break off and are cut by a crash, and whatever is mounted meanwhile.
THEOREM CompleteMountable == StoresFail = FALSE => (Spec => []CompleteImageMountable)
<1> SUFFICES ASSUME StoresFail = FALSE PROVE Spec => []CompleteImageMountable
  OBVIOUS
<1>1. Spec => []TypeInv
  BY TypeInit, TypeStep, PTL DEF Spec
<1>2. TypeInv /\ TypeInv' /\ LoadableInv /\ [Next]_vars => LoadableInv'
  BY LoadableStep
<1>3. TypeInv /\ TypeInv' /\ ClaimInv /\ [Next]_vars => ClaimInv'
  BY ClaimStep
<1>4. TypeInv /\ LoadableInv /\ LabelInv /\ [Next]_vars => LabelInv'
  BY LabelStep
<1>5. TypeInv /\ TypeInv' /\ ClaimInv /\ ClaimInv' /\ LabelInv /\ ManagerInv /\ [Next]_vars
        => ManagerInv'
  BY ManagerInvStep
<1>6. TypeInv /\ LoadableInv /\ ClaimInv /\ LabelInv /\ ManagerInv => CompleteImageMountable
  <2> SUFFICES ASSUME TypeInv, LoadableInv, ClaimInv, LabelInv, ManagerInv, daemon = "up",
                      NEW i \in Images, imageStore[i] = "complete", NEW n \in Stacks(i),
                      NEW m, m = snapshots[Chain(i, Len(LayersOf[i]))]
               PROVE  /\ LayerFound(LayersOf[i][n])
                      /\ LayerManaged(LayersOf[i][n]) \/ managerMap[m] = None \/ Claiming(m)
    BY DEF CompleteImageMountable
  <2>1. LayerSet(i) \subseteq completedJson /\ \A k \in Stacks(i) : snapshots[Chain(i, k)] # None
    BY DEF LoadableInv, CompleteImageLoadable, SnapshotsStored
  <2>2. LayerFound(LayersOf[i][n])
    BY <2>1 DEF ClaimInv, LayerSet
  <2>3. Len(LayersOf[i]) \in Stacks(i) /\ Len(LayersOf[i]) \in Nat
    BY ImagesAssumption DEF Stacks
  <2>4. m \in Images
    <3>1. Chain(i, Len(LayersOf[i])) \in Chains
      BY <2>3, ChainType
    <3> QED
      BY <2>1, <2>3, <3>1 DEF TypeInv, TypeOK
  <2>5. Len(LayersOf[i]) \in Stacks(m) /\ Chain(m, Len(LayersOf[i])) = Chain(i, Len(LayersOf[i]))
    BY <2>1, <2>3 DEF LabelInv
  <2>6. n \in Stacks(m) /\ Chain(m, n) = Chain(i, n)
    <3>1. CASE n = Len(LayersOf[i])
      BY <2>5, <3>1
    <3>2. CASE n # Len(LayersOf[i])
      <4>1. n < Len(LayersOf[i])
        BY <2>3, <3>2 DEF Stacks
      <4> QED
        BY <2>3, <2>4, <2>5, <4>1, ChainEqual
    <3> QED
      BY <3>1, <3>2
  <2>7. LayersOf[m][n] = LayersOf[i][n]
    BY <2>4, <2>6, ChainEqual
  <2>8. snapshots[Chain(m, n)] # None
    BY <2>1, <2>6
  <2> QED
    BY <2>2, <2>4, <2>6, <2>7, <2>8 DEF ManagerInv, StoredManaged
<1> QED
  BY <1>1, <1>2, <1>3, <1>4, <1>5, <1>6, LoadableInit, ClaimInit, LabelInit, ManagerInit, PTL DEF Spec

-----------------------------------------------------------------------------
(* The contents of a closed signal are extracted, with one pull at a time.  *)

OneInFlight == \A p, q \in Pulls : pc[p] \in Running /\ pc[q] \in Running => p = q

\* No payload brings one file twice.
PayloadsDistinct ==
  \A i \in Images : \A j, k \in DOMAIN Payload[i] : ContentPath(i, j) = ContentPath(i, k) => j = k

\* Where a pull may still extract to the layers it does not skip, and where its
\* signals may be closed.
Skipping == {"claim", "snapshot", "create", "commit", "announce", "extract", "write"}
Past == {"extract", "write", "mark", "label", "manifest", "deferred", "done", "blocked"}

Closing(p) ==
  /\ \A k \in closed[p] :
       /\ k \in DOMAIN Payload[image[p]]
       /\ files[ContentPath(image[p], k)] = "full"
       /\ LayerFound(ContentPath(image[p], k)[1])
  /\ pc[p] \notin Past => closed[p] = {}
  /\ pc[p] \in {"extract", "write"} => \A k \in closed[p] : k < idx[p]
  /\ pc[p] = "write" => idx[p] \in DOMAIN Payload[image[p]]

\* A layer pull p will extract holds nothing another pull has closed the signal of.
Apart(p) ==
  \A n \in Stacks(image[p]) \ completedStack[p] :
    pc[p] \in Skipping \/ (pc[p] = "prepare" /\ n < idx[p]) =>
      \A q \in Pulls \ {p} : \A k \in closed[q] : ContentPath(image[q], k)[1] # LayersOf[image[p]][n]

ClosedInv ==
  daemon = "up" => OneInFlight /\ \A p \in Pulls : Closing(p) /\ Apart(p)

LEMMA ClosedInit == Init => ClosedInv
BY DEF Init, ClosedInv, OneInFlight, Running, Closing, Apart, Skipping

LEMMA OneInFlightStep ==
  ASSUME MaxInFlight = 1, TypeInv, daemon = "up" => OneInFlight, [Next]_vars, daemon' = "up"
  PROVE  OneInFlight'
<1> USE DEF containerdVars, diskVars, memoryVars, worldVars, requestVars, pullVars
<1>1. ControlOK
  BY TypeParts
<1>2. ASSUME NEW p \in Pulls, Advance(p) PROVE OneInFlight'
  <2>1. daemon = "up" /\ pc[p] \in Running /\ \A q \in Pulls \ {p} : pc'[q] = pc[q]
    BY <1>2, AdvanceRuns, OthersKept DEF Kept
  <2> QED
    BY <2>1 DEF OneInFlight
<1>3. ASSUME NEW p \in Pulls, Requests(p) PROVE OneInFlight'
  <2>1. Cardinality(InFlight) < 1 /\ daemon = "up" /\ \A q \in Pulls \ {p} : pc'[q] = pc[q]
    BY <1>3, OthersKept DEF Requests, Request, At, Kept
  <2>2. \A q \in Pulls : q \in InFlight <=> pc[q] \in Running
    BY <1>1 DEF InFlight, Running, ControlOK
  <2>3. InFlight = {}
    <3> SUFFICES ASSUME NEW q \in InFlight PROVE FALSE
      OBVIOUS
    <3>1. InFlight = {} \cup {q}
      BY <2>1, <2>2 DEF OneInFlight, InFlight
    <3>2. Cardinality(InFlight) = Cardinality({}) + 1
      BY <3>1, FS_EmptySet, FS_AddElement
    <3> QED
      BY <2>1, <3>2, FS_EmptySet
  <2> QED
    BY <2>1, <2>2, <2>3 DEF OneInFlight
<1>4. CASE WorldStep
  BY <1>4 DEF WorldStep, MountContainer, Crash, Idle, vars, OneInFlight
<1>5. CASE Restart
  BY <1>5 DEF Restart, OneInFlight, Running
<1> QED
  BY <1>2, <1>3, <1>4, <1>5, StepKinds

\* Once a pull may close signals it goes back to nothing before.
LEMMA PastStays ==
  ASSUME TypeInv, NEW p \in Pulls, Advance(p), pc[p] \in Past
  PROVE  pc'[p] \in Past
<1>1. \A b, n : GoTo(p, b, n) => pc'[p] = b
  BY DEF GoTo, TypeInv, TypeOK
<1>2. \/ DiscardContent(p) \/ CreateFile(p) \/ WriteFile(p) \/ ExtractFails(p) \/ AllExtracted(p)
      \/ MarkLayer(p) \/ LabelImage(p) \/ UpdateManifest(p) \/ Deferred(p)
  BY DEF Advance, Past, At, FindImage, LoadExisting, DeleteIncomplete, DeltaImage, LockManagerMap, StoreBlob,
         CreateImage, PrepareDirectory, ClaimLayer, AddSnapshot, StatSnapshot, PrepareSnapshot, CommitSnapshot, Announce
<1>3. \E b \in Past : \E n : GoTo(p, b, n)
  BY <1>2 DEF DiscardContent, CreateFile, WriteFile, ExtractFails, AllExtracted, MarkLayer, LabelImage,
              UpdateManifest, Deferred, SecondSignal, NextLayer, Past
<1> QED
  BY <1>1, <1>3

\* The files and signals a step of a pull changes.
LEMMA FileStep ==
  ASSUME NEW p \in Pulls, Requests(p) \/ Advance(p)
  PROVE  /\ ~(CreateFile(p) \/ WriteFile(p)) => files' = files
         /\ ~WriteFile(p) => closed' = closed
         /\ ~(PrepareDirectory(p) \/ MarkLayer(p)) => completedStack' = completedStack
<1> USE DEF containerdVars, diskVars, memoryVars, worldVars, requestVars, pullVars
<1>1. CASE FindImage(p) \/ LoadExisting(p) \/ DeleteIncomplete(p) \/ DeltaImage(p)
           \/ LockManagerMap(p) \/ StoreBlob(p) \/ CreateImage(p) \/ Requests(p)
  BY <1>1 DEF FindImage, LoadExisting, DeleteIncomplete, DeltaImage, LockManagerMap, StoreBlob, CreateImage,
              Requests, Request
<1>2. CASE PrepareDirectory(p) \/ ClaimLayer(p) \/ AddSnapshot(p) \/ Announce(p)
           \/ DiscardContent(p) \/ CreateFile(p) \/ WriteFile(p)
  BY <1>2 DEF PrepareDirectory, ClaimLayer, AddSnapshot, StatSnapshot, PrepareSnapshot, CommitSnapshot, Announce, DiscardContent, CreateFile, WriteFile
<1>3. CASE ExtractFails(p) \/ AllExtracted(p) \/ MarkLayer(p) \/ LabelImage(p)
           \/ UpdateManifest(p) \/ Deferred(p)
  BY <1>3 DEF ExtractFails, AllExtracted, MarkLayer, LabelImage, UpdateManifest, Deferred
<1> QED
  BY <1>1, <1>2, <1>3 DEF Advance

\* A content has its file in a layer of its image.
LEMMA ContentPathType ==
  ASSUME NEW i \in Images, NEW k \in DOMAIN Payload[i]
  PROVE  /\ Payload[i][k].stack \in Stacks(i)
         /\ ContentPath(i, k) \in Layers \X Digests
         /\ ContentPath(i, k)[1] = LayersOf[i][Payload[i][k].stack]
         /\ ContentPath(i, k)[1] \in LayerSet(i) /\ ContentPath(i, k)[1] \in Layers
<1>1. Payload[i] \in Seq([stack : Nat, digest : Digests])
  BY ImagesAssumption
<1> DEFINE R == [stack : Nat, digest : Digests]
<1>2. k \in 1..Len(Payload[i]) /\ Payload[i][k] \in R
  <2> HIDE DEF R
  <2>1. Payload[i] \in Seq(R)
    BY <1>1 DEF R
  <2>2. DOMAIN Payload[i] = 1..Len(Payload[i])
    BY <2>1, LenProperties
  <2> QED
    BY <2>1, <2>2, ElementOfSeq
<1>3. Payload[i][k].stack \in Stacks(i) /\ Payload[i][k].digest \in Digests
  BY <1>2, ImagesAssumption DEF Stacks
<1> QED
  BY <1>3, LayerOfImage DEF ContentPath, LayerSet

\* A pull that does not move keeps its closed contents where no file of them changes.
LEMMA ClosingKept ==
  ASSUME TypeInv, daemon = "up", [Next]_vars, NEW q \in Pulls, Kept(q), Closing(q),
         \A k \in closed[q] : files'[ContentPath(image[q], k)] = files[ContentPath(image[q], k)]
  PROVE  Closing(q)'
<1>1. image[q] \in Images
  BY DEF TypeInv, TypeOK
<1>2. \A k \in DOMAIN Payload[image[q]] : ContentPath(image[q], k)[1] \in Layers
  BY <1>1, ContentPathType
<1> QED
  BY <1>2, MapGrows DEF Closing, Kept

LEMMA ClosedStep ==
  ASSUME MaxInFlight = 1, PayloadsDistinct, TypeInv, TypeInv', ClaimInv, ClosedInv, [Next]_vars
  PROVE  ClosedInv'
<1> USE DEF containerdVars, diskVars, memoryVars, worldVars, requestVars, pullVars
<1>1. ControlOK /\ DataOK
  BY TypeParts
<1>2. daemon' = "up" => OneInFlight'
  BY OneInFlightStep DEF ClosedInv
<1>3. ASSUME daemon = "up"
      PROVE  OneInFlight /\ \A p \in Pulls : Closing(p) /\ Apart(p)
  BY <1>3 DEF ClosedInv
<1>4. \A p \in Pulls : image[p] \in Images /\ idx[p] \in Nat \ {0}
  BY <1>1 DEF ControlOK
<1>5. ASSUME NEW p \in Pulls, Advance(p)
      PROVE  \A q \in Pulls : Closing(q)' /\ Apart(q)'
  <2>1. /\ daemon = "up" /\ pc[p] \in Running /\ image' = image
        /\ \A q \in Pulls \ {p} : Kept(q) /\ pc[q] \notin Running
    BY <1>3, <1>5, AdvanceRuns, OthersKept DEF OneInFlight
  <2>2. \A q \in Pulls : Closing(q) /\ Apart(q)
    BY <1>3, <2>1
  <2>3. \A b, n : GoTo(p, b, n) => pc'[p] = b /\ idx'[p] = n
    BY <1>1 DEF GoTo, ControlOK
  <2>4. \A q \in Pulls : \A k \in closed[q] :
          ContentPath(image[q], k) \in Layers \X Digests /\ ContentPath(image[q], k)[1] \in Layers
    BY <1>4, <2>2, ContentPathType DEF Closing
  \* The file the pull is at belongs to no closed content, or is full again.
  <2>5. \A q \in Pulls : \A k \in closed[q] :
          files'[ContentPath(image[q], k)] = files[ContentPath(image[q], k)]
    <3>1. CASE CreateFile(p)
      <4>1. /\ files' = [files EXCEPT ![ContentPath(image[p], idx[p])] = "partial"]
            /\ pc[p] = "extract" /\ idx[p] \in DOMAIN Payload[image[p]]
            /\ Payload[image[p]][idx[p]].stack \notin completedStack[p]
        BY <1>4, <3>1, ImagesAssumption DEF CreateFile, At, Content, MoreContent
      <4>2. \A k \in closed[p] : ContentPath(image[p], k) # ContentPath(image[p], idx[p])
        <5>1. \A k \in closed[p] : k < idx[p] /\ k \in DOMAIN Payload[image[p]]
          BY <2>2, <4>1 DEF Closing
        <5> QED
          BY <1>4, <4>1, <5>1 DEF PayloadsDistinct
      <4>3. \A q \in Pulls \ {p} : \A k \in closed[q] :
              ContentPath(image[q], k) # ContentPath(image[p], idx[p])
        <5>1. Payload[image[p]][idx[p]].stack \in Stacks(image[p]) \ completedStack[p]
          BY <1>4, <4>1, ContentPathType
        <5>2. ContentPath(image[p], idx[p])[1] = LayersOf[image[p]][Payload[image[p]][idx[p]].stack]
          BY <1>4, <4>1, ContentPathType
        <5> QED
          BY <2>2, <4>1, <5>1, <5>2 DEF Apart, Skipping
      <4> QED
        BY <1>1, <2>4, <4>1, <4>2, <4>3 DEF DataOK
    <3>2. CASE WriteFile(p)
      <4>1. files' = [files EXCEPT ![ContentPath(image[p], idx[p])] = "full"]
        BY <3>2 DEF WriteFile
      <4> QED
        BY <1>1, <2>2, <2>4, <4>1 DEF Closing, DataOK
    <3>3. CASE ~(CreateFile(p) \/ WriteFile(p))
      BY <1>5, <3>3, FileStep
    <3> QED
      BY <3>1, <3>2, <3>3
  <2>6. ASSUME NEW q \in Pulls \ {p} PROVE Closing(q)' /\ Apart(q)'
    <3>1. Closing(q)'
      BY <2>1, <2>2, <2>5, ClosingKept
    <3>2. pc'[q] \notin Running
      BY <2>1 DEF Kept
    <3> QED
      BY <3>1, <3>2 DEF Apart, Skipping, Running, PCs
  <2>7. Closing(p)'
    <3>1. \A k \in closed[p] : /\ k \in DOMAIN Payload[image[p]]
                               /\ files'[ContentPath(image[p], k)] = "full"
                               /\ layerMap'[ContentPath(image[p], k)[1]] # None
      BY <2>1, <2>2, <2>4, <2>5, MapGrows DEF Closing, LayerFound
    <3>2. CASE WriteFile(p)
      <4>1. /\ closed' = [closed EXCEPT ![p] = closed[p] \cup {idx[p]}]
            /\ files' = [files EXCEPT ![ContentPath(image[p], idx[p])] = "full"]
            /\ pc[p] = "write" /\ pc'[p] = "extract" /\ idx'[p] = idx[p] + 1
        BY <2>3, <3>2 DEF WriteFile, At
      <4>2. closed'[p] = closed[p] \cup {idx[p]}
        BY <1>1, <4>1 DEF DataOK
      <4>3. idx[p] \in DOMAIN Payload[image[p]] /\ \A k \in closed[p] : k < idx[p]
        BY <2>2, <4>1 DEF Closing
      <4>4. ContentPath(image[p], idx[p]) \in Layers \X Digests /\ ContentPath(image[p], idx[p])[1] \in LayerSet(image[p])
        BY <1>4, <4>3, ContentPathType
      <4>5. files'[ContentPath(image[p], idx[p])] = "full"
        BY <1>1, <4>1, <4>4 DEF DataOK
      <4>6. layerMap'[ContentPath(image[p], idx[p])[1]] # None
        <5>1. \A n \in Stacks(image[p]) : LayerFound(LayersOf[image[p]][n])
          BY <2>1, <4>1 DEF ClaimInv, Claimed, PastSnapshots, LayerManaged
        <5>2. layerMap' = layerMap
          BY <3>2 DEF WriteFile
        <5> QED
          BY <4>4, <5>1, <5>2 DEF LayerSet, LayerFound
      <4>7. closed[p] \subseteq Nat
        BY <1>1 DEF DataOK
      <4>8. \A k \in closed'[p] : k < idx[p] + 1
        BY <1>4, <4>2, <4>3, <4>7
      <4>9. \A k \in closed'[p] : /\ k \in DOMAIN Payload[image[p]]
                                  /\ files'[ContentPath(image[p], k)] = "full"
                                  /\ layerMap'[ContentPath(image[p], k)[1]] # None
        BY <3>1, <4>2, <4>3, <4>5, <4>6 DEF LayerFound
      <4> QED
        BY <2>1, <4>1, <4>8, <4>9 DEF Closing, Past, LayerFound
    <3>3. CASE ~WriteFile(p)
      <4>1. closed' = closed
        BY <1>5, <3>3, FileStep
      <4>2. pc'[p] \notin Past => closed[p] = {}
        BY <1>5, <2>2, PastStays DEF Closing
      <4>3. pc'[p] \in {"extract", "write"} => \A k \in closed[p] : k < idx'[p]
        <5>1. CASE Announce(p)
          BY <2>2, <5>1 DEF Announce, At, Closing, Past
        <5>2. CASE DiscardContent(p)
          <6>1. pc[p] = "extract" /\ idx'[p] = idx[p] + 1 /\ closed[p] \subseteq Nat
            BY <1>1, <2>3, <5>2 DEF DiscardContent, At, DataOK
          <6> QED
            BY <1>4, <2>2, <6>1 DEF Closing
        <5>3. CASE CreateFile(p)
          <6>1. pc[p] = "extract" /\ idx'[p] = idx[p]
            BY <2>3, <5>3 DEF CreateFile, At
          <6> QED
            BY <2>2, <6>1 DEF Closing
        <5> QED
          BY <1>5, <3>3, <5>1, <5>2, <5>3, Arrival
      <4>4. pc'[p] = "write" => idx'[p] \in DOMAIN Payload[image[p]]
        <5> SUFFICES ASSUME CreateFile(p) PROVE idx'[p] \in DOMAIN Payload[image[p]]
          BY <1>5, Arrival
        <5>1. idx'[p] = idx[p] /\ idx[p] \in 1..Len(Payload[image[p]])
          BY <2>3 DEF CreateFile, MoreContent
        <5> QED
          BY <1>4, <5>1, ImagesAssumption
      <4> QED
        BY <2>1, <3>1, <4>1, <4>2, <4>3, <4>4 DEF Closing, LayerFound
    <3> QED
      BY <3>2, <3>3
  <2>8. Apart(p)'
    <3>1. \A q \in Pulls \ {p} : closed'[q] = closed[q] /\ image'[q] = image[q]
      BY <2>1 DEF Kept
    <3>2. CASE pc'[p] \notin Skipping \cup {"prepare"}
      BY <3>2 DEF Apart
    <3>3. CASE CreateImage(p) /\ pc'[p] = "prepare"
      <4>1. idx'[p] = 1 /\ \A n \in Stacks(image[p]) : ~(n < 1)
        BY <1>4, <2>3, <3>3, ImagesAssumption DEF CreateImage, FailFirst, Stacks
      <4> QED
        BY <2>1, <3>3, <4>1 DEF Apart, Skipping
    <3>4. CASE PrepareDirectory(p) /\ pc'[p] \in {"prepare", "claim"}
      <4>1. pc[p] = "prepare" /\ idx[p] \in Stacks(image[p]) /\ Len(LayersOf[image[p]]) \in Nat
        BY <1>1, <1>4, <3>4, ImagesAssumption DEF PrepareDirectory, At, ControlOK, Indexed
      <4>2. NextLayer(p, "prepare", "claim")
        BY <2>3, <3>4 DEF PrepareDirectory, FailFirst
      <4>3. /\ completedStack[p] \subseteq completedStack'[p]
            /\ LayerFound(LayersOf[image[p]][idx[p]]) => idx[p] \in completedStack'[p]
        BY <1>1, <2>3, <3>4 DEF PrepareDirectory, FailFirst, DataOK
      <4>4. \A n \in Stacks(image[p]) :
              pc'[p] \in Skipping \/ (pc'[p] = "prepare" /\ n < idx'[p]) => n < idx[p] \/ n = idx[p]
        <5>1. CASE idx[p] < Len(LayersOf[image[p]])
          <6>1. pc'[p] = "prepare" /\ idx'[p] = idx[p] + 1
            BY <2>3, <4>2, <5>1 DEF NextLayer
          <6> QED
            BY <1>4, <4>1, <6>1 DEF Stacks, Skipping
        <5>2. CASE ~(idx[p] < Len(LayersOf[image[p]]))
          BY <1>4, <4>1, <5>2 DEF Stacks
        <5> QED
          BY <5>1, <5>2
      <4>5. ASSUME NEW n \in Stacks(image[p]) \ completedStack'[p], n < idx[p] \/ n = idx[p],
                   NEW q \in Pulls \ {p}, NEW k \in closed[q]
            PROVE  ContentPath(image[q], k)[1] # LayersOf[image[p]][n]
        <5>1. CASE n < idx[p]
          BY <2>2, <4>1, <4>3, <4>5, <5>1 DEF Apart
        <5>2. CASE n = idx[p]
          <6>1. ~LayerFound(LayersOf[image[p]][n])
            BY <4>3, <4>5, <5>2
          <6>2. LayerFound(ContentPath(image[q], k)[1])
            BY <2>2 DEF Closing
          <6> QED
            BY <6>1, <6>2
        <5> QED
          BY <4>5, <5>1, <5>2
      <4> QED
        BY <2>1, <3>1, <4>4, <4>5 DEF Apart, ContentPath, Stacks
    <3>5. CASE pc[p] \in Skipping /\ pc'[p] \in Skipping
      <4>1. completedStack' = completedStack
        BY <1>5, <3>5, FileStep DEF PrepareDirectory, MarkLayer, At, Skipping
      <4> QED
        BY <2>1, <2>2, <3>1, <3>5, <4>1 DEF Apart, ContentPath, Stacks, Skipping
    <3>6. pc'[p] \in Skipping => PrepareDirectory(p) \/ pc[p] \in Skipping
      BY <1>5, Arrival DEF Skipping, AddSnapshot, StatSnapshot, PrepareSnapshot, CommitSnapshot, ClaimLayer, Announce, DiscardContent, WriteFile, CreateFile, At
    <3>7. CASE pc'[p] \in Skipping
      <4>1. PrepareDirectory(p) => pc'[p] \in {"prepare", "claim", "deferred"}
        BY <2>3 DEF PrepareDirectory, NextLayer, FailFirst
      <4> QED
        BY <3>4, <3>5, <3>6, <3>7, <4>1 DEF Skipping
    <3>8. CASE pc'[p] = "prepare"
      BY <1>5, <3>3, <3>4, <3>8, Arrival
    <3> QED
      BY <3>2, <3>7, <3>8
  <2> QED
    BY <2>6, <2>7, <2>8
<1>6. ASSUME NEW p \in Pulls, Requests(p)
      PROVE  \A q \in Pulls : Closing(q)' /\ Apart(q)'
  <2>1. /\ daemon = "up" /\ pc[p] = "idle" /\ pc'[p] = "find"
        /\ files' = files /\ closed' = closed
        /\ \A q \in Pulls \ {p} : Kept(q)
    BY <1>1, <1>6, OthersKept DEF Requests, Request, At, GoTo, ControlOK
  <2>2. \A q \in Pulls : Closing(q) /\ Apart(q)
    BY <1>3, <2>1
  <2>3. \A q \in Pulls \ {p} : Closing(q)'
    BY <2>1, <2>2, ClosingKept
  <2>4. closed'[p] = {}
    BY <2>1, <2>2 DEF Closing, Past
  <2>5. Closing(p)'
    BY <2>1, <2>4 DEF Closing
  <2>6. OneInFlight'
    BY <1>2, <1>6 DEF Requests, Request, At
  <2>7. \A q \in Pulls \ {p} : pc'[q] \notin Running
    BY <2>1, <2>6 DEF OneInFlight, Running, PCs
  <2>8. \A q \in Pulls : Apart(q)'
    BY <2>1, <2>7 DEF Apart, Skipping, Running, PCs
  <2> QED
    BY <2>3, <2>5, <2>8
<1>7. ASSUME WorldStep, daemon' = "up"
      PROVE  \A q \in Pulls : Closing(q)' /\ Apart(q)'
  <2>1. /\ daemon = "up" /\ UNCHANGED <<files, closed, image, pc, idx, completedStack>>
        /\ \A q \in Pulls : Kept(q)
    BY <1>7 DEF WorldStep, MountContainer, Crash, Idle, vars, Kept
  <2>2. \A q \in Pulls : Closing(q) /\ Apart(q)
    BY <1>3, <2>1
  <2>3. \A q \in Pulls : Closing(q)'
    BY <2>1, <2>2, ClosingKept
  <2>4. \A q \in Pulls : Apart(q)'
    BY <2>1, <2>2 DEF Apart, ContentPath, Stacks
  <2> QED
    BY <2>3, <2>4
<1>8. ASSUME Restart PROVE \A q \in Pulls : Closing(q)' /\ Apart(q)'
  BY <1>8 DEF Restart, Closing, Apart, Skipping
<1> QED
  BY <1>2, <1>5, <1>6, <1>7, <1>8, StepKinds DEF ClosedInv

\* With one pull at a time and payloads that bring no file twice, what a container opens
\* once the signal is closed is extracted, and stays so: through failures of any call,
\* later pulls, crashes and mounts.
THEOREM ClosedExtracted ==
  MaxInFlight = 1 /\ PayloadsDistinct => (Spec => []ClosedMeansExtracted)
<1> SUFFICES ASSUME MaxInFlight = 1, PayloadsDistinct PROVE Spec => []ClosedMeansExtracted
  OBVIOUS
<1>1. Spec => []TypeInv
  BY TypeInit, TypeStep, PTL DEF Spec
<1>2. TypeInv /\ TypeInv' /\ ClaimInv /\ [Next]_vars => ClaimInv'
  BY ClaimStep
<1>3. TypeInv /\ TypeInv' /\ ClaimInv /\ ClosedInv /\ [Next]_vars => ClosedInv'
  BY ClosedStep
<1>4. ClosedInv => ClosedMeansExtracted
  BY DEF ClosedInv, Closing, ClosedMeansExtracted
<1> QED
  BY <1>1, <1>2, <1>3, <1>4, ClaimInit, ClosedInit, PTL DEF Spec

-----------------------------------------------------------------------------
(* A layer with a completed.json is extracted.                              *)

\* Two images with a layer in common bring the same contents for it.
PayloadsAgree ==
  \A i, j \in Images : \A k \in DOMAIN Payload[i] : ContentPath(i, k)[1] \in LayerSet(j) =>
    \E m \in DOMAIN Payload[j] : ContentPath(j, m) = ContentPath(i, k)

\* Where it can be proved: pulls one after the other, none of them breaking off but
\* in a crash.
QuietWorld == MaxInFlight = 1 /\ DownloadsFail = FALSE /\ StoresFail = FALSE

\* Layer l has the contents the payload of image i brings for it.
Filled(i, l) ==
  \A k \in DOMAIN Payload[i] : ContentPath(i, k)[1] = l => files[ContentPath(i, k)] = "full"

\* An image the layer belongs to has brought it.
Full(l) == \E i \in Images : l \in LayerSet(i) /\ Filled(i, l)

Unskipped(p) == Stacks(image[p]) \ completedStack[p]

Extracting(p, l) == pc[p] \in Skipping /\ \E n \in Unskipped(p) : LayersOf[image[p]][n] = l

Received(p, k) ==
  Payload[image[p]][k].stack \notin completedStack[p] => files[ContentPath(image[p], k)] = "full"

Early == {"idle", "find", "load", "delete", "request", "lock", "store"}

\* The snapshot a pull is making is not there yet.
Unstored(p) == pc[p] \in {"create", "commit"} => snapshots[Chain(image[p], idx[p])] = None

\* What pull p knows of the layers it skips, and has done for the ones it does not.
Extraction(p) ==
  /\ Unstored(p)
  /\ pc[p] \in Early => completedStack[p] = {}
  /\ pc[p] = "load" => LayerSet(found[p]) \subseteq completedJson
  /\ pc[p] = "prepare" =>
       \A n \in Stacks(image[p]) :
         n \in completedStack[p] <=> n < idx[p] /\ LayerFound(LayersOf[image[p]][n])
  /\ pc[p] \in Skipping =>
       /\ \A n \in Stacks(image[p]) \cap completedStack[p] : Full(LayersOf[image[p]][n])
       /\ \A n \in Unskipped(p) :
            /\ LayersOf[image[p]][n] \notin completedJson
            /\ \A m \in Stacks(image[p]) \cap completedStack[p] : LayersOf[image[p]][m] # LayersOf[image[p]][n]
  /\ pc[p] = "extract" => \A k \in DOMAIN Payload[image[p]] : k < idx[p] => Received(p, k)
  /\ pc[p] = "write" =>
       /\ idx[p] \in DOMAIN Payload[image[p]]
       /\ Payload[image[p]][idx[p]].stack \notin completedStack[p]
       /\ \A k \in DOMAIN Payload[image[p]] : k < idx[p] =>
            Received(p, k) \/ ContentPath(image[p], k) = ContentPath(image[p], idx[p])
  /\ pc[p] = "mark" => \A n \in Stacks(image[p]) : Full(LayersOf[image[p]][n])

FoundFull == \A l \in Layers : LayerFound(l) => Full(l) \/ \E p \in Pulls : Extracting(p, l)

ExtractInv ==
  /\ \A l \in completedJson : Full(l)
  /\ daemon = "up" => OneInFlight /\ FoundFull /\ \A p \in Pulls : Extraction(p)

LEMMA ExtractInit == Init => ExtractInv
BY DEF Init, ExtractInv, OneInFlight, Running, FoundFull, LayerFound, Extraction, Skipping, Unstored

\* A layer loses a content only to the file a pull creates in it.
LEMMA FullStep ==
  ASSUME TypeInv, NEW p \in Pulls, Requests(p) \/ Advance(p), NEW l, Full(l),
         CreateFile(p) => ContentPath(image[p], idx[p])[1] # l
  PROVE  Full(l)'
<1>1. DataOK
  BY TypeParts
<1>2. ASSUME NEW i \in Images, Filled(i, l), NEW k \in DOMAIN Payload[i], ContentPath(i, k)[1] = l
      PROVE  files'[ContentPath(i, k)] = "full"
  <2>1. files[ContentPath(i, k)] = "full" /\ ContentPath(i, k) \in Layers \X Digests
    BY <1>2, ContentPathType DEF Filled
  <2>2. CASE CreateFile(p)
    <3>1. files' = [files EXCEPT ![ContentPath(image[p], idx[p])] = "partial"]
      BY <2>2 DEF CreateFile
    <3> QED
      BY <1>1, <1>2, <2>1, <2>2, <3>1 DEF DataOK
  <2>3. CASE WriteFile(p)
    <3>1. files' = [files EXCEPT ![ContentPath(image[p], idx[p])] = "full"]
      BY <2>3 DEF WriteFile
    <3> QED
      BY <1>1, <2>1, <3>1 DEF DataOK
  <2>4. CASE ~(CreateFile(p) \/ WriteFile(p))
    BY <2>1, <2>4, FileStep
  <2> QED
    BY <2>2, <2>3, <2>4
<1> QED
  BY <1>2 DEF Full, Filled

\* A layer enters the layer map with the image loaded or claimed.
LEMMA FoundStep ==
  ASSUME TypeInv, NEW p \in Pulls, Requests(p) \/ Advance(p), NEW l \in Layers, LayerFound(l)'
  PROVE  \/ LayerFound(l)
         \/ LoadExisting(p) /\ l \in LayerSet(found[p])
         \/ (ClaimLayer(p) \/ AddSnapshot(p)) /\ l \in LayerSet(image[p])
<1> USE DEF containerdVars, diskVars, memoryVars, worldVars, requestVars, pullVars
<1>1. ControlOK /\ DataOK
  BY TypeParts
<1>2. CASE layerMap' = layerMap
  BY <1>2 DEF LayerFound
<1>3. ASSUME NEW i \in Images, LoadImage(i) PROVE LayerFound(l) \/ l \in LayerSet(i)
  BY <1>3 DEF LoadImage, LayerFound
<1>4. CASE ClaimLayer(p)
  <2>1. image[p] \in Images /\ idx[p] \in Stacks(image[p])
    BY <1>1, <1>4 DEF ClaimLayer, At, ControlOK, Indexed
  <2>2. LayersOf[image[p]][idx[p]] \in LayerSet(image[p])
    BY <2>1 DEF LayerSet
  <2>3. \/ layerMap' = layerMap
        \/ layerMap' = [layerMap EXCEPT ![LayersOf[image[p]][idx[p]]] = [manager |-> p, stack |-> idx[p]]]
    BY <1>4 DEF ClaimLayer
  <2> QED
    BY <1>1, <1>2, <1>4, <2>2, <2>3 DEF LayerFound, DataOK
<1>5. CASE LoadExisting(p)
  BY <1>1, <1>2, <1>3, <1>5 DEF LoadExisting, DataOK
<1>6. CASE AddSnapshot(p)
  BY <1>1, <1>2, <1>3, <1>6 DEF AddSnapshot, StatSnapshot, PrepareSnapshot, CommitSnapshot, ControlOK
<1>7. CASE ~(ClaimLayer(p) \/ LoadExisting(p) \/ AddSnapshot(p))
  <2>1. layerMap' = layerMap
    BY <1>7 DEF Requests, Request, Advance, FindImage, DeleteIncomplete, DeltaImage, LockManagerMap,
         StoreBlob, CreateImage, PrepareDirectory, Announce, DiscardContent, CreateFile, WriteFile,
         ExtractFails, AllExtracted, MarkLayer, LabelImage, UpdateManifest, Deferred
  <2> QED
    BY <1>2, <2>1
<1> QED
  BY <1>4, <1>5, <1>6, <1>7

\* Only a pull that has not prepared its directories is where it has skipped nothing.
LEMMA EarlyBefore ==
  ASSUME TypeInv, NEW p \in Pulls, Requests(p) \/ Advance(p), pc'[p] \in Early
  PROVE  /\ pc[p] \in Early
         /\ completedStack' = completedStack
         /\ pc'[p] = "load" => FindImage(p)
<1>1. \A b, n : GoTo(p, b, n) => pc'[p] = b
  BY DEF GoTo, TypeInv, TypeOK
<1>2. Requests(p) => pc[p] \in Early /\ pc'[p] # "load" /\ completedStack' = completedStack
  BY <1>1 DEF Requests, Request, At, Early
<1>3. ASSUME CreateImage(p) \/ PrepareDirectory(p) \/ ClaimLayer(p) \/ AddSnapshot(p) \/ Announce(p) \/ DiscardContent(p)
             \/ CreateFile(p) \/ WriteFile(p)
      PROVE  pc'[p] \notin Early
  <2>1. \E b \in {"prepare", "claim", "snapshot", "create", "commit", "announce", "extract", "write", "deferred"} : \E n : GoTo(p, b, n)
    BY <1>3 DEF CreateImage, PrepareDirectory, ClaimLayer, AddSnapshot, StatSnapshot, PrepareSnapshot, CommitSnapshot, Announce, DiscardContent, CreateFile,
                WriteFile, FailFirst, NextLayer
  <2> QED
    BY <1>1, <2>1 DEF Early
<1>4. ASSUME ExtractFails(p) \/ AllExtracted(p) \/ MarkLayer(p) \/ LabelImage(p) \/ UpdateManifest(p) \/ Deferred(p)
      PROVE  pc'[p] \notin Early
  <2>1. \E b \in {"mark", "label", "manifest", "deferred", "blocked", "done"} : \E n : GoTo(p, b, n)
    BY <1>4 DEF ExtractFails, AllExtracted, MarkLayer, LabelImage, UpdateManifest, Deferred, SecondSignal,
                NextLayer
  <2> QED
    BY <1>1, <2>1 DEF Early
<1>5. ASSUME LoadExisting(p) \/ DeleteIncomplete(p) \/ DeltaImage(p) \/ LockManagerMap(p) \/ StoreBlob(p)
      PROVE  pc[p] \in Early /\ pc'[p] # "load" /\ completedStack' = completedStack
  <2>1. \E b \in {"done", "request", "lock", "store", "deferred"} : \E n : GoTo(p, b, n)
    BY <1>5 DEF LoadExisting, DeleteIncomplete, DeltaImage, LockManagerMap, StoreBlob, FailFirst
  <2>2. pc[p] \in Early /\ completedStack' = completedStack
    BY <1>5 DEF LoadExisting, DeleteIncomplete, DeltaImage, LockManagerMap, StoreBlob, At, Early
  <2> QED
    BY <1>1, <2>1, <2>2
<1>6. FindImage(p) => pc[p] \in Early /\ completedStack' = completedStack
  BY DEF FindImage, At, Early
<1> QED
  BY <1>2, <1>3, <1>4, <1>5, <1>6 DEF Advance

\* Without failures a pull goes through its layers one by one.
LEMMA NoFailure ==
  ASSUME QuietWorld, TypeInv, NEW p \in Pulls, Backed(p), Unstored(p)
  PROVE  /\ PrepareDirectory(p) => NextLayer(p, "prepare", "claim")
         /\ AddSnapshot(p) => \/ NextLayer(p, "claim", "announce")
                              \/ \E b \in {"create", "commit"} : GoTo(p, b, idx[p])
         /\ MarkLayer(p) =>
              /\ NextLayer(p, "mark", "label")
              /\ completedJson' = completedJson \cup {LayersOf[image[p]][idx[p]]}
         /\ ~ExtractFails(p)
<1>1. ControlOK
  BY TypeParts
<1>2. PrepareDirectory(p) => NextLayer(p, "prepare", "claim")
  BY DEF PrepareDirectory, QuietWorld
<1>3. ASSUME pc[p] \in {"snapshot", "create", "commit", "mark"} PROVE LayersOf[image[p]][idx[p]] \in directories
  BY <1>1, <1>3 DEF Backed, PastPrepare, Indexed, ControlOK, LayerSet
<1>4. AddSnapshot(p) => \/ NextLayer(p, "claim", "announce")
                        \/ \E b \in {"create", "commit"} : GoTo(p, b, idx[p])
  <2>1. CommitSnapshot(p) => NextLayer(p, "claim", "announce")
    BY <1>3 DEF CommitSnapshot, At, QuietWorld, Unstored
  <2>2. StatSnapshot(p) => NextLayer(p, "claim", "announce") \/ GoTo(p, "create", idx[p])
    BY DEF StatSnapshot
  <2>3. PrepareSnapshot(p) => GoTo(p, "commit", idx[p])
    BY DEF PrepareSnapshot, QuietWorld
  <2> QED
    BY <2>1, <2>2, <2>3 DEF AddSnapshot
<1>5. MarkLayer(p) => NextLayer(p, "mark", "label")
                      /\ completedJson' = completedJson \cup {LayersOf[image[p]][idx[p]]}
  BY <1>3 DEF MarkLayer, At, QuietWorld
<1>6. ~ExtractFails(p)
  BY DEF ExtractFails, QuietWorld
<1> QED
  BY <1>2, <1>4, <1>5, <1>6

\* What a pull that has read its payload to the end has to know.
LEMMA MarkedFull ==
  ASSUME NEW p \in Pulls, image' = image, Unstored(p)', pc'[p] \in {"mark", "label"},
         \A n \in Stacks(image'[p]) : Full(LayersOf[image[p]][n])'
  PROVE  Extraction(p)'
<1>1. \A n \in Stacks(image'[p]) : \E i \in Images :
        LayersOf[image'[p]][n] \in LayerSet(i) /\ Filled(i, LayersOf[image[p]][n])'
  BY DEF Full
<1> QED
  BY <1>1 DEF Extraction, Early, Skipping, Full, Filled

\* The step of a pull, from what it knows to what it then knows.
LEMMA ExtractionStep ==
  ASSUME QuietWorld, TypeInv, TypeInv', ClaimInv, CompleteImageLoadable,
         ExtractInv, NEW p \in Pulls, Backed(p), Advance(p)
  PROVE  Extraction(p)'
<1> USE DEF containerdVars, diskVars, memoryVars, worldVars, requestVars, pullVars
<1>1. ControlOK /\ DataOK
  BY TypeParts
<1>2. /\ daemon = "up" /\ pc[p] \in Running /\ image' = image /\ image[p] \in Images
      /\ idx[p] \in Nat \ {0} /\ Len(LayersOf[image[p]]) \in Nat
  BY <1>1, AdvanceRuns, ImagesAssumption DEF ControlOK
<1>3. Extraction(p) /\ OneInFlight /\ FoundFull /\ \A l \in completedJson : Full(l)
  BY <1>2 DEF ExtractInv
<1>4. \A b, n : GoTo(p, b, n) => pc'[p] = b /\ idx'[p] = n
  BY <1>1 DEF GoTo, ControlOK
<1>5. \A n \in Stacks(image[p]) : LayersOf[image[p]][n] \in Layers /\ LayersOf[image[p]][n] \in LayerSet(image[p])
  BY <1>2, LayerOfImage DEF LayerSet
\* Nothing is being extracted unless this pull extracts it.
<1>6. ASSUME NEW l \in Layers, LayerFound(l), ~Extracting(p, l) PROVE Full(l)
  <2>1. \A q \in Pulls : Extracting(q, l) => pc[q] \in Running
    BY DEF Extracting, Skipping, Running, PCs
  <2> QED
    BY <1>2, <1>3, <1>6, <2>1 DEF FoundFull, OneInFlight
\* It makes a snapshot only where it found none.
<1>6a. Unstored(p)'
  <2> SUFFICES ASSUME pc'[p] \in {"create", "commit"}
               PROVE  snapshots'[Chain(image[p], idx'[p])] = None
    BY <1>2 DEF Unstored, Chain
  <2>1. CASE StatSnapshot(p)
    <3>1. ~NextLayer(p, "claim", "announce")
      BY <1>4 DEF NextLayer
    <3> QED
      BY <1>4, <2>1, <3>1 DEF StatSnapshot, QuietWorld
  <2>2. CASE PrepareSnapshot(p)
    <3>1. pc[p] = "create" /\ UNCHANGED snapshots /\ idx'[p] = idx[p]
      BY <1>4, <2>2 DEF PrepareSnapshot, At, QuietWorld
    <3> QED
      BY <1>3, <3>1 DEF Extraction, Unstored
  <2> QED
    BY <2>1, <2>2, Arrival
<1>6b. Unstored(p)
  BY <1>3 DEF Extraction
<1>7. CASE pc'[p] \in Early
  <2>1. completedStack'[p] = {}
    BY <1>3, <1>7, EarlyBefore DEF Extraction
  <2>2. pc'[p] = "load" => LayerSet(found'[p]) \subseteq completedJson'
    <3> SUFFICES ASSUME pc'[p] = "load" PROVE LayerSet(found'[p]) \subseteq completedJson'
      OBVIOUS
    <3>1. FindImage(p)
      BY <1>7, EarlyBefore
    <3>2. PICK j \in Matching(image[p]) :
            /\ found' = [found EXCEPT ![p] = j]
            /\ GoTo(p, IF imageStore[j] = "complete" THEN "load" ELSE "delete", 1)
      BY <1>4, <3>1 DEF FindImage, FailFirst
    <3>3. j \in Images /\ imageStore[j] = "complete" /\ found'[p] = j
      BY <1>1, <1>2, <1>4, <3>2, ImagesAssumption DEF Matching, DataOK
    <3>4. completedJson' = completedJson
      BY <3>1 DEF FindImage
    <3> QED
      BY <3>3, <3>4 DEF CompleteImageLoadable
  <2>3. pc'[p] \notin Skipping \cup {"prepare", "mark"}
    BY <1>7 DEF Early, Skipping
  <2> QED
    BY <1>6a, <2>1, <2>2, <2>3 DEF Extraction, Skipping
<1>8. CASE pc'[p] = "prepare"
  <2>1. CASE CreateImage(p)
    <3>1. pc[p] = "store" /\ idx'[p] = 1 /\ completedStack' = completedStack
      BY <1>4, <1>8, <2>1 DEF CreateImage, FailFirst, At
    <3>2. completedStack'[p] = {} /\ \A n \in Stacks(image[p]) : ~(n < 1)
      BY <1>2, <1>3, <3>1 DEF Extraction, Early, Stacks
    <3> QED
      BY <1>2, <1>6a, <1>8, <3>1, <3>2 DEF Extraction, Early, Skipping
  <2>2. CASE PrepareDirectory(p)
    <3>1. pc[p] = "prepare" /\ idx[p] \in Stacks(image[p]) /\ layerMap' = layerMap
      BY <1>1, <2>2 DEF PrepareDirectory, At, ControlOK, Indexed
    <3>2. idx'[p] = idx[p] + 1
      BY <1>4, <1>6b, <1>8, <2>2, NoFailure DEF NextLayer
    <3>3. completedStack'[p] = IF LayerFound(LayersOf[image[p]][idx[p]])
                               THEN completedStack[p] \cup {idx[p]} ELSE completedStack[p]
      BY <1>1, <2>2 DEF PrepareDirectory, DataOK
    <3>4. \A n \in Stacks(image[p]) :
            n \in completedStack[p] <=> n < idx[p] /\ LayerFound(LayersOf[image[p]][n])
      BY <1>3, <3>1 DEF Extraction
    <3>5. \A n \in Stacks(image[p]) :
            n \in completedStack'[p] <=> n < idx[p] + 1 /\ LayerFound(LayersOf[image[p]][n])
      <4>1. \A n \in Stacks(image[p]) : n \in Nat
        BY DEF Stacks
      <4> QED
        BY <1>2, <3>3, <3>4, <4>1
    <3> QED
      BY <1>2, <1>6a, <1>8, <3>1, <3>2, <3>5 DEF Extraction, Early, Skipping, LayerFound
  <2> QED
    BY <1>8, <2>1, <2>2, Arrival
<1>8a. DOMAIN Payload[image[p]] \subseteq Nat
  <2>1. Payload[image[p]] \in Seq([stack : Nat, digest : Digests])
    BY <1>2, ImagesAssumption
  <2>2. DOMAIN Payload[image[p]] = 1..Len(Payload[image[p]]) /\ Len(Payload[image[p]]) \in Nat
    BY <2>1, LenProperties
  <2> QED
    BY <2>2
\* The layers to skip are known.
<1>9. ASSUME pc'[p] \in Skipping
      PROVE  /\ \A n \in Stacks(image[p]) \cap completedStack'[p] : Full(LayersOf[image[p]][n])
             /\ \A n \in Stacks(image[p]) \ completedStack'[p] :
                  /\ LayersOf[image[p]][n] \notin completedJson'
                  /\ \A m \in Stacks(image[p]) \cap completedStack'[p] :
                       LayersOf[image[p]][m] # LayersOf[image[p]][n]
  <2>1. CASE PrepareDirectory(p)
    <3>1. /\ pc[p] = "prepare" /\ idx[p] \in Stacks(image[p])
          /\ layerMap' = layerMap /\ completedJson' = completedJson
      BY <1>1, <2>1 DEF PrepareDirectory, At, ControlOK, Indexed
    <3>2. ~(idx[p] < Len(LayersOf[image[p]]))
      BY <1>4, <1>6b, <1>9, <2>1, NoFailure DEF NextLayer, Skipping
    <3>3. completedStack'[p] = IF LayerFound(LayersOf[image[p]][idx[p]])
                               THEN completedStack[p] \cup {idx[p]} ELSE completedStack[p]
      BY <1>1, <2>1 DEF PrepareDirectory, DataOK
    <3>4. \A n \in Stacks(image[p]) :
            n \in completedStack[p] <=> n < idx[p] /\ LayerFound(LayersOf[image[p]][n])
      BY <1>3, <3>1 DEF Extraction
    <3>5. \A n \in Stacks(image[p]) : n < idx[p] \/ n = idx[p]
      BY <1>2, <3>1, <3>2 DEF Stacks
    <3>6. \A n \in Stacks(image[p]) : n \in completedStack'[p] <=> LayerFound(LayersOf[image[p]][n])
      BY <1>2, <3>3, <3>4, <3>5
    <3>7. \A l \in Layers : ~Extracting(p, l)
      BY <3>1 DEF Extracting, Skipping
    <3>8. \A n \in Stacks(image[p]) \cap completedStack'[p] : Full(LayersOf[image[p]][n])
      BY <1>5, <1>6, <3>6, <3>7
    <3>9. \A l \in completedJson : LayerFound(l)
      BY <1>2 DEF ClaimInv
    <3> QED
      BY <3>1, <3>6, <3>8, <3>9
  <2>2. CASE pc[p] \in Skipping
    <3>1. completedStack' = completedStack
      BY <2>2, FileStep DEF PrepareDirectory, MarkLayer, At, Skipping
    <3>2. completedJson' = completedJson
      BY <2>2 DEF Advance, FindImage, LoadExisting, DeleteIncomplete, DeltaImage, LockManagerMap, StoreBlob,
         CreateImage, PrepareDirectory, ClaimLayer, AddSnapshot, StatSnapshot, PrepareSnapshot, CommitSnapshot, Announce, DiscardContent, CreateFile,
         WriteFile, ExtractFails, AllExtracted, MarkLayer, LabelImage, UpdateManifest, Deferred, At, Skipping
    <3> QED
      BY <1>3, <2>2, <3>1, <3>2 DEF Extraction, Unskipped
  <2> QED
    BY <1>9, <2>1, <2>2, Arrival
       DEF Skipping, AddSnapshot, StatSnapshot, PrepareSnapshot, CommitSnapshot, ClaimLayer, Announce, DiscardContent, WriteFile, CreateFile, At
\* The file the pull is about to create is in no layer it skips.
<1>10. ASSUME CreateFile(p)
       PROVE  /\ idx[p] \in DOMAIN Payload[image[p]] /\ pc[p] = "extract" /\ pc'[p] = "write"
              /\ idx'[p] = idx[p] /\ completedStack' = completedStack
              /\ Payload[image[p]][idx[p]].stack \in Unskipped(p)
              /\ ContentPath(image[p], idx[p])[1] = LayersOf[image[p]][Payload[image[p]][idx[p]].stack]
  <2>1. idx[p] \in DOMAIN Payload[image[p]]
    BY <1>2, <1>10, ImagesAssumption DEF CreateFile, MoreContent
  <2> QED
    BY <1>2, <1>4, <1>10, <2>1, ContentPathType DEF CreateFile, At, Content, Unskipped
<1>11. ASSUME pc'[p] \in Skipping
       PROVE  \A n \in Stacks(image[p]) \cap completedStack'[p] :
                \A l \in Layers : LayersOf[image[p]][n] = l => Full(l)'
  <2> SUFFICES ASSUME NEW n \in Stacks(image[p]) \cap completedStack'[p], NEW l \in Layers,
                      LayersOf[image[p]][n] = l
               PROVE  Full(l)'
    OBVIOUS
  <2>1. Full(l)
    BY <1>9, <1>11
  <2>2. CreateFile(p) => ContentPath(image[p], idx[p])[1] # l
    BY <1>9, <1>10, <1>11 DEF Unskipped
  <2> QED
    BY <2>1, <2>2, FullStep
\* What a pull that skips layers then knows.
<1>12. ASSUME pc'[p] \in Skipping,
              pc'[p] = "extract" =>
                \A k \in DOMAIN Payload[image[p]] : k < idx'[p] =>
                  \/ Payload[image[p]][k].stack \in completedStack'[p]
                  \/ files'[ContentPath(image[p], k)] = "full",
              pc'[p] = "write" =>
                /\ idx'[p] \in DOMAIN Payload[image[p]]
                /\ Payload[image[p]][idx'[p]].stack \notin completedStack'[p]
                /\ \A k \in DOMAIN Payload[image[p]] : k < idx'[p] =>
                     \/ Payload[image[p]][k].stack \in completedStack'[p]
                     \/ files'[ContentPath(image[p], k)] = "full"
                     \/ ContentPath(image[p], k) = ContentPath(image[p], idx'[p])
       PROVE  Extraction(p)'
  <2>1. \A n \in Stacks(image[p]) \cap completedStack'[p] : Full(LayersOf[image[p]][n])'
    BY <1>2, <1>5, <1>11, <1>12 DEF Full, Filled
  <2>2. \A n \in Stacks(image'[p]) \cap completedStack'[p] : \E i \in Images :
          LayersOf[image'[p]][n] \in LayerSet(i) /\ Filled(i, LayersOf[image[p]][n])'
    BY <1>2, <2>1 DEF Full
  <2> QED
    BY <1>2, <1>6a, <1>9, <1>12, <2>2 DEF Extraction, Early, Skipping, Unskipped, Received, Full, Filled
<1>13. CASE pc'[p] \in {"claim", "snapshot", "create", "commit", "announce"}
  BY <1>12, <1>13 DEF Skipping
<1>14. CASE pc'[p] = "write"
  <2>1. CreateFile(p)
    BY <1>14, Arrival
  <2>2. files' = [files EXCEPT ![ContentPath(image[p], idx[p])] = "partial"]
    BY <2>1 DEF CreateFile
  <2>3. \A k \in DOMAIN Payload[image[p]] : k < idx[p] => Received(p, k)
    BY <1>3, <1>10, <2>1 DEF Extraction
  <2>4. \A k \in DOMAIN Payload[image[p]] : ContentPath(image[p], k) \in Layers \X Digests
    BY <1>2, ContentPathType
  <2>5. \A k \in DOMAIN Payload[image[p]] : k < idx[p] =>
          \/ Payload[image[p]][k].stack \in completedStack[p]
          \/ files'[ContentPath(image[p], k)] = "full"
          \/ ContentPath(image[p], k) = ContentPath(image[p], idx[p])
    BY <1>1, <2>2, <2>3, <2>4 DEF Received, DataOK
  <2> QED
    BY <1>10, <1>12, <1>14, <2>1, <2>5 DEF Skipping, Unskipped
<1>15. CASE pc'[p] = "extract"
  <2>1. CASE Announce(p)
    <3>1. idx'[p] = 1
      BY <1>4, <2>1 DEF Announce
    <3>2. \A k \in DOMAIN Payload[image[p]] : ~(k < 1)
      BY <1>2, ImagesAssumption
    <3> QED
      BY <1>12, <1>15, <3>1, <3>2 DEF Skipping
  <2>2. CASE DiscardContent(p)
    <3>1. /\ pc[p] = "extract" /\ idx'[p] = idx[p] + 1
          /\ Payload[image[p]][idx[p]].stack \in completedStack[p]
          /\ completedStack' = completedStack /\ files' = files
      BY <1>4, <2>2 DEF DiscardContent, At, Content
    <3>2. \A k \in DOMAIN Payload[image[p]] : k < idx[p] => Received(p, k)
      BY <1>3, <3>1 DEF Extraction
    <3>3. \A k \in DOMAIN Payload[image[p]] : k < idx[p] + 1 => k < idx[p] \/ k = idx[p]
      BY <1>2, <1>8a
    <3> QED
      BY <1>12, <1>15, <3>1, <3>2, <3>3 DEF Skipping, Received
  <2>3. CASE WriteFile(p)
    <3>1. /\ pc[p] = "write" /\ idx'[p] = idx[p] + 1 /\ completedStack' = completedStack
          /\ files' = [files EXCEPT ![ContentPath(image[p], idx[p])] = "full"]
      BY <1>4, <2>3 DEF WriteFile, At
    <3>2. /\ idx[p] \in DOMAIN Payload[image[p]]
          /\ \A k \in DOMAIN Payload[image[p]] : k < idx[p] =>
               Received(p, k) \/ ContentPath(image[p], k) = ContentPath(image[p], idx[p])
      BY <1>3, <3>1 DEF Extraction
    <3>3. \A k \in DOMAIN Payload[image[p]] : k < idx[p] + 1 => k < idx[p] \/ k = idx[p]
      BY <1>2, <1>8a
    <3>4. \A k \in DOMAIN Payload[image[p]] : ContentPath(image[p], k) \in Layers \X Digests
      BY <1>2, ContentPathType
    <3>5. /\ files'[ContentPath(image[p], idx[p])] = "full"
          /\ \A f \in Layers \X Digests : files[f] = "full" => files'[f] = "full"
      BY <1>1, <3>1, <3>2, <3>4 DEF DataOK
    <3>6. \A k \in DOMAIN Payload[image[p]] : k < idx[p] + 1 =>
            \/ Payload[image[p]][k].stack \in completedStack[p]
            \/ files'[ContentPath(image[p], k)] = "full"
      BY <3>2, <3>3, <3>4, <3>5 DEF Received
    <3> QED
      BY <1>12, <1>15, <3>1, <3>6 DEF Skipping
  <2> QED
    BY <1>15, <2>1, <2>2, <2>3, Arrival
\* The payload has brought everything for the layers not skipped.
<1>16. CASE AllExtracted(p)
  <2>1. /\ pc[p] = "extract" /\ pc'[p] = "mark" /\ files' = files
        /\ \A k \in DOMAIN Payload[image[p]] : k < idx[p]
    BY <1>2, <1>4, <1>16, ImagesAssumption DEF AllExtracted, At
  <2>2. \A k \in DOMAIN Payload[image[p]] : Received(p, k)
    BY <1>3, <2>1 DEF Extraction
  <2>3. \A n \in Stacks(image[p]) \cap completedStack[p] : Full(LayersOf[image[p]][n])
    BY <1>3, <2>1 DEF Extraction, Skipping
  <2>4. ASSUME NEW n \in Stacks(image[p]) PROVE Full(LayersOf[image[p]][n])
    <3>1. CASE \E m \in Stacks(image[p]) \cap completedStack[p] : LayersOf[image[p]][m] = LayersOf[image[p]][n]
      BY <2>3, <3>1
    <3>2. CASE \A m \in Stacks(image[p]) \cap completedStack[p] : LayersOf[image[p]][m] # LayersOf[image[p]][n]
      <4>1. \A k \in DOMAIN Payload[image[p]] :
              /\ Payload[image[p]][k].stack \in Stacks(image[p])
              /\ ContentPath(image[p], k)[1] = LayersOf[image[p]][Payload[image[p]][k].stack]
        BY <1>2, ContentPathType
      <4>2. Filled(image[p], LayersOf[image[p]][n])
        BY <2>2, <3>2, <4>1 DEF Filled, Received
      <4> QED
        BY <1>2, <1>5, <4>2 DEF Full
    <3> QED
      BY <3>1, <3>2
  <2>5. \A n \in Stacks(image'[p]) : Full(LayersOf[image[p]][n])'
    BY <1>2, <2>1, <2>4 DEF Full, Filled
  <2> QED
    BY <1>2, <1>6a, <2>1, <2>5, MarkedFull
<1>17. CASE MarkLayer(p)
  <2>1. pc[p] = "mark" /\ files' = files /\ pc'[p] \in {"mark", "label"}
    BY <1>4, <1>6b, <1>17, NoFailure DEF MarkLayer, At, NextLayer
  <2>2. \A n \in Stacks(image[p]) : Full(LayersOf[image[p]][n])
    BY <1>3, <2>1 DEF Extraction
  <2>3. \A n \in Stacks(image'[p]) : Full(LayersOf[image[p]][n])'
    BY <1>2, <2>1, <2>2 DEF Full, Filled
  <2> QED
    BY <1>2, <1>6a, <2>1, <2>3, MarkedFull
<1>18. CASE pc'[p] \notin Early \cup Skipping \cup {"prepare", "mark"}
  BY <1>6a, <1>18 DEF Extraction, Early, Skipping
<1>19. CASE pc'[p] \in Skipping
  BY <1>13, <1>14, <1>15, <1>19 DEF Skipping
<1>20. CASE pc'[p] = "mark"
  BY <1>16, <1>17, <1>20, Arrival
<1> QED
  BY <1>7, <1>8, <1>18, <1>19, <1>20

\* A layer that is found after the step of a pull is full, or the pull extracts it.
LEMMA FoundFullStep ==
  ASSUME QuietWorld, TypeInv, TypeInv', ClaimInv, CompleteImageLoadable,
         ExtractInv, NEW p \in Pulls, Backed(p), Advance(p), Extraction(p)'
  PROVE  FoundFull' /\ \A l \in completedJson' : Full(l)'
<1> USE DEF containerdVars, diskVars, memoryVars, worldVars, requestVars, pullVars
<1>1. ControlOK /\ DataOK
  BY TypeParts
<1>2. /\ daemon = "up" /\ pc[p] \in Running /\ image' = image /\ image[p] \in Images
      /\ idx[p] \in Nat \ {0}
  BY <1>1, AdvanceRuns DEF ControlOK
<1>3. Extraction(p) /\ OneInFlight /\ FoundFull /\ \A l \in completedJson : Full(l)
  BY <1>2 DEF ExtractInv
<1>4. \A n \in Stacks(image[p]) : LayersOf[image[p]][n] \in Layers
  BY <1>2, LayerOfImage
<1>5. \A l \in Layers : LayerFound(l) => Full(l) \/ Extracting(p, l)
  <2>1. \A q \in Pulls : \A l \in Layers : Extracting(q, l) => pc[q] \in Running
    BY DEF Extracting, Skipping, Running, PCs
  <2> QED
    BY <1>2, <1>3, <2>1 DEF FoundFull, OneInFlight
<1>6. ASSUME CreateFile(p)
      PROVE  /\ idx[p] \in DOMAIN Payload[image[p]] /\ pc[p] = "extract" /\ pc'[p] = "write"
             /\ completedStack' = completedStack
             /\ Payload[image[p]][idx[p]].stack \in Unskipped(p)
             /\ ContentPath(image[p], idx[p])[1] = LayersOf[image[p]][Payload[image[p]][idx[p]].stack]
  <2>1. idx[p] \in DOMAIN Payload[image[p]]
    BY <1>2, <1>6, ImagesAssumption DEF CreateFile, MoreContent
  <2>2. pc'[p] = "write"
    BY <1>1, <1>6 DEF CreateFile, GoTo, ControlOK
  <2> QED
    BY <1>2, <1>6, <2>1, <2>2, ContentPathType DEF CreateFile, At, Content, Unskipped
<1>7. ASSUME NEW l \in Layers, Full(l)
      PROVE  Full(l)' \/ Extracting(p, l)'
  <2>1. CASE CreateFile(p) /\ ContentPath(image[p], idx[p])[1] = l
    BY <1>2, <1>6, <2>1 DEF Extracting, Skipping, Unskipped
  <2>2. CASE ~(CreateFile(p) /\ ContentPath(image[p], idx[p])[1] = l)
    BY <1>7, <2>2, FullStep
  <2> QED
    BY <2>1, <2>2
<1>8. ASSUME NEW l \in Layers, Extracting(p, l), ~Extracting(p, l)' PROVE Full(l)'
  <2>1. pc[p] \in Skipping /\ completedStack' = completedStack
    BY <1>8, FileStep DEF Extracting, PrepareDirectory, MarkLayer, At, Skipping
  <2>2. pc'[p] \notin Skipping
    BY <1>2, <1>8, <2>1 DEF Extracting, Unskipped
  <2>3. AllExtracted(p)
    <3>1. \A b, n : GoTo(p, b, n) => pc'[p] = b
      BY <1>1 DEF GoTo, ControlOK
    <3>2. ~(ClaimLayer(p) \/ AddSnapshot(p) \/ Announce(p) \/ DiscardContent(p) \/ CreateFile(p) \/ WriteFile(p)
            \/ ExtractFails(p))
      BY <1>3, <2>2, <3>1, NoFailure DEF Extraction, ClaimLayer, Announce, DiscardContent, CreateFile, WriteFile, NextLayer, Skipping
    <3> QED
      BY <2>1, <3>2 DEF Advance, FindImage, LoadExisting, DeleteIncomplete, DeltaImage, LockManagerMap,
         StoreBlob, CreateImage, PrepareDirectory, MarkLayer, LabelImage, UpdateManifest, Deferred, At, Skipping
  <2>4. pc'[p] = "mark"
    BY <1>1, <2>3 DEF AllExtracted, GoTo, ControlOK
  <2>5. \A n \in Stacks(image[p]) : \A x \in Layers : LayersOf[image[p]][n] = x => Full(x)'
    <3>1. \A n \in Stacks(image'[p]) : Full(LayersOf[image[p]][n])'
      BY <2>4 DEF Extraction
    <3> QED
      BY <1>2, <3>1 DEF Full, Filled
  <2> QED
    BY <1>8, <2>5 DEF Extracting, Unskipped
<1>9. ASSUME NEW l \in Layers, LayerFound(l)' PROVE Full(l)' \/ Extracting(p, l)'
  <2>1. CASE LayerFound(l)
    BY <1>5, <1>7, <1>8, <2>1
  <2>2. CASE LoadExisting(p) /\ l \in LayerSet(found[p])
    <3>1. l \in completedJson
      BY <1>3, <2>2 DEF Extraction, LoadExisting, At
    <3> QED
      BY <1>3, <1>7, <3>1
  <2>3. CASE (ClaimLayer(p) \/ AddSnapshot(p)) /\ l \in LayerSet(image[p])
    <3>1. pc[p] \in Skipping
      BY <2>3 DEF ClaimLayer, AddSnapshot, StatSnapshot, PrepareSnapshot, CommitSnapshot, At, Skipping
    <3>2. PICK n \in Stacks(image[p]) : LayersOf[image[p]][n] = l
      BY <2>3 DEF LayerSet
    <3>3. CASE n \in completedStack[p]
      BY <1>3, <1>7, <3>1, <3>2, <3>3 DEF Extraction
    <3>4. CASE n \notin completedStack[p]
      BY <1>8, <3>1, <3>2, <3>4 DEF Extracting, Unskipped
    <3> QED
      BY <3>3, <3>4
  <2> QED
    BY <1>9, <2>1, <2>2, <2>3, FoundStep
<1>10. FoundFull'
  BY <1>9 DEF FoundFull
<1>11. \A l \in completedJson' : Full(l)'
  <2>1. CASE MarkLayer(p)
    <3>1. /\ pc[p] = "mark" /\ idx[p] \in Stacks(image[p])
          /\ completedJson' = completedJson \cup {LayersOf[image[p]][idx[p]]}
      BY <1>1, <1>3, <2>1, NoFailure DEF Extraction, MarkLayer, At, ControlOK, Indexed
    <3>2. \A l \in completedJson' : Full(l)
      BY <1>3, <3>1 DEF Extraction
    <3>3. ~CreateFile(p)
      BY <3>1 DEF CreateFile, At
    <3> QED
      BY <3>2, <3>3, FullStep
  <2>2. CASE ~MarkLayer(p)
    <3>1. completedJson' = completedJson
      BY <2>2 DEF Advance, FindImage, LoadExisting, DeleteIncomplete, DeltaImage, LockManagerMap, StoreBlob,
         CreateImage, PrepareDirectory, ClaimLayer, AddSnapshot, StatSnapshot, PrepareSnapshot, CommitSnapshot, Announce, DiscardContent, CreateFile,
         WriteFile, ExtractFails, AllExtracted, LabelImage, UpdateManifest, Deferred
    <3>2. ASSUME NEW l \in completedJson, CreateFile(p) PROVE ContentPath(image[p], idx[p])[1] # l
      BY <1>3, <1>6, <3>2 DEF Extraction, Skipping, Unskipped
    <3> QED
      BY <1>3, <3>1, <3>2, FullStep
  <2> QED
    BY <2>1, <2>2
<1> QED
  BY <1>10, <1>11

LEMMA ExtractStep ==
  ASSUME QuietWorld, TypeInv, TypeInv', ClaimInv, LoadableInv, BackedInv,
         ExtractInv, [Next]_vars, [MountsQuietly]_vars
  PROVE  ExtractInv'
<1> USE DEF containerdVars, diskVars, memoryVars, worldVars, requestVars, pullVars
<1>1. ControlOK /\ DataOK
  BY TypeParts
<1>2. daemon' = "up" => OneInFlight'
  BY OneInFlightStep DEF ExtractInv, QuietWorld
<1>3. ASSUME NEW q \in Pulls, pc'[q] \in {"idle", "done", "blocked"},
             pc'[q] = "idle" => completedStack'[q] = {}
      PROVE  Extraction(q)'
  BY <1>3 DEF Extraction, Early, Skipping, Unstored
<1>4. ASSUME NEW p \in Pulls, Advance(p) PROVE ExtractInv'
  <2>1. daemon = "up" /\ pc[p] \in Running /\ Backed(p) /\ CompleteImageLoadable
    BY <1>4, AdvanceRuns DEF BackedInv, LoadableInv
  <2>2. Extraction(p)'
    BY <1>4, <2>1, ExtractionStep
  <2>3. FoundFull' /\ \A l \in completedJson' : Full(l)'
    BY <1>4, <2>1, <2>2, FoundFullStep
  <2>4. ASSUME NEW q \in Pulls \ {p} PROVE Extraction(q)'
    <3>1. Kept(q) /\ pc[q] \in {"idle", "done", "blocked"} /\ Extraction(q)
      BY <1>1, <1>4, <2>1, OthersKept DEF ExtractInv, OneInFlight, Running, ControlOK
    <3> QED
      BY <1>3, <3>1 DEF Kept, Extraction, Early
  <2> QED
    BY <1>2, <2>2, <2>3, <2>4 DEF ExtractInv
<1>5. ASSUME NEW p \in Pulls, Requests(p) PROVE ExtractInv'
  <2>1. /\ daemon = "up" /\ daemon' = "up" /\ pc[p] = "idle" /\ pc'[p] = "find"
        /\ UNCHANGED <<files, completedJson, layerMap, completedStack>>
        /\ \A q \in Pulls \ {p} : Kept(q)
    BY <1>1, <1>5, OthersKept DEF Requests, Request, At, GoTo, ControlOK
  <2>2. FoundFull /\ (\A q \in Pulls : Extraction(q)) /\ \A l \in completedJson : Full(l)
    BY <2>1 DEF ExtractInv
  <2>3. \A q \in Pulls \ {p} : pc'[q] \in {"idle", "done", "blocked"}
    BY <1>1, <1>2, <2>1 DEF OneInFlight, Running, Kept, ControlOK, PCs
  <2>4. \A q \in Pulls \ {p} : Extraction(q)'
    BY <1>3, <2>1, <2>2, <2>3 DEF Kept, Extraction, Early
  <2>5. Extraction(p)'
    BY <2>1, <2>2 DEF Extraction, Early, Skipping, Unstored
  <2>6. \A q \in Pulls : \A l \in Layers : Extracting(q, l) => Extracting(q, l)'
    BY <2>1 DEF Extracting, Unskipped, Kept, Skipping
  <2>7. \A l : Full(l) <=> Full(l)'
    BY <2>1 DEF Full, Filled
  <2>8. FoundFull'
    BY <2>1, <2>2, <2>6, <2>7 DEF FoundFull, LayerFound
  <2> QED
    BY <1>2, <2>1, <2>2, <2>4, <2>5, <2>7, <2>8 DEF ExtractInv
<1>6. CASE WorldStep
  <2>1. (\E i \in MountedImages : MountContainer(i)) => EntersNothing
    BY DEF MountsQuietly, EntersNothing, vars, LayerFound
  <2>2. /\ UNCHANGED <<containerdVars, diskVars, pullVars>>
        /\ daemon' = "up" => daemon = "up"
        /\ (\E i \in MountedImages : MountContainer(i)) \/ UNCHANGED memoryVars
    BY <1>6 DEF WorldStep, MountContainer, Crash, Idle, vars
  <2>2a. daemon' = "up" => \A l \in Layers : LayerFound(l)' <=> LayerFound(l)
    BY <2>1, <2>2, MapGrows DEF EntersNothing, LayerFound
  <2>3. \A l : Full(l) <=> Full(l)'
    BY <2>2 DEF Full, Filled
  <2>4. ASSUME daemon' = "up" PROVE FoundFull' /\ \A q \in Pulls : Extraction(q)'
    <3>1. FoundFull /\ \A q \in Pulls : Extraction(q)
      BY <2>2, <2>4 DEF ExtractInv
    <3>2. FoundFull'
      <4>1. \A q \in Pulls : \A l \in Layers : Extracting(q, l) <=> Extracting(q, l)'
        BY <2>2 DEF Extracting, Unskipped, Stacks
      <4> QED
        BY <2>2a, <2>3, <2>4, <3>1, <4>1 DEF FoundFull
    <3>3. UNCHANGED <<pc, idx, image, found, completedStack, completedJson, files, snapshots>>
      BY <2>2
    <3>3a. \A q \in Pulls : image[q] \in Images
      BY <1>1 DEF ControlOK
    <3>4. ASSUME NEW q \in Pulls PROVE Extraction(q)'
      <4>1. Extraction(q)
        BY <3>1
      <4>2. CASE pc[q] \in Early \cup {"prepare"}
        <5>1. \A n \in Stacks(image[q]) : LayerFound(LayersOf[image[q]][n])' <=> LayerFound(LayersOf[image[q]][n])
          BY <2>2a, <2>4, <3>3, <3>3a, LayerOfImage DEF LayerFound
        <5> QED
          BY <3>3, <4>1, <4>2, <5>1 DEF Extraction, Early, Skipping, Stacks, LayerSet, Unstored, LayerFound
      <4>3. CASE pc[q] \in Skipping \cup {"mark"}
        <5>1. pc[q] \in Skipping =>
                \A n \in Stacks(image[q]) \cap completedStack[q] : Full(LayersOf[image[q]][n])'
          BY <3>3, <4>1 DEF Extraction, Full, Filled, Stacks
        <5>2. pc[q] = "mark" => \A n \in Stacks(image[q]) : Full(LayersOf[image[q]][n])'
          BY <3>3, <4>1 DEF Extraction, Full, Filled, Stacks
        <5> QED
          BY <3>3, <4>1, <4>3, <5>1, <5>2
             DEF Extraction, Early, Skipping, Unskipped, Received, Stacks, ContentPath, Unstored, Chain
      <4>4. CASE pc[q] \notin Early \cup Skipping \cup {"prepare", "mark"}
        BY <3>3, <4>4 DEF Extraction, Early, Skipping, Unstored
      <4> QED
        BY <4>2, <4>3, <4>4
    <3> QED
      BY <3>2, <3>4
  <2> QED
    BY <1>2, <2>2, <2>3, <2>4 DEF ExtractInv
<1>7. CASE Restart
  <2>1. /\ completedJson' = completedJson
        /\ layerMap' = [l \in Layers |-> IF l \in directories \cap completedJson
                                         THEN [manager |-> None, stack |-> -1] ELSE None]
        /\ files' = [f \in Layers \X Digests |->
                       IF f[1] \in directories \cap completedJson THEN files[f] ELSE "absent"]
        /\ \A q \in Pulls : pc'[q] \in {"idle", "done"} /\ completedStack'[q] = {}
    BY <1>7 DEF Restart, ScannedLayers
  <2>2. completedJson \subseteq directories
    BY DEF ClaimInv
  <2>3. \A l \in completedJson : Full(l)'
    <3> SUFFICES ASSUME NEW l \in completedJson PROVE Full(l)'
      OBVIOUS
    <3>1. PICK i \in Images : l \in LayerSet(i) /\ Filled(i, l)
      BY DEF ExtractInv, Full
    <3>2. ASSUME NEW k \in DOMAIN Payload[i], ContentPath(i, k)[1] = l
          PROVE  files'[ContentPath(i, k)] = "full"
      <4>1. files[ContentPath(i, k)] = "full" /\ ContentPath(i, k) \in Layers \X Digests
        BY <3>1, <3>2, ContentPathType DEF Filled
      <4> QED
        BY <2>1, <2>2, <3>2, <4>1
    <3> QED
      BY <3>1, <3>2 DEF Full, Filled
  <2>4. FoundFull'
    BY <2>1, <2>3 DEF FoundFull, LayerFound
  <2>5. \A q \in Pulls : Extraction(q)'
    BY <1>3, <2>1
  <2> QED
    BY <1>2, <2>1, <2>3, <2>4, <2>5 DEF ExtractInv
<1> QED
  BY <1>4, <1>5, <1>6, <1>7, StepKinds

\* A completed.json is true of its layer: an image the layer belongs to has brought all it
\* has for it.
CompletedFilled == \A l \in completedJson : Full(l)

\* Pulls that follow each other, in a daemon that may crash at any moment but whose calls
\* do not fail, write a completed.json only for a layer that has every content the payload
\* of some image brings for it, whatever the payloads and whatever containers are started
\* meanwhile, as long as no start loads an image with layers the daemon does not have.
THEOREM CompletedIsFilled ==
  QuietWorld => (Spec /\ [][MountsQuietly]_vars => []CompletedFilled)
<1> SUFFICES ASSUME QuietWorld PROVE Spec /\ [][MountsQuietly]_vars => []CompletedFilled
  OBVIOUS
<1>1. Spec => []TypeInv
  BY TypeInit, TypeStep, PTL DEF Spec
<1>2. TypeInv /\ TypeInv' /\ LoadableInv /\ [Next]_vars => LoadableInv'
  BY LoadableStep
<1>3. TypeInv /\ LoadableInv /\ BackedInv /\ [Next]_vars /\ [MountsQuietly]_vars => BackedInv'
  BY BackedStep
<1>4. TypeInv /\ TypeInv' /\ ClaimInv /\ [Next]_vars => ClaimInv'
  BY ClaimStep
<1>5. TypeInv /\ TypeInv' /\ ClaimInv /\ LoadableInv /\ BackedInv /\ ExtractInv
        /\ [Next]_vars /\ [MountsQuietly]_vars => ExtractInv'
  BY ExtractStep
<1>6. ExtractInv => CompletedFilled
  BY DEF ExtractInv, CompletedFilled
<1> QED
  BY <1>1, <1>2, <1>3, <1>4, <1>5, <1>6, LoadableInit, BackedInit, ClaimInit, ExtractInit, PTL DEF Spec

\* Where moreover all images bring the same contents for a layer they share, what the next
\* start trusts has every content any payload brings for it.
THEOREM CompletedExtracted ==
  QuietWorld /\ PayloadsAgree => (Spec /\ [][MountsQuietly]_vars => []CompletedLayerExtracted)
<1> SUFFICES ASSUME QuietWorld, PayloadsAgree
             PROVE  Spec /\ [][MountsQuietly]_vars => []CompletedLayerExtracted
  OBVIOUS
<1>1. ASSUME CompletedFilled PROVE CompletedLayerExtracted
  <2> SUFFICES ASSUME NEW i \in Images, NEW k \in DOMAIN Payload[i], ContentPath(i, k)[1] \in completedJson
               PROVE  files[ContentPath(i, k)] = "full"
    BY DEF CompletedLayerExtracted
  <2>1. PICK j \in Images : ContentPath(i, k)[1] \in LayerSet(j) /\ Filled(j, ContentPath(i, k)[1])
    BY <1>1 DEF CompletedFilled, Full
  <2>2. PICK m \in DOMAIN Payload[j] : ContentPath(j, m) = ContentPath(i, k)
    BY <2>1 DEF PayloadsAgree
  <2> QED
    BY <2>1, <2>2 DEF Filled
<1> QED
  BY <1>1, CompletedIsFilled, PTL

=============================================================================
