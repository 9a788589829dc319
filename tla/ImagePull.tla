----------------------------- MODULE ImagePull -----------------------------
(***************************************************************************)
(* The Starlight client daemon pulling images: the gRPC handler            *)
(* PullImage, the goroutine Client.PullImage it starts, the manager's       *)
(* PrepareDirectories, CreateSnapshots and Extract, Client.LoadImage, and   *)
(* what a crash and the ScanExistingFilesystems of the next start do.       *)
(*                                                                         *)
(* One pull is one process.  Every access to state that another pull, a     *)
(* container mount or a crash can observe is a step of its own.  What       *)
(* containerd stores for the client (images, blobs, snapshots) and the      *)
(* layer directories survive a crash; the manager map, the layer map, the   *)
(* mutex and the goroutines do not.                                         *)
(*                                                                         *)
(* A definition named after another one (NextLayerStopsEarly before         *)
(* NextLayer) is that code with a plausible bug, which a run has to detect  *)
(* when it takes its place; no specification uses it.                       *)
(***************************************************************************)
EXTENDS Integers, Sequences, FiniteSets

CONSTANTS
  Images,          \* manifest digests; the reference of an image names it too
  NamedLike,       \* [Images -> SUBSET Images]: whose reference begins with this one's
  Layers,          \* layer digests
  Digests,         \* file content digests
  LayersOf,        \* [Images -> Seq(Layers)]: DeltaBundle.Destination.Layers
  Payload,         \* [Images -> Seq([stack, digest])]: DeltaBundle.Contents
  Pulls,           \* pull requests, each used once
  None,            \* a nil pointer, an absent map entry
  MaxInFlight,     \* bound: pulls running at the same time
  MaxCrash,        \* bound: daemon crashes
  SameImage,       \* whether one image may be pulled twice at the same time
  EarlyStart,      \* subset of BOOLEAN: values of ~DisableEarlyStart requested
  DownloadsFail,   \* whether the proxy connection may break
  StoresFail,      \* whether containerd and directory calls may fail
  MountedImages    \* images containers are started from, at any time

ASSUME ImagesAssumption ==
  /\ Images # {}
  /\ LayersOf \in [Images -> Seq(Layers)]
  /\ \A i \in Images : Len(LayersOf[i]) > 0
  /\ NamedLike \in [Images -> SUBSET Images]
  /\ \A i \in Images : i \in NamedLike[i]
  /\ Payload \in [Images -> Seq([stack : Nat, digest : Digests])]
  /\ \A i \in Images : \A k \in 1..Len(Payload[i]) :
       Payload[i][k].stack \in 1..Len(LayersOf[i])

ASSUME NamesAssumption ==
  /\ Images \cap Pulls = {}
  /\ None \notin Images \cup Pulls
  /\ None \notin [manager : Images \cup Pulls \cup {None}, stack : Int]

ASSUME BoundsAssumption ==
  /\ MaxInFlight \in Nat /\ MaxCrash \in Nat
  /\ SameImage \in BOOLEAN /\ DownloadsFail \in BOOLEAN /\ StoresFail \in BOOLEAN
  /\ EarlyStart \subseteq BOOLEAN
  /\ MountedImages \subseteq Images

VARIABLES
  \* containerd
  imageStore,      \* [Images -> {"none", "created", "complete"}]
  blobs,           \* [Images -> SUBSET Blobs]: the content store
  gcLabels,        \* images whose manifest carries the completion and GC labels
  snapshots,       \* [Chains -> Images \cup {None}]: committed, with the image label
  \* <FileSystemRoot>/layers
  directories,     \* layers with a directory
  files,           \* [Layers \X Digests -> {"absent", "partial", "full"}]
  completedJson,   \* layers with a completed.json
  \* the daemon's memory
  managerMap,      \* [Images -> Managers \cup {None}]
  managerMapLocked,\* managerMapLock; a Go mutex does not know its holder
  layerMap,        \* [Layers -> {None} \cup MountPoint]
  daemon,          \* "up", "down" or "fatal" (the Go runtime killed it)
  crashes,
  \* the pulls
  pc, image, early,
  found,           \* [Pulls -> Images]: the image findImage returned
  idx,             \* the loop counter of the phase the pull is in
  completedStack,  \* [Pulls -> set of stack indexes found on disk]
  closed,          \* [Pulls -> set of payload indexes whose Signal is closed]
  reply            \* what the gRPC handler of the pull is doing or returned

containerdVars == <<imageStore, blobs, gcLabels, snapshots>>
diskVars == <<directories, files, completedJson>>
memoryVars == <<managerMap, managerMapLocked, layerMap>>
worldVars == <<daemon, crashes>>
requestVars == <<image, early, found>>
pullVars == <<pc, image, early, found, idx, completedStack, closed, reply>>
vars == <<containerdVars, diskVars, memoryVars, worldVars, pullVars>>

-----------------------------------------------------------------------------
BlobOrder == <<"manifest", "config", "starlight">>
Blobs == {"manifest", "config", "starlight"}

\* A manager a pull made is named by the pull, one LoadImage made by its image:
\* two loads of one image give managers that behave alike (every Ready is nil).
Managers == Pulls \cup Images
ManagerImage(m) == IF m \in Images THEN m ELSE image[m]

MountPoint == [manager : Managers \cup {None}, stack : Int]

\* The chain ID of the n lowest layers of image i.
Chain(i, n) == SubSeq(LayersOf[i], 1, n)
Chains == UNION {{Chain(i, n) : n \in 1..Len(LayersOf[i])} : i \in Images}

Stacks(i) == 1..Len(LayersOf[i])
LayerSet(i) == {LayersOf[i][n] : n \in Stacks(i)}
StackOf(i, l) == CHOOSE n \in Stacks(i) :
  LayersOf[i][n] = l /\ \A m \in 1..(n - 1) : LayersOf[i][m] # l

\* Where content k of the payload of image i is extracted to.
ContentPath(i, k) == <<LayersOf[i][Payload[i][k].stack], Payload[i][k].digest>>

LayerFound(l) == layerMap[l] # None
LayerManaged(l) == LayerFound(l) /\ layerMap[l].manager # None

BlobsStored(i) == blobs[i] = Blobs
SnapshotsStored(i) == \A n \in Stacks(i) : snapshots[Chain(i, n)] # None

InFlight == {p \in Pulls : pc[p] \notin {"idle", "done", "blocked"}}

-----------------------------------------------------------------------------
Init ==
  /\ imageStore = [i \in Images |-> "none"]
  /\ blobs = [i \in Images |-> {}]
  /\ gcLabels = {}
  /\ snapshots = [c \in Chains |-> None]
  /\ directories = {}
  /\ files = [f \in Layers \X Digests |-> "absent"]
  /\ completedJson = {}
  /\ managerMap = [i \in Images |-> None]
  /\ managerMapLocked = FALSE
  /\ layerMap = [l \in Layers |-> None]
  /\ daemon = "up"
  /\ crashes = 0
  /\ pc = [p \in Pulls |-> "idle"]
  /\ image = [p \in Pulls |-> CHOOSE i \in Images : TRUE]
  /\ early = [p \in Pulls |-> TRUE]
  /\ found = image
  /\ idx = [p \in Pulls |-> 1]
  /\ completedStack = [p \in Pulls |-> {}]
  /\ closed = [p \in Pulls |-> {}]
  /\ reply = [p \in Pulls |-> "none"]

-----------------------------------------------------------------------------
(* Steps shared by the actions.                                            *)

\* Pull p runs and is at a.
At(p, a) == daemon = "up" /\ pc[p] = a

\* It goes on at b, its loop counter set to n.
GoTo(p, b, n) ==
  /\ pc' = [pc EXCEPT ![p] = b]
  /\ idx' = [idx EXCEPT ![p] = n]

NextLayerStopsEarly(p, b, c) ==
  IF idx[p] < Len(LayersOf[image[p]]) - 1 THEN GoTo(p, b, idx[p] + 1) ELSE GoTo(p, c, 1)
NextLayerFromZero(p, b, c) ==
  IF idx[p] < Len(LayersOf[image[p]]) THEN GoTo(p, b, idx[p] + 1) ELSE GoTo(p, c, 0)

\* The end of a loop's body: b for the next layer, c after the last one.
NextLayer(p, b, c) ==
  IF idx[p] < Len(LayersOf[image[p]]) THEN GoTo(p, b, idx[p] + 1) ELSE GoTo(p, c, 1)

\* The handler receives from the unbuffered channel: the pull goes on when it has.
Answer(p, r) == reply' = [reply EXCEPT ![p] = r]

\* PullImage sends an error as its first signal and returns; once it has taken
\* the mutex its deferred function is still to run.
FailFirst(p, b) ==
  /\ GoTo(p, b, 1)
  /\ Answer(p, "error")

\* PullImage sends its second signal: only a handler that disabled the early
\* start receives it, otherwise the send never returns.
SecondSignal(p, r) ==
  \/ /\ reply[p] = "wait2"
     /\ GoTo(p, "deferred", 1)
     /\ Answer(p, r)
  \/ /\ reply[p] # "wait2"
     /\ GoTo(p, "blocked", 1)
     /\ UNCHANGED reply

\* managerMapLock.Unlock(): the Go runtime kills a process that unlocks a mutex
\* nobody holds.
Unlock ==
  /\ managerMapLocked' = FALSE
  /\ daemon' = IF managerMapLocked THEN daemon ELSE "fatal"

LoadImageNewLayersOnly(i) ==
  /\ ~managerMapLocked
  /\ IF managerMap[i] # None
     THEN UNCHANGED <<managerMap, layerMap>>
     ELSE /\ BlobsStored(i)
          /\ managerMap' = [managerMap EXCEPT ![i] = i]
          /\ layerMap' = [l \in Layers |->
               IF l \in LayerSet(i) /\ ~LayerFound(l)
               THEN [manager |-> i, stack |-> StackOf(i, l)]
               ELSE layerMap[l]]
  /\ UNCHANGED managerMapLocked

\* LoadImage(i), from the lock to the return; it finds the manager in memory,
\* or reads the three blobs and makes one.
LoadImage(i) ==
  /\ ~managerMapLocked
  /\ IF managerMap[i] # None
     THEN UNCHANGED <<managerMap, layerMap>>
     ELSE /\ BlobsStored(i)
          /\ managerMap' = [managerMap EXCEPT ![i] = i]
          /\ layerMap' = [l \in Layers |->
               IF l \in LayerSet(i) /\ ~LayerManaged(l)
               THEN [manager |-> i, stack |-> StackOf(i, l)]
               ELSE layerMap[l]]
  /\ UNCHANGED managerMapLocked

LoadImageFails(i) ==
  /\ ~managerMapLocked
  /\ managerMap[i] = None
  /\ StoresFail \/ ~BlobsStored(i)

-----------------------------------------------------------------------------
(* A pull, from the gRPC request to the deferred functions.                *)

\* The handler starts the goroutine and waits for its first signal.
Request(p, i, e) ==
  /\ At(p, "idle")
  /\ Cardinality(InFlight) < MaxInFlight
  /\ SameImage \/ \A q \in InFlight : image[q] # i
  /\ GoTo(p, "find", 1)
  /\ image' = [image EXCEPT ![p] = i]
  /\ early' = [early EXCEPT ![p] = e]
  /\ found' = [found EXCEPT ![p] = i]
  /\ Answer(p, "wait")
  /\ UNCHANGED <<containerdVars, diskVars, memoryVars, worldVars, completedStack, closed>>

\* What findImage can find: its filter is a prefix of the name.
Matching(i) == {j \in NamedLike[i] : imageStore[j] # "none"}

FindImageIgnoresLabel(p) ==
  /\ At(p, "find")
  /\ \/ /\ Matching(image[p]) = {}
        /\ GoTo(p, "request", 1)
        /\ UNCHANGED found
     \/ \E j \in Matching(image[p]) :
          /\ found' = [found EXCEPT ![p] = j]
          /\ GoTo(p, "load", 1)
  /\ UNCHANGED <<containerdVars, diskVars, memoryVars, worldVars, image, early,
                 completedStack, closed, reply>>

\* The base image is looked up (which can fail), then the image: what the image
\* store says now decides the path taken later.  Of several images findImage takes
\* the newest by the wall clock, which may be any of them.
FindImage(p) ==
  /\ At(p, "find")
  /\ \/ /\ Matching(image[p]) = {}
        /\ GoTo(p, "request", 1)
        /\ UNCHANGED <<found, reply>>
     \/ \E j \in Matching(image[p]) :
          /\ found' = [found EXCEPT ![p] = j]
          /\ GoTo(p, IF imageStore[j] = "complete" THEN "load" ELSE "delete", 1)
          /\ UNCHANGED reply
     \/ /\ StoresFail
        /\ FailFirst(p, "done")
        /\ UNCHANGED found
  /\ UNCHANGED <<containerdVars, diskVars, memoryVars, worldVars, image, early,
                 completedStack, closed>>

\* The image found is complete: load its manager and answer "already exists".
LoadExisting(p) ==
  /\ At(p, "load")
  /\ \/ LoadImage(found[p]) /\ Answer(p, "exists")
     \/ LoadImageFails(found[p]) /\ Answer(p, "error") /\ UNCHANGED memoryVars
  /\ GoTo(p, "done", 1)
  /\ UNCHANGED <<containerdVars, diskVars, worldVars, requestVars, completedStack, closed>>

\* The image found is incomplete: is.Delete of the reference requested, which fails
\* when there is no such image.
DeleteIncomplete(p) ==
  /\ At(p, "delete")
  /\ \/ /\ imageStore[image[p]] # "none"
        /\ imageStore' = [imageStore EXCEPT ![image[p]] = "none"]
        /\ GoTo(p, "request", 1)
        /\ UNCHANGED reply
     \/ /\ imageStore[image[p]] = "none" \/ StoresFail
        /\ FailFirst(p, "done")
        /\ UNCHANGED imageStore
  /\ UNCHANGED <<blobs, gcLabels, snapshots, diskVars, memoryVars, worldVars, requestVars,
                 completedStack, closed>>

\* The request to the proxy.
DeltaImage(p) ==
  /\ At(p, "request")
  /\ \/ GoTo(p, "lock", 1) /\ UNCHANGED reply
     \/ DownloadsFail /\ FailFirst(p, "done")
  /\ UNCHANGED <<containerdVars, diskVars, memoryVars, worldVars, requestVars,
                 completedStack, closed>>

\* managerMapLock.Lock(); a manager of the image is dropped from the map.
LockManagerMap(p) ==
  /\ At(p, "lock")
  /\ ~managerMapLocked
  /\ managerMapLocked' = TRUE
  /\ managerMap' = [managerMap EXCEPT ![image[p]] = None]
  /\ GoTo(p, "store", 1)
  /\ UNCHANGED <<containerdVars, diskVars, layerMap, worldVars, requestVars,
                 completedStack, closed, reply>>

\* Read manifest, config and header off the connection, one by one, and store
\* each; WriteBlob of a blob that is there already changes nothing.
StoreBlob(p) ==
  /\ At(p, "store")
  /\ idx[p] <= Len(BlobOrder)
  /\ \/ /\ blobs' = [blobs EXCEPT ![image[p]] = @ \cup {BlobOrder[idx[p]]}]
        /\ GoTo(p, "store", idx[p] + 1)
        /\ UNCHANGED reply
     \/ /\ DownloadsFail \/ StoresFail
        /\ FailFirst(p, "deferred")
        /\ UNCHANGED blobs
  /\ UNCHANGED <<imageStore, gcLabels, snapshots, diskVars, memoryVars, worldVars, requestVars,
                 completedStack, closed>>

\* is.Create, which refuses a reference that exists; then Init makes a signal
\* for each payload content, the manager enters the map, the mutex is released.
CreateImage(p) ==
  /\ At(p, "store")
  /\ idx[p] = Len(BlobOrder) + 1
  /\ \/ /\ imageStore[image[p]] = "none"
        /\ imageStore' = [imageStore EXCEPT ![image[p]] = "created"]
        /\ managerMap' = [managerMap EXCEPT ![image[p]] = p]
        /\ Unlock
        /\ GoTo(p, "prepare", 1)
        /\ UNCHANGED reply
     \/ /\ imageStore[image[p]] # "none" \/ StoresFail
        /\ FailFirst(p, "deferred")
        /\ UNCHANGED <<imageStore, managerMap, managerMapLocked, daemon>>
  /\ UNCHANGED <<blobs, gcLabels, snapshots, diskVars, layerMap, crashes, requestVars,
                 completedStack, closed>>

\* PrepareDirectories, one layer: a layer in the layer map will not be extracted,
\* any other gets its directory.
PrepareDirectory(p) ==
  LET l == LayersOf[image[p]][idx[p]] IN
  /\ At(p, "prepare")
  /\ \/ /\ LayerFound(l)
        /\ completedStack' = [completedStack EXCEPT ![p] = @ \cup {idx[p]}]
        /\ NextLayer(p, "prepare", "claim")
        /\ UNCHANGED <<directories, reply>>
     \/ /\ ~LayerFound(l)
        /\ directories' = directories \cup {l}
        /\ NextLayer(p, "prepare", "claim")
        /\ UNCHANGED <<completedStack, reply>>
     \/ /\ ~LayerFound(l) /\ StoresFail
        /\ FailFirst(p, "deferred")
        /\ UNCHANGED <<directories, completedStack>>
  /\ UNCHANGED <<containerdVars, files, completedJson, memoryVars, worldVars, requestVars, closed>>

\* CreateSnapshots, one layer, under layerMapLock: claim the layer.
ClaimLayer(p) ==
  LET l == LayersOf[image[p]][idx[p]] IN
  /\ At(p, "claim")
  /\ layerMap' = IF LayerManaged(l) THEN layerMap
                 ELSE [layerMap EXCEPT ![l] = [manager |-> p, stack |-> idx[p]]]
  /\ GoTo(p, "snapshot", idx[p])
  /\ UNCHANGED <<containerdVars, diskVars, managerMap, managerMapLocked, worldVars, requestVars,
                 completedStack, closed, reply>>

\* CreateSnapshots, the same layer: AddSnapshot, in three calls of containerd.  Stat: a
\* snapshot that exists is kept; any error is taken for a snapshot that does not.
StatSnapshot(p) ==
  /\ At(p, "snapshot")
  /\ \/ /\ snapshots[Chain(image[p], idx[p])] # None
        /\ NextLayer(p, "claim", "announce")
     \/ /\ snapshots[Chain(image[p], idx[p])] = None \/ StoresFail
        /\ GoTo(p, "create", idx[p])
  /\ UNCHANGED <<containerdVars, diskVars, memoryVars, worldVars, requestVars,
                 completedStack, closed, reply>>

\* Prepare; that of a bottom layer comes back to PrepareManager, so to LoadImage.
PrepareSnapshot(p) ==
  /\ At(p, "create")
  /\ \/ /\ IF idx[p] = 1 THEN LoadImage(image[p]) ELSE UNCHANGED memoryVars
        /\ GoTo(p, "commit", idx[p])
        /\ UNCHANGED reply
     \/ /\ StoresFail
        /\ FailFirst(p, "deferred")
        /\ UNCHANGED memoryVars
  /\ UNCHANGED <<containerdVars, diskVars, worldVars, requestVars, completedStack, closed>>

\* Commit measures the directory of the layer, and refuses a name that another pull has
\* committed since the Stat.  A last Stat may fail although the snapshot is there.
CommitSnapshot(p) ==
  LET i == image[p]
      c == Chain(i, idx[p]) IN
  /\ At(p, "commit")
  /\ \/ /\ snapshots[c] = None
        /\ LayersOf[i][idx[p]] \in directories
        /\ snapshots' = [snapshots EXCEPT ![c] = i]
        /\ \/ NextLayer(p, "claim", "announce") /\ UNCHANGED reply
           \/ StoresFail /\ FailFirst(p, "deferred")
     \/ /\ snapshots[c] # None \/ LayersOf[i][idx[p]] \notin directories \/ StoresFail
        /\ FailFirst(p, "deferred")
        /\ UNCHANGED snapshots
  /\ UNCHANGED <<imageStore, blobs, gcLabels, diskVars, memoryVars, worldVars, requestVars,
                 completedStack, closed>>

AddSnapshot(p) == StatSnapshot(p) \/ PrepareSnapshot(p) \/ CommitSnapshot(p)

\* The first signal: the image can be used, its content is still on the way.
Announce(p) ==
  /\ At(p, "announce")
  /\ GoTo(p, "extract", 1)
  /\ Answer(p, IF early[p] THEN "ok" ELSE "wait2")
  /\ UNCHANGED <<containerdVars, diskVars, memoryVars, worldVars, requestVars,
                 completedStack, closed>>

-----------------------------------------------------------------------------
(* Extract: content idx[p] of the payload, then the completion files.       *)

Content(p) == Payload[image[p]][idx[p]]
MoreContent(p) == idx[p] \in 1..Len(Payload[image[p]])

DiscardContentClosesSignal(p) ==
  /\ At(p, "extract")
  /\ MoreContent(p)
  /\ Content(p).stack \in completedStack[p]
  /\ closed' = [closed EXCEPT ![p] = @ \cup {idx[p]}]
  /\ GoTo(p, "extract", idx[p] + 1)
  /\ UNCHANGED <<containerdVars, diskVars, memoryVars, worldVars, requestVars,
                 completedStack, reply>>

\* The content of a layer found on disk is read off the connection and dropped.
DiscardContent(p) ==
  /\ At(p, "extract")
  /\ MoreContent(p)
  /\ Content(p).stack \in completedStack[p]
  /\ GoTo(p, "extract", idx[p] + 1)
  /\ UNCHANGED <<containerdVars, diskVars, memoryVars, worldVars, requestVars,
                 completedStack, closed, reply>>

\* os.Create makes the file, or truncates the one that is there.
CreateFile(p) ==
  LET f == ContentPath(image[p], idx[p]) IN
  /\ At(p, "extract")
  /\ MoreContent(p)
  /\ Content(p).stack \notin completedStack[p]
  /\ files' = [files EXCEPT ![f] = "partial"]
  /\ directories' = directories \cup {f[1]}
  /\ GoTo(p, "write", idx[p])
  /\ UNCHANGED <<containerdVars, completedJson, memoryVars, worldVars, requestVars,
                 completedStack, closed, reply>>

\* The chunks are written and the signal is closed.
WriteFile(p) ==
  /\ At(p, "write")
  /\ files' = [files EXCEPT ![ContentPath(image[p], idx[p])] = "full"]
  /\ closed' = [closed EXCEPT ![p] = @ \cup {idx[p]}]
  /\ GoTo(p, "extract", idx[p] + 1)
  /\ UNCHANGED <<containerdVars, directories, completedJson, memoryVars, worldVars, requestVars,
                 completedStack, reply>>

\* Reading the connection or writing the file fails: Extract returns an error,
\* which is the second signal.
ExtractFails(p) ==
  /\ DownloadsFail \/ StoresFail
  /\ (At(p, "extract") /\ MoreContent(p)) \/ At(p, "write")
  /\ SecondSignal(p, "error")
  /\ UNCHANGED <<containerdVars, diskVars, memoryVars, worldVars, requestVars,
                 completedStack, closed>>

AllExtractedSignalsFirst(p) ==
  /\ At(p, "extract")
  /\ idx[p] > Len(Payload[image[p]])
  /\ SecondSignal(p, "ok")
  /\ UNCHANGED <<containerdVars, diskVars, memoryVars, worldVars, requestVars,
                 completedStack, closed>>

\* The payload is read to its end.
AllExtracted(p) ==
  /\ At(p, "extract")
  /\ idx[p] > Len(Payload[image[p]])
  /\ GoTo(p, "mark", 1)
  /\ UNCHANGED <<containerdVars, diskVars, memoryVars, worldVars, requestVars,
                 completedStack, closed, reply>>

\* completed.json of one layer, extracted by this pull or found on disk.
MarkLayer(p) ==
  LET l == LayersOf[image[p]][idx[p]] IN
  /\ At(p, "mark")
  /\ \/ /\ l \in directories
        /\ completedJson' = completedJson \cup {l}
        /\ completedStack' = [completedStack EXCEPT ![p] = @ \cup {idx[p]}]
        /\ NextLayer(p, "mark", "label")
        /\ UNCHANGED reply
     \/ /\ l \notin directories \/ StoresFail
        /\ SecondSignal(p, "error")
        /\ UNCHANGED <<completedJson, completedStack>>
  /\ UNCHANGED <<containerdVars, directories, files, memoryVars, worldVars, requestVars, closed>>

-----------------------------------------------------------------------------
(* Completion, and the deferred unlock.                                    *)

\* is.Update of the completion label, on whatever image has the reference now.
\* When it fails PullImage returns without a second signal.
LabelImage(p) ==
  /\ At(p, "label")
  /\ \/ /\ imageStore[image[p]] # "none"
        /\ imageStore' = [imageStore EXCEPT ![image[p]] = "complete"]
        /\ GoTo(p, "manifest", 1)
     \/ /\ imageStore[image[p]] = "none" \/ StoresFail
        /\ GoTo(p, "deferred", 1)
        /\ UNCHANGED imageStore
  /\ UNCHANGED <<blobs, gcLabels, snapshots, diskVars, memoryVars, worldVars, requestVars,
                 completedStack, closed, reply>>

\* updateManifest; a failure returns without a second signal too.
UpdateManifest(p) ==
  /\ At(p, "manifest")
  /\ \/ /\ gcLabels' = gcLabels \cup {image[p]}
        /\ SecondSignal(p, "ok")
     \/ /\ StoresFail
        /\ GoTo(p, "deferred", 1)
        /\ UNCHANGED <<gcLabels, reply>>
  /\ UNCHANGED <<imageStore, blobs, snapshots, diskVars, memoryVars, worldVars, requestVars,
                 completedStack, closed>>

DeferredAlwaysUnlocks(p) ==
  /\ At(p, "deferred")
  /\ GoTo(p, "done", 1)
  /\ Unlock
  /\ UNCHANGED <<containerdVars, diskVars, managerMap, layerMap, crashes, requestVars,
                 completedStack, closed, reply>>

DeferredNeverUnlocks(p) ==
  /\ At(p, "deferred")
  /\ GoTo(p, "done", 1)
  /\ UNCHANGED <<containerdVars, diskVars, memoryVars, worldVars, requestVars,
                 completedStack, closed, reply>>

\* The deferred function: without its manager in the map PullImage takes it that
\* it still holds the mutex.  The map is read without holding it.
Deferred(p) ==
  /\ At(p, "deferred")
  /\ GoTo(p, "done", 1)
  /\ IF managerMap[image[p]] = None
     THEN Unlock
     ELSE UNCHANGED <<managerMapLocked, daemon>>
  /\ UNCHANGED <<containerdVars, diskVars, managerMap, layerMap, crashes, requestVars,
                 completedStack, closed, reply>>

-----------------------------------------------------------------------------
(* Containers, crashes and restarts.                                       *)

\* A container of image i is started: the plugin mounts the chain from the bottom
\* and, at the first layer without a manager, has one loaded: the first it can
\* load of the images the snapshots name, the upper snapshots first.  A layer that
\* is not in the layer map fails the mount; a manager found in memory changes
\* nothing and the plugin tries again.
FirstUnmanaged(i, n) ==
  /\ ~LayerManaged(LayersOf[i][n])
  /\ \A m \in 1..(n - 1) : LayerManaged(LayersOf[i][m])

MountSource(i, m) ==
  \E n \in Stacks(i) :
    /\ snapshots[Chain(i, n)] = m
    /\ \A k \in (n + 1)..Len(LayersOf[i]) : LoadImageFails(snapshots[Chain(i, k)])

MountContainer(i) ==
  /\ daemon = "up"
  /\ SnapshotsStored(i)
  /\ \E n \in Stacks(i) : FirstUnmanaged(i, n) /\ LayerFound(LayersOf[i][n])
  /\ \E m \in Images : MountSource(i, m) /\ managerMap[m] = None /\ LoadImage(m)
  /\ UNCHANGED <<containerdVars, diskVars, worldVars, pullVars>>

\* What ScanExistingFilesystems keeps: a directory with a completed.json.
ScannedLayersAll == directories
ScannedLayers == directories \cap completedJson

\* The process dies.
Crash ==
  /\ daemon = "up"
  /\ crashes < MaxCrash
  /\ daemon' = "down"
  /\ crashes' = crashes + 1
  /\ UNCHANGED <<containerdVars, diskVars, memoryVars, pullVars>>

\* The next start: the memory is new, no pull of the last run is left, and
\* ScanExistingFilesystems removes the layers without a completed.json.
Restart ==
  /\ daemon # "up"
  /\ daemon' = "up"
  /\ managerMap' = [i \in Images |-> None]
  /\ managerMapLocked' = FALSE
  /\ layerMap' = [l \in Layers |-> IF l \in ScannedLayers
                                   THEN [manager |-> None, stack |-> -1] ELSE None]
  /\ directories' = ScannedLayers
  /\ files' = [f \in Layers \X Digests |-> IF f[1] \in ScannedLayers THEN files[f] ELSE "absent"]
  /\ pc' = [p \in Pulls |-> IF pc[p] = "idle" THEN "idle" ELSE "done"]
  /\ reply' = [p \in Pulls |-> IF reply[p] \in {"wait", "wait2"} THEN "lost" ELSE reply[p]]
  /\ idx' = [p \in Pulls |-> 1]
  /\ completedStack' = [p \in Pulls |-> {}]
  /\ closed' = [p \in Pulls |-> {}]
  /\ UNCHANGED <<containerdVars, completedJson, crashes, requestVars>>

-----------------------------------------------------------------------------
Advance(p) ==
  \/ FindImage(p) \/ LoadExisting(p) \/ DeleteIncomplete(p) \/ DeltaImage(p)
  \/ LockManagerMap(p) \/ StoreBlob(p) \/ CreateImage(p)
  \/ PrepareDirectory(p) \/ ClaimLayer(p)
  \/ AddSnapshot(p) \/ Announce(p)
  \/ DiscardContent(p) \/ CreateFile(p) \/ WriteFile(p) \/ ExtractFails(p) \/ AllExtracted(p)
  \/ MarkLayer(p) \/ LabelImage(p) \/ UpdateManifest(p) \/ Deferred(p)

\* Every request is over: the daemon idles.
Idle ==
  /\ daemon = "up"
  /\ \A p \in Pulls : pc[p] \in {"done", "blocked"}
  /\ UNCHANGED vars

Next ==
  \/ \E p \in Pulls, i \in Images, e \in EarlyStart : Request(p, i, e)
  \/ \E p \in Pulls : Advance(p)
  \/ \E i \in MountedImages : MountContainer(i)
  \/ Crash
  \/ Restart
  \/ Idle

Spec == Init /\ [][Next]_vars

\* The Go scheduler runs every goroutine that can run, and a started daemon is
\* started again (the service file of the package says Restart=always).
FairSpec ==
  /\ Spec
  /\ \A p \in Pulls : WF_vars(Advance(p))
  /\ WF_vars(Restart)

-----------------------------------------------------------------------------
(* Properties.                                                             *)

PCs == {"idle", "find", "load", "delete", "request", "lock", "store", "prepare", "claim",
        "snapshot", "create", "commit", "announce", "extract", "write", "mark", "label", "manifest",
        "deferred", "done", "blocked"}

\* The types of the variables: every map of the client holds what its Go type allows.
TypeOK ==
  /\ imageStore \in [Images -> {"none", "created", "complete"}]
  /\ blobs \in [Images -> SUBSET Blobs]
  /\ gcLabels \subseteq Images
  /\ snapshots \in [Chains -> Images \cup {None}]
  /\ directories \subseteq Layers
  /\ files \in [Layers \X Digests -> {"absent", "partial", "full"}]
  /\ completedJson \subseteq Layers
  /\ managerMap \in [Images -> Managers \cup {None}]
  /\ managerMapLocked \in BOOLEAN
  /\ layerMap \in [Layers -> MountPoint \cup {None}]
  /\ daemon \in {"up", "down", "fatal"}
  /\ crashes \in Nat
  /\ pc \in [Pulls -> PCs]
  /\ image \in [Pulls -> Images]
  /\ early \in [Pulls -> BOOLEAN]
  /\ found \in [Pulls -> Images]
  /\ idx \in [Pulls -> Nat \ {0}]
  /\ completedStack \in [Pulls -> SUBSET (Nat \ {0})]
  /\ closed \in [Pulls -> SUBSET (Nat \ {0})]
  /\ reply \in [Pulls -> {"none", "wait", "wait2", "ok", "exists", "error", "lost"}]

\* An image with the completion label can be loaded and mounted by any later daemon:
\* its blobs and its snapshots are stored and each of its layers has the
\* completed.json without which the next start removes the layer.  It is what the
\* order of the stores in PullImage is for, and has to survive a crash between any
\* two of them, a failed pull and its retry, and another pull of the same image.
CompleteImageLoadable ==
  \A i \in Images : imageStore[i] = "complete" =>
    /\ BlobsStored(i)
    /\ SnapshotsStored(i)
    /\ LayerSet(i) \subseteq completedJson

\* PrepareDirectories relies on it: a layer in the layer map is in the local
\* filesystem, or another manager has created its directory.
LayerMapBacked ==
  daemon = "up" => \A l \in Layers : LayerFound(l) => l \in directories

\* A layer with a completed.json has every content any payload brings for it: the
\* next start trusts the file and never extracts the layer again.
CompletedLayerExtracted ==
  \A i \in Images : \A k \in DOMAIN Payload[i] :
    ContentPath(i, k)[1] \in completedJson => files[ContentPath(i, k)] = "full"

\* The file system opens a file once its signal is closed: what it opens is extracted.
ClosedMeansExtracted ==
  daemon = "up" => \A p \in Pulls : \A k \in closed[p] : files[ContentPath(image[p], k)] = "full"

\* While the daemon is up a complete image can be mounted: all its layers are in the
\* layer map, and where one has no manager yet the plugin can have the one loaded that its
\* top snapshot names, unless that is in the map already.  Then its image, another one built
\* on this image, is being pulled, and the pull has yet to give its layers that manager:
\* the plugin tries again and again, but not for ever.
Claiming(m) == \E p \in Pulls : image[p] = m /\ pc[p] \in {"prepare", "claim", "snapshot", "create", "commit"}
CompleteImageMountable ==
  daemon = "up" => \A i \in Images : imageStore[i] = "complete" =>
    \A n \in Stacks(i) :
      LET m == snapshots[Chain(i, Len(LayersOf[i]))] IN
      /\ LayerFound(LayersOf[i][n])
      /\ LayerManaged(LayersOf[i][n]) \/ managerMap[m] = None \/ Claiming(m)

\* The daemon never unlocks a mutex nobody holds (the Go runtime would kill it).
NoFatalUnlock == daemon # "fatal"

\* The pulls implement what the daemon promises its callers, as ImageLifecycle states it:
\* above all, who waits for the whole image is told "ok" only when it is complete.
Lifecycle == INSTANCE ImageLifecycle WITH
  Callers <- Pulls, store <- imageStore, answer <- reply
ImplementsLifecycle == Lifecycle!Spec

\* The handler of a pull answers its caller, or the daemon died first.
HandlerAnswers ==
  \A p \in Pulls : reply[p] = "wait" ~> reply[p] \in {"ok", "exists", "error", "lost"}

\* A pull that has read its payload to the end ends with its image complete, or the
\* daemon dies: when no call fails any more nothing of another pull is in its way.
ReceivedCompletes ==
  \A p \in Pulls :
    pc[p] = "extract" /\ idx[p] > Len(Payload[image[p]]) ~>
      imageStore[image[p]] = "complete" \/ daemon # "up"
=============================================================================
