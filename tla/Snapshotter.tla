---------------------------- MODULE Snapshotter ----------------------------
(***************************************************************************)
(* The snapshotter plugin of the client daemon: the metastore with its one   *)
(* write transaction, the directories of the snapshots, and the FUSE file    *)
(* systems that Client.Mount and Client.Unmount keep for the layers.  Pulls   *)
(* call it through Operator.AddSnapshot, containerd for its containers and   *)
(* its garbage collector.                                                   *)
(*                                                                         *)
(* A snapshot keeps its id when it is committed but gets another key, so a   *)
(* key is the pair of the id and the kind.  A record holds the ids of its    *)
(* parents, lowest first, where the code follows Info.Parent.               *)
(*                                                                         *)
(* A definition named after another one (MountedAgain before Mounted) is that    *)
(* code with a plausible bug, which a run has to detect when it takes its    *)
(* place; no specification uses it.                                         *)
(***************************************************************************)
EXTENDS Integers, Sequences

CONSTANTS
  Pulls,       \* pulls at Manager.CreateSnapshots
  Containers,  \* containers that are created on an image
  Images, Layers,
  LayersOf,    \* [Images -> Seq(Layers)]
  ImageOf,     \* [Pulls \cup Containers -> Images]
  None,
  MaxId, MaxCrashes,  \* bounds: the last snapshot id, how often the daemon dies
  RemoveParents, \* whether Remove may be asked for a snapshot with children
  Faults         \* whether mkdir, loading, mounting and unmounting may fail, and image
                 \* metadata be collected

Ids == 1..MaxId
Callers == Pulls \cup Containers
Depth(img) == Len(LayersOf[img])
\* What the metastore holds of a snapshot.
Snapshots ==
  [kind : {"active", "committed"}, stack : Seq(Ids), chain : Seq(Layers),
   layer : Layers \cup {None}, image : Images]

ASSUME ImagesAssumption ==
  /\ LayersOf \in [Images -> Seq(Layers)]
  /\ \A img \in Images : Depth(img) > 0
  /\ ImageOf \in [Callers -> Images]
  /\ Pulls \cap Containers = {}

ASSUME BoundsAssumption ==
  /\ MaxId \in Nat /\ MaxCrashes \in Nat
  /\ RemoveParents \in BOOLEAN /\ Faults \in BOOLEAN
  /\ None \notin Layers \cup Callers \cup Ids \cup (Layers \X Ids)
  /\ None \notin Snapshots /\ "leaked" \notin Callers

VARIABLES
  \* on disk
  sn,        \* [Ids -> [kind, stack, chain, layer, image] or None]: the metastore
  lastId,
  dirs, slfs, \* SUBSET Ids: upper and work of a snapshot, and its slfs directory
  extracted, \* SUBSET Layers: layers with a completed.json
  stored,    \* SUBSET Images: manifest, config and header are in the content store
  \* the daemon
  txn,       \* the caller that holds the write transaction, or None, or "leaked"
  loaded,    \* SUBSET Images: Client.managerMap
  known, managed, \* SUBSET Layers: Client.layerMap, and its entries with a manager
  fs,        \* [Layers -> Ids \cup {None}]: mountPoint.fs, by its directory
  regs,      \* [Layers -> SUBSET keys]: mountPoint.snapshots
  servers,   \* SUBSET (Layers \X Ids): the FUSE servers that are mounted
  handed,    \* SUBSET Ids: snapshots whose overlay mount was handed out
  pc, at, id, \* a caller: where it is, its layer, the snapshot it prepares
  pos, tried, \* and in mounts: the layers mounted, the managers that did not load
  removing,  \* the snapshot Remove has deleted and whose files are left, or None
  crashes

disk == <<sn, lastId, dirs, slfs, extracted, stored>>
maps == <<loaded, known, managed>>
mountVars == <<fs, regs, servers>>
callerVars == <<pc, at, id, pos, tried>>
vars == <<disk, txn, maps, mountVars, handed, callerVars, removing, crashes>>

Key(i, kind) == <<i, kind>>
Chain(img, k) == SubSeq(LayersOf[img], 1, k)
Named(chain) == {i \in Ids : sn[i] # None /\ sn[i].kind = "committed" /\ sn[i].chain = chain}
\* A pull adds the layers of its image, a container goes on top of them all.
Goal(c) == IF c \in Pulls THEN at[c] ELSE Depth(ImageOf[c]) + 1
Children(i) == {j \in Ids : sn[j] # None /\ \E n \in 1..Len(sn[j].stack) : sn[j].stack[n] = i}

Init ==
  /\ sn = [i \in Ids |-> None]
  /\ lastId = 0
  /\ dirs = {} /\ slfs = {} /\ extracted = {} /\ stored = Images
  /\ txn = None
  /\ loaded = {} /\ known = {} /\ managed = {}
  /\ fs = [l \in Layers |-> None]
  /\ regs = [l \in Layers |-> {}]
  /\ servers = {} /\ handed = {}
  /\ pc = [c \in Callers |-> "idle"]
  /\ at = [c \in Callers |-> 1]
  /\ id = [c \in Callers |-> None]
  /\ pos = [c \in Callers |-> 0]
  /\ tried = [c \in Callers |-> {}]
  /\ removing = None
  /\ crashes = 0

-----------------------------------------------------------------------------
(* Client.Mount, Client.Unmount and Client.LoadImage, each under its lock.  *)

\* The layers that LoadImage gives the manager of an image.
LayersIn(img) == {LayersOf[img][k] : k \in 1..Depth(img)}

\* Mount of a layer by snapshot i works: the first one gives the file system its
\* directory, the others find it, and each is registered under its key.
MountedAgain(l, i, key) ==
  /\ l \in known /\ (fs[l] # None \/ l \in managed) /\ i \in slfs
  /\ fs' = [fs EXCEPT ![l] = i]
  /\ servers' = servers \cup {<<l, i>>}
  /\ regs' = [regs EXCEPT ![l] = @ \cup {key}]

MountedForgets(l, i, key) ==
  /\ l \in known
  /\ \/ fs[l] # None /\ UNCHANGED <<fs, servers, regs>>
     \/ /\ fs[l] = None /\ l \in managed /\ i \in slfs
        /\ fs' = [fs EXCEPT ![l] = i]
        /\ servers' = servers \cup {<<l, i>>}
        /\ regs' = [regs EXCEPT ![l] = @ \cup {key}]

Mounted(l, i, key) ==
  /\ l \in known
  /\ \/ fs[l] # None /\ UNCHANGED <<fs, servers>>
     \/ /\ fs[l] = None /\ l \in managed /\ i \in slfs
        /\ fs' = [fs EXCEPT ![l] = i]
        /\ servers' = servers \cup {<<l, i>>}
  /\ regs' = [regs EXCEPT ![l] = @ \cup {key}]

\* The two errors of Mount: ErrNoManager, and any other.
NoManager(l) == l \in known /\ fs[l] = None /\ l \notin managed
MountFails(l, i) ==
  l \notin known \/ (fs[l] = None /\ l \in managed /\ (Faults \/ i \notin slfs))

\* Unmount: the key goes, and with the last one the server and the directory of the
\* snapshot that mounted first, unless Teardown fails; fs stays.
UnmountAlways(l, key) ==
  /\ regs' = [regs EXCEPT ![l] = @ \ {key}]
  /\ IF key \in regs[l] /\ fs[l] # None
     THEN servers' = servers \ {<<l, fs[l]>>} /\ slfs' = slfs \ {fs[l]}
     ELSE UNCHANGED <<servers, slfs>>

UnmountDirFirst(l, key) ==
  /\ regs' = [regs EXCEPT ![l] = @ \ {key}]
  /\ slfs' = IF key \in regs[l] /\ fs[l] # None THEN slfs \ {fs[l]} ELSE slfs
  /\ servers' = IF regs[l] = {key} /\ fs[l] # None THEN servers \ {<<l, fs[l]>>} ELSE servers

Unmount(l, key) ==
  /\ regs' = [regs EXCEPT ![l] = @ \ {key}]
  /\ \/ /\ regs[l] = {key} /\ fs[l] # None
        /\ servers' = servers \ {<<l, fs[l]>>}
        /\ slfs' = slfs \ {fs[l]}
     \/ /\ regs[l] # {key} \/ fs[l] = None \/ Faults
        /\ UNCHANGED <<servers, slfs>>

\* PrepareManager: a manager in memory is enough; another one is loaded from the
\* content store and put into the layer map.
LoadImage(img) ==
  IF img \in loaded
  THEN UNCHANGED maps
  ELSE /\ img \in stored
       /\ loaded' = loaded \cup {img}
       /\ known' = known \cup LayersIn(img)
       /\ managed' = managed \cup LayersIn(img)

\* Its failure; that of SetOptimizerOn leaves the manager in the manager map only.
LoadFails(img) ==
  /\ img \notin loaded
  /\ \/ (img \notin stored \/ Faults) /\ UNCHANGED loaded
     \/ Faults /\ img \in stored /\ loaded' = loaded \cup {img}
  /\ UNCHANGED <<known, managed>>

-----------------------------------------------------------------------------
(* CreateSnapshots with Operator.AddSnapshot for a pull, and Prepare for a   *)
(* container.                                                               *)

Goto(c, step) == pc' = [pc EXCEPT ![c] = step]

\* A pull has made its manager; a container starts once the image is there.
Start(c) ==
  /\ pc[c] = "idle"
  /\ IF c \in Pulls
     THEN /\ loaded' = loaded \cup {ImageOf[c]}
          /\ stored' = stored \cup {ImageOf[c]}
          /\ Goto(c, "claim")
     ELSE /\ Named(LayersOf[ImageOf[c]]) # {}
          /\ Goto(c, "prepare")
          /\ UNCHANGED <<loaded, stored>>
  /\ UNCHANGED <<sn, lastId, dirs, slfs, extracted, txn, known, managed, mountVars, handed,
                 at, id, pos, tried, removing, crashes>>

\* CreateSnapshots: a layer gets the manager, unless it has one.
Claim(c) ==
  /\ pc[c] = "claim" /\ at[c] \leq Depth(ImageOf[c])
  /\ known' = known \cup {LayersOf[ImageOf[c]][at[c]]}
  /\ managed' = managed \cup {LayersOf[ImageOf[c]][at[c]]}
  /\ Goto(c, "stat")
  /\ UNCHANGED <<disk, txn, loaded, mountVars, handed, at, id, pos, tried, removing, crashes>>

\* AddSnapshot: Stat, an existing snapshot is used.
Stat(c) ==
  /\ pc[c] = "stat"
  /\ IF Named(Chain(ImageOf[c], at[c])) # {}
     THEN at' = [at EXCEPT ![c] = @ + 1] /\ Goto(c, "claim")
     ELSE Goto(c, "prepare") /\ UNCHANGED at
  /\ UNCHANGED <<disk, txn, maps, mountVars, handed, id, pos, tried, removing, crashes>>

ParentOf(c) == Named(Chain(ImageOf[c], Goal(c) - 1))

\* newSnapshot: the write transaction and storage.CreateSnapshot; without its parent
\* the transaction is rolled back.
CreateSnapshot(c) ==
  /\ pc[c] = "prepare" /\ txn = None /\ lastId < MaxId
  /\ IF Goal(c) = 1 \/ ParentOf(c) # {}
     THEN /\ txn' = c
          /\ id' = [id EXCEPT ![c] = lastId + 1]
          /\ Goto(c, "mkdir")
     ELSE Goto(c, "failed") /\ UNCHANGED <<txn, id>>
  /\ UNCHANGED <<disk, maps, mountVars, handed, at, pos, tried, removing, crashes>>

\* newSnapshot: the directories, one after the other; an error leaves the
\* transaction open.
MakeDirs(c) ==
  /\ pc[c] = "mkdir"
  /\ \/ /\ slfs' = slfs \cup {id[c]}
        /\ dirs' = dirs \cup {id[c]}
        /\ Goto(c, IF Goal(c) = 1 THEN "load" ELSE "mounts")
        /\ UNCHANGED txn
     \/ /\ Faults
        /\ slfs' \in {slfs, slfs \cup {id[c]}}
        /\ txn' = "leaked"
        /\ Goto(c, "failed")
        /\ UNCHANGED dirs
  /\ UNCHANGED <<sn, lastId, extracted, stored, maps, mountVars, handed, at, id, pos, tried,
                 removing, crashes>>

ParentStack(c) == LET p == CHOOSE i \in ParentOf(c) : TRUE IN Append(sn[p].stack, p)
\* getFsStack, lowest first: of the snapshot a caller prepares, or of a container's.
Stack(c) ==
  IF txn # c THEN sn[id[c]].stack
  ELSE IF Goal(c) = 1 THEN <<>> ELSE ParentStack(c)

-----------------------------------------------------------------------------
(* Plugin.mounts, for newSnapshot in its transaction and for Mounts.        *)

\* The locals of mounts are gone with it.
Leave(c) == pos' = [pos EXCEPT ![c] = 0] /\ tried' = [tried EXCEPT ![c] = {}]

\* An error of mounts: newSnapshot leaves its transaction open, with the layers below
\* mounted; the container's Mounts can be asked again.
Fail(c) ==
  /\ IF txn = c
     THEN txn' = "leaked" /\ Goto(c, "failed")
     ELSE Goto(c, "running") /\ UNCHANGED txn
  /\ Leave(c)

\* The lowest layer of an image: its manager, then the layer under its own key.
PrepareBottom(c) ==
  /\ pc[c] = "load"
  /\ \/ LoadImage(ImageOf[c]) /\ Goto(c, "bind") /\ UNCHANGED <<txn, pos, tried>>
     \/ LoadFails(ImageOf[c]) /\ Fail(c)
  /\ UNCHANGED <<disk, mountVars, handed, at, id, removing, crashes>>

MountBottom(c) ==
  /\ pc[c] = "bind"
  /\ LET l == LayersOf[ImageOf[c]][1] IN
     \/ /\ Mounted(l, id[c], Key(id[c], "active"))
        /\ Goto(c, "mounts")
        /\ UNCHANGED <<txn, pos, tried>>
     \/ /\ NoManager(l) \/ MountFails(l, id[c])
        /\ Fail(c)
        /\ UNCHANGED mountVars
  /\ UNCHANGED <<disk, maps, handed, at, id, removing, crashes>>

\* The next layer of the stack; one of a container has nothing to mount.
MountLayer(c) ==
  /\ pc[c] = "mounts" /\ pos[c] < Len(Stack(c))
  /\ LET i == Stack(c)[pos[c] + 1]
         l == sn[i].layer
         next == pos' = [pos EXCEPT ![c] = @ + 1] /\ UNCHANGED <<pc, tried, txn>>
     IN
     \/ l = None /\ next /\ UNCHANGED mountVars
     \/ l # None /\ Mounted(l, i, Key(i, "committed")) /\ next
     \/ /\ l # None /\ NoManager(l)
        /\ Goto(c, "manager")
        /\ UNCHANGED <<pos, tried, txn, mountVars>>
     \/ l # None /\ MountFails(l, i) /\ Fail(c) /\ UNCHANGED mountVars
  /\ UNCHANGED <<disk, maps, handed, at, id, removing, crashes>>

\* The images of the stack whose managers did not fail to load, by the place of a layer.
Candidates(c) == {n \in 1..Len(Stack(c)) : sn[Stack(c)[n]].image \notin tried[c]}

\* The uppermost of them is loaded and Mount tried again, for ever if its manager is
\* in memory and does not have the layer; mounts fails if there is none.
PrepareManager(c) ==
  /\ pc[c] = "manager"
  /\ IF Candidates(c) = {}
     THEN Fail(c) /\ UNCHANGED maps
     ELSE LET top == CHOOSE n \in Candidates(c) : \A m \in Candidates(c) : m \leq n
              img == sn[Stack(c)[top]].image
          IN
          \/ LoadImage(img) /\ Goto(c, "mounts") /\ UNCHANGED <<txn, pos, tried>>
          \/ /\ LoadFails(img)
             /\ tried' = [tried EXCEPT ![c] = @ \cup {img}]
             /\ UNCHANGED <<pc, txn, pos>>
  /\ UNCHANGED <<disk, mountVars, handed, at, id, removing, crashes>>

NewSnapshot(c) ==
  [kind |-> "active", stack |-> Stack(c),
   chain |-> Chain(ImageOf[c], Goal(c) - 1),
   layer |-> IF c \in Pulls THEN LayersOf[ImageOf[c]][at[c]] ELSE None,
   image |-> ImageOf[c]]

\* The whole stack is mounted: newSnapshot commits, and the mount is handed out.
HandOut(c) ==
  /\ pc[c] = "mounts" /\ pos[c] = Len(Stack(c))
  /\ IF txn = c
     THEN /\ sn' = [sn EXCEPT ![id[c]] = NewSnapshot(c)]
          /\ lastId' = id[c]
          /\ txn' = None
          /\ Goto(c, IF c \in Pulls THEN "commit" ELSE "running")
     ELSE Goto(c, "running") /\ UNCHANGED <<sn, lastId, txn>>
  /\ handed' = handed \cup {id[c]}
  /\ Leave(c)
  /\ UNCHANGED <<dirs, slfs, extracted, stored, maps, mountVars, at, id, removing, crashes>>

\* Plugin.Mounts for a container's snapshot, as after a restart; it only reads.
Mounts(c) ==
  /\ c \in Containers /\ pc[c] = "running" /\ sn[id[c]] # None
  /\ id[c] \notin handed
  /\ Goto(c, "mounts")
  /\ UNCHANGED <<disk, txn, maps, mountVars, handed, at, id, pos, tried, removing, crashes>>

-----------------------------------------------------------------------------
(* The rest of AddSnapshot, and the end of the pull.                       *)

\* Plugin.Commit: a name that exists, or a key that is gone, is an error and rolled
\* back, which leaves the prepared snapshot.
CommitSnapshot(c) ==
  /\ pc[c] = "commit" /\ txn = None
  /\ IF sn[id[c]] # None /\ Named(Chain(ImageOf[c], at[c])) = {}
     THEN /\ sn' = [sn EXCEPT ![id[c]] = [@ EXCEPT !.kind = "committed",
                                                    !.chain = Chain(ImageOf[c], at[c])]]
          /\ Goto(c, "check")
     ELSE Goto(c, "failed") /\ UNCHANGED sn
  /\ handed' = handed \ {id[c]}
  /\ UNCHANGED <<lastId, dirs, slfs, extracted, stored, txn, maps, mountVars,
                 at, id, pos, tried, removing, crashes>>

\* AddSnapshot: the last Stat.
Check(c) ==
  /\ pc[c] = "check"
  /\ IF Named(Chain(ImageOf[c], at[c])) # {}
     THEN at' = [at EXCEPT ![c] = @ + 1] /\ Goto(c, "claim")
     ELSE Goto(c, "failed") /\ UNCHANGED at
  /\ UNCHANGED <<disk, txn, maps, mountVars, handed, id, pos, tried, removing, crashes>>

\* CreateSnapshots is done and Extract has written the files; then completed.json, the
\* lowest layer first, until one cannot be written.
Finish(c) ==
  /\ pc[c] = "claim" /\ at[c] > Depth(ImageOf[c])
  /\ \E k \in 0..Depth(ImageOf[c]) :
       /\ k = Depth(ImageOf[c]) \/ Faults
       /\ extracted' = extracted \cup {LayersOf[ImageOf[c]][j] : j \in 1..k}
       /\ Goto(c, IF k = Depth(ImageOf[c]) THEN "done" ELSE "failed")
  /\ UNCHANGED <<sn, lastId, dirs, slfs, stored, txn, maps, mountVars, handed, at, id, pos,
                 tried, removing, crashes>>

-----------------------------------------------------------------------------
(* Plugin.Remove, called by containerd's garbage collector.                *)

\* containerd does not remove a snapshot while its Mounts is under way.
Removable(i) ==
  /\ removing = None /\ txn = None /\ sn[i] # None
  /\ RemoveParents \/ Children(i) = {}
  /\ \A c \in Containers : id[c] = i => pc[c] \notin {"mounts", "manager"}

\* The transaction; the error storage.Remove gives for a parent is overwritten.
Remove(i) ==
  /\ Removable(i)
  /\ removing' = [id |-> i, kind |-> sn[i].kind, layer |-> sn[i].layer]
  /\ sn' = IF Children(i) = {} THEN [sn EXCEPT ![i] = None] ELSE sn
  /\ handed' = IF Children(i) = {} THEN handed \ {i} ELSE handed
  /\ UNCHANGED <<lastId, dirs, slfs, extracted, stored, txn, maps, mountVars, callerVars,
                 crashes>>

\* The file system of a layer, or the directories of a container's snapshot, which
\* os.RemoveAll may fail to delete.
RemoveFiles ==
  /\ removing # None
  /\ \/ /\ removing.layer # None
        /\ Unmount(removing.layer, Key(removing.id, removing.kind))
        /\ UNCHANGED dirs
     \/ /\ removing.layer = None
        /\ \/ dirs' = dirs \ {removing.id} /\ slfs' = slfs \ {removing.id}
           \/ Faults /\ UNCHANGED <<dirs, slfs>>
        /\ UNCHANGED <<regs, servers>>
  /\ removing' = None
  /\ UNCHANGED <<sn, lastId, extracted, stored, txn, maps, fs, handed, callerVars, crashes>>

\* The metadata of an image leaves the content store.
Collect(img) ==
  /\ Faults
  /\ stored' = stored \ {img}
  /\ UNCHANGED <<sn, lastId, dirs, slfs, extracted, txn, maps, mountVars, handed, callerVars,
                 removing, crashes>>

\* The daemon dies and comes back: an open transaction is rolled back, the file
\* systems are gone, and the layer map knows the extracted layers.
Crash ==
  /\ crashes < MaxCrashes
  /\ crashes' = crashes + 1
  /\ txn' = None
  /\ loaded' = {} /\ known' = extracted /\ managed' = {}
  /\ fs' = [l \in Layers |-> None]
  /\ regs' = [l \in Layers |-> {}]
  /\ servers' = {} /\ handed' = {}
  /\ pc' = [c \in Callers |->
              IF pc[c] \in {"idle", "done", "running"} THEN pc[c]
              ELSE IF pc[c] \in {"mounts", "manager"} /\ txn # c THEN "running"
              ELSE "failed"]
  /\ pos' = [c \in Callers |-> 0]
  /\ tried' = [c \in Callers |-> {}]
  /\ removing' = None
  /\ UNCHANGED <<disk, at, id>>

CallerStep(c) ==
  \/ Start(c) \/ Claim(c) \/ Stat(c) \/ CreateSnapshot(c) \/ MakeDirs(c)
  \/ PrepareBottom(c) \/ MountBottom(c) \/ MountLayer(c) \/ PrepareManager(c)
  \/ HandOut(c) \/ Mounts(c) \/ CommitSnapshot(c) \/ Check(c) \/ Finish(c)

Next ==
  \/ \E c \in Callers : CallerStep(c)
  \/ \E i \in Ids : Remove(i)
  \/ RemoveFiles
  \/ \E img \in Images : Collect(img)
  \/ Crash

Spec == Init /\ [][Next]_vars

-----------------------------------------------------------------------------
\* The layers of an overlay that was handed out stay registered with Client.Mount
\* under the keys Remove will use, although the first mount of a layer and later
\* ones come from different snapshots.
InUseRegistered == \A i \in handed : sn[i] # None /\ \A n \in 1..Len(sn[i].stack) :
  LET q == sn[i].stack[n] IN
  /\ sn[q] # None
  /\ sn[q].layer # None => Key(q, "committed") \in regs[sn[q].layer]

\* No file system is taken down while an overlay that was handed out has its layer.
TeardownUnused == [][\A l \in Layers :
  servers \cap ({l} \X Ids) # {} /\ servers' \cap ({l} \X Ids) = {}
  => \A i \in handed' : \A n \in 1..Len(sn[i].stack) : sn[sn[i].stack[n]].layer # l]_vars

\* One FUSE server at most serves a layer, whoever mounts it at the same time.
OneServer == \A p, q \in servers : p[1] = q[1] => p = q

\* A snapshot of the metastore has all its directories, and a FUSE server the one it
\* is mounted on, although Unmount deletes the directory of the snapshot that mounted
\* the layer first when the last one goes, and after a crash or a failed call too.
DirsKept ==
  /\ \A i \in Ids : sn[i] # None => i \in dirs /\ i \in slfs
  /\ \A p \in servers : p[2] \in slfs
=============================================================================
