# Starlight in TLA+

Models, model-checking runs and proofs for [Starlight](https://github.com/mc256/starlight),
an accelerator for container image pulls: a *proxy* beside the registry computes the
difference between two images and streams it ordered by expected use; a *client daemon*
(a containerd snapshotter) announces the image as soon as its metadata is there and
extracts its content while containers already run on it.

Line numbers are those of the repository at the commit under `src/`.

## 1. The system

| Component | State | Operations | Hard behaviours | Correct when |
|---|---|---|---|---|
| **Image pull** `client/client.go`, `client/manager.go`, `client/grpc.go` | containerd's image store, content store and snapshots; layer directories with `completed.json`; in memory the manager map, the layer map and one mutex for each | `PullImage` (gRPC handler and goroutine), `LoadImage`, `PrepareDirectories`, `CreateSnapshots`, `Extract`, `ScanExistingFilesystems` | concurrent pulls, crash between any two stores, broken connection and retry, image used before it is extracted | complete images are really complete and survive; nothing unextracted is ever taken for extracted; every caller is answered |
| **Reading during a pull** `client/fs/fs.go`, `util/receive/image.go` | one `Signal` channel per payload content | `Open` waits, `Extract` closes | reader before writer | a file that opens is extracted |
| **Layer cache** `proxy/server.go`, `proxy/builder.go`, `util/common/cache.go` | layers in memory, their subscribers | `delta` (`Load`, `fetchLayers`, `WriteHeader`, `WriteBody`), `cacheTimeoutValidator` | requests sharing a download, failing downloads, expiry | one download per layer; whoever has its header out has its layers |
| **Delta computation** `proxy/builder.go`, `util/send/image.go` | none | `computeDelta` | references between layers, deduplication, order | every file of the target is in the base or in the payload, and is read where it is |
| **TOC database** `proxy/database.go`, `proxy/extractor.go` | images, layers, files, ranks, tags (PostgreSQL) | `SaveToC`, `saveLayer`, `UpdateFileRanks`, `NewBuilder` | concurrent and dying notifies, one transaction per layer | a ready image has all its files |
| **Snapshotter** `client/snapshotter` | containerd's metastore, directories | `AddSnapshot`, `Prepare`, `Commit`, `Remove`, `Mounts` | transactions on error paths, a crash between the metastore and the disk | snapshots have their directories, mounts their layers |
| **Layer mounts** `client/client.go`, `client/fs` | the FUSE server of each layer and the keys using it | `Mount`, `Unmount`, `Close` | counting the users of a shared mount | mounted exactly while used |
| **Layer trees** `client/manager.go` | the file tree of a layer | `Manager.Init`, `Lookup`, `Readdir` | whiteouts, Go's map order | the tree is the layer's |
| **Optimizer** `client/fs/tracer.go` | tracers, trace files, ranks | `SetOptimizer`, trace, close, `ReportTraces` | switching while pulls run, reports while files are written | no trace lost, ranks in the order of use |
| **Chunked archives** `util/common/stargz.go`, `toc.go` | the archive being written | `AppendTar`, `Close`, `OpenStargz`, `ReadAt` | chunk boundaries | reading gives what was written |
| **Convertor** `util/convertor.go` | temporary files, the index under construction | `ToStarlightImage` | images and layers converted concurrently | layers in their order, whole |
| API clients, command line, configuration, generated code | – | – | – | not modelled: section 6 |

How they interact: `ctr-starlight pull` is one gRPC call to the daemon. Its handler starts
the goroutine `Client.PullImage` and receives one message (two with `--disable-early-start`)
on an unbuffered channel. The goroutine asks the proxy for the delta, stores manifest,
configuration and header in containerd's content store, builds a *manager* (the file trees),
registers it, prepares layer directories, creates a snapshot for each layer, announces the
image and extracts the payload. Creating the bottom snapshot, and every start of a container,
goes through containerd into the snapshotter plugin, which comes back to `LoadImage` and
`Mount`. At the proxy a notify request saves the tables of contents of an image's layers; a
delta request reads them, computes the bundle and starts one goroutine per layer the client
lacks; those share downloads through the cache. Traces of the files a container opens go back
to the proxy, which ranks files by them. `PROJECT.json` lists the hazards, each at its line.

## 2. Modules

| Module | Contents | Instance | Proofs |
|---|---|---|---|
| `ImageLifecycle` | abstract: what a caller of the daemon may rely on | – | – |
| `ImagePull` | the client daemon: pulls, container starts, crashes, restarts; implements `ImageLifecycle` | `MCImagePull` | `ImagePullProofs` |
| `LayerCache` | the proxy: delta requests, shared downloads, the cache validator | `MCLayerCache` | `LayerCacheProofs` |
| `TocDatabase` | the proxy: notifies, reports and delta requests on the database | `MCTocDatabase` | `TocDatabaseProofs` |
| `Snapshotter` | the daemon: metastore, directories, FUSE servers | `MCSnapshotter` | `SnapshotterProofs` |
| `DeltaImage` | the delta bundle from the TOCs to the client's file system | `MCDeltaImage` | `DeltaImageProofs` |
| `Archive`, `LayerTree` | the archive of a layer; the tree the client serves of it (`LayerTree` extends `Archive`) | `MCLayerTree` | `LayerTreeProofs` |
| `Optimizer` | tracers, trace files, reports, ranks | `MCOptimizer` | `OptimizerProofs` |
| `Convertor` | the conversion of an index | `MCConvertor` | `ConvertorProofs` |

Definitions called like another one plus a few words (`NextLayerStopsEarly` next to
`NextLayer`) are that code with a plausible bug. No specification uses them; they serve to
confirm that a run notices the bug when such a definition takes the other one's place.

### 2.1 `ImagePull` and `ImageLifecycle`

A pull is a process with a program counter `pc`, the image it is for, a loop counter `idx`,
and the state of its gRPC handler, `reply`. Each access to something another goroutine,
another pull, a container start or a crash can observe is a step of its own.

| Variables | In the code | Over a crash |
|---|---|---|
| `imageStore` | containerd image: absent, created, or with the completion label | kept |
| `blobs`, `gcLabels` | manifest, configuration, header; labels written by `updateManifest` | kept |
| `snapshots` | committed snapshots by chain ID, with the image label that `getFsStack` reads | kept |
| `directories`, `files`, `completedJson` | `<root>/layers/<digest>/…` | kept; `ScanExistingFilesystems` removes directories without `completed.json` |
| `managerMap`, `managerMapLocked`, `layerMap` | the maps of `Client` and `managerMapLock` | lost |
| `closed` | the payload contents whose `Signal` channel is closed | lost |
| `completedStack` | `Manager.completedStack` | lost |
| `daemon` | `up`, `down` (crashed), `fatal` (killed by the Go runtime: unlock of an unlocked mutex) | |

| Action | Code |
|---|---|
| `Request` | handler and `pullImageGrpc` begin |
| `FindImage`, `LoadExisting`, `DeleteIncomplete` | lookup by `findImage`, "already exists", delete and pull again |
| `DeltaImage` | the HTTP request |
| `LockManagerMap`, `StoreBlob`, `CreateImage` | from `managerMapLock.Lock` to `Unlock`: three blobs, the image, the manager |
| `PrepareDirectory` | one layer of `PrepareDirectories` |
| `ClaimLayer`, `AddSnapshot` | one layer of `CreateSnapshots`: layer map under its mutex, then `StatSnapshot`, `PrepareSnapshot` (through containerd and back into `LoadImage`) and `CommitSnapshot`, the three calls of `Operator.AddSnapshot`, between which other pulls commit the same name |
| `Announce` | first signal |
| `DiscardContent`, `CreateFile`, `WriteFile`, `ExtractFails`, `AllExtracted`, `MarkLayer` | `Extract`: content by content, then `completed.json` by `completed.json` |
| `LabelImage`, `UpdateManifest`, `Deferred` | completion label, GC labels and second signal, deferred unlock |
| `MountContainer` | `Plugin.mounts` where it has a manager loaded |
| `Crash`, `Restart` | process death; `NewClient` and `ScanExistingFilesystems` |

Abstractions. A reference always resolves to one digest; the base image only decides the
payload. Of several images matching the prefix filter the code takes the newest by the wall
clock: the model takes any. The default optimizer is off, so `SetOptimizerOn` is not called
(`Optimizer` has it). `CreateImage` covers `Manager.Init`, whose trees are in `LayerTree`.
Failing containerd calls leave nothing behind here; that several error paths of the plugin
leave a metastore transaction open is in `Snapshotter`, and is one more reason why `pull_live`
is checked without failing stores. In the default mode nobody receives the second signal: the
goroutine stays at `blocked`.

`ImageLifecycle` has the store of images and, for each caller, what it asked for and was told.
An image goes `none`, `created`, `complete`; "already exists" is told of a complete image, "ok"
of one that is there, or of a complete one if the caller disabled the early start.
`Lifecycle == INSTANCE ImageLifecycle WITH store <- imageStore, answer <- reply` is the
refinement; a pull's other steps stutter.

### 2.2 `LayerCache`

A *fetch* is the goroutine of one request for one position of its list of layers (`Needs`): a
layer an image has twice has two. A `LayerCache` object is named by
the fetch that made it, so that a pointer survives the deletion of the map entry. `LookUp` is
the block under `cacheMutex`; `Subscribe`, `Receive` the branch of a layer found; `Load`,
`SetReady` that of a new one. `SetReady` carries no error, because Go evaluates the argument
of `defer lc.SetReady(err)` at the `defer`. `Delta`, `ReadMetadata`, `Wait`, `WriteContent`,
`BodyWritten` are the handler. The validator walks over the map entry by entry, without the
mutex: the Go runtime may detect a concurrent write and kill the proxy (`proxy = "fatal"`).

### 2.3 `TocDatabase`

`image`, `layer`, `filesystem`, `ranks`, `tag` are the committed tables; what an open
transaction wrote is implied by where its goroutine is, and shows only to a statement that
waits for it (`RowHeld`, `FilesHeld`, `CopiedElsewhere`). The isolation is PostgreSQL's READ
COMMITTED: an insert waits for a transaction that holds the same unique key, and fails if it
commits. `InsertFiles` is `DeleteFiles` and then one `CopyFile` for each row, in any order,
because the rows come from a Go map: two transactions that found no rows to delete can each copy
a row the other one needs. PostgreSQL then aborts one of them (`Deadlock`); without that step
`NotifyEnds` is violated.

| Action | Code |
|---|---|
| `Fetch` | `remote.Get` in `SaveToC`: one manifest, or those of an index |
| `SelectImage`, `InsertImage` | the two statements of `InsertImage`, on two moments |
| `LookUpLayer`, `InsertLayer` | `InsertLayer`: its query outside the transaction, its inserts inside |
| `Download`, `DeleteFiles`, `CopyFile`, `Commit` | the rest of `saveLayer` with its deferred `Commit` |
| `WaitLayers`, `EnableImage`, `SetTag` | `errGrp.Wait`, `SetImageReady`, `SetImageTag`, next manifest |
| `Deadlock` | PostgreSQL aborts one of two transactions that wait for each other |
| `NotifyFails`, `SaveFails` | a registry error; a failing statement, after which the commit is a rollback |
| `MapLayers`, `RankLayer`, `ReportEnds` | `UpdateFileRanks`, one layer at a time |
| `Resolve`, `ReadLayers`, `ReadFiles` | `NewBuilder`, `GetLayers`, and the file queries of `computeDelta` |
| `Push`, `Crash` | the registry's tag moves; the proxy dies, open transactions are rolled back |

### 2.4 `Snapshotter`

The metastore allows one write transaction at a time: `txn` names its owner, or is `"leaked"`
after one of the error returns of `newSnapshot` that neither commit nor roll back. A snapshot
is a number (its directory); a key is the pair of number and kind, because `Commit` renames it.

| Action | Code |
|---|---|
| `Start`, `Claim`, `Finish` | the manager is registered and `CreateSnapshots` called; a layer gets the manager; the `completed.json`s at the end of `Extract` |
| `Stat`, `Check` | the first and the last `Stat` of `Operator.AddSnapshot` |
| `CreateSnapshot`, `MakeDirs` | `newSnapshot`: the transaction with `storage.CreateSnapshot`, the directories |
| `PrepareBottom`, `MountBottom` | `mounts` without a parent: `PrepareManager`, `Client.Mount` |
| `MountLayer`, `PrepareManager` | one round of the loop of `mounts`: `Client.Mount`, and after `ErrNoManager` the next manager |
| `HandOut` | the end of `mounts`; the commit of `newSnapshot` |
| `Mounts`, `CommitSnapshot` | `Plugin.Mounts` and `Plugin.Commit` |
| `Remove`, `RemoveFiles` | `Plugin.Remove`: its transaction, then `Client.Unmount` or the directories |
| `Collect`, `Crash` | containerd collects an image's blobs; the daemon dies |

`Mounted`, `NoManager`, `MountFails` are the outcomes of `Client.Mount`; `LoadImage`, `LoadFails`
those of `PrepareManager`; `Unmount` is `Client.Unmount`, with the deletion of the directory of the
snapshot that mounted the layer first (client.go:1069), which a failing `Teardown` leaves alone.
`regs` is `mountPoint.snapshots`, `fs` is `mountPoint.fs`, by the snapshot whose directory it has,
`servers` is what the kernel has mounted, `slfs` the directories the servers are mounted on, and
`loaded`, `known`, `managed` are the manager map and the layer map. `pos` and `tried` are locals of
`mounts`: the layers mounted so far, and the managers that did not load. A mount may fail at any
layer and leave the ones below mounted.

### 2.5 `DeltaImage`

`Request` is a delta request with `computeDelta` whole, for every assignment of contents to
the files of three layers (`toc`), two orders of layers and both payload modes; `Extract` takes
one content off the payload into the directory of its first layer. `ReferenceFsId`,
`ReferenceStack`, `PayloadOrder` and `RealPath` are the fields of a file and `getRealPath`.
Stacks are counted from 0 as in the code, because 0 also means "no reference" there.

### 2.6 `Archive` and `LayerTree`

`AppendTar` and `Close` write gzip members byte by byte of the tar, where a byte is the entry it
is of and its position, so that a wrong cut shows. A member of `k` bytes takes `k + 1`. From the
TOC, `Reader`'s maps are the operators `Plain`, `Indices`, `AllNames`, `ChildrenOf`; `OpenFile`,
`ReadAt` and `ChunkEntryForOffset` are operators over them. `LayerTree` continues with
`Manager.Init`: `Fill` puts the entries of one layer into `fileLookUpMap`, `Visit` is one round
of its loop, in any order; `Lookup` and `Readdir` are those of `StarlightFsNode`. A round
finds its parent in the map and marks it opaque (`Mark`) or gives it a child (`AddChild`); a
marker leaves the map, so that a key below one does nothing if it comes later. `InOrder` is the
order in which a loop over the TOC or over the members meets the elements of a set.

### 2.7 `Optimizer`

`Register`, `CheckDefault`, `Enable` are the steps of a pull that concern tracing, `Load` is
`LoadImage`; `SetOptimizerOn` and `SetOptimizerOff` the handler with its loop over the managers,
which runs also if the optimizer is off already; `Open` and `LogTrace` the two ends of a file being
opened, or of an `Fsync` (fs.go:230), which may wait for its signal in between; `Stop` an orderly
`Client.Close` or a crash. Closing a tracer may fail in two ways: its write, whose error is dropped
(`unwritten`), and its file's close, after which the manager keeps a tracer that can no more be
written (`stuck`). `ReadDir`, `Read`, `RemoveFile` and `Upload` are `ReportTraces`: listing, reading a
file, removing it, merging into groups and sending. A file that does not parse, because its tracer is
open or its write failed, is passed over. Two reports can both read a file before one removes it.
The ranks the proxy appends are in `order`. Both sorts, by access time in `Tracer.Close` and over a
group in the collector, are `Arranged`: the elements in the order of their keys, which are
distinct, because no two accesses have one time.

### 2.8 `Convertor`

An image is read (`ReadImage`), or its config is missing and the process panics (`ConfigMissing`,
convertor.go:223 uses the config before 225 looks at the error). A task is one history entry of one
manifest: `NoLayer`, or `CreateFile`, `AppendLayer` (one write each), `AddLayer`, or `LayerFails`.
Temporary files are named by index and digest, so two tasks may have one file, each with an offset of
its own. `AppendManifest` or `ImageFails` follows the layers of an image, `Upload` all images, with an
error if one of them has failed. `Descriptor` has the size the *old* manifest had.

## 3. Runs

### 3.1 What holds

| Run | Instance | Shows |
|---|---|---|
| `pull_crash` | 3 pulls of 3 images, one of which the others are built on, one at a time, 2 crashes, containers started any time; 611 000 states | `CompletedLayerExtracted`: a `completed.json` is never there before the layer's contents. `ClosedMeansExtracted`: a closed signal means an extracted file. `CompleteImageMountable`: the layers of a complete image are in the layer map, and the plugin's retry loop ends: each layer has its manager, or the plugin can have it loaded, or the pull whose image it would load is about to claim the layer |
| `pull_disjoint` | 3 pulls, 2 at a time of different images sharing a layer, all failures, 1 crash; 829 000 states | `ImplementsLifecycle`: every answer is true when given. `CompleteImageLoadable`: a complete image has blobs, snapshots and `completed.json`s. `LayerMapBacked`: what is in the layer map has its directory. `NoFatalUnlock`, `TypeOK` |
| `pull_live` | 2 pulls, both modes, broken connections, 1 crash, `FairSpec`; 153 000 states | `HandlerAnswers`: every handler is answered. `ReceivedCompletes`: a pull that has read its payload ends with its image complete |
| `cache_requests` | 2 requests for a layer that one of them has twice, everything may fail, a timeout of 1 in a time of 2, `FairSpec`; 104 000 states | `SharedWithinTimeout`: fetches that both download a layer are further apart than the timeout. `ServedUnlessFailed`: header out implies that each layer is in memory or its download failed. `RequestEnds`: no fetch misses the end of the download it waits for. `TypeOK` |
| `toc_database` | 2 notifies of one tag that moves or names two images, which share a layer of two files and one of which has it twice; a report, a delta request, failures, 1 crash, `FairSpec`; 483 000 states | `ReadyImageExtracted`: a ready image has its layers and their files. `OkMeansSaved`: an OK notify has all images ready and tagged. `OneExtractorPerImage`. `ServedImageComplete`: the queries of a delta request together see a whole image. `NotifyEnds`: transactions that wait for each other's rows end, with a deadlock broken by the database |
| `snapshotter` | 2 pulls of images with a common layer, a container, `Remove` of any snapshot without children, failing directories, loads, mounts and teardowns, collected images, 1 crash; 1 048 000 states | `InUseRegistered`: the layers of an overlay handed out stay registered under the keys `Remove` will use. `TeardownUnused`: no file system in use is taken down. `DirsKept`: a snapshot has its directories and a server the one it is mounted on, although `Unmount` deletes the directory of another snapshot than the one removed. `OneServer` |
| `delta_update` | every TOC of 2 names in 3 layers, 2 updates in a row between 3 images; 318 000 states | `EveryFileCovered`: each file the client cannot have is in the payload once, or refers to an available layer whose TOC has the content. `BodyFromFetchedLayer`. `PriorityOrder`. `ReadableFromWhole`: after extraction each file is where the file system looks for it, if the layers built upon are whole |
| `layer_tree` | every archive of up to 3 of 12 headers, chunks of 2 bytes; 35 700 states | `ExtractedIsContent`, `ReadAtIsContent`: chunks cut out by the proxy, or read at any offset, are the file's bytes. `TreeIsLayer`: the tree has each file once, below its parent, and the opaque attributes. `LookupFindsListed`: `Lookup` finds the child that `Readdir` lists |
| `optimizer` | 2 managers, 2 reports, 2 images sharing a layer, 2 groups, 1 switch, 2 events among accesses, failing writes, closes, removes and uploads, and crashes; 2 106 000 states | `OnCoversAll`: a switch and a pull do not miss each other. `TraceKept`: no trace is lost but with an upload, the process, or a file that could not be written or closed. `RankFollowsAccess`, `RankOfItsFile` |
| `convertor` | 3 platforms of which 2 are asked for, up to 3 layers shared at the same and at different places, layers and images that fail; 185 000 states | `IndexIsRequested`, `LayersInOrder`, `FilesWhole` |

Properties that hold only under a restriction name it through a constant: one pull at a time
(`MaxInFlight = 1`), no image twice at a time (`SameImage = FALSE`), no container of an
incomplete image (`MountedImages = {}`), no reference that is a prefix of another
(`NamedLike`), no failing call of containerd (`StoresFail = FALSE`), no failing commit
(`CommitsFail = FALSE`), no removal of a snapshot with children (`RemoveParents = FALSE`;
containerd's metadata layer refuses it). The next section says what happens without.

### 3.2 What does not hold

Two runs check a statement of the repository's comments that the code does not keep; TLC gives
the execution.

| Run | Statement violated | Execution |
|---|---|---|
| `fatal_unlock` | client.go:604 "the lock has not been released, unlock it" | a second pull of the image removes the manager of the first, whose deferred function then unlocks a mutex it no longer holds |
| `retry_skips` | manager.go:206 "it means the layer exists in the local filesystem…" | broken connection, retry: the layer is found in the map, its content dropped, `completed.json` written |

The following came up while modelling. The models have this behaviour unless stated otherwise;
the properties above are stated so that they hold beside it.

*Client daemon.*

* With `MaxInFlight = 2` in `pull_crash`, `ClosedMeansExtracted` fails: `PrepareDirectories`
  reads the layer map that `CreateSnapshots` writes, so two pulls that share a layer both
  extract it, and `os.Create` of one truncates a file whose signal the other has closed.
* With `MountedImages = {A, B}` in `pull_disjoint`, `LayerMapBacked` fails: a container of an
  incomplete image started after a crash makes `LoadImage` enter layers that have no
  directory, and a later pull takes them as existing. If the images have layers at different
  heights, say `<<L1, L2>>`, `<<L3, L2>>` and `<<L3>>`, this reaches the disk: the first image's
  pull dies between its two `completed.json`s, a container of it is started, the pull of the
  second fails at the snapshot on L2 and leaves L3 in the layer map with an empty directory, and
  the pull of the third drops L3's content and writes its `completed.json`.
  `CompletedLayerExtracted` then fails with one pull at a time; without containers it is proved.
* A snapshot of a base image is labelled with the image that was pulled first, which may be one
  built on it. While that image is pulled again and its manager is registered but has claimed no
  layer yet, `mounts` of the complete base image finds the manager in memory, gets nothing from
  loading it, and spins until the pull has claimed (plugin.go:602).
* The first content of a payload has position 0 (builder.go:443), but `InPayload` wants more
  than 0 (receive/image.go:189): its files never make a reader wait.
* Contents of a layer found on disk are skipped without closing their signal (manager.go:137):
  who waits for one waits for ever.
* If the completion label or `updateManifest` fails (client.go:787), no second signal is sent
  and a caller that disabled the early start is never answered. A crash between the two
  (client.go:795) leaves a complete image without garbage-collection labels.
* A complete image is not kept. A second pull of an image reads it as incomplete, the first one
  completes it, and the second deletes it (client.go:549, decided from the list read at 524).
  An image whose reference begins with the requested one is taken for it (client.go:96): while
  `app:10` is incomplete, a pull of `app:1` deletes the complete `app:1`. So "complete images stay
  complete" is no property here; the refinement has it where neither happens (`Exclusive`).
* Several error returns of `newSnapshot` leave the metastore's write transaction open; all
  later calls block until the daemon dies. `storage.Remove`'s error is dropped and the
  directory removed all the same (plugin.go:410): with `RemoveParents = TRUE`, `InUseRegistered` fails.
* After the last user of a layer is unmounted `fs` stays set: a later `Mount` returns a mount
  point with no server behind it. If no manager can be loaded `mounts` returns the error
  (plugin.go:610); it retries for ever if `PrepareManager` succeeds with a manager that is in memory
  and does not have the layer, because `mdsidx` is not advanced then (plugin.go:613). The lowest layer's random prepare key is registered and never removed.
* `mounts` lists the lower directories in the order of the chain (plugin.go:597); which one
  wins is decided by the kernel and not modelled.
* Optimizer: a pull reads `defaultOptimizer` without a lock; an image pulled again replaces
  its manager in the map, and the old tracer is never closed; `SetOptimizerOn` with another group keeps
  the group of running tracers; a trace file is removed before its upload has succeeded; overlapping
  reports can both read a file before one removes it, and so upload its trace twice; the default group
  loses the stack of a file; an image the proxy does not know ends `UpdateFileRanks` midway while the
  client sees a success. A failing `SetOptimizerOn` (client.go:728) leaves a registered manager
  without layers (`LoadFails` of `Snapshotter`; in `Optimizer` making the file never fails).
* Traces are lost without a word: when the write of the file fails (the error is dropped,
  tracer.go:111) or leaves a file that does not parse (tracer.go:217); when closing the file fails,
  after which the manager keeps the tracer (manager.go:384), logs into it and never writes it; with a
  failed upload; with the tracer of a replaced manager when the daemon ends. `TraceKept` leaves out
  what is in `lost`, and says that nothing else goes.
* `Manager.Init` panics for an archive without entries; whiteouts are listed by `Readdir` and
  not found by `Lookup`; below a directory whose name is a whiteout's nothing is found, because
  `Lookup` makes the key from the name the directory shows (fs.go:76), hence `lookup \ device` in
  `LookupFindsListed`. What is below an opaque marker is added to the marker or left out,
  as the map's order has it. A whiteout's mode is set (manager.go:357) after
  `InitFuseStableAttr` (manager.go:326) has computed the served one, as a regular file's.
  Hard links have no digest, and empty files are in no payload, so that opening them fails.

*Proxy and tools.*

* A failed download is never reported to the cache's subscribers: later requests get a header
  and then a nil buffer (cache.go:76). No layer ever leaves the cache although server.go:76
  says "Delete Expired Cache": the guard of line 77 compares the wrong way round (`NeverExpired` in
  `LayerCacheProofs`). `SharedWithinTimeout` does not depend on that: it holds also where entries
  expire after the timeout.
* `InsertLayer` always says that a layer is new (database.go:322): it is extracted again, and
  its ranks are deleted with its file rows. Two transactions that copy the same rows may deadlock, after
  a failed download has left a filesystem row without files. Concurrent notifies that share a layer, or one image
  that has a layer twice, can make one fail; its image then stays pending and later notifies of
  it fail too. The error of the deferred commit is dropped: with `CommitsFail = TRUE`,
  `ReadyImageExtracted` and `ServedImageComplete` fail. A failed download commits a filesystem
  row without files. A tag may be set by the older of two notifies last. `UpdateFileRanks` is
  no transaction. `Notify` and `Report` of the API client return nil when the proxy reports an error.
* A file may refer to a layer whose TOC has the content while the client's directory of that
  layer does not, because an earlier update put it elsewhere ("expecting the file is available",
  send/image.go): hence the premise of `ReadableFromWhole`. `ReferenceStack` 0 is taken as none.
* In the TOC `Gname` is restored from `uname` (stargz.go:164); a name that occurs
  several times keeps the chunks of its last file of several chunks, also where a later file of one
  chunk or none has the name: then the older file is served (`Source`).
* In a converted index the descriptors have the new digests with the sizes of the old manifests
  (convertor.go:418). A config that cannot be read panics the process (convertor.go:224).
* The size in a converted layer's descriptor can be short while another conversion rewrites the
  same temporary file; the order of manifests depends on timing; an image with fewer history
  entries than layers loses layers, one with more panics.

### 3.3 Bounds

`ImagePull`: two images of two layers sharing the bottom one, with one content per layer, are
the smallest instance with a shared layer, a layer of its own, and a content of each kind; both
payloads bring the shared layer, as happens when the second image's base is not the first. In
`pull_crash` a third image is the shared layer alone, so that a chain of snapshots is a whole
image and part of another. The
content at position 0 and one after it are both there. Two pulls at a time are enough for every
race over one mutex, one map entry or one file; the third pull comes after the race and retries.
One crash reaches every intermediate state of the disk, the second one hits the recovery from
the first. `Symmetry` permutes pulls, and is used only in runs without liveness; the properties
of `pull_disjoint` do not tell pulls apart.

`LayerCache`: three fetches of one layer, two of them of one request: a shared download in both
orders, within a request and between two. `CacheTimeout` 1 and `MaxTime` 2 have fetches closer
than the timeout and further apart.

`TocDatabase`: one layer digest, in two images and twice in one of them, is the case in which
rows are waited for in every way; two `Files` are what a deadlock needs; `MaxPushes`, `MaxCrashes` 1; a second platform gives an index. `MaxRank` 1
tells ranks kept from ranks lost.

`Snapshotter`: `MaxId` 5 numbers suffice for both images, the container and a retry;
one crash. `DeltaImage`: three layers, so that a file can be in the base, in a lower or in an
upper layer; two names and two contents plus "empty" and "none" give every pattern of equal and
different files; `MaxUpdates` 2 makes the second update build on directories the first one left.
`Archive`: sizes 1, 4 and 5 with chunks of 2 are less than a chunk, whole chunks, and a short
last one; three entries give every name twice; a directory below a marker and one below a
whiteout reach the rounds without a parent and the shown names. `Optimizer`: two accesses are an order, an
access and a fault lose what can be lost; one switch each way races every step of a pull; `MaxActors`
3 has two managers with a report, or two reports with a manager. `Convertor`: `Bytes` 2 lets one writer be between the
other's writes.

Deadlock is checked in the runs of `ImagePull` and `LayerCache`: `Idle` and `Dead` are the
states where the program has nothing to do; in `LayerCache` the validator never stops. The
other runs say `CHECK_DEADLOCK FALSE`, because their requests are used up and the program then
waits for the next one; that requests end is `NotifyEnds` in `toc_database`.

### 3.4 Fairness

`ImagePull!FairSpec`: weak fairness of each pull's next step – the Go scheduler runs
goroutines that can run, calls to containerd and reads of the connection end (with a result
or an error) – and of `Restart` (`demo/deb-package/debian/starlight.service` says
`Restart=always`). A pull blocked on the mutex is not scheduled by weak fairness alone when
others could take it again and again; pulls are finitely many, so it is free in the end. There is none for
`Request`, `Crash` and `MountContainer`. `LayerCache!FairSpec`: weak fairness of each request,
each fetch, the validator and the clock. `TocDatabase!FairSpec`: weak fairness of each
notify's handler and of each of its goroutines; none for `NotifyFails` and `SaveFails`, so that
a notify must end without a fault helping it.

## 4. Proofs

All theorems hold for any images, layers, requests and bounds that the named assumptions of the
modules allow (`ImagesAssumption`, `NamesAssumption`, `BoundsAssumption`, `RequestsAssumption`,
`NilAssumption`, `ParametersAssumption`, `DataAssumption`, `ConvertorAssumption`,
`OptimizerAssumption`, `ArchiveAssumption`): an image has finitely many file names and as many layers as its history has
entries with one; images have at least one layer where
the code indexes it, payload contents go to layers of their image, `None` and `Nil` are no other value; chunks have
at least one byte, and a header's name is a path of names, its size a natural number.

| Theorem | States | Argument |
|---|---|---|
| `ImagePullProofs!TypeCorrect` | `Spec => []TypeOK` | `TypeInv`: `TypeOK` and `Indexed`, the loops over layers stay within the image |
| `ImagePullProofs!CompleteLoadable` | `Spec => []CompleteImageLoadable` | `LoadableInv`: what each pull has stored by the step it is at (`BlobsProgress`, `SnapshotsProgress`, `MarksProgress`). Blobs, snapshots and `completed.json`s only grow (`Growth`), so each pull's progress survives the steps of all others and crashes (`ProgressKept`). No restriction is needed: it holds for concurrent pulls of one image too |
| `ImagePullProofs!LayerMapIsBacked` | `Spec /\ [][MountsQuietly]_vars => []LayerMapBacked` | `BackedInv`: pulls past `PrepareDirectories` have all directories of their image; a layer with `completed.json` has its directory, so that a restart keeps it |
| `ImagePullProofs!NeverFatalUnlock` | `SameImage = FALSE => (Spec => []NoFatalUnlock)` | `LockInv`: one running pull per image; registered pulls have their manager in the map; whoever `Holds` the mutex has it locked, and is alone |
| `ImagePullProofs!PullsImplementLifecycle` | `Exclusive => (Spec => ImplementsLifecycle)` | `LifeInv`: where a pull is fixes the state of its image and what its caller was told (`Promise`). With `LockInv` no other pull changes that image; each step of the code is then one of `ImageLifecycle` or a stutter |
| `ImagePullProofs!CompleteMountable` | `StoresFail = FALSE => (Spec => []CompleteImageMountable)` | `ClaimInv`: a pull has given a manager to the layers it has passed. `LabelInv`: a snapshot is labelled with an image its chain is part of, and none is above a missing one. `ManagerInv`: a manager in memory has claimed the layers its image's snapshots name (`StoredManaged`), or its pull is about to. With `LoadableInv`, concurrent pulls and crashes included |
| `ImagePullProofs!ClosedExtracted` | `MaxInFlight = 1 /\ PayloadsDistinct => (Spec => []ClosedMeansExtracted)` | `ClosedInv`: one pull runs (`OneInFlight`), what it has closed lies before the content it is at, and the layers it will extract are `Apart` from those with closed signals, which are all in the layer map. Failures, crashes and mounts included |
| `ImagePullProofs!CompletedIsFilled` | `QuietWorld => (Spec /\ [][MountsQuietly]_vars => []CompletedFilled)` | `ExtractInv`: layers a pull skips are full, layers it does not skip have what it has `Received`. `FoundFull`: a layer in the map is full or being extracted by the running pull. This is what concurrent pulls, retries and containers of incomplete images break |
| `ImagePullProofs!CompletedExtracted` | `QuietWorld /\ PayloadsAgree => (Spec /\ [][MountsQuietly]_vars => []CompletedLayerExtracted)` | from `CompletedFilled`: what one image's payload brings for the layer is what every other one brings |
| `LayerCacheProofs!TypeCorrect` | `Spec => []TypeOK` | itself |
| `LayerCacheProofs!LoadedOnce` | `Spec => []SharedWithinTimeout` | `CacheInv`: a fetch past its lookup holds the object in the map, which stays there, because the validator's guard is never true (`NeverExpired`) |
| `LayerCacheProofs!ServedLoaded` | `Spec => []ServedUnlessFailed` | `LoadedInv`: what is ready has ended its download, with or without success; who is notified waits for a ready object |
| `TocDatabaseProofs!OneExtractor` | `Spec => []OneExtractorPerImage` | `Inserted`: who saves the layers of an image found it absent and made it pending; an image is never absent again |
| `TocDatabaseProofs!OkIsSaved` | `Spec => []OkMeansSaved` | `AnswerInv`: the manifests before the one a notify is at are ready and tagged; ready images stay ready (`ReadyKept`), set tags stay set (`TagKept`) |
| `TocDatabaseProofs!ReadyIsExtracted` | `CommitsFail = FALSE => (Spec => []ReadyImageExtracted)` | `RowInv`: between its query and its commit `saveLayer` knows whether the filesystem row is there, and one transaction alone has inserted it (`OneHolder`). So a failed download never makes bare what another one has filled (`ExtractedKept`), and what a goroutine has saved stays until its notify enables the image (`SavedLayers`) |
| `TocDatabaseProofs!ServedIsComplete` | `CommitsFail = FALSE => (Spec => []ServedImageComplete)` | `BuilderInv`: a delta request resolves to a ready image, and that stays extracted between its queries |
| `SnapshotterProofs!OneServerPerLayer` | `RemoveParents = FALSE => (Spec => []OneServer)` | `FsInv`: a server is the file system `fs` of its layer, on a directory that exists |
| `SnapshotterProofs!DirectoriesKept` | `RemoveParents = FALSE => (Spec => []DirsKept)` | `TxnInv`, `TreeInv`: the owner of the write transaction has the next number, its directories exist before it commits, and what `RemoveFiles` deletes is out of the metastore. `FsInv` and `RegsInv`: the snapshot that mounted a layer first is registered as long as it is in the metastore, so that the last `Unmount` deletes the directory of one that is gone |
| `SnapshotterProofs!InUseStaysRegistered` | `RemoveParents = FALSE => (Spec => []InUseRegistered)` | `RegsInv` with `TreeInv`: a snapshot's parents are in the metastore as long as it is |
| `SnapshotterProofs!TeardownOfUnusedOnly` | `RemoveParents = FALSE => (Spec => TeardownUnused)` | from the invariant: a teardown needs an empty set of keys |
| `DeltaImageProofs!Covered` | `Spec => []EveryFileCovered` | `BundleInv`: the payload is one the proxy can compute for the two images, the client is within it. Lemmas say what `computeDelta` gives for any TOC: layers, stacks, contents without repetition (`PayloadType`, `MissingType`) |
| `DeltaImageProofs!CutFromFetched` | `Spec => []BodyFromFetchedLayer` | `BundleInv`: the stack of a content is the least of its files', in a layer the client lacks |
| `DeltaImageProofs!InPriorityOrder` | `Spec => []PriorityOrder` | `BundleInv`, with the definition of the payload's order |
| `DeltaImageProofs!Readable` | `Spec => []ReadableFromWhole` | `PlacedInv`: each content taken off the payload is in the directory of its stack, unless that layer came whole with another image |
| `LayerTreeProofs!ArchiveLaidOut` | `Spec => []ArchiveInv` | itself inductive: there are two sequences of numbers, where the entries and where the chunks of each header begin, such that every chunk of every file is `Placed` as its entry says, and the members are `Ordered`. Appending keeps what is placed (`PlacedKept`), because the TOC and the members only get longer |
| `LayerTreeProofs!ExtractedIsTheContent` | `Spec => []ExtractedIsContent` | `ArchiveInv`. Lemmas say what the `Reader` makes of such a TOC: the name of a chunk's entry (`NameIs`), the entry of a file (`SourceIs`), its chunks in order (`FileIs`), their sizes (`ChunkSizeIs`). The range of a chunk holds one member alone (`BetweenOne`), and pieces that begin where the last one ends concatenate to the whole (`FlattenPieces`) |
| `LayerTreeProofs!ReadAtIsTheContent` | `Spec => []ReadAtIsContent` | the same: the chunk an offset is in is the one `sort.Search` finds (`StartIs`, `ChunkAtOffset`), and the range up to the next file's offset holds the rest of the file first (`BetweenFrom`, `UnzippedRest`) |
| `LayerTreeProofs!TreeIsTheLayer` | `Spec => []TreeIsLayer` | `TreeInv`: only markers have left the map, only whiteouts have another name than their key, and each directory still in the map has its visited children once (`ChildrenAre`). The parent of a path is a path (`PathsClosed`) |
| `LayerTreeProofs!LookupFindsWhatIsListed` | `Spec => []LookupFindsListed` | `TreeInv`: a listed child is in the map under its parent's path and its own name |
| `ConvertorProofs!RequestedOnce` | `Spec => []IndexIsRequested` | `IndexInv`: the index is injective, and its images have the platform and all tasks done |
| `ConvertorProofs!InOrder` | `Spec => []LayersInOrder` | `TypeInv` and `WholeInv`: a done task has put its own layer at its own place. `Numbering`: the entries with a layer are numbered by the layers, in order |
| `ConvertorProofs!WholeFiles` | `Spec => []FilesWhole` | `WholeInv`: among those writing one temporary file, the one who emptied it last has left no hole up to where it is (`LastOpened`), and all write the same bytes at the same places |
| `OptimizerProofs!CoversAll` | `Spec => []OnCoversAll` | with `TypeInv` itself inductive |
| `OptimizerProofs!NothingLost` | `Spec => []TraceKept` | `FilesInv`: a tracer has a file of its own, files have names of their own, and a file and what a report has read of that name are the same. `IdleInv`: a report that does not run holds nothing |
| `OptimizerProofs!InAccessOrder` | `Spec => []RankFollowsAccess` | `AccessInv`: traces have opens that happened, at their times, none in two. Merging shifts each trace by its start and sorts, so that a group's history is in the order of the clock (`MergedHistory`); `OrderInv`: ranks are places in such a history |
| `OptimizerProofs!OfItsFile` | `Spec => []RankOfItsFile` | `AccessInv`, `FilesInv`, `OrderInv`: a rank comes from a trace of its image, whose stacks are those of the image's layers |

`Exclusive` is `SameImage = FALSE` and `NamedLike[i] = {i}`: no image pulled twice at a time, no
reference a prefix of another. Section 3.2 says why neither can be dropped.

`QuietWorld` is one pull at a time (`MaxInFlight = 1`) and no failing download or call; the daemon
may die at any moment. `MountsQuietly` says of a step that it is no container start that enters a
layer in the layer map that was not there; it may give managers to layers that are. Starts of complete
images, and of any image whose layers the daemon has, are quiet. Section 3.2 has an execution for each of them but the failing calls,
whose effect is that of a broken download. `pull_crash` checks `CompletedLayerExtracted` beside all
container starts, on images whose shared layer is at one height.
`PayloadsDistinct` says that no payload brings a content twice for one layer, as the proxy's do
(the payload has one entry for each digest); `PayloadsAgree`, that two images with a layer in
common bring the same contents for it. That is so where the base of both lacks the layer. If a
payload brings less, because the base has some of the contents, the layer's files refer to the
base and `Extract` writes a `completed.json` on less than another payload would bring; which
files are then found is the subject of `DeltaImage`. The theorems on `DeltaImage`, `LayerTree`,
`Optimizer` and `Convertor` have no hypotheses besides the modules' assumptions.

What a fold computes for every input needs an induction, and the library's induction theorems
take an operator. `LayerTreeProofs` goes around them: a set of natural numbers has a least
element (`LeastNat`, from `NatLessThanWellFounded` and `WFMin`), and the least counterexample
is contradicted. Thus `FlattenSteps` gives the unfolding of `FlattenSeq`, `FlattenPieces` the
concatenation of adjoining pieces of a sequence, and `InOrderType` the order of a finite set.

Only model-checked: `HandlerAnswers`, `ReceivedCompletes`, `RequestEnds` and `NotifyEnds`, because
TLAPS does not treat fairness and `ENABLED`. Every other property of the runs in 3.1 is proved.

## 5. What could follow

`SingleDownload`, an abstract specification for `LayerCache`; a run composing `Snapshotter` with
`ImagePull`'s `LoadImage`, which both have in their own abstraction now.

## 6. Not modelled, and why

Attributes, extended attributes and the other pass-through operations of FUSE, HTTP and gRPC
transport, authentication, configuration, command line and generated code are I/O without a
protocol of their own. Of the gRPC handlers, `AddProxyProfile` and `GetProxyProfiles` access the
map of proxies without a lock (grpc.go:41), `NotifyProxy` and `PingTest` forward a request. Of
the snapshotter, `View`, `Update`, `Usage` and `Walk` change nothing the others read.
`GetRoughDeduplicatedLayers` is called nowhere. `VerifyTOC`, owners, times and device numbers
of an archive are copied or compared only. Stalled connections (neither data nor error) are
outside the models.

## 7. Running

    tlc -config pull_crash.cfg MCImagePull.tla
    tlapm ImagePullProofs.tla

`PROJECT.json` names the module of each run.
