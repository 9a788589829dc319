---------------------------- MODULE TocDatabase ----------------------------
(***************************************************************************)
(* The TOC database of the proxy: notify requests (Extractor.SaveToC) save  *)
(* images, their layers and the files of the layers, each layer in its own  *)
(* transaction and all layers of an image at the same time; reports         *)
(* (UpdateFileRanks) append ranks to the files; delta requests (NewBuilder, *)
(* computeDelta) read an image back in several queries.                     *)
(*                                                                         *)
(* A transaction runs under PostgreSQL's READ COMMITTED: what it wrote is    *)
(* unseen until it commits, an insert waits for another transaction that     *)
(* holds the same key and fails if that one commits, of two transactions     *)
(* that wait for each other one is aborted, and a statement that fails makes  *)
(* the final commit a rollback.                                             *)
(*                                                                         *)
(* A definition named after another one (SelectIgnoresReady before           *)
(* SelectImage) is that code with a plausible bug, which a run has to detect *)
(* when it takes its place; no specification uses it.                       *)
(***************************************************************************)
EXTENDS Integers, Sequences

CONSTANTS
  Notifies, Reports, Builders,  \* the requests, each used once
  Images,        \* image digests of one repository
  Digests,       \* layer digests
  ImageLayers,   \* [Images -> Seq(Digests)]: Manifest.Layers
  Files,         \* the names of a layer's files
  Tags,
  TagOf,         \* [Notifies -> Tags]: Extractor.ParsedTag
  Pushed,        \* what a tag of the registry may name: one image for each platform
  ReportImage,   \* [Reports -> Images]: TraceCollection.Groups[0].Images[0]
  None,
  MaxLayers, MaxPlatforms, MaxPushes, MaxCrashes, MaxRank,  \* bounds
  Faults,        \* whether the registry and single statements may fail
  CommitsFail    \* whether a commit may fail

Indices == 1..MaxLayers
Platforms == 1..MaxPlatforms

ASSUME DataAssumption ==
  /\ ImageLayers \in [Images -> Seq(Digests)]
  /\ \A img \in Images : Len(ImageLayers[img]) \leq MaxLayers
  /\ TagOf \in [Notifies -> Tags]
  /\ \A p \in Pushed : /\ p \in Seq(Images)
                       /\ Len(p) \in Platforms
  /\ ReportImage \in [Reports -> Images]
  /\ None \notin Images \cup Digests
  /\ Files # {}

ASSUME BoundsAssumption ==
  /\ MaxLayers \in Nat /\ MaxPlatforms \in Nat
  /\ MaxPushes \in Nat /\ MaxCrashes \in Nat /\ MaxRank \in Nat
  /\ Faults \in BOOLEAN /\ CommitsFail \in BOOLEAN

Stacks(img) == 1..Len(ImageLayers[img])

VARIABLES
  registry,   \* [Tags -> Pushed]: the container registry
  pushes, crashes,
  \* the committed tables
  image,      \* [Images -> {"absent", "pending", "ready"}]: image.ready
  layer,      \* [Images -> [Indices -> Digests \cup {None}]]: layer, by stackIndex
  filesystem, \* [Digests -> {"absent", "bare", "full"}]: full has its rows in file
  ranks,      \* [Digests -> Nat]: the length of file.order
  tag,        \* [Tags -> [Platforms -> Images \cup {None}]]
  \* a notify
  notify,     \* where the handler is
  plan, at,   \* the manifests it read, and the one being saved
  save,       \* [Notifies -> [Indices -> where saveLayer of the current image is]]
  existing,   \* [Notifies -> [Indices -> BOOLEAN]]: InsertLayer found the filesystem
  copied,     \* [Notifies -> [Indices -> SUBSET Files]]: the rows a running COPY wrote
  \* the other requests
  report, reported,  \* where a report is, how many layers it has ranked
  builder,    \* where a delta request is
  serial,     \* the image it resolved
  got         \* what the delta request read is what the image consists of

tables == <<image, layer, filesystem, ranks, tag>>
notifyVars == <<notify, plan, at, save, existing, copied>>
reportVars == <<report, reported>>
builderVars == <<builder, serial, got>>
worldVars == <<registry, pushes, crashes>>
vars == <<worldVars, tables, notifyVars, reportVars, builderVars>>

Ended == {"ok", "failed", "dead"}
Current(n) == plan[n][at[n]]
DigestOf(n, i) == ImageLayers[Current(n)][i]
NoGoroutine == [i \in Indices |-> "none"]

Init ==
  /\ registry \in [Tags -> Pushed]
  /\ pushes = 0 /\ crashes = 0
  /\ image = [img \in Images |-> "absent"]
  /\ layer = [img \in Images |-> [i \in Indices |-> None]]
  /\ filesystem = [d \in Digests |-> "absent"]
  /\ ranks = [d \in Digests |-> 0]
  /\ tag = [t \in Tags |-> [p \in Platforms |-> None]]
  /\ notify = [n \in Notifies |-> "idle"]
  /\ plan = [n \in Notifies |-> <<>>]
  /\ at = [n \in Notifies |-> 1]
  /\ save = [n \in Notifies |-> NoGoroutine]
  /\ existing = [n \in Notifies |-> [i \in Indices |-> FALSE]]
  /\ copied = [n \in Notifies |-> [i \in Indices |-> {}]]
  /\ report = [r \in Reports |-> "idle"]
  /\ reported = [r \in Reports |-> 0]
  /\ builder = [b \in Builders |-> "idle"]
  /\ serial = [b \in Builders |-> None]
  /\ got = [b \in Builders |-> TRUE]

-----------------------------------------------------------------------------
(* A notify: SaveToC over the manifests, saveToCPerImage for each.         *)

Goto(n, step) == notify' = [notify EXCEPT ![n] = step]

\* remote.Get: a single manifest, or the manifests of an index.
Fetch(n) ==
  /\ notify[n] = "idle"
  /\ plan' = [plan EXCEPT ![n] = registry[TagOf[n]]]
  /\ Goto(n, "select")
  /\ UNCHANGED <<worldVars, tables, at, save, existing, copied, reportVars, builderVars>>

SelectIgnoresReady(n) ==
  /\ notify[n] = "select"
  /\ Goto(n, IF image[Current(n)] = "absent" THEN "insert" ELSE "tag")
  /\ UNCHANGED <<worldVars, tables, plan, at, save, existing, copied, reportVars, builderVars>>

\* The query of InsertImage: an image without its ready time is an error.
SelectImage(n) ==
  /\ notify[n] = "select"
  /\ Goto(n, CASE image[Current(n)] = "absent" -> "insert"
               [] image[Current(n)] = "pending" -> "failed"
               [] image[Current(n)] = "ready" -> "tag")
  /\ UNCHANGED <<worldVars, tables, plan, at, save, existing, copied, reportVars, builderVars>>

InsertOverwrites(n) ==
  LET img == Current(n) IN
  /\ notify[n] = "insert"
  /\ image' = [image EXCEPT ![img] = "pending"]
  /\ save' = [save EXCEPT ![n] =
                [i \in Indices |-> IF i \in Stacks(img) THEN "lookup" ELSE "none"]]
  /\ Goto(n, "layers")
  /\ UNCHANGED <<worldVars, layer, filesystem, ranks, tag, plan, at, existing,
                 copied, reportVars, builderVars>>

\* The insert of InsertImage; on a conflict no row comes back, which is an error.
\* Then the errgroup starts saveLayer for each layer.
InsertImage(n) ==
  LET img == Current(n) IN
  /\ notify[n] = "insert"
  /\ IF image[img] = "absent"
     THEN /\ image' = [image EXCEPT ![img] = "pending"]
          /\ save' = [save EXCEPT ![n] =
                        [i \in Indices |-> IF i \in Stacks(img) THEN "lookup" ELSE "none"]]
          /\ Goto(n, "layers")
     ELSE /\ Goto(n, "failed")
          /\ UNCHANGED <<image, save>>
  /\ UNCHANGED <<worldVars, layer, filesystem, ranks, tag, plan, at, existing,
                 copied, reportVars, builderVars>>

WaitIgnoresError(n) ==
  /\ notify[n] = "layers"
  /\ \A i \in Stacks(Current(n)) : save[n][i] \in {"ok", "failed"}
  /\ Goto(n, "enable")
  /\ UNCHANGED <<worldVars, tables, plan, at, save, existing, copied, reportVars, builderVars>>

WaitForSuccess(n) ==
  /\ notify[n] = "layers"
  /\ \A i \in Stacks(Current(n)) : save[n][i] = "ok"
  /\ Goto(n, "enable")
  /\ UNCHANGED <<worldVars, tables, plan, at, save, existing, copied, reportVars, builderVars>>

\* errGrp.Wait, and its error.
WaitLayers(n) ==
  /\ notify[n] = "layers"
  /\ \A i \in Stacks(Current(n)) : save[n][i] \in {"ok", "failed"}
  /\ Goto(n, IF \E i \in Stacks(Current(n)) : save[n][i] = "failed"
             THEN "failed" ELSE "enable")
  /\ UNCHANGED <<worldVars, tables, plan, at, save, existing, copied, reportVars, builderVars>>

\* SetImageReady.
EnableImage(n) ==
  /\ notify[n] = "enable"
  /\ image' = [image EXCEPT ![Current(n)] = "ready"]
  /\ Goto(n, "tag")
  /\ UNCHANGED <<worldVars, layer, filesystem, ranks, tag, plan, at, save, existing,
                 copied, reportVars, builderVars>>

\* SetImageTag, then the next manifest of the index.
SetTag(n) ==
  /\ notify[n] = "tag"
  /\ tag' = [tag EXCEPT ![TagOf[n]][at[n]] = Current(n)]
  /\ IF at[n] < Len(plan[n])
     THEN /\ at' = [at EXCEPT ![n] = @ + 1]
          /\ Goto(n, "select")
     ELSE /\ Goto(n, "ok")
          /\ UNCHANGED at
  /\ UNCHANGED <<worldVars, image, layer, filesystem, ranks, plan, save, existing,
                 copied, reportVars, builderVars>>

\* An error of the registry or of a statement of the handler itself.
NotifyFails(n) ==
  /\ Faults
  /\ notify[n] \in {"select", "insert", "enable", "tag"}
  /\ Goto(n, "failed")
  /\ UNCHANGED <<worldVars, tables, plan, at, save, existing, copied, reportVars, builderVars>>

-----------------------------------------------------------------------------
(* saveLayer, in a transaction of its own.                                 *)

SaveGoto(n, i, step) == save' = [save EXCEPT ![n][i] = step]
SaveOthers == <<notify, plan, at>>

\* Another transaction has inserted the filesystem row and not yet ended.
RowHeld(d) == \E m \in Notifies, j \in Indices :
  /\ save[m][j] \in {"download", "files", "wait", "copy", "commit"}
  /\ ~existing[m][j] /\ DigestOf(m, j) = d
\* Another transaction has deleted the committed file rows and not yet ended.
FilesHeld(d) ==
  /\ filesystem[d] = "full"
  /\ \E m \in Notifies, j \in Indices :
       save[m][j] \in {"copy", "commit"} /\ DigestOf(m, j) = d
\* The DELETE of this transaction began before the rows another one commits were seen, so
\* its COPY runs into them.
Outrun(m, j, d) == save[m][j] \in {"wait", "copy"} /\ DigestOf(m, j) = d
\* The rows another transaction has copied and not yet committed.
CopiedBy(m, j) == IF save[m][j] = "commit" THEN Files ELSE copied[m][j]
CopiedElsewhere(n, i) == {f \in Files : \E m \in Notifies, j \in Indices :
  /\ <<m, j>> # <<n, i>> /\ save[m][j] \in {"copy", "commit"}
  /\ DigestOf(m, j) = DigestOf(n, i) /\ f \in CopiedBy(m, j)}
\* A COPY can write none of its rows.
Stuck(n, i) ==
  save[n][i] = "copy" /\ Files \subseteq copied[n][i] \cup CopiedElsewhere(n, i)

\* The query of InsertLayer, on a connection outside the transaction.
LookUpLayer(n, i) ==
  /\ save[n][i] = "lookup"
  /\ existing' = [existing EXCEPT ![n][i] = filesystem[DigestOf(n, i)] # "absent"]
  /\ SaveGoto(n, i, "insert")
  /\ UNCHANGED <<worldVars, tables, SaveOthers, copied, reportVars, builderVars>>

\* The inserts of InsertLayer: a filesystem row another transaction has committed
\* since the query breaks the unique constraint.  The caller is always told that
\* the layer is new.
InsertLayer(n, i) ==
  LET d == DigestOf(n, i) IN
  /\ save[n][i] = "insert"
  /\ \/ /\ existing[n][i]
        /\ SaveGoto(n, i, "download")
     \/ /\ ~existing[n][i] /\ ~RowHeld(d)
        /\ SaveGoto(n, i, IF filesystem[d] = "absent" THEN "download" ELSE "failed")
  /\ UNCHANGED <<worldVars, tables, SaveOthers, existing, copied, reportVars, builderVars>>

\* The rows InsertLayer wrote, committed.
CommitLayer(n, i, state) ==
  /\ layer' = [layer EXCEPT ![Current(n)][i] = DigestOf(n, i)]
  /\ filesystem' = [filesystem EXCEPT ![DigestOf(n, i)] = state]

\* layer.Compressed and OpenStargz; on an error the deferred Commit keeps the rows
\* of InsertLayer, a new filesystem without files among them.
Download(n, i) ==
  /\ save[n][i] = "download"
  /\ \/ SaveGoto(n, i, "files") /\ UNCHANGED <<layer, filesystem>>
     \/ /\ Faults
        /\ SaveGoto(n, i, "failed")
        /\ CommitLayer(n, i, IF existing[n][i] THEN filesystem[DigestOf(n, i)] ELSE "bare")
  /\ UNCHANGED <<worldVars, image, ranks, tag, SaveOthers, existing, copied, reportVars, builderVars>>

\* InsertFiles first deletes the layer's files; it waits while another transaction has
\* done the same.
DeleteFiles(n, i) ==
  /\ save[n][i] \in {"files", "wait"}
  /\ IF FilesHeld(DigestOf(n, i))
     THEN save[n][i] = "files" /\ SaveGoto(n, i, "wait")
     ELSE SaveGoto(n, i, "copy")
  /\ UNCHANGED <<worldVars, tables, SaveOthers, existing, copied, reportVars, builderVars>>

\* Then it copies them anew, in the order of a map, row by row; a row that another
\* transaction has copied has to wait for the end of that one.
CopyFile(n, i) ==
  /\ save[n][i] = "copy"
  /\ \E f \in Files \ (copied[n][i] \cup CopiedElsewhere(n, i)) :
       LET rows == copied[n][i] \cup {f} IN
       IF rows = Files
       THEN SaveGoto(n, i, "commit") /\ copied' = [copied EXCEPT ![n][i] = {}]
       ELSE copied' = [copied EXCEPT ![n][i] = rows] /\ UNCHANGED save
  /\ UNCHANGED <<worldVars, tables, SaveOthers, existing, reportVars, builderVars>>

\* Two transactions that have each copied a row the other one needs: PostgreSQL aborts one.
Deadlock(n, i) ==
  /\ Stuck(n, i) /\ copied[n][i] # {}
  /\ \E m \in Notifies, j \in Indices :
       /\ <<m, j>> # <<n, i>> /\ Stuck(m, j) /\ copied[m][j] # {}
       /\ DigestOf(m, j) = DigestOf(n, i)
  /\ SaveGoto(n, i, "failed")
  /\ copied' = [copied EXCEPT ![n][i] = {}]
  /\ UNCHANGED <<worldVars, tables, SaveOthers, existing, reportVars, builderVars>>

\* The deferred Commit: the fresh files have no ranks, and whoever has not seen these
\* rows when it deleted fails.  Its error is dropped.
Commit(n, i) ==
  LET d == DigestOf(n, i) IN
  /\ save[n][i] = "commit"
  /\ \/ /\ CommitLayer(n, i, "full")
        /\ ranks' = [ranks EXCEPT ![d] = 0]
        /\ save' = [m \in Notifies |-> [j \in Indices |->
                      IF m = n /\ j = i THEN "ok"
                      ELSE IF Outrun(m, j, d) THEN "failed" ELSE save[m][j]]]
        /\ copied' = [m \in Notifies |-> [j \in Indices |->
                        IF Outrun(m, j, d) THEN {} ELSE copied[m][j]]]
     \/ /\ CommitsFail
        /\ SaveGoto(n, i, "ok")
        /\ UNCHANGED <<layer, filesystem, ranks, copied>>
  /\ UNCHANGED <<worldVars, image, tag, SaveOthers, existing, reportVars, builderVars>>

\* A statement fails: the final Commit is a rollback.
SaveFails(n, i) ==
  /\ Faults
  /\ save[n][i] \in {"lookup", "insert", "files", "wait", "copy"}
  /\ SaveGoto(n, i, "failed")
  /\ copied' = [copied EXCEPT ![n][i] = {}]
  /\ UNCHANGED <<worldVars, tables, SaveOthers, existing, reportVars, builderVars>>

-----------------------------------------------------------------------------
(* A report: UpdateFileRanks, each statement its own transaction.          *)

ReportGoto(r, step) == report' = [report EXCEPT ![r] = step]

MapLayers(r) ==
  /\ report[r] = "idle"
  /\ ReportGoto(r, IF image[ReportImage[r]] = "ready" THEN "ranking" ELSE "failed")
  /\ UNCHANGED <<worldVars, tables, notifyVars, reported, builderVars>>

\* array_append to the files of the next layer; the file rows of a transaction
\* that has not committed are not seen, and it replaces the ones seen here.
RankLayer(r) ==
  LET img == ReportImage[r]
      i == reported[r] + 1
      d == layer[img][i] IN
  /\ report[r] = "ranking" /\ i \in Stacks(img)
  /\ \/ /\ ranks' = IF d # None /\ filesystem[d] = "full" /\ ranks[d] < MaxRank
                    THEN [ranks EXCEPT ![d] = @ + 1] ELSE ranks
        /\ reported' = [reported EXCEPT ![r] = i]
        /\ UNCHANGED report
     \/ Faults /\ ReportGoto(r, "failed") /\ UNCHANGED <<ranks, reported>>
  /\ UNCHANGED <<worldVars, image, layer, filesystem, tag, notifyVars, builderVars>>

ReportEnds(r) ==
  /\ report[r] = "ranking" /\ reported[r] = Len(ImageLayers[ReportImage[r]])
  /\ ReportGoto(r, "ok")
  /\ UNCHANGED <<worldVars, tables, notifyVars, reported, builderVars>>

-----------------------------------------------------------------------------
(* A delta request: NewBuilder, then the reads of Load.                    *)

Build(b, step) == builder' = [builder EXCEPT ![b] = step]

\* GetImage looks only at the tag, GetImageByDigest only at ready images; a
\* reference that is in neither is refused.
Tagged(img) == \E t \in Tags, p \in Platforms : tag[t][p] = img
ByAnyDigest(img) == image[img] # "absent"
ByDigest(img) == image[img] = "ready"

Resolve(b) ==
  /\ builder[b] = "idle"
  /\ \E img \in Images :
       /\ Tagged(img) \/ ByDigest(img)
       /\ serial' = [serial EXCEPT ![b] = img]
  /\ Build(b, "layers")
  /\ UNCHANGED <<worldVars, tables, notifyVars, reportVars, got>>

\* GetLayers: the joined rows of layer and filesystem.
ReadLayers(b) ==
  LET img == serial[b] IN
  /\ builder[b] = "layers"
  /\ got' = [got EXCEPT ![b] =
               \A i \in Stacks(img) : layer[img][i] = ImageLayers[img][i]]
  /\ Build(b, "files")
  /\ UNCHANGED <<worldVars, tables, notifyVars, reportVars, serial>>

\* GetFilesWithRanks or GetFilesWithoutRanks, in computeDelta.
ReadFiles(b) ==
  LET img == serial[b] IN
  /\ builder[b] = "files"
  /\ got' = [got EXCEPT ![b] = @ /\ \A i \in Stacks(img) :
               layer[img][i] # None => filesystem[layer[img][i]] = "full"]
  /\ Build(b, "ok")
  /\ UNCHANGED <<worldVars, tables, notifyVars, reportVars, serial>>

-----------------------------------------------------------------------------
\* The registry's tag moves to another image.
Push ==
  /\ pushes < MaxPushes
  /\ pushes' = pushes + 1
  /\ \E t \in Tags, p \in Pushed :
       p # registry[t] /\ registry' = [registry EXCEPT ![t] = p]
  /\ UNCHANGED <<crashes, tables, notifyVars, reportVars, builderVars>>

\* The proxy dies: open transactions are rolled back.
Crash ==
  LET Dies(step) == IF step \in Ended \cup {"idle", "none"} THEN step ELSE "dead" IN
  /\ crashes < MaxCrashes
  /\ crashes' = crashes + 1
  /\ notify' = [n \in Notifies |-> Dies(notify[n])]
  /\ save' = [n \in Notifies |-> [i \in Indices |-> Dies(save[n][i])]]
  /\ report' = [r \in Reports |-> Dies(report[r])]
  /\ builder' = [b \in Builders |-> Dies(builder[b])]
  /\ copied' = [n \in Notifies |-> [i \in Indices |-> {}]]
  /\ UNCHANGED <<registry, pushes, tables, plan, at, existing, reported, serial, got>>

SaveStep(n, i) ==
  \/ LookUpLayer(n, i) \/ InsertLayer(n, i) \/ Download(n, i)
  \/ DeleteFiles(n, i) \/ CopyFile(n, i) \/ Deadlock(n, i) \/ Commit(n, i)
NotifyStep(n) ==
  \/ Fetch(n) \/ SelectImage(n) \/ InsertImage(n) \/ WaitLayers(n)
  \/ EnableImage(n) \/ SetTag(n)
ReportStep(r) == MapLayers(r) \/ RankLayer(r) \/ ReportEnds(r)
BuilderStep(b) == Resolve(b) \/ ReadLayers(b) \/ ReadFiles(b)

Next ==
  \/ \E n \in Notifies : NotifyStep(n) \/ NotifyFails(n)
  \/ \E n \in Notifies, i \in Indices : SaveStep(n, i) \/ SaveFails(n, i)
  \/ \E r \in Reports : ReportStep(r)
  \/ \E b \in Builders : BuilderStep(b)
  \/ Push
  \/ Crash

Spec == Init /\ [][Next]_vars

\* The handlers and goroutines of the proxy keep running; that a statement fails is
\* no way to get on.
Fairness == \A n \in Notifies :
  /\ WF_vars(NotifyStep(n))
  /\ \A i \in Indices : WF_vars(SaveStep(n, i))
FairSpec == Spec /\ Fairness

-----------------------------------------------------------------------------
\* SetImageReady comes after errGrp.Wait, so whatever notifies share a layer, fail
\* or die, a ready image has all its layers, and these have their files.
ReadyImageExtracted == \A img \in Images : image[img] = "ready" =>
  \A i \in Stacks(img) : /\ layer[img][i] = ImageLayers[img][i]
                         /\ filesystem[ImageLayers[img][i]] = "full"

\* "SaveToC save ToC to the backend database and return ApiResponse if success": a
\* notify that answered OK has each image of its index ready and tagged.
OkMeansSaved == \A n \in Notifies : notify[n] = "ok" =>
  \A k \in 1..Len(plan[n]) : image[plan[n][k]] = "ready" /\ tag[TagOf[n]][k] # None

\* unique_image_hash lets one notify alone save the layers of an image, at most one
\* even when several pass the query of InsertImage together.
OneExtractorPerImage == \A n, m \in Notifies :
  /\ notify[n] \in {"layers", "enable"} /\ notify[m] \in {"layers", "enable"}
  /\ Current(n) = Current(m)
  => n = m

\* A delta request that resolved an image reads all its layers and files, although
\* NewBuilder and computeDelta read them in queries of their own while notifies
\* delete and copy the same rows.
ServedImageComplete == \A b \in Builders : builder[b] = "ok" => got[b]

\* Every notify is answered or dies with the proxy: the transactions that wait for each
\* other's filesystem and file rows end, with a deadlock of two of them broken.
NotifyEnds == \A n \in Notifies : notify[n] = "select" ~> notify[n] \in Ended
=============================================================================
