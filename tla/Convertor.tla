------------------------------ MODULE Convertor ------------------------------
(***************************************************************************)
(* ToStarlightImage: a process converts the images of an index, all at once,  *)
(* and in each image all layers at once.  A layer's converted bytes go to a    *)
(* file in the temporary directory, whose name is made of the layer's place    *)
(* in the history and its digest; so images that share a layer at the same     *)
(* place write to the same file.  Nothing is uploaded before the last image    *)
(* has been converted.  A source that is a single manifest is converted like   *)
(* an index of one.                                                         *)
(*                                                                         *)
(* Every conversion of a layer yields the same bytes, "Bytes" of them: byte k  *)
(* of layer l is <<l, k>>.                                                  *)
(***************************************************************************)
EXTENDS Integers, Sequences, FiniteSets, SequencesExt

CONSTANTS
  Manifests,   \* the manifests of the source index
  Platform,    \* [Manifests -> platform]
  Requested,   \* the platforms asked for
  History,     \* [Manifests -> Seq(BOOLEAN)]: is the history entry without a layer?
  Layers,      \* [Manifests -> the digests of the image's layers]
  Size,        \* [Manifests -> the size the source index gives for the manifest]
  Bytes,       \* how many writes a converted layer takes
  Empty        \* what an entry without a layer, or a hole in a file, has

Filled(h) == {i \in DOMAIN h : ~h[i]}

\* An index into the layers out of bounds panics; an image whose history has fewer entries
\* than it has layers loses the other layers.
ASSUME ConvertorAssumption ==
  /\ Bytes \in Nat \ {0}
  /\ \A m \in Manifests : /\ History[m] \in Seq(BOOLEAN)
                          /\ Cardinality(Filled(History[m])) = Len(Layers[m])

Tasks == UNION {{<<m, i>> : i \in DOMAIN History[m]} : m \in Manifests}

VARIABLES
  image,      \* [Manifests -> where the goroutine of the image is]
  step,       \* [Tasks -> where toStarlightLayer is]
  files,      \* the temporary files: [name -> bytes]
  at,         \* [Tasks -> the offset of its file descriptor]
  addendums,  \* [Tasks -> <<>> or <<[layer, size]>>]
  index,      \* retIdx: the descriptors appended, in that order
  outcome     \* "running", "uploaded", "failed" or "panicked"

vars == <<image, step, files, at, addendums, index, outcome>>

\* hasPlatform
HasPlatform(m) == Platform[m] \in Requested
\* layerMap: entries without a layer do not count.
LayerFromLast(m, i) == Layers[m][Cardinality(Filled(SubSeq(History[m], i, Len(History[m]))))]
LayerOf(m, i) == Layers[m][Cardinality(Filled(SubSeq(History[m], 1, i)))]
TempNameByIndex(m, i) == i
TempName(m, i) == <<i, LayerOf(m, i)>>

Names == {TempName(t[1], t[2]) : t \in {u \in Tasks : ~History[u[1]][u[2]]}}

Init ==
  /\ image = [m \in Manifests |-> "idle"]
  /\ step = [t \in Tasks |-> "start"]
  /\ files = [f \in Names |-> <<>>]
  /\ at = [t \in Tasks |-> 0]
  /\ addendums = [t \in Tasks |-> <<>>]
  /\ index = <<>> /\ outcome = "running"

-----------------------------------------------------------------------------
(* toStarlightLayer                                                        *)

Goto(t, from, to) == step[t] = from /\ step' = [step EXCEPT ![t] = to]

\* A history entry without a layer keeps its place.
NoLayer(m, i) ==
  /\ History[m][i]
  /\ Goto(<<m, i>>, "start", "done")
  /\ addendums' = [addendums EXCEPT ![<<m, i>>] = <<[layer |-> Empty, size |-> 0]>>]
  /\ UNCHANGED <<image, files, at, index, outcome>>

\* os.Create empties the file if it is there.
CreateFile(m, i) ==
  /\ ~History[m][i]
  /\ Goto(<<m, i>>, "start", "write")
  /\ files' = [files EXCEPT ![TempName(m, i)] = <<>>]
  /\ UNCHANGED <<image, at, addendums, index, outcome>>

\* The Writer's next write, at the offset of this descriptor; past the end of a file that
\* another conversion has emptied it leaves a hole.
Written(f, k, b) ==
  [j \in 1..Max({Len(f), k}) |-> IF j = k THEN b ELSE IF j \leq Len(f) THEN f[j] ELSE Empty]
AppendLayer(m, i) ==
  LET k == at[<<m, i>>] + 1 IN
  /\ Goto(<<m, i>>, "write", IF k = Bytes THEN "stat" ELSE "write")
  /\ files' = [files EXCEPT ![TempName(m, i)] = Written(@, k, <<LayerOf(m, i), k>>)]
  /\ at' = [at EXCEPT ![<<m, i>>] = k]
  /\ UNCHANGED <<image, addendums, index, outcome>>

\* NewStarlightLayer takes the size of the file as it is now, and the digests of what this
\* Writer has written.
AddLayer(m, i) ==
  /\ Goto(<<m, i>>, "stat", "done")
  /\ addendums' = [addendums EXCEPT ![<<m, i>>] =
                     <<[layer |-> LayerOf(m, i), size |-> Len(files[TempName(m, i)])]>>]
  /\ UNCHANGED <<image, files, at, index, outcome>>

\* An error of the source layer, of the file or of the Writer.  The other goroutines go on.
LayerFails(m, i) ==
  /\ ~History[m][i]
  /\ step[<<m, i>>] \in {"start", "write", "stat"}
  /\ step' = [step EXCEPT ![<<m, i>>] = "failed"]
  /\ UNCHANGED <<image, files, at, addendums, index, outcome>>

-----------------------------------------------------------------------------
(* convertSingleImage and ToStarlightImage                                 *)

GotoImage(m, from, to) == image[m] = from /\ image' = [image EXCEPT ![m] = to]

\* The manifest, its config and its layers are read; then a goroutine is started for each
\* entry of the history.  An image of another platform is left alone.
ReadImage(m) ==
  /\ HasPlatform(m)
  /\ GotoImage(m, "idle", "layers") \/ GotoImage(m, "idle", "failed")
  /\ UNCHANGED <<step, files, at, addendums, index, outcome>>

\* The history is taken from the config before the error is looked at; without a config
\* the process panics.
ConfigMissing(m) ==
  /\ HasPlatform(m) /\ image[m] = "idle"
  /\ outcome' = "panicked"
  /\ UNCHANGED <<image, step, files, at, addendums, index>>

TasksOf(m) == {t \in Tasks : t[1] = m}
Waited(m) == \A t \in TasksOf(m) : step[t] \in {"done", "failed"}
Fails(m) == \E t \in TasksOf(m) : step[t] = "failed"

\* The digest is the converted manifest's; the size is copied from the source index, and
\* overrides the converted manifest's own.
Descriptor(m) == [manifest |-> m, size |-> Size[m]]

\* The image is complete: under the mutex it joins the new index, in the order in which the
\* images are ready.
AppendManifest(m) ==
  /\ Waited(m) /\ ~Fails(m)
  /\ GotoImage(m, "layers", "done")
  /\ index' = Append(index, Descriptor(m))
  /\ UNCHANGED <<step, files, at, addendums, outcome>>

\* A layer has failed, or the new config, mutate.Append or the digest does.
ImageFails(m) ==
  /\ Waited(m)
  /\ GotoImage(m, "layers", "failed")
  /\ UNCHANGED <<step, files, at, addendums, index, outcome>>

\* idxErrGrp.Wait: the goroutines of all images have ended, one of them with an error or
\* none; writeImageIndex may fail as well.
LayersDone == \A m \in Manifests : HasPlatform(m) => Waited(m)
ImagesDone == \A m \in Manifests : HasPlatform(m) => image[m] \in {"done", "failed"}
Upload ==
  /\ ImagesDone
  /\ \/ outcome' = "failed"
     \/ (\A m \in Manifests : image[m] # "failed") /\ outcome' = "uploaded"
  /\ UNCHANGED <<image, step, files, at, addendums, index>>

\* The goroutines of the layers run until convertSingleImage has waited for them, and
\* everything while the process runs.
Next == outcome = "running" /\
  \/ \E m \in Manifests : image[m] = "layers" /\ \E i \in DOMAIN History[m] :
       \/ NoLayer(m, i) \/ CreateFile(m, i) \/ AppendLayer(m, i)
       \/ AddLayer(m, i) \/ LayerFails(m, i)
  \/ \E m \in Manifests :
       ReadImage(m) \/ ConfigMissing(m) \/ AppendManifest(m) \/ ImageFails(m)
  \/ Upload
Spec == Init /\ [][Next]_vars

-----------------------------------------------------------------------------
\* The index that is uploaded has every manifest of a requested platform once and no
\* other.
Listed == [k \in DOMAIN index |-> index[k].manifest]
IndexIsRequested == outcome = "uploaded" =>
  /\ IsInjective(Listed)
  /\ Range(Listed) = {m \in Manifests : Platform[m] \in Requested}

\* The layers of an image in the index are those of the source image in their order: the
\* history's entries that have one, from the first to the last, carry them one by one, and
\* the entries in between are empty.
Increasing(place) == \A j, k \in DOMAIN place : j < k => place[j] < place[k]
LayersInOrder == \A m \in Range(Listed) :
  /\ \E place \in [1..Len(Layers[m]) -> DOMAIN History[m]] :
       /\ Increasing(place)
       /\ Range(place) = Filled(History[m])
       /\ \A k \in DOMAIN place : addendums[<<m, place[k]>>][1].layer = Layers[m][k]
  /\ \A i \in DOMAIN History[m] \ Filled(History[m]) : addendums[<<m, i>>][1].layer = Empty

\* When the upload starts, each layer's file has all the bytes of that layer, and no hole,
\* though another image's conversion may have emptied and rewritten it.  (The size that a
\* layer's descriptor states may still be short: AddLayer may have found the file emptied.)
FilesWhole == outcome = "uploaded" => \A t \in Tasks : step[t] = "done" /\ ~History[t[1]][t[2]] =>
  files[TempName(t[1], t[2])] =
    [k \in 1..Bytes |-> <<Layers[t[1]][Cardinality(Filled(SubSeq(History[t[1]], 1, t[2])))], k>>]
=============================================================================
