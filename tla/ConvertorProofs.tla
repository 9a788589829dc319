--------------------------- MODULE ConvertorProofs ---------------------------
(***************************************************************************)
(* Theorems about Convertor: for any manifests, histories and layers, and     *)
(* however the conversions of layers and images interleave, the index has    *)
(* the requested images, their layers in order, and each file has its layer. *)
(***************************************************************************)
EXTENDS Convertor, FiniteSetTheorems, SequenceTheorems, TLAPS

-----------------------------------------------------------------------------
(* Tasks.                                                                  *)

HasLayer(t) == ~History[t[1]][t[2]]
LayerOfTask(t) == LayerOf(t[1], t[2])
FileOf(t) == TempName(t[1], t[2])

LEMMA TaskType ==
  /\ \A m \in Manifests : \A i \in DOMAIN History[m] :
       /\ <<m, i>> \in Tasks /\ <<m, i>>[1] = m /\ <<m, i>>[2] = i
  /\ \A t \in Tasks : t[1] \in Manifests /\ t[2] \in DOMAIN History[t[1]] /\ t = <<t[1], t[2]>>
BY DEF Tasks

\* Two layers that are written to one file are the same layer.
LEMMA SameFileSameLayer ==
  ASSUME NEW t, NEW u, FileOf(t) = FileOf(u)
  PROVE  LayerOfTask(t) = LayerOfTask(u)
BY DEF FileOf, TempName, LayerOfTask

LEMMA FileType == \A t \in Tasks : HasLayer(t) => FileOf(t) \in Names
BY DEF FileOf, Names, HasLayer

LEMMA MaxOfTwo ==
  ASSUME NEW a \in Nat, NEW b \in Nat
  PROVE  Max({a, b}) = IF a >= b THEN a ELSE b
BY DEF Max

-----------------------------------------------------------------------------
(* Types, and what a task has done by the step it is at.                   *)

Cells == {Empty} \cup UNION {{<<LayerOfTask(t), k>> : k \in 1..Bytes} : t \in Tasks}

Addendum == [layer : {Empty} \cup {LayerOfTask(t) : t \in Tasks}, size : Nat]

TypeInv ==
  /\ image \in [Manifests -> {"idle", "layers", "done", "failed"}]
  /\ step \in [Tasks -> {"start", "write", "stat", "done", "failed"}]
  /\ files \in [Names -> Seq(Cells)]
  /\ at \in [Tasks -> 0..Bytes]
  /\ addendums \in [Tasks -> Seq(Addendum)]
  /\ index \in Seq({Descriptor(m) : m \in Manifests})

\* Images of other platforms are left alone; a layer is done when all its bytes are written,
\* and its addendum names it.
TaskOK(t) ==
  /\ step[t] # "start" => HasPlatform(t[1])
  /\ step[t] \in {"write", "stat"} => HasLayer(t)
  /\ step[t] = "start" => at[t] = 0
  /\ step[t] \in {"stat", "done"} /\ HasLayer(t) => at[t] = Bytes
  /\ step[t] = "write" => at[t] < Bytes
  /\ step[t] = "done" => /\ addendums[t] # <<>>
                         /\ addendums[t][1].layer = IF HasLayer(t) THEN LayerOfTask(t) ELSE Empty

\* A file is as long as its layer at most.  Of those who write a layer to it, the one who
\* emptied it last has left no hole: as far as it has come, the file is right, whatever the
\* others have written since.
FileOK(f) == Len(files[f]) <= Bytes
Opened == {"write", "stat", "done", "failed"}
RightUpTo(u, n) ==
  \A j \in 1..n : j <= Len(files[FileOf(u)]) /\ files[FileOf(u)][j] = <<LayerOfTask(u), j>>
LastOpened(t) ==
  \E u \in Tasks : /\ HasLayer(u) /\ FileOf(u) = FileOf(t) /\ step[u] \in Opened
                   /\ RightUpTo(u, at[u])

WholeInv ==
  /\ \A m \in Manifests : image[m] # "idle" => HasPlatform(m)
  /\ \A t \in Tasks : TaskOK(t)
  /\ \A f \in Names : FileOK(f)
  /\ \A t \in Tasks : HasLayer(t) /\ step[t] \in {"write", "stat", "done"} => LastOpened(t)

\* Images join the index once each, when all their layers are done.
IndexInv ==
  /\ IsInjective(index)
  /\ \A m \in Manifests : image[m] = "done" <=> Descriptor(m) \in Range(index)
  /\ \A m \in Manifests : image[m] = "done" =>
       HasPlatform(m) /\ \A t \in TasksOf(m) : step[t] = "done"
  /\ outcome = "uploaded" => \A m \in Manifests : HasPlatform(m) => image[m] = "done"

LEMMA InitInv == Init => TypeInv /\ WholeInv /\ IndexInv
<1> SUFFICES ASSUME Init PROVE TypeInv /\ WholeInv /\ IndexInv
  OBVIOUS
<1>1. Bytes \in Nat \ {0}
  BY ConvertorAssumption
<1>2. <<>> \in Seq(Cells) /\ Len(<<>>) = 0 /\ <<>> \in Seq({Descriptor(m) : m \in Manifests})
      /\ <<>> \in Seq(Addendum)
  BY EmptySeq
<1>3. (\A t \in Tasks : step[t] = "start") /\ \A m \in Manifests : image[m] = "idle"
  BY DEF Init
<1>4. TypeInv
  BY <1>1, <1>2 DEF Init, TypeInv
<1>5. WholeInv
  BY <1>1, <1>2, <1>3 DEF Init, WholeInv, TaskOK, FileOK
<1>6. Range(<<>>) = {} /\ IsInjective(<<>>)
  BY DEF Range, IsInjective
<1> QED
  BY <1>4, <1>5, <1>6 DEF Init, IndexInv

-----------------------------------------------------------------------------
(* The steps of a task.                                                    *)

\* What a write leaves: the byte it has written, and the file as it was or longer.
LEMMA WrittenType ==
  ASSUME NEW f \in Seq(Cells), Len(f) <= Bytes, NEW k \in 1..Bytes, NEW b \in Cells
  PROVE  /\ Written(f, k, b) \in Seq(Cells)
         /\ Len(Written(f, k, b)) <= Bytes /\ k <= Len(Written(f, k, b))
         /\ Len(f) <= Len(Written(f, k, b))
         /\ Written(f, k, b)[k] = b
         /\ \A j \in 1..Len(f) : j # k => Written(f, k, b)[j] = f[j]
<1>1. Bytes \in Nat /\ Len(f) \in Nat /\ k \in Nat
  BY ConvertorAssumption, LenProperties
<1> DEFINE n == Max({Len(f), k})
<1>2. n = IF Len(f) >= k THEN Len(f) ELSE k
  BY <1>1, MaxOfTwo
<1> HIDE DEF n
<1>3. Written(f, k, b) = [j \in 1..n |-> IF j = k THEN b ELSE IF j \leq Len(f) THEN f[j] ELSE Empty]
  BY DEF Written, n
<1>4. n \in Nat /\ n <= Bytes /\ k <= n /\ Len(f) <= n
  BY <1>1, <1>2
<1>5. \A j \in 1..n : j <= Len(f) => f[j] \in Cells
  BY <1>1, <1>4, ElementOfSeq
<1>6. Empty \in Cells
  BY DEF Cells
<1>7. Written(f, k, b) \in [1..n -> Cells]
  BY <1>3, <1>5, <1>6
<1>8. Written(f, k, b) \in Seq(Cells)
  BY <1>4, <1>7, SeqDef
<1>9. Len(Written(f, k, b)) = n
  BY <1>4, <1>7, <1>8, LenProperties
<1>10. k \in 1..n /\ \A j \in 1..Len(f) : j \in 1..n
  BY <1>1, <1>4
<1> QED
  BY <1>3, <1>4, <1>8, <1>9, <1>10

Wholes == /\ \A f \in Names : FileOK(f)
          /\ \A t \in Tasks : HasLayer(t) /\ step[t] \in {"write", "stat", "done"} => LastOpened(t)

\* A task that goes on without touching a file.
LEMMA FilesAlone ==
  ASSUME TypeInv, Wholes, NEW t \in Tasks, NEW to,
         step' = [step EXCEPT ![t] = to], UNCHANGED <<files, at>>,
         step[t] \in Opened => to \in Opened,
         HasLayer(t) /\ to \in {"write", "stat", "done"} => step[t] \in {"write", "stat", "done"}
  PROVE  Wholes'
<1>1. \A f \in Names : FileOK(f)'
  BY DEF Wholes, FileOK
<1>2. \A u \in Tasks : step'[u] = IF u = t THEN to ELSE step[u]
  BY DEF TypeInv
<1>3. ASSUME NEW u \in Tasks, HasLayer(u), step'[u] \in {"write", "stat", "done"}
      PROVE  LastOpened(u)'
  <2>1. LastOpened(u)
    BY <1>2, <1>3 DEF Wholes
  <2>2. PICK v \in Tasks : /\ HasLayer(v) /\ FileOf(v) = FileOf(u) /\ step[v] \in Opened
                           /\ RightUpTo(v, at[v])
    BY <2>1 DEF LastOpened
  <2>3. step'[v] \in Opened
    BY <1>2, <2>2
  <2>4. RightUpTo(v, at[v])'
    BY <2>2 DEF RightUpTo
  <2> QED
    BY <2>2, <2>3, <2>4 DEF LastOpened, HasLayer
<1> QED
  BY <1>1, <1>3 DEF Wholes, HasLayer

LEMMA NoLayerStep ==
  ASSUME TypeInv, WholeInv, NEW m \in Manifests, NEW i \in DOMAIN History[m], image[m] = "layers",
         NoLayer(m, i)
  PROVE  TypeInv' /\ WholeInv'
<1> DEFINE t == <<m, i>>
<1>1. t \in Tasks /\ t[1] = m /\ t[2] = i /\ HasPlatform(m)
  BY TaskType DEF WholeInv
<1>2. /\ ~HasLayer(t) /\ step[t] = "start"
      /\ step' = [step EXCEPT ![t] = "done"]
      /\ addendums' = [addendums EXCEPT ![t] = <<[layer |-> Empty, size |-> 0]>>]
      /\ UNCHANGED <<image, files, at, index, outcome>>
  BY DEF NoLayer, Goto, HasLayer
<1> HIDE DEF t
<1>3. Wholes'
  BY <1>1, <1>2, FilesAlone DEF Wholes, WholeInv, Opened
<1>4. TypeInv'
  <2>1. <<[layer |-> Empty, size |-> 0]>> \in Seq(Addendum)
    BY DEF Addendum
  <2> QED
    BY <1>1, <1>2, <2>1 DEF TypeInv
<1>5. \A u \in Tasks : TaskOK(u)'
  BY <1>1, <1>2 DEF WholeInv, TaskOK, TypeInv, HasLayer, HasPlatform
<1> QED
  BY <1>2, <1>3, <1>4, <1>5 DEF WholeInv, Wholes, HasPlatform

LEMMA AddLayerStep ==
  ASSUME TypeInv, WholeInv, NEW m \in Manifests, NEW i \in DOMAIN History[m], image[m] = "layers",
         AddLayer(m, i)
  PROVE  TypeInv' /\ WholeInv'
<1> DEFINE t == <<m, i>>
           size == Len(files[TempName(m, i)])
<1>1. t \in Tasks /\ t[1] = m /\ t[2] = i /\ HasPlatform(m)
  BY TaskType DEF WholeInv
<1>2. /\ step[t] = "stat"
      /\ step' = [step EXCEPT ![t] = "done"]
      /\ addendums' = [addendums EXCEPT ![t] = <<[layer |-> LayerOfTask(t), size |-> size]>>]
      /\ UNCHANGED <<image, files, at, index, outcome>>
  BY <1>1 DEF AddLayer, Goto, LayerOfTask
<1>3. HasLayer(t) /\ at[t] = Bytes
  BY <1>1, <1>2 DEF WholeInv, TaskOK
<1>4. size \in Nat
  <2>1. TempName(m, i) \in Names
    BY <1>1, <1>3, FileType DEF FileOf
  <2> QED
    BY <2>1, LenProperties DEF TypeInv
<1> HIDE DEF t, size
<1>5. Wholes'
  BY <1>1, <1>2, FilesAlone DEF Wholes, WholeInv, Opened
<1>6. TypeInv'
  <2>1. [layer |-> LayerOfTask(t), size |-> size] \in Addendum
    BY <1>1, <1>4 DEF Addendum
  <2>2. <<[layer |-> LayerOfTask(t), size |-> size]>> \in Seq(Addendum)
    BY <2>1
  <2> QED
    BY <1>1, <1>2, <2>2 DEF TypeInv
<1>7. \A u \in Tasks : TaskOK(u)'
  BY <1>1, <1>2, <1>3 DEF WholeInv, TaskOK, TypeInv, HasLayer, HasPlatform
<1> QED
  BY <1>2, <1>5, <1>6, <1>7 DEF WholeInv, Wholes, HasPlatform

LEMMA LayerFailsStep ==
  ASSUME TypeInv, WholeInv, NEW m \in Manifests, NEW i \in DOMAIN History[m], image[m] = "layers",
         LayerFails(m, i)
  PROVE  TypeInv' /\ WholeInv'
<1> DEFINE t == <<m, i>>
<1>1. t \in Tasks /\ t[1] = m /\ t[2] = i /\ HasPlatform(m)
  BY TaskType DEF WholeInv
<1>2. /\ step[t] \in {"start", "write", "stat"}
      /\ step' = [step EXCEPT ![t] = "failed"]
      /\ UNCHANGED <<image, files, at, addendums, index, outcome>>
  BY DEF LayerFails
<1> HIDE DEF t
<1>3. Wholes'
  BY <1>1, <1>2, FilesAlone DEF Wholes, WholeInv, Opened
<1>4. TypeInv'
  BY <1>1, <1>2 DEF TypeInv
<1>5. \A u \in Tasks : TaskOK(u)'
  BY <1>1, <1>2 DEF WholeInv, TaskOK, TypeInv, HasLayer, HasPlatform
<1> QED
  BY <1>2, <1>3, <1>4, <1>5 DEF WholeInv, Wholes, HasPlatform

\* Who empties a file has no byte to answer for yet, and whoever writes to it too now
\* depends on this one.
LEMMA CreateFileStep ==
  ASSUME TypeInv, WholeInv, NEW m \in Manifests, NEW i \in DOMAIN History[m], image[m] = "layers",
         CreateFile(m, i)
  PROVE  TypeInv' /\ WholeInv'
<1> DEFINE t == <<m, i>>
<1>1. t \in Tasks /\ t[1] = m /\ t[2] = i /\ HasPlatform(m)
  BY TaskType DEF WholeInv
<1>2. /\ HasLayer(t) /\ step[t] = "start"
      /\ step' = [step EXCEPT ![t] = "write"]
      /\ files' = [files EXCEPT ![FileOf(t)] = <<>>]
      /\ UNCHANGED <<image, at, addendums, index, outcome>>
  BY <1>1 DEF CreateFile, Goto, HasLayer, FileOf
<1>3. FileOf(t) \in Names /\ <<>> \in Seq(Cells) /\ Len(<<>>) = 0 /\ Bytes \in Nat \ {0}
  BY <1>1, <1>2, FileType, EmptySeq, ConvertorAssumption
<1>4. at[t] = 0
  BY <1>1, <1>2 DEF WholeInv, TaskOK
<1> HIDE DEF t
<1>5. TypeInv'
  BY <1>1, <1>2, <1>3 DEF TypeInv
<1>6. \A u \in Tasks : TaskOK(u)'
  BY <1>1, <1>2, <1>3, <1>4 DEF WholeInv, TaskOK, TypeInv, HasLayer, HasPlatform
<1>7. \A f \in Names : FileOK(f)'
  BY <1>2, <1>3 DEF WholeInv, FileOK, TypeInv
<1>8. \A u \in Tasks : step'[u] = IF u = t THEN "write" ELSE step[u]
  BY <1>2 DEF TypeInv
<1>9. ASSUME NEW u \in Tasks, HasLayer(u), step'[u] \in {"write", "stat", "done"}
      PROVE  LastOpened(u)'
  <2>1. CASE FileOf(u) = FileOf(t)
    <3>1. RightUpTo(t, at[t])'
      BY <1>2, <1>4 DEF RightUpTo
    <3>2. step'[t] \in Opened
      BY <1>1, <1>8 DEF Opened
    <3> QED
      BY <1>1, <1>2, <2>1, <3>1, <3>2 DEF LastOpened, HasLayer
  <2>2. CASE FileOf(u) # FileOf(t)
    <3>1. LastOpened(u)
      BY <1>8, <1>9, <2>2 DEF WholeInv
    <3>2. PICK v \in Tasks : /\ HasLayer(v) /\ FileOf(v) = FileOf(u) /\ step[v] \in Opened
                             /\ RightUpTo(v, at[v])
      BY <3>1 DEF LastOpened
    <3>3. step'[v] \in Opened
      BY <1>8, <2>2, <3>2
    <3>4. FileOf(v) \in Names /\ files'[FileOf(v)] = files[FileOf(v)] /\ at' = at
      BY <1>2, <2>2, <3>2, FileType DEF TypeInv
    <3>5. RightUpTo(v, at[v])'
      BY <3>2, <3>4 DEF RightUpTo
    <3> QED
      BY <3>2, <3>3, <3>5 DEF LastOpened, HasLayer
  <2> QED
    BY <2>1, <2>2
<1> QED
  BY <1>2, <1>5, <1>6, <1>7, <1>9 DEF WholeInv, HasLayer, HasPlatform

\* A write puts the byte of the layer where it is, and leaves the others of the file.
LEMMA AppendLayerStep ==
  ASSUME TypeInv, WholeInv, NEW m \in Manifests, NEW i \in DOMAIN History[m], image[m] = "layers",
         AppendLayer(m, i)
  PROVE  TypeInv' /\ WholeInv'
<1> DEFINE t == <<m, i>>
           k == at[t] + 1
           to == IF k = Bytes THEN "stat" ELSE "write"
           b == <<LayerOfTask(t), k>>
           f == FileOf(t)
           new == Written(files[f], k, b)
<1>1. t \in Tasks /\ t[1] = m /\ t[2] = i /\ HasPlatform(m)
  BY TaskType DEF WholeInv
<1>2. /\ step[t] = "write"
      /\ step' = [step EXCEPT ![t] = to]
      /\ files' = [files EXCEPT ![f] = new]
      /\ at' = [at EXCEPT ![t] = k]
      /\ UNCHANGED <<image, addendums, index, outcome>>
  BY <1>1 DEF AppendLayer, Goto, FileOf, LayerOfTask
<1>3. HasLayer(t) /\ at[t] < Bytes /\ at[t] \in Nat /\ Bytes \in Nat /\ k \in 1..Bytes
  BY <1>1, <1>2, ConvertorAssumption DEF WholeInv, TaskOK, TypeInv
<1>4. f \in Names /\ files[f] \in Seq(Cells) /\ Len(files[f]) <= Bytes
  BY <1>1, <1>3, FileType DEF TypeInv, WholeInv, FileOK
<1>5. b \in Cells
  BY <1>1, <1>3 DEF Cells
<1> HIDE DEF t, k, b, f
<1>6. /\ new \in Seq(Cells) /\ Len(new) <= Bytes /\ k <= Len(new) /\ Len(files[f]) <= Len(new)
      /\ new[k] = b
      /\ \A j \in 1..Len(files[f]) : j # k => new[j] = files[f][j]
  BY <1>3, <1>4, <1>5, WrittenType
<1> HIDE DEF new
<1>7. TypeInv'
  <2>1. k \in 0..Bytes /\ to \in {"stat", "write"}
    BY <1>3
  <2> HIDE DEF to
  <2> QED
    BY <1>1, <1>2, <1>4, <1>6, <2>1 DEF TypeInv
<1>8. \A u \in Tasks : TaskOK(u)'
  <2>1. ASSUME NEW u \in Tasks, u # t PROVE TaskOK(u)'
    BY <1>2, <2>1 DEF WholeInv, TaskOK, TypeInv, HasLayer, HasPlatform
  <2>2. TaskOK(t)'
    <3>1. step'[t] = to /\ at'[t] = k /\ addendums' = addendums
      BY <1>1, <1>2 DEF TypeInv
    <3>2. k = Bytes \/ k < Bytes
      BY <1>3
    <3>3. HasPlatform(t[1])
      BY <1>1, <1>2 DEF WholeInv, TaskOK
    <3> QED
      BY <1>3, <3>1, <3>2, <3>3 DEF TaskOK, HasLayer, HasPlatform
  <2> QED
    BY <2>1, <2>2
<1>9. \A g \in Names : FileOK(g)'
  BY <1>2, <1>4, <1>6 DEF WholeInv, FileOK, TypeInv
<1>10. \A u \in Tasks : step'[u] = (IF u = t THEN to ELSE step[u]) /\ at'[u] = IF u = t THEN k ELSE at[u]
  BY <1>2 DEF TypeInv
<1>11. ASSUME NEW u \in Tasks, HasLayer(u), step'[u] \in {"write", "stat", "done"}
      PROVE  LastOpened(u)'
  <2>1. LastOpened(u)
    BY <1>1, <1>2, <1>10, <1>11 DEF WholeInv
  <2>2. PICK v \in Tasks : /\ HasLayer(v) /\ FileOf(v) = FileOf(u) /\ step[v] \in Opened
                           /\ RightUpTo(v, at[v])
    BY <2>1 DEF LastOpened
  <2>3. step'[v] \in Opened
    BY <1>10, <2>2 DEF Opened
  <2>4. FileOf(v) \in Names /\ at[v] \in Nat
    BY <2>2, FileType DEF TypeInv
  <2>5. ASSUME NEW j \in 1..at'[v]
        PROVE  j <= Len(files'[FileOf(v)]) /\ files'[FileOf(v)][j] = <<LayerOfTask(v), j>>
    <3>1. CASE FileOf(v) # f
      <4>1. v # t
        BY <3>1 DEF f
      <4>2. files'[FileOf(v)] = files[FileOf(v)] /\ at'[v] = at[v]
        BY <1>2, <1>10, <2>4, <3>1, <4>1 DEF TypeInv
      <4> QED
        BY <2>2, <4>2 DEF RightUpTo
    <3>2. CASE FileOf(v) = f
      <4>1. files'[FileOf(v)] = new
        BY <1>2, <1>4, <3>2 DEF TypeInv
      <4>2. LayerOfTask(v) = LayerOfTask(t)
        BY <3>2, SameFileSameLayer DEF f
      <4>3. CASE j = k
        BY <1>6, <4>1, <4>2, <4>3 DEF b
      <4>4. CASE j # k
        <5>1. j \in 1..at[v]
          BY <1>3, <1>10, <2>4, <4>4 DEF k
        <5>2. j <= Len(files[f]) /\ files[f][j] = <<LayerOfTask(v), j>>
          BY <2>2, <3>2, <5>1 DEF RightUpTo
        <5>3. Len(files[f]) \in Nat /\ Len(new) \in Nat /\ j \in Nat /\ j >= 1
          BY <1>4, <1>6, <2>4, <5>1, LenProperties
        <5>4. j \in 1..Len(files[f]) /\ j <= Len(new)
          BY <1>6, <5>2, <5>3
        <5> QED
          BY <1>6, <4>1, <4>4, <5>2, <5>4
      <4> QED
        BY <4>3, <4>4
    <3> QED
      BY <3>1, <3>2
  <2>6. RightUpTo(v, at[v])'
    BY <2>5 DEF RightUpTo
  <2> QED
    BY <2>2, <2>3, <2>6 DEF LastOpened, HasLayer
<1> QED
  BY <1>2, <1>7, <1>8, <1>9, <1>11 DEF WholeInv, HasLayer, HasPlatform

-----------------------------------------------------------------------------
(* The steps of an image and of the index.                                 *)

TaskStep ==
  \E m \in Manifests : image[m] = "layers" /\ \E i \in DOMAIN History[m] :
    NoLayer(m, i) \/ CreateFile(m, i) \/ AppendLayer(m, i) \/ AddLayer(m, i) \/ LayerFails(m, i)
ImageStep(m) == ReadImage(m) \/ AppendManifest(m) \/ ImageFails(m)
EndStep == Upload \/ \E m \in Manifests : ConfigMissing(m)

LEMMA Steps ==
  ASSUME [Next]_vars
  PROVE  TaskStep \/ (\E m \in Manifests : ImageStep(m)) \/ EndStep \/ UNCHANGED vars
BY DEF Next, TaskStep, ImageStep, EndStep

\* A finished task takes no step.
LEMMA DoneStays ==
  ASSUME TypeInv, [Next]_vars, NEW t \in Tasks, step[t] = "done"
  PROVE  step'[t] = "done"
<1>1. ASSUME NEW m \in Manifests, NEW i \in DOMAIN History[m],
             NoLayer(m, i) \/ CreateFile(m, i) \/ AppendLayer(m, i) \/ AddLayer(m, i) \/ LayerFails(m, i)
      PROVE  step'[t] = "done"
  <2>1. \E from \in {"start", "write", "stat"} : \E to : step[<<m, i>>] = from /\ step' = [step EXCEPT ![<<m, i>>] = to]
    BY <1>1 DEF NoLayer, CreateFile, AppendLayer, AddLayer, LayerFails, Goto
  <2>2. t # <<m, i>>
    BY <2>1
  <2> QED
    BY <2>1, <2>2 DEF TypeInv
<1>2. ASSUME NEW m \in Manifests, ImageStep(m) PROVE step' = step
  BY <1>2 DEF ImageStep, ReadImage, AppendManifest, ImageFails
<1>3. CASE EndStep \/ UNCHANGED vars
  BY <1>3 DEF EndStep, ConfigMissing, Upload, vars
<1> QED
  BY <1>1, <1>2, <1>3, Steps DEF TaskStep

\* What the goroutine of an image does to the image and the index.
ImageEffect(m) ==
  /\ image[m] \in {"idle", "layers"} /\ HasPlatform(m)
  /\ UNCHANGED <<step, files, at, addendums, outcome>>
  /\ \/ UNCHANGED index /\ \E to \in {"layers", "failed"} : image' = [image EXCEPT ![m] = to]
     \/ /\ Waited(m) /\ ~Fails(m)
        /\ image' = [image EXCEPT ![m] = "done"]
        /\ index' = Append(index, Descriptor(m))

LEMMA ImageEffects ==
  ASSUME WholeInv, NEW m \in Manifests, ImageStep(m)
  PROVE  ImageEffect(m)
<1>1. CASE ReadImage(m)
  BY <1>1 DEF ReadImage, GotoImage, ImageEffect
<1>2. CASE AppendManifest(m)
  BY <1>2 DEF AppendManifest, GotoImage, ImageEffect, WholeInv
<1>3. CASE ImageFails(m)
  BY <1>3 DEF ImageFails, GotoImage, ImageEffect, WholeInv
<1> QED
  BY <1>1, <1>2, <1>3 DEF ImageStep

Descriptors == {Descriptor(m) : m \in Manifests}

LEMMA WholeStep ==
  ASSUME TypeInv, WholeInv, [Next]_vars
  PROVE  TypeInv' /\ WholeInv'
<1>1. CASE TaskStep
  BY <1>1, NoLayerStep, CreateFileStep, AppendLayerStep, AddLayerStep, LayerFailsStep DEF TaskStep
<1>2. ASSUME UNCHANGED <<step, files, at, addendums>>,
             \A m \in Manifests : image'[m] # "idle" => HasPlatform(m)
      PROVE  WholeInv'
  <2>1. \A t \in Tasks : TaskOK(t)'
    BY <1>2 DEF WholeInv, TaskOK, HasPlatform
  <2>2. \A f \in Names : FileOK(f)'
    BY <1>2 DEF WholeInv, FileOK
  <2>3. \A t \in Tasks : HasLayer(t) /\ step'[t] \in {"write", "stat", "done"} => LastOpened(t)'
    BY <1>2 DEF WholeInv, LastOpened, RightUpTo
  <2> QED
    BY <1>2, <2>1, <2>2, <2>3 DEF WholeInv, HasLayer, HasPlatform
<1>3. ASSUME NEW m \in Manifests, ImageStep(m) PROVE TypeInv' /\ WholeInv'
  <2>1. ImageEffect(m)
    BY <1>3, ImageEffects
  <2>2. index' \in Seq(Descriptors)
    <3>1. Descriptor(m) \in Descriptors
      BY DEF Descriptors
    <3>2. index \in Seq(Descriptors)
      BY DEF TypeInv, Descriptors
    <3> HIDE DEF Descriptors
    <3> QED
      BY <2>1, <3>1, <3>2, AppendProperties DEF ImageEffect
  <2>3. image' \in [Manifests -> {"idle", "layers", "done", "failed"}]
        /\ \A n \in Manifests : image'[n] # "idle" => HasPlatform(n)
    BY <2>1 DEF ImageEffect, TypeInv, WholeInv
  <2>4. TypeInv'
    BY <2>1, <2>2, <2>3 DEF ImageEffect, TypeInv, Descriptors
  <2> QED
    BY <1>2, <2>1, <2>3, <2>4 DEF ImageEffect
<1>4. CASE EndStep \/ UNCHANGED vars
  <2>1. UNCHANGED <<image, step, files, at, addendums, index>>
    BY <1>4 DEF EndStep, ConfigMissing, Upload, vars
  <2> QED
    BY <1>2, <2>1 DEF TypeInv, WholeInv
<1> QED
  BY <1>1, <1>3, <1>4, Steps

\* Appending a descriptor that is not in the index keeps each at one place.
LEMMA AppendInjectively ==
  ASSUME NEW S, NEW s \in Seq(S), NEW d \in S, d \notin Range(s), IsInjective(s)
  PROVE  IsInjective(Append(s, d)) /\ Range(Append(s, d)) = Range(s) \cup {d}
<1> DEFINE new == Append(s, d)
<1>1. Len(s) \in Nat /\ DOMAIN s = 1..Len(s)
  BY LenProperties
<1>2. /\ new \in Seq(S) /\ Len(new) = Len(s) + 1
      /\ \A j \in 1..Len(s) : new[j] = s[j]
      /\ new[Len(s) + 1] = d
  BY AppendProperties
<1>3. DOMAIN new = 1..(Len(s) + 1)
  BY <1>2, LenProperties
<1> HIDE DEF new
<1>4. \A j \in 1..Len(s) : s[j] # d
  BY <1>1 DEF Range
<1>5. \A j \in DOMAIN new : j \in 1..Len(s) \/ j = Len(s) + 1
  BY <1>1, <1>3
<1>6. IsInjective(new)
  BY <1>1, <1>2, <1>3, <1>4, <1>5 DEF IsInjective
<1>7. Range(new) = Range(s) \cup {d}
  BY <1>1, <1>2, <1>3, <1>5 DEF Range
<1> QED
  BY <1>6, <1>7 DEF new

\* A descriptor names its manifest.
LEMMA DescriptorNames == \A m \in Manifests : Descriptor(m).manifest = m
BY DEF Descriptor

LEMMA IndexInvStep ==
  ASSUME TypeInv, WholeInv, IndexInv, [Next]_vars
  PROVE  IndexInv'
<1>1. ASSUME NEW m \in Manifests, image[m] = "done" PROVE \A t \in TasksOf(m) : step'[t] = "done"
  BY <1>1, DoneStays DEF IndexInv, TasksOf
<1>2. \A m \in Manifests : /\ HasPlatform(m)' = HasPlatform(m) /\ TasksOf(m)' = TasksOf(m)
                           /\ Descriptor(m)' = Descriptor(m)
  BY DEF HasPlatform, TasksOf, Descriptor
<1>3. ASSUME UNCHANGED <<image, index>>,
             outcome' = outcome \/ (outcome' = "uploaded" =>
               \A m \in Manifests : HasPlatform(m) => image[m] = "done")
      PROVE  IndexInv'
  BY <1>1, <1>2, <1>3 DEF IndexInv
<1>4. CASE TaskStep
  <2>1. UNCHANGED <<image, index, outcome>>
    BY <1>4 DEF TaskStep, NoLayer, CreateFile, AppendLayer, AddLayer, LayerFails
  <2> QED
    BY <1>3, <2>1
<1>5. ASSUME NEW m \in Manifests, ImageStep(m) PROVE IndexInv'
  <2>1. ImageEffect(m)
    BY <1>5, ImageEffects
  <2>2. /\ image[m] # "done" /\ HasPlatform(m) /\ UNCHANGED <<step, outcome>>
        /\ \A n \in Manifests : n # m => image'[n] = image[n]
    BY <2>1 DEF ImageEffect, TypeInv
  <2>3. outcome' = "uploaded" => \A n \in Manifests : HasPlatform(n) => image'[n] = "done"
    BY <2>2 DEF IndexInv
  <2>4. CASE UNCHANGED index /\ image'[m] \in {"layers", "failed"}
    BY <1>1, <1>2, <2>2, <2>3, <2>4 DEF IndexInv
  <2>5. CASE Waited(m) /\ ~Fails(m) /\ image'[m] = "done" /\ index' = Append(index, Descriptor(m))
    <3>1. \A t \in TasksOf(m) : step'[t] = "done"
      BY <2>2, <2>5 DEF Waited, Fails
    <3>2. Descriptor(m) \notin Range(index)
      BY <2>2 DEF IndexInv
    <3>3. IsInjective(index') /\ Range(index') = Range(index) \cup {Descriptor(m)}
      <4>1. index \in Seq(Descriptors) /\ Descriptor(m) \in Descriptors /\ IsInjective(index)
        BY DEF TypeInv, Descriptors, IndexInv
      <4> HIDE DEF Descriptors
      <4> QED
        BY <2>5, <3>2, <4>1, AppendInjectively
    <3>4. \A n \in Manifests : n # m => Descriptor(n) # Descriptor(m)
      BY DescriptorNames
    <3> QED
      BY <1>1, <1>2, <2>2, <2>3, <2>5, <3>1, <3>3, <3>4 DEF IndexInv
  <2>6. \/ image'[m] = "done" /\ Waited(m) /\ ~Fails(m) /\ index' = Append(index, Descriptor(m))
        \/ UNCHANGED index /\ image'[m] \in {"layers", "failed"}
    BY <2>1 DEF ImageEffect, TypeInv
  <2> QED
    BY <2>4, <2>5, <2>6
<1>6. CASE EndStep
  <2>1. /\ UNCHANGED <<image, index>>
        /\ outcome' = "uploaded" => ImagesDone /\ \A m \in Manifests : image[m] # "failed"
    BY <1>6 DEF EndStep, Upload, ConfigMissing
  <2>2. outcome' = "uploaded" => \A m \in Manifests : HasPlatform(m) => image[m] = "done"
    BY <2>1 DEF ImagesDone
  <2> QED
    BY <1>3, <2>1, <2>2
<1>7. CASE UNCHANGED vars
  BY <1>3, <1>7 DEF vars
<1> QED
  BY <1>4, <1>5, <1>6, <1>7, Steps

LEMMA Invariants == Spec => [](TypeInv /\ WholeInv /\ IndexInv)
<1> QED
  BY InitInv, WholeStep, IndexInvStep, PTL DEF Spec

-----------------------------------------------------------------------------
(* What is uploaded.                                                       *)

LEMMA ListedType ==
  ASSUME TypeInv
  PROVE  /\ DOMAIN Listed = DOMAIN index
         /\ \A k \in DOMAIN index : Listed[k] \in Manifests /\ index[k] = Descriptor(Listed[k])
<1>1. DOMAIN Listed = DOMAIN index /\ \A k \in DOMAIN index : Listed[k] = index[k].manifest
  BY DEF Listed
<1>2. \A k \in DOMAIN index : index[k] \in Descriptors
  <2>1. index \in Seq(Descriptors)
    BY DEF TypeInv, Descriptors
  <2> HIDE DEF Descriptors
  <2> QED
    BY <2>1, ElementOfSeq, LenProperties
<1> QED
  BY <1>1, <1>2, DescriptorNames DEF Descriptors

\* The manifests of the index are those whose goroutine has ended without an error.
LEMMA ListedDone ==
  ASSUME TypeInv, IndexInv
  PROVE  Range(Listed) = {m \in Manifests : image[m] = "done"}
<1>1. \A m \in Manifests : m \in Range(Listed) <=> Descriptor(m) \in Range(index)
  BY ListedType, DescriptorNames DEF Range
<1>2. Range(Listed) \subseteq Manifests
  BY ListedType DEF Range
<1> QED
  BY <1>1, <1>2 DEF IndexInv

\* ToStarlightImage uploads an index that has each image of a requested platform once and
\* no other, in whatever order they have been converted.
THEOREM RequestedOnce == Spec => []IndexIsRequested
<1>1. ASSUME TypeInv, IndexInv PROVE IndexIsRequested
  <2> SUFFICES ASSUME outcome = "uploaded"
               PROVE  IsInjective(Listed) /\ Range(Listed) = {m \in Manifests : HasPlatform(m)}
    BY DEF IndexIsRequested, HasPlatform
  <2>1. IsInjective(Listed)
    BY <1>1, ListedType DEF IndexInv, IsInjective
  <2>2. Range(Listed) = {m \in Manifests : image[m] = "done"}
    BY <1>1, ListedDone
  <2> QED
    BY <1>1, <2>1, <2>2 DEF IndexInv
<1> QED
  BY <1>1, Invariants, PTL

\* The entries of a history that have a layer, up to its i-th.
FilledTo(m, i) == Filled(SubSeq(History[m], 1, i))

LEMMA FilledToType ==
  ASSUME NEW m \in Manifests, NEW i \in DOMAIN History[m]
  PROVE  FilledTo(m, i) = {j \in Filled(History[m]) : j <= i}
<1>1. History[m] \in Seq(BOOLEAN)
  BY ConvertorAssumption
<1>2. Len(History[m]) \in Nat /\ DOMAIN History[m] = 1..Len(History[m]) /\ i \in 1..Len(History[m])
  BY <1>1, LenProperties
<1>3. \A j \in 1..i : j \in 1..Len(History[m]) /\ History[m][j] \in BOOLEAN
  BY <1>1, <1>2, ElementOfSeq
<1>4. /\ SubSeq(History[m], 1, i) \in Seq(BOOLEAN)
      /\ Len(SubSeq(History[m], 1, i)) = i
      /\ \A j \in 1..i : SubSeq(History[m], 1, i)[j] = History[m][j]
  BY <1>2, <1>3, SubSeqProperties
<1>5. DOMAIN SubSeq(History[m], 1, i) = 1..i
  BY <1>4, LenProperties
<1> QED
  BY <1>2, <1>4, <1>5 DEF FilledTo, Filled

\* layerMap numbers the entries with a layer 1, 2, ... from the first to the last.
LEMMA Numbering ==
  ASSUME NEW m \in Manifests
  PROVE  \E place \in [1..Len(Layers[m]) -> DOMAIN History[m]] :
           /\ Increasing(place)
           /\ Range(place) = Filled(History[m])
           /\ \A k \in 1..Len(Layers[m]) : LayerOf(m, place[k]) = Layers[m][k]
<1> DEFINE F == Filled(History[m])
           n == Len(Layers[m])
           no == [i \in F |-> Cardinality(FilledTo(m, i))]
<1>1. History[m] \in Seq(BOOLEAN) /\ Cardinality(F) = n
  BY ConvertorAssumption
<1>2. Len(History[m]) \in Nat /\ DOMAIN History[m] = 1..Len(History[m])
  BY <1>1, LenProperties
<1>3. IsFiniteSet(F) /\ F \in SUBSET (DOMAIN History[m]) /\ F \in SUBSET Nat
  <2>1. F \in SUBSET (1..Len(History[m]))
    BY <1>2 DEF Filled
  <2> QED
    <3>1. IsFiniteSet(1..Len(History[m]))
      BY <1>2, FS_Interval
    <3>2. IsFiniteSet(F)
      BY <2>1, <3>1, FS_Subset
    <3>3. F \in SUBSET Nat
      BY <1>2, <2>1
    <3> QED
      BY <1>2, <2>1, <3>2, <3>3
<1>4. n \in Nat
  BY <1>1, <1>3, FS_CardinalityType
<1>5. \A i \in F : FilledTo(m, i) = {j \in F : j <= i}
  BY <1>3, FilledToType
<1>6. \A i \in F : IsFiniteSet(FilledTo(m, i)) /\ Cardinality(FilledTo(m, i)) \in Nat
  BY <1>3, <1>5, FS_Subset, FS_CardinalityType
<1>7. ASSUME NEW i \in F PROVE no[i] \in 1..n
  <2>1. FilledTo(m, i) \in SUBSET F /\ FilledTo(m, i) # {}
    BY <1>3, <1>5
  <2>2. Cardinality(FilledTo(m, i)) <= n
    BY <1>1, <1>3, <2>1, FS_Subset
  <2>3. Cardinality(FilledTo(m, i)) # 0
    BY <1>6, <2>1, FS_EmptySet
  <2> QED
    BY <1>4, <1>6, <2>2, <2>3
<1>8. ASSUME NEW i \in F, NEW j \in F, i < j PROVE no[i] < no[j]
  <2>1. \A x \in F : x \in Nat
    BY <1>3
  <2>2. j \in FilledTo(m, j) /\ j \notin FilledTo(m, i)
    BY <1>5, <1>8, <2>1
  <2>3. FilledTo(m, i) \in SUBSET FilledTo(m, j)
    BY <1>5, <1>8, <2>1
  <2>4. Cardinality(FilledTo(m, i)) <= Cardinality(FilledTo(m, j))
        /\ Cardinality(FilledTo(m, i)) # Cardinality(FilledTo(m, j))
    BY <1>6, <2>2, <2>3, FS_Subset
  <2> QED
    BY <1>6, <2>4
<1> HIDE DEF F, n
<1>9. no \in [F -> 1..n]
  BY <1>7
<1>10. DOMAIN no = F /\ \A i \in F : no[i] = Cardinality(FilledTo(m, i))
  OBVIOUS
<1> HIDE DEF no
<1>11. IsInjective(no)
  <2>1. \A i, j \in F : i \in Nat /\ j \in Nat /\ no[i] \in Nat /\ no[j] \in Nat
    BY <1>3, <1>4, <1>7
  <2> QED
    BY <1>8, <1>10, <2>1 DEF IsInjective
<1>12. no \in Injection(F, 1..n)
  BY <1>9, <1>11 DEF Injection
<1>13. IsFiniteSet(1..n) /\ Cardinality(1..n) = n
  BY <1>4, FS_Interval
<1>14. no \in Surjection(F, 1..n)
  BY <1>1, <1>12, <1>13, FS_Injection DEF F, n
<1> DEFINE place == [k \in 1..n |-> CHOOSE i \in F : no[i] = k]
<1>15. \A k \in 1..n : place[k] \in F /\ no[place[k]] = k
  BY <1>14 DEF Surjection
<1>16. DOMAIN place = 1..n
  OBVIOUS
<1> HIDE DEF place
<1>17. Increasing(place)
  <2> SUFFICES ASSUME NEW j \in 1..n, NEW k \in 1..n, j < k PROVE place[j] < place[k]
    BY <1>16 DEF Increasing
  <2>1. place[j] \in Nat /\ place[k] \in Nat /\ j \in Nat /\ k \in Nat
    <3>1. place[j] \in F /\ place[k] \in F
      BY <1>15
    <3>2. \A x \in F : x \in Nat
      BY <1>3
    <3>3. j \in Nat /\ k \in Nat
      BY <1>4
    <3> QED
      BY <3>1, <3>2, <3>3
  <2>2. place[j] # place[k]
    BY <1>15, <2>1
  <2>3. ~ (place[k] < place[j])
    BY <1>8, <1>15, <2>1
  <2> QED
    BY <2>1, <2>2, <2>3
<1>18. Range(place) = F
  <2>1. \A i \in F : place[no[i]] = i
    BY <1>7, <1>11, <1>15, <1>10 DEF IsInjective
  <2> QED
    BY <1>7, <1>15, <1>16, <2>1 DEF Range
<1>19. place \in [1..n -> DOMAIN History[m]]
  BY <1>3, <1>15, <1>16 DEF place
<1>20. \A k \in 1..n : LayerOf(m, place[k]) = Layers[m][k]
  BY <1>10, <1>15 DEF LayerOf, FilledTo
<1> QED
  BY <1>17, <1>18, <1>19, <1>20 DEF F, n

\* The layers of a converted image are those of the source in their order, and the history's
\* empty entries stay empty, however the conversions of its layers interleave.
THEOREM InOrder == Spec => []LayersInOrder
<1>1. ASSUME TypeInv, WholeInv, IndexInv PROVE LayersInOrder
  <2> SUFFICES ASSUME NEW m \in Range(Listed)
               PROVE  /\ \E place \in [1..Len(Layers[m]) -> DOMAIN History[m]] :
                           /\ Increasing(place)
                           /\ Range(place) = Filled(History[m])
                           /\ \A k \in DOMAIN place : addendums[<<m, place[k]>>][1].layer = Layers[m][k]
                      /\ \A i \in DOMAIN History[m] \ Filled(History[m]) :
                           addendums[<<m, i>>][1].layer = Empty
    BY DEF LayersInOrder
  <2>1. m \in Manifests /\ image[m] = "done"
    BY <1>1, ListedDone
  <2>2. ASSUME NEW i \in DOMAIN History[m]
        PROVE  addendums[<<m, i>>][1].layer = IF i \in Filled(History[m]) THEN LayerOf(m, i) ELSE Empty
    <3>1. <<m, i>> \in Tasks /\ <<m, i>>[1] = m /\ <<m, i>>[2] = i
      BY <2>1, TaskType
    <3>2. step[<<m, i>>] = "done"
      BY <1>1, <2>1, <3>1 DEF IndexInv, TasksOf
    <3>3. addendums[<<m, i>>][1].layer = IF HasLayer(<<m, i>>) THEN LayerOfTask(<<m, i>>) ELSE Empty
      BY <1>1, <3>1, <3>2 DEF WholeInv, TaskOK
    <3> QED
      BY <3>1, <3>3 DEF HasLayer, LayerOfTask, Filled
  <2>3. PICK place \in [1..Len(Layers[m]) -> DOMAIN History[m]] :
          /\ Increasing(place)
          /\ Range(place) = Filled(History[m])
          /\ \A k \in 1..Len(Layers[m]) : LayerOf(m, place[k]) = Layers[m][k]
    BY <2>1, Numbering
  <2>4. \A k \in DOMAIN place : place[k] \in Filled(History[m])
    BY <2>3 DEF Range
  <2> QED
    BY <2>2, <2>3, <2>4
<1> QED
  BY <1>1, Invariants, PTL

\* When the upload starts every temporary file has the layer it is named after, whole and
\* without a hole, though other conversions may have emptied and rewritten it.
THEOREM WholeFiles == Spec => []FilesWhole
<1>1. ASSUME TypeInv, WholeInv, IndexInv PROVE FilesWhole
  <2> SUFFICES ASSUME outcome = "uploaded", NEW t \in Tasks, step[t] = "done", HasLayer(t)
               PROVE  files[FileOf(t)] = [k \in 1..Bytes |-> <<LayerOfTask(t), k>>]
    BY DEF FilesWhole, FileOf, LayerOfTask, LayerOf, HasLayer
  <2>1. PICK u \in Tasks : /\ HasLayer(u) /\ FileOf(u) = FileOf(t) /\ step[u] \in Opened
                           /\ RightUpTo(u, at[u])
    BY <1>1 DEF WholeInv, LastOpened
  <2>2. u[1] \in Manifests /\ HasPlatform(u[1])
    BY <1>1, <2>1, TaskType DEF WholeInv, TaskOK, Opened
  <2>3. step[u] = "done"
    BY <1>1, <2>1, <2>2 DEF IndexInv, TasksOf
  <2>4. at[u] = Bytes /\ LayerOfTask(u) = LayerOfTask(t)
    BY <1>1, <2>1, <2>3, SameFileSameLayer DEF WholeInv, TaskOK
  <2>5. \A j \in 1..Bytes : j <= Len(files[FileOf(t)]) /\ files[FileOf(t)][j] = <<LayerOfTask(t), j>>
    BY <2>1, <2>4 DEF RightUpTo
  <2>6. FileOf(t) \in Names /\ files[FileOf(t)] \in Seq(Cells) /\ Len(files[FileOf(t)]) <= Bytes
    BY <1>1, FileType DEF TypeInv, WholeInv, FileOK
  <2>7. Bytes \in Nat \ {0} /\ Len(files[FileOf(t)]) \in Nat
    BY <2>6, ConvertorAssumption, LenProperties
  <2>8. Len(files[FileOf(t)]) = Bytes
    <3> DEFINE size == Len(files[FileOf(t)])
    <3>1. size \in Nat /\ size <= Bytes
      BY <2>6, <2>7
    <3>2. Bytes \in Nat /\ Bytes \in 1..Bytes
      BY <2>7
    <3>3. Bytes <= size
      BY <2>5, <3>2
    <3> HIDE DEF size
    <3>4. size = Bytes
      BY <3>1, <3>2, <3>3
    <3> QED
      BY <3>4 DEF size
  <2>9. files[FileOf(t)] \in [1..Bytes -> Cells]
    BY <2>6, <2>8, LenProperties
  <2> QED
    BY <2>5, <2>9
<1> QED
  BY <1>1, Invariants, PTL
=============================================================================
