------------------------- MODULE TocDatabaseProofs -------------------------
(***************************************************************************)
(* Proofs about TocDatabase, for any images, layers, tags and requests.       *)
(***************************************************************************)
EXTENDS TocDatabase, TLAPS

-----------------------------------------------------------------------------
(* The inductive invariants.                                               *)

NotifySteps == {"idle", "select", "insert", "layers", "enable", "tag"} \cup Ended
\* What saveLayer is doing once it has started; from "download" on it has written.
Written == {"download", "files", "wait", "copy", "commit"}
Live == {"lookup", "insert"} \cup Written
SaveSteps == {"none"} \cup Live \cup Ended

Typed ==
  /\ registry \in [Tags -> Pushed]
  /\ image \in [Images -> {"absent", "pending", "ready"}]
  /\ layer \in [Images -> [Indices -> Digests \cup {None}]]
  /\ filesystem \in [Digests -> {"absent", "bare", "full"}]
  /\ tag \in [Tags -> [Platforms -> Images \cup {None}]]
  /\ notify \in [Notifies -> NotifySteps]
  /\ plan \in [Notifies -> Pushed \cup {<<>>}]
  /\ at \in [Notifies -> Nat \ {0}]
  /\ save \in [Notifies -> [Indices -> SaveSteps]]
  /\ existing \in [Notifies -> [Indices -> BOOLEAN]]
  /\ serial \in [Builders -> Images \cup {None}]
  /\ builder = [b \in Builders |-> builder[b]]
  /\ got = [b \in Builders |-> got[b]]

\* A notify that has read its manifests is at one of them.
Planned(n) ==
  /\ notify[n] = "idle" => at[n] = 1
  /\ notify[n] # "idle" => plan[n] \in Pushed /\ at[n] \in 1..Len(plan[n])

TypeInv == Typed /\ \A n \in Notifies : Planned(n)

\* A notify that saves layers has inserted the row of its image, and no other has.
Inserted ==
  /\ \A n \in Notifies : notify[n] \in {"layers", "enable"} => image[Current(n)] = "pending"
  /\ OneExtractorPerImage

\* The goroutines of a notify run only while it waits for them, one for each layer.
Goroutines(n) ==
  /\ notify[n] = "layers" => \A i \in Indices :
       save[n][i] \in IF i \in Stacks(Current(n)) THEN Live \cup {"ok", "failed"} ELSE {"none"}
  /\ notify[n] # "layers" => \A i \in Indices : save[n][i] \notin Live
  /\ notify[n] = "enable" => \A i \in Stacks(Current(n)) : save[n][i] = "ok"

\* Between the query and the end of its transaction saveLayer knows whether the row of
\* the filesystem is there; one transaction alone has inserted it.
HasRow(n, i) == save[n][i] \in Written /\ ~existing[n][i]

RowKnown(n, i) ==
  /\ save[n][i] \in {"insert"} \cup Written /\ existing[n][i] => filesystem[DigestOf(n, i)] # "absent"
  /\ HasRow(n, i) => filesystem[DigestOf(n, i)] = "absent"

OneHolder == \A n, m \in Notifies, i, j \in Indices :
  HasRow(n, i) /\ HasRow(m, j) /\ DigestOf(n, i) = DigestOf(m, j) => n = m /\ i = j

RowInv ==
  /\ \A n \in Notifies : Goroutines(n)
  /\ \A n \in Notifies, i \in Indices : RowKnown(n, i)
  /\ OneHolder

\* What a layer that was saved has left.
Extracted(img, i) ==
  layer[img][i] = ImageLayers[img][i] /\ filesystem[ImageLayers[img][i]] = "full"

SavedLayers(n) == notify[n] \in {"layers", "enable"} =>
  \A i \in Stacks(Current(n)) : save[n][i] = "ok" => Extracted(Current(n), i)

ExtractedInv == (\A n \in Notifies : SavedLayers(n)) /\ ReadyImageExtracted

\* The manifests a notify has done are ready and tagged, and only such are tagged.
Done(n, k) == image[plan[n][k]] = "ready" /\ tag[TagOf[n]][k] # None

AnswerInv ==
  /\ \A n \in Notifies :
       /\ notify[n] # "idle" => \A k \in 1..(at[n] - 1) : Done(n, k)
       /\ notify[n] = "tag" => image[Current(n)] = "ready"
  /\ OkMeansSaved
  /\ \A t \in Tags, p \in Platforms : tag[t][p] # None => image[tag[t][p]] = "ready"

\* A delta request reads a ready image.
BuilderInv == \A b \in Builders :
  /\ builder[b] \in {"layers", "files"} => serial[b] \in Images /\ image[serial[b]] = "ready"
  /\ builder[b] \in {"files", "ok"} => got[b]

-----------------------------------------------------------------------------
(* Lemmas on the operators.                                                *)

\* The manifest a notify is at is an image.
LEMMA CurrentImage ==
  ASSUME TypeInv, NEW n \in Notifies, notify[n] # "idle"
  PROVE  /\ Current(n) \in Images
         /\ Stacks(Current(n)) \subseteq Indices
         /\ \A i \in Stacks(Current(n)) : DigestOf(n, i) \in Digests
<1>1. plan[n] \in Seq(Images) /\ at[n] \in 1..Len(plan[n])
  BY DataAssumption DEF TypeInv, Planned
<1>2. Current(n) \in Images
  BY <1>1 DEF Current
<1>3. ImageLayers[Current(n)] \in Seq(Digests) /\ Len(ImageLayers[Current(n)]) <= MaxLayers
  BY <1>2, DataAssumption
<1> QED
  BY <1>2, <1>3, BoundsAssumption DEF Stacks, Indices, DigestOf

\* A goroutine that runs saves a layer of the image its notify is at.
LEMMA LiveLayer ==
  ASSUME TypeInv, RowInv, NEW n \in Notifies, NEW i \in Indices, save[n][i] \in Live
  PROVE  /\ notify[n] = "layers" /\ i \in Stacks(Current(n)) /\ Current(n) \in Images
         /\ DigestOf(n, i) \in Digests /\ DigestOf(n, i) = ImageLayers[Current(n)][i]
<1>1. notify[n] = "layers"
  BY DEF RowInv, Goroutines
<1>2. i \in Stacks(Current(n))
  BY <1>1 DEF RowInv, Goroutines, Live, Written
<1> QED
  BY <1>1, <1>2, CurrentImage DEF DigestOf

-----------------------------------------------------------------------------
(* Types.                                                                  *)

LEMMA TypeInit == Init => TypeInv
<1> SUFFICES ASSUME Init PROVE TypeInv
  OBVIOUS
<1>1. builder = [b \in Builders |-> "idle"] /\ got = [b \in Builders |-> TRUE]
  BY DEF Init
<1>2. builder = [b \in Builders |-> builder[b]] /\ got = [b \in Builders |-> got[b]]
  BY <1>1
<1> QED
  BY <1>2 DEF Init, TypeInv, Typed, Planned, NotifySteps, SaveSteps, Ended, NoGoroutine

LEMMA TypeStep == TypeInv /\ RowInv /\ [Next]_vars => TypeInv'
<1> SUFFICES ASSUME TypeInv, RowInv, [Next]_vars PROVE Typed' /\ \A n \in Notifies : Planned(n)'
  BY DEF TypeInv
<1> USE DEF worldVars, tables, notifyVars, reportVars, builderVars, SaveOthers
<1>1. Typed /\ \A n \in Notifies : Planned(n)
  BY DEF TypeInv
<1>2. ASSUME UNCHANGED <<notify, plan, at>> PROVE \A n \in Notifies : Planned(n)'
  BY <1>1, <1>2 DEF Planned
<1>3. ASSUME NEW n \in Notifies, NEW s \in NotifySteps \ {"idle"}, Goto(n, s), UNCHANGED <<plan, at>>,
             notify[n] # "idle"
      PROVE  notify' \in [Notifies -> NotifySteps] /\ \A m \in Notifies : Planned(m)'
  BY <1>1, <1>3 DEF Goto, Typed, Planned
<1>4. ASSUME NEW n \in Notifies, NotifyStep(n) \/ NotifyFails(n)
      PROVE  Typed' /\ \A m \in Notifies : Planned(m)'
  <2>1. CASE Fetch(n)
    <3>1. registry[TagOf[n]] \in Pushed /\ Len(registry[TagOf[n]]) >= 1 /\ Len(registry[TagOf[n]]) \in Nat
      BY <1>1, DataAssumption, BoundsAssumption DEF Typed, Platforms
    <3>2. /\ \A m \in Notifies : notify'[m] = IF m = n THEN "select" ELSE notify[m]
          /\ \A m \in Notifies : plan'[m] = IF m = n THEN registry[TagOf[n]] ELSE plan[m]
          /\ at' = at /\ notify[n] = "idle"
      BY <1>1, <2>1 DEF Fetch, Goto, Typed
    <3>3. \A m \in Notifies : Planned(m)'
      BY <1>1, <3>1, <3>2 DEF Planned
    <3>4. Typed'
      BY <1>1, <2>1, <3>1 DEF Fetch, Goto, Typed, NotifySteps
    <3> QED
      BY <3>3, <3>4
  <2>2. CASE SelectImage(n) \/ WaitLayers(n) \/ NotifyFails(n)
    <3>1. \E s \in {"insert", "failed", "tag", "enable"} : Goto(n, s)
      <4>1. CASE SelectImage(n)
        <5>1. Current(n) \in Images
          BY <4>1, CurrentImage DEF SelectImage
        <5> QED
          BY <1>1, <4>1, <5>1 DEF SelectImage, Typed
      <4> QED
        BY <2>2, <4>1 DEF WaitLayers, NotifyFails
    <3> QED
      BY <1>1, <1>3, <2>2, <3>1 DEF SelectImage, WaitLayers, NotifyFails, Typed, NotifySteps, Ended
  <2>3. CASE InsertImage(n)
    <3>1. \E s \in {"layers", "failed"} : Goto(n, s)
      BY <2>3 DEF InsertImage
    <3>2. notify' \in [Notifies -> NotifySteps] /\ \A m \in Notifies : Planned(m)'
      BY <1>3, <2>3, <3>1 DEF InsertImage, NotifySteps, Ended
    <3> DEFINE goroutines == [i \in Indices |-> IF i \in Stacks(Current(n)) THEN "lookup" ELSE "none"]
    <3>3. \/ UNCHANGED <<image, save>>
          \/ /\ image' = [image EXCEPT ![Current(n)] = "pending"]
             /\ save' = [save EXCEPT ![n] = goroutines]
      BY <2>3 DEF InsertImage
    <3>4. goroutines \in [Indices -> SaveSteps]
      BY DEF SaveSteps, Live
    <3> HIDE DEF goroutines
    <3>5. /\ image' \in [Images -> {"absent", "pending", "ready"}]
          /\ save' \in [Notifies -> [Indices -> SaveSteps]]
      BY <1>1, <3>3, <3>4 DEF Typed
    <3> QED
      BY <1>1, <2>3, <3>2, <3>5 DEF InsertImage, Typed
  <2>4. CASE EnableImage(n)
    BY <1>1, <1>3, <2>4 DEF EnableImage, Typed, NotifySteps
  <2>5. CASE SetTag(n)
    <3>1. Current(n) \in Images /\ plan[n] \in Seq(Images) /\ at[n] \in 1..Len(plan[n]) /\ Len(plan[n]) \in Nat
      BY <1>1, <2>5, CurrentImage, DataAssumption DEF SetTag, Planned
    <3>2. tag' \in [Tags -> [Platforms -> Images \cup {None}]]
      BY <1>1, <2>5, <3>1 DEF SetTag, Typed
    <3>3. CASE at[n] < Len(plan[n])
      <4>1. /\ \A m \in Notifies : notify'[m] = IF m = n THEN "select" ELSE notify[m]
            /\ \A m \in Notifies : at'[m] = IF m = n THEN at[n] + 1 ELSE at[m]
            /\ plan' = plan /\ notify[n] = "tag"
        BY <1>1, <2>5, <3>3 DEF SetTag, Goto, Typed
      <4>2. \A m \in Notifies : Planned(m)'
        BY <1>1, <3>1, <3>3, <4>1 DEF Planned
      <4>3. notify' \in [Notifies -> NotifySteps]
        <5>1. notify' = [notify EXCEPT ![n] = "select"]
          BY <2>5, <3>3 DEF SetTag, Goto
        <5> QED
          BY <1>1, <5>1 DEF Typed, NotifySteps
      <4>4. at' \in [Notifies -> Nat \ {0}]
        <5>1. at' = [at EXCEPT ![n] = at[n] + 1] /\ at[n] + 1 \in Nat \ {0}
          BY <1>1, <2>5, <3>3 DEF SetTag, Typed
        <5> QED
          BY <1>1, <5>1 DEF Typed
      <4> QED
        BY <1>1, <2>5, <3>2, <4>2, <4>3, <4>4 DEF SetTag, Typed
    <3>4. CASE ~(at[n] < Len(plan[n]))
      BY <1>1, <1>3, <2>5, <3>2, <3>4 DEF SetTag, Typed, NotifySteps, Ended
    <3> QED
      BY <3>3, <3>4
  <2> QED
    BY <1>4, <2>1, <2>2, <2>3, <2>4, <2>5 DEF NotifyStep
<1>5. ASSUME NEW n \in Notifies, NEW i \in Indices, SaveStep(n, i) \/ SaveFails(n, i) PROVE Typed'
  <2>1. UNCHANGED <<registry, image, tag, notify, plan, at, serial, builder, got>>
    BY <1>5 DEF SaveStep, LookUpLayer, InsertLayer, Download, DeleteFiles, CopyFile, Deadlock, Commit, SaveFails
  <2>2. existing' \in [Notifies -> [Indices -> BOOLEAN]]
    <3>1. CASE LookUpLayer(n, i)
      <4> DEFINE b == filesystem[DigestOf(n, i)] # "absent"
      <4>1. existing' = [existing EXCEPT ![n] = [existing[n] EXCEPT ![i] = b]] /\ b \in BOOLEAN
        BY <3>1 DEF LookUpLayer
      <4> HIDE DEF b
      <4> QED
        BY <1>1, <4>1 DEF Typed
    <3> QED
      BY <1>1, <1>5, <3>1 DEF SaveStep, InsertLayer, Download, DeleteFiles, CopyFile, Deadlock, Commit, SaveFails, Typed
  <2>3. save' \in [Notifies -> [Indices -> SaveSteps]]
    <3>1. ASSUME NEW s \in SaveSteps, SaveGoto(n, i, s) PROVE save' \in [Notifies -> [Indices -> SaveSteps]]
      BY <1>1, <3>1 DEF SaveGoto, Typed
    <3>2. CASE \E s \in {"ok", "failed"} : save' = [m \in Notifies |-> [j \in Indices |->
                 IF m = n /\ j = i THEN "ok"
                 ELSE IF Outrun(m, j, DigestOf(n, i)) THEN "failed" ELSE save[m][j]]]
      BY <1>1, <3>2 DEF Typed, SaveSteps, Ended
    <3>3. CASE \E s \in {"insert", "download", "failed", "files", "wait", "copy", "commit", "ok"} :
                 SaveGoto(n, i, s)
      BY <3>1, <3>3 DEF SaveSteps, Live, Written, Ended
    <3> QED
      BY <1>1, <1>5, <3>2, <3>3 DEF Typed, SaveStep, LookUpLayer, InsertLayer, Download, DeleteFiles, CopyFile, Deadlock, Commit, SaveFails
  <2>4. CASE UNCHANGED <<layer, filesystem>>
    BY <1>1, <2>1, <2>2, <2>3, <2>4 DEF Typed
  <2>5. ASSUME NEW s \in {"absent", "bare", "full"}, CommitLayer(n, i, s), DigestOf(n, i) \in Digests,
               Current(n) \in Images
        PROVE  Typed'
    <3>1. filesystem' \in [Digests -> {"absent", "bare", "full"}]
      BY <1>1, <2>5 DEF CommitLayer, Typed
    <3>2. layer' = [layer EXCEPT ![Current(n)] = [layer[Current(n)] EXCEPT ![i] = DigestOf(n, i)]]
      BY <2>5 DEF CommitLayer
    <3>3. layer' \in [Images -> [Indices -> Digests \cup {None}]]
      BY <1>1, <2>5, <3>2 DEF Typed
    <3> QED
      BY <1>1, <2>1, <2>2, <2>3, <3>1, <3>3 DEF Typed
  <2>6. CASE Download(n, i) \/ Commit(n, i)
    <3>1. DigestOf(n, i) \in Digests /\ Current(n) \in Images
      BY <1>1, <2>6, LiveLayer DEF Download, Commit, Live, Written
    <3>2. filesystem[DigestOf(n, i)] \in {"absent", "bare", "full"}
      BY <1>1, <3>1 DEF Typed
    <3>3. UNCHANGED <<layer, filesystem>>
          \/ \E s \in {"absent", "bare", "full"} : CommitLayer(n, i, s)
      BY <2>6, <3>2 DEF Download, Commit
    <3> QED
      BY <2>4, <2>5, <3>1, <3>3
  <2> QED
    BY <1>5, <2>4, <2>6 DEF SaveStep, LookUpLayer, InsertLayer, DeleteFiles, CopyFile, Deadlock, SaveFails
<1>6. ASSUME NEW b \in Builders, BuilderStep(b) PROVE Typed'
  <2>1. UNCHANGED <<registry, tables, notifyVars>>
    BY <1>6 DEF BuilderStep, Resolve, ReadLayers, ReadFiles
  <2>2. /\ serial' \in [Builders -> Images \cup {None}]
        /\ builder' = [d \in Builders |-> builder'[d]] /\ got' = [d \in Builders |-> got'[d]]
    BY <1>1, <1>6 DEF BuilderStep, Resolve, ReadLayers, ReadFiles, Build, Typed
  <2> QED
    BY <1>1, <2>1, <2>2 DEF Typed
<1>7. ASSUME NEW r \in Reports, ReportStep(r) PROVE Typed'
  BY <1>1, <1>7 DEF ReportStep, MapLayers, RankLayer, ReportEnds, Typed
<1>8. ASSUME Push PROVE Typed'
  <2>1. registry' \in [Tags -> Pushed]
    BY <1>1, <1>8 DEF Push, Typed
  <2> QED
    BY <1>1, <1>8, <2>1 DEF Push, Typed
<1>9. CASE Crash
  <2> DEFINE Dies(step) == IF step \in Ended \cup {"idle", "none"} THEN step ELSE "dead"
  <2>1. /\ notify' = [n \in Notifies |-> Dies(notify[n])]
        /\ save' = [n \in Notifies |-> [i \in Indices |-> Dies(save[n][i])]]
        /\ builder' = [b \in Builders |-> Dies(builder[b])]
        /\ UNCHANGED <<registry, image, layer, filesystem, tag, plan, at, existing, serial, got>>
    BY <1>9 DEF Crash
  <2>2. notify' \in [Notifies -> NotifySteps]
    BY <1>1, <2>1 DEF Typed, NotifySteps, Ended
  <2>3. save' \in [Notifies -> [Indices -> SaveSteps]]
    BY <1>1, <2>1 DEF Typed, SaveSteps, Live, Written, Ended
  <2>4. \A n \in Notifies : Planned(n)'
    BY <1>1, <2>1 DEF Planned, Ended
  <2> QED
    BY <1>1, <2>1, <2>2, <2>3, <2>4 DEF Typed
<1>10. ASSUME NEW n \in Notifies, NEW i \in Indices, SaveStep(n, i) \/ SaveFails(n, i)
       PROVE  UNCHANGED <<notify, plan, at>>
  BY <1>10 DEF SaveStep, LookUpLayer, InsertLayer, Download, DeleteFiles, CopyFile, Deadlock, Commit, SaveFails
<1>11. ASSUME NEW r \in Reports, ReportStep(r) PROVE UNCHANGED <<notify, plan, at>>
  BY <1>11 DEF ReportStep, MapLayers, RankLayer, ReportEnds
<1>12. ASSUME NEW b \in Builders, BuilderStep(b) PROVE UNCHANGED <<notify, plan, at>>
  BY <1>12 DEF BuilderStep, Resolve, ReadLayers, ReadFiles
<1>13. CASE UNCHANGED vars
  BY <1>1, <1>2, <1>13 DEF vars, Typed
<1> QED
  BY <1>2, <1>4, <1>5, <1>6, <1>7, <1>8, <1>9, <1>10, <1>11, <1>12, <1>13 DEF Next, Push

-----------------------------------------------------------------------------
(* The rows of the filesystem table.                                       *)

LEMMA RowInit == Init => RowInv
BY DEF Init, RowInv, Goroutines, RowKnown, OneHolder, HasRow, NoGoroutine, Live, Written

\* What a step of saveLayer does to the goroutines and the tables.
SaveEffect(n, i) ==
  /\ UNCHANGED <<image, tag, notify, plan, at, builder, serial, got>>
  /\ save[n][i] \in Live /\ save'[n][i] \in Live \cup {"ok", "failed"}
  /\ \A m \in Notifies, j \in Indices : m # n \/ j # i =>
       /\ existing'[m][j] = existing[m][j]
       /\ save'[m][j] = save[m][j] \/ (save[m][j] \in {"wait", "copy"} /\ save'[m][j] = "failed")
  /\ (save'[n][i] \in Written /\ ~existing'[n][i]) =>
       HasRow(n, i) \/ (~RowHeld(DigestOf(n, i)) /\ filesystem[DigestOf(n, i)] = "absent")
  /\ (save'[n][i] \in {"insert"} \cup Written /\ existing'[n][i]) =>
       \/ save[n][i] \in {"insert"} \cup Written /\ existing[n][i]
       \/ filesystem[DigestOf(n, i)] # "absent"
  /\ \/ UNCHANGED filesystem
     \/ /\ save[n][i] \in Written /\ save'[n][i] \notin Written
        /\ \E s \in {"bare", "full"} :
             /\ filesystem' = [filesystem EXCEPT ![DigestOf(n, i)] = s]
             /\ s = "bare" => ~existing[n][i]
  /\ \/ UNCHANGED layer
     \/ layer' = [layer EXCEPT ![Current(n)][i] = DigestOf(n, i)]
  /\ save'[n][i] = "ok" => CommitsFail
       \/ /\ layer' = [layer EXCEPT ![Current(n)][i] = DigestOf(n, i)]
          /\ filesystem' = [filesystem EXCEPT ![DigestOf(n, i)] = "full"]

LEMMA SaveEffects ==
  ASSUME TypeInv, RowInv, NEW n \in Notifies, NEW i \in Indices, SaveStep(n, i) \/ SaveFails(n, i)
  PROVE  SaveEffect(n, i)
<1> USE DEF worldVars, tables, notifyVars, reportVars, builderVars, SaveOthers
<1>1. Typed
  BY DEF TypeInv
<1>2. ASSUME NEW s, SaveGoto(n, i, s)
      PROVE  /\ save'[n][i] = s
             /\ \A m \in Notifies, j \in Indices : m # n \/ j # i => save'[m][j] = save[m][j]
  BY <1>1, <1>2 DEF SaveGoto, Typed
<1>3. CASE LookUpLayer(n, i)
  <2> DEFINE found == filesystem[DigestOf(n, i)] # "absent"
  <2>1. existing' = [existing EXCEPT ![n] = [existing[n] EXCEPT ![i] = found]]
    BY <1>3 DEF LookUpLayer
  <2>2. /\ existing'[n][i] = found
        /\ \A m \in Notifies, j \in Indices : m # n \/ j # i => existing'[m][j] = existing[m][j]
    <3> HIDE DEF found
    <3> QED
      BY <1>1, <2>1 DEF Typed
  <2>3. /\ save[n][i] = "lookup" /\ SaveGoto(n, i, "insert")
        /\ UNCHANGED <<image, layer, filesystem, tag, notify, plan, at, builder, serial, got>>
    BY <1>3 DEF LookUpLayer
  <2>4. save'[n][i] = "insert"
    BY <1>2, <2>3
  <2> QED
    BY <1>2, <2>2, <2>3, <2>4 DEF SaveEffect, Live, Written
<1>4. CASE InsertLayer(n, i)
  <2>1. /\ save[n][i] = "insert"
        /\ UNCHANGED <<image, layer, filesystem, tag, existing, notify, plan, at, builder, serial, got>>
    BY <1>4 DEF InsertLayer
  <2>2. \/ existing[n][i] /\ SaveGoto(n, i, "download")
        \/ /\ ~RowHeld(DigestOf(n, i)) /\ filesystem[DigestOf(n, i)] = "absent"
           /\ SaveGoto(n, i, "download")
        \/ SaveGoto(n, i, "failed")
    BY <1>4 DEF InsertLayer
  <2>3. CASE SaveGoto(n, i, "failed")
    BY <1>2, <2>1, <2>3 DEF SaveEffect, Live, Written
  <2>4. CASE SaveGoto(n, i, "download")
    BY <1>2, <2>1, <2>2, <2>4 DEF SaveEffect, Live, Written
  <2> QED
    BY <2>2, <2>3, <2>4
<1>5. CASE Download(n, i)
  <2>1. /\ save[n][i] = "download"
        /\ UNCHANGED <<image, tag, existing, notify, plan, at, builder, serial, got>>
    BY <1>5 DEF Download
  <2>2. CASE SaveGoto(n, i, "files") /\ UNCHANGED <<layer, filesystem>>
    BY <1>2, <2>1, <2>2 DEF SaveEffect, HasRow, Live, Written
  <2>3. CASE /\ SaveGoto(n, i, "failed")
             /\ CommitLayer(n, i, IF existing[n][i] THEN filesystem[DigestOf(n, i)] ELSE "bare")
    <3>1. save'[n][i] = "failed"
      BY <1>2, <2>3
    <3>2. layer' = [layer EXCEPT ![Current(n)][i] = DigestOf(n, i)]
      BY <2>3 DEF CommitLayer
    <3>3. DigestOf(n, i) \in Digests
      BY <2>1, LiveLayer DEF Live, Written
    <3>4. \/ UNCHANGED filesystem
          \/ filesystem' = [filesystem EXCEPT ![DigestOf(n, i)] = "bare"] /\ ~existing[n][i]
      BY <1>1, <2>3, <3>3 DEF CommitLayer, Typed
    <3> QED
      BY <1>2, <2>1, <2>3, <3>1, <3>2, <3>4 DEF SaveEffect, Live, Written
  <2> QED
    BY <1>5, <2>2, <2>3 DEF Download
<1>6. CASE DeleteFiles(n, i) \/ CopyFile(n, i) \/ Deadlock(n, i)
  <2>1. /\ save[n][i] \in {"files", "wait", "copy"}
        /\ UNCHANGED <<image, layer, filesystem, tag, existing, notify, plan, at, builder, serial, got>>
        /\ \/ \E s \in {"wait", "copy", "commit", "failed"} : SaveGoto(n, i, s)
           \/ UNCHANGED save
    BY <1>6 DEF DeleteFiles, CopyFile, Deadlock, Stuck
  <2> QED
    BY <1>2, <2>1 DEF SaveEffect, HasRow, Live, Written
<1>7. CASE Commit(n, i)
  <2>1. /\ save[n][i] = "commit"
        /\ UNCHANGED <<image, tag, existing, notify, plan, at, builder, serial, got>>
    BY <1>7 DEF Commit
  <2>2. CASE /\ CommitLayer(n, i, "full")
             /\ save' = [m \in Notifies |-> [j \in Indices |->
                            IF m = n /\ j = i THEN "ok"
                            ELSE IF Outrun(m, j, DigestOf(n, i)) THEN "failed" ELSE save[m][j]]]
    <3>1. /\ save'[n][i] = "ok"
          /\ \A m \in Notifies, j \in Indices : m # n \/ j # i =>
               save'[m][j] = save[m][j] \/ (save[m][j] \in {"wait", "copy"} /\ save'[m][j] = "failed")
      BY <2>2 DEF Outrun
    <3> QED
      BY <2>1, <2>2, <3>1 DEF SaveEffect, CommitLayer, Live, Written
  <2>3. CASE CommitsFail /\ SaveGoto(n, i, "ok") /\ UNCHANGED <<layer, filesystem>>
    BY <1>2, <2>1, <2>3 DEF SaveEffect, Live, Written
  <2> QED
    BY <1>7, <2>2, <2>3 DEF Commit
<1>8. CASE SaveFails(n, i)
  <2>1. /\ save[n][i] \in {"lookup", "insert", "files", "wait", "copy"} /\ SaveGoto(n, i, "failed")
        /\ UNCHANGED <<image, layer, filesystem, tag, existing, notify, plan, at, builder, serial, got>>
    BY <1>8 DEF SaveFails
  <2> QED
    BY <1>2, <2>1 DEF SaveEffect, Live, Written
<1> QED
  BY <1>3, <1>4, <1>5, <1>6, <1>7, <1>8 DEF SaveStep

\* What a step of the handler does to the goroutines: it starts none but in InsertImage,
\* and none is running.
NotifyEffect(n) ==
  /\ UNCHANGED <<layer, filesystem, existing>>
  /\ \A m \in Notifies : m # n => /\ notify'[m] = notify[m] /\ Current(m)' = Current(m)
                                /\ plan'[m] = plan[m] /\ at'[m] = at[m] /\ save'[m] = save[m]
  /\ \A i \in Indices : save[n][i] \notin Live /\ save'[n][i] \notin {"insert"} \cup Written
  /\ Goroutines(n)'

LEMMA NotifyEffects ==
  ASSUME TypeInv, RowInv, NEW n \in Notifies, NotifyStep(n) \/ NotifyFails(n)
  PROVE  NotifyEffect(n)
<1> USE DEF worldVars, tables, notifyVars, reportVars, builderVars
<1>1. Typed
  BY DEF TypeInv
<1>2. ASSUME NEW s, Goto(n, s)
      PROVE  notify' = [notify EXCEPT ![n] = s] /\ notify'[n] = s
             /\ \A m \in Notifies : m # n => notify'[m] = notify[m]
  BY <1>1, <1>2 DEF Goto, Typed
<1>3. Goroutines(n)
  BY DEF RowInv
<1>4. CASE Fetch(n) \/ SetTag(n)
  <2>1. /\ UNCHANGED <<layer, filesystem, existing, save>>
        /\ notify[n] \in {"idle", "tag"} /\ \E s \in {"select", "ok"} : Goto(n, s)
        /\ \A m \in Notifies : m # n => plan'[m] = plan[m] /\ at'[m] = at[m]
    <3>1. CASE Fetch(n)
      BY <1>1, <3>1 DEF Fetch, Typed
    <3>2. CASE SetTag(n)
      BY <1>1, <3>2 DEF SetTag, Typed
    <3> QED
      BY <1>4, <3>1, <3>2
  <2> QED
    BY <1>2, <1>3, <2>1 DEF NotifyEffect, Goroutines, Current, Live, Written
<1>5. CASE SelectImage(n) \/ EnableImage(n) \/ NotifyFails(n)
  <2>1. /\ UNCHANGED <<layer, filesystem, existing, save, plan, at>>
        /\ notify[n] \notin {"layers"}
        /\ \E s \in {"insert", "tag", "failed"} : Goto(n, s)
    <3>1. CASE SelectImage(n)
      <4>1. image[Current(n)] \in {"absent", "pending", "ready"}
        BY <1>1, <3>1, CurrentImage DEF SelectImage, Typed
      <4> QED
        BY <3>1, <4>1 DEF SelectImage
    <3> QED
      BY <1>5, <3>1 DEF EnableImage, NotifyFails
  <2> QED
    BY <1>2, <1>3, <2>1 DEF NotifyEffect, Goroutines, Current, Live, Written
<1>6. CASE InsertImage(n)
  <2> DEFINE goroutines == [i \in Indices |-> IF i \in Stacks(Current(n)) THEN "lookup" ELSE "none"]
  <2>1. UNCHANGED <<layer, filesystem, existing, plan, at>> /\ notify[n] = "insert"
    BY <1>6 DEF InsertImage
  <2>2. CASE save' = [save EXCEPT ![n] = goroutines] /\ Goto(n, "layers")
    <3>1. /\ save'[n] = goroutines
          /\ \A m \in Notifies : m # n => save'[m] = save[m]
      <4> HIDE DEF goroutines
      <4> QED
        BY <1>1, <2>2 DEF Typed
    <3>2. \A i \in Indices : save'[n][i] = IF i \in Stacks(Current(n)) THEN "lookup" ELSE "none"
      BY <3>1
    <3> QED
      BY <1>2, <1>3, <2>1, <2>2, <3>1, <3>2 DEF NotifyEffect, Goroutines, Current, Stacks, Live, Written
  <2>3. CASE save' = save /\ Goto(n, "failed")
    BY <1>2, <1>3, <2>1, <2>3 DEF NotifyEffect, Goroutines, Current, Live, Written
  <2> QED
    BY <1>6, <2>2, <2>3 DEF InsertImage
<1>7. CASE WaitLayers(n)
  <2>1. /\ UNCHANGED <<layer, filesystem, existing, save, plan, at>> /\ notify[n] = "layers"
        /\ \A i \in Stacks(Current(n)) : save[n][i] \in {"ok", "failed"}
        /\ \/ Goto(n, "failed")
           \/ Goto(n, "enable") /\ \A i \in Stacks(Current(n)) : save[n][i] = "ok"
    BY <1>7 DEF WaitLayers
  <2>2. \A i \in Indices : save[n][i] \notin Live
    BY <1>3, <2>1 DEF Goroutines, Live, Written
  <2> QED
    BY <1>2, <2>1, <2>2 DEF NotifyEffect, Goroutines, Current, Stacks, Live, Written
<1> QED
  BY <1>4, <1>5, <1>6, <1>7 DEF NotifyStep

\* Every other step leaves the goroutines and what they know alone.
RowVars == <<layer, filesystem, notify, plan, at, save, existing>>

LEMMA OtherSteps ==
  ASSUME [Next]_vars
  PROVE  \/ \E n \in Notifies : NotifyStep(n) \/ NotifyFails(n)
         \/ \E n \in Notifies, i \in Indices : SaveStep(n, i) \/ SaveFails(n, i)
         \/ UNCHANGED <<RowVars, image, tag>>
         \/ Crash
<1> USE DEF worldVars, tables, notifyVars, reportVars, builderVars, RowVars
<1>1. ASSUME NEW r \in Reports, ReportStep(r) PROVE UNCHANGED <<RowVars, image, tag>>
  BY <1>1 DEF ReportStep, MapLayers, RankLayer, ReportEnds
<1>2. ASSUME NEW b \in Builders, BuilderStep(b) PROVE UNCHANGED <<RowVars, image, tag>>
  BY <1>2 DEF BuilderStep, Resolve, ReadLayers, ReadFiles
<1>3. CASE Push \/ UNCHANGED vars
  BY <1>3 DEF Push, vars
<1> QED
  BY <1>1, <1>2, <1>3 DEF Next

LEMMA RowStep == TypeInv /\ RowInv /\ [Next]_vars => RowInv'
<1> SUFFICES ASSUME TypeInv, RowInv, [Next]_vars
             PROVE  /\ \A m \in Notifies : Goroutines(m)'
                    /\ \A m \in Notifies, j \in Indices : RowKnown(m, j)'
                    /\ OneHolder'
  BY DEF RowInv
<1>1. /\ \A m \in Notifies : Goroutines(m)
      /\ \A m \in Notifies, j \in Indices : RowKnown(m, j)
      /\ OneHolder
  BY DEF RowInv
<1>2. CASE \E n \in Notifies : NotifyStep(n) \/ NotifyFails(n)
  <2> PICK n \in Notifies : NotifyStep(n) \/ NotifyFails(n)
    BY <1>2
  <2>1. NotifyEffect(n)
    BY NotifyEffects
  <2>2. \A m \in Notifies : Goroutines(m)'
    BY <1>1, <2>1 DEF NotifyEffect, Goroutines, Stacks
  <2>3. \A m \in Notifies, j \in Indices : m # n =>
          /\ save'[m][j] = save[m][j] /\ DigestOf(m, j)' = DigestOf(m, j)
          /\ existing'[m][j] = existing[m][j]
    BY <2>1 DEF NotifyEffect, DigestOf
  <2>4. \A j \in Indices : save'[n][j] \notin {"insert"} \cup Written
    BY <2>1 DEF NotifyEffect
  <2>5. filesystem' = filesystem
    BY <2>1 DEF NotifyEffect
  <2>6. \A m \in Notifies, j \in Indices : RowKnown(m, j)'
    BY <1>1, <2>3, <2>4, <2>5 DEF RowKnown, HasRow
  <2>7. \A m \in Notifies, j \in Indices : HasRow(m, j)' =>
          m # n /\ HasRow(m, j) /\ DigestOf(m, j)' = DigestOf(m, j)
    BY <2>3, <2>4 DEF HasRow
  <2> QED
    BY <1>1, <2>2, <2>6, <2>7 DEF OneHolder
<1>3. CASE \E n \in Notifies, i \in Indices : SaveStep(n, i) \/ SaveFails(n, i)
  <2> PICK n \in Notifies, i \in Indices : SaveStep(n, i) \/ SaveFails(n, i)
    BY <1>3
  <2>1. SaveEffect(n, i)
    BY SaveEffects
  <2>2. \A m \in Notifies : Current(m)' = Current(m) /\ notify'[m] = notify[m]
    BY <2>1 DEF SaveEffect, Current
  <2>3. \A m \in Notifies, j \in Indices : DigestOf(m, j)' = DigestOf(m, j)
    BY <2>2 DEF DigestOf
  <2>4. /\ save[n][i] \in Live /\ save'[n][i] \in Live \cup {"ok", "failed"}
        /\ notify[n] = "layers" /\ i \in Stacks(Current(n)) /\ DigestOf(n, i) \in Digests
    BY <2>1, LiveLayer DEF SaveEffect
  <2>5. \A m \in Notifies, j \in Indices : m # n \/ j # i =>
          /\ existing'[m][j] = existing[m][j]
          /\ save'[m][j] = save[m][j] \/ (save[m][j] \in {"wait", "copy"} /\ save'[m][j] = "failed")
    BY <2>1 DEF SaveEffect
  <2>6. ASSUME NEW m \in Notifies PROVE Goroutines(m)'
    <3>1. \A j \in Indices : \/ save'[m][j] = save[m][j]
                             \/ /\ save[m][j] \in Live /\ save'[m][j] \in Live \cup {"ok", "failed"}
      BY <2>4, <2>5 DEF Live, Written
    <3>2. \A j \in Indices : save[m][j] \in Live => notify[m] = "layers" /\ j \in Stacks(Current(m))
      BY LiveLayer
    <3>3. \A j \in Stacks(Current(m)) : notify[m] \in {"layers", "enable"} => j \in Indices
      BY CurrentImage
    <3> QED
      BY <1>1, <2>2, <3>1, <3>2, <3>3 DEF Goroutines, Stacks, Live, Written
  <2>7. \A d \in Digests : filesystem[d] # "absent" => filesystem'[d] # "absent"
    BY <2>1, <2>4 DEF SaveEffect, TypeInv, Typed
  <2>8. ASSUME NEW m \in Notifies, NEW j \in Indices, HasRow(m, j)', m # n \/ j # i
        PROVE  HasRow(m, j) /\ filesystem'[DigestOf(m, j)] = "absent"
    <3>1. HasRow(m, j)
      BY <2>5, <2>8 DEF HasRow, Written
    <3>2. filesystem[DigestOf(m, j)] = "absent" /\ DigestOf(m, j) \in Digests
      BY <1>1, <3>1, LiveLayer DEF RowKnown, HasRow, Live
    <3>3. CASE UNCHANGED filesystem
      BY <3>1, <3>2, <3>3
    <3>4. CASE ~UNCHANGED filesystem
      <4>1. /\ save[n][i] \in Written
            /\ \E s : filesystem' = [filesystem EXCEPT ![DigestOf(n, i)] = s]
        BY <2>1, <3>4 DEF SaveEffect
      <4>2. DigestOf(n, i) # DigestOf(m, j)
        BY <1>1, <2>8, <3>1, <3>2, <4>1 DEF OneHolder, RowKnown, HasRow
      <4> QED
        BY <3>1, <3>2, <4>1, <4>2 DEF TypeInv, Typed
    <3> QED
      BY <3>3, <3>4
  <2>9. HasRow(n, i)' =>
          /\ HasRow(n, i) \/ (~RowHeld(DigestOf(n, i)) /\ filesystem[DigestOf(n, i)] = "absent")
          /\ UNCHANGED filesystem
    BY <2>1 DEF SaveEffect, HasRow
  <2>10. ASSUME NEW m \in Notifies, NEW j \in Indices PROVE RowKnown(m, j)'
    <3>1. HasRow(m, j)' => filesystem'[DigestOf(m, j)] = "absent"
      BY <1>1, <2>8, <2>9 DEF RowKnown
    <3>2. ASSUME save'[m][j] \in {"insert"} \cup Written, existing'[m][j]
          PROVE  filesystem'[DigestOf(m, j)] # "absent"
      <4>1. \/ save[m][j] \in {"insert"} \cup Written /\ existing[m][j]
            \/ m = n /\ j = i /\ filesystem[DigestOf(n, i)] # "absent"
        BY <2>1, <2>5, <3>2 DEF SaveEffect, Written
      <4>2. filesystem[DigestOf(m, j)] # "absent" /\ DigestOf(m, j) \in Digests
        BY <1>1, <2>4, <4>1, LiveLayer DEF RowKnown, Live
      <4> QED
        BY <2>7, <4>2
    <3> QED
      BY <2>3, <3>1, <3>2 DEF RowKnown
  <2>11. ASSUME NEW m \in Notifies, NEW j \in Indices, HasRow(m, j), HasRow(n, i)',
                DigestOf(m, j) = DigestOf(n, i)
         PROVE  m = n /\ j = i
    <3>1. RowHeld(DigestOf(n, i))
      BY <2>11 DEF RowHeld, HasRow, Written
    <3> QED
      BY <1>1, <2>9, <2>11, <3>1 DEF OneHolder
  <2>12. OneHolder'
    <3> SUFFICES ASSUME NEW m \in Notifies, NEW k \in Notifies, NEW j \in Indices, NEW l \in Indices,
                        HasRow(m, j)', HasRow(k, l)', DigestOf(m, j) = DigestOf(k, l)
                 PROVE  m = k /\ j = l
      BY <2>3 DEF OneHolder
    <3>1. (m # n \/ j # i) => HasRow(m, j)
      BY <2>8
    <3>2. (k # n \/ l # i) => HasRow(k, l)
      BY <2>8
    <3> QED
      BY <1>1, <2>11, <3>1, <3>2 DEF OneHolder
  <2> QED
    BY <2>6, <2>10, <2>12
<1>4. CASE UNCHANGED <<RowVars, image, tag>>
  BY <1>1, <1>4 DEF RowVars, Goroutines, RowKnown, OneHolder, HasRow, DigestOf, Current, Stacks
<1>5. CASE Crash
  <2>1. /\ \A m \in Notifies : notify'[m] \notin {"layers", "enable"}
        /\ \A m \in Notifies, j \in Indices : save'[m][j] \notin Live
    BY <1>5 DEF Crash, Ended, Live, Written
  <2> QED
    BY <2>1 DEF Goroutines, RowKnown, OneHolder, HasRow, Live
<1> QED
  BY <1>2, <1>3, <1>4, <1>5, OtherSteps

-----------------------------------------------------------------------------
(* The images.                                                             *)

\* The steps that write an image: the row of an absent image, or the ready time of the
\* current one.
ImageEffect(n) ==
  \/ /\ UNCHANGED image
     /\ notify'[n] \in {"layers", "enable"} =>
          notify[n] = "layers" /\ Current(n)' = Current(n) /\ save'[n] = save[n]
  \/ /\ image[Current(n)] = "absent" /\ image' = [image EXCEPT ![Current(n)] = "pending"]
     /\ notify[n] = "insert" /\ notify'[n] = "layers" /\ Current(n)' = Current(n)
     /\ \A i \in Indices : save'[n][i] # "ok"
  \/ /\ EnableImage(n) /\ image' = [image EXCEPT ![Current(n)] = "ready"]
     /\ notify[n] = "enable" /\ notify'[n] = "tag"

LEMMA ImageEffects ==
  ASSUME TypeInv, NEW n \in Notifies, NotifyStep(n) \/ NotifyFails(n)
  PROVE  ImageEffect(n)
<1> USE DEF worldVars, tables, notifyVars, reportVars, builderVars
<1>1. Typed
  BY DEF TypeInv
<1>2. ASSUME NEW s, Goto(n, s) PROVE notify'[n] = s
  BY <1>1, <1>2 DEF Goto, Typed
<1>3. CASE Fetch(n) \/ SetTag(n) \/ NotifyFails(n)
  <2>1. UNCHANGED image /\ \E s \in {"select", "ok", "failed"} : Goto(n, s)
    BY <1>3 DEF Fetch, SetTag, NotifyFails
  <2> QED
    BY <1>2, <2>1 DEF ImageEffect
<1>4. CASE SelectImage(n)
  <2>1. image[Current(n)] \in {"absent", "pending", "ready"}
    BY <1>1, <1>4, CurrentImage DEF SelectImage, Typed
  <2>2. UNCHANGED image /\ \E s \in {"insert", "failed", "tag"} : Goto(n, s)
    BY <1>4, <2>1 DEF SelectImage
  <2> QED
    BY <1>2, <2>2 DEF ImageEffect
<1>5. CASE WaitLayers(n)
  <2>1. UNCHANGED <<image, plan, at, save>> /\ notify[n] = "layers"
    BY <1>5 DEF WaitLayers
  <2> QED
    BY <2>1 DEF ImageEffect, Current
<1>6. CASE InsertImage(n)
  <2> DEFINE goroutines == [i \in Indices |-> IF i \in Stacks(Current(n)) THEN "lookup" ELSE "none"]
  <2>1. /\ UNCHANGED <<plan, at>> /\ notify[n] = "insert"
        /\ \/ /\ image[Current(n)] = "absent" /\ image' = [image EXCEPT ![Current(n)] = "pending"]
              /\ Goto(n, "layers") /\ save' = [save EXCEPT ![n] = goroutines]
           \/ UNCHANGED image /\ Goto(n, "failed")
    BY <1>6 DEF InsertImage
  <2>2. \A i \in Indices : goroutines[i] # "ok"
    OBVIOUS
  <2> HIDE DEF goroutines
  <2>3. save' = [save EXCEPT ![n] = goroutines] => \A i \in Indices : save'[n][i] # "ok"
    BY <1>1, <2>2 DEF Typed
  <2> QED
    BY <1>2, <2>1, <2>3 DEF ImageEffect, Current
<1>7. CASE EnableImage(n)
  <2>1. Goto(n, "tag") /\ notify[n] = "enable" /\ image' = [image EXCEPT ![Current(n)] = "ready"]
    BY <1>7 DEF EnableImage
  <2> QED
    BY <1>2, <1>7, <2>1 DEF ImageEffect
<1> QED
  BY <1>3, <1>4, <1>5, <1>6, <1>7 DEF NotifyStep

\* A ready image stays ready.
LEMMA ReadyKept ==
  ASSUME TypeInv, RowInv, [Next]_vars, NEW img \in Images, image[img] = "ready"
  PROVE  image'[img] = "ready"
<1>1. ASSUME NEW n \in Notifies, NotifyStep(n) \/ NotifyFails(n) PROVE image'[img] = "ready"
  BY <1>1, ImageEffects DEF ImageEffect, TypeInv, Typed
<1>2. ASSUME NEW n \in Notifies, NEW i \in Indices, SaveStep(n, i) \/ SaveFails(n, i)
      PROVE  UNCHANGED image
  BY <1>2, SaveEffects DEF SaveEffect
<1>3. CASE Crash
  BY <1>3 DEF Crash, tables
<1> QED
  BY <1>1, <1>2, <1>3, OtherSteps

LEMMA InsertedStep == TypeInv /\ RowInv /\ Inserted /\ [Next]_vars => Inserted'
<1> SUFFICES ASSUME TypeInv, RowInv, Inserted, [Next]_vars PROVE Inserted'
  OBVIOUS
<1>1. /\ \A n \in Notifies : notify[n] \in {"layers", "enable"} => image[Current(n)] = "pending"
      /\ OneExtractorPerImage
  BY DEF Inserted
<1>2. CASE \E n \in Notifies : NotifyStep(n) \/ NotifyFails(n)
  <2> PICK n \in Notifies : NotifyStep(n) \/ NotifyFails(n)
    BY <1>2
  <2>1. \A m \in Notifies : m # n => notify'[m] = notify[m] /\ Current(m)' = Current(m)
    BY NotifyEffects DEF NotifyEffect
  <2>2. ImageEffect(n)
    BY ImageEffects
  <2>3. \A m \in Notifies : notify[m] \in {"layers", "enable"} => Current(m) \in Images
    BY CurrentImage
  <2>4. CASE /\ UNCHANGED image
             /\ notify'[n] \in {"layers", "enable"} =>
                  notify[n] = "layers" /\ Current(n)' = Current(n) /\ save'[n] = save[n]
    BY <1>1, <2>1, <2>4 DEF Inserted, OneExtractorPerImage
  <2>5. CASE /\ image[Current(n)] = "absent" /\ image' = [image EXCEPT ![Current(n)] = "pending"]
             /\ notify[n] = "insert" /\ notify'[n] = "layers" /\ Current(n)' = Current(n)
             /\ \A i \in Indices : save'[n][i] # "ok"
     /\ \A i \in Indices : save'[n][i] # "ok"
    <3>1. \A m \in Notifies : m # n /\ notify[m] \in {"layers", "enable"} => Current(m) # Current(n)
      BY <1>1, <2>5
    <3>2. Current(n) \in Images
      BY <2>5, CurrentImage
    <3>3. image' = [image EXCEPT ![Current(n)] = "pending"] /\ image \in [Images -> {"absent", "pending", "ready"}]
      BY <2>5 DEF TypeInv, Typed
    <3>4. \A m \in Notifies : notify'[m] \in {"layers", "enable"} => image'[Current(m)'] = "pending"
      BY <1>1, <2>1, <2>3, <2>5, <3>2, <3>3
    <3>5. OneExtractorPerImage'
      BY <1>1, <2>1, <2>5, <3>1 DEF OneExtractorPerImage
    <3> QED
      BY <3>4, <3>5 DEF Inserted
  <2>6. CASE /\ EnableImage(n) /\ image' = [image EXCEPT ![Current(n)] = "ready"]
             /\ notify[n] = "enable" /\ notify'[n] = "tag"
    <3>1. \A m \in Notifies : m # n /\ notify[m] \in {"layers", "enable"} => Current(m) # Current(n)
      BY <1>1, <2>6 DEF OneExtractorPerImage
    <3>2. image \in [Images -> {"absent", "pending", "ready"}]
      BY DEF TypeInv, Typed
    <3>3. \A m \in Notifies : notify'[m] \in {"layers", "enable"} => image'[Current(m)'] = "pending"
      BY <1>1, <2>1, <2>3, <2>6, <3>1, <3>2
    <3>4. OneExtractorPerImage'
      BY <1>1, <2>1, <2>6 DEF OneExtractorPerImage
    <3> QED
      BY <3>3, <3>4 DEF Inserted
  <2> QED
    BY <2>2, <2>4, <2>5, <2>6 DEF ImageEffect
<1>3. CASE \E n \in Notifies, i \in Indices : SaveStep(n, i) \/ SaveFails(n, i)
  <2>1. UNCHANGED <<image, notify, plan, at>>
    BY <1>3, SaveEffects DEF SaveEffect
  <2> QED
    BY <1>1, <2>1 DEF Inserted, OneExtractorPerImage, Current
<1>4. CASE UNCHANGED <<RowVars, image, tag>>
  BY <1>1, <1>4 DEF RowVars, Inserted, OneExtractorPerImage, Current
<1>5. CASE Crash
  <2>1. \A m \in Notifies : notify'[m] \notin {"layers", "enable"}
    BY <1>5 DEF Crash, Ended
  <2> QED
    BY <2>1 DEF Inserted, OneExtractorPerImage
<1> QED
  BY <1>2, <1>3, <1>4, <1>5, OtherSteps

-----------------------------------------------------------------------------
(* The layers.                                                             *)

\* What a layer has stays: Download writes a bare filesystem only where there was none.
LEMMA ExtractedKept ==
  ASSUME TypeInv, RowInv, [Next]_vars, NEW img \in Images, NEW k \in Stacks(img), Extracted(img, k)
  PROVE  Extracted(img, k)'
<1>1. k \in Indices /\ ImageLayers[img][k] \in Digests
  BY DataAssumption, BoundsAssumption DEF Stacks, Indices
<1>2. ASSUME NEW n \in Notifies, NEW i \in Indices, SaveStep(n, i) \/ SaveFails(n, i)
      PROVE  Extracted(img, k)'
  <2>1. SaveEffect(n, i)
    BY <1>2, SaveEffects
  <2>2. /\ DigestOf(n, i) \in Digests /\ DigestOf(n, i) = ImageLayers[Current(n)][i]
        /\ Current(n) \in Images
    BY <2>1, LiveLayer DEF SaveEffect
  <2>3. filesystem'[ImageLayers[img][k]] = "full"
    <3>1. CASE UNCHANGED filesystem
      BY <3>1 DEF Extracted
    <3>2. ASSUME NEW s \in {"bare", "full"}, filesystem' = [filesystem EXCEPT ![DigestOf(n, i)] = s],
                 save[n][i] \in Written, s = "bare" => ~existing[n][i]
          PROVE  filesystem'[ImageLayers[img][k]] = "full"
      <4>1. s = "bare" => filesystem[DigestOf(n, i)] = "absent"
        BY <3>2 DEF RowInv, RowKnown, HasRow
      <4> QED
        BY <1>1, <3>2, <4>1 DEF Extracted, TypeInv, Typed
    <3> QED
      BY <2>1, <3>1, <3>2 DEF SaveEffect
  <2>4. layer'[img][k] = ImageLayers[img][k]
    <3>1. CASE UNCHANGED layer
      BY <3>1 DEF Extracted
    <3>2. CASE layer' = [layer EXCEPT ![Current(n)][i] = DigestOf(n, i)]
      <4>1. layer' = [layer EXCEPT ![Current(n)] = [layer[Current(n)] EXCEPT ![i] = DigestOf(n, i)]]
        BY <3>2
      <4> QED
        BY <1>1, <2>2, <4>1 DEF Extracted, TypeInv, Typed
    <3> QED
      BY <2>1, <3>1, <3>2 DEF SaveEffect
  <2> QED
    BY <2>3, <2>4 DEF Extracted
<1>3. ASSUME NEW n \in Notifies, NotifyStep(n) \/ NotifyFails(n) PROVE UNCHANGED <<layer, filesystem>>
  BY <1>3, NotifyEffects DEF NotifyEffect
<1>4. UNCHANGED <<RowVars, image, tag>> \/ Crash => UNCHANGED <<layer, filesystem>>
  BY DEF Crash, tables, RowVars
<1>5. UNCHANGED <<layer, filesystem>> => Extracted(img, k)'
  BY DEF Extracted
<1> QED
  BY <1>2, <1>3, <1>4, <1>5, OtherSteps

\* A saveLayer that succeeds leaves its layer extracted, unless the error of its commit
\* is dropped.
LEMMA SavedIsExtracted ==
  ASSUME TypeInv, RowInv, CommitsFail = FALSE, NEW n \in Notifies, NEW i \in Indices,
         SaveStep(n, i) \/ SaveFails(n, i), save'[n][i] = "ok"
  PROVE  Extracted(Current(n), i)'
<1>1. /\ layer' = [layer EXCEPT ![Current(n)][i] = DigestOf(n, i)]
      /\ filesystem' = [filesystem EXCEPT ![DigestOf(n, i)] = "full"]
      /\ save[n][i] \in Live /\ UNCHANGED <<plan, at>>
  BY SaveEffects DEF SaveEffect
<1>2. /\ DigestOf(n, i) \in Digests /\ DigestOf(n, i) = ImageLayers[Current(n)][i]
      /\ Current(n) \in Images
  BY <1>1, LiveLayer
<1>3. layer' = [layer EXCEPT ![Current(n)] = [layer[Current(n)] EXCEPT ![i] = DigestOf(n, i)]]
  BY <1>1
<1>4. Current(n)' = Current(n)
  BY <1>1 DEF Current
<1>5. layer'[Current(n)][i] = DigestOf(n, i) /\ filesystem'[DigestOf(n, i)] = "full"
  BY <1>1, <1>2, <1>3 DEF TypeInv, Typed
<1> QED
  BY <1>2, <1>4, <1>5 DEF Extracted

LEMMA ExtractedStep ==
  ASSUME CommitsFail = FALSE, TypeInv, RowInv, ExtractedInv, [Next]_vars
  PROVE  ExtractedInv'
<1>1. /\ \A n \in Notifies : SavedLayers(n)
      /\ \A img \in Images : image[img] = "ready" => \A k \in Stacks(img) : Extracted(img, k)
  BY DEF ExtractedInv, ReadyImageExtracted, Extracted
<1>2. TypeInv' /\ RowInv'
  BY TypeStep, RowStep
<1>3. SUFFICES /\ \A m \in Notifies : SavedLayers(m)'
               /\ \A img \in Images : image'[img] = "ready" => \A k \in Stacks(img) : Extracted(img, k)'
  BY DEF ExtractedInv, ReadyImageExtracted, Extracted, Stacks
<1>4. ASSUME NEW m \in Notifies, notify'[m] = notify[m], Current(m)' = Current(m), save'[m] = save[m]
      PROVE  SavedLayers(m)'
  <2> SUFFICES ASSUME notify[m] \in {"layers", "enable"}, NEW k \in Stacks(Current(m)), save[m][k] = "ok"
               PROVE  Extracted(Current(m), k)'
    BY <1>4 DEF SavedLayers, Stacks
  <2>1. Current(m) \in Images /\ Extracted(Current(m), k)
    BY <1>1, CurrentImage DEF SavedLayers
  <2>2. ASSUME NEW img \in Images, img = Current(m) PROVE Extracted(img, k)'
    BY <2>1, <2>2, ExtractedKept
  <2> QED
    BY <1>4, <2>1, <2>2 DEF Extracted
<1>5. ASSUME NEW img \in Images, image[img] = "ready" PROVE \A k \in Stacks(img) : Extracted(img, k)'
  BY <1>1, <1>5, ExtractedKept
<1>6. CASE \E n \in Notifies : NotifyStep(n) \/ NotifyFails(n)
  <2> PICK n \in Notifies : NotifyStep(n) \/ NotifyFails(n)
    BY <1>6
  <2>1. NotifyEffect(n) /\ ImageEffect(n)
    BY NotifyEffects, ImageEffects
  <2>2. \A m \in Notifies : m # n => SavedLayers(m)'
    BY <1>4, <2>1 DEF NotifyEffect
  <2>3. CASE /\ UNCHANGED image
             /\ notify'[n] \in {"layers", "enable"} =>
                  notify[n] = "layers" /\ Current(n)' = Current(n) /\ save'[n] = save[n]
    <3>1. notify'[n] = "layers" => SavedLayers(n)'
      BY <1>4, <2>3
    <3>2. ASSUME notify'[n] = "enable" PROVE SavedLayers(n)'
      <4> SUFFICES ASSUME NEW k \in Stacks(Current(n)), save[n][k] = "ok" PROVE Extracted(Current(n), k)'
        BY <2>3, <3>2 DEF SavedLayers, Stacks
      <4>1. Current(n) \in Images /\ Extracted(Current(n), k)
        BY <1>1, <2>3, <3>2, CurrentImage DEF SavedLayers
      <4>2. ASSUME NEW img \in Images, img = Current(n) PROVE Extracted(img, k)'
        BY <4>1, <4>2, ExtractedKept
      <4> QED
        BY <2>3, <3>2, <4>1, <4>2 DEF Extracted
    <3>3. SavedLayers(n)'
      BY <3>1, <3>2 DEF SavedLayers
    <3> QED
      BY <1>5, <2>2, <2>3, <3>3
  <2>4. CASE /\ image[Current(n)] = "absent" /\ image' = [image EXCEPT ![Current(n)] = "pending"]
             /\ notify[n] = "insert" /\ notify'[n] = "layers" /\ Current(n)' = Current(n)
             /\ \A i \in Indices : save'[n][i] # "ok"
    <3>1. Stacks(Current(n)) \subseteq Indices /\ Current(n) \in Images
      BY <2>4, CurrentImage
    <3>2. SavedLayers(n)'
      BY <2>4, <3>1 DEF SavedLayers, Stacks
    <3>3. \A img \in Images : image'[img] = "ready" => image[img] = "ready"
      BY <2>4, <3>1 DEF TypeInv, Typed
    <3> QED
      BY <1>5, <2>2, <3>2, <3>3
  <2>5. CASE /\ EnableImage(n) /\ image' = [image EXCEPT ![Current(n)] = "ready"]
             /\ notify[n] = "enable" /\ notify'[n] = "tag"
    <3>1. Current(n) \in Images /\ \A k \in Stacks(Current(n)) : save[n][k] = "ok"
      BY <2>5, CurrentImage DEF RowInv, Goroutines
    <3>2. \A k \in Stacks(Current(n)) : Extracted(Current(n), k)
      BY <1>1, <2>5, <3>1 DEF SavedLayers
    <3>3. ASSUME NEW img \in Images, img = Current(n) PROVE \A k \in Stacks(img) : Extracted(img, k)'
      BY <3>2, <3>3, ExtractedKept
    <3>4. SavedLayers(n)'
      BY <2>5 DEF SavedLayers
    <3>5. \A img \in Images : image'[img] = "ready" => image[img] = "ready" \/ img = Current(n)
      BY <2>5 DEF TypeInv, Typed
    <3> QED
      BY <1>5, <2>2, <3>3, <3>4, <3>5
  <2> QED
    BY <2>1, <2>3, <2>4, <2>5 DEF ImageEffect
<1>7. CASE \E n \in Notifies, i \in Indices : SaveStep(n, i) \/ SaveFails(n, i)
  <2> PICK n \in Notifies, i \in Indices : SaveStep(n, i) \/ SaveFails(n, i)
    BY <1>7
  <2>1. /\ UNCHANGED <<image, notify, plan, at>>
        /\ \A m \in Notifies, j \in Indices : m # n \/ j # i =>
             save'[m][j] = save[m][j] \/ save'[m][j] = "failed"
    BY SaveEffects DEF SaveEffect
  <2>2. ASSUME NEW m \in Notifies PROVE SavedLayers(m)'
    <3> SUFFICES ASSUME notify[m] \in {"layers", "enable"}, NEW k \in Stacks(Current(m)), save'[m][k] = "ok"
                 PROVE  Extracted(Current(m), k)'
      BY <2>1 DEF SavedLayers, Stacks, Current
    <3>1. Current(m) \in Images /\ k \in Indices /\ Current(m)' = Current(m)
      BY <2>1, CurrentImage DEF Current
    <3>2. CASE m = n /\ k = i
      BY <3>2, SavedIsExtracted
    <3>3. CASE m # n \/ k # i
      <4>1. Extracted(Current(m), k)
        BY <1>1, <2>1, <3>1, <3>3 DEF SavedLayers
      <4>2. ASSUME NEW img \in Images, img = Current(m) PROVE Extracted(img, k)'
        BY <4>1, <4>2, ExtractedKept
      <4> QED
        BY <3>1, <4>2 DEF Extracted
    <3> QED
      BY <3>2, <3>3
  <2> QED
    BY <1>5, <2>1, <2>2
<1>8. CASE UNCHANGED <<RowVars, image, tag>>
  <2>1. \A m \in Notifies : SavedLayers(m)'
    BY <1>4, <1>8 DEF RowVars, Current
  <2> QED
    BY <1>5, <1>8, <2>1
<1>9. CASE Crash
  <2>1. image' = image /\ \A m \in Notifies : SavedLayers(m)'
    BY <1>9 DEF Crash, tables, SavedLayers, Ended
  <2> QED
    BY <1>5, <2>1
<1> QED
  BY <1>6, <1>7, <1>8, <1>9, OtherSteps

-----------------------------------------------------------------------------
(* The answers and the tags.                                               *)

\* The steps that write a tag or answer a notify.
AnswerEffect(n) ==
  \/ /\ UNCHANGED tag /\ notify'[n] \notin {"idle", "ok"}
     /\ \/ notify[n] = "idle" /\ at'[n] = 1
        \/ notify[n] # "idle" /\ plan'[n] = plan[n] /\ at'[n] = at[n]
     /\ notify'[n] = "tag" => image'[Current(n)] = "ready" /\ Current(n)' = Current(n)
  \/ /\ SetTag(n)
     /\ UNCHANGED image /\ notify[n] = "tag" /\ plan'[n] = plan[n]
     /\ tag' = [tag EXCEPT ![TagOf[n]] = [tag[TagOf[n]] EXCEPT ![at[n]] = Current(n)]]
     /\ \/ at'[n] = at[n] + 1 /\ notify'[n] = "select"
        \/ at'[n] = at[n] /\ at[n] = Len(plan[n]) /\ notify'[n] = "ok"

LEMMA AnswerEffects ==
  ASSUME TypeInv, NEW n \in Notifies, NotifyStep(n) \/ NotifyFails(n)
  PROVE  AnswerEffect(n)
<1> USE DEF worldVars, tables, notifyVars, reportVars, builderVars
<1>1. Typed /\ Planned(n)
  BY DEF TypeInv
<1>2. ASSUME NEW s, Goto(n, s) PROVE notify'[n] = s
  BY <1>1, <1>2 DEF Goto, Typed
<1>3. CASE Fetch(n)
  <2>1. UNCHANGED <<tag, at>> /\ notify[n] = "idle" /\ Goto(n, "select")
    BY <1>3 DEF Fetch
  <2> QED
    BY <1>1, <1>2, <2>1 DEF AnswerEffect, Planned
<1>4. CASE SelectImage(n)
  <2>1. image[Current(n)] \in {"absent", "pending", "ready"}
    BY <1>1, <1>4, CurrentImage DEF SelectImage, Typed
  <2>2. /\ UNCHANGED <<tag, plan, at, image>> /\ notify[n] = "select"
        /\ \/ Goto(n, "insert") \/ Goto(n, "failed")
           \/ Goto(n, "tag") /\ image[Current(n)] = "ready"
    BY <1>4, <2>1 DEF SelectImage
  <2> QED
    BY <1>2, <2>2 DEF AnswerEffect, Current
<1>5. CASE InsertImage(n) \/ WaitLayers(n) \/ NotifyFails(n)
  <2>1. /\ UNCHANGED <<tag, plan, at>> /\ notify[n] # "idle"
        /\ \E s \in {"layers", "enable", "failed"} : Goto(n, s)
    BY <1>5 DEF InsertImage, WaitLayers, NotifyFails
  <2> QED
    BY <1>2, <2>1 DEF AnswerEffect
<1>6. CASE EnableImage(n)
  <2>1. /\ UNCHANGED <<tag, plan, at>> /\ notify[n] = "enable" /\ Goto(n, "tag")
        /\ image' = [image EXCEPT ![Current(n)] = "ready"]
    BY <1>6 DEF EnableImage
  <2>2. image'[Current(n)] = "ready"
    BY <1>1, <2>1, CurrentImage DEF Typed
  <2> QED
    BY <1>2, <2>1, <2>2 DEF AnswerEffect, Current
<1>7. CASE SetTag(n)
  <2>1. /\ UNCHANGED <<image, plan>> /\ notify[n] = "tag"
        /\ tag' = [tag EXCEPT ![TagOf[n]] = [tag[TagOf[n]] EXCEPT ![at[n]] = Current(n)]]
    BY <1>7 DEF SetTag
  <2>2. CASE at[n] < Len(plan[n]) /\ at' = [at EXCEPT ![n] = at[n] + 1] /\ Goto(n, "select")
    <3>1. at'[n] = at[n] + 1
      BY <1>1, <2>2 DEF Typed
    <3> QED
      BY <1>2, <1>7, <2>1, <2>2, <3>1 DEF AnswerEffect
  <2>3. CASE ~(at[n] < Len(plan[n])) /\ at' = at /\ Goto(n, "ok")
    <3>1. at[n] \in 1..Len(plan[n]) /\ Len(plan[n]) \in Nat
      BY <1>1, <2>1, DataAssumption DEF Planned
    <3>2. at[n] = Len(plan[n])
      BY <2>3, <3>1
    <3> QED
      BY <1>2, <1>7, <2>1, <2>3, <3>2 DEF AnswerEffect
  <2> QED
    BY <1>7, <2>2, <2>3 DEF SetTag
<1> QED
  BY <1>3, <1>4, <1>5, <1>6, <1>7 DEF NotifyStep

\* A tag that is set stays set.
LEMMA TagKept ==
  ASSUME TypeInv, RowInv, [Next]_vars, NEW t \in Tags, NEW p \in Platforms, tag[t][p] # None
  PROVE  tag'[t][p] # None
<1>1. ASSUME NEW n \in Notifies, NotifyStep(n) \/ NotifyFails(n) PROVE tag'[t][p] # None
  <2>1. CASE UNCHANGED tag
    BY <2>1
  <2>2. CASE /\ notify[n] = "tag"
             /\ tag' = [tag EXCEPT ![TagOf[n]] = [tag[TagOf[n]] EXCEPT ![at[n]] = Current(n)]]
    <3>1. Current(n) \in Images /\ None \notin Images
      BY <2>2, CurrentImage, DataAssumption
    <3> QED
      BY <2>2, <3>1 DEF TypeInv, Typed
  <2> QED
    BY <1>1, <2>1, <2>2, AnswerEffects DEF AnswerEffect
<1>2. ASSUME NEW n \in Notifies, NEW i \in Indices, SaveStep(n, i) \/ SaveFails(n, i)
      PROVE  UNCHANGED tag
  BY <1>2, SaveEffects DEF SaveEffect
<1>3. CASE Crash
  BY <1>3 DEF Crash, tables
<1> QED
  BY <1>1, <1>2, <1>3, OtherSteps

LEMMA AnswerStep ==
  ASSUME TypeInv, RowInv, AnswerInv, [Next]_vars
  PROVE  AnswerInv'
<1>1. /\ \A n \in Notifies : notify[n] # "idle" => \A k \in 1..(at[n] - 1) : Done(n, k)
      /\ \A n \in Notifies : notify[n] = "tag" => image[Current(n)] = "ready"
      /\ \A n \in Notifies : notify[n] = "ok" => \A k \in 1..Len(plan[n]) : Done(n, k)
      /\ \A t \in Tags, p \in Platforms : tag[t][p] # None => image[tag[t][p]] = "ready"
  BY DEF AnswerInv, OkMeansSaved, Done
<1>2. SUFFICES /\ \A n \in Notifies : (notify[n] # "idle" => \A k \in 1..(at[n] - 1) : Done(n, k))'
               /\ \A n \in Notifies : (notify[n] = "tag" => image[Current(n)] = "ready")'
               /\ \A n \in Notifies : (notify[n] = "ok" => \A k \in 1..Len(plan[n]) : Done(n, k))'
               /\ \A t \in Tags, p \in Platforms : (tag[t][p] # None => image[tag[t][p]] = "ready")'
  BY DEF AnswerInv, OkMeansSaved, Done
<1>3. \A n \in Notifies : TagOf[n] \in Tags
  BY DataAssumption
<1>4. ASSUME NEW n \in Notifies, notify[n] # "idle"
      PROVE  \A k \in 1..Len(plan[n]) : plan[n][k] \in Images /\ k \in Platforms
  <2>1. plan[n] \in Seq(Images) /\ Len(plan[n]) \in Platforms
    BY <1>4, DataAssumption DEF TypeInv, Planned
  <2> QED
    BY <2>1, BoundsAssumption DEF Platforms
<1>5. ASSUME NEW n \in Notifies, notify[n] # "idle"
      PROVE  at[n] \in 1..Len(plan[n]) /\ Len(plan[n]) \in Nat /\ at[n] \in Nat
  BY <1>5, DataAssumption DEF TypeInv, Planned
<1>6. ASSUME NEW n \in Notifies, notify[n] # "idle", NEW k \in 1..Len(plan[n]), Done(n, k),
             plan'[n] = plan[n]
      PROVE  Done(n, k)'
  BY <1>3, <1>4, <1>6, ReadyKept, TagKept DEF Done
<1>7. ASSUME NEW n \in Notifies, notify'[n] = notify[n], plan'[n] = plan[n], at'[n] = at[n]
      PROVE  /\ (notify[n] # "idle" => \A k \in 1..(at[n] - 1) : Done(n, k))'
             /\ (notify[n] = "tag" => image[Current(n)] = "ready")'
             /\ (notify[n] = "ok" => \A k \in 1..Len(plan[n]) : Done(n, k))'
  <2>1. (notify[n] # "idle" => \A k \in 1..(at[n] - 1) : Done(n, k))'
    BY <1>1, <1>5, <1>6, <1>7
  <2>2. (notify[n] = "tag" => image[Current(n)] = "ready")'
    <3> SUFFICES ASSUME notify[n] = "tag" PROVE image'[plan[n][at[n]]] = "ready"
      BY <1>7 DEF Current
    <3>1. Current(n) \in Images /\ image[Current(n)] = "ready"
      BY <1>1, CurrentImage
    <3>2. image'[Current(n)] = "ready"
      BY <3>1, ReadyKept
    <3> QED
      BY <3>2 DEF Current
  <2>3. (notify[n] = "ok" => \A k \in 1..Len(plan[n]) : Done(n, k))'
    BY <1>1, <1>5, <1>6, <1>7
  <2> QED
    BY <2>1, <2>2, <2>3
<1>8. ASSUME NEW t \in Tags, NEW p \in Platforms, tag'[t][p] = tag[t][p], tag[t][p] # None
      PROVE  image'[tag[t][p]] = "ready"
  <2>1. tag[t][p] \in Images
    BY <1>8 DEF TypeInv, Typed
  <2> QED
    BY <1>1, <1>8, <2>1, ReadyKept
<1>9. CASE \E n \in Notifies : NotifyStep(n) \/ NotifyFails(n)
  <2> PICK n \in Notifies : NotifyStep(n) \/ NotifyFails(n)
    BY <1>9
  <2>1. \A m \in Notifies : m # n => notify'[m] = notify[m] /\ plan'[m] = plan[m] /\ at'[m] = at[m]
    BY NotifyEffects DEF NotifyEffect
  <2>2. AnswerEffect(n)
    BY AnswerEffects
  <2>3. CASE /\ UNCHANGED tag /\ notify'[n] \notin {"idle", "ok"}
             /\ \/ notify[n] = "idle" /\ at'[n] = 1
                \/ notify[n] # "idle" /\ plan'[n] = plan[n] /\ at'[n] = at[n]
             /\ notify'[n] = "tag" => image'[Current(n)] = "ready" /\ Current(n)' = Current(n)
    <3>1. (notify[n] # "idle" => \A k \in 1..(at[n] - 1) : Done(n, k))'
      <4>1. CASE notify[n] = "idle" /\ at'[n] = 1
        BY <4>1
      <4>2. CASE notify[n] # "idle" /\ plan'[n] = plan[n] /\ at'[n] = at[n]
        BY <1>1, <1>5, <1>6, <4>2
      <4> QED
        BY <2>3, <4>1, <4>2
    <3>2. (notify[n] = "tag" => image[Current(n)] = "ready")'
      BY <2>3
    <3>3. (notify[n] = "ok" => \A k \in 1..Len(plan[n]) : Done(n, k))'
      BY <2>3
    <3> QED
      BY <1>7, <1>8, <2>1, <2>3, <3>1, <3>2, <3>3
  <2>4. CASE /\ UNCHANGED image /\ notify[n] = "tag" /\ plan'[n] = plan[n]
             /\ tag' = [tag EXCEPT ![TagOf[n]] = [tag[TagOf[n]] EXCEPT ![at[n]] = Current(n)]]
             /\ \/ at'[n] = at[n] + 1 /\ notify'[n] = "select"
                \/ at'[n] = at[n] /\ at[n] = Len(plan[n]) /\ notify'[n] = "ok"
    <3>1. Current(n) \in Images /\ image[Current(n)] = "ready" /\ None \notin Images
      BY <1>1, <2>4, CurrentImage, DataAssumption
    <3>2. at[n] \in 1..Len(plan[n]) /\ Len(plan[n]) \in Nat /\ at[n] \in Nat /\ at[n] \in Platforms
      BY <1>4, <1>5, <2>4
    <3>3. \A t \in Tags, p \in Platforms :
            tag'[t][p] = IF t = TagOf[n] /\ p = at[n] THEN Current(n) ELSE tag[t][p]
      BY <2>4 DEF TypeInv, Typed
    <3>4. ASSUME NEW k \in Nat, k = at[n] PROVE Done(n, k)'
      <4>1. image'[plan[n][k]] = "ready" /\ tag'[TagOf[n]][k] # None
        BY <1>3, <2>4, <3>1, <3>2, <3>3, <3>4 DEF Current
      <4> QED
        BY <2>4, <4>1 DEF Done
    <3>5. \A k \in 1..at[n] : Done(n, k)'
      <4> TAKE k \in 1..at[n]
      <4>1. CASE k = at[n]
        BY <3>2, <3>4, <4>1
      <4>2. CASE k # at[n]
        <5>1. k \in 1..(at[n] - 1) /\ k \in 1..Len(plan[n])
          BY <3>2, <4>2
        <5> QED
          BY <1>1, <1>6, <2>4, <5>1
      <4> QED
        BY <4>1, <4>2
    <3>6. (notify[n] # "idle" => \A k \in 1..(at[n] - 1) : Done(n, k))'
      BY <2>4, <3>2, <3>5
    <3>7. (notify[n] = "ok" => \A k \in 1..Len(plan[n]) : Done(n, k))'
      BY <2>4, <3>2, <3>5
    <3>8. (notify[n] = "tag" => image[Current(n)] = "ready")'
      BY <2>4
    <3>9. \A t \in Tags, p \in Platforms : (tag[t][p] # None => image[tag[t][p]] = "ready")'
      BY <1>1, <2>4, <3>1, <3>3
    <3> QED
      BY <1>7, <2>1, <3>6, <3>7, <3>8, <3>9
  <2> QED
    BY <2>2, <2>3, <2>4 DEF AnswerEffect
<1>10. ASSUME UNCHANGED <<tag, plan, at>>, \A n \in Notifies : notify'[n] \in {notify[n], "dead"},
              \A n \in Notifies : notify[n] = "idle" => notify'[n] = "idle"
       PROVE  /\ \A n \in Notifies : (notify[n] # "idle" => \A k \in 1..(at[n] - 1) : Done(n, k))'
              /\ \A n \in Notifies : (notify[n] = "tag" => image[Current(n)] = "ready")'
              /\ \A n \in Notifies : (notify[n] = "ok" => \A k \in 1..Len(plan[n]) : Done(n, k))'
              /\ \A t \in Tags, p \in Platforms : (tag[t][p] # None => image[tag[t][p]] = "ready")'
  <2>1. \A n \in Notifies : notify'[n] # notify[n] =>
          /\ (notify[n] # "idle" => \A k \in 1..(at[n] - 1) : Done(n, k))'
          /\ (notify[n] = "tag" => image[Current(n)] = "ready")'
          /\ (notify[n] = "ok" => \A k \in 1..Len(plan[n]) : Done(n, k))'
    BY <1>1, <1>5, <1>6, <1>10
  <2> QED
    BY <1>7, <1>8, <1>10, <2>1
<1>11. ASSUME NEW n \in Notifies, NEW i \in Indices, SaveStep(n, i) \/ SaveFails(n, i)
       PROVE  UNCHANGED <<tag, plan, at, notify>>
  BY <1>11, SaveEffects DEF SaveEffect
<1>12. CASE Crash
  <2>1. /\ UNCHANGED <<tag, plan, at>>
        /\ \A n \in Notifies : notify'[n] \in {notify[n], "dead"}
        /\ \A n \in Notifies : notify[n] = "idle" => notify'[n] = "idle"
    BY <1>12 DEF Crash, tables
  <2> QED
    BY <1>10, <2>1
<1> QED
  BY <1>9, <1>10, <1>11, <1>12, OtherSteps DEF RowVars

-----------------------------------------------------------------------------
(* The delta requests.                                                     *)

LEMMA BuilderStepKeeps ==
  ASSUME TypeInv, RowInv, ExtractedInv, AnswerInv, BuilderInv, [Next]_vars
  PROVE  BuilderInv'
<1> USE DEF worldVars, tables, notifyVars, reportVars, builderVars
<1>1. Typed /\ None \notin Images
  BY DataAssumption DEF TypeInv
<1>2. ASSUME NEW b \in Builders,
             (builder'[b] = builder[b] /\ serial'[b] = serial[b] /\ got'[b] = got[b])
               \/ builder'[b] \notin {"layers", "files", "ok"}
      PROVE  /\ (builder[b] \in {"layers", "files"} => serial[b] \in Images /\ image[serial[b]] = "ready")'
             /\ (builder[b] \in {"files", "ok"} => got[b])'
  BY <1>2, ReadyKept DEF BuilderInv
<1>3. ASSUME NEW img \in Images, image[img] = "ready"
      PROVE  \A i \in Stacks(img) : Extracted(img, i)
  BY <1>3 DEF ExtractedInv, ReadyImageExtracted, Extracted
<1>4. ASSUME NEW b \in Builders, BuilderStep(b)
      PROVE  BuilderInv'
  <2>1. /\ UNCHANGED <<image, layer, filesystem>>
        /\ \A c \in Builders : c # b => builder'[c] = builder[c] /\ serial'[c] = serial[c] /\ got'[c] = got[c]
    BY <1>1, <1>4 DEF BuilderStep, Resolve, ReadLayers, ReadFiles, Build, Typed
  <2>2. CASE Resolve(b)
    <3>1. PICK img \in Images : /\ Tagged(img) \/ ByDigest(img)
                              /\ serial' = [serial EXCEPT ![b] = img]
      BY <2>2 DEF Resolve
    <3>2. image[img] = "ready"
      BY <1>1, <3>1 DEF AnswerInv, Tagged, ByDigest
    <3>3. builder'[b] = "layers" /\ serial'[b] = img
      BY <1>1, <2>2, <3>1 DEF Resolve, Build, Typed
    <3> QED
      BY <1>2, <2>1, <3>2, <3>3 DEF BuilderInv
  <2>3. CASE ReadLayers(b)
    <3> DEFINE whole == \A i \in Stacks(serial[b]) : layer[serial[b]][i] = ImageLayers[serial[b]][i]
    <3>1. serial[b] \in Images /\ image[serial[b]] = "ready"
      BY <2>3 DEF BuilderInv, ReadLayers
    <3>2. whole
      BY <1>3, <3>1 DEF Extracted
    <3>3. got' = [got EXCEPT ![b] = whole] /\ builder' = [builder EXCEPT ![b] = "files"] /\ serial' = serial
      BY <2>3 DEF ReadLayers, Build
    <3> HIDE DEF whole
    <3>4. builder'[b] = "files" /\ got'[b]
      BY <1>1, <3>2, <3>3 DEF Typed
    <3> QED
      BY <1>2, <2>1, <3>1, <3>3, <3>4 DEF BuilderInv
  <2>4. CASE ReadFiles(b)
    <3> DEFINE whole == got[b] /\ \A i \in Stacks(serial[b]) :
                  layer[serial[b]][i] # None => filesystem[layer[serial[b]][i]] = "full"
    <3>1. serial[b] \in Images /\ image[serial[b]] = "ready" /\ got[b]
      BY <2>4 DEF BuilderInv, ReadFiles
    <3>2. whole
      BY <1>3, <3>1 DEF Extracted
    <3>3. got' = [got EXCEPT ![b] = whole] /\ builder' = [builder EXCEPT ![b] = "ok"]
      BY <2>4 DEF ReadFiles, Build
    <3> HIDE DEF whole
    <3>4. builder'[b] = "ok" /\ got'[b]
      BY <1>1, <3>2, <3>3 DEF Typed
    <3> QED
      BY <1>2, <2>1, <3>4 DEF BuilderInv
  <2> QED
    BY <1>4, <2>2, <2>3, <2>4 DEF BuilderStep
<1>5. CASE UNCHANGED <<builder, serial, got>>
  BY <1>2, <1>5 DEF BuilderInv
<1>6. CASE Crash
  <2>1. /\ UNCHANGED <<serial, got>>
        /\ \A b \in Builders : builder'[b] = builder[b] \/ builder'[b] = "dead"
    BY <1>6 DEF Crash
  <2> QED
    BY <1>2, <2>1 DEF BuilderInv
<1>7. ASSUME NEW n \in Notifies, NotifyStep(n) \/ NotifyFails(n) PROVE UNCHANGED <<builder, serial, got>>
  BY <1>7 DEF NotifyStep, Fetch, SelectImage, InsertImage, WaitLayers, EnableImage, SetTag, NotifyFails
<1>8. ASSUME NEW n \in Notifies, NEW i \in Indices, SaveStep(n, i) \/ SaveFails(n, i)
      PROVE  UNCHANGED <<builder, serial, got>>
  BY <1>8, SaveEffects DEF SaveEffect
<1>9. ASSUME NEW r \in Reports, ReportStep(r) PROVE UNCHANGED <<builder, serial, got>>
  BY <1>9 DEF ReportStep, MapLayers, RankLayer, ReportEnds
<1>10. Push \/ UNCHANGED vars => UNCHANGED <<builder, serial, got>>
  BY DEF Push, vars
<1>11. \/ \E b \in Builders : BuilderStep(b)
       \/ UNCHANGED <<builder, serial, got>>
       \/ Crash
  BY <1>7, <1>8, <1>9, <1>10 DEF Next
<1> QED
  BY <1>4, <1>5, <1>6, <1>11

-----------------------------------------------------------------------------
(* The theorems.                                                           *)

LEMMA TypesAlways == Spec => [](TypeInv /\ RowInv /\ Inserted /\ AnswerInv)
<1>1. Init => Inserted
  BY DEF Init, Inserted, OneExtractorPerImage
<1>2. Init => AnswerInv
  BY DEF Init, AnswerInv, OkMeansSaved
<1> QED
  BY <1>1, <1>2, TypeInit, RowInit, TypeStep, RowStep, InsertedStep, AnswerStep, PTL DEF Spec

LEMMA LayersAlways == CommitsFail = FALSE => (Spec => [](ExtractedInv /\ BuilderInv))
<1> SUFFICES ASSUME CommitsFail = FALSE PROVE Spec => [](ExtractedInv /\ BuilderInv)
  OBVIOUS
<1>1. Init => ExtractedInv
  BY DEF Init, ExtractedInv, SavedLayers, ReadyImageExtracted
<1>2. Init => BuilderInv
  BY DEF Init, BuilderInv
<1>3. TypeInv /\ RowInv /\ ExtractedInv /\ [Next]_vars => ExtractedInv'
  BY ExtractedStep
<1>4. TypeInv /\ RowInv /\ AnswerInv /\ ExtractedInv /\ BuilderInv /\ [Next]_vars => BuilderInv'
  BY BuilderStepKeeps
<1> QED
  BY <1>1, <1>2, <1>3, <1>4, TypesAlways, PTL DEF Spec

\* InsertImage lets one notify alone extract an image, whatever fails: the unique key
\* of the image table turns away the others.
THEOREM OneExtractor == Spec => []OneExtractorPerImage
<1>1. Inserted => OneExtractorPerImage
  BY DEF Inserted
<1> QED
  BY <1>1, TypesAlways, PTL

\* A notify is answered OK (SaveToC) only when every image of its index is ready and
\* its tag set, whatever fails.
THEOREM OkIsSaved == Spec => []OkMeansSaved
<1>1. AnswerInv => OkMeansSaved
  BY DEF AnswerInv
<1> QED
  BY <1>1, TypesAlways, PTL

\* While no commit fails (its error is the one that saveLayer drops), a ready image has
\* all its layers with their files, even if notifies share layers or the proxy dies.
THEOREM ReadyIsExtracted == CommitsFail = FALSE => (Spec => []ReadyImageExtracted)
<1>1. ExtractedInv => ReadyImageExtracted
  BY DEF ExtractedInv
<1> QED
  BY <1>1, LayersAlways, PTL

\* Under the same assumption the queries of a delta request (NewBuilder, computeDelta)
\* together read a whole image, although each sees the tables at another time.
THEOREM ServedIsComplete == CommitsFail = FALSE => (Spec => []ServedImageComplete)
<1>1. BuilderInv => ServedImageComplete
  BY DEF BuilderInv, ServedImageComplete
<1> QED
  BY <1>1, LayersAlways, PTL
=============================================================================
