------------------------- MODULE SnapshotterProofs -------------------------
(***************************************************************************)
(* Proofs about Snapshotter, for any images, layers, pulls and containers.    *)
(***************************************************************************)
EXTENDS Snapshotter, SequenceTheorems, TLAPS

-----------------------------------------------------------------------------
(* The inductive invariants.                                               *)

Steps == {"idle", "claim", "stat", "prepare", "mkdir", "load", "bind", "mounts", "manager",
          "commit", "check", "running", "done", "failed"}
\* A pull between Claim and the last Stat is at one of its layers.
AtLayer == {"stat", "prepare", "mkdir", "load", "bind", "mounts", "manager", "commit", "check"}
InMounts == {"mounts", "manager"}

Typed ==
  /\ sn \in [Ids -> Snapshots \cup {None}]
  /\ lastId \in 0..MaxId
  /\ handed \subseteq Ids
  /\ pc \in [Callers -> Steps]
  /\ at \in [Callers -> Nat \ {0}]
  /\ pos \in [Callers -> Nat]
  /\ id = [c \in Callers |-> id[c]]
  /\ \A c \in Callers : pc[c] \in {"commit", "running"} \cup InMounts => id[c] \in Ids
  /\ \A c \in Pulls : pc[c] \in AtLayer => at[c] <= Depth(ImageOf[c])
  /\ \A c \in Callers : pc[c] \in {"claim", "stat", "commit", "check"} => c \in Pulls

\* The holder of the write transaction prepares a snapshot whose number is new, has its
\* parent, and has made the directories: only the holder changes the metastore.  Mounts,
\* which reads only, is about a snapshot that is there.
Preparing(c) ==
  /\ pc[c] \in {"mkdir", "load", "bind"} => txn = c
  /\ txn = c =>
       /\ pc[c] \in {"mkdir", "load", "bind"} \cup InMounts
       /\ id[c] = lastId + 1 /\ id[c] \in Ids
       /\ Goal(c) = 1 \/ ParentOf(c) # {}
       /\ pc[c] = "mkdir" \/ (id[c] \in dirs /\ id[c] \in slfs)
       /\ pc[c] \in {"load", "bind"} => Goal(c) = 1
  /\ pc[c] \in InMounts /\ txn # c => c \in Containers /\ sn[id[c]] # None

TxnInv == \A c \in Callers : Preparing(c)

\* A snapshot was numbered, and the parents of a snapshot are there.
Present(i) == sn[i] # None =>
  i <= lastId /\ \A n \in 1..Len(sn[i].stack) : sn[sn[i].stack[n]] # None

\* What Remove deletes files of is no longer in the metastore.
RemovingGone == removing # None =>
  /\ removing.id \in Ids /\ removing.id <= lastId /\ sn[removing.id] = None
  /\ removing.layer \in Layers \cup {None}

HasDirs(i) == sn[i] # None => i \in dirs /\ i \in slfs

TreeInv == RemovingGone /\ \A i \in Ids : Present(i) /\ HasDirs(i)

\* A pull that mounts its lowest layer is about to commit snapshot i of layer l.
Bottom(c, i, l) ==
  /\ txn = c /\ pc[c] = "mounts" /\ Goal(c) = 1
  /\ id[c] = i /\ LayersOf[ImageOf[c]][1] = l

\* Snapshot i, which gave the file system of layer l its directory, was removed, or is
\* of that layer and registered with it.
Registered(i, l) == Key(i, "active") \in regs[l] \/ Key(i, "committed") \in regs[l]
Owner(i, l) ==
  /\ i \in Ids
  /\ IF i <= lastId
     THEN sn[i] = None \/ (sn[i].layer = l /\ Registered(i, l))
     ELSE Registered(i, l) /\ \E c \in Callers : Bottom(c, i, l)

\* A file server is the file system of its layer, and no two have the same directory.
\* Remove knows that the directories it is about to delete are those of a layer.
FsInv ==
  /\ fs \in [Layers -> Ids \cup {None}]
  /\ regs = [l \in Layers |-> regs[l]]
  /\ servers \subseteq {p \in Layers \X Ids : fs[p[1]] = p[2]}
  /\ \A p \in servers : p[2] \in slfs
  /\ \A l \in Layers, i \in Ids : fs[l] = i => Owner(i, l)
  /\ \A l, m \in Layers : fs[l] = fs[m] /\ fs[l] # None => l = m
  /\ \A l \in Layers : removing # None /\ fs[l] = removing.id => removing.layer # None

\* The layers mounts has come by are registered.
Reg(q) == sn[q].layer # None => Key(q, "committed") \in regs[sn[q].layer]
Mounting(c) ==
  IF pc[c] \in InMounts
  THEN \A n \in 1..pos[c] : n <= Len(Stack(c)) /\ Reg(Stack(c)[n])
  ELSE pos[c] = 0

InUse(i) == sn[i] # None /\ \A n \in 1..Len(sn[i].stack) :
  sn[sn[i].stack[n]] # None /\ Reg(sn[i].stack[n])

RegsInv == (\A c \in Callers : Mounting(c)) /\ (\A i \in handed : InUse(i))

-----------------------------------------------------------------------------
(* Lemmas on the operators.                                                *)

LEMMA GotoPc ==
  ASSUME NEW c \in Callers, NEW s, Typed, Goto(c, s)
  PROVE  \A d \in Callers : pc'[d] = IF d = c THEN s ELSE pc[d]
BY DEF Goto, Typed

\* The parent of a prepared snapshot is in the metastore, and so are its parents.
LEMMA ParentStackPresent ==
  ASSUME NEW c \in Callers, ParentOf(c) # {}, Typed, \A i \in Ids : Present(i)
  PROVE  /\ ParentStack(c) \in Seq(Ids)
         /\ \A n \in 1..Len(ParentStack(c)) : sn[ParentStack(c)[n]] # None
<1> DEFINE p == CHOOSE i \in ParentOf(c) : TRUE
<1>1. p \in ParentOf(c) /\ ParentStack(c) = Append(sn[p].stack, p)
  BY DEF ParentStack
<1>2. p \in Ids /\ sn[p] # None
  BY <1>1 DEF ParentOf, Named
<1>3. sn[p] \in Snapshots /\ sn[p].stack \in Seq(Ids)
  BY <1>2 DEF Typed, Snapshots
<1>4. \A n \in 1..Len(sn[p].stack) : sn[sn[p].stack[n]] # None
  BY <1>2 DEF Present
<1> HIDE DEF p
<1> QED
  BY <1>1, <1>2, <1>3, <1>4

\* So the stack that mounts goes through is in the metastore.
LEMMA StackPresent ==
  ASSUME NEW c \in Callers, pc[c] \in InMounts, Typed, TxnInv, TreeInv
  PROVE  /\ Stack(c) \in Seq(Ids)
         /\ \A n \in 1..Len(Stack(c)) : Stack(c)[n] \in Ids /\ sn[Stack(c)[n]] # None
<1>1. /\ \A i \in Ids : Present(i)
      /\ txn = c => Goal(c) = 1 \/ ParentOf(c) # {}
      /\ txn # c => sn[id[c]] # None
      /\ id[c] \in Ids
  BY DEF TxnInv, TreeInv, Preparing, Typed
<1>2. CASE txn # c
  <2>1. sn[id[c]] \in Snapshots
    BY <1>1, <1>2 DEF Typed
  <2>2. Stack(c) = sn[id[c]].stack /\ Stack(c) \in Seq(Ids)
    BY <1>2, <2>1 DEF Stack, Snapshots
  <2>3. \A n \in 1..Len(Stack(c)) : sn[Stack(c)[n]] # None
    BY <1>1, <1>2, <2>2 DEF Present
  <2> QED
    BY <2>2, <2>3
<1>3. CASE txn = c /\ Goal(c) = 1
  <2>1. Stack(c) = <<>>
    BY <1>3 DEF Stack
  <2> QED
    BY <2>1
<1>4. CASE txn = c /\ Goal(c) # 1
  <2>1. Stack(c) = ParentStack(c)
    BY <1>4 DEF Stack
  <2> QED
    BY <1>1, <1>4, <2>1, ParentStackPresent
<1> QED
  BY <1>2, <1>3, <1>4

\* The chain ID of layers of an image names a sequence of layers.
LEMMA ChainType ==
  ASSUME NEW img \in Images, NEW k \in Nat, k <= Depth(img)
  PROVE  Chain(img, k) \in Seq(Layers)
<1>1. LayersOf[img] \in Seq(Layers) /\ Depth(img) = Len(LayersOf[img])
  BY ImagesAssumption DEF Depth
<1>2. \A n \in 1..k : LayersOf[img][n] \in Layers
  BY <1>1
<1> QED
  BY <1>2, SubSeqProperties DEF Chain

\* What a caller prepares is a snapshot.
LEMMA NewSnapshotType ==
  ASSUME NEW c \in Callers, Typed, pc[c] = "mounts", Stack(c) \in Seq(Ids)
  PROVE  NewSnapshot(c) \in Snapshots
<1> DEFINE img == ImageOf[c]
<1>1. img \in Images /\ LayersOf[img] \in Seq(Layers) /\ Depth(img) \in Nat /\ Depth(img) = Len(LayersOf[img])
  BY ImagesAssumption DEF Depth
<1>2. Goal(c) - 1 \in Nat /\ Goal(c) - 1 <= Depth(img)
  BY <1>1 DEF Goal, Typed, AtLayer
<1>3. Chain(img, Goal(c) - 1) \in Seq(Layers)
  BY <1>1, <1>2, ChainType
<1>4. c \in Pulls => LayersOf[img][at[c]] \in Layers
  BY <1>1 DEF Typed, AtLayer
<1> QED
  BY <1>1, <1>3, <1>4 DEF NewSnapshot, Snapshots

\* So is what it commits.
Committed(c) ==
  [sn[id[c]] EXCEPT !.kind = "committed", !.chain = Chain(ImageOf[c], at[c])]

LEMMA CommittedType ==
  ASSUME NEW c \in Callers, Typed, pc[c] = "commit", sn[id[c]] # None
  PROVE  /\ Committed(c) \in Snapshots
         /\ Committed(c).stack = sn[id[c]].stack /\ Committed(c).layer = sn[id[c]].layer
<1>1. ImageOf[c] \in Images /\ at[c] \in Nat /\ at[c] <= Depth(ImageOf[c]) /\ id[c] \in Ids
  BY ImagesAssumption DEF Typed, AtLayer
<1>2. Chain(ImageOf[c], at[c]) \in Seq(Layers)
  BY <1>1, ChainType
<1>3. sn[id[c]] \in Snapshots
  BY <1>1 DEF Typed
<1> QED
  BY <1>2, <1>3 DEF Committed, Snapshots

-----------------------------------------------------------------------------
(* Types and the write transaction.                                        *)

\* Where a caller goes, and what it needs there.
LEMMA TypedMove ==
  ASSUME Typed, NEW c \in Callers, NEW s \in Steps, Goto(c, s),
         sn' \in [Ids -> Snapshots \cup {None}], lastId' \in 0..MaxId, handed' \subseteq Ids,
         at' \in [Callers -> Nat \ {0}], pos' \in [Callers -> Nat],
         id' = [d \in Callers |-> id'[d]],
         \A d \in Callers : d # c => at'[d] = at[d] /\ id'[d] = id[d],
         s \in {"commit", "running"} \cup InMounts => id'[c] \in Ids,
         s \in AtLayer /\ c \in Pulls => at'[c] <= Depth(ImageOf[c]),
         s \in {"claim", "stat", "commit", "check"} => c \in Pulls
  PROVE  Typed'
<1>1. pc' = [pc EXCEPT ![c] = s] /\ \A d \in Callers : pc'[d] = IF d = c THEN s ELSE pc[d]
  BY DEF Goto, Typed
<1>2. Pulls \subseteq Callers
  BY DEF Callers
<1>3. pc' \in [Callers -> Steps]
  BY <1>1 DEF Typed
<1> QED
  BY <1>1, <1>2, <1>3 DEF Typed, InMounts, AtLayer

\* The others keep what they have while caller c moves: it only takes the free
\* transaction or gives up its own.
LEMMA OthersPrepare ==
  ASSUME TxnInv, NEW c \in Callers,
         \A d \in Callers : d # c => pc'[d] = pc[d] /\ id'[d] = id[d] /\ at'[d] = at[d],
         UNCHANGED txn \/ (txn \in {c, None} /\ txn' \notin Callers \ {c}),
         UNCHANGED <<sn, lastId>> \/ txn \in {c, None},
         \A d \in Callers : sn[id[d]] # None => sn'[id[d]] # None,
         dirs \subseteq dirs', slfs \subseteq slfs'
  PROVE  \A d \in Callers : d # c => Preparing(d)'
<1> SUFFICES ASSUME NEW d \in Callers, d # c PROVE Preparing(d)'
  OBVIOUS
<1>1. None \notin Callers
  BY BoundsAssumption DEF Callers
<1>2. CASE txn = d
  <2>1. UNCHANGED <<txn, sn, lastId>>
    BY <1>1, <1>2
  <2> QED
    BY <1>2, <2>1 DEF TxnInv, Preparing, Goal, ParentOf, Named, Chain
<1>3. CASE txn # d
  <2>1. txn' # d
    BY <1>3
  <2> QED
    BY <1>3, <2>1 DEF TxnInv, Preparing
<1> QED
  BY <1>2, <1>3

\* Without the transaction, a caller outside mounts has nothing to keep.
LEMMA PreparingFree ==
  ASSUME NEW d \in Callers, pc'[d] \notin {"mkdir", "load", "bind"} \cup InMounts, txn' # d
  PROVE  Preparing(d)'
BY DEF Preparing

\* A caller that goes on with the transaction.
LEMMA PreparingOn ==
  ASSUME NEW c \in Callers, Preparing(c), UNCHANGED <<sn, lastId, txn>>,
         id'[c] = id[c], at'[c] = at[c], dirs \subseteq dirs', slfs \subseteq slfs',
         pc[c] \in {"load", "bind"} \cup InMounts,
         (pc'[c] = "bind" /\ pc[c] = "load") \/ pc'[c] \in InMounts
  PROVE  Preparing(c)'
BY DEF Preparing, Goal, ParentOf, Named, Chain, InMounts

LEMMA TypedInit == Init => Typed /\ TxnInv
<1> SUFFICES ASSUME Init PROVE Typed /\ TxnInv
  OBVIOUS
<1>1. id = [c \in Callers |-> None] /\ \A c \in Callers : pc[c] = "idle"
  BY DEF Init
<1>2. id = [c \in Callers |-> id[c]]
  BY <1>1
<1>3. lastId \in 0..MaxId /\ sn \in [Ids -> Snapshots \cup {None}] /\ handed \subseteq Ids
  BY BoundsAssumption DEF Init
<1>4. at \in [Callers -> Nat \ {0}] /\ pos \in [Callers -> Nat]
  BY DEF Init
<1>5. Pulls \subseteq Callers /\ None \notin Callers
  BY BoundsAssumption DEF Callers
<1>6. pc \in [Callers -> Steps]
  BY DEF Init, Steps
<1>7. Typed
  BY <1>1, <1>2, <1>3, <1>4, <1>5, <1>6 DEF Typed, AtLayer, InMounts
<1> QED
  BY <1>1, <1>5, <1>7 DEF TxnInv, Preparing, InMounts, Init

\* The steps of a caller that leave the metastore and the transaction to the others.
LEMMA FreeSteps ==
  ASSUME Typed, TxnInv, NEW c \in Callers,
         Start(c) \/ Claim(c) \/ Stat(c) \/ Check(c) \/ Finish(c)
  PROVE  Typed' /\ TxnInv'
<1> USE DEF disk, maps, mountVars, callerVars
<1>1. /\ UNCHANGED <<sn, lastId, dirs, slfs, handed, txn, id, pos>>
      /\ pc[c] \notin {"mkdir", "load", "bind"} \cup InMounts
  BY DEF Start, Claim, Stat, Check, Finish, InMounts
<1>2. \E s \in {"claim", "stat", "prepare", "failed", "done"} :
        /\ Goto(c, s) /\ (s \in {"claim", "stat"} => c \in Pulls)
        /\ s \in AtLayer /\ c \in Pulls => at'[c] <= Depth(ImageOf[c])
  BY DEF Start, Claim, Stat, Check, Finish, Typed, AtLayer
<1>3. at' \in [Callers -> Nat \ {0}] /\ \A d \in Callers : d # c => at'[d] = at[d]
  <2>1. UNCHANGED at \/ at' = [at EXCEPT ![c] = @ + 1]
    BY DEF Start, Claim, Stat, Check, Finish
  <2> QED
    BY <2>1 DEF Typed
<1>4. PICK s \in {"claim", "stat", "prepare", "failed", "done"} :
        /\ Goto(c, s) /\ (s \in {"claim", "stat"} => c \in Pulls)
        /\ s \in AtLayer /\ c \in Pulls => at'[c] <= Depth(ImageOf[c])
  BY <1>2
<1>5. \A d \in Callers : pc'[d] = IF d = c THEN s ELSE pc[d]
  BY <1>4, GotoPc
<1>6. Typed'
  <2>1. /\ s \in Steps /\ s \notin {"commit", "running", "check"} \cup InMounts
        /\ sn' \in [Ids -> Snapshots \cup {None}] /\ lastId' \in 0..MaxId /\ handed' \subseteq Ids
        /\ pos' \in [Callers -> Nat] /\ id' = [d \in Callers |-> id'[d]]
    BY <1>1 DEF Typed, Steps, InMounts
  <2> QED
    BY <1>1, <1>3, <1>4, <2>1, TypedMove
<1>7. txn # c
  BY <1>1 DEF TxnInv, Preparing
<1>8. Preparing(c)'
  BY <1>1, <1>5, <1>7, PreparingFree DEF InMounts
<1>9. \A d \in Callers : d # c => Preparing(d)'
  BY <1>1, <1>3, <1>5, OthersPrepare
<1> QED
  BY <1>6, <1>8, <1>9 DEF TxnInv

\* An error of mounts, and a step of mounts that goes on.
LEMMA FailStep ==
  ASSUME Typed, TxnInv, NEW c \in Callers, Fail(c), pc[c] \in {"load", "bind"} \cup InMounts,
         UNCHANGED <<sn, lastId, dirs, slfs, handed, at, id>>
  PROVE  Typed' /\ TxnInv'
<1> DEFINE s == IF txn = c THEN "failed" ELSE "running"
<1>1. Goto(c, s) /\ (IF txn = c THEN txn' = "leaked" ELSE UNCHANGED txn)
  BY DEF Fail
<1>2. \A d \in Callers : pc'[d] = IF d = c THEN s ELSE pc[d]
  BY <1>1, GotoPc
<1>3. pos' \in [Callers -> Nat]
  BY DEF Fail, Leave, Typed
<1>4. txn # c => id[c] \in Ids
  BY DEF TxnInv, Preparing, Typed, InMounts
<1>5. "leaked" \notin Callers /\ s \in Steps /\ s \notin AtLayer /\ s \notin InMounts
      /\ s \notin {"claim", "stat", "commit", "check", "mkdir", "load", "bind"}
      /\ (s = "running" => txn # c)
  BY BoundsAssumption DEF Steps, AtLayer, InMounts
<1> HIDE DEF s
<1>6. Typed'
  <2>1. /\ sn' \in [Ids -> Snapshots \cup {None}] /\ lastId' \in 0..MaxId /\ handed' \subseteq Ids
        /\ at' \in [Callers -> Nat \ {0}] /\ id' = [d \in Callers |-> id'[d]]
        /\ \A d \in Callers : at'[d] = at[d] /\ id'[d] = id[d]
    BY DEF Typed
  <2>2. s \in {"commit", "running"} \cup InMounts => id'[c] \in Ids
    BY <1>4, <1>5
  <2> QED
    BY <1>1, <1>3, <1>5, <2>1, <2>2, TypedMove
<1>7. Preparing(c)'
  BY <1>1, <1>2, <1>5, PreparingFree
<1>8. \A d \in Callers : d # c => Preparing(d)'
  <2>1. UNCHANGED txn \/ (txn \in {c, None} /\ txn' \notin Callers \ {c})
    BY <1>1, <1>5
  <2> QED
    BY <1>2, <2>1, OthersPrepare
<1> QED
  BY <1>6, <1>7, <1>8 DEF TxnInv

LEMMA OnStep ==
  ASSUME Typed, TxnInv, NEW c \in Callers, NEW s, Goto(c, s),
         pc[c] \in {"load", "bind"} \cup InMounts,
         (s = "bind" /\ pc[c] = "load") \/ s \in InMounts,
         pos' \in [Callers -> Nat],
         UNCHANGED <<sn, lastId, dirs, slfs, txn, handed, at, id>>
  PROVE  Typed' /\ TxnInv'
<1>1. \A d \in Callers : pc'[d] = IF d = c THEN s ELSE pc[d]
  BY GotoPc
<1>2. id[c] \in Ids
  BY DEF TxnInv, Preparing, Typed, InMounts
<1>3. /\ s \in Steps /\ s \notin {"claim", "stat", "commit", "check"}
      /\ c \in Pulls => at'[c] <= Depth(ImageOf[c])
  BY DEF Steps, InMounts, Typed, AtLayer
<1>4. Typed'
  <2>1. /\ sn' \in [Ids -> Snapshots \cup {None}] /\ lastId' \in 0..MaxId /\ handed' \subseteq Ids
        /\ at' \in [Callers -> Nat \ {0}] /\ id' = [d \in Callers |-> id'[d]]
        /\ id'[c] \in Ids
        /\ \A d \in Callers : at'[d] = at[d] /\ id'[d] = id[d]
    BY <1>2 DEF Typed
  <2> QED
    BY <1>3, <2>1, TypedMove
<1>5. Preparing(c)'
  BY <1>1, PreparingOn DEF TxnInv
<1>6. \A d \in Callers : d # c => Preparing(d)'
  BY <1>1, OthersPrepare
<1> QED
  BY <1>4, <1>5, <1>6 DEF TxnInv

\* mounts, in newSnapshot and in Mounts.
LEMMA MountSteps ==
  ASSUME Typed, TxnInv, NEW c \in Callers,
         PrepareBottom(c) \/ MountBottom(c) \/ MountLayer(c) \/ PrepareManager(c)
  PROVE  Typed' /\ TxnInv'
<1> USE DEF disk, maps, mountVars
<1>1. CASE PrepareBottom(c)
  BY <1>1, FailStep, OnStep DEF PrepareBottom, InMounts, Typed
<1>2. CASE MountBottom(c)
  BY <1>2, FailStep, OnStep DEF MountBottom, InMounts, Typed
<1>3. CASE MountLayer(c)
  <2>1. /\ pc[c] \in InMounts /\ UNCHANGED <<sn, lastId, dirs, slfs, handed, at, id>>
        /\ \/ Fail(c)
           \/ UNCHANGED <<txn, pc>> /\ pos' = [pos EXCEPT ![c] = @ + 1]
           \/ Goto(c, "manager") /\ UNCHANGED <<txn, pos>>
    BY <1>3 DEF MountLayer, InMounts
  <2>2. CASE UNCHANGED <<txn, pc>> /\ pos' = [pos EXCEPT ![c] = @ + 1]
    <3>1. Goto(c, pc[c]) /\ pos' \in [Callers -> Nat]
      BY <2>2 DEF Goto, Typed
    <3> QED
      BY <2>1, <2>2, <3>1, OnStep
  <2> QED
    BY <2>1, <2>2, FailStep, OnStep DEF InMounts, Typed
<1>4. CASE PrepareManager(c)
  <2>1. /\ pc[c] \in InMounts /\ UNCHANGED <<sn, lastId, dirs, slfs, handed, at, id>>
        /\ \/ Fail(c)
           \/ Goto(c, "mounts") /\ UNCHANGED <<txn, pos>>
           \/ UNCHANGED <<txn, pc, pos>>
    BY <1>4 DEF PrepareManager, InMounts
  <2>2. CASE UNCHANGED <<txn, pc, pos>>
    <3>1. Goto(c, pc[c])
      BY <2>2 DEF Goto, Typed
    <3> QED
      BY <2>1, <2>2, <3>1, OnStep DEF Typed
  <2> QED
    BY <2>1, <2>2, FailStep, OnStep DEF InMounts, Typed
<1> QED
  BY <1>1, <1>2, <1>3, <1>4

\* The transaction, from its beginning to its end.
LEMMA TxnSteps ==
  ASSUME Typed, TxnInv, TreeInv, NEW c \in Callers,
         CreateSnapshot(c) \/ MakeDirs(c) \/ HandOut(c) \/ Mounts(c) \/ CommitSnapshot(c)
  PROVE  Typed' /\ TxnInv'
<1> USE DEF disk, maps, mountVars, callerVars
<1>1. /\ Pulls \subseteq Callers /\ None \notin Callers /\ "leaked" \notin Callers
      /\ Ids = 1..MaxId /\ MaxId \in Nat
  BY BoundsAssumption DEF Callers, Ids
<1>2. /\ sn \in [Ids -> Snapshots \cup {None}] /\ lastId \in 0..MaxId /\ handed \subseteq Ids
      /\ at \in [Callers -> Nat \ {0}] /\ id = [d \in Callers |-> id[d]]
      /\ pos \in [Callers -> Nat]
  BY DEF Typed
<1>3. CASE CreateSnapshot(c)
  <2>1. /\ UNCHANGED <<sn, lastId, dirs, slfs, handed, at, pos>> /\ txn = None
        /\ pc[c] = "prepare" /\ lastId + 1 \in Ids
    BY <1>1, <1>2, <1>3 DEF CreateSnapshot
  <2>2. CASE Goto(c, "failed") /\ UNCHANGED <<txn, id>>
    <3>1. \A d \in Callers : pc'[d] = IF d = c THEN "failed" ELSE pc[d]
      BY <2>2, GotoPc
    <3>2. Typed'
      BY <1>2, <2>1, <2>2, TypedMove DEF Steps, AtLayer, InMounts
    <3>3. Preparing(c)' /\ \A d \in Callers : d # c => Preparing(d)'
      BY <1>1, <2>1, <2>2, <3>1, PreparingFree, OthersPrepare DEF InMounts
    <3> QED
      BY <3>2, <3>3 DEF TxnInv
  <2>3. CASE /\ Goal(c) = 1 \/ ParentOf(c) # {}
             /\ Goto(c, "mkdir") /\ txn' = c /\ id' = [id EXCEPT ![c] = lastId + 1]
    <3>1. \A d \in Callers : pc'[d] = IF d = c THEN "mkdir" ELSE pc[d]
      BY <2>3, GotoPc
    <3>2. /\ \A d \in Callers : id'[d] = IF d = c THEN lastId + 1 ELSE id[d]
          /\ id' = [d \in Callers |-> id'[d]]
      BY <1>2, <2>3
    <3>3. c \in Pulls => at'[c] <= Depth(ImageOf[c])
      BY <2>1 DEF Typed, AtLayer
    <3>4. Typed'
      BY <1>2, <2>1, <2>3, <3>2, <3>3, TypedMove DEF Steps, InMounts
    <3>5. Preparing(c)'
      BY <2>1, <2>3, <3>1, <3>2 DEF Preparing, Goal, ParentOf, Named, Chain, InMounts
    <3>6. \A d \in Callers : d # c => Preparing(d)'
      <4>1. \A d \in Callers : sn[id[d]] # None => sn'[id[d]] # None
        BY <2>1
      <4>2. \A d \in Callers : d # c => pc'[d] = pc[d] /\ id'[d] = id[d] /\ at'[d] = at[d]
        BY <2>1, <3>1, <3>2
      <4> QED
        BY <2>1, <2>3, <4>1, <4>2, OthersPrepare
    <3> QED
      BY <3>4, <3>5, <3>6 DEF TxnInv
  <2> QED
    BY <1>3, <2>2, <2>3 DEF CreateSnapshot
<1>4. CASE MakeDirs(c)
  <2>1. /\ UNCHANGED <<sn, lastId, handed, at, id, pos>> /\ pc[c] = "mkdir" /\ txn = c
        /\ dirs \subseteq dirs' /\ slfs \subseteq slfs' /\ id[c] \in Ids
        /\ c \in Pulls => at'[c] <= Depth(ImageOf[c])
    BY <1>4 DEF MakeDirs, TxnInv, Preparing, Typed, AtLayer
  <2>2. CASE /\ Goto(c, IF Goal(c) = 1 THEN "load" ELSE "mounts") /\ UNCHANGED txn
             /\ dirs' = dirs \cup {id[c]} /\ slfs' = slfs \cup {id[c]}
    <3> DEFINE s == IF Goal(c) = 1 THEN "load" ELSE "mounts"
    <3>1. Goto(c, s) /\ \A d \in Callers : pc'[d] = IF d = c THEN s ELSE pc[d]
      BY <2>2, GotoPc
    <3>2. s \in Steps /\ s \notin {"commit", "running", "claim", "stat", "check"}
          /\ s \in {"load"} \cup InMounts /\ (s = "load" => Goal(c) = 1)
      BY DEF Steps, InMounts
    <3> HIDE DEF s
    <3>3. Typed'
      BY <1>2, <2>1, <3>1, <3>2, TypedMove
    <3>4. Preparing(c)'
      BY <2>1, <2>2, <3>1, <3>2 DEF TxnInv, Preparing, Goal, ParentOf, Named, Chain, InMounts
    <3>5. \A d \in Callers : d # c => Preparing(d)'
      BY <2>1, <2>2, <3>1, OthersPrepare
    <3> QED
      BY <3>3, <3>4, <3>5 DEF TxnInv
  <2>3. CASE Goto(c, "failed") /\ txn' = "leaked"
    <3>1. \A d \in Callers : pc'[d] = IF d = c THEN "failed" ELSE pc[d]
      BY <2>3, GotoPc
    <3>2. Typed'
      BY <1>2, <2>1, <2>3, TypedMove DEF Steps, AtLayer, InMounts
    <3>3. Preparing(c)'
      BY <1>1, <2>3, <3>1, PreparingFree DEF InMounts
    <3>4. \A d \in Callers : d # c => Preparing(d)'
      BY <1>1, <2>1, <2>3, <3>1, OthersPrepare
    <3> QED
      BY <3>2, <3>3, <3>4 DEF TxnInv
  <2> QED
    BY <1>4, <2>2, <2>3 DEF MakeDirs
<1>5. CASE Mounts(c)
  <2>1. /\ Goto(c, "mounts") /\ UNCHANGED <<sn, lastId, dirs, slfs, handed, txn, at, id, pos>>
        /\ pc[c] = "running" /\ c \in Containers /\ sn[id[c]] # None
    BY <1>5 DEF Mounts
  <2>2. c \notin Pulls /\ id[c] \in Ids /\ txn # c
    BY <2>1, ImagesAssumption DEF Typed, TxnInv, Preparing, InMounts
  <2>3. \A d \in Callers : pc'[d] = IF d = c THEN "mounts" ELSE pc[d]
    BY <2>1, GotoPc
  <2>4. Typed'
    BY <1>2, <2>1, <2>2, TypedMove DEF Steps, InMounts
  <2>5. Preparing(c)'
    BY <2>1, <2>2, <2>3 DEF Preparing, InMounts
  <2>6. \A d \in Callers : d # c => Preparing(d)'
    BY <2>1, <2>3, OthersPrepare
  <2> QED
    BY <2>4, <2>5, <2>6 DEF TxnInv
<1>6. CASE HandOut(c)
  <2>1. /\ UNCHANGED <<dirs, slfs, at, id>> /\ pc[c] = "mounts" /\ id[c] \in Ids
        /\ handed' = handed \cup {id[c]} /\ pos' = [pos EXCEPT ![c] = 0]
        /\ Stack(c) \in Seq(Ids)
    BY <1>6, StackPresent DEF HandOut, Leave, Typed, InMounts
  <2>2. handed' \subseteq Ids /\ pos' \in [Callers -> Nat]
    BY <1>2, <2>1
  <2>3. CASE txn # c
    <3>1. Goto(c, "running") /\ UNCHANGED <<sn, lastId, txn>>
      BY <1>6, <2>3 DEF HandOut
    <3>2. \A d \in Callers : pc'[d] = IF d = c THEN "running" ELSE pc[d]
      BY <3>1, GotoPc
    <3>3. Typed'
      BY <1>2, <2>1, <2>2, <3>1, TypedMove DEF Steps, AtLayer
    <3>4. Preparing(c)' /\ \A d \in Callers : d # c => Preparing(d)'
      BY <2>1, <2>3, <3>1, <3>2, PreparingFree, OthersPrepare DEF InMounts
    <3> QED
      BY <3>3, <3>4 DEF TxnInv
  <2>4. CASE txn = c
    <3> DEFINE s == IF c \in Pulls THEN "commit" ELSE "running"
    <3>1. /\ Goto(c, s) /\ sn' = [sn EXCEPT ![id[c]] = NewSnapshot(c)] /\ lastId' = id[c]
          /\ txn' = None
      BY <1>6, <2>4 DEF HandOut
    <3>2. \A d \in Callers : pc'[d] = IF d = c THEN s ELSE pc[d]
      BY <3>1, GotoPc
    <3>3. NewSnapshot(c) \in Snapshots
      BY <2>1, NewSnapshotType
    <3>4. /\ sn' \in [Ids -> Snapshots \cup {None}] /\ lastId' \in 0..MaxId
          /\ \A d \in Callers : sn[id[d]] # None => sn'[id[d]] # None
      BY <1>1, <1>2, <2>1, <3>1, <3>3, BoundsAssumption
    <3>5. /\ s \in Steps /\ s \notin InMounts /\ (s = "commit" => c \in Pulls)
          /\ s \notin {"claim", "stat", "check", "mkdir", "load", "bind"}
          /\ (c \in Pulls => at'[c] <= Depth(ImageOf[c]))
      BY <2>1 DEF Steps, InMounts, Typed, AtLayer
    <3> HIDE DEF s
    <3>6. Typed'
      BY <1>2, <2>1, <2>2, <3>1, <3>4, <3>5, TypedMove
    <3>7. Preparing(c)'
      BY <1>1, <3>1, <3>2, <3>5, PreparingFree
    <3>8. \A d \in Callers : d # c => Preparing(d)'
      BY <1>1, <2>1, <2>4, <3>1, <3>2, <3>4, OthersPrepare
    <3> QED
      BY <3>6, <3>7, <3>8 DEF TxnInv
  <2> QED
    BY <2>3, <2>4
<1>7. CASE CommitSnapshot(c)
  <2>1. /\ pc[c] = "commit" /\ txn = None /\ UNCHANGED <<lastId, dirs, slfs, txn, at, id, pos>>
        /\ id[c] \in Ids /\ handed' \subseteq Ids /\ c \in Pulls
        /\ at'[c] <= Depth(ImageOf[c])
    BY <1>2, <1>7 DEF CommitSnapshot, Typed, AtLayer
  <2>2. PICK s \in {"check", "failed"} : Goto(c, s)
    BY <1>7 DEF CommitSnapshot
  <2>3. \A d \in Callers : pc'[d] = IF d = c THEN s ELSE pc[d]
    BY <2>2, GotoPc
  <2>4. /\ sn' \in [Ids -> Snapshots \cup {None}]
        /\ \A d \in Callers : sn[id[d]] # None => sn'[id[d]] # None
    <3>1. CASE UNCHANGED sn
      BY <1>2, <3>1
    <3>2. CASE sn[id[c]] # None /\ sn' = [sn EXCEPT ![id[c]] = Committed(c)]
      <4>1. Committed(c) \in Snapshots /\ Committed(c) # None
        BY <2>1, <3>2, CommittedType, BoundsAssumption
      <4> QED
        BY <1>2, <2>1, <3>2, <4>1
    <3> QED
      BY <1>2, <1>7, <2>1, <3>1, <3>2 DEF CommitSnapshot, Committed
  <2>5. Typed'
    BY <1>2, <2>1, <2>2, <2>4, TypedMove DEF Steps, InMounts
  <2>6. Preparing(c)'
    BY <1>1, <2>1, <2>2, <2>3, PreparingFree DEF InMounts
  <2>7. \A d \in Callers : d # c => Preparing(d)'
    BY <2>1, <2>3, <2>4, OthersPrepare
  <2> QED
    BY <2>5, <2>6, <2>7 DEF TxnInv
<1> QED
  BY <1>3, <1>4, <1>5, <1>6, <1>7

\* What the second half of Remove deletes are the directories of a removed snapshot,
\* also when Unmount deletes that of the snapshot that mounted the layer first: all
\* that is left of its layer is the key Remove was called with.
LEMMA RemovedDirs ==
  ASSUME TreeInv, FsInv, RemoveFiles
  PROVE  \E r \in Ids : /\ r <= lastId /\ sn[r] = None
                        /\ dirs \ {r} \subseteq dirs' /\ slfs \ {r} \subseteq slfs'
<1> DEFINE i == removing.id
           l == removing.layer
<1>1. i \in Ids /\ i <= lastId /\ sn[i] = None /\ l \in Layers \cup {None}
  BY DEF RemoveFiles, TreeInv, RemovingGone
<1>2. CASE dirs \ {i} \subseteq dirs' /\ slfs \ {i} \subseteq slfs'
  BY <1>1, <1>2
<1>3. CASE l # None /\ dirs' = dirs /\ regs[l] = {Key(i, removing.kind)} /\ fs[l] # None
           /\ slfs' = slfs \ {fs[l]}
  <2>1. fs[l] \in Ids /\ Owner(fs[l], l)
    BY <1>1, <1>3 DEF FsInv
  <2>2. Registered(fs[l], l) => fs[l] = i
    BY <1>3 DEF Registered, Key
  <2>3. fs[l] \in Ids /\ fs[l] <= lastId /\ sn[fs[l]] = None
    BY <1>1, <2>1, <2>2 DEF Owner
  <2> QED
    BY <1>3, <2>3
<1> QED
  BY <1>2, <1>3 DEF RemoveFiles, Unmount

\* The steps that are not a caller's.
LEMMA SystemSteps ==
  ASSUME Typed, TxnInv, TreeInv, FsInv, RemoveParents = FALSE,
         \/ \E i \in Ids : Remove(i)
         \/ RemoveFiles
         \/ \E img \in Images : Collect(img)
         \/ Crash
         \/ UNCHANGED vars
  PROVE  Typed' /\ TxnInv'
<1> USE DEF disk, maps, mountVars, callerVars
<1>1. Pulls \subseteq Callers /\ None \notin Callers /\ Ids = 1..MaxId /\ MaxId \in Nat
  BY BoundsAssumption DEF Callers, Ids
<1>2. ASSUME NEW i \in Ids, Remove(i) PROVE Typed' /\ TxnInv'
  <2>1. /\ txn = None /\ UNCHANGED <<lastId, txn, dirs, slfs, callerVars>>
        /\ sn' = [sn EXCEPT ![i] = None] /\ handed' \subseteq handed
        /\ \A c \in Containers : id[c] = i => pc[c] \notin InMounts
    BY <1>2 DEF Remove, Removable, InMounts
  <2>2. Typed'
    BY <2>1 DEF Typed
  <2>3. ASSUME NEW c \in Callers PROVE Preparing(c)'
    <3>1. txn # c /\ txn' # c /\ pc[c] \notin {"mkdir", "load", "bind"}
      BY <1>1, <2>1 DEF TxnInv, Preparing
    <3>2. CASE pc[c] \notin InMounts
      BY <2>1, <3>1, <3>2, PreparingFree
    <3>3. CASE pc[c] \in InMounts
      <4>1. c \in Containers /\ sn[id[c]] # None /\ id[c] \in Ids
        BY <3>1, <3>3 DEF TxnInv, Preparing, Typed
      <4>2. sn'[id[c]] # None
        BY <2>1, <3>3, <4>1 DEF Typed
      <4> QED
        BY <2>1, <3>1, <3>3, <4>1, <4>2 DEF Preparing
    <3> QED
      BY <3>2, <3>3
  <2> QED
    BY <2>2, <2>3 DEF TxnInv
<1>3. CASE RemoveFiles
  <2>1. UNCHANGED <<sn, lastId, txn, callerVars, handed>>
    BY <1>3 DEF RemoveFiles
  <2>2. PICK r \in Ids : r <= lastId /\ dirs \ {r} \subseteq dirs' /\ slfs \ {r} \subseteq slfs'
    BY <1>3, RemovedDirs
  <2>3. ASSUME NEW c \in Callers PROVE Preparing(c)'
    <3>1. txn = c => id[c] # r
      BY <1>1, <2>2 DEF TxnInv, Preparing, Typed
    <3>2. txn = c => (id[c] \in dirs => id[c] \in dirs') /\ (id[c] \in slfs => id[c] \in slfs')
      BY <2>2, <3>1
    <3> QED
      BY <2>1, <3>2 DEF TxnInv, Preparing, Goal, ParentOf, Named, Chain
  <2> QED
    BY <2>1, <2>3 DEF TxnInv, Typed
<1>4. CASE (\E img \in Images : Collect(img)) \/ UNCHANGED vars
  <2>1. UNCHANGED <<sn, lastId, dirs, slfs, txn, handed, callerVars>>
    BY <1>4 DEF Collect, vars
  <2> QED
    BY <2>1 DEF Typed, TxnInv, Preparing, Goal, ParentOf, Named, Chain
<1>5. CASE Crash
  <2>1. /\ UNCHANGED <<sn, lastId, at, id>> /\ txn' = None /\ handed' = {}
        /\ pos' \in [Callers -> Nat]
    BY <1>5 DEF Crash
  <2>2. \A c \in Callers : pc'[c] =
          IF pc[c] \in {"idle", "done", "running"} THEN pc[c]
          ELSE IF pc[c] \in InMounts /\ txn # c THEN "running" ELSE "failed"
    BY <1>5 DEF Crash, InMounts
  <2>3. /\ pc' \in [Callers -> Steps]
        /\ \A c \in Callers : pc'[c] \notin AtLayer \cup InMounts \cup
                                {"claim", "stat", "commit", "check", "mkdir", "load", "bind"}
        /\ \A c \in Callers : pc'[c] = "running" => id[c] \in Ids
    <3>1. \A c \in Callers : pc'[c] \in Steps
      BY <2>2 DEF Typed, Steps
    <3>2. pc' \in [Callers -> Steps]
      BY <1>5, <3>1 DEF Crash
    <3> QED
      BY <2>2, <3>2 DEF Typed, AtLayer, InMounts
  <2>4. Typed'
    BY <1>1, <2>1, <2>3 DEF Typed
  <2>5. TxnInv'
    BY <1>1, <2>1, <2>3, PreparingFree DEF TxnInv
  <2> QED
    BY <2>4, <2>5
<1> QED
  BY <1>2, <1>3, <1>4, <1>5

LEMMA TypedStep ==
  ASSUME Typed, TxnInv, TreeInv, FsInv, RemoveParents = FALSE, [Next]_vars
  PROVE  Typed' /\ TxnInv'
BY FreeSteps, MountSteps, TxnSteps, SystemSteps DEF Next, CallerStep

-----------------------------------------------------------------------------
(* The metastore and the directories.                                      *)

LEMMA TreeInit == Init => TreeInv
BY DEF Init, TreeInv, RemovingGone, Present, HasDirs

LEMMA TreeStep ==
  ASSUME Typed, TxnInv, TreeInv, FsInv, RemoveParents = FALSE, [Next]_vars
  PROVE  TreeInv'
<1> USE DEF disk, maps, mountVars, callerVars
<1>1. /\ sn \in [Ids -> Snapshots \cup {None}] /\ lastId \in 0..MaxId
      /\ Ids = 1..MaxId /\ MaxId \in Nat /\ None \notin Callers
  BY BoundsAssumption DEF Typed, Ids, Callers
<1>2. \A i \in Ids : sn[i] # None =>
        /\ sn[i].stack \in Seq(Ids) /\ i <= lastId /\ i \in dirs /\ i \in slfs
        /\ \A n \in 1..Len(sn[i].stack) : sn[i].stack[n] \in Ids /\ sn[sn[i].stack[n]] # None
  BY <1>1 DEF TreeInv, Present, HasDirs, Snapshots
\* The metastore stays, or a snapshot changes and keeps its parents.
<1>3. ASSUME \A i \in Ids : (sn'[i] # None <=> sn[i] # None)
                            /\ (sn[i] # None => sn'[i].stack = sn[i].stack),
             UNCHANGED lastId, removing' = None \/ UNCHANGED removing,
             dirs \subseteq dirs', slfs \subseteq slfs'
      PROVE  TreeInv'
  BY <1>2, <1>3 DEF TreeInv, RemovingGone, Present, HasDirs
<1>4. ASSUME UNCHANGED <<sn, lastId>>, removing' = None \/ UNCHANGED removing,
             dirs \subseteq dirs', slfs \subseteq slfs'
      PROVE  TreeInv'
  BY <1>3, <1>4
<1>5. ASSUME NEW c \in Callers, HandOut(c), txn = c PROVE TreeInv'
  <2>1. /\ sn' = [sn EXCEPT ![id[c]] = NewSnapshot(c)] /\ lastId' = id[c]
        /\ UNCHANGED <<dirs, slfs, removing>>
        /\ pc[c] \in InMounts
    BY <1>5 DEF HandOut, InMounts
  <2>2. /\ id[c] = lastId + 1 /\ id[c] \in Ids /\ id[c] \in dirs /\ id[c] \in slfs
    BY <1>5, <2>1 DEF TxnInv, Preparing, InMounts
  <2>3. /\ Stack(c) \in Seq(Ids)
        /\ \A n \in 1..Len(Stack(c)) : Stack(c)[n] \in Ids /\ sn[Stack(c)[n]] # None
    BY <2>1, StackPresent
  <2>4. sn'[id[c]] = NewSnapshot(c) /\ sn'[id[c]].stack = Stack(c) /\ sn'[id[c]] # None
    <3>1. NewSnapshot(c) \in Snapshots
      BY <1>5, <2>3, NewSnapshotType DEF HandOut
    <3> QED
      BY <1>1, <2>1, <2>2, <3>1, BoundsAssumption DEF NewSnapshot
  <2>5. sn[id[c]] = None /\ \A i \in Ids : i # id[c] => sn'[i] = sn[i]
    BY <1>1, <1>2, <2>1, <2>2
  <2>6. \A i \in Ids : sn[i] # None => sn'[i] = sn[i]
    BY <2>5
  <2>7. \A i \in Ids : Present(i)' /\ HasDirs(i)'
    <3> SUFFICES ASSUME NEW i \in Ids PROVE Present(i)' /\ HasDirs(i)'
      OBVIOUS
    <3>1. CASE i = id[c]
      <4>1. \A n \in 1..Len(Stack(c)) : sn'[Stack(c)[n]] # None
        BY <2>3, <2>6
      <4> QED
        BY <1>1, <2>1, <2>2, <2>4, <3>1, <4>1 DEF Present, HasDirs
    <3>2. CASE i # id[c] /\ sn[i] # None
      <4>1. sn'[i] = sn[i] /\ \A n \in 1..Len(sn[i].stack) : sn'[sn[i].stack[n]] # None
        BY <1>2, <2>6, <3>2
      <4> QED
        BY <1>1, <1>2, <2>1, <2>2, <3>2, <4>1 DEF Present, HasDirs
    <3>3. CASE i # id[c] /\ sn[i] = None
      BY <2>5, <3>3 DEF Present, HasDirs
    <3> QED
      BY <3>1, <3>2, <3>3
  <2>8. RemovingGone'
    <3>1. removing # None => removing.id <= lastId /\ removing.id \in Ids /\ sn[removing.id] = None
                             /\ removing.layer \in Layers \cup {None}
      BY DEF TreeInv, RemovingGone
    <3>2. removing # None => removing.id # id[c] /\ removing.id <= lastId'
      BY <1>1, <2>1, <2>2, <3>1
    <3> QED
      BY <2>1, <2>5, <3>1, <3>2 DEF RemovingGone
  <2> QED
    BY <2>7, <2>8 DEF TreeInv
<1>6. ASSUME NEW c \in Callers, CommitSnapshot(c) PROVE TreeInv'
  <2>1. UNCHANGED <<lastId, dirs, slfs, removing>> /\ pc[c] = "commit" /\ id[c] \in Ids
    BY <1>6 DEF CommitSnapshot, Typed
  <2>2. CASE UNCHANGED sn
    BY <1>4, <2>1, <2>2
  <2>3. CASE sn[id[c]] # None /\ sn' = [sn EXCEPT ![id[c]] = Committed(c)]
    <3>1. Committed(c) # None /\ Committed(c).stack = sn[id[c]].stack
      BY <2>1, <2>3, CommittedType, BoundsAssumption
    <3> QED
      BY <1>1, <1>3, <2>1, <2>3, <3>1
  <2> QED
    BY <1>6, <2>2, <2>3 DEF CommitSnapshot, Committed
<1>7. ASSUME NEW i \in Ids, Remove(i) PROVE TreeInv'
  <2>1. /\ Children(i) = {} /\ sn' = [sn EXCEPT ![i] = None] /\ UNCHANGED <<lastId, dirs, slfs>>
        /\ removing' = [id |-> i, kind |-> sn[i].kind, layer |-> sn[i].layer] /\ sn[i] # None
    BY <1>7 DEF Remove, Removable
  <2>2. sn'[i] = None /\ \A j \in Ids : j # i => sn'[j] = sn[j]
    BY <1>1, <2>1
  <2>3. ASSUME NEW j \in Ids, j # i, sn[j] # None
        PROVE  \A n \in 1..Len(sn[j].stack) : sn'[sn[j].stack[n]] # None
    <3>1. \A n \in 1..Len(sn[j].stack) : sn[j].stack[n] # i
      BY <2>1, <2>3 DEF Children
    <3> QED
      BY <1>2, <2>2, <2>3, <3>1
  <2>4. \A j \in Ids : Present(j)' /\ HasDirs(j)'
    BY <1>2, <2>1, <2>2, <2>3 DEF Present, HasDirs
  <2>5. RemovingGone'
    <3>1. sn[i] \in Snapshots /\ i <= lastId
      BY <1>1, <1>2, <2>1
    <3> QED
      BY <2>1, <2>2, <3>1 DEF RemovingGone, Snapshots
  <2> QED
    BY <2>4, <2>5 DEF TreeInv
<1>8. CASE RemoveFiles
  <2>1. UNCHANGED <<sn, lastId>> /\ removing' = None
    BY <1>8 DEF RemoveFiles
  <2>2. PICK r \in Ids : sn[r] = None /\ dirs \ {r} \subseteq dirs' /\ slfs \ {r} \subseteq slfs'
    BY <1>8, RemovedDirs
  <2>3. \A i \in Ids : sn[i] # None => i \in dirs' /\ i \in slfs'
    BY <1>2, <2>2
  <2> QED
    BY <2>1, <2>3 DEF TreeInv, RemovingGone, Present, HasDirs
<1>9. ASSUME NEW c \in Callers,
             \/ Start(c) \/ Claim(c) \/ Stat(c) \/ CreateSnapshot(c) \/ MakeDirs(c)
             \/ PrepareBottom(c) \/ MountBottom(c) \/ MountLayer(c) \/ PrepareManager(c)
             \/ (HandOut(c) /\ txn # c) \/ Mounts(c) \/ Check(c) \/ Finish(c)
      PROVE  TreeInv'
  BY <1>4, <1>9 DEF Start, Claim, Stat, CreateSnapshot, MakeDirs, PrepareBottom, MountBottom,
                    MountLayer, PrepareManager, HandOut, Mounts, Check, Finish
<1>10. CASE (\E img \in Images : Collect(img)) \/ Crash \/ UNCHANGED vars
  BY <1>4, <1>10 DEF Collect, Crash, vars
<1> QED
  BY <1>5, <1>6, <1>7, <1>8, <1>9, <1>10 DEF Next, CallerStep

-----------------------------------------------------------------------------
(* The file systems and their directories.                                 *)

\* What a caller's step leaves to the others.
LEMMA CallerFrame ==
  ASSUME Typed, TxnInv, NEW c \in Callers, CallerStep(c), NEW d \in Callers, d # c
  PROVE  /\ pc'[d] = pc[d] /\ pos'[d] = pos[d] /\ id'[d] = id[d] /\ at'[d] = at[d]
         /\ txn = d => txn' = d /\ UNCHANGED sn
         /\ txn # d => txn' # d
<1> USE DEF disk, maps, mountVars, callerVars
<1> USE DEF CallerStep, Start, Claim, Stat, CreateSnapshot, MakeDirs, PrepareBottom, MountBottom,
            MountLayer, PrepareManager, HandOut, Mounts, CommitSnapshot, Check, Finish
<1>1. None \notin Callers /\ "leaked" \notin Callers
  BY BoundsAssumption DEF Callers
<1>2. pc'[d] = pc[d]
  <2>1. UNCHANGED pc \/ \E s : pc' = [pc EXCEPT ![c] = s]
    BY DEF Goto, Fail
  <2> QED
    BY <2>1 DEF Typed
<1>3. pos'[d] = pos[d]
  <2>1. UNCHANGED pos \/ \E n : pos' = [pos EXCEPT ![c] = n]
    BY DEF Fail, Leave
  <2> QED
    BY <2>1 DEF Typed
<1>4. id'[d] = id[d]
  <2>1. UNCHANGED id \/ \E n : id' = [id EXCEPT ![c] = n]
    OBVIOUS
  <2> QED
    BY <2>1 DEF Typed
<1>5. at'[d] = at[d]
  <2>1. UNCHANGED at \/ \E n : at' = [at EXCEPT ![c] = n]
    OBVIOUS
  <2> QED
    BY <2>1 DEF Typed
<1>6. UNCHANGED txn \/ (txn \in {c, None} /\ txn' \in {c, None, "leaked"})
  BY DEF Fail, TxnInv, Preparing
<1>7. UNCHANGED sn \/ txn \in {c, None}
  OBVIOUS
<1> QED
  BY <1>1, <1>2, <1>3, <1>4, <1>5, <1>6, <1>7

\* A caller that is about to commit the lowest layer of its image does just that.
LEMMA BottomKept ==
  ASSUME Typed, TxnInv, NEW c \in Callers, CallerStep(c), ~HandOut(c),
         NEW d \in Callers, NEW i, NEW l, Bottom(d, i, l)
  PROVE  Bottom(d, i, l)'
<1> USE DEF disk, maps, mountVars, callerVars
<1>1. None \notin Callers /\ "leaked" \notin Callers /\ txn = d /\ pc[d] = "mounts" /\ Goal(d) = 1
  BY BoundsAssumption DEF Callers, Bottom
<1>2. d # c
  <2>1. ASSUME d = c, MountLayer(c) PROVE FALSE
    <3>1. Stack(c) = <<>> /\ pos[c] \in Nat /\ pos[c] < Len(Stack(c))
      BY <1>1, <2>1 DEF MountLayer, Stack, Typed
    <3> QED
      BY <3>1
  <2>2. ASSUME d = c PROVE FALSE
    BY <1>1, <2>1, <2>2 DEF CallerStep, Start, Claim, Stat, CreateSnapshot, MakeDirs,
       PrepareBottom, MountBottom, PrepareManager, Mounts, CommitSnapshot, Check, Finish
  <2> QED
    BY <2>2
<1> QED
  BY <1>1, <1>2, CallerFrame DEF Bottom, Goal

\* A snapshot keeps its layer, or goes.
LEMMA OwnerKept ==
  ASSUME NEW i, NEW l, Owner(i, l), UNCHANGED lastId,
         sn'[i] = None \/ (sn[i] # None /\ sn'[i].layer = sn[i].layer),
         (sn[i] # None \/ ~(i <= lastId)) /\ Registered(i, l) => Registered(i, l)',
         \A c \in Callers : Bottom(c, i, l) => Bottom(c, i, l)'
  PROVE  Owner(i, l)'
BY DEF Owner

\* A step that leaves the file systems alone.
LEMMA FsKept ==
  ASSUME FsInv, UNCHANGED <<fs, regs, servers>>, slfs \subseteq slfs',
         removing' = None \/ UNCHANGED removing,
         \A i, l : Owner(i, l) => Owner(i, l)'
  PROVE  FsInv'
<1>1. \A l \in Layers, i \in Ids : fs'[l] = i => Owner(i, l)'
  BY DEF FsInv
<1>2. /\ fs' \in [Layers -> Ids \cup {None}] /\ regs' = [l \in Layers |-> regs'[l]]
      /\ servers' \subseteq {p \in Layers \X Ids : fs'[p[1]] = p[2]}
      /\ \A p \in servers' : p[2] \in slfs'
      /\ \A l, m \in Layers : fs'[l] = fs'[m] /\ fs'[l] # None => l = m
      /\ \A l \in Layers : removing' # None /\ fs'[l] = removing'.id => removing'.layer # None
  BY DEF FsInv
<1> QED
  BY <1>1, <1>2 DEF FsInv

\* A file system is made for a layer that has none, in a directory no other one has.
LEMMA FsMade ==
  ASSUME FsInv, NEW l \in Layers, NEW i \in Ids, fs[l] = None,
         fs' = [fs EXCEPT ![l] = i], servers' = servers \cup {<<l, i>>},
         regs' = [m \in Layers |-> regs'[m]], UNCHANGED <<slfs, removing>>, i \in slfs,
         \A m \in Layers : fs[m] # i, removing # None => removing.id # i,
         Owner(i, l)', \A m \in Layers, j \in Ids : fs[m] = j => Owner(j, m)'
  PROVE  FsInv'
<1>1. /\ fs \in [Layers -> Ids \cup {None}] /\ None \notin Ids
      /\ servers \subseteq {p \in Layers \X Ids : fs[p[1]] = p[2]}
      /\ \A p \in servers : p[2] \in slfs
      /\ \A k, m \in Layers : fs[k] = fs[m] /\ fs[k] # None => k = m
      /\ \A m \in Layers : removing # None /\ fs[m] = removing.id => removing.layer # None
  BY BoundsAssumption DEF FsInv
<1>2. /\ fs' \in [Layers -> Ids \cup {None}] /\ fs'[l] = i
      /\ \A m \in Layers : m # l => fs'[m] = fs[m]
  BY <1>1
<1>3. servers' \subseteq {p \in Layers \X Ids : fs'[p[1]] = p[2]}
  <2> SUFFICES ASSUME NEW p \in servers' PROVE p \in Layers \X Ids /\ fs'[p[1]] = p[2]
    OBVIOUS
  <2>1. CASE p = <<l, i>>
    BY <1>2, <2>1
  <2>2. CASE p \in servers
    <3>1. p \in Layers \X Ids /\ fs[p[1]] = p[2]
      BY <1>1, <2>2
    <3>2. p[1] # l
      BY <1>1, <3>1
    <3> QED
      BY <1>2, <3>1, <3>2
  <2> QED
    BY <2>1, <2>2
<1>4. \A p \in servers' : p[2] \in slfs'
  BY <1>1
<1>5. \A m \in Layers, j \in Ids : fs'[m] = j => Owner(j, m)'
  BY <1>2
<1>6. \A k, m \in Layers : fs'[k] = fs'[m] /\ fs'[k] # None => k = m
  BY <1>1, <1>2
<1>7. \A m \in Layers : removing' # None /\ fs'[m] = removing'.id => removing'.layer # None
  BY <1>1, <1>2
<1> QED
  BY <1>2, <1>3, <1>4, <1>5, <1>6, <1>7 DEF FsInv

\* Client.Mount, by a snapshot that has no other layer and comes to own this one.
LEMMA FsMounted ==
  ASSUME FsInv, NEW l \in Layers, NEW i \in Ids, NEW key, Mounted(l, i, key),
         UNCHANGED <<sn, lastId, slfs, removing>>,
         fs[l] = None => /\ \A m \in Layers : fs[m] # i
                         /\ removing # None => removing.id # i
                         /\ Owner(i, l)',
         \A d \in Callers : \A j, m : Bottom(d, j, m) => Bottom(d, j, m)'
  PROVE  FsInv'
<1>1. regs = [m \in Layers |-> regs[m]] /\ \A m \in Layers, j \in Ids : fs[m] = j => Owner(j, m)
  BY DEF FsInv
<1>2. regs' = [m \in Layers |-> regs'[m]] /\ \A m \in Layers : regs[m] \subseteq regs'[m]
  BY <1>1 DEF Mounted
<1>3. \A j \in Ids, m \in Layers : Owner(j, m) => Owner(j, m)'
  <2> SUFFICES ASSUME NEW j \in Ids, NEW m \in Layers, Owner(j, m) PROVE Owner(j, m)'
    OBVIOUS
  <2>1. Registered(j, m) => Registered(j, m)'
    BY <1>2 DEF Registered
  <2> QED
    BY <2>1, OwnerKept
<1>4. CASE fs[l] # None
  <2>1. UNCHANGED <<fs, servers>>
    BY <1>4 DEF Mounted
  <2>2. \A m \in Layers, j \in Ids : fs'[m] = j => Owner(j, m)'
    BY <1>1, <1>3, <2>1
  <2> QED
    BY <1>2, <2>1, <2>2 DEF FsInv
<1>5. CASE fs[l] = None
  <2>1. fs' = [fs EXCEPT ![l] = i] /\ servers' = servers \cup {<<l, i>>} /\ i \in slfs
    BY <1>5 DEF Mounted
  <2>2. \A m \in Layers, j \in Ids : fs[m] = j => Owner(j, m)'
    BY <1>1, <1>3
  <2> QED
    BY <1>2, <1>5, <2>1, <2>2, FsMade
<1> QED
  BY <1>4, <1>5

LEMMA FsInit == Init => FsInv
<1> SUFFICES ASSUME Init PROVE FsInv
  OBVIOUS
<1>1. /\ fs = [l \in Layers |-> None] /\ servers = {} /\ removing = None /\ None \notin Ids
      /\ regs = [l \in Layers |-> {}]
  BY BoundsAssumption DEF Init
<1> QED
  BY <1>1 DEF FsInv

LEMMA FsStep ==
  ASSUME Typed, TxnInv, TreeInv, FsInv, RemoveParents = FALSE, [Next]_vars
  PROVE  FsInv'
<1> USE DEF disk, maps, mountVars, callerVars
<1>1. /\ fs \in [Layers -> Ids \cup {None}] /\ regs = [l \in Layers |-> regs[l]]
      /\ \A l \in Layers, i \in Ids : fs[l] = i => Owner(i, l)
      /\ sn \in [Ids -> Snapshots \cup {None}] /\ lastId \in 0..MaxId
      /\ None \notin Ids /\ None \notin Callers /\ None \notin Layers /\ None \notin Snapshots
      /\ Ids = 1..MaxId /\ MaxId \in Nat
  BY BoundsAssumption DEF FsInv, Typed, Ids, Callers
<1>2. \A i \in Ids : sn[i] # None =>
        i <= lastId /\ (removing # None => removing.id # i)
  BY DEF TreeInv, Present, RemovingGone
<1>3. \A c \in Callers : ImageOf[c] \in Images /\ LayersOf[ImageOf[c]] \in Seq(Layers)
                         /\ Len(LayersOf[ImageOf[c]]) > 0
  BY ImagesAssumption DEF Depth
\* A caller that mounts nothing.
<1>4. ASSUME NEW c \in Callers, CallerStep(c), ~HandOut(c), ~CommitSnapshot(c),
             UNCHANGED mountVars
      PROVE  FsInv'
  <2>1. UNCHANGED <<sn, lastId, removing>> /\ slfs \subseteq slfs'
    BY <1>4 DEF CallerStep, Start, Claim, Stat, CreateSnapshot, MakeDirs, PrepareBottom,
       MountBottom, MountLayer, PrepareManager, Mounts, Check, Finish
  <2>2. \A d \in Callers : \A i, l : Bottom(d, i, l) => Bottom(d, i, l)'
    BY <1>4, BottomKept
  <2>3. \A i, l : Owner(i, l) => Owner(i, l)'
    <3> SUFFICES ASSUME NEW i, NEW l, Owner(i, l) PROVE Owner(i, l)'
      OBVIOUS
    <3>1. Registered(i, l) => Registered(i, l)'
      BY <1>4 DEF Registered
    <3> QED
      BY <2>1, <2>2, <3>1, OwnerKept
  <2> QED
    BY <1>4, <2>1, <2>3, FsKept
<1>5. ASSUME NEW c \in Callers, MountBottom(c) PROVE FsInv'
  <2>1. /\ txn = c /\ id[c] = lastId + 1 /\ id[c] \in Ids /\ pc[c] = "bind" /\ Goal(c) = 1
    BY <1>5 DEF MountBottom, TxnInv, Preparing
  <2>2. PICK l \in Layers : l = LayersOf[ImageOf[c]][1]
    BY <1>3
  <2>3. PICK i \in Ids : i = id[c]
    BY <2>1
  <2>4. CASE UNCHANGED mountVars
    <3>1. CallerStep(c) /\ ~HandOut(c) /\ ~CommitSnapshot(c)
      BY <1>5, <2>1 DEF CallerStep, HandOut, CommitSnapshot
    <3> QED
      BY <1>4, <2>4, <3>1
  <2>5. CASE Mounted(l, i, Key(i, "active")) /\ Goto(c, "mounts") /\ UNCHANGED txn
    <3>1. UNCHANGED <<sn, lastId, slfs, removing, id, at>>
      BY <1>5 DEF MountBottom
    <3>2. \A d \in Callers : \A j, m : ~Bottom(d, j, m)
      BY <2>1 DEF Bottom
    <3>3. \A m \in Layers : fs[m] # i
      BY <1>1, <2>1, <2>3, <3>2 DEF Owner
    <3>4. removing # None => removing.id # i
      BY <1>1, <2>1, <2>3 DEF TreeInv, RemovingGone
    <3>5. Bottom(c, i, l)'
      <4>1. pc'[c] = "mounts"
        BY <2>5, GotoPc
      <4> QED
        BY <2>1, <2>2, <2>3, <2>5, <3>1, <4>1 DEF Bottom, Goal
    <3>6. Registered(i, l)'
      BY <1>1, <2>5 DEF Mounted, Registered
    <3>7. Owner(i, l)'
      <4>1. ~(i <= lastId')
        BY <1>1, <2>1, <2>3, <3>1
      <4> QED
        BY <3>5, <3>6, <4>1 DEF Owner
    <3> QED
      BY <2>5, <3>1, <3>2, <3>3, <3>4, <3>7, FsMounted
  <2> QED
    BY <1>5, <2>2, <2>3, <2>4, <2>5 DEF MountBottom
<1>6. ASSUME NEW c \in Callers, MountLayer(c) PROVE FsInv'
  <2>1. /\ pc[c] = "mounts" /\ UNCHANGED <<sn, lastId, slfs, removing>>
        /\ pos[c] + 1 \in 1..Len(Stack(c)) /\ Len(Stack(c)) # pos[c]
    <3>1. Stack(c) \in Seq(Ids) /\ pos[c] \in Nat /\ pos[c] < Len(Stack(c)) /\ pc[c] = "mounts"
      BY <1>6, StackPresent DEF MountLayer, InMounts, Typed
    <3> QED
      BY <1>6, <3>1 DEF MountLayer
  <2>2. PICK i \in Ids : i = Stack(c)[pos[c] + 1] /\ sn[i] # None
    BY <2>1, StackPresent DEF InMounts
  <2>3. PICK l \in Layers \cup {None} : l = sn[i].layer /\ i <= lastId
    BY <1>1, <1>2, <2>2 DEF Snapshots
  <2>4. CallerStep(c) /\ ~CommitSnapshot(c) /\ ~HandOut(c)
    BY <1>6, <2>1 DEF CallerStep, HandOut, CommitSnapshot
  <2>5. CASE UNCHANGED mountVars
    BY <1>4, <2>4, <2>5
  <2>6. CASE l # None /\ Mounted(l, i, Key(i, "committed"))
    <3>1. \A d \in Callers : \A j, m : Bottom(d, j, m) => Bottom(d, j, m)'
      BY <2>4, BottomKept
    <3>2. \A m \in Layers : fs[m] = i => m = l
      BY <1>1, <2>2, <2>3 DEF Owner
    <3>3. l \in Layers /\ (fs[l] = None => \A m \in Layers : fs[m] # i)
      BY <1>1, <2>3, <2>6, <3>2
    <3>4. removing # None => removing.id # i
      BY <1>2, <2>2
    <3>5. Registered(i, l)'
      BY <1>1, <2>6, <3>3 DEF Mounted, Registered
    <3>6. Owner(i, l)'
      BY <2>1, <2>3, <3>5 DEF Owner
    <3> QED
      BY <2>1, <2>6, <3>1, <3>3, <3>4, <3>6, FsMounted
  <2> QED
    BY <1>6, <2>2, <2>3, <2>5, <2>6 DEF MountLayer
\* The lowest layer of an image becomes a snapshot.
<1>7. ASSUME NEW c \in Callers, HandOut(c) PROVE FsInv'
  <2>1. UNCHANGED <<mountVars, slfs, removing>>
    BY <1>7 DEF HandOut
  <2>2. CASE txn # c
    <3>1. UNCHANGED <<sn, lastId, txn, at, id>> /\ Goto(c, "running")
      BY <1>7, <2>2 DEF HandOut
    <3>2. \A d \in Callers : \A i, l : Bottom(d, i, l) => Bottom(d, i, l)'
      BY <2>2, <3>1, GotoPc DEF Bottom, Goal
    <3>3. \A i, l : Owner(i, l) => Owner(i, l)'
      <4> SUFFICES ASSUME NEW i, NEW l, Owner(i, l) PROVE Owner(i, l)'
        OBVIOUS
      <4>1. Registered(i, l) => Registered(i, l)'
        BY <2>1 DEF Registered
      <4> QED
        BY <3>1, <3>2, <4>1, OwnerKept
    <3> QED
      BY <2>1, <3>3, FsKept
  <2>3. CASE txn = c
    <3>1. /\ sn' = [sn EXCEPT ![id[c]] = NewSnapshot(c)] /\ lastId' = id[c]
          /\ id[c] = lastId + 1 /\ id[c] \in Ids
      BY <1>7, <2>3 DEF HandOut, TxnInv, Preparing
    <3>2. ASSUME NEW i, NEW l, Owner(i, l) PROVE Owner(i, l)'
      <4>1. i \in Ids /\ (Registered(i, l) => Registered(i, l)')
        BY <2>1, <3>2 DEF Owner, Registered
      <4>2. CASE i <= lastId
        <5>1. sn'[i] = sn[i] /\ i <= lastId'
          BY <1>1, <3>1, <4>1, <4>2
        <5> QED
          BY <3>2, <4>1, <4>2, <5>1 DEF Owner
      <4>3. CASE ~(i <= lastId)
        <5>1. Registered(i, l) /\ Bottom(c, i, l)
          BY <2>3, <3>2, <4>3 DEF Owner, Bottom
        <5>2. i = id[c] /\ Goal(c) = 1 /\ LayersOf[ImageOf[c]][1] = l
          BY <5>1 DEF Bottom
        <5>3. c \in Pulls /\ at[c] = 1
          BY <1>3, <5>2 DEF Goal, Depth
        <5>4. sn'[i] = NewSnapshot(c) /\ NewSnapshot(c).layer = l /\ i <= lastId'
          BY <1>1, <3>1, <4>1, <5>2, <5>3 DEF NewSnapshot
        <5> QED
          BY <4>1, <5>1, <5>4 DEF Owner
      <4> QED
        BY <4>2, <4>3
    <3> QED
      BY <2>1, <3>2, FsKept
  <2> QED
    BY <2>2, <2>3
\* With the write transaction free, no lowest layer is on its way.
<1>8. ASSUME txn = None, UNCHANGED <<fs, regs, servers, slfs, lastId>>,
             removing' = None \/ UNCHANGED removing,
             \A i \in Ids : sn'[i] = None \/ (sn[i] # None /\ sn'[i].layer = sn[i].layer)
      PROVE  FsInv'
  <2>1. \A d \in Callers : \A i, l : ~Bottom(d, i, l)
    BY <1>1, <1>8 DEF Bottom
  <2>2. \A i, l : Owner(i, l) => Owner(i, l)'
    <3> SUFFICES ASSUME NEW i, NEW l, Owner(i, l) PROVE Owner(i, l)'
      OBVIOUS
    <3>1. i \in Ids /\ (Registered(i, l) => Registered(i, l)')
      BY <1>8 DEF Registered, Owner
    <3> QED
      BY <1>8, <2>1, <3>1, OwnerKept
  <2> QED
    BY <1>8, <2>2, FsKept
<1>9. ASSUME NEW c \in Callers, CommitSnapshot(c) PROVE FsInv'
  <2>1. /\ UNCHANGED <<mountVars, slfs, lastId, removing>> /\ txn = None
        /\ pc[c] = "commit" /\ id[c] \in Ids
    BY <1>9 DEF CommitSnapshot, Typed
  <2>2. \A i \in Ids : sn'[i] = None \/ (sn[i] # None /\ sn'[i].layer = sn[i].layer)
    <3>1. CASE UNCHANGED sn
      BY <3>1
    <3>2. CASE sn[id[c]] # None /\ sn' = [sn EXCEPT ![id[c]] = Committed(c)]
      <4>1. Committed(c).layer = sn[id[c]].layer
        BY <2>1, <3>2, CommittedType
      <4> QED
        BY <1>1, <2>1, <3>2, <4>1
    <3> QED
      BY <1>9, <3>1, <3>2 DEF CommitSnapshot, Committed
  <2> QED
    BY <1>8, <2>1, <2>2
<1>10. ASSUME NEW i \in Ids, Remove(i) PROVE FsInv'
  <2>1. /\ UNCHANGED <<fs, regs, servers, slfs, lastId>> /\ txn = None
        /\ sn' = [sn EXCEPT ![i] = None] /\ sn[i] # None /\ removing = None
        /\ removing' = [id |-> i, kind |-> sn[i].kind, layer |-> sn[i].layer]
    BY <1>10 DEF Remove, Removable
  <2>2. \A l \in Layers : fs[l] = i => sn[i].layer = l
    BY <1>1, <1>2, <2>1 DEF Owner
  <2>3. \A d \in Callers : \A j, l : ~Bottom(d, j, l)
    BY <1>1, <2>1 DEF Bottom
  <2>4. \A l \in Layers, j \in Ids : Owner(j, l) => Owner(j, l)'
    <3> SUFFICES ASSUME NEW j \in Ids, NEW l \in Layers, Owner(j, l) PROVE Owner(j, l)'
      OBVIOUS
    <3>1. /\ sn'[j] = None \/ (sn[j] # None /\ sn'[j].layer = sn[j].layer)
          /\ Registered(j, l) => Registered(j, l)'
      BY <1>1, <2>1 DEF Registered
    <3> QED
      BY <2>1, <2>3, <3>1, OwnerKept
  <2>5. \A l \in Layers : fs'[l] = removing'.id => removing'.layer # None
    BY <1>1, <2>1, <2>2
  <2>6. \A l \in Layers, j \in Ids : fs'[l] = j => Owner(j, l)'
    BY <1>1, <2>1, <2>4
  <2> QED
    BY <2>1, <2>5, <2>6 DEF FsInv
<1>11. CASE RemoveFiles
  <2> DEFINE l == removing.layer
             key == Key(removing.id, removing.kind)
  <2>1. /\ UNCHANGED <<sn, lastId, fs, pc, at, id, txn>> /\ removing' = None
        /\ removing.id \in Ids /\ removing.id <= lastId /\ sn[removing.id] = None
        /\ l \in Layers \cup {None} /\ removing # None
    BY <1>11 DEF RemoveFiles, TreeInv, RemovingGone
  <2>2. \/ UNCHANGED regs
        \/ l \in Layers /\ regs' = [regs EXCEPT ![l] = @ \ {key}]
    BY <1>11, <2>1 DEF RemoveFiles, Unmount
  <2>3. regs' = [m \in Layers |-> regs'[m]] /\ \A m \in Layers : regs[m] \ {key} \subseteq regs'[m]
    BY <1>1, <2>2
  <2>4. \A m \in Layers, j \in Ids : Owner(j, m) => Owner(j, m)'
    <3> SUFFICES ASSUME NEW j \in Ids, NEW m \in Layers, Owner(j, m) PROVE Owner(j, m)'
      OBVIOUS
    <3>1. j # removing.id /\ Registered(j, m) => Registered(j, m)'
      BY <2>3 DEF Registered, Key
    <3>2. \A d \in Callers : Bottom(d, j, m) => Bottom(d, j, m)'
      BY <2>1 DEF Bottom, Goal
    <3>3. sn[j] # None \/ ~(j <= lastId) => j # removing.id
      BY <2>1
    <3> QED
      BY <2>1, <3>1, <3>2, <3>3, OwnerKept
  <2>5. \A m \in Layers, j \in Ids : fs'[m] = j => Owner(j, m)'
    BY <1>1, <2>1, <2>4
  <2>6. servers' \subseteq servers /\ \A p \in servers' : p[2] \in slfs'
    <3>1. \A p \in servers : p[1] \in Layers /\ p[2] \in Ids /\ fs[p[1]] = p[2] /\ p[2] \in slfs
                             /\ p = <<p[1], p[2]>>
      BY DEF FsInv
    <3>2. CASE UNCHANGED <<servers, slfs>>
      BY <3>1, <3>2
    <3>3. CASE /\ l \in Layers /\ fs[l] # None /\ servers' = servers \ {<<l, fs[l]>>}
               /\ slfs' = slfs \ {fs[l]}
      <4>1. \A p \in servers' : p[2] # fs[l]
        BY <3>1, <3>3 DEF FsInv
      <4> QED
        BY <3>1, <3>3, <4>1
    <3>4. CASE l = None /\ slfs' = slfs \ {removing.id} /\ UNCHANGED servers
      <4>1. \A p \in servers : p[2] # removing.id
        BY <2>1, <3>1, <3>4 DEF FsInv
      <4> QED
        BY <3>1, <3>4, <4>1
    <3> QED
      BY <1>11, <2>1, <3>2, <3>3, <3>4 DEF RemoveFiles, Unmount
  <2> HIDE DEF l, key
  <2> QED
    BY <2>1, <2>3, <2>5, <2>6 DEF FsInv
<1>12. CASE (\E img \in Images : Collect(img)) \/ UNCHANGED vars
  <2>1. UNCHANGED <<sn, lastId, slfs, txn, mountVars, pc, at, id, removing>>
    BY <1>12 DEF Collect, vars
  <2>2. \A i, l : Owner(i, l) => Owner(i, l)'
    BY <2>1 DEF Owner, Registered, Bottom, Goal
  <2> QED
    BY <2>1, <2>2, FsKept
<1>13. CASE Crash
  <2>1. /\ fs' = [l \in Layers |-> None] /\ servers' = {} /\ removing' = None
        /\ regs' = [l \in Layers |-> {}]
    BY <1>13 DEF Crash
  <2> QED
    BY <1>1, <2>1 DEF FsInv
<1>14. ASSUME NEW c \in Callers,
              \/ Start(c) \/ Claim(c) \/ Stat(c) \/ CreateSnapshot(c) \/ MakeDirs(c)
              \/ PrepareBottom(c) \/ PrepareManager(c) \/ Mounts(c) \/ Check(c) \/ Finish(c)
       PROVE  FsInv'
  <2>1. CASE HandOut(c) \/ CommitSnapshot(c)
    BY <1>7, <1>9, <2>1
  <2>2. UNCHANGED mountVars
    BY <1>14 DEF Start, Claim, Stat, CreateSnapshot, MakeDirs, PrepareBottom, PrepareManager,
                 Mounts, Check, Finish
  <2> QED
    BY <1>4, <1>14, <2>1, <2>2 DEF CallerStep
<1> QED
  BY <1>5, <1>6, <1>7, <1>9, <1>10, <1>11, <1>12, <1>13, <1>14 DEF Next, CallerStep

-----------------------------------------------------------------------------
(* The keys of the layers in use.                                          *)

\* What is registered stays registered, for the snapshots that stay.
RegKept == \A q \in Ids : sn[q] # None /\ sn'[q] # None /\ Reg(q) => Reg(q)'

LEMMA RegKeptBy ==
  ASSUME Typed, FsInv,
         \A q \in Ids : sn[q] # None /\ sn'[q] # None => sn'[q].layer = sn[q].layer,
         \A q \in Ids, l \in Layers :
           sn[q] # None /\ Key(q, "committed") \in regs[l] => Key(q, "committed") \in regs'[l]
  PROVE  RegKept
<1> SUFFICES ASSUME NEW q \in Ids, sn[q] # None, sn'[q] # None, Reg(q) PROVE Reg(q)'
  BY DEF RegKept
<1>1. sn[q].layer \in Layers \cup {None} /\ sn'[q].layer = sn[q].layer
  BY DEF Typed, Snapshots
<1> QED
  BY <1>1 DEF Reg, Key

\* The stack that mounts goes through stays the same.
LEMMA StackSame ==
  ASSUME NEW d \in Callers, id'[d] = id[d], at'[d] = at[d],
         txn = d => txn' = d /\ UNCHANGED sn,
         txn # d => txn' # d /\ sn'[id[d]].stack = sn[id[d]].stack
  PROVE  Stack(d)' = Stack(d)
<1>1. CASE txn # d
  BY <1>1 DEF Stack
<1>2. CASE txn = d
  <2>1. Goal(d)' = Goal(d)
    BY DEF Goal
  <2>2. ParentOf(d)' = ParentOf(d)
    BY <1>2, <2>1 DEF ParentOf, Named, Chain
  <2>3. ParentStack(d)' = ParentStack(d)
    BY <1>2, <2>2 DEF ParentStack
  <2> QED
    BY <1>2, <2>1, <2>3 DEF Stack
<1> QED
  BY <1>1, <1>2

\* A caller that stays in mounts, or outside it.
LEMMA MountingKept ==
  ASSUME Typed, TxnInv, TreeInv, RegKept, NEW d \in Callers, Mounting(d),
         pc'[d] = pc[d], pos'[d] = pos[d], id'[d] = id[d], at'[d] = at[d],
         txn = d => txn' = d /\ UNCHANGED sn,
         txn # d => txn' # d,
         pc[d] \in InMounts /\ txn # d => sn'[id[d]] # None /\ sn'[id[d]].stack = sn[id[d]].stack,
         pc[d] \in InMounts => \A n \in 1..Len(Stack(d)) : sn'[Stack(d)[n]] # None
  PROVE  Mounting(d)'
<1>1. CASE pc[d] \notin InMounts
  BY <1>1 DEF Mounting
<1>2. CASE pc[d] \in InMounts
  <2>1. Stack(d)' = Stack(d)
    BY <1>2, StackSame
  <2>2. \A n \in 1..Len(Stack(d)) : Stack(d)[n] \in Ids /\ sn[Stack(d)[n]] # None
    BY <1>2, StackPresent
  <2>3. \A n \in 1..pos[d] : n <= Len(Stack(d)) /\ Reg(Stack(d)[n]) /\ n \in 1..Len(Stack(d))
    <3>1. pos[d] \in Nat /\ Stack(d) \in Seq(Ids)
      BY <1>2, StackPresent DEF Typed
    <3> QED
      BY <1>2, <3>1 DEF Mounting
  <2>4. \A n \in 1..pos[d] : Reg(Stack(d)[n])'
    <3> SUFFICES ASSUME NEW n \in 1..pos[d] PROVE Reg(Stack(d)[n])'
      OBVIOUS
    <3>1. PICK q \in Ids : q = Stack(d)[n] /\ sn[q] # None /\ sn'[q] # None /\ Reg(q)
      BY <1>2, <2>2, <2>3
    <3>2. Reg(q)'
      BY <3>1 DEF RegKept
    <3> QED
      BY <2>1, <3>1, <3>2
  <2> QED
    BY <1>2, <2>1, <2>3, <2>4 DEF Mounting
<1> QED
  BY <1>1, <1>2

LEMMA InUseKept ==
  ASSUME Typed, TreeInv, RegKept, NEW i \in Ids, InUse(i), sn'[i] # None, sn'[i].stack = sn[i].stack,
         \A n \in 1..Len(sn[i].stack) : sn'[sn[i].stack[n]] # None
  PROVE  InUse(i)'
<1>1. sn[i] # None /\ \A n \in 1..Len(sn[i].stack) : sn[i].stack[n] \in Ids
  BY DEF InUse, Typed, Snapshots
<1> QED
  BY <1>1 DEF InUse, RegKept

LEMMA RegsInit == Init => RegsInv
<1> SUFFICES ASSUME Init PROVE RegsInv
  OBVIOUS
<1>1. \A c \in Callers : pc[c] \notin InMounts /\ pos[c] = 0
  BY DEF Init, InMounts
<1> QED
  BY <1>1 DEF Init, RegsInv, Mounting

\* mounts goes through the stack.
LEMMA MountingStep ==
  ASSUME Typed, TxnInv, TreeInv, FsInv, RegsInv, RegKept, NEW c \in Callers,
         CallerStep(c), ~CommitSnapshot(c), ~HandOut(c)
  PROVE  Mounting(c)'
<1> USE DEF disk, maps, mountVars, callerVars
<1>1. Mounting(c)
  BY DEF RegsInv
<1>2. CASE Start(c) \/ Claim(c) \/ Stat(c) \/ CreateSnapshot(c) \/ MakeDirs(c) \/ Mounts(c)
           \/ Check(c) \/ Finish(c)
  <2>1. UNCHANGED pos /\ pc[c] \notin InMounts
    BY <1>2 DEF Start, Claim, Stat, CreateSnapshot, MakeDirs, Mounts, Check, Finish, InMounts
  <2> QED
    BY <1>1, <2>1 DEF Mounting
<1>3. ASSUME Fail(c) PROVE Mounting(c)'
  <2>1. pos' = [pos EXCEPT ![c] = 0] /\ \E s \in {"failed", "running"} : Goto(c, s)
    BY <1>3 DEF Fail, Leave
  <2>2. pc'[c] \notin InMounts
    BY <2>1, GotoPc DEF InMounts
  <2> QED
    BY <2>1, <2>2 DEF Mounting, Typed
<1>4. CASE PrepareBottom(c) \/ MountBottom(c)
  <2>1. CASE Fail(c)
    BY <1>3, <2>1
  <2>2. CASE UNCHANGED pos /\ pc[c] \notin InMounts
    BY <1>1, <2>2 DEF Mounting
  <2> QED
    BY <1>4, <2>1, <2>2 DEF PrepareBottom, MountBottom, InMounts
\* It stays where it is in the stack.
<1>5. ASSUME pc[c] \in InMounts, pc'[c] \in InMounts, UNCHANGED <<sn, txn, at, id, pos>>
      PROVE  Mounting(c)'
  <2>1. Stack(c)' = Stack(c)
    BY <1>5, StackSame
  <2>2. /\ Stack(c) \in Seq(Ids) /\ pos[c] \in Nat
        /\ \A n \in 1..Len(Stack(c)) : Stack(c)[n] \in Ids /\ sn[Stack(c)[n]] # None
    BY <1>5, StackPresent DEF Typed
  <2>3. \A n \in 1..pos[c] : n <= Len(Stack(c)) /\ n \in 1..Len(Stack(c)) /\ Reg(Stack(c)[n])
    BY <1>1, <1>5, <2>2 DEF Mounting
  <2>4. \A n \in 1..pos[c] : Reg(Stack(c)[n])'
    <3> SUFFICES ASSUME NEW n \in 1..pos[c] PROVE Reg(Stack(c)[n])'
      OBVIOUS
    <3>1. PICK q \in Ids : q = Stack(c)[n] /\ sn[q] # None /\ Reg(q)
      BY <2>2, <2>3
    <3>2. Reg(q)'
      BY <1>5, <3>1 DEF RegKept
    <3> QED
      BY <2>1, <3>1, <3>2
  <2> QED
    BY <1>5, <2>1, <2>3, <2>4 DEF Mounting
<1>6. CASE PrepareManager(c)
  <2>1. CASE Fail(c)
    BY <1>3, <2>1
  <2>2. CASE UNCHANGED <<txn, pos>> /\ (UNCHANGED pc \/ Goto(c, "mounts"))
    <3>1. pc[c] \in InMounts /\ pc'[c] \in InMounts
      BY <1>6, <2>2, GotoPc DEF PrepareManager, InMounts
    <3> QED
      BY <1>5, <1>6, <2>2, <3>1 DEF PrepareManager
  <2> QED
    BY <1>6, <2>1, <2>2 DEF PrepareManager
<1>7. CASE MountLayer(c)
  <2>1. CASE Fail(c)
    BY <1>3, <2>1
  <2>2. CASE Goto(c, "manager") /\ UNCHANGED <<txn, pos>>
    <3>1. pc[c] \in InMounts /\ pc'[c] \in InMounts
      BY <1>7, <2>2, GotoPc DEF MountLayer, InMounts
    <3> QED
      BY <1>5, <1>7, <2>2, <3>1 DEF MountLayer
  <2>3. CASE /\ pos' = [pos EXCEPT ![c] = @ + 1] /\ UNCHANGED <<pc, txn>>
             /\ LET i == Stack(c)[pos[c] + 1] IN
                sn[i].layer = None \/ Mounted(sn[i].layer, i, Key(i, "committed"))
    <3>1. /\ Stack(c) \in Seq(Ids) /\ pos[c] \in Nat /\ pos[c] < Len(Stack(c)) /\ pc[c] \in InMounts
          /\ \A n \in 1..Len(Stack(c)) : Stack(c)[n] \in Ids /\ sn[Stack(c)[n]] # None
          /\ UNCHANGED <<sn, id, at>>
      BY <1>7, StackPresent DEF MountLayer, InMounts, Typed
    <3>2. PICK S \in Seq(Ids) : S = Stack(c)
      BY <3>1
    <3>3. PICK k \in Nat : k = pos[c]
      BY <3>1
    <3>4. Stack(c)' = S /\ pos'[c] = k + 1 /\ pc'[c] \in InMounts
      BY <2>3, <3>1, <3>2, <3>3, StackSame DEF Typed
    <3>5. ASSUME NEW n \in 1..(k + 1) PROVE n <= Len(S) /\ Reg(S[n])'
      <4>1. PICK q \in Ids : q = S[n] /\ n <= Len(S) /\ sn[q] # None
        BY <3>1, <3>2, <3>3
      <4>2. CASE n \in 1..k
        <5>1. Reg(q)
          BY <1>1, <3>1, <3>2, <3>3, <4>1, <4>2 DEF Mounting
        <5> QED
          BY <3>1, <4>1, <5>1 DEF RegKept
      <4>3. CASE n = k + 1
        <5>1. sn[q].layer = None \/ Mounted(sn[q].layer, q, Key(q, "committed"))
          BY <2>3, <3>2, <3>3, <4>1, <4>3
        <5>2. sn[q].layer \in Layers \cup {None} /\ regs = [l \in Layers |-> regs[l]]
          BY <4>1 DEF Typed, Snapshots, FsInv
        <5>3. Reg(q)'
          BY <3>1, <5>1, <5>2 DEF Reg, Mounted
        <5> QED
          BY <4>1, <5>3
      <4> QED
        BY <4>2, <4>3
    <3> QED
      BY <3>4, <3>5 DEF Mounting
  <2> QED
    BY <1>7, <2>1, <2>2, <2>3 DEF MountLayer
<1> QED
  BY <1>2, <1>4, <1>6, <1>7 DEF CallerStep

LEMMA RegsStep ==
  ASSUME Typed, TxnInv, TreeInv, FsInv, RegsInv, RemoveParents = FALSE, [Next]_vars
  PROVE  RegsInv'
<1> USE DEF disk, maps, mountVars, callerVars
<1>1. /\ sn \in [Ids -> Snapshots \cup {None}] /\ handed \subseteq Ids /\ None \notin Snapshots
      /\ regs = [l \in Layers |-> regs[l]] /\ None \notin Callers
  BY BoundsAssumption DEF Typed, FsInv, Callers
<1>2. (\A c \in Callers : Mounting(c)) /\ \A i \in handed : i \in Ids /\ InUse(i) /\ sn[i] # None
  BY <1>1 DEF RegsInv, InUse
<1>3. \A i \in Ids : sn[i] # None =>
        /\ sn[i].stack \in Seq(Ids) /\ (removing # None => removing.id # i)
        /\ \A n \in 1..Len(sn[i].stack) : sn[i].stack[n] \in Ids /\ sn[sn[i].stack[n]] # None
  BY <1>1 DEF TreeInv, Present, RemovingGone, Snapshots
<1>4. \A c \in Callers : pc[c] \in InMounts =>
        /\ Stack(c) \in Seq(Ids)
        /\ \A n \in 1..Len(Stack(c)) : Stack(c)[n] \in Ids /\ sn[Stack(c)[n]] # None
        /\ txn # c => id[c] \in Ids /\ sn[id[c]] # None
  BY StackPresent DEF Typed, TxnInv, Preparing
\* The snapshots stay: so do the overlays, and the callers that do not move.
<1>5. ASSUME RegKept, \A i \in Ids : sn[i] # None => sn'[i] # None /\ sn'[i].stack = sn[i].stack
      PROVE  /\ \A i \in handed : InUse(i)'
             /\ \A d \in Callers :
                  /\ pc'[d] = pc[d] /\ pos'[d] = pos[d] /\ id'[d] = id[d] /\ at'[d] = at[d]
                  /\ txn = d => txn' = d /\ UNCHANGED sn
                  /\ txn # d => txn' # d
                  => Mounting(d)'
  <2>1. \A i \in handed : InUse(i)'
    BY <1>2, <1>3, <1>5, InUseKept
  <2>2. ASSUME NEW d \in Callers,
               pc'[d] = pc[d], pos'[d] = pos[d], id'[d] = id[d], at'[d] = at[d],
               txn = d => txn' = d /\ UNCHANGED sn, txn # d => txn' # d
        PROVE  Mounting(d)'
    BY <1>2, <1>4, <1>5, <2>2, MountingKept
  <2> QED
    BY <2>1, <2>2
<1>6. ASSUME NEW c \in Callers, CallerStep(c), ~HandOut(c), ~CommitSnapshot(c) PROVE RegsInv'
  <2>1. UNCHANGED <<sn, handed>>
    BY <1>6 DEF CallerStep, Start, Claim, Stat, CreateSnapshot, MakeDirs, PrepareBottom,
       MountBottom, MountLayer, PrepareManager, Mounts, Check, Finish
  <2>2. RegKept
    <3>1. UNCHANGED regs \/ \E l \in Layers : \E key : regs' = [regs EXCEPT ![l] = @ \cup {key}]
      <4>1. ASSUME MountBottom(c) PROVE LayersOf[ImageOf[c]][1] \in Layers
        BY ImagesAssumption DEF Depth
      <4>2. ASSUME MountLayer(c) PROVE sn[Stack(c)[pos[c] + 1]].layer \in Layers \cup {None}
        <5>1. pos[c] + 1 \in 1..Len(Stack(c)) /\ pc[c] \in InMounts
          <6>1. pos[c] \in Nat /\ pc[c] \in InMounts /\ pos[c] < Len(Stack(c))
            BY <4>2 DEF MountLayer, InMounts, Typed
          <6>2. Len(Stack(c)) \in Nat
            BY <1>4, <6>1
          <6> QED
            BY <6>1, <6>2
        <5> QED
          BY <1>1, <1>4, <5>1 DEF Snapshots
      <4>3. CASE MountBottom(c)
        BY <4>1, <4>3 DEF MountBottom, Mounted
      <4>4. CASE MountLayer(c)
        BY <4>2, <4>4 DEF MountLayer, Mounted
      <4> QED
        BY <1>6, <4>3, <4>4 DEF CallerStep, Start, Claim, Stat, CreateSnapshot, MakeDirs,
           PrepareBottom, PrepareManager, Mounts, Check, Finish
    <3>2. \A l \in Layers : regs[l] \subseteq regs'[l]
      BY <1>1, <3>1
    <3> QED
      BY <2>1, <3>2, RegKeptBy
  <2>3. \A d \in Callers : d # c => Mounting(d)'
    BY <1>5, <1>6, <2>1, <2>2, CallerFrame
  <2>4. Mounting(c)'
    BY <1>6, <2>2, MountingStep
  <2> QED
    BY <1>5, <2>1, <2>2, <2>3, <2>4 DEF RegsInv
<1>7. ASSUME NEW c \in Callers, HandOut(c) PROVE RegsInv'
  <2>1. /\ pc[c] \in InMounts /\ pos[c] = Len(Stack(c)) /\ UNCHANGED <<regs, id>>
        /\ handed' = handed \cup {id[c]} /\ pos' = [pos EXCEPT ![c] = 0] /\ CallerStep(c)
        /\ \E s \in {"commit", "running"} : Goto(c, s)
    BY <1>7 DEF HandOut, Leave, InMounts, CallerStep
  <2>2. PICK S \in Seq(Ids) : S = Stack(c)
    BY <1>4, <2>1
  <2>3. \A n \in 1..Len(S) : S[n] \in Ids /\ sn[S[n]] # None /\ Reg(S[n])
    BY <1>2, <1>4, <2>1, <2>2 DEF Mounting
  <2>4. /\ \A i \in Ids : sn[i] # None => sn'[i] = sn[i]
        /\ id[c] \in Ids /\ sn'[id[c]] # None /\ sn'[id[c]].stack = S
    <3>1. CASE txn # c
      BY <1>4, <1>7, <2>1, <2>2, <3>1 DEF HandOut, Stack
    <3>2. CASE txn = c
      <4>1. sn' = [sn EXCEPT ![id[c]] = NewSnapshot(c)] /\ id[c] = lastId + 1 /\ id[c] \in Ids
        BY <1>7, <3>2 DEF HandOut, TxnInv, Preparing
      <4>2. sn[id[c]] = None
        BY <4>1 DEF TreeInv, Present, Typed
      <4>3. NewSnapshot(c) \in Snapshots
        BY <1>7, <2>2, NewSnapshotType DEF HandOut
      <4> QED
        BY <1>1, <2>2, <4>1, <4>2, <4>3 DEF NewSnapshot
    <3> QED
      BY <3>1, <3>2
  <2>5. RegKept
    BY <2>1, <2>4 DEF RegKept, Reg
  <2>6. InUse(id[c])'
    <3>1. \A n \in 1..Len(S) : sn'[S[n]] # None /\ Reg(S[n])'
      BY <2>3, <2>4, <2>5 DEF RegKept
    <3> QED
      BY <2>1, <2>4, <3>1 DEF InUse
  <2>7. Mounting(c)'
    BY <2>1, GotoPc DEF Mounting, Typed, InMounts
  <2>8. \A d \in Callers : d # c => Mounting(d)'
    BY <1>5, <2>1, <2>4, <2>5, CallerFrame
  <2> QED
    BY <1>5, <2>1, <2>4, <2>5, <2>6, <2>7, <2>8 DEF RegsInv
<1>8. ASSUME NEW c \in Callers, CommitSnapshot(c) PROVE RegsInv'
  <2>1. /\ UNCHANGED <<regs, pos>> /\ id[c] \in Ids /\ handed' \subseteq handed /\ CallerStep(c)
        /\ pc[c] = "commit" /\ \E s \in {"check", "failed"} : Goto(c, s)
    BY <1>8 DEF CommitSnapshot, Typed, CallerStep
  <2>2. \A i \in Ids : sn[i] # None => /\ sn'[i] # None /\ sn'[i].stack = sn[i].stack
                                       /\ sn'[i].layer = sn[i].layer
    <3>1. CASE UNCHANGED sn
      BY <3>1
    <3>2. CASE sn[id[c]] # None /\ sn' = [sn EXCEPT ![id[c]] = Committed(c)]
      <4>1. /\ Committed(c) # None
            /\ Committed(c).stack = sn[id[c]].stack /\ Committed(c).layer = sn[id[c]].layer
        BY <1>1, <2>1, <3>2, CommittedType
      <4> QED
        BY <1>1, <2>1, <3>2, <4>1
    <3> QED
      BY <1>8, <3>1, <3>2 DEF CommitSnapshot, Committed
  <2>3. RegKept
    BY <2>1, <2>2 DEF RegKept, Reg
  <2>4. Mounting(c)'
    BY <1>2, <2>1, GotoPc DEF Mounting, InMounts
  <2>5. \A d \in Callers : d # c => Mounting(d)'
    BY <1>5, <2>1, <2>2, <2>3, CallerFrame
  <2> QED
    BY <1>5, <2>1, <2>2, <2>3, <2>4, <2>5 DEF RegsInv
<1>9. ASSUME NEW i \in Ids, Remove(i) PROVE RegsInv'
  <2>1. /\ Children(i) = {} /\ UNCHANGED <<regs, txn, callerVars>> /\ handed' = handed \ {i}
        /\ sn' = [sn EXCEPT ![i] = None] /\ txn = None
        /\ \A c \in Containers : id[c] = i => pc[c] \notin InMounts
    BY <1>9 DEF Remove, Removable, InMounts
  <2>2. \A j \in Ids : j # i => sn'[j] = sn[j]
    BY <1>1, <2>1
  <2>3. RegKept
    <3>1. sn'[i] = None
      BY <1>1, <2>1
    <3> QED
      BY <2>1, <2>2, <3>1 DEF RegKept, Reg
  <2>4. ASSUME NEW j \in Ids, j # i, sn[j] # None
        PROVE  \A n \in 1..Len(sn[j].stack) : sn'[sn[j].stack[n]] # None
    <3>1. \A n \in 1..Len(sn[j].stack) : sn[j].stack[n] \in Ids /\ sn[j].stack[n] # i
      BY <1>3, <2>1, <2>4 DEF Children
    <3> QED
      BY <1>3, <2>2, <2>4, <3>1
  <2>5. \A j \in handed' : InUse(j)'
    BY <1>2, <2>1, <2>2, <2>3, <2>4, InUseKept
  <2>6. \A d \in Callers : Mounting(d)'
    <3> SUFFICES ASSUME NEW d \in Callers PROVE Mounting(d)'
      OBVIOUS
    <3>1. CASE pc[d] \notin InMounts
      BY <1>2, <2>1, <3>1 DEF Mounting
    <3>2. CASE pc[d] \in InMounts
      <4>1. txn # d /\ txn' # d /\ id[d] \in Ids /\ sn[id[d]] # None /\ id[d] # i
        BY <1>1, <1>4, <2>1, <3>2 DEF TxnInv, Preparing
      <4>2. Stack(d) = sn[id[d]].stack /\ sn'[id[d]] = sn[id[d]]
        BY <2>2, <4>1 DEF Stack
      <4>3. \A n \in 1..Len(Stack(d)) : sn'[Stack(d)[n]] # None
        BY <2>4, <4>1, <4>2
      <4> QED
        BY <1>2, <2>1, <2>3, <4>1, <4>2, <4>3, MountingKept
    <3> QED
      BY <3>1, <3>2
  <2> QED
    BY <2>5, <2>6 DEF RegsInv
<1>10. CASE RemoveFiles
  <2>1. /\ UNCHANGED <<sn, handed, txn, callerVars>>
        /\ \/ UNCHANGED regs
           \/ regs' = [regs EXCEPT ![removing.layer] = @ \ {Key(removing.id, removing.kind)}]
        /\ removing # None
    BY <1>10 DEF RemoveFiles, Unmount
  <2>2. \A l \in Layers : regs[l] \ {Key(removing.id, removing.kind)} \subseteq regs'[l]
    BY <1>1, <2>1
  <2>3. RegKept
    <3>1. \A q \in Ids : sn[q] # None => Key(q, "committed") # Key(removing.id, removing.kind)
      BY <1>3, <2>1 DEF Key
    <3> QED
      BY <2>1, <2>2, <3>1, RegKeptBy
  <2> QED
    BY <1>5, <2>1, <2>3 DEF RegsInv
<1>11. CASE (\E img \in Images : Collect(img)) \/ UNCHANGED vars
  <2>1. UNCHANGED <<sn, handed, txn, callerVars, regs>>
    BY <1>11 DEF Collect, vars
  <2>2. RegKept
    BY <2>1 DEF RegKept, Reg
  <2> QED
    BY <1>5, <2>1, <2>2 DEF RegsInv
<1>12. CASE Crash
  <2>1. handed' = {} /\ \A c \in Callers : pos'[c] = 0 /\ pc'[c] \notin InMounts
    BY <1>12 DEF Crash, InMounts
  <2> QED
    BY <2>1 DEF RegsInv, Mounting
<1> QED
  BY <1>6, <1>7, <1>8, <1>9, <1>10, <1>11, <1>12 DEF Next

-----------------------------------------------------------------------------
(* The theorems.  Containerd removes a snapshot only when no other one has it *)
(* as its parent, so RemoveParents is FALSE.                                *)

IInv == Typed /\ TxnInv /\ TreeInv /\ FsInv /\ RegsInv

LEMMA Invariance ==
  ASSUME RemoveParents = FALSE
  PROVE  Spec => []IInv
<1>1. Init => IInv
  BY TypedInit, TreeInit, FsInit, RegsInit DEF IInv
<1>2. IInv /\ [Next]_vars => IInv'
  BY TypedStep, TreeStep, FsStep, RegsStep DEF IInv
<1> QED
  BY <1>1, <1>2, PTL DEF Spec

\* One FUSE server at most serves a layer, however the mounts of two callers, the
\* removals and the crashes fall: Client.Mount starts one only where fs is nil.
THEOREM OneServerPerLayer == RemoveParents = FALSE => (Spec => []OneServer)
<1> SUFFICES ASSUME RemoveParents = FALSE PROVE Spec => []OneServer
  OBVIOUS
<1>1. IInv => OneServer
  BY DEF IInv, FsInv, OneServer
<1> QED
  BY <1>1, Invariance, PTL

\* A snapshot in the metastore has its directories and a FUSE server the one it is
\* mounted on, whatever fails in newSnapshot, mounts and Unmount and whenever the daemon
\* dies: the id a leaked or a rolled back transaction had is used again, but never while
\* Remove still has to delete its directories; and Unmount deletes the directory of a
\* snapshot other than the one removed only after that one was removed too.
THEOREM DirectoriesKept == RemoveParents = FALSE => (Spec => []DirsKept)
<1> SUFFICES ASSUME RemoveParents = FALSE PROVE Spec => []DirsKept
  OBVIOUS
<1>1. IInv => DirsKept
  BY DEF IInv, TreeInv, HasDirs, FsInv, DirsKept
<1> QED
  BY <1>1, Invariance, PTL

\* The layers of an overlay that was handed out stay registered: mounts went through
\* the whole stack, a parent cannot be removed under it, and what Remove unregisters
\* late is no longer anybody's parent.
THEOREM InUseStaysRegistered == RemoveParents = FALSE => (Spec => []InUseRegistered)
<1> SUFFICES ASSUME RemoveParents = FALSE PROVE Spec => []InUseRegistered
  OBVIOUS
<1>1. IInv => InUseRegistered
  BY DEF IInv, RegsInv, InUse, Reg, InUseRegistered
<1> QED
  BY <1>1, Invariance, PTL

\* So no step takes down the file system of a layer an overlay still has.
THEOREM TeardownOfUnusedOnly == RemoveParents = FALSE => (Spec => TeardownUnused)
<1> SUFFICES ASSUME RemoveParents = FALSE PROVE Spec => TeardownUnused
  OBVIOUS
<1> DEFINE Safe == \A l \in Layers :
      servers \cap ({l} \X Ids) # {} /\ servers' \cap ({l} \X Ids) = {}
      => \A i \in handed' : \A n \in 1..Len(sn[i].stack) : sn[sn[i].stack[n]].layer # l
<1>1. ASSUME IInv, [Next]_vars PROVE Safe
  <2> USE DEF disk, maps, mountVars, callerVars
  <2>1. servers \subseteq servers' => Safe
    OBVIOUS
  <2>2. CASE RemoveFiles
    <3> SUFFICES ASSUME NEW l \in Layers, servers \cap ({l} \X Ids) # {},
                        servers' \cap ({l} \X Ids) = {},
                        NEW i \in handed, NEW n \in 1..Len(sn[i].stack),
                        sn[sn[i].stack[n]].layer = l
                 PROVE  FALSE
      BY <2>2 DEF RemoveFiles
    <3> DEFINE q == sn[i].stack[n]
    <3>1. sn[q] # None /\ Key(q, "committed") \in regs[l]
      BY <1>1, BoundsAssumption DEF IInv, RegsInv, InUse, Reg
    <3>2. l = removing.layer /\ regs[l] = {Key(removing.id, removing.kind)}
      BY <1>1, <2>2 DEF RemoveFiles, Unmount, IInv, FsInv
    <3>3. q = removing.id
      BY <3>1, <3>2 DEF Key
    <3> QED
      BY <1>1, <2>2, <3>1, <3>3 DEF RemoveFiles, IInv, TreeInv, RemovingGone
  <2>3. CASE Crash
    BY <2>3 DEF Crash
  <2>4. ASSUME NEW c \in Callers, CallerStep(c) PROVE servers \subseteq servers'
    BY <2>4 DEF CallerStep, Start, Claim, Stat, CreateSnapshot, MakeDirs, PrepareBottom,
                MountBottom, MountLayer, PrepareManager, HandOut, Mounts, CommitSnapshot, Check,
                Finish, Mounted
  <2>5. ASSUME (\E i \in Ids : Remove(i)) \/ (\E img \in Images : Collect(img)) \/ UNCHANGED vars
        PROVE  servers \subseteq servers'
    BY <2>5 DEF Remove, Collect, vars
  <2> QED
    BY <1>1, <2>1, <2>2, <2>3, <2>4, <2>5 DEF Next
<1>2. IInv /\ [Next]_vars => [Safe]_vars
  BY <1>1
<1> QED
  BY <1>2, Invariance, PTL DEF Spec, TeardownUnused
=============================================================================
