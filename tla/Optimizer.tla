------------------------------ MODULE Optimizer ------------------------------
(***************************************************************************)
(* The optimizer: the daemon traces which files of an image a container      *)
(* opens, the operator reports the traces to the proxy, and the proxy keeps  *)
(* for each file the ranks it had, by which it later sorts a payload.        *)
(*                                                                         *)
(* Managers register in managerMap and start a tracer when the optimizer is   *)
(* on; SetOptimizer switches all of them; a tracer collects in memory and     *)
(* writes its file when it is closed; ReportTraces reads the files, removes   *)
(* them, merges them into groups and uploads those.                          *)
(*                                                                         *)
(* A definition named after another one (RemovedDir before Removed)          *)
(* is that code with a plausible bug, which a run has to detect when it takes *)
(* its place; no specification uses it.                                     *)
(***************************************************************************)
EXTENDS Integers, Sequences, FiniteSets, SequencesExt

CONSTANTS
  Managers,   \* one for each pull or LoadImage; 0 is none
  Images,     \* manifest digests, numbers, which order them
  Groups, Default,  \* names of optimize groups; Default is "default"
  Paths,      \* the files of an image: pairs of a stack and a name
  Layer,      \* [Images -> [stacks -> layers]]
  Known,      \* the images the proxy has and are ready
  Reporters,  \* ReportTraces handlers
  MaxSwitches,  \* bound: how often the optimizer is switched on
  MaxActors,    \* bound: the managers there have been and the reports there are
  MaxEvents     \* bound: the opens, and the writes, closes, removes and uploads that fail
                \* and the crashes.  Creating the file of a tracer never fails.

ASSUME OptimizerAssumption ==
  /\ Images \subseteq Nat /\ 0 \notin Managers
  /\ Default \in Groups /\ Known \subseteq Images
  /\ MaxSwitches \in Nat /\ MaxActors \in Nat /\ MaxEvents \in Nat

VARIABLES
  optimizer,  \* c.defaultOptimizer and its group: <<>> or <<group>>
  managerMap, \* [Images -> Managers \cup {0}]
  pull,       \* [Managers -> the step of its pull]
  imageOf,    \* [Managers -> Images \cup {-1}]
  tracer,     \* [Managers -> <<>> or <<tracer>>]
  stuck,      \* the managers that keep a tracer whose file they could not close
  opens,      \* files being opened: a manager, a path and the access time
  dir,        \* the traces directory: [id, body], body empty until it is closed
  report,     \* [Reporters -> [at, files, got]]
  order,      \* the proxy's file.order: one record for each rank appended
  now,        \* the clock
  switches, accesses, faults,  \* how many there were
  traced, sent, lost   \* for properties: what was logged, uploaded and lost

vars == <<optimizer, managerMap, pull, imageOf, tracer, stuck, opens, dir, report, order,
          now, switches, accesses, faults, traced, sent, lost>>

Registered == {m \in Managers : \E i \in Images : managerMap[i] = m}
NoReport == [at |-> "idle", files |-> {}, got |-> <<>>]

Init ==
  /\ optimizer = <<>>
  /\ managerMap = [i \in Images |-> 0]
  /\ pull = [m \in Managers |-> "none"]
  /\ imageOf = [m \in Managers |-> -1]
  /\ tracer = [m \in Managers |-> <<>>] /\ stuck = {}
  /\ opens = {} /\ dir = {}
  /\ report = [r \in Reporters |-> NoReport]
  /\ order = {} /\ now = 0 /\ switches = 0 /\ accesses = 0 /\ faults = 0
  /\ traced = {} /\ sent = {} /\ lost = {}

\* A step in which something may fail; it does if fails.
FaultIf(fails) ==
  /\ fails => accesses + faults < MaxEvents
  /\ faults' = IF fails THEN faults + 1 ELSE faults

Room ==
  Cardinality({m \in Managers : pull[m] # "none"})
    + Cardinality({r \in Reporters : report[r].at # "idle"}) < MaxActors

-----------------------------------------------------------------------------
(* Sorting.                                                                *)

\* sort.Sort: the elements of S by key, those with the same key in some order.
SortedBy(S, key) ==
  CHOOSE s \in [1..Cardinality(S) -> S] :
    /\ Range(s) = S
    /\ \A j, k \in 1..Cardinality(S) : j < k => key[s[j]] \leq key[s[k]]
\* The elements of a sequence at some places of it, by the key of the place.
Arranged(seq, places, key) ==
  LET sorted == SortedBy(places, key) IN [k \in 1..Cardinality(places) |-> seq[sorted[k]]]
Kept(seq, places) == Arranged(seq, places, [k \in places |-> k])

-----------------------------------------------------------------------------
(* Tracer.                                                                 *)

\* NewTracer, and the empty file it creates.
NewTracer(m, i, group) ==
  [id |-> <<m, now>>, group |-> group, image |-> i, start |-> now, seq |-> <<>>]
Fresh(m) == [id |-> <<m, now>>, body |-> <<>>]

\* Manager.tracer is not nil.
HasTracer(m) == tracer[m] # <<>> \/ m \in stuck

Times(t) == {x.at : x \in Range(t.seq)}
TimesOf(ts) == UNION {Times(t) : t \in ts}

\* Tracer.Log: the open of a file that has to wait is logged after it has waited.
Access(o, t) == [name |-> o.path[2], stack |-> o.path[1], access |-> o.at - t.start,
                 at |-> o.at]
\* Tracer.Close sorts by access time and writes the file, if it is still linked.
Closed(t) == [t EXCEPT !.seq = Arranged(@, DOMAIN @, [k \in DOMAIN @ |-> @[k].access])]
Written(ms) ==
  {LET open == {m \in ms : tracer[m] # <<>> /\ tracer[m][1].id = f.id} IN
   IF open = {} THEN f ELSE [f EXCEPT !.body = <<Closed(tracer[CHOOSE m \in open : TRUE][1])>>]
   : f \in dir}

-----------------------------------------------------------------------------
(* Managers.  The clock advances by two with a tracer and by one with an open, *)
(* so that the starts of two tracers can be further apart than two accesses. *)

\* pullImage: the manager takes the place of an older one of the image, which goes on
\* serving its mounts, and managerMapLock is released.
Register(m, i) ==
  /\ pull[m] = "none" /\ Room
  /\ pull' = [pull EXCEPT ![m] = "registered"]
  /\ imageOf' = [imageOf EXCEPT ![m] = i]
  /\ managerMap' = [managerMap EXCEPT ![i] = m]
  /\ UNCHANGED <<optimizer, tracer, stuck, opens, dir, report, order, now, switches, accesses, faults, traced, sent, lost>>

\* Then it reads defaultOptimizer, without a lock.
CheckDefault(m) ==
  /\ pull[m] = "registered"
  /\ pull' = [pull EXCEPT ![m] = IF optimizer = <<>> THEN "ready" ELSE "enabling"]
  /\ UNCHANGED <<optimizer, managerMap, imageOf, tracer, stuck, opens, dir, report, order, now, switches, accesses, faults, traced, sent, lost>>

\* And calls Manager.SetOptimizerOn with the group it now reads, "" if it was switched
\* off in between.
Enable(m) ==
  /\ pull[m] = "enabling"
  /\ pull' = [pull EXCEPT ![m] = "ready"]
  /\ IF HasTracer(m) THEN UNCHANGED <<tracer, dir, now>>
     ELSE /\ tracer' = [tracer EXCEPT ![m] =
                          <<NewTracer(m, imageOf[m], IF optimizer = <<>> THEN "" ELSE optimizer[1])>>]
          /\ dir' = dir \cup {Fresh(m)}
          /\ now' = now + 2
  /\ UNCHANGED <<optimizer, managerMap, imageOf, stuck, opens, report, order, switches, accesses, faults, traced, sent, lost>>

\* LoadImage does all of that while it holds managerMapLock, if there is no manager.
Load(m, i) ==
  /\ pull[m] = "none" /\ managerMap[i] = 0 /\ Room
  /\ pull' = [pull EXCEPT ![m] = "ready"]
  /\ imageOf' = [imageOf EXCEPT ![m] = i]
  /\ managerMap' = [managerMap EXCEPT ![i] = m]
  /\ IF optimizer = <<>> THEN UNCHANGED <<tracer, dir, now>>
     ELSE /\ tracer' = [tracer EXCEPT ![m] = <<NewTracer(m, i, optimizer[1])>>]
          /\ dir' = dir \cup {Fresh(m)}
          /\ now' = now + 2
  /\ UNCHANGED <<optimizer, stuck, opens, report, order, switches, accesses, faults, traced, sent, lost>>

\* SetOptimizer holds both locks and switches every registered manager.
SwitchedNone == {}
Switched == Registered
SetOptimizerOn(g) ==
  /\ switches < MaxSwitches
  /\ optimizer' = <<g>>
  /\ tracer' = [m \in Managers |-> IF m \in Switched /\ ~HasTracer(m)
                                   THEN <<NewTracer(m, imageOf[m], g)>> ELSE tracer[m]]
  /\ dir' = dir \cup {Fresh(m) : m \in {n \in Switched : ~HasTracer(n)}}
  /\ now' = now + 2 /\ switches' = switches + 1
  /\ UNCHANGED <<managerMap, pull, imageOf, stuck, opens, report, order, accesses, faults, traced, sent, lost>>
\* Manager.SetOptimizerOff closes the tracer, if there is one, and forgets it.  Close
\* drops the error of the write; after an error of the close itself the manager keeps the
\* tracer, whose file can no more be written.
SwitchedOff(ms) ==
  \E unwritten, unclosed \in SUBSET {m \in ms : tracer[m] # <<>>} :
    /\ FaultIf(unwritten \cup unclosed # {})
    /\ dir' = Written(ms \ unwritten)
    /\ tracer' = [m \in Managers |-> IF m \in ms THEN <<>> ELSE tracer[m]]
    /\ stuck' = stuck \cup unclosed
    /\ lost' = lost \cup TimesOf(UNION {Range(tracer[m]) : m \in unwritten})
SetOptimizerOff ==
  /\ optimizer' = <<>>
  /\ SwitchedOff(Switched)
  /\ UNCHANGED <<managerMap, pull, imageOf, opens, report, order, now, switches, accesses, traced, sent>>

\* StarlightFsNode.Open takes the access time, waits, and then logs; so does Fsync.
Open(m, p) ==
  /\ pull[m] = "ready" /\ accesses + faults < MaxEvents
  /\ opens' = opens \cup {[manager |-> m, path |-> p, at |-> now]}
  /\ now' = now + 1 /\ accesses' = accesses + 1
  /\ UNCHANGED <<optimizer, managerMap, pull, imageOf, tracer, stuck, dir, report, order, switches, faults, traced, sent, lost>>
LogTrace(o) ==
  /\ o \in opens
  /\ opens' = opens \ {o}
  /\ tracer' = IF tracer[o.manager] = <<>> THEN tracer
               ELSE [tracer EXCEPT ![o.manager][1].seq = Append(@, Access(o, tracer[o.manager][1]))]
  /\ traced' = IF HasTracer(o.manager)
               THEN traced \cup {[image |-> imageOf[o.manager], path |-> o.path, at |-> o.at]}
               ELSE traced
  /\ lost' = IF tracer[o.manager] = <<>> /\ o.manager \in stuck THEN lost \cup {o.at} ELSE lost
  /\ UNCHANGED <<optimizer, managerMap, pull, imageOf, stuck, dir, report, order, now, switches, accesses, faults, sent>>

\* The daemon ends: Close tears every registered manager down, which writes its trace
\* unless the write fails; a manager that was replaced is never torn down, and a crash
\* writes none.
Stop(written) ==
  /\ written \subseteq Registered /\ FaultIf(written # Registered)
  /\ \E m \in Managers : pull[m] \in {"registered", "enabling", "ready"}
  /\ dir' = Written(written)
  /\ lost' = lost \cup TimesOf(UNION {Range(tracer[m]) : m \in Managers \ written})
                  \cup TimesOf(UNION {Range(report[r].got) : r \in Reporters})
  /\ optimizer' = <<>>
  /\ managerMap' = [i \in Images |-> 0]
  /\ pull' = [m \in Managers |-> IF pull[m] = "none" THEN "none" ELSE "dead"]
  /\ tracer' = [m \in Managers |-> <<>>] /\ stuck' = {}
  /\ opens' = {}
  /\ report' = [r \in Reporters |-> NoReport]
  /\ UNCHANGED <<imageOf, order, now, switches, accesses, traced, sent>>

-----------------------------------------------------------------------------
(* ReportTraces: NewTraceCollection and UploadTraces.                      *)

ReadDir(r) ==
  /\ report[r].at = "idle" /\ dir # {} /\ Room
  /\ report' = [report EXCEPT ![r] = [at |-> "reading", files |-> {f.id : f \in dir}, got |-> <<>>]]
  /\ UNCHANGED <<optimizer, managerMap, pull, imageOf, tracer, stuck, opens, dir, order, now, switches, accesses, faults, traced, sent, lost>>

\* A file that is still there and parses is kept for the collection.  The one of an open
\* tracer is empty and does not, nor does one whose write failed.
Read(r) ==
  /\ report[r].at = "reading"
  /\ \E id \in report[r].files :
       LET found == {f \in dir : f.id = id /\ f.body # <<>>} IN
       report' = [report EXCEPT ![r] =
         [at |-> IF found = {} THEN "reading" ELSE "removing", files |-> @.files \ {id},
          got |-> @.got \o IF found = {} THEN <<>> ELSE (CHOOSE f \in found : TRUE).body]]
  /\ UNCHANGED <<optimizer, managerMap, pull, imageOf, tracer, stuck, opens, dir, order, now, switches, accesses, faults, traced, sent, lost>>

\* Then it is removed, and an error of that dropped.  Two reports that overlap can both
\* read a file before one of them removes it.
RemovedDir(r) == dir
Removed(r) == {f \in dir : f.id = report[r].got[Len(report[r].got)].id}
RemoveFile(r) ==
  /\ report[r].at = "removing"
  /\ report' = [report EXCEPT ![r].at = "reading"]
  /\ \E fails \in BOOLEAN :
       /\ FaultIf(fails)
       /\ dir' = IF fails THEN dir ELSE dir \ Removed(r)
  /\ UNCHANGED <<optimizer, managerMap, pull, imageOf, tracer, stuck, opens, order, now, switches, accesses, traced, sent, lost>>

\* The first access of each name, over all stacks.
Firsts(seq) == {k \in 1..Len(seq) : \A j \in 1..(k - 1) : seq[j].name # seq[k].name}
Item(x, stack, access, image) ==
  [name |-> x.name, at |-> x.at, stack |-> stack, access |-> access, image |-> image]

\* A trace of the default group is a group of its own, and its items lose their stack.
DefaultGroup(t) ==
  LET first == Kept(t.seq, Firsts(t.seq)) IN
  [key |-> t.group, images |-> <<t.image>>,
   history |-> [k \in DOMAIN first |-> Item(first[k], 0, first[k].access, 1)]]

\* Any other group merges its traces: the images are sorted, an item refers to one of
\* them, and its access time counts from the earliest start.
Earliest(ts) == Min({t.start : t \in Range(ts)})
OffsetNone(t, ts) == 0
Offset(t, ts) == t.start - Earliest(ts)
ImagesOf(ts) == LET images == [k \in 1..Len(ts) |-> ts[k].image] IN Arranged(images, 1..Len(ts), images)
SourceUnsorted(k, ts) == k
SourceImage(k, ts) == Max({j \in 1..Len(ts) : ImagesOf(ts)[j] = ts[k].image})
MergedItems(ts) ==
  UNION {{LET x == ts[k].seq[j]
          IN Item(x, x.stack, x.access + Offset(ts[k], ts), SourceImage(k, ts))
            : j \in Firsts(ts[k].seq)} : k \in 1..Len(ts)}
MergedGroup(ts) ==
  [key |-> ts[1].group, images |-> ImagesOf(ts),
   history |-> SortedBy(MergedItems(ts), [x \in MergedItems(ts) |-> x.access])]
TracesOf(got, g) == Kept(got, {k \in 1..Len(got) : got[k].group = g})
GroupsOf(got) ==
  {DefaultGroup(got[k]) : k \in {j \in 1..Len(got) : got[j].group = Default}}
  \cup {MergedGroup(TracesOf(got, g)) : g \in {got[k].group : k \in 1..Len(got)} \ {Default}}

\* Database.UpdateFileRanks appends the position of each item to its file's order.
Ranks(g) ==
  {[group |-> g, rank |-> k - 1, name |-> g.history[k].name, at |-> g.history[k].at,
    layer |-> Layer[g.images[g.history[k].image]][g.history[k].stack]] :
     k \in 1..Len(g.history)}
Accepted(g) == \A k \in 1..Len(g.images) : g.images[k] \in Known

\* The groups are applied in any order until one has an image the proxy does not know;
\* the client does not see that error, nor one of the network.
Upload(r) ==
  LET groups == GroupsOf(report[r].got) IN
  /\ report[r].at = "reading" /\ report[r].files = {}
  /\ \/ /\ \E done \in SUBSET {g \in groups : Accepted(g)} :
            /\ (\A g \in groups : Accepted(g)) => done = groups
            /\ order' = order \cup UNION {Ranks(g) : g \in done}
       /\ sent' = sent \cup TimesOf(Range(report[r].got))
       /\ UNCHANGED <<faults, lost>>
     \/ /\ FaultIf(TRUE)
        /\ lost' = lost \cup TimesOf(Range(report[r].got))
        /\ UNCHANGED <<order, sent>>
  /\ report' = [report EXCEPT ![r] = NoReport]
  /\ UNCHANGED <<optimizer, managerMap, pull, imageOf, tracer, stuck, opens, dir, now, switches, accesses, traced>>

ReportStep(r) == ReadDir(r) \/ Read(r) \/ RemoveFile(r) \/ Upload(r)

Next ==
  \/ \E m \in Managers :
       \/ \E i \in Images : Register(m, i) \/ Load(m, i)
       \/ CheckDefault(m) \/ Enable(m)
       \/ \E p \in Paths : Open(m, p)
  \/ \E g \in Groups : SetOptimizerOn(g)
  \/ SetOptimizerOff
  \/ \E o \in opens : LogTrace(o)
  \/ \E written \in SUBSET Managers : Stop(written)
  \/ \E r \in Reporters : ReportStep(r)

Spec == Init /\ [][Next]_vars

-----------------------------------------------------------------------------
\* While the optimizer is on, every registered manager that has looked at the switch
\* has a tracer: SetOptimizer and a pull do not miss each other.
OnCoversAll == optimizer # <<>> =>
  \A m \in Registered : pull[m] = "ready" => HasTracer(m)

\* No trace disappears between its tracer, its file, a report and the proxy, however
\* reports overlap with each other, with a switch and with the end of the daemon, except
\* with the process, with a file that could not be written or closed, or with an upload
\* that failed.
TraceKept == \A a \in traced :
  a.at \in TimesOf(UNION {Range(tracer[m]) : m \in Managers})
          \cup TimesOf(UNION {Range(f.body) : f \in dir})
          \cup TimesOf(UNION {Range(report[r].got) : r \in Reporters})
          \cup sent \cup lost

\* The ranks of a group are in the order of the accesses, over all its containers and
\* however long each access waited.
RankFollowsAccess == \A x, y \in order :
  x.group = y.group /\ x.rank < y.rank => x.at < y.at

\* A rank is the one of a file that was opened: the layer is the one of the image and
\* the stack it was opened at.  (Not in the default group, which loses the stack.)
RankOfItsFile == \A x \in order : x.group.key # Default =>
  \E a \in traced : a.at = x.at /\ a.path[2] = x.name /\ Layer[a.image][a.path[1]] = x.layer
=============================================================================
