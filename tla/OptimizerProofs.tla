--------------------------- MODULE OptimizerProofs ---------------------------
(***************************************************************************)
(* Theorems about Optimizer: for any managers, images, groups and files, and  *)
(* however pulls, switches, accesses and reports interleave, tracing covers   *)
(* what it has to, no trace is lost, and the ranks are right.                *)
(***************************************************************************)
EXTENDS Optimizer, FiniteSetTheorems, SequenceTheorems, WellFoundedInduction, TLAPS

-----------------------------------------------------------------------------
(* Sorting.                                                                *)

\* A finite set can be sorted by any key: number its elements, and let each come after those
\* with a smaller key and those with the same key and a smaller number.
LEMMA SortedByType ==
  ASSUME NEW S, IsFiniteSet(S), NEW key \in [S -> Int]
  PROVE  /\ Cardinality(S) \in Nat
         /\ SortedBy(S, key) \in [1..Cardinality(S) -> S]
         /\ Range(SortedBy(S, key)) = S
         /\ \A j, k \in 1..Cardinality(S) :
              /\ j < k => key[SortedBy(S, key)[j]] <= key[SortedBy(S, key)[k]]
              /\ SortedBy(S, key)[j] = SortedBy(S, key)[k] => j = k
<1> DEFINE n == Cardinality(S)
<1>1. n \in Nat /\ \E e \in [1..n -> S] : e \in Bijection(1..n, S)
  BY FS_CardinalityType DEF ExistsBijection, Bijection, Injection
<1>2. PICK e \in [1..n -> S] : e \in Bijection(1..n, S)
  BY <1>1
<1>3. /\ \A j, k \in 1..n : e[j] = e[k] => j = k
      /\ \A x \in S : \E j \in 1..n : e[j] = x
  BY <1>2 DEF Bijection, Injection, Surjection, IsInjective
<1> DEFINE Before(i, j) == key[e[i]] < key[e[j]] \/ (key[e[i]] = key[e[j]] /\ i < j)
           Lower(i) == {j \in 1..n : Before(j, i)}
           no == [i \in 1..n |-> Cardinality(Lower(i)) + 1]
<1>4. IsFiniteSet(1..n) /\ Cardinality(1..n) = n
  BY <1>1, FS_Interval
<1> HIDE DEF n
<1>5. \A i \in 1..n : i \in Nat /\ key[e[i]] \in Int
  BY <1>1, <1>2
<1>6. \A i \in 1..n : IsFiniteSet(Lower(i)) /\ Cardinality(Lower(i)) \in Nat /\ Lower(i) \in SUBSET (1..n)
  <2> TAKE i \in 1..n
  <2>1. Lower(i) \in SUBSET (1..n)
    OBVIOUS
  <2> HIDE DEF Lower
  <2> QED
    BY <1>4, <2>1, FS_Subset, FS_CardinalityType
<1>7. \A i \in 1..n : ~Before(i, i)
  BY <1>5
<1>8. ASSUME NEW i \in 1..n, NEW j \in 1..n, Before(i, j) PROVE no[i] < no[j]
  <2>1. \A x \in 1..n : Before(x, i) => Before(x, j)
    BY <1>5, <1>8
  <2>2. Lower(i) \in SUBSET Lower(j) /\ i \in Lower(j) /\ i \notin Lower(i)
    BY <1>7, <1>8, <2>1
  <2> HIDE DEF Lower
  <2>3. Cardinality(Lower(i)) <= Cardinality(Lower(j)) /\ Cardinality(Lower(i)) # Cardinality(Lower(j))
    BY <1>6, <2>2, FS_Subset
  <2> QED
    BY <1>6, <2>3
<1>9. ASSUME NEW i \in 1..n PROVE no[i] \in 1..n
  <2>1. i \notin Lower(i)
    BY <1>7
  <2> HIDE DEF Lower
  <2>2. /\ Cardinality(Lower(i)) <= Cardinality(1..n)
        /\ Cardinality(1..n) = Cardinality(Lower(i)) => 1..n = Lower(i)
    BY <1>4, <1>6, FS_Subset
  <2>3. Cardinality(Lower(i)) <= n /\ Cardinality(Lower(i)) # n
    BY <1>4, <2>1, <2>2
  <2> QED
    BY <1>1, <1>6, <2>3
<1>10. \A i, j \in 1..n : i # j => Before(i, j) \/ Before(j, i)
  BY <1>5
<1>11. \A i, j \in 1..n : no[i] = no[j] => i = j
  <2> TAKE i, j \in 1..n
  <2> HIDE DEF no
  <2>1. no[i] \in Nat /\ no[j] \in Nat
    BY <1>9
  <2> QED
    BY <1>8, <1>10, <2>1
<1>12. no \in [1..n -> 1..n]
  BY <1>9
<1> HIDE DEF no
<1>13. no \in Injection(1..n, 1..n)
  BY <1>11, <1>12 DEF Injection, IsInjective
<1>14. no \in Surjection(1..n, 1..n)
  BY <1>4, <1>13, FS_Injection
<1> DEFINE place == [k \in 1..n |-> CHOOSE i \in 1..n : no[i] = k]
           sorted == [k \in 1..n |-> e[place[k]]]
<1>15. \A k \in 1..n : place[k] \in 1..n /\ no[place[k]] = k
  BY <1>14 DEF Surjection
<1> HIDE DEF place
<1>16. sorted \in [1..n -> S] /\ \A k \in 1..n : sorted[k] = e[place[k]]
  BY <1>2, <1>15
<1> HIDE DEF sorted
<1>17. \A x \in S : \E k \in 1..n : sorted[k] = x
  <2> TAKE x \in S
  <2>1. PICK i \in 1..n : e[i] = x
    BY <1>3
  <2>2. no[i] \in 1..n /\ place[no[i]] = i
    BY <1>9, <1>11, <1>15
  <2> QED
    BY <1>16, <2>1, <2>2
<1>18. Range(sorted) = S
  BY <1>16, <1>17 DEF Range
<1>19. ASSUME NEW j \in 1..n, NEW k \in 1..n, j < k PROVE key[sorted[j]] <= key[sorted[k]]
  <2>1. key[sorted[j]] \in Int /\ key[sorted[k]] \in Int /\ j \in Nat /\ k \in Nat
    BY <1>5, <1>15, <1>16
  <2>2. Before(place[k], place[j]) => k < j
    BY <1>8, <1>15
  <2> QED
    BY <1>16, <1>19, <2>1, <2>2
<1> DEFINE Sorting(s) == /\ Range(s) = S
                         /\ \A j, k \in 1..n : j < k => key[s[j]] <= key[s[k]]
<1>20. \E s \in [1..n -> S] : Sorting(s)
  BY <1>16, <1>18, <1>19
<1> DEFINE t == SortedBy(S, key)
<1>21. t = CHOOSE s \in [1..n -> S] : Sorting(s)
  BY DEF SortedBy, n
<1> HIDE DEF Sorting, t
<1>22. t \in [1..n -> S] /\ Sorting(t)
  BY <1>20, <1>21
<1>23. t \in Surjection(1..n, S)
  BY <1>22 DEF Sorting, Surjection, Range
<1>24. t \in Injection(1..n, S)
  BY <1>4, <1>23, FS_SurjSameCardinalityImpliesInj DEF n
<1>25. \A j, k \in 1..n : t[j] = t[k] => j = k
  BY <1>24 DEF Injection, IsInjective
<1> QED
  BY <1>1, <1>22, <1>25 DEF Sorting, t, n

\* p names the place each element of s was taken from: each of the places once, by the key.
Arranges(s, seq, places, key, p) ==
  /\ p \in [1..Len(s) -> places] /\ Range(p) = places
  /\ \A k \in 1..Len(s) : s[k] = seq[p[k]]
  /\ \A j, k \in 1..Len(s) : j < k => key[p[j]] <= key[p[k]]
  /\ \A j, k \in 1..Len(s) : p[j] = p[k] => j = k

LEMMA ArrangedType ==
  ASSUME NEW T, NEW seq \in Seq(T), NEW places \in SUBSET (1..Len(seq)), NEW key \in [places -> Int]
  PROVE  /\ Arranged(seq, places, key) \in Seq(T) /\ Len(Arranged(seq, places, key)) = Cardinality(places)
         /\ \E p : Arranges(Arranged(seq, places, key), seq, places, key, p)
<1> DEFINE n == Cardinality(places)
           p == SortedBy(places, key)
           s == Arranged(seq, places, key)
<1>1. IsFiniteSet(1..Len(seq))
  BY LenProperties, FS_Interval
<1>2. IsFiniteSet(places)
  BY <1>1, FS_Subset
<1>3. /\ n \in Nat /\ p \in [1..n -> places] /\ Range(p) = places
      /\ \A j, k \in 1..n : (j < k => key[p[j]] <= key[p[k]]) /\ (p[j] = p[k] => j = k)
  BY <1>2, SortedByType
<1>4. s = [k \in 1..n |-> seq[p[k]]]
  BY DEF Arranged
<1> HIDE DEF n, p, s
<1>5. \A k \in 1..n : seq[p[k]] \in T
  BY <1>3, ElementOfSeq
<1>6. s \in [1..n -> T]
  BY <1>4, <1>5
<1>7. s \in Seq(T)
  BY <1>3, <1>6, SeqDef
<1>8. Len(s) = n
  BY <1>3, <1>6, <1>7, LenProperties
<1>9. \A k \in 1..n : s[k] = seq[p[k]]
  BY <1>4
<1>10. Arranges(s, seq, places, key, p)
  BY <1>3, <1>8, <1>9 DEF Arranges
<1> QED
  BY <1>7, <1>8, <1>10 DEF s, n

\* Kept leaves the places in their order.
Keeps(s, seq, places, p) ==
  /\ p \in [1..Len(s) -> places] /\ Range(p) = places
  /\ \A k \in 1..Len(s) : s[k] = seq[p[k]]
  /\ \A j, k \in 1..Len(s) : j < k => p[j] < p[k]

LEMMA KeptType ==
  ASSUME NEW T, NEW seq \in Seq(T), NEW places \in SUBSET (1..Len(seq))
  PROVE  /\ Kept(seq, places) \in Seq(T)
         /\ \E p : Keeps(Kept(seq, places), seq, places, p)
<1> DEFINE key == [k \in places |-> k]
           s == Arranged(seq, places, key)
<1>1. \A k \in places : k \in Int
  BY LenProperties
<1>2. key \in [places -> Int] /\ \A k \in places : key[k] = k
  BY <1>1
<1>3. Kept(seq, places) = s
  BY DEF Kept
<1> HIDE DEF key
<1>4. s \in Seq(T) /\ \E p : Arranges(s, seq, places, key, p)
  BY <1>2, ArrangedType
<1> HIDE DEF s
<1>5. PICK p : Arranges(s, seq, places, key, p)
  BY <1>4
<1>6. Len(s) \in Nat
  BY <1>4, LenProperties
<1>7. ASSUME NEW j \in 1..Len(s), NEW k \in 1..Len(s), j < k PROVE p[j] < p[k]
  <2>1. p[j] \in places /\ p[k] \in places
    BY <1>5 DEF Arranges
  <2>2. p[j] <= p[k]
    BY <1>2, <1>5, <1>7, <2>1 DEF Arranges
  <2>3. p[j] # p[k]
    BY <1>5, <1>6, <1>7 DEF Arranges
  <2>4. p[j] \in Int /\ p[k] \in Int
    BY <1>1, <2>1
  <2> QED
    BY <2>2, <2>3, <2>4
<1>8. Keeps(s, seq, places, p)
  BY <1>5, <1>7 DEF Arranges, Keeps
<1> QED
  BY <1>3, <1>4, <1>8

-----------------------------------------------------------------------------
(* Types.                                                                  *)

AccessRec == [name : {p[2] : p \in Paths}, stack : {p[1] : p \in Paths}, access : Int, at : Nat]
TraceRec == [id : Managers \X Nat, group : Groups \cup {""}, image : Images, start : Nat,
             seq : Seq(AccessRec)]
Bodies == {<<>>} \cup {<<t>> : t \in TraceRec}
FileRec == [id : Managers \X Nat, body : Bodies]
ReportRec == [at : {"idle", "reading", "removing"}, files : SUBSET (Managers \X Nat), got : Seq(TraceRec)]

\* A manager has an image from its first step on, and no tracer before.
TypeInv ==
  /\ optimizer \in {<<>>} \cup {<<g>> : g \in Groups}
  /\ managerMap \in [Images -> Managers \cup {0}]
  /\ pull \in [Managers -> {"none", "registered", "enabling", "ready", "dead"}]
  /\ imageOf \in [Managers -> Images \cup {-1}]
  /\ tracer \in [Managers -> Bodies]
  /\ opens \subseteq [manager : Managers, path : Paths, at : Nat]
  /\ dir \subseteq FileRec
  /\ report \in [Reporters -> ReportRec]
  /\ now \in Nat
  /\ \A m \in Managers : IF pull[m] = "none" THEN tracer[m] = <<>> ELSE imageOf[m] \in Images
  /\ \A i \in Images : managerMap[i] # 0 => pull[managerMap[i]] # "none"

LEMMA RegisteredSet == Registered \in SUBSET Managers
BY DEF Registered

LEMMA RegisteredType ==
  ASSUME TypeInv, NEW m \in Registered
  PROVE  m \in Managers /\ pull[m] # "none" /\ imageOf[m] \in Images
<1>1. PICK i \in Images : managerMap[i] = m /\ m \in Managers
  BY DEF Registered
<1>2. m # 0
  BY <1>1, OptimizerAssumption
<1> QED
  BY <1>1, <1>2 DEF TypeInv

LEMMA NewTracerType ==
  ASSUME TypeInv, NEW m \in Managers, NEW i \in Images, NEW g \in Groups \cup {""}
  PROVE  /\ NewTracer(m, i, g) \in TraceRec /\ <<NewTracer(m, i, g)>> \in Bodies
         /\ <<NewTracer(m, i, g)>> # <<>> /\ Fresh(m) \in FileRec
<1>1. <<m, now>> \in Managers \X Nat /\ now \in Nat /\ <<>> \in Seq(AccessRec)
  BY EmptySeq DEF TypeInv
<1>2. NewTracer(m, i, g) \in TraceRec
  BY <1>1 DEF NewTracer, TraceRec
<1>3. Fresh(m) \in FileRec
  BY <1>1 DEF Fresh, FileRec, Bodies
<1> QED
  BY <1>2, <1>3 DEF Bodies

\* A closed trace is the trace with its accesses in the order of their times.
LEMMA ClosedType ==
  ASSUME NEW t \in TraceRec
  PROVE  /\ Closed(t) \in TraceRec /\ Closed(t).id = t.id /\ Closed(t).image = t.image
         /\ Closed(t).start = t.start /\ Closed(t).group = t.group
         /\ \E p : Arranges(Closed(t).seq, t.seq, 1..Len(t.seq), [k \in 1..Len(t.seq) |-> t.seq[k].access], p)
<1> DEFINE key == [k \in DOMAIN t.seq |-> t.seq[k].access]
           s == Arranged(t.seq, DOMAIN t.seq, key)
<1>1. t.seq \in Seq(AccessRec) /\ DOMAIN t.seq = 1..Len(t.seq)
  BY LenProperties DEF TraceRec
<1>2. key \in [1..Len(t.seq) -> Int] /\ key = [k \in 1..Len(t.seq) |-> t.seq[k].access]
  <2>1. \A k \in 1..Len(t.seq) : t.seq[k] \in AccessRec
    BY <1>1, ElementOfSeq
  <2>2. \A k \in 1..Len(t.seq) : t.seq[k].access \in Int
    BY <2>1 DEF AccessRec
  <2>3. key = [k \in 1..Len(t.seq) |-> t.seq[k].access]
    BY <1>1
  <2> HIDE DEF key
  <2> QED
    BY <2>2, <2>3
<1>3. Closed(t) = [t EXCEPT !.seq = s]
  BY DEF Closed
<1> HIDE DEF key
<1>4. s \in Seq(AccessRec) /\ \E p : Arranges(s, t.seq, 1..Len(t.seq), key, p)
  BY <1>1, <1>2, ArrangedType
<1> HIDE DEF s
<1>5. Closed(t) \in TraceRec /\ Closed(t).seq = s /\ Closed(t).id = t.id /\ Closed(t).image = t.image
      /\ Closed(t).start = t.start /\ Closed(t).group = t.group
  BY <1>3, <1>4 DEF TraceRec
<1> QED
  BY <1>2, <1>4, <1>5

\* A body holds one trace or none.
LEMMA BodyType ==
  ASSUME NEW b \in Bodies, b # <<>>
  PROVE  b[1] \in TraceRec /\ b = <<b[1]>>
BY DEF Bodies

\* Writing the files of the tracers that are closed: the file of each gets the closed trace.
LEMMA WrittenType ==
  ASSUME TypeInv, NEW ms \in SUBSET Managers
  PROVE  /\ Written(ms) \subseteq FileRec
         /\ \A g \in Written(ms) : \E f \in dir :
              /\ g.id = f.id
              /\ \/ g = f /\ \A m \in ms : tracer[m] = <<>> \/ tracer[m][1].id # f.id
                 \/ \E m \in ms : /\ tracer[m] # <<>> /\ tracer[m][1].id = f.id
                                  /\ g = [f EXCEPT !.body = <<Closed(tracer[m][1])>>]
         /\ \A f \in dir : \E g \in Written(ms) :
              /\ g.id = f.id
              /\ (\A m \in ms : tracer[m] = <<>> \/ tracer[m][1].id # f.id) => g = f
<1> DEFINE Of(f) == {m \in ms : tracer[m] # <<>> /\ tracer[m][1].id = f.id}
           W(f) == IF Of(f) = {} THEN f
                   ELSE [f EXCEPT !.body = <<Closed(tracer[CHOOSE m \in Of(f) : TRUE][1])>>]
<1>1. Written(ms) = {W(f) : f \in dir}
  BY DEF Written
<1>2. ASSUME NEW f \in dir
      PROVE  /\ W(f) \in FileRec /\ W(f).id = f.id
             /\ \/ W(f) = f /\ Of(f) = {}
                \/ \E m \in Of(f) : W(f) = [f EXCEPT !.body = <<Closed(tracer[m][1])>>]
  <2>1. f \in FileRec
    BY DEF TypeInv
  <2>2. CASE Of(f) = {}
    BY <2>1, <2>2
  <2>3. CASE Of(f) # {}
    <3>1. PICK m \in Of(f) : m = CHOOSE x \in Of(f) : TRUE
      BY <2>3
    <3>2. tracer[m] \in Bodies /\ tracer[m] # <<>>
      BY <3>1 DEF TypeInv
    <3>3. Closed(tracer[m][1]) \in TraceRec
      BY <3>2, BodyType, ClosedType
    <3>4. W(f) = [f EXCEPT !.body = <<Closed(tracer[m][1])>>]
      BY <2>3, <3>1
    <3>5. <<Closed(tracer[m][1])>> \in Bodies
      BY <3>3 DEF Bodies
    <3>6. W(f) \in FileRec /\ W(f).id = f.id
      BY <2>1, <3>4, <3>5 DEF FileRec
    <3> QED
      BY <3>1, <3>4, <3>6
  <2> QED
    BY <2>2, <2>3
<1> HIDE DEF W
<1>3. Written(ms) \subseteq FileRec
  BY <1>1, <1>2
<1>4. \A g \in Written(ms) : \E f \in dir :
        /\ g.id = f.id
        /\ \/ g = f /\ \A m \in ms : tracer[m] = <<>> \/ tracer[m][1].id # f.id
           \/ \E m \in ms : /\ tracer[m] # <<>> /\ tracer[m][1].id = f.id
                            /\ g = [f EXCEPT !.body = <<Closed(tracer[m][1])>>]
  <2> TAKE g \in Written(ms)
  <2>1. PICK f \in dir : g = W(f)
    BY <1>1
  <2> QED
    BY <1>2, <2>1
<1>5. \A f \in dir : \E g \in Written(ms) :
        /\ g.id = f.id
        /\ (\A m \in ms : tracer[m] = <<>> \/ tracer[m][1].id # f.id) => g = f
  <2> TAKE f \in dir
  <2>1. W(f) \in Written(ms)
    BY <1>1
  <2> QED
    BY <1>2, <2>1
<1> QED
  BY <1>3, <1>4, <1>5

\* An access that is logged becomes the last one of its trace.
Logged(o) == [tracer[o.manager][1] EXCEPT !.seq = Append(@, Access(o, tracer[o.manager][1]))]

LEMMA LoggedType ==
  ASSUME TypeInv, NEW o \in opens, tracer[o.manager] # <<>>, LogTrace(o)
  PROVE  /\ o.manager \in Managers /\ tracer[o.manager][1] \in TraceRec
         /\ Logged(o) \in TraceRec
         /\ Logged(o).id = tracer[o.manager][1].id /\ Logged(o).image = tracer[o.manager][1].image
         /\ Logged(o).start = tracer[o.manager][1].start
         /\ Len(Logged(o).seq) = Len(tracer[o.manager][1].seq) + 1
         /\ Len(tracer[o.manager][1].seq) \in Nat
         /\ \A j \in 1..Len(tracer[o.manager][1].seq) : Logged(o).seq[j] = tracer[o.manager][1].seq[j]
         /\ Logged(o).seq[Len(tracer[o.manager][1].seq) + 1] = Access(o, tracer[o.manager][1])
         /\ tracer' = [tracer EXCEPT ![o.manager] = <<Logged(o)>>]
<1> DEFINE m == o.manager
           t == tracer[m][1]
           x == Access(o, t)
<1>1. m \in Managers /\ o.path \in Paths /\ o.at \in Nat
  BY DEF TypeInv
<1>2. t \in TraceRec /\ tracer[m] = <<t>>
  BY <1>1, BodyType DEF TypeInv
<1>3. t.seq \in Seq(AccessRec) /\ t.start \in Nat
  BY <1>2 DEF TraceRec
<1>4. x \in AccessRec
  BY <1>1, <1>3 DEF Access, AccessRec
<1>5. tracer' = [tracer EXCEPT ![m][1].seq = Append(@, x)]
  BY DEF LogTrace, m, x, t
<1>6. [tracer[m] EXCEPT ![1].seq = Append(@, x)] = <<[t EXCEPT !.seq = Append(@, x)]>>
  BY <1>2
<1>7. tracer' = [tracer EXCEPT ![m] = <<[t EXCEPT !.seq = Append(@, x)]>>]
  BY <1>5, <1>6
<1> HIDE DEF t, x, m
<1>8. /\ Append(t.seq, x) \in Seq(AccessRec) /\ Len(Append(t.seq, x)) = Len(t.seq) + 1
      /\ \A j \in 1..Len(t.seq) : Append(t.seq, x)[j] = t.seq[j]
      /\ Append(t.seq, x)[Len(t.seq) + 1] = x /\ Len(t.seq) \in Nat
  BY <1>3, <1>4, AppendProperties, LenProperties
<1> DEFINE new == [t EXCEPT !.seq = Append(@, x)]
<1>9. /\ new \in TraceRec /\ new.seq = Append(t.seq, x) /\ new.id = t.id /\ new.image = t.image
      /\ new.start = t.start
  BY <1>2, <1>8 DEF TraceRec
<1>10. Logged(o) = new
  BY DEF Logged, t, x, m
<1> HIDE DEF new
<1>11. tracer' = [tracer EXCEPT ![m] = <<Logged(o)>>]
  BY <1>7, <1>10 DEF new
<1> QED
  BY <1>1, <1>2, <1>8, <1>9, <1>10, <1>11 DEF t, x, m

LEMMA TypeInit == Init => TypeInv
<1> SUFFICES ASSUME Init PROVE TypeInv
  OBVIOUS
<1>1. NoReport \in ReportRec
  BY EmptySeq DEF NoReport, ReportRec
<1> QED
  BY <1>1, OptimizerAssumption DEF Init, TypeInv, Bodies

\* A report that reads a file adds its trace, if there is one.
LEMMA ReadType ==
  ASSUME TypeInv, NEW r \in Reporters, Read(r)
  PROVE  /\ report' \in [Reporters -> ReportRec]
         /\ \A s \in Reporters : s # r => report'[s] = report[s]
         /\ \/ report'[r].got = report[r].got /\ report'[r].at = "reading"
            \/ \E f \in dir : \E t \in TraceRec :
                 /\ f.body = <<t>> /\ report'[r].got = Append(report[r].got, t)
                 /\ report'[r].at = "removing"
<1>1. report[r] \in ReportRec /\ report \in [Reporters -> ReportRec]
  BY DEF TypeInv
<1>2. PICK id \in report[r].files :
        report' = [report EXCEPT ![r] =
          [at |-> IF {f \in dir : f.id = id /\ f.body # <<>>} = {} THEN "reading" ELSE "removing",
           files |-> report[r].files \ {id},
           got |-> report[r].got \o IF {f \in dir : f.id = id /\ f.body # <<>>} = {} THEN <<>>
                                  ELSE (CHOOSE f \in {f \in dir : f.id = id /\ f.body # <<>>} : TRUE).body]]
  BY <1>1 DEF Read
<1> DEFINE found == {f \in dir : f.id = id /\ f.body # <<>>}
           more == IF found = {} THEN <<>> ELSE (CHOOSE f \in found : TRUE).body
           left == report[r].files \ {id}
           at == IF found = {} THEN "reading" ELSE "removing"
<1>3. report' = [report EXCEPT ![r] = [at |-> at, files |-> left, got |-> report[r].got \o more]]
  BY <1>2
<1>4. found = {} => more = <<>> /\ at = "reading"
  OBVIOUS
<1>5. ASSUME found # {}
      PROVE  at = "removing" /\ \E f \in dir : \E t \in TraceRec : f.body = <<t>> /\ more = <<t>>
  <2>1. PICK f \in found : more = f.body
    BY <1>5
  <2>2. f \in dir /\ f.body \in Bodies /\ f.body # <<>>
    BY <2>1 DEF TypeInv, FileRec
  <2>3. f.body[1] \in TraceRec /\ f.body = <<f.body[1]>>
    BY <2>2, BodyType
  <2> QED
    BY <1>5, <2>1, <2>2, <2>3
<1>6. left \subseteq Managers \X Nat /\ report[r].got \in Seq(TraceRec)
  BY <1>1 DEF ReportRec
<1>7. /\ report'[r].got = report[r].got \o more /\ report'[r].files = left /\ report'[r].at = at
      /\ report'[r] = [at |-> at, files |-> left, got |-> report[r].got \o more]
      /\ report' = [report EXCEPT ![r] = [at |-> at, files |-> left, got |-> report[r].got \o more]]
  <2> HIDE DEF at, left, more
  <2>1. report'[r] = [at |-> at, files |-> left, got |-> report[r].got \o more]
    BY <1>1, <1>3
  <2> QED
    BY <1>3, <2>1
<1>8. \A s \in Reporters : s # r => report'[s] = report[s]
  BY <1>1, <1>7
<1> HIDE DEF found, more, left, at
<1>9. CASE found = {}
  <2>1. report[r].got \o more = report[r].got
    BY <1>4, <1>6, <1>9, ConcatEmptySeq
  <2>2. report'[r] \in ReportRec
    BY <1>4, <1>6, <1>7, <1>9, <2>1 DEF ReportRec
  <2>3. report' \in [Reporters -> ReportRec]
    BY <1>1, <1>7, <2>2
  <2> QED
    BY <1>4, <1>7, <1>8, <1>9, <2>1, <2>3
<1>10. CASE found # {}
  <2>1. PICK f \in dir : \E t \in TraceRec : f.body = <<t>> /\ more = <<t>>
    BY <1>5, <1>10
  <2>2. PICK t \in TraceRec : f.body = <<t>> /\ more = <<t>>
    BY <2>1
  <2>3. report[r].got \o more = Append(report[r].got, t) /\ Append(report[r].got, t) \in Seq(TraceRec)
    <3> DEFINE T == TraceRec
    <3>1. report[r].got \in Seq(T) /\ t \in T
      BY <1>6
    <3> HIDE DEF T
    <3>2. report[r].got \o <<t>> = Append(report[r].got, t) /\ Append(report[r].got, t) \in Seq(T)
      BY <3>1, AppendIsConcat, AppendProperties
    <3> QED
      BY <2>2, <3>2 DEF T
  <2>4. report'[r] \in ReportRec
    BY <1>5, <1>6, <1>7, <1>10, <2>3 DEF ReportRec
  <2>5. report' \in [Reporters -> ReportRec]
    BY <1>1, <1>7, <2>4
  <2> QED
    BY <1>5, <1>7, <1>8, <1>10, <2>1, <2>2, <2>3, <2>5
<1> QED
  BY <1>9, <1>10

LEMMA TypeStep ==
  ASSUME TypeInv, [Next]_vars
  PROVE  TypeInv'
<1>1. ASSUME NEW m \in Managers, NEW i \in Images, Register(m, i) PROVE TypeInv'
  BY <1>1, OptimizerAssumption DEF Register, TypeInv
<1>2. ASSUME NEW m \in Managers, NEW i \in Images, Load(m, i) PROVE TypeInv'
  <2>1. CASE optimizer = <<>>
    BY <1>2, <2>1, OptimizerAssumption DEF Load, TypeInv
  <2>2. CASE optimizer # <<>>
    <3>1. optimizer[1] \in Groups
      BY <2>2 DEF TypeInv
    <3> DEFINE t == NewTracer(m, i, optimizer[1])
    <3>2. <<t>> \in Bodies /\ Fresh(m) \in FileRec
      BY <3>1, NewTracerType
    <3> HIDE DEF t
    <3>3. /\ pull' = [pull EXCEPT ![m] = "ready"] /\ imageOf' = [imageOf EXCEPT ![m] = i]
          /\ managerMap' = [managerMap EXCEPT ![i] = m]
          /\ tracer' = [tracer EXCEPT ![m] = <<t>>]
          /\ dir' = dir \cup {Fresh(m)} /\ now' = now + 2
          /\ UNCHANGED <<optimizer, opens, report>>
      BY <1>2, <2>2 DEF Load, t
    <3>4. /\ tracer' \in [Managers -> Bodies] /\ dir' \subseteq FileRec /\ now' \in Nat
          /\ \A n \in Managers : n # m => tracer'[n] = tracer[n] /\ pull'[n] = pull[n] /\ imageOf'[n] = imageOf[n]
          /\ pull'[m] = "ready" /\ imageOf'[m] = i
      BY <3>2, <3>3 DEF TypeInv
    <3>5. \A n \in Managers : IF pull'[n] = "none" THEN tracer'[n] = <<>> ELSE imageOf'[n] \in Images
      BY <3>4 DEF TypeInv
    <3>6. /\ pull' \in [Managers -> {"none", "registered", "enabling", "ready", "dead"}]
          /\ imageOf' \in [Managers -> Images \cup {-1}]
          /\ managerMap' \in [Images -> Managers \cup {0}]
      BY <3>3 DEF TypeInv
    <3>7. \A j \in Images : managerMap'[j] # 0 => pull'[managerMap'[j]] # "none"
      BY <3>3, <3>4 DEF TypeInv
    <3> QED
      BY <3>3, <3>4, <3>5, <3>6, <3>7 DEF TypeInv
  <2> QED
    BY <2>1, <2>2
<1>3. ASSUME NEW m \in Managers, CheckDefault(m) PROVE TypeInv'
  BY <1>3, OptimizerAssumption DEF CheckDefault, TypeInv
<1>4. ASSUME NEW m \in Managers, Enable(m) PROVE TypeInv'
  <2>1. CASE HasTracer(m)
    BY <1>4, <2>1, OptimizerAssumption DEF Enable, TypeInv
  <2>2. CASE ~HasTracer(m)
    <3> DEFINE g == IF optimizer = <<>> THEN "" ELSE optimizer[1]
               t == NewTracer(m, imageOf[m], g)
    <3>1. g \in Groups \cup {""} /\ imageOf[m] \in Images
      <4>1. g \in Groups \cup {""}
        <5>1. optimizer = <<>> => g = ""
          OBVIOUS
        <5>2. optimizer # <<>> => \E h \in Groups : optimizer = <<h>> /\ g = h
          BY DEF TypeInv
        <5> HIDE DEF g
        <5> QED
          BY <5>1, <5>2
      <4>2. pull[m] = "enabling"
        BY <1>4 DEF Enable
      <4>3. imageOf[m] \in Images
        BY <4>2 DEF TypeInv
      <4> QED
        BY <4>1, <4>3
    <3> HIDE DEF g
    <3>2. <<t>> \in Bodies /\ Fresh(m) \in FileRec
      BY <3>1, NewTracerType
    <3>3. /\ pull[m] = "enabling" /\ pull' = [pull EXCEPT ![m] = "ready"]
          /\ tracer' = [tracer EXCEPT ![m] = <<t>>]
          /\ dir' = dir \cup {Fresh(m)} /\ now' = now + 2
          /\ UNCHANGED <<optimizer, imageOf, managerMap, opens, report>>
      BY <1>4, <2>2 DEF Enable, g
    <3> HIDE DEF t
    <3> QED
      BY <3>2, <3>3, OptimizerAssumption DEF TypeInv
  <2> QED
    BY <2>1, <2>2
<1>5. ASSUME NEW m \in Managers, NEW p \in Paths, Open(m, p) PROVE TypeInv'
  BY <1>5 DEF Open, TypeInv
<1>6. ASSUME NEW g \in Groups, SetOptimizerOn(g) PROVE TypeInv'
  <2> DEFINE t(m) == NewTracer(m, imageOf[m], g)
             M == {m \in Switched : ~HasTracer(m)}
  <2>1. \A m \in Registered : m \in Managers /\ pull[m] # "none" /\ <<t(m)>> \in Bodies /\ Fresh(m) \in FileRec
    BY RegisteredType, NewTracerType
  <2>2. /\ tracer' = [m \in Managers |-> IF m \in Switched /\ ~HasTracer(m) THEN <<t(m)>> ELSE tracer[m]]
        /\ dir' = dir \cup {Fresh(m) : m \in M} /\ now' = now + 2 /\ optimizer' = <<g>>
        /\ UNCHANGED <<managerMap, pull, imageOf, opens, report>>
    BY <1>6 DEF SetOptimizerOn
  <2> HIDE DEF t
  <2>3. tracer' \in [Managers -> Bodies] /\ dir' \subseteq FileRec
    BY <2>1, <2>2 DEF TypeInv, Switched
  <2>4. \A m \in Managers : pull[m] = "none" => tracer'[m] = <<>>
    BY <2>1, <2>2 DEF TypeInv, Switched
  <2> QED
    BY <2>2, <2>3, <2>4 DEF TypeInv
<1>7. CASE SetOptimizerOff
  <2>1. PICK unwritten \in SUBSET Registered : dir' = Written(Registered \ unwritten)
    BY <1>7 DEF SetOptimizerOff, SwitchedOff, Switched
  <2>4. /\ tracer' = [m \in Managers |-> IF m \in Registered THEN <<>> ELSE tracer[m]]
        /\ optimizer' = <<>>
        /\ UNCHANGED <<managerMap, pull, imageOf, opens, report, now>>
    BY <1>7 DEF SetOptimizerOff, SwitchedOff, Switched
  <2>5. Registered \ unwritten \in SUBSET Managers
    BY RegisteredSet
  <2>2. dir' \subseteq FileRec
    BY <2>1, <2>5, WrittenType
  <2>3. tracer' \in [Managers -> Bodies]
    BY <2>4 DEF TypeInv, Bodies
  <2> QED
    BY <2>2, <2>3, <2>4 DEF TypeInv
<1>8. ASSUME NEW o \in opens, LogTrace(o) PROVE TypeInv'
  <2>1. CASE tracer[o.manager] = <<>>
    BY <1>8, <2>1 DEF LogTrace, TypeInv
  <2>2. CASE tracer[o.manager] # <<>>
    <3>1. /\ o.manager \in Managers /\ <<Logged(o)>> \in Bodies
          /\ tracer' = [tracer EXCEPT ![o.manager] = <<Logged(o)>>]
      BY <1>8, <2>2, LoggedType DEF Bodies
    <3>2. opens' = opens \ {o} /\ UNCHANGED <<optimizer, managerMap, pull, imageOf, dir, report, now>>
      BY <1>8 DEF LogTrace
    <3>3. pull[o.manager] # "none"
      BY <2>2, <3>1 DEF TypeInv
    <3> QED
      BY <3>1, <3>2, <3>3 DEF TypeInv
  <2> QED
    BY <2>1, <2>2
<1>9. ASSUME NEW written \in SUBSET Managers, Stop(written) PROVE TypeInv'
  <2>1. dir' = Written(written)
    BY <1>9 DEF Stop
  <2>2. dir' \subseteq FileRec
    BY <2>1, WrittenType
  <2>3. NoReport \in ReportRec
    BY EmptySeq DEF NoReport, ReportRec
  <2>4. /\ optimizer' = <<>> /\ managerMap' = [i \in Images |-> 0]
        /\ pull' = [m \in Managers |-> IF pull[m] = "none" THEN "none" ELSE "dead"]
        /\ tracer' = [m \in Managers |-> <<>>] /\ opens' = {}
        /\ report' = [r \in Reporters |-> NoReport]
        /\ UNCHANGED <<imageOf, now>>
    BY <1>9 DEF Stop
  <2>5. <<>> \in Bodies
    BY DEF Bodies
  <2>6. /\ optimizer' \in {<<>>} \cup {<<g>> : g \in Groups} /\ managerMap' \in [Images -> Managers \cup {0}]
        /\ tracer' \in [Managers -> Bodies] /\ opens' \subseteq [manager : Managers, path : Paths, at : Nat]
        /\ report' \in [Reporters -> ReportRec]
        /\ imageOf' \in [Managers -> Images \cup {-1}] /\ now' \in Nat
    BY <2>3, <2>4, <2>5 DEF TypeInv
  <2>7. pull' \in [Managers -> {"none", "registered", "enabling", "ready", "dead"}]
    BY <2>4
  <2>8. \A m \in Managers : IF pull'[m] = "none" THEN tracer'[m] = <<>> ELSE imageOf'[m] \in Images
    BY <2>4 DEF TypeInv
  <2>9. \A i \in Images : managerMap'[i] # 0 => pull'[managerMap'[i]] # "none"
    BY <2>4
  <2> QED
    BY <2>2, <2>6, <2>7, <2>8, <2>9 DEF TypeInv
<1>10. ASSUME NEW r \in Reporters, ReportStep(r) PROVE TypeInv'
  <2>1. CASE ReadDir(r)
    <3> DEFINE ids == {f.id : f \in dir}
    <3>1. ids \subseteq Managers \X Nat
      BY DEF TypeInv, FileRec
    <3>2. report' = [report EXCEPT ![r] = [at |-> "reading", files |-> ids, got |-> <<>>]]
      BY <2>1 DEF ReadDir
    <3> HIDE DEF ids
    <3>3. [at |-> "reading", files |-> ids, got |-> <<>>] \in ReportRec
      BY <3>1, EmptySeq DEF ReportRec
    <3> QED
      BY <2>1, <3>2, <3>3 DEF ReadDir, TypeInv
  <2>2. CASE Read(r)
    <3>1. report' \in [Reporters -> ReportRec]
      BY <2>2, ReadType
    <3> QED
      BY <2>2, <3>1 DEF Read, TypeInv
  <2>4. CASE RemoveFile(r)
    <3>1. report' = [report EXCEPT ![r].at = "reading"] /\ dir' \subseteq dir
      BY <2>4 DEF RemoveFile
    <3>2. report' \in [Reporters -> ReportRec]
      BY <3>1 DEF TypeInv, ReportRec
    <3> QED
      BY <2>4, <3>1, <3>2 DEF RemoveFile, TypeInv
  <2>3. CASE Upload(r)
    <3>1. NoReport \in ReportRec
      BY EmptySeq DEF NoReport, ReportRec
    <3> QED
      BY <2>3, <3>1 DEF Upload, TypeInv
  <2> QED
    BY <1>10, <2>1, <2>2, <2>3, <2>4 DEF ReportStep
<1>11. CASE UNCHANGED vars
  BY <1>11 DEF vars, TypeInv
<1> QED
  BY <1>1, <1>2, <1>3, <1>4, <1>5, <1>6, <1>7, <1>8, <1>9, <1>10, <1>11 DEF Next

\* Typed holds in every state: the lemmas and theorems below start from it.
LEMMA Typed == Spec => []TypeInv
<1>1. Init => TypeInv
  BY TypeInit
<1>2. TypeInv /\ [Next]_vars => TypeInv'
  BY TypeStep
<1> QED
  BY <1>1, <1>2, PTL DEF Spec

-----------------------------------------------------------------------------
(* The switch.                                                             *)

LEMMA OnStep ==
  ASSUME TypeInv, OnCoversAll, [Next]_vars
  PROVE  OnCoversAll'
<1> SUFFICES ASSUME NEW m \in Managers, optimizer' # <<>>, m \in Registered', pull'[m] = "ready"
             PROVE  HasTracer(m)'
  BY DEF OnCoversAll, Registered
<1>1. optimizer # <<>> /\ m \in Registered /\ pull[m] = "ready" => HasTracer(m)
  BY DEF OnCoversAll
<1>2. \E i \in Images : managerMap'[i] = m
  BY DEF Registered
<1>3. /\ tracer'[m] # <<>> => HasTracer(m)'
      /\ HasTracer(m) /\ UNCHANGED <<tracer, stuck>> => HasTracer(m)'
      /\ HasTracer(m) /\ tracer'[m] = tracer[m] /\ stuck' = stuck => HasTracer(m)'
  BY DEF HasTracer
<1>4. ASSUME NEW n \in Managers, NEW i \in Images, Register(n, i) PROVE HasTracer(m)'
  <2>1. pull[n] = "none" /\ pull' = [pull EXCEPT ![n] = "registered"] /\ managerMap' = [managerMap EXCEPT ![i] = n]
        /\ UNCHANGED <<optimizer, tracer, stuck>>
    BY <1>4 DEF Register
  <2>2. m # n /\ pull'[m] = pull[m]
    BY <2>1 DEF TypeInv
  <2>3. m \in Registered
    BY <1>2, <2>1, <2>2 DEF TypeInv, Registered
  <2> QED
    BY <1>1, <1>3, <2>1, <2>2, <2>3
<1>5. ASSUME NEW n \in Managers, NEW i \in Images, Load(n, i) PROVE HasTracer(m)'
  <2>1. /\ optimizer # <<>> /\ pull' = [pull EXCEPT ![n] = "ready"] /\ managerMap' = [managerMap EXCEPT ![i] = n]
        /\ tracer' = [tracer EXCEPT ![n] = <<NewTracer(n, i, optimizer[1])>>] /\ stuck' = stuck
    BY <1>5 DEF Load
  <2>2. CASE m = n
    <3>1. tracer'[m] = <<NewTracer(n, i, optimizer[1])>>
      BY <2>1, <2>2 DEF TypeInv
    <3> QED
      BY <1>3, <3>1
  <2>3. CASE m # n
    <3>1. pull'[m] = pull[m] /\ tracer'[m] = tracer[m]
      BY <2>1, <2>3 DEF TypeInv
    <3>2. m \in Registered
      BY <1>2, <2>1, <2>3 DEF TypeInv, Registered
    <3> QED
      BY <1>1, <1>3, <2>1, <3>1, <3>2
  <2> QED
    BY <2>2, <2>3
<1>6. ASSUME NEW n \in Managers, CheckDefault(n) PROVE HasTracer(m)'
  <2>1. /\ pull' = [pull EXCEPT ![n] = IF optimizer = <<>> THEN "ready" ELSE "enabling"]
        /\ UNCHANGED <<optimizer, managerMap, tracer, stuck>>
    BY <1>6 DEF CheckDefault
  <2>2. m # n /\ pull'[m] = pull[m]
    BY <2>1 DEF TypeInv
  <2>3. m \in Registered
    BY <1>2, <2>1 DEF Registered
  <2> QED
    BY <1>1, <1>3, <2>1, <2>2, <2>3
<1>7. ASSUME NEW n \in Managers, Enable(n) PROVE HasTracer(m)'
  <2>1. /\ pull' = [pull EXCEPT ![n] = "ready"] /\ UNCHANGED <<optimizer, managerMap, stuck>>
        /\ \/ HasTracer(n) /\ tracer' = tracer
           \/ tracer' = [tracer EXCEPT ![n] = <<NewTracer(n, imageOf[n], IF optimizer = <<>> THEN "" ELSE optimizer[1])>>]
    BY <1>7 DEF Enable
  <2>2. m \in Registered
    BY <1>2, <2>1 DEF Registered
  <2>3. CASE m = n
    BY <1>3, <2>1, <2>3 DEF TypeInv
  <2>4. CASE m # n
    <3>1. pull'[m] = pull[m] /\ tracer'[m] = tracer[m]
      BY <2>1, <2>4 DEF TypeInv
    <3> QED
      BY <1>1, <1>3, <2>1, <2>2, <3>1
  <2> QED
    BY <2>3, <2>4
<1>8. ASSUME NEW g \in Groups, SetOptimizerOn(g) PROVE HasTracer(m)'
  <2>1. /\ tracer'[m] = IF m \in Registered /\ ~HasTracer(m) THEN <<NewTracer(m, imageOf[m], g)>> ELSE tracer[m]
        /\ UNCHANGED <<managerMap, stuck>>
    BY <1>8 DEF SetOptimizerOn, Switched
  <2>2. m \in Registered
    BY <1>2, <2>1 DEF Registered
  <2>3. CASE HasTracer(m)
    BY <1>3, <2>1, <2>3
  <2>4. CASE ~HasTracer(m)
    BY <1>3, <2>1, <2>2, <2>4
  <2> QED
    BY <2>3, <2>4
<1>9. ASSUME NEW o \in opens, LogTrace(o) PROVE HasTracer(m)'
  <2>1. UNCHANGED <<optimizer, managerMap, pull, stuck>>
    BY <1>9 DEF LogTrace
  <2>2. m \in Registered
    BY <1>2, <2>1 DEF Registered
  <2>3. CASE tracer[o.manager] = <<>>
    BY <1>1, <1>3, <1>9, <2>1, <2>2, <2>3 DEF LogTrace
  <2>4. CASE tracer[o.manager] # <<>>
    <3>1. tracer' = [tracer EXCEPT ![o.manager] = <<Logged(o)>>]
      BY <1>9, <2>4, LoggedType
    <3>2. HasTracer(m)
      BY <1>1, <2>1, <2>2
    <3>3. CASE m = o.manager
      BY <1>3, <3>1, <3>3 DEF TypeInv
    <3>4. CASE m # o.manager
      <4>1. tracer'[m] = tracer[m]
        BY <3>1, <3>4 DEF TypeInv
      <4> QED
        BY <1>3, <2>1, <3>2, <4>1
    <3> QED
      BY <3>3, <3>4
  <2> QED
    BY <2>3, <2>4
<1>10. UNCHANGED <<optimizer, managerMap, pull, tracer, stuck>> => HasTracer(m)'
  BY <1>1, <1>2, <1>3 DEF Registered
<1>11. ASSUME NEW n \in Managers, NEW p \in Paths, Open(n, p) PROVE HasTracer(m)'
  BY <1>10, <1>11 DEF Open
<1>12. ASSUME NEW r \in Reporters, ReportStep(r) PROVE HasTracer(m)'
  BY <1>10, <1>12 DEF ReportStep, ReadDir, Read, RemoveFile, Upload
<1>13. ~SetOptimizerOff /\ ~\E written \in SUBSET Managers : Stop(written)
  BY DEF SetOptimizerOff, Stop
<1>14. UNCHANGED vars => HasTracer(m)'
  BY <1>10 DEF vars
<1> QED
  BY <1>4, <1>5, <1>6, <1>7, <1>8, <1>9, <1>11, <1>12, <1>13, <1>14 DEF Next

\* While the optimizer is on, every registered manager that has looked at the switch traces
\* (the pull in client.go reads it after managerMapLock is released, SetOptimizer holds both).
THEOREM CoversAll == Spec => []OnCoversAll
<1>1. Init => OnCoversAll
  BY DEF Init, OnCoversAll
<1>2. TypeInv /\ OnCoversAll /\ [Next]_vars => OnCoversAll'
  BY OnStep
<1> QED
  BY <1>1, <1>2, Typed, PTL DEF Spec

-----------------------------------------------------------------------------
(* Where the traces are: with a tracer, in a file, or in a report.          *)

Running(tr) == UNION {Range(tr[m]) : m \in Managers}
Saved(d) == UNION {Range(f.body) : f \in d}
Collected(rep) == UNION {Range(rep[r].got) : r \in Reporters}

LEMMA RunningType ==
  ASSUME NEW tr \in [Managers -> Bodies]
  PROVE  /\ \A t : t \in Running(tr) <=> \E m \in Managers : tr[m] # <<>> /\ t = tr[m][1]
         /\ Running(tr) \subseteq TraceRec
<1>1. ASSUME NEW m \in Managers
      PROVE  /\ tr[m] = <<>> => Range(tr[m]) = {}
             /\ tr[m] # <<>> => Range(tr[m]) = {tr[m][1]} /\ tr[m][1] \in TraceRec
  <2>1. CASE tr[m] = <<>>
    BY <2>1 DEF Range
  <2>2. CASE tr[m] # <<>>
    <3>1. PICK t \in TraceRec : tr[m] = <<t>>
      BY <2>2 DEF Bodies
    <3> QED
      BY <3>1 DEF Range
  <2> QED
    BY <2>1, <2>2
<1>2. \A t : t \in Running(tr) <=> \E m \in Managers : t \in Range(tr[m])
  BY DEF Running
<1> QED
  BY <1>1, <1>2

LEMMA SavedType ==
  ASSUME NEW d \in SUBSET FileRec
  PROVE  /\ \A t : t \in Saved(d) <=> \E f \in d : f.body # <<>> /\ t = f.body[1]
         /\ Saved(d) \subseteq TraceRec
<1>1. ASSUME NEW f \in d
      PROVE  /\ f.body = <<>> => Range(f.body) = {}
             /\ f.body # <<>> => Range(f.body) = {f.body[1]} /\ f.body[1] \in TraceRec
  <2>1. f.body \in Bodies
    BY DEF FileRec
  <2>2. CASE f.body = <<>>
    BY <2>2 DEF Range
  <2>3. CASE f.body # <<>>
    <3>1. PICK t \in TraceRec : f.body = <<t>>
      BY <2>1, <2>3 DEF Bodies
    <3> QED
      BY <3>1 DEF Range
  <2> QED
    BY <2>2, <2>3
<1>2. \A t : t \in Saved(d) <=> \E f \in d : t \in Range(f.body)
  BY DEF Saved
<1> QED
  BY <1>1, <1>2

LEMMA CollectedType ==
  ASSUME NEW rep \in [Reporters -> ReportRec]
  PROVE  /\ \A t : t \in Collected(rep) <=> \E r \in Reporters : \E k \in 1..Len(rep[r].got) : t = rep[r].got[k]
         /\ Collected(rep) \subseteq TraceRec
<1>1. \A r \in Reporters : /\ rep[r].got \in Seq(TraceRec) /\ DOMAIN rep[r].got = 1..Len(rep[r].got)
                           /\ \A k \in 1..Len(rep[r].got) : rep[r].got[k] \in TraceRec
  <2> TAKE r \in Reporters
  <2>1. rep[r].got \in Seq(TraceRec)
    BY DEF ReportRec
  <2> QED
    BY <2>1, LenProperties, ElementOfSeq
<1>2. \A t : t \in Collected(rep) <=> \E r \in Reporters : t \in Range(rep[r].got)
  BY DEF Collected
<1>3. \A r \in Reporters : \A t : t \in Range(rep[r].got) <=> \E k \in 1..Len(rep[r].got) : t = rep[r].got[k]
  BY <1>1 DEF Range
<1>4. \A t : t \in Collected(rep) <=> \E r \in Reporters : \E k \in 1..Len(rep[r].got) : t = rep[r].got[k]
  <2> DEFINE Got(t, r) == \E k \in 1..Len(rep[r].got) : t = rep[r].got[k]
  <2>1. \A r \in Reporters : \A t : t \in Range(rep[r].got) <=> Got(t, r)
    BY <1>3
  <2> HIDE DEF Got
  <2>2. \A t : t \in Collected(rep) <=> \E r \in Reporters : Got(t, r)
    BY <1>2, <2>1
  <2> QED
    BY <2>2 DEF Got
<1>5. Collected(rep) \subseteq TraceRec
  BY <1>1, <1>4
<1> QED
  BY <1>4, <1>5

Traces == Running(tracer) \cup Saved(dir) \cup Collected(report)

\* A trace has opens that happened, with the times they had, each at a time of its own.
TraceOK(t, clock, logged) ==
  /\ t.id[2] < clock
  /\ \A k \in 1..Len(t.seq) :
       /\ t.seq[k].access = t.seq[k].at - t.start /\ t.seq[k].at < clock
       /\ \E a \in logged : /\ a.at = t.seq[k].at /\ a.image = t.image
                            /\ a.path[1] = t.seq[k].stack /\ a.path[2] = t.seq[k].name
  /\ \A j, k \in 1..Len(t.seq) : t.seq[j].at = t.seq[k].at => j = k
Shares(t, u) == \E j \in 1..Len(t.seq), k \in 1..Len(u.seq) : t.seq[j].at = u.seq[k].at

\* No two traces have the same access, and no access that still waits is in a trace.
AccessOK(ts, waiting, clock, logged) ==
  /\ \A t \in ts : TraceOK(t, clock, logged)
  /\ \A t, u \in ts : Shares(t, u) => t = u
  /\ \A o \in waiting : o.at < clock /\ \A t \in ts : \A k \in 1..Len(t.seq) : t.seq[k].at # o.at
  /\ \A o, p \in waiting : o.at = p.at => o = p
AccessInv == AccessOK(Traces, opens, now, traced)

\* A tracer has an empty file of its own; the traces in files and reports are in order,
\* and what is in a report is in no file any more.
Ordered(t) == \A j, k \in 1..Len(t.seq) : j < k => t.seq[j].at < t.seq[k].at
FilesInv ==
  /\ \A m \in Managers : tracer[m] # <<>> =>
       /\ tracer[m][1].id[1] = m /\ tracer[m][1].image = imageOf[m]
       /\ [id |-> tracer[m][1].id, body |-> <<>>] \in dir
  /\ \A f \in dir : /\ f.id[2] < now
                    /\ f.body # <<>> => f.body[1].id = f.id /\ Ordered(f.body[1])
  /\ \A f, g \in dir : f.id = g.id => f = g
  /\ \A t \in Collected(report) : Ordered(t) /\ \A f \in dir : f.id = t.id => f.body = <<t>>

\* Fewer traces, or fewer that wait, or a later clock.
LEMMA AccessLess ==
  ASSUME NEW ts, NEW us, ts \subseteq TraceRec, us \subseteq ts, NEW ws, NEW vs, vs \subseteq ws,
         \A o \in ws : o.at \in Nat,
         NEW c \in Nat, NEW d \in Nat, c <= d, NEW l, NEW n, l \subseteq n, AccessOK(ts, ws, c, l)
  PROVE  AccessOK(us, vs, d, n)
<1>1. ASSUME NEW t \in us PROVE TraceOK(t, d, n)
  <2>1. TraceOK(t, c, l) /\ t \in TraceRec
    BY DEF AccessOK
  <2>2. t.id[2] \in Nat /\ \A k \in 1..Len(t.seq) : t.seq[k].at \in Nat
    <3>1. t.seq \in Seq(AccessRec) /\ t.id \in Managers \X Nat
      BY <2>1 DEF TraceRec
    <3>2. \A k \in 1..Len(t.seq) : t.seq[k] \in AccessRec
      BY <3>1, ElementOfSeq
    <3> QED
      BY <3>1, <3>2 DEF AccessRec
  <2>3. t.id[2] < d /\ \A k \in 1..Len(t.seq) : t.seq[k].at < d
    BY <2>1, <2>2 DEF TraceOK
  <2> QED
    BY <2>1, <2>3 DEF TraceOK
<1>2. \A o \in vs : o.at < d
  BY DEF AccessOK
<1> QED
  BY <1>1, <1>2 DEF AccessOK

\* New traces, which have no access yet.
LEMMA AccessNew ==
  ASSUME NEW ts, NEW us, ts \subseteq TraceRec, NEW ws, \A o \in ws : o.at \in Nat,
         NEW c \in Nat, NEW d \in Nat, c <= d, NEW l, AccessOK(ts, ws, c, l),
         \A t \in us : t \in ts \/ (Len(t.seq) = 0 /\ t.id[2] < d)
  PROVE  AccessOK(us, ws, d, l)
<1>1. AccessOK(ts, ws, d, l)
  BY AccessLess
<1>2. ASSUME NEW t \in us, Len(t.seq) = 0, t.id[2] < d
      PROVE  TraceOK(t, d, l) /\ \A u : ~Shares(t, u) /\ ~Shares(u, t)
  BY <1>2 DEF TraceOK, Shares
<1>3. \A t \in us : TraceOK(t, d, l)
  BY <1>1, <1>2 DEF AccessOK
<1>4. \A t, u \in us : Shares(t, u) => t = u
  BY <1>1, <1>2 DEF AccessOK
<1>5. \A o \in ws : o.at < d /\ \A t \in us : \A k \in 1..Len(t.seq) : t.seq[k].at # o.at
  BY <1>1 DEF AccessOK
<1> QED
  BY <1>1, <1>3, <1>4, <1>5 DEF AccessOK

\* Closing puts the accesses of a trace in order and keeps them.
LEMMA ClosedKeeps ==
  ASSUME NEW t \in TraceRec, NEW c, NEW l, TraceOK(t, c, l)
  PROVE  /\ Ordered(Closed(t)) /\ TraceOK(Closed(t), c, l)
         /\ \A k \in 1..Len(Closed(t).seq) : \E j \in 1..Len(t.seq) : Closed(t).seq[k] = t.seq[j]
         /\ \A k \in 1..Len(t.seq) : \E j \in 1..Len(Closed(t).seq) : Closed(t).seq[j] = t.seq[k]
<1> DEFINE u == Closed(t)
           key == [k \in 1..Len(t.seq) |-> t.seq[k].access]
<1>1. u \in TraceRec /\ u.id = t.id /\ u.image = t.image /\ u.start = t.start
  BY ClosedType
<1>2. \E p : Arranges(u.seq, t.seq, 1..Len(t.seq), key, p)
  BY ClosedType
<1>3. \A k \in 1..Len(t.seq) : key[k] = t.seq[k].access
  OBVIOUS
<1> HIDE DEF u, key
<1>4. PICK p : Arranges(u.seq, t.seq, 1..Len(t.seq), key, p)
  BY <1>2
<1>5. \A k \in 1..Len(u.seq) : p[k] \in 1..Len(t.seq) /\ u.seq[k] = t.seq[p[k]]
  BY <1>4 DEF Arranges
<1>6. \A k \in 1..Len(t.seq) : t.seq[k].at \in Nat /\ t.start \in Nat /\ t.seq[k].access = t.seq[k].at - t.start
  <2>1. t.seq \in Seq(AccessRec) /\ t.start \in Nat
    BY DEF TraceRec
  <2>2. \A k \in 1..Len(t.seq) : t.seq[k] \in AccessRec
    BY <2>1, ElementOfSeq
  <2> QED
    BY <2>1, <2>2 DEF AccessRec, TraceOK
<1>13. \A j, k \in 1..Len(t.seq) : t.seq[j].at = t.seq[k].at => j = k
  BY DEF TraceOK
<1>7. ASSUME NEW j \in 1..Len(u.seq), NEW k \in 1..Len(u.seq), j < k PROVE u.seq[j].at < u.seq[k].at
  <2>1. p[j] \in 1..Len(t.seq) /\ p[k] \in 1..Len(t.seq) /\ key[p[j]] <= key[p[k]]
    BY <1>4, <1>5, <1>7 DEF Arranges
  <2>2. p[j] # p[k]
    <3>1. u.seq \in Seq(AccessRec)
      BY <1>1 DEF TraceRec
    <3>2. Len(u.seq) \in Nat
      BY <3>1, LenProperties
    <3>3. j \in Nat /\ k \in Nat /\ j # k
      BY <1>7, <3>2
    <3> QED
      BY <1>4, <3>3 DEF Arranges
  <2>3. PICK i \in 1..Len(t.seq) : i = p[j]
    BY <2>1
  <2>4. PICK h \in 1..Len(t.seq) : h = p[k]
    BY <2>1
  <2>5. t.seq[i].access <= t.seq[h].access
    BY <1>3, <2>1, <2>3, <2>4
  <2>6. t.seq[i].at # t.seq[h].at
    BY <1>13, <2>2, <2>3, <2>4
  <2>7. t.seq[i].at < t.seq[h].at
    <3> DEFINE a == t.seq[i].at
               b == t.seq[h].at
               s == t.start
    <3>1. a \in Nat /\ b \in Nat /\ s \in Nat
      BY <1>6
    <3>2. a - s <= b - s /\ a # b
      BY <1>6, <2>5, <2>6
    <3> HIDE DEF a, b, s
    <3>3. a < b
      BY <3>1, <3>2
    <3> QED
      BY <3>3 DEF a, b
  <2> QED
    BY <1>5, <2>3, <2>4, <2>7
<1>8. \A k \in 1..Len(t.seq) : \E j \in 1..Len(u.seq) : u.seq[j] = t.seq[k]
  <2> TAKE k \in 1..Len(t.seq)
  <2>1. Range(p) = 1..Len(t.seq) /\ DOMAIN p = 1..Len(u.seq)
    BY <1>4 DEF Arranges
  <2>2. PICK j \in 1..Len(u.seq) : p[j] = k
    BY <2>1 DEF Range
  <2> QED
    BY <1>5, <2>2
<1>9. \A j, k \in 1..Len(u.seq) : u.seq[j].at = u.seq[k].at => j = k
  <2> TAKE j, k \in 1..Len(u.seq)
  <2>1. PICK i \in 1..Len(t.seq) : i = p[j] /\ u.seq[j] = t.seq[i]
    BY <1>5
  <2>2. PICK h \in 1..Len(t.seq) : h = p[k] /\ u.seq[k] = t.seq[h]
    BY <1>5
  <2>3. u.seq[j].at = u.seq[k].at => p[j] = p[k]
    BY <1>13, <2>1, <2>2
  <2> QED
    BY <1>4, <2>3 DEF Arranges
<1>10. Ordered(u)
  BY <1>7 DEF Ordered
<1>11. \A k \in 1..Len(u.seq) : \E j \in 1..Len(t.seq) : u.seq[k] = t.seq[j]
  BY <1>5
<1>12. TraceOK(u, c, l)
  <2>1. \A k \in 1..Len(u.seq) :
          /\ u.seq[k].access = u.seq[k].at - u.start /\ u.seq[k].at < c
          /\ \E a \in l : /\ a.at = u.seq[k].at /\ a.image = u.image
                          /\ a.path[1] = u.seq[k].stack /\ a.path[2] = u.seq[k].name
    <3> TAKE k \in 1..Len(u.seq)
    <3>1. PICK j \in 1..Len(t.seq) : u.seq[k] = t.seq[j]
      BY <1>11
    <3> QED
      BY <1>1, <3>1 DEF TraceOK
  <2>2. u.id[2] < c
    BY <1>1 DEF TraceOK
  <2> QED
    BY <1>9, <2>1, <2>2 DEF TraceOK
<1> QED
  BY <1>8, <1>10, <1>11, <1>12 DEF u

LEMMA AccessClosed ==
  ASSUME NEW ts, NEW us, ts \subseteq TraceRec, NEW cs \in SUBSET ts, NEW ws, NEW vs, vs \subseteq ws,
         NEW c, NEW l, AccessOK(ts, ws, c, l),
         \A u \in us : u \in ts \ cs \/ \E t \in cs : u = Closed(t)
  PROVE  AccessOK(us, vs, c, l)
<1> DEFINE Of(u, t) == t \in ts /\ ((t \notin cs /\ u = t) \/ (t \in cs /\ u = Closed(t)))
<1>1. \A u \in us : \E t \in ts : Of(u, t)
  OBVIOUS
<1>2. ASSUME NEW u, NEW t \in ts, Of(u, t)
      PROVE  TraceOK(u, c, l) /\ \A k \in 1..Len(u.seq) : \E j \in 1..Len(t.seq) : u.seq[k] = t.seq[j]
  <2>1. TraceOK(t, c, l) /\ t \in TraceRec
    BY DEF AccessOK
  <2> QED
    BY <1>2, <2>1, ClosedKeeps
<1>4. ASSUME NEW u \in us, NEW v \in us, Shares(u, v) PROVE u = v
  <2>1. PICK t \in ts : Of(u, t)
    BY <1>1
  <2>2. PICK w \in ts : Of(v, w)
    BY <1>1
  <2>3. Shares(t, w)
    <3>1. PICK j \in 1..Len(u.seq), k \in 1..Len(v.seq) : u.seq[j].at = v.seq[k].at
      BY <1>4 DEF Shares
    <3>2. \E i \in 1..Len(t.seq) : u.seq[j] = t.seq[i]
      BY <1>2, <2>1
    <3>3. \E i \in 1..Len(w.seq) : v.seq[k] = w.seq[i]
      BY <1>2, <2>2
    <3> QED
      BY <3>1, <3>2, <3>3 DEF Shares
  <2>4. t = w
    BY <2>3 DEF AccessOK
  <2> QED
    BY <2>1, <2>2, <2>4
<1> HIDE DEF Of
<1>5. \A u \in us : TraceOK(u, c, l)
  BY <1>1, <1>2
<1>6. \A o \in vs : o.at < c /\ \A u \in us : \A k \in 1..Len(u.seq) : u.seq[k].at # o.at
  <2> TAKE o \in vs
  <2>1. o \in ws /\ o.at < c /\ \A t \in ts : \A k \in 1..Len(t.seq) : t.seq[k].at # o.at
    BY DEF AccessOK
  <2> QED
    BY <1>1, <1>2, <2>1
<1>7. \A o, p \in vs : o.at = p.at => o = p
  BY DEF AccessOK
<1> QED
  BY <1>4, <1>5, <1>6, <1>7 DEF AccessOK

\* An access that waited is added to one trace.
Adds(u, t, o) ==
  /\ t \in TraceRec /\ u.id = t.id /\ u.image = t.image /\ u.start = t.start
  /\ Len(u.seq) = Len(t.seq) + 1
  /\ \A k \in 1..Len(t.seq) : u.seq[k] = t.seq[k]
  /\ u.seq[Len(t.seq) + 1] = Access(o, t)
LogsIt(a, t, o) == a.at = o.at /\ a.image = t.image /\ a.path = o.path

LEMMA AccessLogged ==
  ASSUME NEW ts, NEW us, NEW ws, NEW o \in ws, NEW c, NEW l, NEW n, l \subseteq n,
         AccessOK(ts, ws, c, l), NEW t \in ts, NEW u, Adds(u, t, o), NEW a \in n, LogsIt(a, t, o),
         \A v \in us : v \in ts \ {t} \/ v = u
  PROVE  AccessOK(us, ws \ {o}, c, n)
<1> DEFINE e == Len(t.seq) + 1
<1>0. /\ t.seq \in Seq(AccessRec)
      /\ u.id = t.id /\ u.image = t.image /\ u.start = t.start /\ Len(u.seq) = Len(t.seq) + 1
      /\ \A k \in 1..Len(t.seq) : u.seq[k] = t.seq[k]
      /\ u.seq[Len(t.seq) + 1] = Access(o, t)
      /\ a.at = o.at /\ a.image = t.image /\ a.path = o.path
  BY DEF Adds, LogsIt, TraceRec
<1>1. \A k : k \in 1..Len(u.seq) <=> k \in 1..Len(t.seq) \/ k = e
  BY <1>0, LenProperties
<1>2. /\ u.seq[e].at = o.at /\ u.seq[e].access = o.at - t.start /\ u.seq[e].name = o.path[2]
      /\ u.seq[e].stack = o.path[1]
  BY <1>0 DEF Access
<1>3. e \notin 1..Len(t.seq)
  BY <1>0, LenProperties
<1>4. o.at < c /\ \A v \in ts : \A k \in 1..Len(v.seq) : v.seq[k].at # o.at
  BY DEF AccessOK
<1> HIDE DEF e
<1>5. TraceOK(t, c, l)
  BY DEF AccessOK
<1>12. \A k \in 1..Len(t.seq) : u.seq[k] = t.seq[k] /\ u.seq[k].at # o.at
  BY <1>0, <1>4
<1>6. TraceOK(u, c, n)
  <2>1. ASSUME NEW k \in 1..Len(u.seq)
        PROVE  /\ u.seq[k].access = u.seq[k].at - u.start /\ u.seq[k].at < c
               /\ \E b \in n : /\ b.at = u.seq[k].at /\ b.image = u.image
                               /\ b.path[1] = u.seq[k].stack /\ b.path[2] = u.seq[k].name
    <3>1. CASE k \in 1..Len(t.seq)
      BY <1>0, <1>5, <3>1 DEF TraceOK
    <3>2. CASE k = e
      BY <1>0, <1>2, <1>4, <3>2
    <3> QED
      BY <1>1, <3>1, <3>2
  <2>2. ASSUME NEW j \in 1..Len(u.seq), NEW k \in 1..Len(u.seq), u.seq[j].at = u.seq[k].at PROVE j = k
    <3>1. CASE j \in 1..Len(t.seq) /\ k \in 1..Len(t.seq)
      <4>1. t.seq[j].at = t.seq[k].at
        BY <1>0, <2>2, <3>1
      <4> QED
        BY <1>5, <3>1, <4>1 DEF TraceOK
    <3>2. CASE j = e \/ k = e
      BY <1>1, <1>2, <1>12, <2>2, <3>2
    <3> QED
      BY <1>1, <3>1, <3>2
  <2>3. u.id[2] < c
    BY <1>0, <1>5 DEF TraceOK
  <2> QED
    BY <2>1, <2>2, <2>3 DEF TraceOK
<1>7. \A v \in us : TraceOK(v, c, n)
  <2>1. \A v \in ts : TraceOK(v, c, l)
    BY DEF AccessOK
  <2>2. \A v \in ts : TraceOK(v, c, n)
    BY <2>1 DEF TraceOK
  <2> QED
    BY <1>6, <2>2
<1>8. ASSUME NEW v \in ts, v # t PROVE ~Shares(u, v) /\ ~Shares(v, u)
  <2>1. \A j \in 1..Len(v.seq), k \in 1..Len(t.seq) : v.seq[j].at # t.seq[k].at
    <3>1. ~Shares(v, t)
      BY <1>8 DEF AccessOK
    <3> QED
      BY <3>1 DEF Shares
  <2>2. \A j \in 1..Len(v.seq), k \in 1..Len(t.seq) : v.seq[j].at # u.seq[k].at
    BY <1>12, <2>1
  <2>3. \A j \in 1..Len(v.seq) : v.seq[j].at # u.seq[e].at
    BY <1>2, <1>4
  <2>4. \A j \in 1..Len(v.seq), k \in 1..Len(u.seq) : v.seq[j].at # u.seq[k].at
    BY <1>1, <2>2, <2>3
  <2> QED
    BY <2>4 DEF Shares
<1>9. \A v, w \in us : Shares(v, w) => v = w
  BY <1>8 DEF AccessOK
<1>10. \A p \in ws \ {o} : p.at < c /\ \A v \in us : \A k \in 1..Len(v.seq) : v.seq[k].at # p.at
  <2> TAKE p \in ws \ {o}
  <2>1. p.at < c /\ p.at # o.at /\ \A v \in ts : \A k \in 1..Len(v.seq) : v.seq[k].at # p.at
    BY DEF AccessOK
  <2> QED
    BY <1>0, <1>1, <1>2, <2>1
<1>11. \A p, q \in ws \ {o} : p.at = q.at => p = q
  BY DEF AccessOK
<1> QED
  BY <1>7, <1>9, <1>10, <1>11 DEF AccessOK

\* The traces of a state, one by one.
LEMMA TracesType ==
  ASSUME NEW tr \in [Managers -> Bodies], NEW d \in SUBSET FileRec, NEW rep \in [Reporters -> ReportRec]
  PROVE  /\ Running(tr) \cup Saved(d) \cup Collected(rep) \subseteq TraceRec
         /\ \A t \in Running(tr) : \E m \in Managers : tr[m] # <<>> /\ t = tr[m][1]
         /\ \A m \in Managers : tr[m] # <<>> => tr[m][1] \in Running(tr)
         /\ \A t \in Saved(d) : \E f \in d : f.body # <<>> /\ t = f.body[1]
         /\ \A f \in d : f.body # <<>> => f.body[1] \in Saved(d)
BY RunningType, SavedType, CollectedType

LEMMA CollectedLess ==
  ASSUME NEW rep \in [Reporters -> ReportRec], NEW new \in [Reporters -> ReportRec],
         \A r \in Reporters : new[r].got \in {rep[r].got, <<>>}
  PROVE  Collected(new) \subseteq Collected(rep)
<1> SUFFICES ASSUME NEW t \in Collected(new) PROVE t \in Collected(rep)
  OBVIOUS
<1>1. PICK r \in Reporters : \E k \in 1..Len(new[r].got) : t = new[r].got[k]
  BY CollectedType
<1>2. new[r].got # <<>>
  BY <1>1, EmptySeq
<1>3. new[r].got = rep[r].got
  BY <1>2
<1> QED
  BY <1>1, <1>3, CollectedType

\* Steps that leave tracers and files alone.
LEMMA SameFiles ==
  ASSUME TypeInv, TypeInv', FilesInv, AccessInv, UNCHANGED <<tracer, dir>>, traced \subseteq traced',
         Collected(report') \subseteq Collected(report), now <= now', opens' \subseteq opens,
         \A m \in Managers : tracer[m] # <<>> => imageOf'[m] = imageOf[m]
  PROVE  FilesInv' /\ AccessInv'
<1>1. now \in Nat /\ now' \in Nat /\ \A o \in opens : o.at \in Nat
  BY DEF TypeInv
<1>2. tracer \in [Managers -> Bodies] /\ dir \in SUBSET FileRec /\ report \in [Reporters -> ReportRec]
  BY DEF TypeInv
<1>3. Traces \subseteq TraceRec
  BY <1>2, TracesType DEF Traces
<1>4. Traces' \subseteq Traces
  BY DEF Traces
<1>5. AccessInv'
  BY <1>1, <1>3, <1>4, AccessLess DEF AccessInv
<1>6. \A f \in dir : f.id[2] \in Nat
  BY <1>2 DEF FileRec
<1>7. FilesInv'
  BY <1>1, <1>6 DEF FilesInv
<1> QED
  BY <1>5, <1>7

\* Steps that start tracers.
LEMMA NewTracers ==
  ASSUME TypeInv, TypeInv', FilesInv, AccessInv, NEW ms \in SUBSET Managers,
         \A m \in ms : tracer[m] = <<>> /\ \E g : tracer'[m] = <<NewTracer(m, imageOf'[m], g)>>,
         \A m \in Managers \ ms : tracer'[m] = tracer[m],
         \A m \in Managers : tracer[m] # <<>> => imageOf'[m] = imageOf[m],
         dir' = dir \cup {Fresh(m) : m \in ms}, now' = now + 2, UNCHANGED <<traced, opens, report>>
  PROVE  FilesInv' /\ AccessInv'
<1>1. now \in Nat /\ now' \in Nat /\ now <= now' /\ now < now' /\ \A o \in opens : o.at \in Nat
  BY DEF TypeInv
<1>2. /\ tracer \in [Managers -> Bodies] /\ dir \in SUBSET FileRec /\ report \in [Reporters -> ReportRec]
      /\ tracer' \in [Managers -> Bodies] /\ dir' \in SUBSET FileRec
  BY DEF TypeInv
<1>3. Traces \subseteq TraceRec
  BY <1>2, TracesType DEF Traces
<1>4. ASSUME NEW m \in ms
      PROVE  /\ tracer'[m] # <<>> /\ tracer'[m][1].id = <<m, now>> /\ tracer'[m][1].image = imageOf'[m]
             /\ Len(tracer'[m][1].seq) = 0 /\ Fresh(m) = [id |-> <<m, now>>, body |-> <<>>]
  <2>1. PICK g : tracer'[m] = <<NewTracer(m, imageOf'[m], g)>>
    OBVIOUS
  <2>2. tracer'[m][1] = NewTracer(m, imageOf'[m], g) /\ tracer'[m] # <<>>
    BY <2>1
  <2>3. Len(<<>>) = 0
    BY EmptySeq
  <2> QED
    BY <2>2, <2>3 DEF NewTracer, Fresh
<1>5. \A t \in Traces' : t \in Traces \/ (Len(t.seq) = 0 /\ t.id[2] < now')
  <2> TAKE t \in Traces'
  <2>1. CASE t \in Running(tracer')
    <3>1. PICK m \in Managers : tracer'[m] # <<>> /\ t = tracer'[m][1]
      BY <1>2, <2>1, TracesType
    <3>2. CASE m \in ms
      BY <1>1, <1>4, <3>1, <3>2
    <3>3. CASE m \notin ms
      BY <1>2, <3>1, <3>3, TracesType DEF Traces
    <3> QED
      BY <3>2, <3>3
  <2>2. CASE t \in Saved(dir')
    <3>1. PICK f \in dir' : f.body # <<>> /\ t = f.body[1]
      BY <1>2, <2>2, TracesType
    <3>2. f \in dir
      BY <1>4, <3>1
    <3> QED
      BY <1>2, <3>1, <3>2, TracesType DEF Traces
  <2>3. CASE t \in Collected(report')
    BY <2>3 DEF Traces
  <2> QED
    BY <2>1, <2>2, <2>3 DEF Traces
<1>6. AccessInv'
  BY <1>1, <1>3, <1>5, AccessNew DEF AccessInv
<1>7. \A f \in dir : f.id[2] \in Nat /\ f.id[2] < now /\ f.id[2] < now'
  <2>1. \A f \in dir : f.id[2] \in Nat /\ f.id[2] < now
    BY <1>2 DEF FileRec, FilesInv
  <2> QED
    BY <1>1, <2>1
<1>8. \A m \in Managers : tracer'[m] # <<>> =>
        /\ tracer'[m][1].id[1] = m /\ tracer'[m][1].image = imageOf'[m]
        /\ [id |-> tracer'[m][1].id, body |-> <<>>] \in dir'
  <2> SUFFICES ASSUME NEW m \in Managers, tracer'[m] # <<>>
               PROVE  /\ tracer'[m][1].id[1] = m /\ tracer'[m][1].image = imageOf'[m]
                      /\ [id |-> tracer'[m][1].id, body |-> <<>>] \in dir'
    OBVIOUS
  <2>1. CASE m \in ms
    <3>1. Fresh(m) \in dir'
      BY <2>1
    <3> QED
      BY <1>4, <2>1, <3>1
  <2>2. CASE m \notin ms
    BY <2>2 DEF FilesInv
  <2> QED
    BY <2>1, <2>2
<1>9. \A f \in dir' : f.id[2] < now' /\ (f.body # <<>> => f.body[1].id = f.id /\ Ordered(f.body[1]))
  <2> TAKE f \in dir'
  <2>1. CASE f \in dir
    BY <1>7, <2>1 DEF FilesInv
  <2>2. CASE f \notin dir
    BY <1>1, <1>4, <2>2
  <2> QED
    BY <2>1, <2>2
<1>10. ASSUME NEW f \in dir', NEW g \in dir', f.id = g.id PROVE f = g
  <2>1. CASE f \in dir /\ g \in dir
    BY <1>10, <2>1 DEF FilesInv
  <2>2. CASE f \notin dir /\ g \notin dir
    BY <1>4, <1>10, <2>2
  <2>3. \A h \in dir' \ dir : h.id[2] = now
    BY <1>4
  <2>4. CASE (f \in dir /\ g \notin dir) \/ (f \notin dir /\ g \in dir)
    BY <1>1, <1>7, <1>10, <2>3, <2>4
  <2> QED
    BY <2>1, <2>2, <2>4
<1>11. \A t \in Collected(report') : Ordered(t) /\ \A f \in dir' : f.id = t.id => f.body = <<t>>
  <2> TAKE t \in Collected(report')
  <2>1. t \in Collected(report) /\ t \in Traces /\ t \in TraceRec
    BY <1>3 DEF Traces
  <2>2. t.id[2] < now /\ t.id[2] \in Nat
    BY <2>1 DEF AccessInv, AccessOK, TraceOK, TraceRec
  <2>3. \A h \in dir' \ dir : h.id[2] = now
    BY <1>4
  <2>4. Ordered(t) /\ \A f \in dir : f.id = t.id => f.body = <<t>>
    BY <2>1 DEF FilesInv
  <2>5. \A h \in dir' \ dir : h.id # t.id
    BY <1>1, <2>2, <2>3
  <2> QED
    BY <2>4, <2>5
<1>12. FilesInv'
  BY <1>8, <1>9, <1>10, <1>11 DEF FilesInv
<1> QED
  BY <1>6, <1>12

\* Steps that close tracers.
LEMMA ClosedTracers ==
  ASSUME TypeInv, TypeInv', FilesInv, AccessInv, NEW ms \in SUBSET Managers, dir' = Written(ms),
         \A m \in Managers : tracer'[m] = <<>> \/ (m \notin ms /\ tracer'[m] = tracer[m]),
         Collected(report') \subseteq Collected(report), opens' \subseteq opens,
         UNCHANGED <<traced, now, imageOf>>
  PROVE  FilesInv' /\ AccessInv'
<1> DEFINE cs == {tracer[m][1] : m \in {n \in ms : tracer[n] # <<>>}}
<1>1. /\ tracer \in [Managers -> Bodies] /\ dir \in SUBSET FileRec /\ report \in [Reporters -> ReportRec]
      /\ tracer' \in [Managers -> Bodies] /\ dir' \in SUBSET FileRec /\ report' \in [Reporters -> ReportRec]
  BY DEF TypeInv
<1>2. Traces \subseteq TraceRec
  BY <1>1, TracesType DEF Traces
<1>3. cs \in SUBSET Traces
  BY <1>1, TracesType DEF Traces
<1>4. \A t \in cs : /\ t.id[1] \in ms
                    /\ \E f \in dir : f.id = t.id /\ f.body = <<>>
                    /\ \A f \in dir : f.id = t.id => f.body = <<>>
  <2> TAKE t \in cs
  <2>1. PICK m \in ms : tracer[m] # <<>> /\ t = tracer[m][1]
    OBVIOUS
  <2> DEFINE e == [id |-> t.id, body |-> <<>>]
  <2>2. t.id[1] \in ms /\ e \in dir
    BY <2>1 DEF FilesInv
  <2>3. e.id = t.id /\ e.body = <<>>
    OBVIOUS
  <2> HIDE DEF e
  <2>4. \A f \in dir : f.id = t.id => f = e
    BY <2>2, <2>3 DEF FilesInv
  <2> QED
    BY <2>2, <2>3, <2>4
<1>5. \A m \in ms : tracer[m] # <<>> => tracer[m][1] \in cs
  OBVIOUS
<1>6. \A t \in cs : \E m \in ms : tracer[m] # <<>> /\ t = tracer[m][1]
  OBVIOUS
<1> HIDE DEF cs
<1> DEFINE Untouched(f) == \A m \in ms : tracer[m] = <<>> \/ tracer[m][1].id # f.id
           Touched(g, f) == \E m \in ms : /\ tracer[m] # <<>> /\ tracer[m][1].id = f.id
                                          /\ g = [f EXCEPT !.body = <<Closed(tracer[m][1])>>]
<1>7. /\ \A g \in dir' : \E f \in dir : g.id = f.id /\ ((g = f /\ Untouched(f)) \/ Touched(g, f))
      /\ \A f \in dir : \E g \in dir' : g.id = f.id /\ (Untouched(f) => g = f)
  BY WrittenType
<1>8. ASSUME NEW g \in dir', NEW f \in dir, Touched(g, f)
      PROVE  \E t \in cs : g.body = <<Closed(t)>> /\ t.id = f.id /\ g.body[1] = Closed(t) /\ g.body # <<>>
  <2>1. PICK m \in ms : /\ tracer[m] # <<>> /\ tracer[m][1].id = f.id
                        /\ g = [f EXCEPT !.body = <<Closed(tracer[m][1])>>]
    BY <1>8
  <2>2. f \in FileRec
    BY <1>1
  <2>3. g.body = <<Closed(tracer[m][1])>>
    BY <2>1, <2>2 DEF FileRec
  <2>4. g.body[1] = Closed(tracer[m][1]) /\ g.body # <<>>
    BY <2>3
  <2> QED
    BY <1>5, <2>1, <2>3, <2>4
<1>9. ASSUME NEW f \in dir, Untouched(f) PROVE \A t \in cs : t.id # f.id
  BY <1>6, <1>9
<1>18. ASSUME NEW f, NEW g, Untouched(f) PROVE ~Touched(g, f)
  <2> SUFFICES ASSUME NEW m \in ms, tracer[m] # <<>>, tracer[m][1].id = f.id PROVE FALSE
    OBVIOUS
  <2> QED
    BY <1>18
<1> HIDE DEF Untouched, Touched
<1>10. \A u \in Traces' : u \in Traces \ cs \/ \E t \in cs : u = Closed(t)
  <2> TAKE u \in Traces'
  <2>1. CASE u \in Running(tracer')
    <3>1. PICK m \in Managers : tracer'[m] # <<>> /\ u = tracer'[m][1]
      BY <1>1, <2>1, TracesType
    <3>2. m \notin ms /\ tracer[m] # <<>> /\ u = tracer[m][1]
      BY <3>1
    <3>3. u \in Traces /\ u.id[1] = m
      BY <1>1, <3>2, TracesType DEF Traces, FilesInv
    <3> QED
      BY <1>4, <3>2, <3>3
  <2>2. CASE u \in Saved(dir')
    <3>1. PICK g \in dir' : g.body # <<>> /\ u = g.body[1]
      BY <1>1, <2>2, TracesType
    <3>2. PICK f \in dir : g.id = f.id /\ ((g = f /\ Untouched(f)) \/ Touched(g, f))
      BY <1>7
    <3>3. CASE Touched(g, f)
      BY <1>8, <3>1, <3>3
    <3>4. CASE g = f /\ Untouched(f)
      <4>1. u \in Traces /\ u.id = f.id
        BY <1>1, <3>1, <3>4, TracesType DEF Traces, FilesInv
      <4> QED
        BY <1>9, <3>4, <4>1
    <3> QED
      BY <3>2, <3>3, <3>4
  <2>3. CASE u \in Collected(report')
    <3>1. u \in Collected(report) /\ u \in Traces
      BY <2>3 DEF Traces
    <3>2. \A f \in dir : f.id = u.id => f.body = <<u>>
      BY <3>1 DEF FilesInv
    <3>3. \A f \in dir : f.id = u.id => f.body # <<>>
      BY <3>2
    <3> QED
      BY <1>4, <3>1, <3>3
  <2> QED
    BY <2>1, <2>2, <2>3 DEF Traces
<1>11. AccessInv'
  <2> DEFINE ts == Traces
             us == Traces'
  <2>1. AccessOK(ts, opens, now, traced)
    BY DEF AccessInv
  <2>2. ts \subseteq TraceRec /\ cs \in SUBSET ts /\ \A u \in us : u \in ts \ cs \/ \E t \in cs : u = Closed(t)
    BY <1>2, <1>3, <1>10
  <2> HIDE DEF ts, us
  <2>3. AccessOK(us, opens', now, traced)
    BY <2>1, <2>2, AccessClosed
  <2> QED
    BY <2>3 DEF us, AccessInv
<1>12. \A t \in cs : Ordered(Closed(t)) /\ Closed(t).id = t.id
  <2> TAKE t \in cs
  <2>1. t \in TraceRec /\ TraceOK(t, now, traced)
    BY <1>2, <1>3 DEF AccessInv, AccessOK
  <2> QED
    BY <2>1, ClosedKeeps, ClosedType
<1>13. \A m \in Managers : tracer'[m] # <<>> =>
         /\ tracer'[m][1].id[1] = m /\ tracer'[m][1].image = imageOf'[m]
         /\ [id |-> tracer'[m][1].id, body |-> <<>>] \in dir'
  <2> SUFFICES ASSUME NEW m \in Managers, tracer'[m] # <<>>
               PROVE  /\ tracer'[m][1].id[1] = m /\ tracer'[m][1].image = imageOf'[m]
                      /\ [id |-> tracer'[m][1].id, body |-> <<>>] \in dir'
    OBVIOUS
  <2>1. m \notin ms /\ tracer'[m] = tracer[m] /\ tracer[m] # <<>>
    OBVIOUS
  <2> DEFINE f == [id |-> tracer[m][1].id, body |-> <<>>]
  <2>2. tracer[m][1].id[1] = m /\ tracer[m][1].image = imageOf[m] /\ f \in dir
    BY <2>1 DEF FilesInv
  <2>3. f.id = tracer[m][1].id
    OBVIOUS
  <2>4. \A n \in ms : tracer[n] # <<>> => tracer[n][1].id[1] = n
    BY DEF FilesInv
  <2>5. Untouched(f)
    BY <2>1, <2>2, <2>3, <2>4 DEF Untouched
  <2>6. f \in dir'
    BY <1>7, <2>2, <2>5
  <2> QED
    BY <2>1, <2>2, <2>6
<1>14. \A g \in dir' : g.id[2] < now' /\ (g.body # <<>> => g.body[1].id = g.id /\ Ordered(g.body[1]))
  <2> TAKE g \in dir'
  <2>1. PICK f \in dir : g.id = f.id /\ ((g = f /\ Untouched(f)) \/ Touched(g, f))
    BY <1>7
  <2>2. f.id[2] < now /\ (f.body # <<>> => f.body[1].id = f.id /\ Ordered(f.body[1]))
    BY DEF FilesInv
  <2>3. CASE g = f
    BY <2>2, <2>3
  <2>4. CASE Touched(g, f)
    <3>1. PICK t \in cs : g.body[1] = Closed(t) /\ t.id = f.id
      BY <1>8, <2>4
    <3> QED
      BY <1>12, <2>1, <2>2, <3>1
  <2> QED
    BY <2>1, <2>3, <2>4
<1>15. ASSUME NEW g \in dir', NEW h \in dir', g.id = h.id PROVE g = h
  <2>1. PICK f \in dir : g.id = f.id /\ ((g = f /\ Untouched(f)) \/ Touched(g, f))
    BY <1>7
  <2>2. PICK e \in dir : h.id = e.id /\ ((h = e /\ Untouched(e)) \/ Touched(h, e))
    BY <1>7
  <2>6. f.id = e.id
    BY <1>15, <2>1, <2>2
  <2>3. f = e
    BY <2>6 DEF FilesInv
  <2>4. CASE Untouched(f)
    BY <1>18, <2>1, <2>2, <2>3, <2>4
  <2>5. CASE Touched(g, f) /\ Touched(h, f)
    <3>1. PICK m \in ms : /\ tracer[m] # <<>> /\ tracer[m][1].id = f.id
                          /\ g = [f EXCEPT !.body = <<Closed(tracer[m][1])>>]
      BY <2>5 DEF Touched
    <3>2. PICK n \in ms : /\ tracer[n] # <<>> /\ tracer[n][1].id = f.id
                          /\ h = [f EXCEPT !.body = <<Closed(tracer[n][1])>>]
      BY <2>5 DEF Touched
    <3>3. tracer[m][1].id[1] = m /\ tracer[n][1].id[1] = n
      BY <3>1, <3>2 DEF FilesInv
    <3>4. m = n
      BY <3>1, <3>2, <3>3
    <3> QED
      BY <3>1, <3>2, <3>4
  <2> QED
    BY <2>1, <2>2, <2>3, <2>4, <2>5
<1>16. \A t \in Collected(report') : Ordered(t) /\ \A g \in dir' : g.id = t.id => g.body = <<t>>
  <2> TAKE t \in Collected(report')
  <2>1. Ordered(t) /\ \A f \in dir : f.id = t.id => f.body = <<t>>
    BY DEF FilesInv
  <2>2. ASSUME NEW g \in dir', g.id = t.id PROVE g.body = <<t>>
    <3>1. PICK f \in dir : g.id = f.id /\ ((g = f /\ Untouched(f)) \/ Touched(g, f))
      BY <1>7
    <3>2. f.body = <<t>>
      BY <2>1, <2>2, <3>1
    <3>3. f.body # <<>>
      BY <3>2
    <3>4. ~Touched(g, f)
      BY <1>4, <1>8, <3>3
    <3> QED
      BY <3>1, <3>2, <3>4
  <2> QED
    BY <2>1, <2>2
<1>17. FilesInv'
  BY <1>13, <1>14, <1>15, <1>16 DEF FilesInv
<1> QED
  BY <1>11, <1>17

\* A handler that is idle has no traces, and one that removes a file has read it.
IdleInv == \A r \in Reporters :
  /\ report[r].at = "idle" => report[r].got = <<>>
  /\ report[r].at = "removing" => Len(report[r].got) > 0

LEMMA IdleStep ==
  ASSUME TypeInv, IdleInv, [Next]_vars
  PROVE  IdleInv'
<1>1. \A r \in Reporters : report[r] \in ReportRec /\ Len(report[r].got) \in Nat
  <2> TAKE r \in Reporters
  <2>1. report[r] \in ReportRec
    BY DEF TypeInv
  <2>2. report[r].got \in Seq(TraceRec)
    BY <2>1 DEF ReportRec
  <2> QED
    BY <2>1, <2>2, LenProperties
<1>2. UNCHANGED report => IdleInv'
  BY DEF IdleInv
<1>3. ASSUME NEW r \in Reporters, ReportStep(r) PROVE IdleInv'
  <2>1. CASE ReadDir(r)
    BY <2>1 DEF ReadDir, IdleInv, TypeInv
  <2>2. CASE Read(r)
    <3>1. \A q \in Reporters : q # r => report'[q] = report[q]
      BY <2>2, ReadType
    <3>2. /\ report'[r].at \in {"reading", "removing"}
          /\ report'[r].at = "removing" => \E t \in TraceRec : report'[r].got = Append(report[r].got, t)
      BY <2>2, ReadType
    <3>3. report'[r].at = "removing" => Len(report'[r].got) > 0
      <4> SUFFICES ASSUME NEW t \in TraceRec, report'[r].got = Append(report[r].got, t)
                   PROVE  Len(report'[r].got) > 0
        BY <3>2
      <4> DEFINE T == TraceRec
      <4>1. report[r].got \in Seq(T) /\ t \in T
        BY <1>1 DEF ReportRec
      <4> HIDE DEF T
      <4>2. Len(report'[r].got) = Len(report[r].got) + 1
        BY <4>1, AppendProperties
      <4> QED
        BY <1>1, <4>2
    <3> QED
      BY <3>1, <3>2, <3>3 DEF IdleInv
  <2>3. CASE RemoveFile(r)
    <3>1. report' = [report EXCEPT ![r].at = "reading"]
      BY <2>3 DEF RemoveFile
    <3>2. report'[r].at = "reading" /\ \A q \in Reporters : q # r => report'[q] = report[q]
      BY <1>1, <3>1 DEF TypeInv, ReportRec
    <3> QED
      BY <3>2 DEF IdleInv
  <2>4. CASE Upload(r)
    <3>1. report' = [report EXCEPT ![r] = NoReport]
      BY <2>4 DEF Upload
    <3> QED
      BY <3>1 DEF IdleInv, TypeInv, NoReport
  <2> QED
    BY <1>3, <2>1, <2>2, <2>3, <2>4 DEF ReportStep
<1>4. ASSUME NEW written \in SUBSET Managers, Stop(written) PROVE IdleInv'
  BY <1>4 DEF Stop, IdleInv, NoReport
<1> QED
  BY <1>2, <1>3, <1>4
     DEF Next, Register, Load, CheckDefault, Enable, Open, SetOptimizerOn, SetOptimizerOff, LogTrace, vars

\* A file that is read goes into the report, and stays in the directory for now.
LEMMA ReadMoves ==
  ASSUME TypeInv, NEW r \in Reporters, Read(r)
  PROVE  /\ Collected(report) \subseteq Collected(report')
         /\ \A t \in Collected(report') : t \in Collected(report) \/ \E f \in dir : f.body = <<t>>
         /\ UNCHANGED <<tracer, dir, opens, now, traced, imageOf>>
<1>1. report \in [Reporters -> ReportRec] /\ report' \in [Reporters -> ReportRec]
  BY ReadType DEF TypeInv
<1>2. UNCHANGED <<tracer, dir, opens, now, traced, imageOf>>
  BY DEF Read
<1>3. \A q \in Reporters : q # r => report'[q].got = report[q].got
  BY ReadType
<1>4. CASE report'[r].got = report[r].got
  <2>1. \A q \in Reporters : report'[q].got = report[q].got
    BY <1>3, <1>4
  <2>2. Collected(report) \subseteq Collected(report') /\ Collected(report') \subseteq Collected(report)
    BY <1>1, <2>1, CollectedLess
  <2> QED
    BY <1>2, <2>2
<1>5. CASE report'[r].got # report[r].got
  <2>1. PICK f \in dir : \E t \in TraceRec : f.body = <<t>> /\ report'[r].got = Append(report[r].got, t)
    BY <1>5, ReadType
  <2>2. PICK t \in TraceRec : f.body = <<t>> /\ report'[r].got = Append(report[r].got, t)
    BY <2>1
  <2> DEFINE old == report[r].got
             new == report'[r].got
             T == TraceRec
  <2>3. old \in Seq(T) /\ t \in T /\ new = Append(old, t)
    BY <1>1, <2>2 DEF ReportRec
  <2> HIDE DEF old, new, T
  <2>4. /\ Len(new) = Len(old) + 1 /\ \A k \in 1..Len(old) : new[k] = old[k]
        /\ new[Len(old) + 1] = t /\ Len(old) \in Nat
    BY <2>3, AppendProperties, LenProperties
  <2>5. \A k : k \in 1..Len(new) <=> k \in 1..Len(old) \/ k = Len(old) + 1
    BY <2>4
  <2>6. Collected(report) \subseteq Collected(report')
    <3> SUFFICES ASSUME NEW u \in Collected(report) PROVE u \in Collected(report')
      OBVIOUS
    <3>1. PICK q \in Reporters : \E k \in 1..Len(report[q].got) : u = report[q].got[k]
      BY <1>1, CollectedType
    <3>2. \E k \in 1..Len(report'[q].got) : u = report'[q].got[k]
      <4>1. CASE q = r
        BY <2>4, <2>5, <3>1, <4>1 DEF new, old
      <4>2. CASE q # r
        BY <1>3, <3>1, <4>2
      <4> QED
        BY <4>1, <4>2
    <3> QED
      BY <1>1, <3>2, CollectedType
  <2>7. \A u \in Collected(report') : u \in Collected(report) \/ u = t
    <3> TAKE u \in Collected(report')
    <3>1. PICK q \in Reporters : \E k \in 1..Len(report'[q].got) : u = report'[q].got[k]
      BY <1>1, CollectedType
    <3>2. u = t \/ \E k \in 1..Len(report[q].got) : u = report[q].got[k]
      <4>1. CASE q = r
        BY <2>4, <2>5, <3>1, <4>1 DEF new, old
      <4>2. CASE q # r
        BY <1>3, <3>1, <4>2
      <4> QED
        BY <4>1, <4>2
    <3> QED
      BY <1>1, <3>2, CollectedType
  <2> QED
    BY <1>2, <2>2, <2>6, <2>7
<1> QED
  BY <1>4, <1>5

LEMMA ReadFiles ==
  ASSUME TypeInv, TypeInv', FilesInv, AccessInv, NEW r \in Reporters, Read(r)
  PROVE  FilesInv' /\ AccessInv'
<1>1. /\ tracer \in [Managers -> Bodies] /\ dir \in SUBSET FileRec /\ report \in [Reporters -> ReportRec]
      /\ report' \in [Reporters -> ReportRec]
  BY DEF TypeInv
<1>2. /\ \A t \in Collected(report') : t \in Collected(report) \/ \E f \in dir : f.body = <<t>>
      /\ UNCHANGED <<tracer, dir, opens, now, traced, imageOf>>
  BY ReadMoves
<1>3. Traces \subseteq TraceRec
  BY <1>1, TracesType DEF Traces
<1>4. \A f \in dir : \A t : f.body = <<t>> => f.body # <<>> /\ f.body[1] = t
  OBVIOUS
<1>5. Collected(report') \subseteq Collected(report) \cup Saved(dir)
  <2> SUFFICES ASSUME NEW t \in Collected(report'), t \notin Collected(report) PROVE t \in Saved(dir)
    OBVIOUS
  <2>1. PICK f \in dir : f.body = <<t>>
    BY <1>2
  <2>2. f.body # <<>> /\ t = f.body[1]
    BY <2>1
  <2> QED
    BY <1>1, <2>2, SavedType
<1>6. Traces' \subseteq Traces
  BY <1>2, <1>5 DEF Traces
<1>7. now \in Nat /\ \A o \in opens : o.at \in Nat
  BY DEF TypeInv
<1>8. AccessInv'
  BY <1>2, <1>3, <1>6, <1>7, AccessLess DEF AccessInv
<1>9. \A t \in Collected(report') : Ordered(t) /\ \A f \in dir' : f.id = t.id => f.body = <<t>>
  <2> TAKE t \in Collected(report')
  <2>1. CASE t \in Collected(report)
    BY <1>2, <2>1 DEF FilesInv
  <2>2. ASSUME NEW f \in dir, f.body = <<t>>
        PROVE  Ordered(t) /\ \A g \in dir' : g.id = t.id => g.body = <<t>>
    <3>1. f.body # <<>> /\ f.body[1] = t
      BY <1>4, <2>2
    <3>2. t.id = f.id /\ Ordered(t)
      BY <3>1 DEF FilesInv
    <3>3. \A g \in dir' : g.id = t.id => g = f
      BY <1>2, <3>2 DEF FilesInv
    <3> QED
      BY <2>2, <3>2, <3>3
  <2> QED
    BY <1>2, <2>1, <2>2
<1>10. FilesInv'
  BY <1>2, <1>9 DEF FilesInv
<1> QED
  BY <1>8, <1>10

\* A file that is removed is the one the report has read last, if it still is there: its
\* trace is in the report.
LEMMA RemoveMoves ==
  ASSUME TypeInv, FilesInv, IdleInv, NEW r \in Reporters, RemoveFile(r)
  PROVE  /\ dir' \subseteq dir /\ Collected(report') = Collected(report)
         /\ \A f \in dir : f.body = <<>> => f \in dir'
         /\ \A t \in Saved(dir) : t \in Saved(dir') \/ t \in Collected(report')
         /\ UNCHANGED <<tracer, opens, now, traced, imageOf>>
<1>1. dir \in SUBSET FileRec /\ report \in [Reporters -> ReportRec]
  BY DEF TypeInv
<1>2. /\ report[r].at = "removing" /\ report' = [report EXCEPT ![r].at = "reading"]
      /\ dir' = dir \/ dir' = dir \ Removed(r)
      /\ UNCHANGED <<tracer, opens, now, traced, imageOf>>
  BY DEF RemoveFile
<1>3. report' \in [Reporters -> ReportRec] /\ \A q \in Reporters : report'[q].got = report[q].got
  BY <1>1, <1>2 DEF ReportRec
<1>4. Collected(report') = Collected(report)
  <2>1. Collected(report) \subseteq Collected(report') /\ Collected(report') \subseteq Collected(report)
    BY <1>1, <1>3, CollectedLess
  <2> QED
    BY <2>1
<1> DEFINE got == report[r].got
           t == got[Len(got)]
<1>5. got \in Seq(TraceRec) /\ Len(got) > 0
  BY <1>1, <1>2 DEF ReportRec, IdleInv
<1>6. Len(got) \in 1..Len(got)
  BY <1>5, LenProperties
<1>7. t \in Collected(report)
  BY <1>1, <1>6, CollectedType
<1>8. Removed(r) = {f \in dir : f.id = t.id}
  BY DEF Removed
<1> HIDE DEF t, got
<1>9. \A f \in Removed(r) : f \in dir /\ f.body = <<t>>
  BY <1>7, <1>8 DEF FilesInv
<1>10. \A f \in Removed(r) : f.body # <<>> /\ f.body[1] = t
  BY <1>9
<1>11. \A f \in dir : f.body = <<>> => f \in dir'
  BY <1>2, <1>10
<1>12. \A u \in Saved(dir) : u \in Saved(dir') \/ u \in Collected(report')
  <2> TAKE u \in Saved(dir)
  <2>1. PICK f \in dir : f.body # <<>> /\ u = f.body[1]
    BY <1>1, SavedType
  <2>2. CASE f \in Removed(r)
    BY <1>4, <1>7, <1>10, <2>1, <2>2
  <2>3. CASE f \notin Removed(r)
    <3>1. f \in dir' /\ dir' \in SUBSET FileRec
      BY <1>1, <1>2, <2>3
    <3> QED
      BY <2>1, <3>1, SavedType
  <2> QED
    BY <2>2, <2>3
<1> QED
  BY <1>2, <1>4, <1>11, <1>12

LEMMA RemoveFiles ==
  ASSUME TypeInv, TypeInv', FilesInv, AccessInv, IdleInv, NEW r \in Reporters, RemoveFile(r)
  PROVE  FilesInv' /\ AccessInv'
<1>1. /\ tracer \in [Managers -> Bodies] /\ dir \in SUBSET FileRec /\ report \in [Reporters -> ReportRec]
      /\ now \in Nat /\ \A o \in opens : o.at \in Nat
  BY DEF TypeInv
<1>2. /\ dir' \subseteq dir /\ Collected(report') = Collected(report)
      /\ \A f \in dir : f.body = <<>> => f \in dir'
      /\ UNCHANGED <<tracer, opens, now, traced, imageOf>>
  BY RemoveMoves
<1>3. Traces \subseteq TraceRec
  BY <1>1, TracesType DEF Traces
<1>4. Saved(dir') \subseteq Saved(dir)
  BY <1>2 DEF Saved
<1>5. Traces' \subseteq Traces
  BY <1>2, <1>4 DEF Traces
<1>6. AccessInv'
  BY <1>1, <1>2, <1>3, <1>5, AccessLess DEF AccessInv
<1>7. \A m \in Managers : tracer'[m] # <<>> =>
        /\ tracer'[m][1].id[1] = m /\ tracer'[m][1].image = imageOf'[m]
        /\ [id |-> tracer'[m][1].id, body |-> <<>>] \in dir'
  BY <1>2 DEF FilesInv
<1>8. FilesInv'
  BY <1>2, <1>7 DEF FilesInv
<1> QED
  BY <1>6, <1>8

\* An open is logged.
LEMMA LogFiles ==
  ASSUME TypeInv, TypeInv', FilesInv, AccessInv, NEW o \in opens, LogTrace(o), tracer[o.manager] # <<>>
  PROVE  FilesInv' /\ AccessInv'
<1> DEFINE m == o.manager
           t == tracer[m][1]
           u == Logged(o)
           a == [image |-> imageOf[m], path |-> o.path, at |-> o.at]
<1>1. /\ tracer \in [Managers -> Bodies] /\ dir \in SUBSET FileRec /\ report \in [Reporters -> ReportRec]
      /\ tracer' \in [Managers -> Bodies]
  BY DEF TypeInv
<1>2. /\ m \in Managers /\ t \in TraceRec /\ u \in TraceRec
      /\ u.id = t.id /\ u.image = t.image /\ u.start = t.start
      /\ Len(u.seq) = Len(t.seq) + 1 /\ Len(t.seq) \in Nat
      /\ \A j \in 1..Len(t.seq) : u.seq[j] = t.seq[j]
      /\ u.seq[Len(t.seq) + 1] = Access(o, t)
      /\ tracer' = [tracer EXCEPT ![m] = <<u>>]
  BY LoggedType
<1>3. opens' = opens \ {o} /\ traced' = traced \cup {a} /\ UNCHANGED <<imageOf, dir, report, now>>
  BY DEF LogTrace, HasTracer
<1>4. a \in traced' /\ a.at = o.at /\ a.image = imageOf[m] /\ a.path = o.path
  BY <1>3
<1>5. t.id[1] = m /\ t.image = imageOf[m] /\ [id |-> t.id, body |-> <<>>] \in dir
  BY <1>2 DEF FilesInv
<1>6. tracer'[m] = <<u>> /\ \A n \in Managers : n # m => tracer'[n] = tracer[n]
  BY <1>1, <1>2
<1>7. t \in Running(tracer)
  BY <1>1, <1>2, TracesType
<1> HIDE DEF m, u, a
<1>8. \A v \in Traces' : v \in Traces \ {t} \/ v = u
  <2> TAKE v \in Traces'
  <2>1. CASE v \in Running(tracer')
    <3>1. PICK n \in Managers : tracer'[n] # <<>> /\ v = tracer'[n][1]
      BY <1>1, <2>1, TracesType
    <3>2. CASE n = m
      BY <1>6, <3>1, <3>2
    <3>3. CASE n # m
      <4>1. tracer[n] # <<>> /\ v = tracer[n][1]
        BY <1>6, <3>1, <3>3
      <4>2. v.id[1] = n /\ v \in Traces
        BY <1>1, <4>1, TracesType DEF FilesInv, Traces
      <4>3. v # t
        BY <1>5, <3>3, <4>2
      <4> QED
        BY <4>2, <4>3
    <3> QED
      BY <3>2, <3>3
  <2>2. CASE v \in Saved(dir')
    <3>1. PICK f \in dir : f.body # <<>> /\ v = f.body[1] /\ v \in Saved(dir)
      BY <1>1, <1>3, <2>2, SavedType
    <3>2. v.id = f.id
      BY <3>1 DEF FilesInv
    <3>3. f.id = t.id => f = [id |-> t.id, body |-> <<>>]
      BY <1>5 DEF FilesInv
    <3>4. v # t
      BY <3>1, <3>2, <3>3
    <3> QED
      BY <3>1, <3>4 DEF Traces
  <2>3. CASE v \in Collected(report')
    <3>1. v \in Collected(report)
      BY <1>3, <2>3
    <3>2. \A f \in dir : f.id = v.id => f.body = <<v>>
      BY <3>1 DEF FilesInv
    <3>3. \A f \in dir : f.id = v.id => f.body # <<>>
      BY <3>2
    <3>4. v # t
      BY <1>5, <3>3
    <3> QED
      BY <3>1, <3>4 DEF Traces
  <2> QED
    BY <2>1, <2>2, <2>3 DEF Traces
<1>9. AccessInv'
  <2> DEFINE ts == Traces
             us == Traces'
  <2>1. AccessOK(ts, opens, now, traced)
    BY DEF AccessInv
  <2>2. t \in ts /\ \A v \in us : v \in ts \ {t} \/ v = u
    BY <1>7, <1>8 DEF Traces
  <2> HIDE DEF ts, us, t
  <2>3. traced \subseteq traced' /\ a \in traced' /\ LogsIt(a, t, o)
    BY <1>3, <1>4, <1>5 DEF LogsIt
  <2>4. Adds(u, t, o)
    BY <1>2 DEF Adds
  <2>5. AccessOK(us, opens \ {o}, now, traced')
    BY <2>1, <2>2, <2>3, <2>4, AccessLogged
  <2> QED
    BY <1>3, <2>5 DEF us, AccessInv
<1>10. \A n \in Managers : tracer'[n] # <<>> =>
         /\ tracer'[n][1].id[1] = n /\ tracer'[n][1].image = imageOf'[n]
         /\ [id |-> tracer'[n][1].id, body |-> <<>>] \in dir'
  <2> SUFFICES ASSUME NEW n \in Managers, tracer'[n] # <<>>
               PROVE  /\ tracer'[n][1].id[1] = n /\ tracer'[n][1].image = imageOf'[n]
                      /\ [id |-> tracer'[n][1].id, body |-> <<>>] \in dir'
    OBVIOUS
  <2>1. CASE n = m
    <3>1. tracer'[n][1] = u
      BY <1>6, <2>1
    <3> QED
      BY <1>2, <1>3, <1>5, <2>1, <3>1
  <2>2. CASE n # m
    BY <1>3, <1>6, <2>2 DEF FilesInv
  <2> QED
    BY <2>1, <2>2
<1>11. FilesInv'
  BY <1>3, <1>10 DEF FilesInv
<1> QED
  BY <1>9, <1>11

LEMMA FilesStep ==
  ASSUME TypeInv, TypeInv', FilesInv, AccessInv, IdleInv, [Next]_vars
  PROVE  FilesInv' /\ AccessInv'
<1>1. now \in Nat /\ \A o \in opens : o.at \in Nat
  BY DEF TypeInv
<1>2. report \in [Reporters -> ReportRec] /\ report' \in [Reporters -> ReportRec]
  BY DEF TypeInv
<1>3. ASSUME NEW m \in Managers, NEW i \in Images, Register(m, i) PROVE FilesInv' /\ AccessInv'
  <2>1. /\ pull[m] = "none" /\ imageOf' = [imageOf EXCEPT ![m] = i]
        /\ UNCHANGED <<tracer, opens, dir, report, now, traced>>
    BY <1>3 DEF Register
  <2>2. \A n \in Managers : tracer[n] # <<>> => imageOf'[n] = imageOf[n]
    BY <2>1 DEF TypeInv
  <2> QED
    BY <1>1, <2>1, <2>2, SameFiles
<1>4. ASSUME NEW m \in Managers, CheckDefault(m) PROVE FilesInv' /\ AccessInv'
  BY <1>1, <1>4, SameFiles DEF CheckDefault
<1>5. ASSUME NEW m \in Managers, NEW i \in Images, Load(m, i) PROVE FilesInv' /\ AccessInv'
  <2>1. /\ pull[m] = "none" /\ imageOf' = [imageOf EXCEPT ![m] = i] /\ UNCHANGED <<opens, report, traced>>
    BY <1>5 DEF Load
  <2>2. tracer[m] = <<>> /\ imageOf'[m] = i /\ \A n \in Managers : tracer[n] # <<>> => imageOf'[n] = imageOf[n]
    BY <2>1 DEF TypeInv
  <2>3. CASE optimizer = <<>>
    BY <1>1, <1>5, <2>1, <2>2, <2>3, SameFiles DEF Load
  <2>4. CASE optimizer # <<>>
    <3>1. /\ tracer' = [tracer EXCEPT ![m] = <<NewTracer(m, i, optimizer[1])>>]
          /\ dir' = dir \cup {Fresh(m)} /\ now' = now + 2
      BY <1>5, <2>4 DEF Load
    <3>2. /\ tracer'[m] = <<NewTracer(m, imageOf'[m], optimizer[1])>>
          /\ \A n \in Managers \ {m} : tracer'[n] = tracer[n]
      BY <2>2, <3>1 DEF TypeInv
    <3> DEFINE ms == {m}
    <3>3. /\ \A n \in ms : tracer[n] = <<>> /\ \E g : tracer'[n] = <<NewTracer(n, imageOf'[n], g)>>
          /\ \A n \in Managers \ ms : tracer'[n] = tracer[n]
          /\ dir' = dir \cup {Fresh(n) : n \in ms} /\ ms \in SUBSET Managers
      BY <2>2, <3>1, <3>2
    <3> HIDE DEF ms
    <3> QED
      BY <2>1, <2>2, <3>1, <3>3, NewTracers
  <2> QED
    BY <2>3, <2>4
<1>6. ASSUME NEW m \in Managers, Enable(m) PROVE FilesInv' /\ AccessInv'
  <2>1. UNCHANGED <<imageOf, opens, report, traced>>
    BY <1>6 DEF Enable
  <2>2. CASE HasTracer(m)
    BY <1>1, <1>6, <2>1, <2>2, SameFiles DEF Enable
  <2>3. CASE ~HasTracer(m)
    <3>4. tracer[m] = <<>>
      BY <2>3 DEF HasTracer
    <3> DEFINE g == IF optimizer = <<>> THEN "" ELSE optimizer[1]
    <3>1. /\ tracer' = [tracer EXCEPT ![m] = <<NewTracer(m, imageOf[m], g)>>]
          /\ dir' = dir \cup {Fresh(m)} /\ now' = now + 2
      BY <1>6, <2>3 DEF Enable
    <3> HIDE DEF g
    <3>2. /\ tracer'[m] = <<NewTracer(m, imageOf'[m], g)>>
          /\ \A n \in Managers \ {m} : tracer'[n] = tracer[n]
      BY <2>1, <3>1 DEF TypeInv
    <3> DEFINE ms == {m}
    <3>3. /\ \A n \in ms : tracer[n] = <<>> /\ \E h : tracer'[n] = <<NewTracer(n, imageOf'[n], h)>>
          /\ \A n \in Managers \ ms : tracer'[n] = tracer[n]
          /\ dir' = dir \cup {Fresh(n) : n \in ms} /\ ms \in SUBSET Managers
      BY <3>1, <3>2, <3>4
    <3> HIDE DEF ms
    <3> QED
      BY <2>1, <3>1, <3>3, NewTracers
  <2> QED
    BY <2>2, <2>3
<1>7. ASSUME NEW g \in Groups, SetOptimizerOn(g) PROVE FilesInv' /\ AccessInv'
  <2> DEFINE ms == {m \in Registered : ~HasTracer(m)}
  <2>1. /\ tracer' = [m \in Managers |-> IF m \in ms THEN <<NewTracer(m, imageOf[m], g)>> ELSE tracer[m]]
        /\ dir' = dir \cup {Fresh(m) : m \in ms} /\ now' = now + 2
        /\ UNCHANGED <<imageOf, opens, report, traced>>
    BY <1>7 DEF SetOptimizerOn, Switched
  <2>2. ms \in SUBSET Managers /\ \A m \in ms : tracer[m] = <<>>
    BY DEF Registered, HasTracer
  <2> HIDE DEF ms
  <2>3. \A m \in ms : tracer[m] = <<>> /\ \E h : tracer'[m] = <<NewTracer(m, imageOf'[m], h)>>
    BY <2>1, <2>2
  <2>4. \A m \in Managers \ ms : tracer'[m] = tracer[m]
    BY <2>1
  <2> QED
    BY <2>1, <2>2, <2>3, <2>4, NewTracers
<1>8. CASE SetOptimizerOff
  <2>1. PICK unwritten \in SUBSET Registered : dir' = Written(Registered \ unwritten)
    BY <1>8 DEF SetOptimizerOff, SwitchedOff, Switched
  <2>2. /\ tracer' = [m \in Managers |-> IF m \in Registered THEN <<>> ELSE tracer[m]]
        /\ UNCHANGED <<imageOf, opens, report, now, traced>>
    BY <1>8 DEF SetOptimizerOff, SwitchedOff, Switched
  <2> DEFINE ms == Registered \ unwritten
  <2>3. ms \in SUBSET Managers
    BY RegisteredSet
  <2>4. \A m \in Managers : tracer'[m] = <<>> \/ (m \notin ms /\ tracer'[m] = tracer[m])
    BY <2>2
  <2> HIDE DEF ms
  <2> QED
    BY <2>1, <2>2, <2>3, <2>4, ClosedTracers DEF ms
<1>9. ASSUME NEW ms \in SUBSET Managers, Stop(ms) PROVE FilesInv' /\ AccessInv'
  <2>1. /\ dir' = Written(ms) /\ tracer' = [m \in Managers |-> <<>>] /\ opens' = {}
        /\ report' = [r \in Reporters |-> NoReport]
        /\ UNCHANGED <<imageOf, now, traced>>
    BY <1>9 DEF Stop
  <2>3. \A m \in Managers : tracer'[m] = <<>> \/ (m \notin ms /\ tracer'[m] = tracer[m])
    BY <2>1
  <2>4. \A r \in Reporters : report'[r].got \in {report[r].got, <<>>}
    BY <2>1 DEF NoReport
  <2>5. Collected(report') \subseteq Collected(report)
    BY <1>2, <2>4, CollectedLess
  <2>6. opens' \subseteq opens
    BY <2>1
  <2> QED
    BY <1>9, <2>1, <2>3, <2>5, <2>6, ClosedTracers
<1>10. ASSUME NEW o \in opens, LogTrace(o) PROVE FilesInv' /\ AccessInv'
  <2>1. CASE tracer[o.manager] = <<>>
    <3>1. /\ opens' \subseteq opens /\ traced \subseteq traced'
          /\ UNCHANGED <<tracer, dir, report, now, imageOf>>
      BY <1>10, <2>1 DEF LogTrace
    <3> QED
      BY <1>1, <3>1, SameFiles
  <2>2. CASE tracer[o.manager] # <<>>
    BY <1>10, <2>2, LogFiles
  <2> QED
    BY <2>1, <2>2
<1>11. ASSUME NEW m \in Managers, NEW p \in Paths, Open(m, p) PROVE FilesInv' /\ AccessInv'
  <2> DEFINE o == [manager |-> m, path |-> p, at |-> now]
             ts == Traces
  <2>1. opens' = opens \cup {o} /\ now' = now + 1 /\ UNCHANGED <<imageOf, tracer, dir, report, traced>>
    BY <1>11 DEF Open
  <2>2. o.at = now
    OBVIOUS
  <2> HIDE DEF o
  <2>3. AccessOK(ts, opens, now, traced) /\ ts \subseteq TraceRec
    BY TracesType DEF AccessInv, Traces, TypeInv
  <2> HIDE DEF ts
  <2>4. now' \in Nat /\ now <= now' /\ now < now'
    BY <1>1, <2>1
  <2>5. AccessOK(ts, opens, now', traced)
    BY <1>1, <2>3, <2>4, AccessLess
  <2>6. \A t \in ts : \A k \in 1..Len(t.seq) : t.seq[k].at < now
    BY <2>3 DEF AccessOK, TraceOK
  <2>7. \A q \in opens : q.at < now
    BY <2>3 DEF AccessOK
  <2>8. \A q \in opens' : q.at < now' /\ \A t \in ts : \A k \in 1..Len(t.seq) : t.seq[k].at # q.at
    <3> TAKE q \in opens'
    <3>1. CASE q \in opens
      BY <2>5, <3>1 DEF AccessOK
    <3>2. CASE q = o
      BY <1>1, <2>2, <2>4, <2>6, <3>2
    <3> QED
      BY <2>1, <3>1, <3>2
  <2>9. \A q, w \in opens' : q.at = w.at => q = w
    <3> TAKE q, w \in opens'
    <3>1. CASE q \in opens /\ w \in opens
      BY <2>3, <3>1 DEF AccessOK
    <3>2. CASE q = o \/ w = o
      BY <1>1, <2>1, <2>2, <2>7, <3>2
    <3> QED
      BY <2>1, <3>1, <3>2
  <2>10. AccessOK(ts, opens', now', traced)
    BY <2>5, <2>8, <2>9 DEF AccessOK
  <2>11. AccessInv'
    BY <2>1, <2>10 DEF AccessInv, ts, Traces
  <2>12. \A f \in dir : f.id[2] < now'
    <3>1. \A f \in dir : f.id[2] \in Nat
      BY DEF TypeInv, FileRec
    <3> QED
      BY <1>1, <2>4, <3>1 DEF FilesInv
  <2>13. FilesInv'
    BY <2>1, <2>12 DEF FilesInv
  <2> QED
    BY <2>11, <2>13
<1>12. ASSUME NEW r \in Reporters, ReportStep(r) PROVE FilesInv' /\ AccessInv'
  <2>1. CASE Read(r)
    BY <2>1, ReadFiles
  <2>3. CASE RemoveFile(r)
    BY <2>3, RemoveFiles
  <2>2. CASE ReadDir(r) \/ Upload(r)
    <3>1. UNCHANGED <<imageOf, tracer, opens, dir, now, traced>>
      BY <2>2 DEF ReadDir, Upload
    <3>2. \/ report' = [report EXCEPT ![r] = NoReport]
          \/ report' = [report EXCEPT ![r] = [at |-> "reading", files |-> {f.id : f \in dir}, got |-> <<>>]]
      BY <2>2 DEF ReadDir, Upload
    <3>3. \A q \in Reporters : report'[q].got \in {report[q].got, <<>>}
      BY <1>2, <3>2 DEF NoReport
    <3>4. Collected(report') \subseteq Collected(report)
      BY <1>2, <3>3, CollectedLess
    <3> QED
      BY <1>1, <3>1, <3>4, SameFiles
  <2> QED
    BY <1>12, <2>1, <2>2, <2>3 DEF ReportStep
<1>13. CASE UNCHANGED vars
  BY <1>1, <1>13, SameFiles DEF vars
<1> QED
  BY <1>3, <1>4, <1>5, <1>6, <1>7, <1>8, <1>9, <1>10, <1>11, <1>12, <1>13 DEF Next

LEMMA FilesInit == Init => FilesInv /\ AccessInv
<1> SUFFICES ASSUME Init PROVE FilesInv /\ AccessInv
  OBVIOUS
<1>1. TypeInv
  BY TypeInit
<1>2. /\ tracer \in [Managers -> Bodies] /\ dir = {} /\ opens = {} /\ report \in [Reporters -> ReportRec]
      /\ \A m \in Managers : tracer[m] = <<>>
      /\ \A r \in Reporters : report[r].got = <<>>
  BY <1>1 DEF Init, TypeInv, NoReport
<1>3. Running(tracer) = {} /\ Saved(dir) = {}
  BY <1>2, RunningType DEF Saved
<1>4. Collected(report) = {}
  BY <1>2, EmptySeq, CollectedType
<1> QED
  BY <1>2, <1>3, <1>4 DEF FilesInv, AccessInv, AccessOK, Traces

\* In every state the traces are where they belong, and whole.
LEMMA FilesHold == Spec => [](FilesInv /\ AccessInv /\ IdleInv)
<1>1. Init => TypeInv /\ FilesInv /\ AccessInv
  BY TypeInit, FilesInit
<1>2. Init => IdleInv
  BY DEF Init, IdleInv, NoReport
<1>3. TypeInv /\ TypeInv' /\ FilesInv /\ AccessInv /\ IdleInv /\ [Next]_vars => FilesInv' /\ AccessInv'
  BY FilesStep
<1>4. TypeInv /\ IdleInv /\ [Next]_vars => IdleInv'
  BY IdleStep
<1> QED
  BY <1>1, <1>2, <1>3, <1>4, Typed, PTL DEF Spec

-----------------------------------------------------------------------------
(* No trace is lost.                                                       *)

\* The times of the accesses of a set of traces.
LEMMA TimesType ==
  ASSUME NEW ts \in SUBSET TraceRec
  PROVE  \A x : x \in TimesOf(ts) <=> \E t \in ts : \E k \in 1..Len(t.seq) : t.seq[k].at = x
<1>1. \A t \in ts : DOMAIN t.seq = 1..Len(t.seq)
  <2> TAKE t \in ts
  <2>1. t.seq \in Seq(AccessRec)
    BY DEF TraceRec
  <2> QED
    BY <2>1, LenProperties
<1> DEFINE In(x, t) == \E k \in 1..Len(t.seq) : t.seq[k].at = x
<1>2. \A t \in ts : \A x : x \in Times(t) <=> In(x, t)
  BY <1>1 DEF Times, Range
<1> HIDE DEF In
<1>3. \A x : x \in TimesOf(ts) <=> \E t \in ts : x \in Times(t)
  BY DEF TimesOf
<1>4. \A x : x \in TimesOf(ts) <=> \E t \in ts : In(x, t)
  BY <1>2, <1>3
<1> QED
  BY <1>4 DEF In

\* Where the accesses are.
Somewhere(x, ts, up, gone) == x \in TimesOf(ts) \cup up \cup gone
Covers(u, t) == \A k \in 1..Len(t.seq) : \E j \in 1..Len(u.seq) : u.seq[j].at = t.seq[k].at

LEMMA KeptInPlaces ==
  ASSUME NEW tr \in [Managers -> Bodies], NEW d \in SUBSET FileRec, NEW rep \in [Reporters -> ReportRec], NEW x
  PROVE  x \in TimesOf(Running(tr) \cup Saved(d) \cup Collected(rep))
           <=> x \in TimesOf(Running(tr)) \cup TimesOf(Saved(d)) \cup TimesOf(Collected(rep))
BY DEF TimesOf

LEMMA KeptMoves ==
  ASSUME NEW ts \in SUBSET TraceRec, NEW us \in SUBSET TraceRec, NEW up, NEW gone, NEW up2, NEW gone2,
         up \subseteq up2, gone \subseteq gone2,
         \A t \in ts : \/ \E u \in us : Covers(u, t)
                       \/ \A k \in 1..Len(t.seq) : t.seq[k].at \in up2 \cup gone2,
         NEW x, Somewhere(x, ts, up, gone)
  PROVE  Somewhere(x, us, up2, gone2)
<1>1. CASE x \in TimesOf(ts)
  <2>1. PICK t \in ts : \E k \in 1..Len(t.seq) : t.seq[k].at = x
    BY <1>1, TimesType
  <2>2. PICK k \in 1..Len(t.seq) : t.seq[k].at = x
    BY <2>1
  <2>3. CASE \E u \in us : Covers(u, t)
    <3>1. PICK u \in us : \E j \in 1..Len(u.seq) : u.seq[j].at = x
      BY <2>2, <2>3 DEF Covers
    <3>2. x \in TimesOf(us)
      BY <3>1, TimesType
    <3> QED
      BY <3>2 DEF Somewhere
  <2>4. CASE \A i \in 1..Len(t.seq) : t.seq[i].at \in up2 \cup gone2
    BY <2>2, <2>4 DEF Somewhere
  <2> QED
    BY <2>3, <2>4
<1> QED
  BY <1>1 DEF Somewhere

\* Closing a tracer leaves its trace in its file, and the other files as they are.
LEMMA WrittenKeeps ==
  ASSUME TypeInv, TypeInv', FilesInv, AccessInv, NEW ms \in SUBSET Managers, dir' = Written(ms)
  PROVE  /\ \A t \in Saved(dir) : t \in Saved(dir')
         /\ \A m \in ms : tracer[m] # <<>> =>
              Closed(tracer[m][1]) \in Saved(dir') /\ Covers(Closed(tracer[m][1]), tracer[m][1])
<1>1. /\ dir \in SUBSET FileRec /\ dir' \in SUBSET FileRec /\ tracer \in [Managers -> Bodies]
      /\ report \in [Reporters -> ReportRec]
  BY DEF TypeInv
<1> DEFINE Untouched(f) == \A m \in ms : tracer[m] = <<>> \/ tracer[m][1].id # f.id
           Touched(g, f) == \E m \in ms : /\ tracer[m] # <<>> /\ tracer[m][1].id = f.id
                                          /\ g = [f EXCEPT !.body = <<Closed(tracer[m][1])>>]
<1>2. /\ \A g \in dir' : \E f \in dir : g.id = f.id /\ ((g = f /\ Untouched(f)) \/ Touched(g, f))
      /\ \A f \in dir : \E g \in dir' : g.id = f.id /\ (Untouched(f) => g = f)
  BY WrittenType
<1>3. ASSUME NEW t \in Saved(dir) PROVE t \in Saved(dir')
  <2>1. PICK f \in dir : f.body # <<>> /\ t = f.body[1]
    BY <1>1, SavedType
  <2>2. ASSUME NEW m \in ms, tracer[m] # <<>>, tracer[m][1].id = f.id PROVE FALSE
    <3> DEFINE e == [id |-> tracer[m][1].id, body |-> <<>>]
    <3>1. e \in dir
      BY <2>2 DEF FilesInv
    <3>2. e.id = f.id /\ e.body = <<>>
      BY <2>2
    <3> HIDE DEF e
    <3>3. e = f
      BY <3>1, <3>2 DEF FilesInv
    <3> QED
      BY <2>1, <3>2, <3>3
  <2>3. Untouched(f)
    BY <2>2
  <2> HIDE DEF Untouched, Touched
  <2>4. f \in dir'
    BY <1>2, <2>3
  <2> QED
    BY <1>1, <2>1, <2>4, SavedType
<1>4. ASSUME NEW m \in ms, tracer[m] # <<>>
      PROVE  Closed(tracer[m][1]) \in Saved(dir') /\ Covers(Closed(tracer[m][1]), tracer[m][1])
  <2> DEFINE t == tracer[m][1]
             f == [id |-> t.id, body |-> <<>>]
  <2>1. f \in dir /\ t.id[1] = m /\ f.id = t.id
    BY <1>4 DEF FilesInv
  <2>2. t \in TraceRec /\ TraceOK(t, now, traced)
    <3>1. t \in Traces
      BY <1>1, <1>4, TracesType DEF Traces
    <3>2. Traces \subseteq TraceRec
      BY <1>1, TracesType DEF Traces
    <3> QED
      BY <3>1, <3>2 DEF AccessInv, AccessOK
  <2> HIDE DEF f
  <2>3. PICK g \in dir' : g.id = f.id
    BY <1>2, <2>1
  <2>4. PICK e \in dir : g.id = e.id /\ ((g = e /\ Untouched(e)) \/ Touched(g, e))
    BY <1>2
  <2>5. e.id = f.id
    BY <2>3, <2>4
  <2>6. e = f
    BY <2>1, <2>5 DEF FilesInv
  <2>7. ~Untouched(f)
    BY <1>4, <2>1
  <2>8. Touched(g, f)
    BY <2>4, <2>6, <2>7
  <2>9. PICK n \in ms : /\ tracer[n] # <<>> /\ tracer[n][1].id = f.id
                        /\ g = [f EXCEPT !.body = <<Closed(tracer[n][1])>>]
    BY <2>8
  <2>10. tracer[n][1].id[1] = n
    BY <2>9 DEF FilesInv
  <2>11. n = m
    BY <2>1, <2>9, <2>10
  <2>12. f \in FileRec
    BY <1>1, <2>1
  <2>13. g.body = <<Closed(t)>>
    BY <2>9, <2>11, <2>12 DEF FileRec
  <2>14. g.body # <<>> /\ g.body[1] = Closed(t)
    BY <2>13
  <2>15. Closed(t) \in Saved(dir')
    BY <1>1, <2>14, SavedType
  <2>16. \A k \in 1..Len(t.seq) : \E j \in 1..Len(Closed(t).seq) : Closed(t).seq[j] = t.seq[k]
    BY <2>2, ClosedKeeps
  <2>17. Covers(Closed(t), t)
    BY <2>16 DEF Covers
  <2> QED
    BY <2>15, <2>17
<1> QED
  BY <1>3, <1>4

LEMMA KeptStep ==
  ASSUME TypeInv, TypeInv', FilesInv, AccessInv, IdleInv, TraceKept, [Next]_vars
  PROVE  TraceKept'
<1>1. /\ tracer \in [Managers -> Bodies] /\ dir \in SUBSET FileRec /\ report \in [Reporters -> ReportRec]
      /\ tracer' \in [Managers -> Bodies] /\ dir' \in SUBSET FileRec /\ report' \in [Reporters -> ReportRec]
  BY DEF TypeInv
<1> DEFINE ts == Traces
           us == Traces'
           There(t) == \E u \in us : Covers(u, t)
           Gone(t) == \A k \in 1..Len(t.seq) : t.seq[k].at \in sent' \cup lost'
           Moved == /\ \A t \in ts : There(t) \/ Gone(t)
                    /\ sent \subseteq sent' /\ lost \subseteq lost'
<1>2. ts \in SUBSET TraceRec /\ us \in SUBSET TraceRec
  BY <1>1, TracesType DEF Traces
<1>3. \A a \in traced : Somewhere(a.at, ts, sent, lost)
  <2> SUFFICES ASSUME NEW a \in traced PROVE Somewhere(a.at, ts, sent, lost)
    OBVIOUS
  <2> DEFINE x == a.at
  <2>1. x \in TimesOf(Running(tracer)) \cup TimesOf(Saved(dir)) \cup TimesOf(Collected(report)) \cup sent \cup lost
    BY DEF TraceKept, Running, Saved, Collected
  <2>2. x \in TimesOf(Running(tracer) \cup Saved(dir) \cup Collected(report))
          <=> x \in TimesOf(Running(tracer)) \cup TimesOf(Saved(dir)) \cup TimesOf(Collected(report))
    BY <1>1, KeptInPlaces
  <2> QED
    BY <2>1, <2>2 DEF Somewhere, Traces
<1>4. ASSUME \A a \in traced' : Somewhere(a.at, us, sent', lost') PROVE TraceKept'
  <2> SUFFICES ASSUME NEW a \in traced'
               PROVE  a.at \in TimesOf(Running(tracer')) \cup TimesOf(Saved(dir'))
                              \cup TimesOf(Collected(report')) \cup sent' \cup lost'
    BY DEF TraceKept, Running, Saved, Collected
  <2> DEFINE x == a.at
  <2>1. x \in TimesOf(us) \cup sent' \cup lost'
    BY <1>4 DEF Somewhere
  <2>2. x \in TimesOf(Running(tracer') \cup Saved(dir') \cup Collected(report'))
          <=> x \in TimesOf(Running(tracer')) \cup TimesOf(Saved(dir')) \cup TimesOf(Collected(report'))
    BY <1>1, KeptInPlaces
  <2> QED
    BY <2>1, <2>2 DEF Traces
<1>5. /\ ts = Running(tracer) \cup Saved(dir) \cup Collected(report)
      /\ us = Running(tracer') \cup Saved(dir') \cup Collected(report')
  BY DEF Traces
<1> HIDE DEF ts, us
<1>6. ASSUME Moved, traced' = traced PROVE TraceKept'
  <2> SUFFICES ASSUME NEW a \in traced PROVE Somewhere(a.at, us, sent', lost')
    BY <1>4, <1>6
  <2> QED
    BY <1>2, <1>3, <1>6, KeptMoves
<1>7. \A t : Covers(t, t)
  BY DEF Covers
<1>8. \A t \in us : There(t)
  BY <1>7
<1> HIDE DEF There
\* What the tracers have stays there, or goes to their files.
<1>9. ASSUME \A m \in Managers : tracer[m] # <<>> => tracer'[m] = tracer[m] PROVE \A t \in Running(tracer) : There(t)
  BY <1>1, <1>5, <1>8, <1>9, TracesType
<1>10. ASSUME dir \subseteq dir' PROVE \A t \in Saved(dir) : There(t)
  BY <1>5, <1>8, <1>10 DEF Saved
<1>11. ASSUME Collected(report) \subseteq Collected(report') PROVE \A t \in Collected(report) : There(t)
  BY <1>5, <1>8, <1>11
<1>12. ASSUME \A m \in Managers : tracer[m] # <<>> => tracer'[m] = tracer[m],
              dir \subseteq dir', UNCHANGED <<report, sent, lost, traced>>
       PROVE  TraceKept'
  <2>1. \A t \in ts : There(t)
    BY <1>5, <1>9, <1>10, <1>11, <1>12
  <2> QED
    BY <1>6, <1>12, <2>1
<1>13. ASSUME NEW m \in Managers, NEW i \in Images, Register(m, i) \/ Load(m, i) PROVE TraceKept'
  <2>1. CASE Register(m, i)
    BY <1>12, <2>1 DEF Register
  <2>2. CASE Load(m, i)
    <3>1. tracer[m] = <<>> /\ dir \subseteq dir' /\ UNCHANGED <<report, sent, lost, traced>>
      BY <2>2 DEF Load, TypeInv
    <3>2. \/ tracer' = tracer
          \/ tracer' = [tracer EXCEPT ![m] = <<NewTracer(m, i, optimizer[1])>>]
      BY <2>2 DEF Load
    <3>3. \A n \in Managers : tracer[n] # <<>> => tracer'[n] = tracer[n]
      BY <1>1, <3>1, <3>2
    <3> QED
      BY <1>12, <3>1, <3>3
  <2> QED
    BY <1>13, <2>1, <2>2
<1>14. ASSUME NEW m \in Managers, CheckDefault(m) PROVE TraceKept'
  BY <1>12, <1>14 DEF CheckDefault
<1>15. ASSUME NEW m \in Managers, Enable(m) PROVE TraceKept'
  <2> DEFINE g == IF optimizer = <<>> THEN "" ELSE optimizer[1]
  <2>1. dir \subseteq dir' /\ UNCHANGED <<report, sent, lost, traced>>
    BY <1>15 DEF Enable
  <2>2. \/ tracer' = tracer
        \/ tracer[m] = <<>> /\ tracer' = [tracer EXCEPT ![m] = <<NewTracer(m, imageOf[m], g)>>]
    BY <1>15 DEF Enable, HasTracer
  <2> HIDE DEF g
  <2>3. \A n \in Managers : tracer[n] # <<>> => tracer'[n] = tracer[n]
    BY <1>1, <2>2
  <2> QED
    BY <1>12, <2>1, <2>3
<1>16. ASSUME NEW g \in Groups, SetOptimizerOn(g) PROVE TraceKept'
  <2>1. dir \subseteq dir' /\ UNCHANGED <<report, sent, lost, traced>>
    BY <1>16 DEF SetOptimizerOn
  <2>2. \A n \in Managers : tracer[n] # <<>> => tracer'[n] = tracer[n]
    BY <1>16 DEF SetOptimizerOn, HasTracer
  <2> QED
    BY <1>12, <2>1, <2>2
\* What is written goes to its file, and what is not written or was collected is lost.
<1>23. \A t \in TraceRec : \A k \in 1..Len(t.seq) : t.seq[k].at \in Times(t)
  <2> TAKE t \in TraceRec
  <2>1. t.seq \in Seq(AccessRec)
    BY DEF TraceRec
  <2>2. DOMAIN t.seq = 1..Len(t.seq)
    BY <2>1, LenProperties
  <2> QED
    BY <2>2 DEF Times, Range
<1>24. ASSUME NEW ms \in SUBSET Managers, NEW ns \in SUBSET Managers, dir' = Written(ms),
              \A m \in Managers : m \in ms \/ m \in ns \/ tracer'[m] = tracer[m],
              TimesOf(UNION {Range(tracer[m]) : m \in ns}) \subseteq lost'
       PROVE  (\A t \in Saved(dir) : There(t)) /\ \A t \in Running(tracer) : There(t) \/ Gone(t)
  <2>1. /\ \A t \in Saved(dir) : t \in Saved(dir')
        /\ \A m \in ms : tracer[m] # <<>> =>
             Closed(tracer[m][1]) \in Saved(dir') /\ Covers(Closed(tracer[m][1]), tracer[m][1])
    BY <1>24, WrittenKeeps
  <2>2. \A t \in Saved(dir) : There(t)
    BY <1>5, <1>8, <2>1
  <2>3. \A t \in Running(tracer) : There(t) \/ Gone(t)
    <3> TAKE t \in Running(tracer)
    <3>1. PICK m \in Managers : tracer[m] # <<>> /\ t = tracer[m][1] /\ t \in TraceRec
      BY <1>1, TracesType
    <3>2. CASE m \in ms
      BY <1>5, <2>1, <3>1, <3>2 DEF There
    <3>3. CASE m \in ns
      <4>1. t \in Range(tracer[m])
        <5>1. tracer[m] = <<t>>
          BY <1>1, <3>1, BodyType
        <5> QED
          BY <5>1 DEF Range
      <4>2. Times(t) \subseteq TimesOf(UNION {Range(tracer[n]) : n \in ns})
        BY <3>3, <4>1 DEF TimesOf
      <4> QED
        BY <1>23, <1>24, <3>1, <4>2
    <3>4. CASE tracer'[m] = tracer[m]
      <4>1. tracer'[m] # <<>> /\ t = tracer'[m][1]
        BY <3>1, <3>4
      <4> QED
        BY <1>1, <1>5, <1>8, <4>1, TracesType
    <3> QED
      BY <1>24, <3>2, <3>3, <3>4
  <2> QED
    BY <2>2, <2>3
<1>17. CASE SetOptimizerOff
  <2>1. PICK unwritten \in SUBSET {m \in Registered : tracer[m] # <<>>} :
          /\ dir' = Written(Registered \ unwritten)
          /\ lost' = lost \cup TimesOf(UNION {Range(tracer[m]) : m \in unwritten})
    BY <1>17 DEF SetOptimizerOff, SwitchedOff, Switched
  <2>2. /\ tracer' = [m \in Managers |-> IF m \in Registered THEN <<>> ELSE tracer[m]]
        /\ UNCHANGED <<report, sent, traced>>
    BY <1>17 DEF SetOptimizerOff, SwitchedOff, Switched
  <2> DEFINE ms == Registered \ unwritten
  <2>3. ms \in SUBSET Managers /\ unwritten \in SUBSET Managers
    BY <2>1, RegisteredSet
  <2>4. \A m \in Managers : m \in ms \/ m \in unwritten \/ tracer'[m] = tracer[m]
    BY <2>2
  <2>5. dir' = Written(ms)
    BY <2>1
  <2> HIDE DEF ms, Gone
  <2>6. (\A t \in Saved(dir) : There(t)) /\ \A t \in Running(tracer) : There(t) \/ Gone(t)
    BY <1>24, <2>1, <2>3, <2>4, <2>5
  <2>7. \A t \in Collected(report) : There(t)
    BY <1>11, <2>2
  <2>8. \A t \in ts : There(t) \/ Gone(t)
    BY <1>5, <2>6, <2>7
  <2> QED
    BY <1>6, <2>1, <2>2, <2>8 DEF Gone
<1>18. ASSUME NEW written \in SUBSET Managers, Stop(written) PROVE TraceKept'
  <2> DEFINE ns == Managers \ written
  <2>1. /\ dir' = Written(written) /\ UNCHANGED <<sent, traced>>
        /\ lost' = lost \cup TimesOf(UNION {Range(tracer[m]) : m \in ns})
                        \cup TimesOf(Collected(report))
    BY <1>18 DEF Stop, Collected
  <2>2. ns \in SUBSET Managers /\ \A m \in Managers : m \in written \/ m \in ns
    OBVIOUS
  <2> HIDE DEF ns
  <2>3. \A t \in Collected(report) : Gone(t)
    <3> TAKE t \in Collected(report)
    <3>1. t \in TraceRec /\ Times(t) \subseteq TimesOf(Collected(report))
      BY <1>1, TracesType DEF TimesOf
    <3> QED
      BY <1>23, <2>1, <3>1
  <2> HIDE DEF Gone
  <2>4. (\A t \in Saved(dir) : There(t)) /\ \A t \in Running(tracer) : There(t) \/ Gone(t)
    BY <1>18, <1>24, <2>1, <2>2
  <2>5. \A t \in ts : There(t) \/ Gone(t)
    BY <1>5, <2>3, <2>4
  <2> QED
    BY <1>6, <2>1, <2>5 DEF Gone
<1>19. ASSUME NEW o \in opens, LogTrace(o) PROVE TraceKept'
  <2>1. UNCHANGED <<dir, report, sent>> /\ lost \subseteq lost'
    BY <1>19 DEF LogTrace
  <2>2. CASE tracer[o.manager] = <<>>
    <3>1. tracer' = tracer
      BY <1>19, <2>2 DEF LogTrace
    <3>2. Moved
      BY <1>5, <1>9, <1>10, <1>11, <2>1, <3>1
    <3> HIDE DEF Moved
    <3>3. ASSUME NEW a \in traced' PROVE Somewhere(a.at, us, sent', lost')
      <4>1. CASE a \in traced
        BY <1>2, <1>3, <3>2, <4>1, KeptMoves DEF Moved, There
      <4>2. CASE a \notin traced
        <5>1. a.at = o.at /\ o.manager \in stuck
          BY <1>19, <2>2, <4>2 DEF LogTrace, HasTracer
        <5>2. a.at \in lost'
          BY <1>19, <2>2, <5>1 DEF LogTrace
        <5> QED
          BY <5>2 DEF Somewhere
      <4> QED
        BY <4>1, <4>2
    <3> QED
      BY <1>4, <3>3
  <2>3. CASE tracer[o.manager] # <<>>
    <3> DEFINE m == o.manager
               t == tracer[m][1]
               u == Logged(o)
    <3>1. /\ m \in Managers /\ t \in TraceRec /\ u \in TraceRec
          /\ Len(u.seq) = Len(t.seq) + 1 /\ Len(t.seq) \in Nat
          /\ \A j \in 1..Len(t.seq) : u.seq[j] = t.seq[j]
          /\ u.seq[Len(t.seq) + 1] = Access(o, t)
          /\ tracer' = [tracer EXCEPT ![m] = <<u>>]
      BY <1>19, <2>3, LoggedType
    <3>2. traced' = traced \cup {[image |-> imageOf[m], path |-> o.path, at |-> o.at]}
      BY <1>19, <2>3 DEF LogTrace, HasTracer
    <3> HIDE DEF m, u
    <3>3. tracer'[m] = <<u>> /\ \A n \in Managers : n # m => tracer'[n] = tracer[n]
      BY <1>1, <3>1
    <3>4. u \in Running(tracer')
      <4>1. tracer'[m] # <<>> /\ tracer'[m][1] = u
        BY <3>3
      <4> QED
        BY <1>1, <3>1, <4>1, TracesType
    <3>5. u \in us
      BY <1>5, <3>4
    <3> HIDE DEF t
    <3>6. \A k \in 1..Len(t.seq) : k \in 1..Len(u.seq)
      BY <3>1
    <3>7. Covers(u, t)
      BY <3>1, <3>6 DEF Covers
    <3>8. \A v \in Running(tracer) : There(v)
      <4> TAKE v \in Running(tracer)
      <4>1. PICK n \in Managers : tracer[n] # <<>> /\ v = tracer[n][1]
        BY <1>1, TracesType
      <4>2. CASE n = m
        BY <3>5, <3>7, <4>1, <4>2 DEF There, t
      <4>3. CASE n # m
        <5>1. tracer'[n] # <<>> /\ v = tracer'[n][1]
          BY <3>3, <4>1, <4>3
        <5> QED
          BY <1>1, <1>5, <1>8, <5>1, TracesType
      <4> QED
        BY <4>2, <4>3
    <3>9. Moved
      BY <1>5, <1>10, <1>11, <2>1, <3>8
    <3> HIDE DEF Moved
    <3>10. Len(t.seq) + 1 \in 1..Len(u.seq) /\ u.seq[Len(t.seq) + 1].at = o.at
      BY <3>1 DEF Access
    <3>11. o.at \in TimesOf(us)
      BY <1>2, <3>5, <3>10, TimesType
    <3>12. ASSUME NEW a \in traced' PROVE Somewhere(a.at, us, sent', lost')
      <4>1. CASE a \in traced
        BY <1>2, <1>3, <3>9, <4>1, KeptMoves DEF Moved, There
      <4>2. CASE a.at = o.at
        BY <3>11, <4>2 DEF Somewhere
      <4> QED
        BY <3>2, <4>1, <4>2
    <3> QED
      BY <1>4, <3>12
  <2> QED
    BY <2>2, <2>3
<1>20. ASSUME NEW m \in Managers, NEW p \in Paths, Open(m, p) PROVE TraceKept'
  BY <1>12, <1>20 DEF Open
<1>21. ASSUME NEW r \in Reporters, ReportStep(r) PROVE TraceKept'
  <2>1. UNCHANGED <<tracer, traced>>
    BY <1>21 DEF ReportStep, ReadDir, Read, RemoveFile, Upload
  <2>2. CASE ReadDir(r)
    <3>1. /\ report[r].at = "idle" /\ UNCHANGED <<dir, sent, lost>>
          /\ report' = [report EXCEPT ![r] = [at |-> "reading", files |-> {f.id : f \in dir}, got |-> <<>>]]
      BY <2>2 DEF ReadDir
    <3>2. \A q \in Reporters : report[q].got \in {report'[q].got, <<>>}
      BY <1>1, <3>1 DEF IdleInv
    <3>3. Collected(report) \subseteq Collected(report')
      BY <1>1, <3>2, CollectedLess
    <3> QED
      BY <1>5, <1>6, <1>9, <1>10, <1>11, <2>1, <3>1, <3>3
  <2>3. CASE Read(r)
    <3>1. Collected(report) \subseteq Collected(report') /\ UNCHANGED <<dir, sent, lost>>
      BY <2>3, ReadMoves DEF Read
    <3> QED
      BY <1>5, <1>6, <1>9, <1>10, <1>11, <2>1, <3>1
  <2>5. CASE RemoveFile(r)
    <3>1. /\ Collected(report) = Collected(report') /\ UNCHANGED <<sent, lost>>
          /\ \A t \in Saved(dir) : t \in Saved(dir') \/ t \in Collected(report')
      BY <2>5, RemoveMoves DEF RemoveFile
    <3>2. \A t \in Saved(dir) : There(t)
      BY <1>5, <1>8, <3>1
    <3> QED
      BY <1>5, <1>6, <1>9, <1>11, <2>1, <3>1, <3>2
  <2>4. CASE Upload(r)
    <3>1. /\ report' = [report EXCEPT ![r] = NoReport] /\ dir' = dir
          /\ sent \subseteq sent' /\ lost \subseteq lost'
          /\ TimesOf(Range(report[r].got)) \subseteq sent' \cup lost'
      BY <2>4 DEF Upload
    <3>2. \A t \in Collected(report) : There(t) \/ Gone(t)
      <4> TAKE t \in Collected(report)
      <4>1. PICK q \in Reporters : \E k \in 1..Len(report[q].got) : t = report[q].got[k]
        BY <1>1, CollectedType
      <4>2. CASE q # r
        <5>1. report'[q].got = report[q].got
          BY <1>1, <3>1, <4>2
        <5>2. t \in Collected(report')
          BY <1>1, <4>1, <5>1, CollectedType
        <5> QED
          BY <1>5, <1>8, <5>2
      <4>3. CASE q = r
        <5>1. report[r].got \in Seq(TraceRec)
          BY <1>1 DEF ReportRec
        <5>2. t \in TraceRec /\ t \in Range(report[r].got)
          <6>1. DOMAIN report[r].got = 1..Len(report[r].got)
            BY <5>1, LenProperties
          <6>2. t \in TraceRec
            BY <1>1, TracesType
          <6> QED
            BY <4>1, <4>3, <6>1, <6>2 DEF Range
        <5>3. t.seq \in Seq(AccessRec)
          BY <5>2 DEF TraceRec
        <5>4. DOMAIN t.seq = 1..Len(t.seq)
          BY <5>3, LenProperties
        <5>5. \A k \in 1..Len(t.seq) : t.seq[k].at \in Times(t)
          BY <5>4 DEF Times, Range
        <5>6. Times(t) \subseteq TimesOf(Range(report[r].got))
          BY <5>2 DEF TimesOf
        <5> QED
          BY <3>1, <5>5, <5>6
      <4> QED
        BY <4>2, <4>3
    <3>3. (\A t \in Running(tracer) : There(t)) /\ \A t \in Saved(dir) : There(t)
      BY <1>9, <1>10, <2>1, <3>1
    <3> HIDE DEF Gone
    <3>4. \A t \in ts : There(t) \/ Gone(t)
      BY <1>5, <3>2, <3>3
    <3> QED
      BY <1>6, <2>1, <3>1, <3>4 DEF Gone
  <2> QED
    BY <1>21, <2>2, <2>3, <2>4, <2>5 DEF ReportStep
<1>22. CASE UNCHANGED vars
  BY <1>12, <1>22 DEF vars
<1> QED
  BY <1>13, <1>14, <1>15, <1>16, <1>17, <1>18, <1>19, <1>20, <1>21, <1>22 DEF Next

\* No trace disappears between its tracer, its file, a report and the proxy, except with the
\* process, with a file that could not be written or closed, or with a failed upload: closing
\* writes what is in memory before it is forgotten, and a report removes only files it has
\* read, however it overlaps with another one.
THEOREM NothingLost == Spec => []TraceKept
<1>1. Init => TraceKept
  BY DEF Init, TraceKept
<1>2. TypeInv /\ TypeInv' /\ FilesInv /\ AccessInv /\ IdleInv /\ TraceKept /\ [Next]_vars => TraceKept'
  BY KeptStep
<1> QED
  BY <1>1, <1>2, Typed, FilesHold, PTL DEF Spec

-----------------------------------------------------------------------------
(* The ranks.                                                              *)

LEMMA LengthType ==
  ASSUME NEW T, NEW n \in Nat, NEW f \in [1..n -> T]
  PROVE  f \in Seq(T) /\ Len(f) = n
<1>1. f \in Seq(T)
  BY SeqDef
<1>2. DOMAIN f = 1..n /\ DOMAIN f = 1..Len(f) /\ Len(f) \in Nat
  BY <1>1, LenProperties
<1> QED
  BY <1>1, <1>2

LEMMA MinType ==
  ASSUME NEW S \in SUBSET Nat, S # {}
  PROVE  Min(S) \in S /\ \A y \in S : Min(S) <= y
<1>1. \E x \in S : \A y \in S : ~ (<<y, x>> \in OpToRel(<, Nat))
  BY NatLessThanWellFounded, WFMin
<1>2. PICK x \in S : \A y \in S : ~ (<<y, x>> \in OpToRel(<, Nat))
  BY <1>1
<1>3. \A y \in S : y \in Nat /\ x \in Nat /\ ~ (y < x)
  BY <1>2 DEF OpToRel
<1>4. \A y \in S : x <= y
  BY <1>3
<1> QED
  BY <1>4 DEF Min

\* The greatest of some numbers is the one that is nearest to the end.
LEMMA MaxType ==
  ASSUME NEW n \in Nat, NEW S \in SUBSET (1..n), S # {}
  PROVE  Max(S) \in S
<1> DEFINE ToEnd == {n - x : x \in S}
<1>1. ToEnd \in SUBSET Nat /\ ToEnd # {}
  <2>1. \A x \in S : x \in 1..n
    OBVIOUS
  <2>2. \A x \in S : n - x \in Nat
    BY <2>1
  <2> QED
    BY <2>2
<1>2. Min(ToEnd) \in ToEnd /\ \A y \in ToEnd : Min(ToEnd) <= y
  <2> HIDE DEF ToEnd
  <2> QED
    BY <1>1, MinType
<1>3. PICK x \in S : Min(ToEnd) = n - x
  BY <1>2
<1>4. \A y \in S : n - x <= n - y
  BY <1>2, <1>3
<1>5. \A y \in S : x >= y
  <2>1. \A y \in S : y \in 1..n /\ y \in Int /\ x \in Int
    OBVIOUS
  <2> QED
    BY <1>4, <2>1
<1> QED
  BY <1>5 DEF Max

LEMMA FiniteRange ==
  ASSUME NEW S, IsFiniteSet(S), NEW f, DOMAIN f = S
  PROVE  IsFiniteSet({f[x] : x \in S})
<1> DEFINE T == {f[x] : x \in S}
           g == [x \in S |-> f[x]]
<1>1. g \in Surjection(S, T)
  BY DEF Surjection
<1> HIDE DEF T, g
<1>2. IsFiniteSet(T)
  BY <1>1, FS_Surjection
<1> QED
  BY <1>2 DEF T

\* What a report has to be for its ranks to be right.
GotOK(got) ==
  /\ \A k \in 1..Len(got) : Ordered(got[k]) /\ TraceOK(got[k], now, traced)
  /\ \A j, k \in 1..Len(got) : Shares(got[j], got[k]) => got[j] = got[k]

\* An access of an item that is the one of an open.
ItemOK(x, images, logged) ==
  \E a \in logged : a.at = x.at /\ a.path[2] = x.name /\ a.path[1] = x.stack /\ a.image = images[x.image]
HistoryOK(g, logged) ==
  /\ Len(g.history) \in Nat
  /\ \A j, k \in 1..Len(g.history) : j < k => g.history[j].at < g.history[k].at
  /\ g.key # Default => \A k \in 1..Len(g.history) : ItemOK(g.history[k], g.images, logged)

LEMMA FirstsType ==
  ASSUME NEW seq \in Seq(AccessRec)
  PROVE  Firsts(seq) \in SUBSET (1..Len(seq)) /\ IsFiniteSet(Firsts(seq))
<1>1. Firsts(seq) \in SUBSET (1..Len(seq)) /\ Len(seq) \in Nat
  BY LenProperties DEF Firsts
<1>2. IsFiniteSet(1..Len(seq))
  BY <1>1, FS_Interval
<1> QED
  BY <1>1, <1>2, FS_Subset

\* The items of a trace of the default group are in its order.
LEMMA DefaultHistory ==
  ASSUME NEW t \in TraceRec, Ordered(t), t.group = Default, NEW logged
  PROVE  HistoryOK(DefaultGroup(t), logged)
<1> DEFINE first == Kept(t.seq, Firsts(t.seq))
           history == [k \in DOMAIN first |-> Item(first[k], 0, first[k].access, 1)]
           T == {history[k] : k \in DOMAIN first}
<1>1. t.seq \in Seq(AccessRec) /\ Firsts(t.seq) \in SUBSET (1..Len(t.seq))
  BY FirstsType DEF TraceRec
<1>2. first \in Seq(AccessRec) /\ \E p : Keeps(first, t.seq, Firsts(t.seq), p)
  BY <1>1, KeptType
<1>3. DefaultGroup(t).history = history /\ DefaultGroup(t).key = Default
  BY DEF DefaultGroup
<1> HIDE DEF first
<1>4. Len(first) \in Nat /\ DOMAIN first = 1..Len(first)
  BY <1>2, LenProperties
<1>5. history \in [1..Len(first) -> T]
  BY <1>4
<1>6. \A k \in 1..Len(first) : history[k].at = first[k].at
  BY <1>4 DEF Item
<1> HIDE DEF history, T
<1>7. Len(history) = Len(first)
  BY <1>4, <1>5, LengthType
<1>8. PICK p : Keeps(first, t.seq, Firsts(t.seq), p)
  BY <1>2
<1>9. ASSUME NEW j \in 1..Len(first), NEW k \in 1..Len(first), j < k PROVE first[j].at < first[k].at
  <2>1. p[j] \in 1..Len(t.seq) /\ p[k] \in 1..Len(t.seq) /\ p[j] < p[k] /\ first[j] = t.seq[p[j]] /\ first[k] = t.seq[p[k]]
    BY <1>1, <1>8, <1>9 DEF Keeps
  <2>2. PICK i \in 1..Len(t.seq) : i = p[j] /\ first[j] = t.seq[i]
    BY <2>1
  <2>3. PICK h \in 1..Len(t.seq) : h = p[k] /\ first[k] = t.seq[h]
    BY <2>1
  <2>4. t.seq[i].at < t.seq[h].at
    BY <2>1, <2>2, <2>3 DEF Ordered
  <2> QED
    BY <2>2, <2>3, <2>4
<1> QED
  BY <1>3, <1>4, <1>6, <1>7, <1>9 DEF HistoryOK

\* Traces that are merged: several, and each as a report has it.
MergeOK(ts, logged, clock) ==
  /\ Len(ts) > 0
  /\ \A k \in 1..Len(ts) : TraceOK(ts[k], clock, logged)
  /\ \A j, k \in 1..Len(ts) : Shares(ts[j], ts[k]) => ts[j] = ts[k]

\* The images of the group, and the place of the one of a trace.
LEMMA SourceType ==
  ASSUME NEW ts \in Seq(TraceRec), NEW k \in 1..Len(ts)
  PROVE  ImagesOf(ts)[SourceImage(k, ts)] = ts[k].image
<1> DEFINE images == [j \in 1..Len(ts) |-> ts[j].image]
           s == Arranged(images, 1..Len(ts), images)
           S == {j \in 1..Len(ts) : s[j] = ts[k].image}
<1>1. Len(ts) \in Nat /\ \A j \in 1..Len(ts) : ts[j].image \in Images /\ ts[j].image \in Int
  <2>1. Len(ts) \in Nat /\ \A j \in 1..Len(ts) : ts[j] \in TraceRec
    BY LenProperties, ElementOfSeq
  <2>2. \A j \in 1..Len(ts) : ts[j].image \in Images
    BY <2>1 DEF TraceRec
  <2>3. \A i \in Images : i \in Int
    BY OptimizerAssumption
  <2> QED
    BY <2>1, <2>2, <2>3
<1>2. images \in [1..Len(ts) -> Images] /\ images \in [1..Len(ts) -> Int]
      /\ \A j \in 1..Len(ts) : images[j] = ts[j].image
  BY <1>1
<1>3. ImagesOf(ts) = s
  BY DEF ImagesOf
<1> HIDE DEF images
<1>4. images \in Seq(Images) /\ Len(images) = Len(ts)
  BY <1>1, <1>2, LengthType
<1>5. 1..Len(ts) \in SUBSET (1..Len(images))
  BY <1>4
<1>6. Len(s) = Cardinality(1..Len(ts)) /\ \E p : Arranges(s, images, 1..Len(ts), images, p)
  BY <1>2, <1>4, <1>5, ArrangedType
<1> HIDE DEF s
<1>7. Len(s) = Len(ts)
  BY <1>1, <1>6, FS_Interval
<1>8. PICK p : Arranges(s, images, 1..Len(ts), images, p)
  BY <1>6
<1>9. p \in [1..Len(ts) -> 1..Len(ts)] /\ Range(p) = 1..Len(ts) /\ \A j \in 1..Len(ts) : s[j] = images[p[j]]
  BY <1>7, <1>8 DEF Arranges
<1>10. PICK j \in 1..Len(ts) : p[j] = k
  BY <1>9 DEF Range
<1>11. s[j] = ts[k].image
  BY <1>2, <1>9, <1>10
<1>12. S \in SUBSET (1..Len(ts)) /\ S # {}
  BY <1>11
<1>13. SourceImage(k, ts) = Max(S)
  BY <1>3 DEF SourceImage
<1>14. \A i \in S : s[i] = ts[k].image
  OBVIOUS
<1> HIDE DEF S
<1>15. Max(S) \in S
  BY <1>1, <1>12, MaxType
<1> QED
  BY <1>3, <1>13, <1>14, <1>15

\* The items of the group, one by one; there are finitely many.
MergedItem(k, j, ts) ==
  Item(ts[k].seq[j], ts[k].seq[j].stack, ts[k].seq[j].access + Offset(ts[k], ts), SourceImage(k, ts))

LEMMA ItemsType ==
  ASSUME NEW ts \in Seq(TraceRec), Len(ts) > 0
  PROVE  /\ \A x \in MergedItems(ts) : \E k \in 1..Len(ts) : \E j \in 1..Len(ts[k].seq) : x = MergedItem(k, j, ts)
         /\ IsFiniteSet(MergedItems(ts))
         /\ Earliest(ts) \in Nat /\ \A x \in MergedItems(ts) : x.access \in Int
<1>1. Len(ts) \in Nat /\ DOMAIN ts = 1..Len(ts) /\ \A k \in 1..Len(ts) : ts[k] \in TraceRec
  BY LenProperties, ElementOfSeq
<1>2. \A k \in 1..Len(ts) : ts[k].seq \in Seq(AccessRec) /\ ts[k].start \in Nat
  BY <1>1 DEF TraceRec
<1>3. \A k \in 1..Len(ts) : Firsts(ts[k].seq) \in SUBSET (1..Len(ts[k].seq)) /\ IsFiniteSet(Firsts(ts[k].seq))
  BY <1>2, FirstsType
<1> DEFINE Of(k) == {MergedItem(k, j, ts) : j \in Firsts(ts[k].seq)}
           sets == {Of(k) : k \in 1..Len(ts)}
<1>4. MergedItems(ts) = UNION sets
  BY DEF MergedItems, MergedItem
<1>5. \A x \in MergedItems(ts) : \E k \in 1..Len(ts) : \E j \in 1..Len(ts[k].seq) : x = MergedItem(k, j, ts)
  <2> TAKE x \in MergedItems(ts)
  <2>1. PICK k \in 1..Len(ts) : x \in Of(k)
    BY <1>4
  <2>2. PICK j \in Firsts(ts[k].seq) : x = MergedItem(k, j, ts)
    BY <2>1
  <2>3. j \in 1..Len(ts[k].seq)
    BY <1>3, <2>2
  <2> QED
    BY <2>2, <2>3
<1>6. ASSUME NEW k \in 1..Len(ts) PROVE IsFiniteSet(Of(k))
  <2> DEFINE F == Firsts(ts[k].seq)
             f == [j \in F |-> MergedItem(k, j, ts)]
             R == {f[j] : j \in F}
  <2>1. Of(k) = R
    OBVIOUS
  <2>2. IsFiniteSet(F) /\ DOMAIN f = F
    BY <1>3
  <2> HIDE DEF F, f
  <2>3. IsFiniteSet(R)
    BY <2>2, FiniteRange
  <2> QED
    BY <2>1, <2>3
<1> HIDE DEF Of
<1>7. IsFiniteSet(sets)
  <2> DEFINE f == [k \in 1..Len(ts) |-> Of(k)]
             R == {f[k] : k \in 1..Len(ts)}
  <2>1. sets = R
    OBVIOUS
  <2>2. IsFiniteSet(1..Len(ts)) /\ DOMAIN f = 1..Len(ts)
    BY <1>1, FS_Interval
  <2> HIDE DEF f
  <2>3. IsFiniteSet(R)
    BY <2>2, FiniteRange
  <2> QED
    BY <2>1, <2>3
<1>8. \A S \in sets : IsFiniteSet(S)
  BY <1>6
<1> HIDE DEF sets
<1>9. IsFiniteSet(MergedItems(ts))
  BY <1>4, <1>7, <1>8, FS_UNION
<1>10. Earliest(ts) \in Nat
  <2> DEFINE starts == {t.start : t \in Range(ts)}
  <2>1. \A t \in Range(ts) : t.start \in Nat
    BY <1>1, <1>2 DEF Range
  <2>2. ts[1] \in Range(ts)
    BY <1>1 DEF Range
  <2>3. starts \in SUBSET Nat /\ starts # {}
    BY <2>1, <2>2
  <2>4. Earliest(ts) = Min(starts)
    BY DEF Earliest
  <2> HIDE DEF starts
  <2> QED
    BY <2>3, <2>4, MinType
<1>11. \A x \in MergedItems(ts) : x.access \in Int
  <2> TAKE x \in MergedItems(ts)
  <2>1. PICK k \in 1..Len(ts) : \E j \in 1..Len(ts[k].seq) : x = MergedItem(k, j, ts)
    BY <1>5
  <2>2. PICK j \in 1..Len(ts[k].seq) : x = MergedItem(k, j, ts)
    BY <2>1
  <2>3. ts[k].seq[j] \in AccessRec
    BY <1>2, ElementOfSeq
  <2>4. ts[k].seq[j].access \in Int /\ ts[k].start \in Nat
    BY <1>2, <2>3 DEF AccessRec
  <2>5. x.access = ts[k].seq[j].access + (ts[k].start - Earliest(ts))
    BY <2>2 DEF MergedItem, Item, Offset
  <2> QED
    BY <1>10, <2>4, <2>5
<1> QED
  BY <1>5, <1>9, <1>10, <1>11

LEMMA MergedHistory ==
  ASSUME NEW ts \in Seq(TraceRec), NEW logged, NEW clock, MergeOK(ts, logged, clock)
  PROVE  HistoryOK(MergedGroup(ts), logged)
<1> DEFINE items == MergedItems(ts)
           n == Cardinality(items)
           key == [x \in items |-> x.access]
           h == SortedBy(items, key)
           E == Earliest(ts)
<1>1. /\ \A x \in items : \E k \in 1..Len(ts) : \E j \in 1..Len(ts[k].seq) : x = MergedItem(k, j, ts)
      /\ IsFiniteSet(items) /\ E \in Nat /\ \A x \in items : x.access \in Int
  <2>1. Len(ts) > 0
    BY DEF MergeOK
  <2> QED
    BY <2>1, ItemsType
<1>2. MergedGroup(ts).history = h /\ MergedGroup(ts).images = ImagesOf(ts)
  BY DEF MergedGroup
<1>3. \A k \in 1..Len(ts) : ts[k] \in TraceRec /\ ts[k].seq \in Seq(AccessRec) /\ ts[k].start \in Nat
  <2>1. \A k \in 1..Len(ts) : ts[k] \in TraceRec
    BY ElementOfSeq
  <2> QED
    BY <2>1 DEF TraceRec
\* An item is an access, and its time counts from the earliest start.
<1>4. \A k \in 1..Len(ts) : \A j \in 1..Len(ts[k].seq) :
        /\ ts[k].seq[j].at \in Nat
        /\ MergedItem(k, j, ts).at = ts[k].seq[j].at /\ MergedItem(k, j, ts).name = ts[k].seq[j].name
        /\ MergedItem(k, j, ts).stack = ts[k].seq[j].stack
        /\ MergedItem(k, j, ts).image = SourceImage(k, ts)
        /\ MergedItem(k, j, ts).access = ts[k].seq[j].at - E
  <2> TAKE k \in 1..Len(ts)
  <2> TAKE j \in 1..Len(ts[k].seq)
  <2>1. ts[k].seq[j] \in AccessRec
    BY <1>3, ElementOfSeq
  <2>2. ts[k].seq[j].at \in Nat /\ ts[k].seq[j].access = ts[k].seq[j].at - ts[k].start
    BY <2>1 DEF AccessRec, MergeOK, TraceOK
  <2>3. MergedItem(k, j, ts).access = ts[k].seq[j].access + (ts[k].start - E)
    BY DEF MergedItem, Item, Offset
  <2>4. ts[k].start \in Nat
    BY <1>3
  <2>5. MergedItem(k, j, ts).access = ts[k].seq[j].at - E
    <3> HIDE DEF E
    <3> QED
      BY <1>1, <2>2, <2>3, <2>4
  <2> QED
    BY <2>2, <2>5 DEF MergedItem, Item
<1> HIDE DEF items, E
\* Two items with the same time are the same: they are one access of one trace.
<1>5. ASSUME NEW x \in items, NEW y \in items, x.at = y.at PROVE x = y
  <2>1. PICK k \in 1..Len(ts) : \E j \in 1..Len(ts[k].seq) : x = MergedItem(k, j, ts)
    BY <1>1
  <2>2. PICK j \in 1..Len(ts[k].seq) : x = MergedItem(k, j, ts)
    BY <2>1
  <2>3. PICK l \in 1..Len(ts) : \E i \in 1..Len(ts[l].seq) : y = MergedItem(l, i, ts)
    BY <1>1
  <2>4. PICK i \in 1..Len(ts[l].seq) : y = MergedItem(l, i, ts)
    BY <2>3
  <2>5. ts[k].seq[j].at = ts[l].seq[i].at
    BY <1>4, <1>5, <2>2, <2>4
  <2>6. ts[k] = ts[l]
    BY <2>5 DEF Shares, MergeOK
  <2>7. j = i
    BY <2>5, <2>6 DEF MergeOK, TraceOK
  <2>8. SourceImage(k, ts) = SourceImage(l, ts)
    BY <2>6 DEF SourceImage
  <2> QED
    BY <2>2, <2>4, <2>6, <2>7, <2>8 DEF MergedItem
<1>6. key \in [items -> Int] /\ \A x \in items : key[x] = x.access
  BY <1>1
<1> HIDE DEF key
<1>7. /\ n \in Nat /\ h \in [1..n -> items]
      /\ \A j, k \in 1..n : (j < k => key[h[j]] <= key[h[k]]) /\ (h[j] = h[k] => j = k)
  BY <1>1, <1>6, SortedByType
<1> HIDE DEF n, h
<1>8. Len(h) = n
  BY <1>7, LengthType
<1>9. \A x \in items : x.at \in Nat /\ key[x] = x.at - E
  <2> TAKE x \in items
  <2>1. PICK k \in 1..Len(ts) : \E j \in 1..Len(ts[k].seq) : x = MergedItem(k, j, ts)
    BY <1>1
  <2>2. PICK j \in 1..Len(ts[k].seq) : x = MergedItem(k, j, ts)
    BY <2>1
  <2> QED
    BY <1>4, <1>6, <2>2
<1>10. ASSUME NEW j \in 1..n, NEW k \in 1..n, j < k PROVE h[j].at < h[k].at
  <2>1. h[j] \in items /\ h[k] \in items /\ key[h[j]] <= key[h[k]] /\ h[j] # h[k]
    <3>1. j # k
      BY <1>7, <1>10
    <3> QED
      BY <1>7, <1>10, <3>1
  <2>2. h[j].at # h[k].at
    BY <1>5, <2>1
  <2>3. h[j].at \in Nat /\ h[k].at \in Nat /\ key[h[j]] = h[j].at - E /\ key[h[k]] = h[k].at - E
    BY <1>9, <2>1
  <2>4. h[j].at - E <= h[k].at - E
    BY <2>1, <2>3
  <2> QED
    BY <1>1, <2>2, <2>3, <2>4
\* An item is the access of an open of the image its number stands for.
<1>11. ASSUME NEW x \in items PROVE ItemOK(x, ImagesOf(ts), logged)
  <2>1. PICK k \in 1..Len(ts) : \E j \in 1..Len(ts[k].seq) : x = MergedItem(k, j, ts)
    BY <1>1
  <2>2. PICK j \in 1..Len(ts[k].seq) : x = MergedItem(k, j, ts)
    BY <2>1
  <2>3. PICK a \in logged : /\ a.at = ts[k].seq[j].at /\ a.image = ts[k].image
                            /\ a.path[1] = ts[k].seq[j].stack /\ a.path[2] = ts[k].seq[j].name
    BY DEF MergeOK, TraceOK
  <2>4. /\ x.at = ts[k].seq[j].at /\ x.name = ts[k].seq[j].name /\ x.stack = ts[k].seq[j].stack
        /\ x.image = SourceImage(k, ts)
    BY <1>4, <2>2
  <2>5. ImagesOf(ts)[x.image] = ts[k].image
    BY <2>4, SourceType
  <2> QED
    BY <2>3, <2>4, <2>5 DEF ItemOK
<1>12. \A k \in 1..n : ItemOK(h[k], ImagesOf(ts), logged)
  BY <1>7, <1>11
<1> QED
  BY <1>2, <1>7, <1>8, <1>10, <1>12 DEF HistoryOK

\* The groups of a report.
LEMMA GroupsType ==
  ASSUME NEW got \in Seq(TraceRec), GotOK(got), NEW g \in GroupsOf(got)
  PROVE  HistoryOK(g, traced)
<1>1. Len(got) \in Nat /\ \A k \in 1..Len(got) : got[k] \in TraceRec
  BY LenProperties, ElementOfSeq
<1>2. ASSUME NEW k \in 1..Len(got), got[k].group = Default, g = DefaultGroup(got[k])
      PROVE  HistoryOK(g, traced)
  BY <1>1, <1>2, DefaultHistory DEF GotOK
<1>3. ASSUME NEW name \in {got[k].group : k \in 1..Len(got)}, g = MergedGroup(TracesOf(got, name))
      PROVE  HistoryOK(g, traced)
  <2> DEFINE places == {k \in 1..Len(got) : got[k].group = name}
             ts == TracesOf(got, name)
  <2>1. ts = Kept(got, places)
    BY DEF TracesOf
  <2>2. places \in SUBSET (1..Len(got)) /\ places # {}
    OBVIOUS
  <2> HIDE DEF places, ts
  <2>3. ts \in Seq(TraceRec) /\ \E p : Keeps(ts, got, places, p)
    BY <2>1, <2>2, KeptType
  <2>4. PICK p : Keeps(ts, got, places, p)
    BY <2>3
  <2>5. \A k \in 1..Len(ts) : p[k] \in 1..Len(got) /\ ts[k] = got[p[k]]
    BY <2>2, <2>4 DEF Keeps
  <2>6. Len(ts) > 0
    <3>1. PICK x \in places : x \in Range(p)
      BY <2>2, <2>4 DEF Keeps
    <3>2. \E k \in 1..Len(ts) : p[k] = x
      BY <2>4, <3>1 DEF Keeps, Range
    <3>3. Len(ts) \in Nat
      BY <2>3, LenProperties
    <3> QED
      BY <3>2, <3>3
  <2>7. \A k \in 1..Len(ts) : \E i \in 1..Len(got) : ts[k] = got[i]
    BY <2>5
  <2>8. MergeOK(ts, traced, now)
    <3>1. \A k \in 1..Len(ts) : TraceOK(ts[k], now, traced)
      BY <2>7 DEF GotOK
    <3>2. \A j, k \in 1..Len(ts) : Shares(ts[j], ts[k]) => ts[j] = ts[k]
      BY <2>7 DEF GotOK
    <3> QED
      BY <2>6, <3>1, <3>2 DEF MergeOK
  <2>9. HistoryOK(MergedGroup(ts), traced)
    BY <2>3, <2>8, MergedHistory
  <2> QED
    BY <1>3, <2>9 DEF ts
<1> QED
  BY <1>2, <1>3 DEF GroupsOf

\* What the proxy keeps of a group: the places of its history.
RankOK(x) ==
  /\ x.rank \in Nat /\ Len(x.group.history) \in Nat /\ x.rank + 1 \in 1..Len(x.group.history)
  /\ x.at = x.group.history[x.rank + 1].at
  /\ \A j, k \in 1..Len(x.group.history) : j < k => x.group.history[j].at < x.group.history[k].at
OrderInv == \A x \in order : RankOK(x)

LEMMA RanksType ==
  ASSUME NEW g, HistoryOK(g, traced), NEW x \in Ranks(g)
  PROVE  /\ RankOK(x)
         /\ x.group.key # Default =>
              \E a \in traced : a.at = x.at /\ a.path[2] = x.name /\ Layer[a.image][a.path[1]] = x.layer
<1>1. PICK k \in 1..Len(g.history) :
        x = [group |-> g, rank |-> k - 1, name |-> g.history[k].name, at |-> g.history[k].at,
             layer |-> Layer[g.images[g.history[k].image]][g.history[k].stack]]
  BY DEF Ranks
<1>2. /\ x.group = g /\ x.rank = k - 1 /\ x.name = g.history[k].name /\ x.at = g.history[k].at
      /\ x.layer = Layer[g.images[g.history[k].image]][g.history[k].stack]
  BY <1>1
<1>3. Len(g.history) \in Nat /\ k \in Nat /\ k > 0
  BY DEF HistoryOK
<1>4. x.rank \in Nat /\ x.rank + 1 = k
  BY <1>2, <1>3
<1>5. RankOK(x)
  BY <1>2, <1>3, <1>4 DEF RankOK, HistoryOK
<1>6. ASSUME g.key # Default
      PROVE  \E a \in traced : a.at = x.at /\ a.path[2] = x.name /\ Layer[a.image][a.path[1]] = x.layer
  BY <1>2, <1>6 DEF HistoryOK, ItemOK
<1> QED
  BY <1>2, <1>5, <1>6

LEMMA OrderStep ==
  ASSUME TypeInv, FilesInv, AccessInv, OrderInv, RankOfItsFile, [Next]_vars
  PROVE  OrderInv' /\ RankOfItsFile'
<1>1. ASSUME order' = order, traced \subseteq traced' PROVE OrderInv' /\ RankOfItsFile'
  BY <1>1 DEF OrderInv, RankOfItsFile
<1>2. ASSUME NEW o \in opens, LogTrace(o) PROVE OrderInv' /\ RankOfItsFile'
  BY <1>1, <1>2 DEF LogTrace
<1>3. ASSUME NEW r \in Reporters, ReportStep(r) PROVE OrderInv' /\ RankOfItsFile'
  <2>1. CASE ReadDir(r) \/ Read(r) \/ RemoveFile(r)
    BY <1>1, <2>1 DEF ReadDir, Read, RemoveFile
  <2>2. CASE Upload(r)
    <3> DEFINE got == report[r].got
    <3>1. got \in Seq(TraceRec) /\ report \in [Reporters -> ReportRec]
      BY DEF TypeInv, ReportRec
    <3>2. \A k \in 1..Len(got) : got[k] \in Collected(report) /\ got[k] \in Traces
      BY <3>1, CollectedType DEF Traces
    <3> HIDE DEF got
    <3>3. GotOK(got)
      <4>1. \A t \in Collected(report) : Ordered(t)
        BY DEF FilesInv
      <4>2. (\A t \in Traces : TraceOK(t, now, traced)) /\ \A t, u \in Traces : Shares(t, u) => t = u
        BY DEF AccessInv, AccessOK
      <4> HIDE DEF Traces
      <4>3. \A k \in 1..Len(got) : Ordered(got[k]) /\ TraceOK(got[k], now, traced)
        BY <3>2, <4>1, <4>2
      <4>4. \A j, k \in 1..Len(got) : Shares(got[j], got[k]) => got[j] = got[k]
        BY <3>2, <4>2
      <4> QED
        BY <4>3, <4>4 DEF GotOK
    <3>4. \A x \in order' : x \in order \/ \E g \in GroupsOf(got) : x \in Ranks(g)
      <4>1. \/ order' = order
            \/ \E done \in SUBSET GroupsOf(got) : order' = order \cup UNION {Ranks(g) : g \in done}
        BY <2>2 DEF Upload, got
      <4>2. ASSUME NEW done \in SUBSET GroupsOf(got), order' = order \cup UNION {Ranks(g) : g \in done}
            PROVE  \A x \in order' : x \in order \/ \E g \in GroupsOf(got) : x \in Ranks(g)
        BY <4>2
      <4> QED
        BY <4>1, <4>2
    <3>5. traced' = traced
      BY <2>2 DEF Upload
    <3>6. \A x \in order' : \/ x \in order
                            \/ /\ RankOK(x)
                               /\ x.group.key # Default =>
                                    \E a \in traced : a.at = x.at /\ a.path[2] = x.name /\ Layer[a.image][a.path[1]] = x.layer
      BY <3>1, <3>3, <3>4, GroupsType, RanksType
    <3> QED
      BY <3>5, <3>6 DEF OrderInv, RankOfItsFile
  <2> QED
    BY <1>3, <2>1, <2>2 DEF ReportStep
<1> QED
  BY <1>1, <1>2, <1>3
     DEF Next, Register, Load, CheckDefault, Enable, Open, SetOptimizerOn, SetOptimizerOff, Stop, vars

LEMMA OrderHolds == Spec => [](OrderInv /\ RankOfItsFile)
<1>1. Init => OrderInv /\ RankOfItsFile
  BY DEF Init, OrderInv, RankOfItsFile
<1>2. TypeInv /\ FilesInv /\ AccessInv /\ OrderInv /\ RankOfItsFile /\ [Next]_vars => OrderInv' /\ RankOfItsFile'
  BY OrderStep
<1> QED
  BY <1>1, <1>2, Typed, FilesHold, PTL DEF Spec

\* The ranks of a group are in the order of the accesses, over all its containers, whatever
\* their starts and however long each access waited (the sort in client/fs/tracer.go is by the
\* offset from the earliest start).
THEOREM InAccessOrder == Spec => []RankFollowsAccess
<1>1. OrderInv => RankFollowsAccess
  <2> SUFFICES ASSUME OrderInv, NEW x \in order, NEW y \in order, x.group = y.group, x.rank < y.rank
               PROVE  x.at < y.at
    BY DEF RankFollowsAccess
  <2>1. RankOK(x) /\ RankOK(y)
    BY DEF OrderInv
  <2>2. /\ x.rank + 1 \in 1..Len(x.group.history) /\ y.rank + 1 \in 1..Len(x.group.history)
        /\ x.rank \in Nat /\ y.rank \in Nat
        /\ x.at = x.group.history[x.rank + 1].at /\ y.at = x.group.history[y.rank + 1].at
        /\ \A j, k \in 1..Len(x.group.history) : j < k => x.group.history[j].at < x.group.history[k].at
    BY <2>1 DEF RankOK
  <2>3. x.rank + 1 < y.rank + 1
    BY <2>2
  <2> QED
    BY <2>2, <2>3
<1> QED
  BY <1>1, OrderHolds, PTL

\* A rank is the one of a file that was opened, of the layer of the image and the stack it was
\* opened at: the image an item refers to is found again after the images were sorted.
THEOREM OfItsFile == Spec => []RankOfItsFile
BY OrderHolds, PTL
=============================================================================
